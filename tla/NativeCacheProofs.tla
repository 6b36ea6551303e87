-------------------------- MODULE NativeCacheProofs --------------------------
(***************************************************************************)
(* What holds of the cache of native code for every number of threads,     *)
(* functions and buffers, every hash and every bound: the safety           *)
(* properties of NativeCache.  They are proved from one inductive          *)
(* invariant, CacheInv.                                                    *)
(***************************************************************************)
EXTENDS NativeCache, FiniteSetTheorems, TLAPS

(* The steps at which a call holds the address of native code.             *)
WithEntry == {"run_cached", "evict_cached", "insert", "forget", "run_fresh", "evict_fresh"}

(* A published address is mapped and holds code of its key.                *)
CachedMapped ==
  \A k \in Keys : cache[k] # NoBuffer => cache[k] \in mapped /\ KeyOf[code[cache[k]]] = k

(* So does one that a call holds, and other calls hold none.               *)
EntryMapped ==
  \A t \in Threads :
    IF step[t] \in WithEntry THEN entry[t] \in mapped /\ KeyOf[code[entry[t]]] = Key(t)
                             ELSE entry[t] = NoBuffer

(* A JitBuffer is forgotten before its code runs: Drop unmaps nothing.     *)
OwnedUntilForgotten ==
  \A t \in Threads : owned[t] # NoBuffer => step[t] \in {"insert", "forget"}

(* Only the thread that mapped a buffer knows it before it is inserted.    *)
FreshIsPrivate ==
  \A t \in Threads :
    step[t] = "insert" =>
      /\ entry[t] \notin retired
      /\ \A k \in Keys : cache[k] # entry[t]
      /\ \A u \in Threads \ {t} : entry[u] # entry[t]

(* Only code that may give up is evicted.                                  *)
EvictedGaveUp ==
  \A t \in Threads : step[t] \in {"evict_cached", "evict_fresh"} => code[entry[t]] \notin Steady

CacheInv ==
  /\ TypeOK
  /\ CachedMapped
  /\ EntryMapped
  /\ OwnedUntilForgotten
  /\ FreshIsPrivate
  /\ EvictedGaveUp
  /\ RetiredStaysOut
  /\ CacheBounded

-----------------------------------------------------------------------------
(* A call that has forgotten its buffer, or never had one, unmaps nothing  *)
(* when it ends.                                                           *)
LEMMA NothingUnmapped ==
  ASSUME CacheInv, NEW t \in Threads, step[t] \notin {"insert", "forget"}, LeaveScope(t)
  PROVE  code' = code /\ owned' = owned
  <1>1. owned[t] = NoBuffer
    BY DEF CacheInv, OwnedUntilForgotten
  <1>2. mapped \ {owned[t]} = mapped
    BY <1>1, CacheAssumption DEF CacheInv, TypeOK
  <1>3. code' = code
    BY <1>2 DEF LeaveScope, CacheInv, TypeOK, mapped
  <1>4. owned' = owned
    BY <1>1 DEF LeaveScope, CacheInv, TypeOK
  <1> QED
    BY <1>3, <1>4

(* The key of a call in progress is one of the cache's.                    *)
LEMMA KeyInKeys ==
  ASSUME CacheInv, NEW t \in Threads
  PROVE  Key(t) \in Keys
  BY CacheAssumption DEF CacheInv, TypeOK, Key

LEMMA InitCacheInv == Init => CacheInv
  <1> SUFFICES ASSUME Init PROVE CacheInv
    OBVIOUS
  <1>1. AnyFunction \in Functions
    BY CacheAssumption DEF AnyFunction
  <1>2. mapped = {}
    BY DEF Init, mapped
  <1>3. TypeOK
    BY <1>1, <1>2 DEF Init, TypeOK, Steps
  <1>4. CacheBounded
    <2>1. Entries = {}
      BY DEF Init, Entries
    <2> QED
      BY <2>1, FS_EmptySet, CacheAssumption DEF CacheBounded
  <1>5. CachedMapped /\ EntryMapped /\ OwnedUntilForgotten
    BY DEF Init, CachedMapped, EntryMapped, OwnedUntilForgotten, WithEntry
  <1>6. FreshIsPrivate /\ EvictedGaveUp /\ RetiredStaysOut
    BY DEF Init, FreshIsPrivate, EvictedGaveUp, RetiredStaysOut
  <1> QED
    BY <1>3, <1>4, <1>5, <1>6 DEF CacheInv

(* The rest of the invariant, without the bound.                           *)
SafeInv ==
  /\ TypeOK
  /\ CachedMapped
  /\ EntryMapped
  /\ OwnedUntilForgotten
  /\ FreshIsPrivate
  /\ EvictedGaveUp
  /\ RetiredStaysOut

LEMMA CallKeeps ==
  ASSUME CacheInv, NEW t \in Threads, Call(t)
  PROVE  SafeInv'
  <1> USE DEF CacheInv, TypeOK
  <1>1. TypeOK'
    BY DEF Call, At, Go, Steps, mapped
  <1>2. CachedMapped'
    BY DEF CachedMapped, Call, At, Go, mapped
  <1>3. EntryMapped'
    BY DEF EntryMapped, Call, At, Go, WithEntry, Key, mapped
  <1>4. OwnedUntilForgotten'
    BY DEF OwnedUntilForgotten, Call, At, Go
  <1>5. FreshIsPrivate'
    BY DEF FreshIsPrivate, Call, At, Go
  <1>6. EvictedGaveUp'
    BY DEF EvictedGaveUp, Call, At, Go
  <1>7. RetiredStaysOut'
    BY DEF RetiredStaysOut, Call, At, Go
  <1> QED
    BY <1>1, <1>2, <1>3, <1>4, <1>5, <1>6, <1>7 DEF SafeInv

LEMMA HitKeeps ==
  ASSUME CacheInv, NEW t \in Threads, Hit(t)
  PROVE  SafeInv'
  <1> USE DEF CacheInv, TypeOK
  <1>1. Key(t) \in Keys
    BY KeyInKeys
  <1>2. TypeOK'
    BY <1>1 DEF Hit, At, Go, Steps, mapped
  <1>3. CachedMapped'
    BY DEF CachedMapped, Hit, At, Go, mapped
  <1>4. EntryMapped'
    <2>1. cache[Key(t)] \in mapped /\ KeyOf[code[cache[Key(t)]]] = Key(t)
      BY <1>1 DEF CachedMapped, Hit
    <2> QED
      BY <2>1 DEF EntryMapped, Hit, At, Go, WithEntry, Key, mapped
  <1>5. OwnedUntilForgotten'
    BY DEF OwnedUntilForgotten, Hit, At, Go
  <1>6. FreshIsPrivate'
    BY <1>1 DEF FreshIsPrivate, Hit, At, Go
  <1>7. EvictedGaveUp'
    BY DEF EvictedGaveUp, Hit, At, Go
  <1>8. RetiredStaysOut'
    BY DEF RetiredStaysOut, Hit, At, Go
  <1> QED
    BY <1>2, <1>3, <1>4, <1>5, <1>6, <1>7, <1>8 DEF SafeInv

LEMMA MissKeeps ==
  ASSUME CacheInv, NEW t \in Threads, Miss(t)
  PROVE  SafeInv'
  <1> USE DEF CacheInv, TypeOK
  <1>1. TypeOK'
    BY DEF Miss, At, Go, Steps, mapped
  <1>2. CachedMapped'
    BY DEF CachedMapped, Miss, At, Go, mapped
  <1>3. EntryMapped'
    BY DEF EntryMapped, Miss, At, Go, WithEntry, Key, mapped
  <1>4. OwnedUntilForgotten'
    BY DEF OwnedUntilForgotten, Miss, At, Go
  <1>5. FreshIsPrivate'
    BY DEF FreshIsPrivate, Miss, At, Go
  <1>6. EvictedGaveUp'
    BY DEF EvictedGaveUp, Miss, At, Go
  <1>7. RetiredStaysOut'
    BY DEF RetiredStaysOut, Miss, At, Go
  <1> QED
    BY <1>1, <1>2, <1>3, <1>4, <1>5, <1>6, <1>7 DEF SafeInv

LEMMA NativeReturnsKeeps ==
  ASSUME CacheInv, NEW t \in Threads, NativeReturns(t)
  PROVE  SafeInv'
  <1> USE DEF CacheInv, TypeOK
  <1>1. code' = code /\ owned' = owned
    BY NothingUnmapped DEF NativeReturns
  <1>2. AnyFunction \in Functions
    BY CacheAssumption DEF AnyFunction
  <1>3. \A u \in Threads : step[u] = "insert" => entry[u] # NoBuffer
    BY CacheAssumption DEF EntryMapped, WithEntry
  <1>4. TypeOK'
    BY <1>1, <1>2 DEF NativeReturns, Return, At, Go, Steps, mapped
  <1>5. CachedMapped'
    BY <1>1 DEF CachedMapped, NativeReturns, Return, At, Go, mapped
  <1>6. EntryMapped'
    BY <1>1 DEF EntryMapped, NativeReturns, Return, At, Go, WithEntry, Key, mapped
  <1>7. OwnedUntilForgotten'
    BY <1>1 DEF OwnedUntilForgotten, NativeReturns, Return, At, Go
  <1>8. FreshIsPrivate'
    BY <1>3 DEF FreshIsPrivate, NativeReturns, Return, At, Go
  <1>9. EvictedGaveUp'
    BY <1>1 DEF EvictedGaveUp, NativeReturns, Return, At, Go
  <1>10. RetiredStaysOut'
    BY DEF RetiredStaysOut, NativeReturns, Return, At, Go
  <1> QED
    BY <1>4, <1>5, <1>6, <1>7, <1>8, <1>9, <1>10 DEF SafeInv

LEMMA NativeGivesUpKeeps ==
  ASSUME CacheInv, NEW t \in Threads, NativeGivesUp(t)
  PROVE  SafeInv'
  <1> USE DEF CacheInv, TypeOK
  <1>1. TypeOK'
    BY DEF NativeGivesUp, At, Go, Steps, mapped
  <1>2. CachedMapped'
    BY DEF CachedMapped, NativeGivesUp, At, Go, mapped
  <1>3. EntryMapped'
    BY DEF EntryMapped, NativeGivesUp, At, Go, WithEntry, Key, mapped
  <1>4. OwnedUntilForgotten'
    BY DEF OwnedUntilForgotten, NativeGivesUp, At, Go
  <1>5. FreshIsPrivate'
    BY DEF FreshIsPrivate, NativeGivesUp, At, Go
  <1>6. EvictedGaveUp'
    BY DEF EvictedGaveUp, NativeGivesUp, At, Go
  <1>7. RetiredStaysOut'
    BY DEF RetiredStaysOut, NativeGivesUp, At, Go
  <1> QED
    BY <1>1, <1>2, <1>3, <1>4, <1>5, <1>6, <1>7 DEF SafeInv

LEMMA EvictCachedKeeps ==
  ASSUME CacheInv, NEW t \in Threads, EvictCached(t)
  PROVE  SafeInv'
  <1> USE DEF CacheInv, TypeOK
  <1>1. Key(t) \in Keys
    BY KeyInKeys
  <1>2. entry[t] \in mapped /\ KeyOf[code[entry[t]]] = Key(t)
    BY DEF EntryMapped, WithEntry, EvictCached, At
  <1>3. \A u \in Threads : step[u] = "insert" => entry[u] # NoBuffer
    BY CacheAssumption DEF EntryMapped, WithEntry
  <1>4. \A u \in Threads : step[u] = "insert" => entry[u] # entry[t]
    BY DEF FreshIsPrivate, EvictCached, At
  <1>5. \A k \in Keys \ {Key(t)} : cache[k] # entry[t]
    BY <1>2, CacheAssumption DEF CachedMapped
  <1>6. TypeOK'
    BY <1>1, <1>2 DEF EvictCached, Evict, At, Go, Steps, mapped
  <1>7. CachedMapped'
    BY <1>1 DEF CachedMapped, EvictCached, Evict, At, Go, mapped
  <1>8. EntryMapped'
    BY DEF EntryMapped, EvictCached, Evict, At, Go, WithEntry, Key, mapped
  <1>9. OwnedUntilForgotten'
    BY DEF OwnedUntilForgotten, EvictCached, Evict, At, Go
  <1>10. FreshIsPrivate'
    BY <1>1, <1>3, <1>4 DEF FreshIsPrivate, EvictCached, Evict, At, Go
  <1>11. EvictedGaveUp'
    BY DEF EvictedGaveUp, EvictCached, Evict, At, Go
  <1>12. RetiredStaysOut'
    <2>1. NoBuffer \notin retired'
      BY <1>2, CacheAssumption DEF EvictCached, Evict
    <2> QED
      BY <1>1, <1>5, <2>1 DEF RetiredStaysOut, EvictCached, Evict
  <1> QED
    BY <1>6, <1>7, <1>8, <1>9, <1>10, <1>11, <1>12 DEF SafeInv

LEMMA EvictFreshKeeps ==
  ASSUME CacheInv, NEW t \in Threads, EvictFresh(t)
  PROVE  SafeInv'
  <1> USE DEF CacheInv, TypeOK
  <1>1. code' = code /\ owned' = owned
    BY NothingUnmapped DEF EvictFresh, At
  <1>2. Key(t) \in Keys
    BY KeyInKeys
  <1>3. entry[t] \in mapped /\ KeyOf[code[entry[t]]] = Key(t)
    BY DEF EntryMapped, WithEntry, EvictFresh, At
  <1>4. \A u \in Threads : step[u] = "insert" => entry[u] # NoBuffer
    BY CacheAssumption DEF EntryMapped, WithEntry
  <1>5. \A u \in Threads : step[u] = "insert" => entry[u] # entry[t]
    BY DEF FreshIsPrivate, EvictFresh, At
  <1>6. \A k \in Keys \ {Key(t)} : cache[k] # entry[t]
    BY <1>3, CacheAssumption DEF CachedMapped
  <1>7. TypeOK'
    BY <1>1, <1>2, <1>3 DEF EvictFresh, Evict, At, Go, Steps, mapped
  <1>8. CachedMapped'
    BY <1>1, <1>2 DEF CachedMapped, EvictFresh, Evict, At, Go, mapped
  <1>9. EntryMapped'
    BY <1>1 DEF EntryMapped, EvictFresh, Evict, At, Go, WithEntry, Key, mapped
  <1>10. OwnedUntilForgotten'
    BY <1>1 DEF OwnedUntilForgotten, EvictFresh, Evict, At, Go
  <1>11. FreshIsPrivate'
    BY <1>2, <1>4, <1>5 DEF FreshIsPrivate, EvictFresh, Evict, At, Go
  <1>12. EvictedGaveUp'
    BY <1>1 DEF EvictedGaveUp, EvictFresh, Evict, At, Go
  <1>13. RetiredStaysOut'
    <2>1. NoBuffer \notin retired'
      BY <1>3, CacheAssumption DEF EvictFresh, Evict
    <2> QED
      BY <1>2, <1>6, <2>1 DEF RetiredStaysOut, EvictFresh, Evict
  <1> QED
    BY <1>7, <1>8, <1>9, <1>10, <1>11, <1>12, <1>13 DEF SafeInv

LEMMA CompileNativeKeeps ==
  ASSUME CacheInv, NEW t \in Threads, CompileNative(t)
  PROVE  SafeInv'
  <1> USE DEF CacheInv, TypeOK
  <1>1. PICK b \in Buffers \ mapped :
          /\ code' = [a \in mapped \cup {b} |-> IF a = b THEN fn[t] ELSE code[a]]
          /\ entry' = [entry EXCEPT ![t] = b]
          /\ owned' = [owned EXCEPT ![t] = b]
          /\ retired' = retired \ {b}
    BY DEF CompileNative
  <1>2. /\ step[t] = "compile" /\ step' = [step EXCEPT ![t] = "insert"]
        /\ UNCHANGED <<cache, fn>>
    BY DEF CompileNative, At, Go
  <1>3. /\ mapped' = mapped \cup {b}
        /\ code'[b] = fn[t]
        /\ \A a \in mapped : code'[a] = code[a]
    BY <1>1 DEF mapped
  <1>4. \A k \in Keys : cache[k] # b
    BY <1>1, CacheAssumption DEF CachedMapped
  <1>5. \A u \in Threads \ {t} : entry[u] # b
    BY <1>1, CacheAssumption DEF EntryMapped
  <1>6. TypeOK'
    BY <1>1, <1>2, <1>3 DEF Steps
  <1>7. CachedMapped'
    BY <1>2, <1>3 DEF CachedMapped
  <1>8. EntryMapped'
    BY <1>1, <1>2, <1>3 DEF EntryMapped, WithEntry, Key
  <1>9. OwnedUntilForgotten'
    BY <1>1, <1>2 DEF OwnedUntilForgotten
  <1>10. FreshIsPrivate'
    BY <1>1, <1>2, <1>4, <1>5 DEF FreshIsPrivate
  <1>11. EvictedGaveUp'
    BY <1>1, <1>2, <1>3 DEF EvictedGaveUp, EntryMapped, WithEntry
  <1>12. RetiredStaysOut'
    BY <1>1, <1>2 DEF RetiredStaysOut
  <1> QED
    BY <1>6, <1>7, <1>8, <1>9, <1>10, <1>11, <1>12 DEF SafeInv

LEMMA CompileMissesKeeps ==
  ASSUME CacheInv, NEW t \in Threads, CompileMisses(t)
  PROVE  SafeInv'
  <1> USE DEF CacheInv, TypeOK
  <1>1. AnyFunction \in Functions
    BY CacheAssumption DEF AnyFunction
  <1>2. \A u \in Threads : step[u] = "insert" => entry[u] # NoBuffer
    BY CacheAssumption DEF EntryMapped, WithEntry
  <1>3. TypeOK'
    BY <1>1 DEF CompileMisses, Return, At, Go, Steps, mapped
  <1>4. CachedMapped'
    BY DEF CachedMapped, CompileMisses, Return, At, Go, mapped
  <1>5. EntryMapped'
    BY DEF EntryMapped, CompileMisses, Return, At, Go, WithEntry, Key, mapped
  <1>6. OwnedUntilForgotten'
    BY DEF OwnedUntilForgotten, CompileMisses, Return, At, Go
  <1>7. FreshIsPrivate'
    BY <1>2 DEF FreshIsPrivate, CompileMisses, Return, At, Go
  <1>8. EvictedGaveUp'
    BY DEF EvictedGaveUp, CompileMisses, Return, At, Go
  <1>9. RetiredStaysOut'
    BY DEF RetiredStaysOut, CompileMisses, Return, At, Go
  <1> QED
    BY <1>3, <1>4, <1>5, <1>6, <1>7, <1>8, <1>9 DEF SafeInv

LEMMA InsertKeeps ==
  ASSUME CacheInv, NEW t \in Threads, Insert(t)
  PROVE  SafeInv'
  <1> USE DEF CacheInv, TypeOK
  <1>1. Key(t) \in Keys
    BY KeyInKeys
  <1>2. entry[t] \in mapped /\ KeyOf[code[entry[t]]] = Key(t)
    BY DEF EntryMapped, WithEntry, Insert, At
  <1>3. entry[t] \notin retired /\ \A u \in Threads \ {t} : entry[u] # entry[t]
    BY DEF FreshIsPrivate, Insert, At
  <1>4. TypeOK'
    BY <1>1, <1>2 DEF Insert, At, Go, Steps, mapped
  <1>5. CachedMapped'
    BY <1>1, <1>2 DEF CachedMapped, Insert, At, Go, mapped
  <1>6. EntryMapped'
    BY DEF EntryMapped, Insert, At, Go, WithEntry, Key, mapped
  <1>7. OwnedUntilForgotten'
    BY DEF OwnedUntilForgotten, Insert, At, Go
  <1>8. FreshIsPrivate'
    BY <1>1, <1>3 DEF FreshIsPrivate, Insert, At, Go
  <1>9. EvictedGaveUp'
    BY DEF EvictedGaveUp, Insert, At, Go
  <1>10. RetiredStaysOut'
    BY <1>1, <1>3 DEF RetiredStaysOut, Insert, At, Go
  <1> QED
    BY <1>4, <1>5, <1>6, <1>7, <1>8, <1>9, <1>10 DEF SafeInv

LEMMA ForgetKeeps ==
  ASSUME CacheInv, NEW t \in Threads, Forget(t)
  PROVE  SafeInv'
  <1> USE DEF CacheInv, TypeOK
  <1>1. TypeOK'
    BY DEF Forget, At, Go, Steps, mapped
  <1>2. CachedMapped'
    BY DEF CachedMapped, Forget, At, Go, mapped
  <1>3. EntryMapped'
    BY DEF EntryMapped, Forget, At, Go, WithEntry, Key, mapped
  <1>4. OwnedUntilForgotten'
    BY DEF OwnedUntilForgotten, Forget, At, Go
  <1>5. FreshIsPrivate'
    BY DEF FreshIsPrivate, Forget, At, Go
  <1>6. EvictedGaveUp'
    BY DEF EvictedGaveUp, Forget, At, Go
  <1>7. RetiredStaysOut'
    BY DEF RetiredStaysOut, Forget, At, Go
  <1> QED
    BY <1>1, <1>2, <1>3, <1>4, <1>5, <1>6, <1>7 DEF SafeInv

LEMMA RunVMKeeps ==
  ASSUME CacheInv, NEW t \in Threads, RunVM(t)
  PROVE  SafeInv'
  <1> USE DEF CacheInv, TypeOK
  <1>1. AnyFunction \in Functions
    BY CacheAssumption DEF AnyFunction
  <1>2. \A u \in Threads : step[u] = "insert" => entry[u] # NoBuffer
    BY CacheAssumption DEF EntryMapped, WithEntry
  <1>3. TypeOK'
    BY <1>1 DEF RunVM, Return, At, Go, Steps, mapped
  <1>4. CachedMapped'
    BY DEF CachedMapped, RunVM, Return, At, Go, mapped
  <1>5. EntryMapped'
    BY DEF EntryMapped, RunVM, Return, At, Go, WithEntry, Key, mapped
  <1>6. OwnedUntilForgotten'
    BY DEF OwnedUntilForgotten, RunVM, Return, At, Go
  <1>7. FreshIsPrivate'
    BY <1>2 DEF FreshIsPrivate, RunVM, Return, At, Go
  <1>8. EvictedGaveUp'
    BY DEF EvictedGaveUp, RunVM, Return, At, Go
  <1>9. RetiredStaysOut'
    BY DEF RetiredStaysOut, RunVM, Return, At, Go
  <1> QED
    BY <1>3, <1>4, <1>5, <1>6, <1>7, <1>8, <1>9 DEF SafeInv

-----------------------------------------------------------------------------
(* A step adds at most one entry, and none when the cache is full.         *)
LEMMA StepKeepsBound ==
  ASSUME CacheInv, Next
  PROVE  CacheBounded'
  <1> USE DEF CacheInv, TypeOK
  <1>1. IsFiniteSet(Entries)
    BY CacheAssumption, FS_Subset DEF Entries
  <1>2. Cardinality(Entries) \in Nat /\ MaxEntries \in Nat
    BY <1>1, FS_CardinalityType, CacheAssumption
  <1>3. ASSUME Entries' \subseteq Entries
        PROVE  CacheBounded'
    <2>1. Cardinality(Entries') <= Cardinality(Entries) /\ IsFiniteSet(Entries')
      BY <1>1, <1>3, FS_Subset
    <2>2. Cardinality(Entries') \in Nat
      BY <2>1, FS_CardinalityType
    <2> QED
      BY <1>2, <2>1, <2>2 DEF CacheBounded
  <1>4. ASSUME NEW t \in Threads, Insert(t), ~Full
        PROVE  CacheBounded'
    <2>1. Entries' \subseteq Entries \cup {Key(t)}
      BY <1>4 DEF Insert, Entries
    <2>2. /\ IsFiniteSet(Entries \cup {Key(t)})
          /\ Cardinality(Entries \cup {Key(t)}) <= Cardinality(Entries) + 1
          /\ Cardinality(Entries \cup {Key(t)}) \in Nat
      <3>1. /\ IsFiniteSet(Entries \cup {Key(t)})
            /\ Cardinality(Entries \cup {Key(t)}) =
                 IF Key(t) \in Entries THEN Cardinality(Entries) ELSE Cardinality(Entries) + 1
        BY <1>1, FS_AddElement, Zenon
      <3> QED
        BY <1>2, <3>1
    <2>3. Cardinality(Entries') <= Cardinality(Entries \cup {Key(t)})
      BY <2>1, <2>2, FS_Subset
    <2>4. Cardinality(Entries') \in Nat
      BY <2>1, <2>2, FS_Subset, FS_CardinalityType
    <2>5. Cardinality(Entries) < MaxEntries
      BY <1>2, <1>4 DEF Full
    <2> QED
      BY <1>2, <2>2, <2>3, <2>4, <2>5 DEF CacheBounded
  <1>5. PICK t \in Threads : Call(t) \/ Proceed(t)
    BY DEF Next
  <1>6. CASE Insert(t)
    BY <1>3, <1>4, <1>6 DEF Insert, Entries
  <1>7. CASE EvictCached(t) \/ EvictFresh(t)
    BY <1>3, <1>7 DEF EvictCached, EvictFresh, Evict, Entries
  <1>8. CASE cache' = cache
    BY <1>3, <1>8 DEF Entries
  <1> QED
    BY <1>5, <1>6, <1>7, <1>8
    DEF Proceed, Call, Hit, Miss, NativeReturns, NativeGivesUp, CompileNative, CompileMisses,
        Forget, RunVM

LEMMA NextKeepsInv == CacheInv /\ [Next]_vars => CacheInv'
  <1> SUFFICES ASSUME CacheInv, [Next]_vars PROVE CacheInv'
    OBVIOUS
  <1>1. CASE Next
    <2>1. PICK t \in Threads : Call(t) \/ Proceed(t)
      BY <1>1 DEF Next
    <2>2. SafeInv'
      BY <2>1, CallKeeps, HitKeeps, MissKeeps, NativeReturnsKeeps, NativeGivesUpKeeps,
         EvictCachedKeeps, EvictFreshKeeps, CompileNativeKeeps, CompileMissesKeeps, InsertKeeps,
         ForgetKeeps, RunVMKeeps
      DEF Proceed
    <2>3. CacheBounded'
      BY <1>1, StepKeepsBound
    <2> QED
      BY <2>2, <2>3 DEF SafeInv, CacheInv
  <1>2. CASE UNCHANGED vars
    BY <1>2 DEF vars, CacheInv, TypeOK, CachedMapped, EntryMapped, OwnedUntilForgotten,
       FreshIsPrivate, EvictedGaveUp, RetiredStaysOut, CacheBounded, Entries, Key, mapped
  <1> QED
    BY <1>1, <1>2

LEMMA CacheInvHolds == Spec => []CacheInv
  BY InitCacheInv, NextKeepsInv, PTL DEF Spec

(* Every variable holds a value of its type.                               *)
THEOREM CacheTypeCorrect == Spec => []TypeOK
  <1>1. CacheInv => TypeOK
    BY DEF CacheInv
  <1> QED
    BY <1>1, CacheInvHolds, PTL

(* No thread jumps into memory that another has unmapped, nor into code of *)
(* another key, whatever the interleaving of lookups and evictions.        *)
THEOREM CacheRunsMappedCode == Spec => []RunsMappedCode
  <1>1. CacheInv => RunsMappedCode
    BY DEF CacheInv, EntryMapped, RunsMappedCode, WithEntry
  <1> QED
    BY <1>1, CacheInvHolds, PTL

(* The cache never holds more entries than its bound.                      *)
THEOREM CacheStaysBounded == Spec => []CacheBounded
  <1>1. CacheInv => CacheBounded
    BY DEF CacheInv
  <1> QED
    BY <1>1, CacheInvHolds, PTL

(* Code that gave up never comes back into the cache.                      *)
THEOREM CacheKeepsRetiredOut == Spec => []RetiredStaysOut
  <1>1. CacheInv => RetiredStaysOut
    BY DEF CacheInv
  <1> QED
    BY <1>1, CacheInvHolds, PTL

(* Code that never gives up, and whose key no other function has, is never *)
(* evicted.                                                                *)
THEOREM CacheKeepsSteady == Spec => SteadyStaysCached
  <1>1. ASSUME CacheInv, [Next]_vars, NEW f \in Steady, OwnsItsKey(f), cache[KeyOf[f]] # NoBuffer
        PROVE  cache'[KeyOf[f]] # NoBuffer
    <2> USE DEF CacheInv, TypeOK
    <2>1. f \in Functions /\ KeyOf[f] \in Keys
      BY CacheAssumption
    <2>2. CASE cache' = cache
      BY <1>1, <2>2
    <2>3. ASSUME NEW t \in Threads, Insert(t)
          PROVE  cache'[KeyOf[f]] # NoBuffer
      <3>1. entry[t] \in mapped
        BY <1>1, <2>3 DEF Insert, At, EntryMapped, WithEntry
      <3>2. entry[t] # NoBuffer
        BY <1>1, <3>1, CacheAssumption
      <3> QED
        BY <1>1, <2>1, <2>3, <3>2 DEF Insert
    <2>4. ASSUME NEW t \in Threads, EvictCached(t) \/ EvictFresh(t)
          PROVE  cache'[KeyOf[f]] # NoBuffer
      <3>1. /\ entry[t] \in mapped
            /\ KeyOf[code[entry[t]]] = Key(t)
            /\ code[entry[t]] \notin Steady
        BY <1>1, <2>4 DEF EvictCached, EvictFresh, At, EntryMapped, WithEntry, EvictedGaveUp
      <3>2. Key(t) # KeyOf[f]
        BY <1>1, <3>1 DEF OwnsItsKey
      <3> QED
        BY <1>1, <2>1, <2>4, <3>2 DEF EvictCached, EvictFresh, Evict
    <2> QED
      BY <1>1, <2>2, <2>3, <2>4
      DEF Next, Proceed, Call, Hit, Miss, NativeReturns, NativeGivesUp, CompileNative,
          CompileMisses, Forget, RunVM, vars
  <1>2. CacheInv /\ [Next]_vars =>
          [\A f \in Steady :
             (OwnsItsKey(f) /\ cache[KeyOf[f]] # NoBuffer) => cache'[KeyOf[f]] # NoBuffer]_vars
    BY <1>1
  <1> QED
    BY <1>2, CacheInvHolds, PTL DEF Spec, SteadyStaysCached
=============================================================================
