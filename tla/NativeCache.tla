----------------------------- MODULE NativeCache -----------------------------
(***************************************************************************)
(* The process-wide cache of native code in                                *)
(* libquickjs-sys/src/register_interpreter.rs: a Mutex<HashMap> from the   *)
(* hash and length of a bytecode to the address of executable memory, used *)
(* by every thread that calls js_register_interpreter.  The lock is held   *)
(* for a lookup, an insertion or a removal, never from one to the next, and *)
(* the code is run, compiled and mapped with the lock free.                *)
(*                                                                         *)
(* A mapped buffer belongs to a JitBuffer, whose Drop unmaps it, until     *)
(* mem::forget gives it up.                                                *)
(***************************************************************************)
EXTENDS Integers, FiniteSets

CONSTANTS
  Threads,
  Functions,          (* Bytecodes, told apart by their bytes.               *)
  Keys,               (* Pairs of a hash and a length.                       *)
  KeyOf,              (* The key of each function.                           *)
  Native,             (* Functions compile_to_native has code for.           *)
  GoesToC,            (* Functions left to C when there is no native code.   *)
  Steady,             (* Functions whose native code never gives up.         *)
  Buffers,            (* Addresses mmap may return.                          *)
  MaxEntries,         (* 4096 in the code.                                   *)
  NoBuffer

ASSUME CacheAssumption ==
  /\ Functions # {}
  /\ KeyOf \in [Functions -> Keys]
  /\ IsFiniteSet(Keys)
  /\ Native \subseteq Functions /\ Steady \subseteq Native
  /\ GoesToC \subseteq Functions
  /\ NoBuffer \notin Buffers
  /\ MaxEntries \in Nat

VARIABLES
  cache,              (* What each key is mapped to, or NoBuffer.            *)
  code,               (* The function whose code each mapped buffer holds.   *)
  step,               (* What each thread does next.                         *)
  fn,                 (* The function it calls.                              *)
  entry,              (* The code it runs or publishes.                      *)
  owned,              (* The JitBuffer it holds.                             *)
  retired             (* Buffers that gave up and were taken off the cache.  *)

vars == <<cache, code, step, fn, entry, owned, retired>>

Steps == {"idle", "lookup", "run_cached", "evict_cached", "compile", "insert", "forget",
          "run_fresh", "evict_fresh", "run_vm"}

mapped == DOMAIN code
AnyFunction == CHOOSE f \in Functions : TRUE

Init ==
  /\ cache = [k \in Keys |-> NoBuffer]
  /\ code = [b \in {} |-> AnyFunction]
  /\ step = [t \in Threads |-> "idle"]
  /\ fn = [t \in Threads |-> AnyFunction]
  /\ entry = [t \in Threads |-> NoBuffer]
  /\ owned = [t \in Threads |-> NoBuffer]
  /\ retired = {}

Entries == {k \in Keys : cache[k] # NoBuffer}
Key(t) == KeyOf[fn[t]]

-----------------------------------------------------------------------------
At(t, s) == step[t] = s
Go(t, s) == step' = [step EXCEPT ![t] = s]

(* The call is over, and its variables with it.                            *)
Return(t) ==
  /\ Go(t, "idle")
  /\ fn' = [fn EXCEPT ![t] = AnyFunction]
  /\ entry' = [entry EXCEPT ![t] = NoBuffer]

Call(t) ==
  /\ At(t, "idle")
  /\ \E f \in Functions : fn' = [fn EXCEPT ![t] = f]
  /\ Go(t, "lookup")
  /\ UNCHANGED <<cache, code, entry, owned, retired>>

Hit(t) ==
  /\ At(t, "lookup") /\ cache[Key(t)] # NoBuffer
  /\ entry' = [entry EXCEPT ![t] = cache[Key(t)]]
  /\ Go(t, "run_cached")
  /\ UNCHANGED <<cache, code, fn, owned, retired>>

Miss(t) ==
  /\ At(t, "lookup") /\ cache[Key(t)] = NoBuffer
  /\ Go(t, "compile")
  /\ UNCHANGED <<cache, code, fn, entry, owned, retired>>

(* At the end of its scope a JitBuffer that was not forgotten is unmapped. *)
LeaveScope(t) ==
  /\ code' = [b \in mapped \ {owned[t]} |-> code[b]]
  /\ owned' = [owned EXCEPT ![t] = NoBuffer]

NativeReturns(t) ==
  /\ step[t] \in {"run_cached", "run_fresh"}
  /\ Return(t)
  /\ LeaveScope(t)
  /\ UNCHANGED <<cache, retired>>

NativeGivesUp(t) ==
  /\ step[t] \in {"run_cached", "run_fresh"}
  /\ code[entry[t]] \notin Steady
  /\ Go(t, IF At(t, "run_cached") THEN "evict_cached" ELSE "evict_fresh")
  /\ UNCHANGED <<cache, code, fn, entry, owned, retired>>

(* Mutants: nothing is removed; the whole cache is cleared.                *)
Evict_Nothing(t) ==
  /\ retired' = retired \cup {entry[t]}
  /\ UNCHANGED cache
Evict_All(t) ==
  /\ cache' = [k \in Keys |-> NoBuffer]
  /\ retired' = retired \cup {entry[t]}

(* cache.remove takes away whatever is there now under the key.            *)
Evict(t) ==
  /\ cache' = [cache EXCEPT ![Key(t)] = NoBuffer]
  /\ retired' = retired \cup {entry[t]}

(* Mutant: the call looks the key up again instead of compiling.           *)
EvictCached_Retry(t) ==
  /\ At(t, "evict_cached")
  /\ Go(t, "lookup")
  /\ UNCHANGED <<cache, code, fn, entry, owned, retired>>

EvictCached(t) ==
  /\ At(t, "evict_cached")
  /\ Evict(t)
  /\ Go(t, "compile")
  /\ entry' = [entry EXCEPT ![t] = NoBuffer]
  /\ UNCHANGED <<code, fn, owned>>

EvictFresh(t) ==
  /\ At(t, "evict_fresh")
  /\ Evict(t)
  /\ LeaveScope(t)
  /\ Go(t, "run_vm")
  /\ entry' = [entry EXCEPT ![t] = NoBuffer]
  /\ UNCHANGED fn

(* Both compilations succeed and mmap finds room.                          *)
CompileNative(t) ==
  /\ At(t, "compile") /\ fn[t] \in Native
  /\ \E b \in Buffers \ mapped :
       /\ code' = [a \in mapped \cup {b} |-> IF a = b THEN fn[t] ELSE code[a]]
       /\ entry' = [entry EXCEPT ![t] = b]
       /\ owned' = [owned EXCEPT ![t] = b]
       /\ retired' = retired \ {b}
  /\ Go(t, "insert")
  /\ UNCHANGED <<cache, fn>>

(* No native code for the function, or "Failed to mmap executable memory". *)
CompileMisses(t) ==
  /\ At(t, "compile")
  /\ IF fn[t] \in GoesToC THEN Return(t) ELSE Go(t, "run_vm") /\ UNCHANGED <<fn, entry>>
  /\ UNCHANGED <<cache, code, owned, retired>>

(* Mutant: one entry more than the bound is let in.                        *)
Full_OffByOne == Cardinality(Entries) > MaxEntries

Full == Cardinality(Entries) >= MaxEntries

(* Mutant: the entry is stored under the key without its buffer's address. *)
Insert_Function(t) ==
  /\ At(t, "insert")
  /\ cache' = IF Full THEN cache ELSE [cache EXCEPT ![Key(t)] = fn[t]]
  /\ Go(t, "forget")
  /\ UNCHANGED <<code, fn, entry, owned, retired>>

Insert(t) ==
  /\ At(t, "insert")
  /\ cache' = IF Full THEN cache ELSE [cache EXCEPT ![Key(t)] = entry[t]]
  /\ Go(t, "forget")
  /\ UNCHANGED <<code, fn, entry, owned, retired>>

(* Mutant: mem::forget is left out.                                        *)
Forget_Not(t) ==
  /\ At(t, "forget")
  /\ Go(t, "run_fresh")
  /\ UNCHANGED <<cache, code, fn, entry, owned, retired>>

Forget(t) ==
  /\ At(t, "forget")
  /\ owned' = [owned EXCEPT ![t] = NoBuffer]
  /\ Go(t, "run_fresh")
  /\ UNCHANGED <<cache, code, fn, entry, retired>>

(* The register VM returns a value or leaves the call to the C interpreter.*)
RunVM(t) ==
  /\ At(t, "run_vm")
  /\ Return(t)
  /\ UNCHANGED <<cache, code, owned, retired>>

Proceed(t) ==
  \/ Hit(t) \/ Miss(t)
  \/ NativeReturns(t) \/ NativeGivesUp(t) \/ EvictCached(t) \/ EvictFresh(t)
  \/ CompileNative(t) \/ CompileMisses(t) \/ Insert(t) \/ Forget(t) \/ RunVM(t)

Next == \E t \in Threads : Call(t) \/ Proceed(t)

(* A thread that is in a call goes on with it; nobody has to call.         *)
Spec == Init /\ [][Next]_vars /\ \A t \in Threads : WF_vars(Proceed(t))

-----------------------------------------------------------------------------
TypeOK ==
  /\ cache \in [Keys -> Buffers \cup {NoBuffer}]
  /\ mapped \subseteq Buffers /\ code \in [mapped -> Functions]
  /\ step \in [Threads -> Steps]
  /\ fn \in [Threads -> Functions]
  /\ entry \in [Threads -> Buffers \cup {NoBuffer}]
  /\ owned \in [Threads -> Buffers \cup {NoBuffer}]
  /\ retired \subseteq Buffers

(* No thread jumps into memory that is not mapped, or into code compiled   *)
(* from a bytecode of another key, whatever the other threads insert,      *)
(* overwrite and evict between the lookup and the run.                     *)
RunsMappedCode ==
  \A t \in Threads :
    step[t] \in {"run_cached", "run_fresh"} =>
      entry[t] \in mapped /\ KeyOf[code[entry[t]]] = Key(t)

(* The check of the length and the insertion are one critical section: the *)
(* threads together never store more than the bound.                       *)
CacheBounded == Cardinality(Entries) <= MaxEntries

(* PROMPT.md: a stub that gave up is removed from the cache.  It stays out *)
(* for good: no slower thread puts it back.                                *)
RetiredStaysOut == \A k \in Keys : cache[k] \notin retired

(* Code that never gives up, once published, is found by every later call  *)
(* of its function: threads that give up on other code remove entries by   *)
(* key, not by address, but never this one.  So it is compiled and leaked  *)
(* no more often than threads missed it at the same time.                  *)
OwnsItsKey(f) == \A g \in Functions : KeyOf[g] = KeyOf[f] => g = f
SteadyStaysCached ==
  [][\A f \in Steady :
       (OwnsItsKey(f) /\ cache[KeyOf[f]] # NoBuffer) => cache'[KeyOf[f]] # NoBuffer]_vars

(* A call of js_register_interpreter ends, however often the code it runs  *)
(* gives up or is evicted under it.                                        *)
CallsEnd == \A t \in Threads : ~At(t, "idle") ~> At(t, "idle")
=============================================================================
