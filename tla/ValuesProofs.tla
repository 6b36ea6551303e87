---------------------------- MODULE ValuesProofs ----------------------------
(***************************************************************************)
(* What holds of OwnedJsValues and of the calls of closures for any number *)
(* of variables, containers, iterators and arguments: reference counts are *)
(* exact, and the table of an iterator is freed once.  A step moves        *)
(* references between the heap and what holds them outside it; the lemmas  *)
(* say so of one reference, of a list of them, and of an entry.            *)
(***************************************************************************)
EXTENDS HostCallback, JSHeapProofs

-----------------------------------------------------------------------------
(* Counts that are exact, and JS_FreeValue.                                *)

(* The heaps of Rust variables: containers that hold containers of the     *)
(* heap, and nothing that has a prototype or a target.                     *)
HeapOf(V) == Seq(Nodes(V))

LEMMA HeapIsFinite ==
  ASSUME NEW V, NEW h \in HeapOf(V)
  PROVE  /\ Len(h) \in Nat /\ DOMAIN h = 1..Len(h) /\ FiniteHeap(h)
         /\ \A n \in DOMAIN h : h[n] \in Nodes(V)
<1>1. Len(h) \in Nat /\ DOMAIN h = 1..Len(h) /\ \A n \in DOMAIN h : h[n] \in Nodes(V)
  BY DEF HeapOf
<1>2. IsFiniteSet(DOMAIN h)
  BY <1>1, FS_Interval
<1>3. ASSUME NEW m \in DOMAIN h PROVE IsFiniteSet(DOMAIN h[m].entries)
  <2>1. h[m] \in Nodes(V)
    BY <1>1
  <2>2. h[m].entries \in Seq(Entries(V))
    BY <2>1 DEF Nodes
  <2> QED BY <2>2, FS_Interval
<1> QED BY <1>1, <1>2, <1>3 DEF FiniteHeap

LEMMA OtherRefs ==
  ASSUME NEW V, NEW x \in Nodes(V), NEW r \in Int, NEW y, y = [x EXCEPT !.refs = r]
  PROVE  /\ y \in Nodes(V) /\ y.kind = x.kind /\ y.entries = x.entries
         /\ y.proto = x.proto /\ y.refs = r
BY DEF Nodes

LEMMA OtherEntries ==
  ASSUME NEW V, NEW x \in Nodes(V), NEW e \in Seq(Entries(V)), NEW y, y = [x EXCEPT !.entries = e]
  PROVE  /\ y \in Nodes(V) /\ y.kind = x.kind /\ y.entries = e
         /\ y.proto = x.proto /\ y.refs = x.refs
BY DEF Nodes

Refs == {Ref(n) : n \in Nat}

(* What the engine keeps: every entry names a container.                   *)
Sane(h) ==
  /\ h \in HeapOf(Refs)
  /\ \A n \in DOMAIN h :
       /\ h[n].proto = None /\ h[n].kind # "proxy"
       /\ \A i \in DOMAIN h[n].entries : h[n].entries[i].value.data \in DOMAIN h

Counts == [1..MaxNodes -> Nat]

(* A container of this kind and count, of which o references were given    *)
(* back too often, e are held from outside the heap, and held by it.       *)
Fits(kind, refs, o, e, held) ==
  IF kind # "freed" THEN refs + o = e + held ELSE o = 0 => e + held = 0 /\ refs = 0

(* The count of every container is what ext and the heap hold, less ov.    *)
Balanced(h, ext, ov) ==
  \A n \in DOMAIN h : Fits(h[n].kind, h[n].refs, ov[n], ext[n], HeldInHeap(h, n))

(* The reference given back may have been held by a container that goes.   *)
LEMMA FitsLess ==
  ASSUME NEW kind, NEW refs \in Int, NEW o \in Nat, NEW e \in Nat, NEW held \in Nat,
         NEW gone \in Nat, gone <= held, Fits(kind, refs, o, e, held)
  PROVE  Fits(kind, refs - gone, o, e, held - gone)
BY DEF Fits

LEMMA FitsDead ==
  ASSUME NEW kind, kind # "freed", NEW refs \in Int, refs <= 0, NEW o \in Nat, NEW e \in Nat,
         NEW held \in Nat, NEW gone \in Nat, gone <= held, Fits(kind, refs, o, e, held)
  PROVE  Fits("freed", refs, o, e, held - gone)
BY DEF Fits

LEMMA SaneNodes ==
  ASSUME NEW h, Sane(h)
  PROVE  /\ Len(h) \in Nat /\ DOMAIN h = 1..Len(h) /\ FiniteHeap(h)
         /\ \A n \in DOMAIN h :
              /\ h[n] \in Nodes(Refs)
              /\ h[n].refs \in Int /\ h[n].entries \in Seq(Entries(Refs))
              /\ h[n].kind \in {"object", "array", "freed"} /\ h[n].proto = None
<1>1. /\ Len(h) \in Nat /\ DOMAIN h = 1..Len(h) /\ FiniteHeap(h)
      /\ \A n \in DOMAIN h : h[n] \in Nodes(Refs)
  BY HeapIsFinite DEF Sane
<1>2. \A n \in DOMAIN h :
        /\ h[n].refs \in Int /\ h[n].entries \in Seq(Entries(Refs))
        /\ h[n].kind \in {"object", "array", "freed"} /\ h[n].proto = None
  BY <1>1 DEF Sane, Nodes
<1> QED BY <1>1, <1>2

(* JS_DupValue and JS_FreeValue.                                           *)
LEMMA RefsAdded ==
  ASSUME NEW h, Sane(h), NEW m \in DOMAIN h, NEW d \in Int
  PROVE  LET g == AddRefs(h, Ref(m), d)
         IN  /\ Sane(g) /\ Len(g) = Len(h) /\ DOMAIN g = DOMAIN h
             /\ \A n \in DOMAIN h : /\ HeldInHeap(g, n) = HeldInHeap(h, n)
                                    /\ g[n].kind = h[n].kind /\ g[n].entries = h[n].entries
                                    /\ g[n].refs = h[n].refs + IF n = m THEN d ELSE 0
<1> DEFINE g == AddRefs(h, Ref(m), d)
           x == [h[m] EXCEPT !.refs = @ + d]
<1>1. g = [h EXCEPT ![m] = x]
  BY DEF AddRefs, IsNode, Ref, Value
<1>2. /\ x \in Nodes(Refs) /\ x.entries = h[m].entries /\ x.proto = h[m].proto
      /\ x.kind = h[m].kind /\ x.refs = h[m].refs + d
  <2>1. h[m] \in Nodes(Refs) /\ h[m].refs + d \in Int
    BY SaneNodes
  <2> QED BY <2>1, OtherRefs
<1> HIDE DEF x
<1>3. /\ g \in HeapOf(Refs) /\ DOMAIN g = DOMAIN h /\ Len(g) = Len(h)
      /\ g[m] = x /\ \A n \in DOMAIN h \ {m} : g[n] = h[n]
  <2>1. h \in HeapOf(Refs)
    BY DEF Sane
  <2> HIDE DEF g
  <2> QED BY <1>1, <1>2, <2>1 DEF HeapOf
<1> HIDE DEF g
<1>4. \A n \in DOMAIN h : g[n].kind = h[n].kind /\ g[n].entries = h[n].entries /\ g[n].proto = h[n].proto
  BY <1>2, <1>3
<1>5. \A n \in DOMAIN h : g[n].refs = h[n].refs + IF n = m THEN d ELSE 0
  <2> TAKE n \in DOMAIN h
  <2>1. h[n].refs \in Int
    BY SaneNodes
  <2> QED BY <1>2, <1>3, <2>1
<1>6. Sane(g)
  BY <1>3, <1>4 DEF Sane
<1>7. \A n \in DOMAIN h : HeldInHeap(g, n) = HeldInHeap(h, n)
  BY <1>3, <1>4, HeldSame
<1> QED BY <1>3, <1>4, <1>5, <1>6, <1>7 DEF g

(* A container goes, and gives back what it held.                          *)
LEMMA CollectIsSane ==
  ASSUME NEW h, Sane(h), NEW n \in Dead(h)
  PROVE  /\ Sane(Collect(h, n)) /\ Len(Collect(h, n)) = Len(h)
         /\ \A ext, ov \in Counts : Len(h) <= MaxNodes /\ Balanced(h, ext, ov) => Balanced(Collect(h, n), ext, ov)
<1> DEFINE g == Collect(h, n)
           Gone(m) == Count(h[n].entries, Ref(m))
<1>1. n \in DOMAIN h /\ h[n].kind # "freed" /\ h[n].refs <= 0
  BY DEF Dead
<1>2. FiniteHeap(h)
  BY HeapIsFinite DEF Sane
<1>3. \A m \in DOMAIN h : Gone(m) \in Nat
  BY <1>1, <1>2, CountIsNat DEF FiniteHeap
<1>4. DOMAIN g = DOMAIN h /\ g = [m \in DOMAIN h |-> g[m]]
  BY DEF Collect
<1>5. /\ g[n] = [h[n] EXCEPT !.kind = "freed", !.entries = <<>>]
      /\ \A m \in DOMAIN h \ {n} : g[m] = [h[m] EXCEPT !.refs = @ - Gone(m)]
  BY <1>1 DEF Collect, Count
<1>6. /\ g[n].kind = "freed" /\ g[n].entries = <<>> /\ g[n].refs = h[n].refs /\ g[n].proto = h[n].proto
      /\ g[n] \in Nodes(Refs)
  <2>1. h[n] \in Nodes(Refs)
    BY <1>1, SaneNodes
  <2> HIDE DEF g
  <2>2. <<>> \in Seq(Entries(Refs))
    OBVIOUS
  <2> QED BY <1>5, <2>1, <2>2 DEF Nodes
<1>7. \A m \in DOMAIN h \ {n} :
        /\ g[m] \in Nodes(Refs) /\ g[m].kind = h[m].kind /\ g[m].entries = h[m].entries
        /\ g[m].proto = h[m].proto /\ g[m].refs = h[m].refs - Gone(m)
  <2> TAKE m \in DOMAIN h \ {n}
  <2>1. h[m] \in Nodes(Refs) /\ h[m].refs - Gone(m) \in Int
    BY <1>3, SaneNodes
  <2> HIDE DEF g, Gone
  <2>2. g[m] = [h[m] EXCEPT !.refs = h[m].refs - Gone(m)]
    BY <1>5
  <2> QED BY <2>1, <2>2, OtherRefs
<1> HIDE DEF g
<1>8. g \in HeapOf(Refs) /\ Len(g) = Len(h)
  <2>1. DOMAIN h = 1..Len(h) /\ Len(h) \in Nat
    BY SaneNodes
  <2>2. g \in [1..Len(h) -> Nodes(Refs)]
    BY <1>4, <1>6, <1>7, <2>1
  <2> QED BY <2>1, <2>2 DEF HeapOf
<1>9. Sane(g)
  BY <1>4, <1>6, <1>7, <1>8 DEF Sane
<1>10. \A m \in DOMAIN h : /\ HeldInHeap(g, m) = HeldInHeap(h, m) - Gone(m)
                           /\ HeldInHeap(h, m) \in Nat /\ Gone(m) <= HeldInHeap(h, m)
  <2> TAKE m \in DOMAIN h
  <2>1. FiniteHeap(g)
    BY <1>8, HeapIsFinite
  <2>2. /\ HeldInHeap(g, m) = HeldInHeap(h, m) - HeldBy(h[n], m) + HeldBy(g[n], m)
        /\ HeldInHeap(g, m) \in Nat /\ HeldInHeap(h, m) \in Nat
        /\ HeldBy(h[n], m) \in Nat /\ HeldBy(g[n], m) \in Nat
        /\ HeldBy(h[n], m) <= HeldInHeap(h, m)
    BY <1>1, <1>2, <1>4, <1>6, <1>7, <2>1, HeldChanges
  <2>3. Count(g[n].entries, Ref(m)) = 0
    BY <1>6, CountOfNone
  <2>4. HeldBy(h[n], m) = Gone(m) + HeldBy(g[n], m)
    BY <1>3, <1>6, <2>3 DEF HeldBy
  <2>5. h[n].proto = None /\ HeldBy(g[n], m) = IF None = m THEN 1 ELSE 0
    BY <1>1, <1>6, <2>3 DEF HeldBy, Sane
  <2> QED BY <1>3, <2>2, <2>4, <2>5
<1>11. ASSUME NEW ext \in Counts, NEW ov \in Counts, Len(h) <= MaxNodes, Balanced(h, ext, ov)
       PROVE  Balanced(g, ext, ov)
  <2> SUFFICES ASSUME NEW m \in DOMAIN h
               PROVE  Fits(g[m].kind, g[m].refs, ov[m], ext[m], HeldInHeap(g, m))
    BY <1>4 DEF Balanced
  <2>1. m \in 1..MaxNodes /\ h[m].refs \in Int
    <3>1. m \in 1..Len(h) /\ Len(h) \in Nat /\ MaxNodes \in Nat /\ h[m].refs \in Int
      BY SaneNodes, OwnedBounds
    <3> QED BY <1>11, <3>1
  <2>2. ext[m] \in Nat /\ ov[m] \in Nat
    BY <2>1 DEF Counts
  <2>3. Fits(h[m].kind, h[m].refs, ov[m], ext[m], HeldInHeap(h, m))
    BY <1>11 DEF Balanced
  <2>4. Fits(h[m].kind, h[m].refs - Gone(m), ov[m], ext[m], HeldInHeap(g, m))
    <3> HIDE DEF Gone
    <3> QED BY <1>3, <1>10, <2>1, <2>2, <2>3, FitsLess
  <2>5. CASE m = n
    <3>1. Fits("freed", h[m].refs, ov[m], ext[m], HeldInHeap(h, m) - Gone(m))
      <4> HIDE DEF Gone
      <4> QED BY <1>1, <1>3, <1>10, <2>1, <2>2, <2>3, <2>5, FitsDead
    <3> QED BY <1>6, <1>10, <2>5, <3>1
  <2>6. CASE m # n
    <3>1. g[m].kind = h[m].kind /\ g[m].refs = h[m].refs - Gone(m)
      BY <1>7, <2>6
    <3> QED BY <2>4, <3>1
  <2> QED BY <2>5, <2>6
<1> QED BY <1>8, <1>9, <1>11 DEF g

(* FreeValue keeps what Free and Collect keep.                             *)
LEMMA FreeValueIn ==
  ASSUME NEW h, NEW v, NEW X, Free(h, v) \in X, Len(h) \in Nat,
         \A g \in X : Dead(g) # {} => \A n \in Dead(g) : Collect(g, n) \in X
  PROVE  FreeValue(h, v) \in X
<1> DEFINE N == Len(h)
           Sweep[k \in 0..N] ==
             IF k = 0 THEN Free(h, v)
             ELSE LET g == Sweep[k - 1] IN
                  IF Dead(g) = {} THEN g ELSE Collect(g, CHOOSE n \in Dead(g) : TRUE)
           F(g) == IF Dead(g) = {} THEN g ELSE Collect(g, CHOOSE n \in Dead(g) : TRUE)
           G == [p \in X \X (1..N) |-> F(p[1])]
<1>1. \A g \in X : F(g) \in X
  OBVIOUS
<1>2. G \in [X \X (1..N) -> X]
  <2>1. ASSUME NEW p \in X \X (1..N) PROVE F(p[1]) \in X
    <3>1. p[1] \in X
      OBVIOUS
    <3> HIDE DEF F
    <3> QED BY <1>1, <3>1
  <2> HIDE DEF F
  <2> QED BY <2>1
<1>3. PICK f : Repeats(f, X, Free(h, v), N, G)
  <2>1. N \in Nat
    OBVIOUS
  <2>2. IsStep(G, X, N)
    BY <1>2 DEF IsStep
  <2> HIDE DEF G, N
  <2> QED BY <2>1, <2>2, Recursion
<1> USE DEF Repeats
<1>4. f = [k \in 0..N |-> IF k = 0 THEN Free(h, v) ELSE F(f[k-1])]
  <2>1. \A k \in 1..N : f[k-1] \in X /\ f[k] = F(f[k-1])
    <3> TAKE k \in 1..N
    <3>1. f[k-1] \in X
      <4> k - 1 \in 0..N
        OBVIOUS
      <4> QED BY <1>3
    <3> HIDE DEF F
    <3> QED BY <1>3, <3>1
  <2> HIDE DEF F
  <2> QED BY <1>3, <2>1
<1>5. Sweep = [k \in 0..N |-> IF k = 0 THEN Free(h, v) ELSE F(Sweep[k-1])]
  BY <1>4
<1>6. 0..N \subseteq {k \in 0..N : Sweep[k] \in X}
  <2> DEFINE S == {k \in 0..N : Sweep[k] \in X}
  <2>1. 0 \in S
    <3> HIDE DEF Sweep, F
    <3>1. Sweep[0] = Free(h, v)
      BY <1>5
    <3> QED BY <3>1
  <2>2. ASSUME NEW k \in 1..N, k - 1 \in S
        PROVE  k \in S
    <3> HIDE DEF Sweep, F
    <3>1. Sweep[k] = F(Sweep[k-1])
      BY <1>5
    <3> QED BY <1>1, <2>2, <3>1
  <2> HIDE DEF S
  <2> QED BY <2>1, <2>2, Induction DEF S
<1>7. Sweep[N] \in X
  <2> HIDE DEF Sweep
  <2> QED BY <1>6
<1>8. FreeValue(h, v) = Sweep[N]
  BY DEF FreeValue
<1> QED BY <1>7, <1>8

LEMMA FitsChanged ==
  ASSUME NEW kind, NEW refs \in Int, NEW o \in Nat, NEW e \in Nat, NEW held \in Nat,
         NEW e2 \in Nat, NEW x \in Nat, e = e2 + x, Fits(kind, refs, o, e, held)
  PROVE  Fits(kind, refs - x, o, e2, held)
BY DEF Fits

LEMMA FreeBalanced ==
  ASSUME NEW h, Sane(h), Len(h) <= MaxNodes, NEW m \in DOMAIN h,
         NEW ext \in Counts, NEW ext2 \in Counts, NEW ov \in Counts, Balanced(h, ext, ov),
         \A n \in DOMAIN h : ext[n] = ext2[n] + Is(n, m)
  PROVE  Balanced(Free(h, Ref(m)), ext2, ov)
<1> DEFINE g == Free(h, Ref(m))
<1>1. /\ DOMAIN g = DOMAIN h
      /\ \A n \in DOMAIN h : /\ HeldInHeap(g, n) = HeldInHeap(h, n)
                             /\ g[n].kind = h[n].kind
                             /\ g[n].refs = h[n].refs + IF n = m THEN -1 ELSE 0
  BY RefsAdded DEF Free
<1> HIDE DEF g
<1> SUFFICES ASSUME NEW n \in DOMAIN h
             PROVE  Fits(g[n].kind, g[n].refs, ov[n], ext2[n], HeldInHeap(g, n))
  BY <1>1 DEF Balanced, g
<1>2. n \in 1..MaxNodes /\ h[n].refs \in Int /\ HeldInHeap(h, n) \in Nat
  <2>1. n \in 1..Len(h) /\ Len(h) \in Nat /\ MaxNodes \in Nat /\ h[n].refs \in Int /\ FiniteHeap(h)
    BY SaneNodes, OwnedBounds
  <2>2. HeldInHeap(h, n) \in Nat
    BY <2>1, HeldChanges
  <2> QED BY <2>1, <2>2
<1>3. ext[n] \in Nat /\ ext2[n] \in Nat /\ ov[n] \in Nat
  BY <1>2 DEF Counts
<1>4. Is(n, m) \in Nat /\ g[n].refs = h[n].refs - Is(n, m)
  BY <1>1, <1>2 DEF Is
<1>5. Fits(h[n].kind, h[n].refs, ov[n], ext[n], HeldInHeap(h, n))
  BY DEF Balanced
<1>6. ext[n] = ext2[n] + Is(n, m)
  OBVIOUS
<1>7. Fits(h[n].kind, h[n].refs - Is(n, m), ov[n], ext2[n], HeldInHeap(h, n))
  BY <1>2, <1>3, <1>4, <1>5, <1>6, FitsChanged
<1> QED BY <1>1, <1>4, <1>7

LEMMA FreeValueIsSane ==
  ASSUME NEW h, Sane(h), NEW m \in DOMAIN h
  PROVE  Sane(FreeValue(h, Ref(m))) /\ Len(FreeValue(h, Ref(m))) = Len(h)
<1> DEFINE X == {g \in HeapOf(Refs) : Sane(g) /\ Len(g) = Len(h)}
<1>1. Free(h, Ref(m)) \in X
  <2>1. Sane(Free(h, Ref(m))) /\ Len(Free(h, Ref(m))) = Len(h)
    BY RefsAdded DEF Free
  <2> QED BY <2>1 DEF Sane
<1>2. \A g \in X : \A n \in Dead(g) : Collect(g, n) \in X
  <2> TAKE g \in X
  <2> TAKE n \in Dead(g)
  <2>1. Sane(Collect(g, n)) /\ Len(Collect(g, n)) = Len(h)
    BY CollectIsSane
  <2> QED BY <2>1 DEF Sane
<1>3. Len(h) \in Nat
  BY SaneNodes
<1>4. FreeValue(h, Ref(m)) \in X
  <2> HIDE DEF X
  <2> QED BY <1>1, <1>2, <1>3, FreeValueIn
<1> QED BY <1>4

(* A reference is given back: the count is right again.                    *)
LEMMA FreeValueBalanced ==
  ASSUME NEW h, Sane(h), Len(h) <= MaxNodes, NEW m \in DOMAIN h,
         NEW ext \in Counts, NEW ext2 \in Counts, NEW ov \in Counts, Balanced(h, ext, ov),
         \A n \in DOMAIN h : ext[n] = ext2[n] + Is(n, m)
  PROVE  Balanced(FreeValue(h, Ref(m)), ext2, ov)
<1> DEFINE X == {g \in HeapOf(Refs) : Sane(g) /\ Len(g) = Len(h) /\ Balanced(g, ext2, ov)}
<1>1. Free(h, Ref(m)) \in X
  <2>1. Sane(Free(h, Ref(m))) /\ Len(Free(h, Ref(m))) = Len(h)
    BY RefsAdded DEF Free
  <2> QED BY <2>1, FreeBalanced DEF Sane
<1>2. \A g \in X : \A n \in Dead(g) : Collect(g, n) \in X
  <2> TAKE g \in X
  <2> TAKE n \in Dead(g)
  <2>1. Sane(Collect(g, n)) /\ Len(Collect(g, n)) = Len(h) /\ Balanced(Collect(g, n), ext2, ov)
    BY CollectIsSane
  <2> QED BY <2>1 DEF Sane
<1>3. Len(h) \in Nat
  BY SaneNodes
<1>4. FreeValue(h, Ref(m)) \in X
  <2> HIDE DEF X
  <2> QED BY <1>1, <1>2, <1>3, FreeValueIn
<1> QED BY <1>4

-----------------------------------------------------------------------------
(* JS_DupValue, and lists of values.                                       *)

LEMMA FitsMore ==
  ASSUME NEW kind, NEW refs \in Int, NEW o \in Nat, NEW e \in Nat, NEW held \in Nat,
         NEW e2 \in Nat, NEW x \in Nat, e2 = e + x, kind # "freed" \/ x = 0,
         Fits(kind, refs, o, e, held)
  PROVE  Fits(kind, refs + x, o, e2, held)
BY DEF Fits

(* A reference is taken.                                                   *)
LEMMA DupBalanced ==
  ASSUME NEW h, Sane(h), Len(h) <= MaxNodes, NEW m \in DOMAIN h, h[m].kind # "freed",
         NEW ext \in Counts, NEW ext2 \in Counts, NEW ov \in Counts, Balanced(h, ext, ov),
         \A n \in DOMAIN h : ext2[n] = ext[n] + Is(n, m)
  PROVE  Balanced(Dup(h, Ref(m)), ext2, ov)
<1> DEFINE g == Dup(h, Ref(m))
<1>1. /\ DOMAIN g = DOMAIN h
      /\ \A n \in DOMAIN h : /\ HeldInHeap(g, n) = HeldInHeap(h, n)
                             /\ g[n].kind = h[n].kind
                             /\ g[n].refs = h[n].refs + IF n = m THEN 1 ELSE 0
  BY RefsAdded DEF Dup
<1> HIDE DEF g
<1> SUFFICES ASSUME NEW n \in DOMAIN h
             PROVE  Fits(g[n].kind, g[n].refs, ov[n], ext2[n], HeldInHeap(g, n))
  BY <1>1 DEF Balanced, g
<1>2. n \in 1..MaxNodes /\ h[n].refs \in Int /\ HeldInHeap(h, n) \in Nat
  <2>1. n \in 1..Len(h) /\ Len(h) \in Nat /\ MaxNodes \in Nat /\ h[n].refs \in Int /\ FiniteHeap(h)
    BY SaneNodes, OwnedBounds
  <2>2. HeldInHeap(h, n) \in Nat
    BY <2>1, HeldChanges
  <2> QED BY <2>1, <2>2
<1>3. ext[n] \in Nat /\ ext2[n] \in Nat /\ ov[n] \in Nat
  BY <1>2 DEF Counts
<1>4. Fits(h[n].kind, h[n].refs, ov[n], ext[n], HeldInHeap(h, n))
  BY DEF Balanced
<1>5. ext2[n] = ext[n] + Is(n, m) /\ Is(n, m) \in Nat /\ g[n].refs = h[n].refs + Is(n, m)
  BY <1>1, <1>2 DEF Is
<1>6. h[n].kind # "freed" \/ Is(n, m) = 0
  BY DEF Is
<1>7. Fits(h[n].kind, h[n].refs + Is(n, m), ov[n], ext2[n], HeldInHeap(h, n))
  BY <1>2, <1>3, <1>4, <1>5, <1>6, FitsMore
<1> QED BY <1>1, <1>5, <1>7

(* How often v is among the elements from a to b.                          *)
TimesIn(vs, a, b, v) == Cardinality({i \in a..b : vs[i] = v})

LEMMA TimesInSplit ==
  ASSUME NEW vs, NEW v, NEW a \in Int, NEW b \in Int, a <= b
  PROVE  /\ TimesIn(vs, a, b, v) \in Nat
         /\ TimesIn(vs, a, b, v) = TimesIn(vs, a + 1, b, v) + Is(vs[a], v)
         /\ TimesIn(vs, a, b, v) = TimesIn(vs, a, b - 1, v) + Is(vs[b], v)
         /\ TimesIn(vs, a + 1, b, v) \in Nat
         /\ TimesIn(vs, a, b - 1, v) \in Nat
<1> DEFINE A == {i \in a..b : vs[i] = v}
           B == {i \in a+1..b : vs[i] = v}
           C == {i \in a..b-1 : vs[i] = v}
<1>1. IsFiniteSet(a..b)
  BY FS_Interval
<1>2. A \in SUBSET (a..b) /\ B \in SUBSET (a..b) /\ C \in SUBSET (a..b)
  OBVIOUS
<1>3. a \notin B /\ b \notin C
  OBVIOUS
<1>4. /\ A = IF vs[a] = v THEN B \cup {a} ELSE B
      /\ A = IF vs[b] = v THEN C \cup {b} ELSE C
  OBVIOUS
<1> HIDE DEF A, B, C
<1>5. IsFiniteSet(A) /\ IsFiniteSet(B) /\ IsFiniteSet(C)
  BY <1>1, <1>2, FS_Subset
<1>6. Cardinality(A) \in Nat /\ Cardinality(B) \in Nat /\ Cardinality(C) \in Nat
  BY <1>5, FS_CardinalityType
<1>7. Cardinality(A) = Cardinality(B) + Is(vs[a], v)
  BY <1>3, <1>4, <1>5, OneMore
<1>8. Cardinality(A) = Cardinality(C) + Is(vs[b], v)
  BY <1>3, <1>4, <1>5, OneMore
<1> QED BY <1>6, <1>7, <1>8 DEF TimesIn, A, B, C

LEMMA TimesInNone ==
  ASSUME NEW vs, NEW v, NEW a \in Int
  PROVE  TimesIn(vs, a + 1, a, v) = 0
<1>1. {i \in a+1..a : vs[i] = v} = {}
  OBVIOUS
<1> QED BY <1>1, FS_EmptySet DEF TimesIn

(* The heaps of FreeAll, one value after the other; and of DupAll.         *)
Freeing(f, X, h, vs) ==
  /\ f \in [0..Len(vs) -> X] /\ f[0] = h
  /\ \A k \in 1..Len(vs) : f[k] = FreeValue(f[k-1], vs[k])
  /\ FreeAll(h, vs) = f[Len(vs)]

LEMMA FreeAllSteps ==
  ASSUME NEW X, NEW h \in X, NEW vs, Len(vs) \in Nat,
         \A g \in X : \A k \in 1..Len(vs) : FreeValue(g, vs[k]) \in X
  PROVE  \E f : Freeing(f, X, h, vs)
<1> DEFINE N == Len(vs)
           Some[k \in 0..N] == IF k = 0 THEN h ELSE FreeValue(Some[k - 1], vs[k])
           G == [p \in X \X (1..N) |-> FreeValue(p[1], vs[p[2]])]
<1>1. IsStep(G, X, N)
  BY DEF IsStep
<1>2. PICK f : Repeats(f, X, h, N, G)
  <2>1. N \in Nat
    OBVIOUS
  <2> HIDE DEF G, N
  <2> QED BY <1>1, <2>1, Recursion
<1>3. \A k \in 1..N : f[k-1] \in X /\ f[k] = FreeValue(f[k-1], vs[k])
  <2> TAKE k \in 1..N
  <2>1. f[k-1] \in X
    <3>1. k - 1 \in 0..N
      OBVIOUS
    <3> QED BY <1>2, <3>1 DEF Repeats
  <2> QED BY <1>2, <2>1 DEF Repeats
<1>4. f = [k \in 0..N |-> IF k = 0 THEN h ELSE FreeValue(f[k-1], vs[k])]
  BY <1>2, <1>3 DEF Repeats
<1>5. Some = [k \in 0..N |-> IF k = 0 THEN h ELSE FreeValue(Some[k-1], vs[k])]
  BY <1>4
<1>6. FreeAll(h, vs) = Some[N]
  BY DEF FreeAll
<1> HIDE DEF Some
<1> DEFINE S == {k \in 0..N : Some[k] = f[k]}
<1>7. 0 \in S
  BY <1>2, <1>5 DEF Repeats
<1>8. ASSUME NEW k \in 1..N, k - 1 \in S
      PROVE  k \in S
  BY <1>3, <1>5, <1>8
<1>9. Some[N] = f[N]
  <2>1. Closed(S, N) /\ N \in Nat
    BY <1>8 DEF Closed
  <2>2. N \in S
    <3> HIDE DEF S, N
    <3> QED BY <1>7, <2>1, Reached
  <2> QED BY <2>2
<1> QED BY <1>2, <1>3, <1>6, <1>9 DEF Repeats, Freeing

Duping(f, X, h, vs) ==
  /\ f \in [0..Len(vs) -> X] /\ f[0] = h
  /\ \A k \in 1..Len(vs) : f[k] = Dup(f[k-1], vs[k])
  /\ DupAll(h, vs) = f[Len(vs)]

LEMMA DupAllSteps ==
  ASSUME NEW X, NEW h \in X, NEW vs, Len(vs) \in Nat,
         \A g \in X : \A k \in 1..Len(vs) : Dup(g, vs[k]) \in X
  PROVE  \E f : Duping(f, X, h, vs)
<1> DEFINE N == Len(vs)
           Some[k \in 0..N] == IF k = 0 THEN h ELSE Dup(Some[k - 1], vs[k])
           G == [p \in X \X (1..N) |-> Dup(p[1], vs[p[2]])]
<1>1. IsStep(G, X, N)
  BY DEF IsStep
<1>2. PICK f : Repeats(f, X, h, N, G)
  <2>1. N \in Nat
    OBVIOUS
  <2> HIDE DEF G, N
  <2> QED BY <1>1, <2>1, Recursion
<1>3. \A k \in 1..N : f[k-1] \in X /\ f[k] = Dup(f[k-1], vs[k])
  <2> TAKE k \in 1..N
  <2>1. f[k-1] \in X
    <3>1. k - 1 \in 0..N
      OBVIOUS
    <3> QED BY <1>2, <3>1 DEF Repeats
  <2> QED BY <1>2, <2>1 DEF Repeats
<1>4. f = [k \in 0..N |-> IF k = 0 THEN h ELSE Dup(f[k-1], vs[k])]
  BY <1>2, <1>3 DEF Repeats
<1>5. Some = [k \in 0..N |-> IF k = 0 THEN h ELSE Dup(Some[k-1], vs[k])]
  BY <1>4
<1>6. DupAll(h, vs) = Some[N]
  BY DEF DupAll
<1> HIDE DEF Some
<1> DEFINE S == {k \in 0..N : Some[k] = f[k]}
<1>7. 0 \in S
  BY <1>2, <1>5 DEF Repeats
<1>8. ASSUME NEW k \in 1..N, k - 1 \in S
      PROVE  k \in S
  BY <1>3, <1>5, <1>8
<1>9. Some[N] = f[N]
  <2>1. Closed(S, N) /\ N \in Nat
    BY <1>8 DEF Closed
  <2>2. N \in S
    <3> HIDE DEF S, N
    <3> QED BY <1>7, <2>1, Reached
  <2> QED BY <2>2
<1> QED BY <1>2, <1>3, <1>6, <1>9 DEF Repeats, Duping

LEMMA TimesInStep ==
  ASSUME NEW vs, NEW v, NEW N \in Nat, NEW k \in 0..N
  PROVE  /\ TimesIn(vs, k + 1, N, v) \in Nat
         /\ k > 0 => TimesIn(vs, k, N, v) = TimesIn(vs, k + 1, N, v) + Is(vs[k], v)
<1>1. CASE k < N
  <2>1. k + 1 \in Int /\ k + 1 <= N /\ N \in Int /\ k \in Int /\ k <= N
    BY <1>1
  <2>2. TimesIn(vs, k + 1, N, v) \in Nat
    BY <2>1, TimesInSplit
  <2>3. TimesIn(vs, k, N, v) = TimesIn(vs, k + 1, N, v) + Is(vs[k], v)
    BY <2>1, TimesInSplit
  <2> QED BY <2>2, <2>3
<1>2. CASE k = N
  <2>1. TimesIn(vs, N + 1, N, v) = 0
    BY TimesInNone
  <2>2. TimesIn(vs, N, N, v) = TimesIn(vs, N + 1, N, v) + Is(vs[N], v)
    BY TimesInSplit
  <2> QED BY <1>2, <2>1, <2>2
<1> QED BY <1>1, <1>2

LEMMA TimesInFirst ==
  ASSUME NEW vs, NEW v, NEW N \in Nat, NEW k \in 0..N
  PROVE  /\ TimesIn(vs, 1, k, v) \in Nat
         /\ k > 0 => TimesIn(vs, 1, k, v) = TimesIn(vs, 1, k - 1, v) + Is(vs[k], v)
<1>1. CASE k > 0
  <2>1. 1 \in Int /\ k \in Int /\ 1 <= k
    BY <1>1
  <2> QED BY <2>1, TimesInSplit
<1>2. CASE k = 0
  <2>1. TimesIn(vs, 0 + 1, 0, v) = 0
    BY TimesInNone
  <2> QED BY <1>2, <2>1
<1> QED BY <1>1, <1>2

(* A list of references is given back, and taken.                          *)
LEMMA FreeAllBalanced ==
  ASSUME NEW h, Sane(h), Len(h) <= MaxNodes, NEW vs, Len(vs) \in Nat,
         \A k \in 1..Len(vs) : \E m \in DOMAIN h : vs[k] = Ref(m)
  PROVE  /\ Sane(FreeAll(h, vs)) /\ Len(FreeAll(h, vs)) = Len(h)
         /\ \A ext, ext2, ov \in Counts :
              Balanced(h, ext, ov)
                /\ (\A n \in DOMAIN h : ext[n] = ext2[n] + TimesIn(vs, 1, Len(vs), Ref(n)))
              => Balanced(FreeAll(h, vs), ext2, ov)
<1> DEFINE X == {g \in HeapOf(Refs) : Sane(g) /\ Len(g) = Len(h)}
           N == Len(vs)
<1>1. \A g \in X : \A k \in 1..N : FreeValue(g, vs[k]) \in X
  <2> TAKE g \in X
  <2> TAKE k \in 1..N
  <2>1. PICK m \in DOMAIN g : vs[k] = Ref(m)
    BY SaneNodes
  <2>2. Sane(FreeValue(g, Ref(m))) /\ Len(FreeValue(g, Ref(m))) = Len(h)
    BY FreeValueIsSane
  <2> QED BY <2>1, <2>2 DEF Sane
<1>2. h \in X
  BY DEF Sane
<1>3. PICK f : /\ f \in [0..N -> X] /\ f[0] = h
               /\ \A k \in 1..N : f[k] = FreeValue(f[k-1], vs[k])
               /\ FreeAll(h, vs) = f[N]
  <2>1. \E f : Freeing(f, X, h, vs)
    <3> HIDE DEF X
    <3> QED BY <1>1, <1>2, FreeAllSteps
  <2> HIDE DEF X
  <2> QED BY <2>1 DEF Freeing
<1>4. FreeAll(h, vs) \in X
  <2>1. N \in 0..N
    OBVIOUS
  <2> HIDE DEF X
  <2> QED BY <1>3, <2>1
<1>5. ASSUME NEW ext \in Counts, NEW ext2 \in Counts, NEW ov \in Counts, Balanced(h, ext, ov),
             \A n \in DOMAIN h : ext[n] = ext2[n] + TimesIn(vs, 1, N, Ref(n))
      PROVE  Balanced(FreeAll(h, vs), ext2, ov)
  <2> DEFINE Left == [k \in 0..N |-> [n \in 1..MaxNodes |-> ext2[n] + TimesIn(vs, k + 1, N, Ref(n))]]
             S == {k \in 0..N : Balanced(f[k], Left[k], ov)}
  <2>1. N \in Nat
    OBVIOUS
  <2>2. \A n \in DOMAIN h : n \in 1..MaxNodes
    BY SaneNodes, OwnedBounds
  <2>3. \A n \in 1..MaxNodes : ext2[n] \in Nat
    BY DEF Counts
  <2>4. \A k \in 0..N : Left[k] \in Counts
    <3> TAKE k \in 0..N
    <3> HIDE DEF N
    <3>1. \A n \in 1..MaxNodes : TimesIn(vs, k + 1, N, Ref(n)) \in Nat
      BY <2>1, TimesInStep
    <3>2. \A n \in 1..MaxNodes : ext2[n] + TimesIn(vs, k + 1, N, Ref(n)) \in Nat
      BY <2>3, <3>1
    <3> QED BY <3>2 DEF Counts
  <2>5. 0 \in S
    <3>1. \A n \in DOMAIN h : Left[0][n] = ext[n]
      BY <1>5, <2>2
    <3>2. Balanced(h, Left[0], ov)
      <4> HIDE DEF Left
      <4> QED BY <1>5, <3>1 DEF Balanced
    <3>3. f[0] = h /\ 0 \in 0..N
      BY <1>3
    <3> HIDE DEF Left, N
    <3> QED BY <3>2, <3>3
  <2>6. ASSUME NEW k \in 1..N, k - 1 \in S
        PROVE  k \in S
    <3>1. f[k-1] \in X /\ k - 1 \in 0..N /\ k \in 0..N
      <4> HIDE DEF X, Left, S
      <4>1. k - 1 \in 0..N /\ k \in 0..N
        BY <2>1
      <4> HIDE DEF N
      <4> QED BY <1>3, <4>1
    <3>2. PICK m \in DOMAIN h : vs[k] = Ref(m)
      OBVIOUS
    <3>3. DOMAIN f[k-1] = DOMAIN h
      BY <3>1, SaneNodes
    <3>4. \A n \in DOMAIN h : Left[k-1][n] = Left[k][n] + Is(n, m)
      <4> TAKE n \in DOMAIN h
      <4>1. Is(vs[k], Ref(n)) = Is(n, m) /\ Is(n, m) \in Nat
        BY <3>2 DEF Is, Ref, Value
      <4> DEFINE A == TimesIn(vs, k, N, Ref(n))
                 B == TimesIn(vs, k + 1, N, Ref(n))
      <4>2. B \in Nat /\ A = B + Is(n, m)
        <5> HIDE DEF N
        <5> k > 0 /\ k \in 0..N
          BY <2>1
        <5> QED BY <2>1, <4>1, TimesInStep
      <4>3. n \in 1..MaxNodes /\ ext2[n] \in Nat
        BY <2>2, <2>3
      <4>4. Left[k-1][n] = ext2[n] + A /\ Left[k][n] = ext2[n] + B
        <5>1. k - 1 + 1 = k
          OBVIOUS
        <5> QED BY <3>1, <4>3, <5>1
      <4> HIDE DEF Left, A, B
      <4> QED BY <4>1, <4>2, <4>3, <4>4
    <3>5. Balanced(f[k-1], Left[k-1], ov)
      BY <2>6
    <3>6. Balanced(FreeValue(f[k-1], Ref(m)), Left[k], ov)
      <4>1. Left[k-1] \in Counts /\ Left[k] \in Counts
        BY <2>4, <3>1
      <4>2. Sane(f[k-1]) /\ Len(f[k-1]) = Len(h)
        BY <3>1
      <4> HIDE DEF Left
      <4> QED BY <3>3, <3>4, <3>5, <4>1, <4>2, FreeValueBalanced
    <3> HIDE DEF Left
    <3> QED BY <1>3, <3>1, <3>2, <3>6
  <2>7. N \in S
    <3>1. Closed(S, N)
      BY <2>6 DEF Closed
    <3> HIDE DEF S, N
    <3> QED BY <2>1, <2>5, <3>1, Reached
  <2>8. Balanced(f[N], Left[N], ov) /\ \A n \in DOMAIN f[N] : Left[N][n] = ext2[n]
    <3>1. Balanced(f[N], Left[N], ov)
      BY <2>7
    <3>2. ASSUME NEW n \in DOMAIN f[N] PROVE Left[N][n] = ext2[n]
      <4>1. n \in 1..MaxNodes
        BY <1>3, <1>4, SaneNodes, OwnedBounds
      <4>2. TimesIn(vs, N + 1, N, Ref(n)) = 0 /\ ext2[n] \in Nat
        BY <2>3, <4>1, TimesInNone
      <4> QED BY <4>1, <4>2
    <3> QED BY <3>1, <3>2
  <2> HIDE DEF Left
  <2> QED BY <1>3, <2>8 DEF Balanced
<1> QED BY <1>4, <1>5

LEMMA DupIsSane ==
  ASSUME NEW h, Sane(h), NEW m \in DOMAIN h
  PROVE  /\ Sane(Dup(h, Ref(m))) /\ Len(Dup(h, Ref(m))) = Len(h)
         /\ DOMAIN Dup(h, Ref(m)) = DOMAIN h
         /\ \A n \in DOMAIN h : Dup(h, Ref(m))[n].kind = h[n].kind
BY RefsAdded DEF Dup

LEMMA DupAllBalanced ==
  ASSUME NEW h, Sane(h), Len(h) <= MaxNodes, NEW vs, Len(vs) \in Nat,
         \A k \in 1..Len(vs) : \E m \in DOMAIN h : vs[k] = Ref(m) /\ h[m].kind # "freed"
  PROVE  /\ Sane(DupAll(h, vs)) /\ Len(DupAll(h, vs)) = Len(h)
         /\ \A n \in DOMAIN h : DupAll(h, vs)[n].kind = h[n].kind
         /\ \A ext, ext2, ov \in Counts :
              Balanced(h, ext, ov)
                /\ (\A n \in DOMAIN h : ext2[n] = ext[n] + TimesIn(vs, 1, Len(vs), Ref(n)))
              => Balanced(DupAll(h, vs), ext2, ov)
<1> DEFINE X == {g \in HeapOf(Refs) : /\ Sane(g) /\ Len(g) = Len(h)
                                      /\ \A n \in DOMAIN h : g[n].kind = h[n].kind}
           N == Len(vs)
<1>1. \A g \in X : \A k \in 1..N : Dup(g, vs[k]) \in X
  <2> TAKE g \in X
  <2> TAKE k \in 1..N
  <2>1. PICK m \in DOMAIN g : vs[k] = Ref(m)
    BY SaneNodes
  <2>2. DOMAIN g = DOMAIN h
    BY SaneNodes
  <2>3. Sane(Dup(g, Ref(m))) /\ Len(Dup(g, Ref(m))) = Len(h)
        /\ \A n \in DOMAIN g : Dup(g, Ref(m))[n].kind = g[n].kind
    BY DupIsSane
  <2> QED BY <2>1, <2>2, <2>3 DEF Sane
<1>2. h \in X
  BY DEF Sane
<1>3. PICK f : /\ f \in [0..N -> X] /\ f[0] = h
               /\ \A k \in 1..N : f[k] = Dup(f[k-1], vs[k])
               /\ DupAll(h, vs) = f[N]
  <2>1. \E f : Duping(f, X, h, vs)
    <3> HIDE DEF X
    <3> QED BY <1>1, <1>2, DupAllSteps
  <2> HIDE DEF X
  <2> QED BY <2>1 DEF Duping
<1>4. DupAll(h, vs) \in X
  <2>1. N \in 0..N
    OBVIOUS
  <2> HIDE DEF X
  <2> QED BY <1>3, <2>1
<1>5. ASSUME NEW ext \in Counts, NEW ext2 \in Counts, NEW ov \in Counts, Balanced(h, ext, ov),
             \A n \in DOMAIN h : ext2[n] = ext[n] + TimesIn(vs, 1, N, Ref(n))
      PROVE  Balanced(DupAll(h, vs), ext2, ov)
  <2> DEFINE Grown == [k \in 0..N |-> [n \in 1..MaxNodes |-> ext[n] + TimesIn(vs, 1, k, Ref(n))]]
             S == {k \in 0..N : Balanced(f[k], Grown[k], ov)}
  <2>1. N \in Nat
    OBVIOUS
  <2>2. \A n \in DOMAIN h : n \in 1..MaxNodes
    BY SaneNodes, OwnedBounds
  <2>3. \A n \in 1..MaxNodes : ext[n] \in Nat
    BY DEF Counts
  <2>4. \A k \in 0..N : Grown[k] \in Counts
    <3> TAKE k \in 0..N
    <3> HIDE DEF N
    <3>1. \A n \in 1..MaxNodes : TimesIn(vs, 1, k, Ref(n)) \in Nat
      BY <2>1, TimesInFirst
    <3>2. \A n \in 1..MaxNodes : ext[n] + TimesIn(vs, 1, k, Ref(n)) \in Nat
      BY <2>3, <3>1
    <3> QED BY <3>2 DEF Counts
  <2>5. 0 \in S
    <3>1. \A n \in DOMAIN h : Grown[0][n] = ext[n]
      <4> TAKE n \in DOMAIN h
      <4>1. TimesIn(vs, 0 + 1, 0, Ref(n)) = 0 /\ n \in 1..MaxNodes /\ ext[n] \in Nat
        BY <2>2, <2>3, TimesInNone
      <4>2. Grown[0][n] = ext[n] + TimesIn(vs, 1, 0, Ref(n))
        BY <4>1
      <4> QED BY <4>1, <4>2
    <3>2. Balanced(h, Grown[0], ov)
      <4> HIDE DEF Grown
      <4> QED BY <1>5, <3>1 DEF Balanced
    <3>3. f[0] = h /\ 0 \in 0..N
      BY <1>3
    <3> HIDE DEF Grown, N
    <3> QED BY <3>2, <3>3
  <2>6. ASSUME NEW k \in 1..N, k - 1 \in S
        PROVE  k \in S
    <3>1. f[k-1] \in X /\ k - 1 \in 0..N /\ k \in 0..N
      <4> HIDE DEF X, Grown, S
      <4>1. k - 1 \in 0..N /\ k \in 0..N
        BY <2>1
      <4> HIDE DEF N
      <4> QED BY <1>3, <4>1
    <3>2. PICK m \in DOMAIN h : vs[k] = Ref(m) /\ h[m].kind # "freed"
      OBVIOUS
    <3>3. DOMAIN f[k-1] = DOMAIN h
      BY <3>1, SaneNodes
    <3>4. \A n \in DOMAIN h : Grown[k][n] = Grown[k-1][n] + Is(n, m)
      <4> TAKE n \in DOMAIN h
      <4>1. Is(vs[k], Ref(n)) = Is(n, m) /\ Is(n, m) \in Nat
        BY <3>2 DEF Is, Ref, Value
      <4> DEFINE A == TimesIn(vs, 1, k, Ref(n))
                 B == TimesIn(vs, 1, k - 1, Ref(n))
      <4>2. B \in Nat /\ A = B + Is(n, m)
        <5> HIDE DEF N
        <5>1. k > 0 /\ k \in 0..N /\ k - 1 \in 0..N
          BY <2>1
        <5>2. B \in Nat
          BY <2>1, <5>1, TimesInFirst
        <5>3. A = B + Is(vs[k], Ref(n))
          BY <2>1, <5>1, TimesInFirst
        <5> QED BY <4>1, <5>2, <5>3
      <4>3. n \in 1..MaxNodes /\ ext[n] \in Nat
        BY <2>2, <2>3
      <4>4. Grown[k][n] = ext[n] + A /\ Grown[k-1][n] = ext[n] + B
        BY <3>1, <4>3
      <4> HIDE DEF Grown, A, B
      <4> QED BY <4>1, <4>2, <4>3, <4>4
    <3>5. Balanced(f[k-1], Grown[k-1], ov)
      BY <2>6
    <3>6. Balanced(Dup(f[k-1], Ref(m)), Grown[k], ov)
      <4>1. Grown[k-1] \in Counts /\ Grown[k] \in Counts
        BY <2>4, <3>1
      <4>2. Sane(f[k-1]) /\ Len(f[k-1]) = Len(h) /\ f[k-1][m].kind # "freed"
        BY <3>1, <3>2
      <4> HIDE DEF Grown
      <4> QED BY <3>3, <3>4, <3>5, <4>1, <4>2, DupBalanced
    <3> HIDE DEF Grown
    <3> QED BY <1>3, <3>1, <3>2, <3>6
  <2>7. N \in S
    <3>1. Closed(S, N)
      BY <2>6 DEF Closed
    <3> HIDE DEF S, N
    <3> QED BY <2>1, <2>5, <3>1, Reached
  <2>8. Balanced(f[N], Grown[N], ov) /\ \A n \in DOMAIN f[N] : Grown[N][n] = ext2[n]
    <3>1. Balanced(f[N], Grown[N], ov)
      BY <2>7
    <3>2. ASSUME NEW n \in DOMAIN f[N] PROVE Grown[N][n] = ext2[n]
      <4>1. DOMAIN f[N] = DOMAIN h
        BY <1>3, <1>4, SaneNodes
      <4>2. n \in 1..MaxNodes /\ n \in DOMAIN h
        BY <2>2, <4>1
      <4> QED BY <1>5, <4>2
    <3> QED BY <3>1, <3>2
  <2> HIDE DEF Grown
  <2> QED BY <1>3, <2>8 DEF Balanced
<1> QED BY <1>4, <1>5

-----------------------------------------------------------------------------
(* Entries that change, and new containers.                                *)

LEMMA FitsMoved ==
  ASSUME NEW kind, NEW refs \in Int, NEW o \in Nat, NEW e \in Nat, NEW held \in Nat,
         NEW e2 \in Nat, NEW held2 \in Nat, e + held = e2 + held2, Fits(kind, refs, o, e, held)
  PROVE  Fits(kind, refs, o, e2, held2)
BY DEF Fits

LEMMA SumsMoved ==
  ASSUME NEW e \in Nat, NEW e2 \in Nat, NEW a \in Nat, NEW b \in Nat, NEW c \in Nat, NEW d \in Nat,
         NEW H \in Nat, NEW H2 \in Nat, e2 + a = e + b, c - b = d - a, H2 = H - c + d
  PROVE  e + H = e2 + H2
OBVIOUS

(* A list of entries that a container of h may have, and h with it.        *)
EntriesFit(e, h) ==
  e \in Seq(Entries(Refs)) /\ \A i \in DOMAIN e : e[i].value.data \in DOMAIN h
Replaced(g, h, n, e) == g = [h EXCEPT ![n].entries = e]

LEMMA EntriesReplaced ==
  ASSUME NEW h, Sane(h), NEW n \in DOMAIN h, NEW e, EntriesFit(e, h),
         NEW g, Replaced(g, h, n, e)
  PROVE  /\ Sane(g) /\ Len(g) = Len(h) /\ DOMAIN g = DOMAIN h
         /\ \A x \in DOMAIN h : /\ g[x].kind = h[x].kind /\ g[x].refs = h[x].refs
                                /\ x # n => g[x] = h[x]
         /\ g[n].entries = e
<1>1. h \in HeapOf(Refs) /\ h[n] \in Nodes(Refs) /\ DOMAIN h = 1..Len(h)
  BY SaneNodes DEF Sane
<1> DEFINE y == [h[n] EXCEPT !.entries = e]
<1>2. g = [h EXCEPT ![n] = y]
  BY DEF Replaced
<1>3. /\ y \in Nodes(Refs) /\ y.kind = h[n].kind /\ y.entries = e
      /\ y.proto = h[n].proto /\ y.refs = h[n].refs
  BY <1>1, OtherEntries DEF EntriesFit
<1> HIDE DEF y
<1>4. /\ g \in HeapOf(Refs) /\ DOMAIN g = DOMAIN h /\ Len(g) = Len(h)
      /\ g[n] = y /\ \A x \in DOMAIN h \ {n} : g[x] = h[x]
  BY <1>1, <1>2, <1>3 DEF HeapOf
<1>5. Sane(g)
  <2>1. \A x \in DOMAIN g :
          /\ g[x].proto = None /\ g[x].kind # "proxy"
          /\ \A i \in DOMAIN g[x].entries : g[x].entries[i].value.data \in DOMAIN g
    <3> TAKE x \in DOMAIN g
    <3>1. CASE x = n
      BY <1>3, <1>4, <3>1 DEF Sane, EntriesFit
    <3>2. CASE x # n
      BY <1>4, <3>2 DEF Sane
    <3> QED BY <3>1, <3>2
  <2> QED BY <1>4, <2>1 DEF Sane
<1> QED BY <1>3, <1>4, <1>5

(* What entries no longer hold is held from outside, or the converse.      *)
LEMMA EntriesBalanced ==
  ASSUME NEW h, Sane(h), Len(h) <= MaxNodes, NEW n \in DOMAIN h, NEW e, EntriesFit(e, h),
         NEW g, Replaced(g, h, n, e),
         NEW ext \in Counts, NEW ext2 \in Counts, NEW ov \in Counts, Balanced(h, ext, ov),
         \A x \in DOMAIN h : ext2[x] + Count(e, Ref(x)) = ext[x] + Count(h[n].entries, Ref(x))
  PROVE  Balanced(g, ext2, ov)
<1>1. /\ Sane(g) /\ Len(g) = Len(h) /\ DOMAIN g = DOMAIN h
      /\ \A x \in DOMAIN h : /\ g[x].kind = h[x].kind /\ g[x].refs = h[x].refs
                             /\ x # n => g[x] = h[x]
      /\ g[n].entries = e
  BY EntriesReplaced
<1> SUFFICES ASSUME NEW x \in DOMAIN h
             PROVE  Fits(g[x].kind, g[x].refs, ov[x], ext2[x], HeldInHeap(g, x))
  BY <1>1 DEF Balanced
<1>2. /\ HeldInHeap(g, x) = HeldInHeap(h, x) - HeldBy(h[n], x) + HeldBy(g[n], x)
      /\ HeldInHeap(g, x) \in Nat /\ HeldInHeap(h, x) \in Nat
      /\ HeldBy(h[n], x) \in Nat /\ HeldBy(g[n], x) \in Nat
  <2>1. \A m \in DOMAIN h \ {n} : g[m].entries = h[m].entries /\ g[m].proto = h[m].proto
    BY <1>1
  <2>2. FiniteHeap(g) /\ FiniteHeap(h)
    BY <1>1, SaneNodes
  <2>3. DOMAIN g = DOMAIN h
    BY <1>1
  <2> QED BY <2>1, <2>2, <2>3, HeldChanges
<1>3. /\ Count(h[n].entries, Ref(x)) \in Nat /\ Count(e, Ref(x)) \in Nat
  <2>1. IsFiniteSet(DOMAIN h[n].entries)
    BY SaneNodes DEF FiniteHeap
  <2>2. IsFiniteSet(DOMAIN e)
    BY FS_Interval DEF EntriesFit
  <2> QED BY <2>1, <2>2, CountIsNat
<1>4. HeldBy(h[n], x) - Count(h[n].entries, Ref(x)) = HeldBy(g[n], x) - Count(e, Ref(x))
  <2>1. h[n].proto = None /\ g[n].proto = None
    BY <1>1, SaneNodes
  <2>2. HeldBy(h[n], x) = Count(h[n].entries, Ref(x)) + Is(None, x)
    BY <2>1 DEF HeldBy, Is
  <2>3. HeldBy(g[n], x) = Count(e, Ref(x)) + Is(None, x)
    BY <1>1, <2>1 DEF HeldBy, Is
  <2>4. Is(None, x) \in Nat
    BY DEF Is
  <2> QED BY <1>3, <2>2, <2>3, <2>4
<1>5. x \in 1..MaxNodes /\ h[x].refs \in Int
  <2>1. x \in 1..Len(h) /\ Len(h) \in Nat /\ MaxNodes \in Nat /\ h[x].refs \in Int
    BY SaneNodes, OwnedBounds
  <2> QED BY <2>1
<1>6. ext[x] \in Nat /\ ext2[x] \in Nat /\ ov[x] \in Nat
  BY <1>5 DEF Counts
<1>7. ext[x] + HeldInHeap(h, x) = ext2[x] + HeldInHeap(g, x)
  <2>1. ext2[x] + Count(e, Ref(x)) = ext[x] + Count(h[n].entries, Ref(x))
    OBVIOUS
  <2> DEFINE a == Count(e, Ref(x))
             b == Count(h[n].entries, Ref(x))
             c == HeldBy(h[n], x)
             d == HeldBy(g[n], x)
             H == HeldInHeap(h, x)
             H2 == HeldInHeap(g, x)
             p == ext[x]
             q == ext2[x]
  <2>2. /\ a \in Nat /\ b \in Nat /\ c \in Nat /\ d \in Nat
        /\ H \in Nat /\ H2 \in Nat /\ p \in Nat /\ q \in Nat
    BY <1>2, <1>3, <1>6
  <2>3. q + a = p + b /\ c - b = d - a /\ H2 = H - c + d
    BY <1>2, <1>4, <2>1
  <2> HIDE DEF a, b, c, d, H, H2, p, q
  <2>4. p + H = q + H2
    BY <2>2, <2>3, SumsMoved
  <2> QED BY <2>4 DEF H, H2, p, q
<1>8. Fits(h[x].kind, h[x].refs, ov[x], ext[x], HeldInHeap(h, x))
  BY DEF Balanced
<1>9. Fits(h[x].kind, h[x].refs, ov[x], ext2[x], HeldInHeap(g, x))
  BY <1>2, <1>5, <1>6, <1>7, <1>8, FitsMoved
<1> QED BY <1>1, <1>9

(* A new container: its maker holds the only reference.                    *)
Grows(g, h, kind) == g = Append(h, Node(kind))

LEMMA NodeAdded ==
  ASSUME NEW h, Sane(h), NEW kind \in {"object", "array"}, NEW g, Grows(g, h, kind)
  PROVE  /\ Sane(g) /\ Len(g) = Len(h) + 1 /\ DOMAIN g = DOMAIN h \cup {Len(h) + 1}
         /\ \A x \in DOMAIN h : g[x] = h[x]
         /\ g[Len(h) + 1].kind = kind /\ g[Len(h) + 1].refs = 1
         /\ \A x \in DOMAIN g : HeldInHeap(g, x) = HeldInHeap(h, x)
         /\ HeldInHeap(h, Len(h) + 1) = 0
<1> DEFINE k == Len(h) + 1
           y == Node(kind)
<1>1. Len(h) \in Nat /\ DOMAIN h = 1..Len(h) /\ FiniteHeap(h) /\ h \in HeapOf(Refs)
  BY SaneNodes DEF Sane
<1>2. /\ y \in Nodes(Refs) /\ y.entries = <<>> /\ y.proto = None /\ y.kind = kind /\ y.refs = 1
  BY DEF Node, Nodes
<1> HIDE DEF y
<1>3. /\ g \in HeapOf(Refs) /\ Len(g) = Len(h) + 1 /\ DOMAIN g = DOMAIN h \cup {k}
      /\ g[k] = y /\ \A x \in DOMAIN h : g[x] = h[x]
  <2>1. g = Append(h, y)
    BY DEF y, Grows
  <2> QED BY <1>1, <1>2, <2>1 DEF HeapOf
<1>4. k \notin DOMAIN h
  BY <1>1
<1> HIDE DEF k
<1>5. Sane(g)
  <2>1. \A x \in DOMAIN g :
          /\ g[x].proto = None /\ g[x].kind # "proxy"
          /\ \A i \in DOMAIN g[x].entries : g[x].entries[i].value.data \in DOMAIN g
    <3> TAKE x \in DOMAIN g
    <3>1. CASE x = k
      BY <1>2, <1>3, <3>1
    <3>2. CASE x # k
      BY <1>3, <3>2 DEF Sane
    <3> QED BY <3>1, <3>2
  <2> QED BY <1>3, <2>1 DEF Sane
<1>6. \A x \in DOMAIN g : HeldInHeap(g, x) = HeldInHeap(h, x)
  <2> TAKE x \in DOMAIN g
  <2>1. FiniteHeap(g)
    BY <1>5, SaneNodes
  <2>2. HeldBy(g[k], x) = 0
    <3>1. Count(y.entries, Ref(x)) = 0
      BY <1>2, CountOfNone
    <3>2. x \in Nat
      BY <1>5, SaneNodes
    <3> QED BY <1>2, <1>3, <3>1, <3>2, NoneIsNoNumber DEF HeldBy
  <2>3. /\ OtherPlaces(g, k, x) = UNION {Places(h, m, x) : m \in DOMAIN h}
        /\ OtherKids(g, k, x) = {m \in DOMAIN h : h[m].proto = x}
    <3>1. DOMAIN g \ {k} = DOMAIN h
      BY <1>3, <1>4
    <3>2. \A m \in DOMAIN h : Places(g, m, x) = Places(h, m, x)
      BY <1>3 DEF Places
    <3>3. OtherPlaces(g, k, x) = UNION {Places(g, m, x) : m \in DOMAIN h}
      BY <3>1 DEF OtherPlaces
    <3>4. OtherPlaces(g, k, x) = UNION {Places(h, m, x) : m \in DOMAIN h}
      BY <3>2, <3>3
    <3> QED BY <1>3, <3>1, <3>4 DEF OtherKids
  <2>4. HeldInHeap(h, x) = Cardinality(OtherPlaces(g, k, x)) + Cardinality(OtherKids(g, k, x))
    BY <2>3 DEF HeldInHeap, Places
  <2>5. /\ Cardinality(OtherPlaces(g, k, x)) \in Nat /\ Cardinality(OtherKids(g, k, x)) \in Nat
        /\ HeldInHeap(g, x) = Cardinality(OtherPlaces(g, k, x))
                                + Cardinality(OtherKids(g, k, x)) + HeldBy(g[k], x)
    <3>1. k \in DOMAIN g
      BY <1>3
    <3> QED BY <2>1, <3>1, HeldSplit
  <2> QED BY <2>2, <2>4, <2>5
<1>7. HeldInHeap(h, k) = 0
  <2>1. \A m \in DOMAIN h : Places(h, m, k) = {}
    <3> SUFFICES ASSUME NEW m \in DOMAIN h, NEW j \in DOMAIN h[m].entries, h[m].entries[j].value = Ref(k)
                 PROVE  FALSE
      BY DEF Places
    <3>1. h[m].entries[j].value.data \in DOMAIN h
      BY DEF Sane
    <3> QED BY <1>4, <3>1 DEF Ref, Value
  <2>2. {m \in DOMAIN h : h[m].proto = k} = {}
    <3>1. k \in Nat
      BY <1>1 DEF k
    <3> QED BY <3>1, NoneIsNoNumber DEF Sane
  <2>3. UNION {Places(h, m, k) : m \in DOMAIN h} = {}
    BY <2>1
  <2>4. HeldInHeap(h, k) = Cardinality(UNION {Places(h, m, k) : m \in DOMAIN h})
                             + Cardinality({m \in DOMAIN h : h[m].proto = k})
    BY DEF HeldInHeap, Places
  <2>5. Cardinality({}) = 0
    BY FS_EmptySet
  <2>6. HeldInHeap(h, k) = 0 + 0
    BY <2>2, <2>3, <2>4, <2>5
  <2> QED BY <2>6
<1> QED BY <1>2, <1>3, <1>5, <1>6, <1>7 DEF k

-----------------------------------------------------------------------------
(* The inductive invariant.                                                *)

Names == Nat \cup Strings \cup {None}
(* What a Rust variable may own, where there are N containers and ts.      *)
Slots ==
  [kind : {"none", "value", "iter"}, value : Refs \cup {Undefined},
   table : Nat \cup {None}, index : Nat]

NodesUpTo(N) == {Ref(n) : n \in 1..N}

SlotFits(s, N, ts) ==
  /\ s \in Slots
  /\ s.kind = "none" => s.value = Undefined
  /\ s.kind # "none" => s.value \in NodesUpTo(N)
  /\ s.kind = "iter" => s.table \in DOMAIN ts /\ s.index <= 2 * Len(ts[s.table].names)

HostFits(ho, N, ts) == ho \in [Handles -> Slots] /\ \A h \in Handles : SlotFits(ho[h], N, ts)

(* References that may be counted, and the arguments of a call.            *)
CountsFit(c, N) == c \in Counts /\ \A n \in 1..MaxNodes : n > N => c[n] = 0

CallFits(ca, N) ==
  /\ ca.status \in {"none", "converting", "running"}
  /\ ca.argv \in Seq(NodesUpTo(N)) /\ ca.args \in Seq(NodesUpTo(N))
  /\ Len(ca.args) <= Len(ca.argv)
  /\ ca.status = "none" => ca.argv = <<>> /\ ca.args = <<>>
  /\ ca.status = "running" => ca.args = <<>>

TableNames == [names : Seq(Names), frees : Nat, clones : Nat]

(* The references of the containers that are held outside the heap.        *)
External(ho, ra, ca) ==
  [n \in 1..MaxNodes |-> Count(ho, Ref(n)) + ra[n] + Times(Ref(n), ca.argv) + Times(Ref(n), ca.args)]

(* The inductive invariant: every reference that a variable, a raw value,  *)
(* a container or a call holds is of a container there is, and is counted  *)
(* by it.                                                                  *)
Accounted(he, ho, ra, ta, fr, ov, ca) ==
  /\ Sane(he) /\ Len(he) <= MaxNodes
  /\ HostFits(ho, Len(he), ta)
  /\ CountsFit(ra, Len(he)) /\ CountsFit(ov, Len(he))
  /\ \A n \in 1..MaxNodes : ra[n] <= MaxRaw
  /\ ta \in Seq(TableNames)
  /\ fr \subseteq DOMAIN he
  /\ CallFits(ca, Len(he))
  /\ Balanced(he, External(ho, ra, ca), ov)

(* The references of handles and of lists of arguments, counted.           *)
LEMMA HostCount ==
  ASSUME NEW ho \in [Handles -> Slots], NEW v
  PROVE  Count(ho, v) \in Nat /\ Count(ho, v) = Cardinality({h \in Handles : ho[h].value = v})
<1>1. IsFiniteSet(DOMAIN ho)
  BY FiniteHandles
<1>2. Count(ho, v) \in Nat
  <2> HIDE FiniteHandles
  <2> QED BY <1>1, CountIsNat
<1> QED BY <1>2 DEF Count

LEMMA TimesIsTimesIn ==
  ASSUME NEW S, NEW vs \in Seq(S), NEW v
  PROVE  Times(v, vs) = TimesIn(vs, 1, Len(vs), v) /\ Times(v, vs) \in Nat
<1>1. DOMAIN vs = 1..Len(vs) /\ Len(vs) \in Nat
  OBVIOUS
<1>2. Times(v, vs) = TimesIn(vs, 1, Len(vs), v)
  BY <1>1 DEF Times, TimesIn
<1>3. TimesIn(vs, 1, Len(vs), v) \in Nat
  <2>1. Len(vs) \in 0..Len(vs)
    BY <1>1
  <2> QED BY <1>1, <2>1, TimesInFirst
<1> QED BY <1>2, <1>3

LEMMA NoTimes ==
  ASSUME NEW v
  PROVE  Times(v, <<>>) = 0
<1>1. {i \in DOMAIN <<>> : <<>>[i] = v} = {}
  OBVIOUS
<1> QED BY <1>1, FS_EmptySet DEF Times

LEMMA TimesOfTail ==
  ASSUME NEW S, NEW vs \in Seq(S), vs # <<>>, NEW v
  PROVE  Times(v, vs) = Is(Head(vs), v) + Times(v, Tail(vs)) /\ Times(v, Tail(vs)) \in Nat
<1> DEFINE ws == Tail(vs)
           B == {i \in 2..Len(vs) : vs[i] = v}
           C == {i \in 1..Len(ws) : ws[i] = v}
           f == [i \in B |-> i - 1]
<1>1. /\ ws \in Seq(S) /\ Len(ws) = Len(vs) - 1 /\ Len(vs) \in Nat /\ Len(vs) >= 1
      /\ \A i \in 1..Len(ws) : ws[i] = vs[i + 1]
      /\ DOMAIN ws = 1..Len(ws) /\ Head(vs) = vs[1]
  OBVIOUS
<1>2. Times(v, vs) = TimesIn(vs, 1, Len(vs), v)
  BY TimesIsTimesIn
<1>3. TimesIn(vs, 1, Len(vs), v) = TimesIn(vs, 1 + 1, Len(vs), v) + Is(vs[1], v)
  <2> HIDE DEF ws, B, C, f
  <2>1. 1 \in Int /\ Len(vs) \in Int /\ 1 <= Len(vs)
    BY <1>1
  <2> QED BY <2>1, TimesInSplit
<1> HIDE DEF ws
<1>4. f \in Bijection(B, C)
  <2>1. f \in [B -> C]
    BY <1>1
  <2>2. \A a, b \in B : f[a] = f[b] => a = b
    OBVIOUS
  <2>3. \A c \in C : \E b \in B : f[b] = c
    <3> TAKE c \in C
    <3>1. c + 1 \in B /\ f[c + 1] = c
      BY <1>1
    <3> QED BY <3>1
  <2> HIDE DEF f, B, C
  <2> QED BY <2>1, <2>2, <2>3 DEF Bijection, Injection, Surjection, IsInjective
<1>5. IsFiniteSet(B)
  <2>1. IsFiniteSet(2..Len(vs))
    BY <1>1, FS_Interval
  <2>2. B \in SUBSET (2..Len(vs))
    OBVIOUS
  <2> QED BY <2>1, <2>2, FS_Subset
<1>6. Cardinality(B) = Cardinality(C)
  <2> HIDE DEF f, B, C
  <2>1. ExistsBijection(B, C)
    BY <1>4 DEF ExistsBijection
  <2> QED BY <1>5, <2>1, FS_Bijection
<1>7. Times(v, ws) = Cardinality(C) /\ TimesIn(vs, 1 + 1, Len(vs), v) = Cardinality(B)
  BY <1>1 DEF Times, TimesIn
<1>8. Times(v, ws) \in Nat
  BY <1>1, TimesIsTimesIn
<1>9. Is(vs[1], v) \in Nat
  BY DEF Is
<1> HIDE DEF B, C, f
<1>10. Times(v, vs) = Times(v, ws) + Is(vs[1], v)
  BY <1>2, <1>3, <1>6, <1>7
<1>11. Times(v, vs) = Is(vs[1], v) + Times(v, ws)
  BY <1>8, <1>9, <1>10
<1>12. Head(vs) = vs[1]
  BY <1>1
<1> QED BY <1>8, <1>11, <1>12 DEF ws

LEMMA ExternalCounts ==
  ASSUME NEW ho \in [Handles -> Slots], NEW ra \in Counts, NEW N, NEW ca, CallFits(ca, N)
  PROVE  /\ External(ho, ra, ca) \in Counts
         /\ \A n \in 1..MaxNodes :
              /\ External(ho, ra, ca)[n] = Count(ho, Ref(n)) + ra[n]
                                             + Times(Ref(n), ca.argv) + Times(Ref(n), ca.args)
              /\ Count(ho, Ref(n)) \in Nat /\ ra[n] \in Nat
              /\ Times(Ref(n), ca.argv) \in Nat /\ Times(Ref(n), ca.args) \in Nat
<1>1. \A n \in 1..MaxNodes :
        /\ Count(ho, Ref(n)) \in Nat /\ ra[n] \in Nat
        /\ Times(Ref(n), ca.argv) \in Nat /\ Times(Ref(n), ca.args) \in Nat
  <2> TAKE n \in 1..MaxNodes
  <2>1. Count(ho, Ref(n)) \in Nat
    BY HostCount
  <2>2. ra[n] \in Nat
    BY DEF Counts
  <2>3. ca.argv \in Seq(NodesUpTo(N)) /\ ca.args \in Seq(NodesUpTo(N))
    BY DEF CallFits
  <2>4. Times(Ref(n), ca.argv) \in Nat /\ Times(Ref(n), ca.args) \in Nat
    BY <2>3, TimesIsTimesIn
  <2> QED BY <2>1, <2>2, <2>4
<1>2. \A n \in 1..MaxNodes :
        External(ho, ra, ca)[n] = Count(ho, Ref(n)) + ra[n]
                                    + Times(Ref(n), ca.argv) + Times(Ref(n), ca.args)
  BY DEF External
<1>3. \A n \in 1..MaxNodes : External(ho, ra, ca)[n] \in Nat
  BY <1>1, <1>2
<1>4. DOMAIN External(ho, ra, ca) = 1..MaxNodes /\ External(ho, ra, ca) = [n \in 1..MaxNodes |-> External(ho, ra, ca)[n]]
  BY DEF External
<1> QED BY <1>1, <1>2, <1>3, <1>4 DEF Counts

-----------------------------------------------------------------------------
(* Handles and raw values.                                                 *)

LEMMA IsOfRefs ==
  ASSUME NEW n, NEW m
  PROVE  /\ Is(Ref(m), Ref(n)) = Is(n, m) /\ Is(n, m) \in Nat
         /\ Is(Undefined, Ref(n)) = 0
BY DEF Is, Ref, Value, Undefined

(* More containers and tables do not disturb a handle.                     *)
LEMMA SlotFitsMore ==
  ASSUME NEW s, NEW N \in Nat, NEW N2 \in Nat, N <= N2, NEW ta, NEW ta2, SlotFits(s, N, ta),
         \A t \in DOMAIN ta : t \in DOMAIN ta2 /\ ta2[t].names = ta[t].names
  PROVE  SlotFits(s, N2, ta2)
<1>1. NodesUpTo(N) \subseteq NodesUpTo(N2)
  BY DEF NodesUpTo
<1> QED BY <1>1 DEF SlotFits

LEMMA HostFitsMore ==
  ASSUME NEW ho, NEW N \in Nat, NEW N2 \in Nat, N <= N2, NEW ta, NEW ta2, HostFits(ho, N, ta),
         \A t \in DOMAIN ta : t \in DOMAIN ta2 /\ ta2[t].names = ta[t].names
  PROVE  HostFits(ho, N2, ta2)
BY SlotFitsMore DEF HostFits

LEMMA HostFitsChanged ==
  ASSUME NEW ho, NEW N, NEW ta, HostFits(ho, N, ta), NEW g \in Handles, NEW s, SlotFits(s, N, ta)
  PROVE  HostFits([ho EXCEPT ![g] = s], N, ta)
<1>1. s \in Slots
  BY DEF SlotFits
<1>2. [ho EXCEPT ![g] = s] \in [Handles -> Slots]
  BY <1>1 DEF HostFits
<1>3. \A h \in Handles : [ho EXCEPT ![g] = s][h] = IF h = g THEN s ELSE ho[h]
  BY DEF HostFits
<1> QED BY <1>2, <1>3 DEF HostFits

LEMMA EmptyFits ==
  ASSUME NEW N, NEW ta
  PROVE  SlotFits(Empty, N, ta) /\ Empty.value = Undefined /\ Empty.kind = "none"
BY DEF SlotFits, Slots, Empty, Slot

LEMMA OwnedFits ==
  ASSUME NEW N \in Nat, NEW ta, NEW m \in 1..N
  PROVE  /\ SlotFits(Owned(Ref(m)), N, ta) /\ Owned(Ref(m)).value = Ref(m)
         /\ Owned(Ref(m)).kind = "value"
<1>1. Ref(m) \in Refs /\ Ref(m) \in NodesUpTo(N)
  BY DEF Refs, NodesUpTo
<1> QED BY <1>1 DEF SlotFits, Slots, Owned, Slot

LEMMA SlotNames ==
  ASSUME NEW s, NEW N, NEW ta, SlotFits(s, N, ta), s.kind # "none"
  PROVE  \E m \in 1..N : s.value = Ref(m)
BY DEF SlotFits, NodesUpTo

(* A handle changes: so do the references held outside.                    *)
LEMMA ExternalChanged ==
  ASSUME NEW ho, NEW N, NEW ta, HostFits(ho, N, ta), NEW g \in Handles, NEW s, SlotFits(s, N, ta),
         NEW ra \in Counts, NEW ca, CallFits(ca, N), NEW n \in 1..MaxNodes
  PROVE  LET e  == External(ho, ra, ca)[n]
             e2 == External([ho EXCEPT ![g] = s], ra, ca)[n]
         IN  /\ e \in Nat /\ e2 \in Nat
             /\ e2 + Is(ho[g].value, Ref(n)) = e + Is(s.value, Ref(n))
<1> DEFINE ho2 == [ho EXCEPT ![g] = s]
<1>1. ho \in [Handles -> Slots] /\ ho2 \in [Handles -> Slots] /\ s \in Slots
  <2>1. HostFits(ho2, N, ta)
    BY HostFitsChanged
  <2> QED BY <2>1 DEF HostFits, SlotFits
<1>2. /\ Count(ho2, Ref(n)) = Count(ho, Ref(n)) - Is(ho[g].value, Ref(n)) + Is(s.value, Ref(n))
      /\ Count(ho, Ref(n)) \in Nat /\ Count(ho2, Ref(n)) \in Nat
  <2>1. /\ DOMAIN ho2 = DOMAIN ho /\ IsFiniteSet(DOMAIN ho) /\ g \in DOMAIN ho
        /\ \A i \in DOMAIN ho \ {g} : ho2[i].value = ho[i].value
        /\ ho2[g] = s
    BY <1>1, FiniteHandles
  <2> HIDE DEF ho2
  <2> QED BY <2>1, CountOfChanged
<1> HIDE DEF ho2
<1>3. /\ External(ho, ra, ca) \in Counts /\ External(ho2, ra, ca) \in Counts
      /\ External(ho, ra, ca)[n] = Count(ho, Ref(n)) + ra[n]
                                     + Times(Ref(n), ca.argv) + Times(Ref(n), ca.args)
      /\ External(ho2, ra, ca)[n] = Count(ho2, Ref(n)) + ra[n]
                                     + Times(Ref(n), ca.argv) + Times(Ref(n), ca.args)
      /\ ra[n] \in Nat /\ Times(Ref(n), ca.argv) \in Nat /\ Times(Ref(n), ca.args) \in Nat
  BY <1>1, ExternalCounts
<1>4. External(ho, ra, ca)[n] \in Nat /\ External(ho2, ra, ca)[n] \in Nat
  BY <1>3 DEF Counts
<1>5. Is(ho[g].value, Ref(n)) \in Nat /\ Is(s.value, Ref(n)) \in Nat
  BY DEF Is
<1>6. External(ho2, ra, ca)[n] + Is(ho[g].value, Ref(n)) = External(ho, ra, ca)[n] + Is(s.value, Ref(n))
  BY <1>2, <1>3, <1>5
<1> QED BY <1>4, <1>6 DEF ho2

LEMMA AccountParts ==
  ASSUME NEW he, NEW ho, NEW ra, NEW ta, NEW fr, NEW ov, NEW ca, Accounted(he, ho, ra, ta, fr, ov, ca)
  PROVE  /\ Sane(he) /\ Len(he) <= MaxNodes /\ Len(he) \in Nat /\ DOMAIN he = 1..Len(he)
         /\ HostFits(ho, Len(he), ta) /\ \A h \in Handles : SlotFits(ho[h], Len(he), ta)
         /\ ra \in Counts /\ ov \in Counts
         /\ CallFits(ca, Len(he))
         /\ External(ho, ra, ca) \in Counts
         /\ Balanced(he, External(ho, ra, ca), ov)
         /\ \A n \in DOMAIN he : n \in 1..MaxNodes
<1>1. /\ Sane(he) /\ Len(he) <= MaxNodes /\ HostFits(ho, Len(he), ta)
      /\ ra \in Counts /\ ov \in Counts /\ CallFits(ca, Len(he))
      /\ Balanced(he, External(ho, ra, ca), ov)
  BY DEF Accounted, CountsFit
<1>2. Len(he) \in Nat /\ DOMAIN he = 1..Len(he)
  BY <1>1, SaneNodes
<1>3. ho \in [Handles -> Slots] /\ \A h \in Handles : SlotFits(ho[h], Len(he), ta)
  BY <1>1 DEF HostFits
<1>4. External(ho, ra, ca) \in Counts
  BY <1>1, <1>3, ExternalCounts
<1>5. \A n \in DOMAIN he : n \in 1..MaxNodes
  BY <1>1, <1>2, OwnedBounds
<1> QED BY <1>1, <1>2, <1>3, <1>4, <1>5

LEMMA AccountedAgain ==
  ASSUME NEW he, NEW ho, NEW ra, NEW ta, NEW fr, NEW ov, NEW ca, Accounted(he, ho, ra, ta, fr, ov, ca),
         NEW he2, NEW ho2, Sane(he2), Len(he2) = Len(he), HostFits(ho2, Len(he), ta),
         Balanced(he2, External(ho2, ra, ca), ov)
  PROVE  Accounted(he2, ho2, ra, ta, fr, ov, ca)
<1>1. DOMAIN he2 = DOMAIN he
  <2>1. Sane(he)
    BY DEF Accounted
  <2> QED BY <2>1, SaneNodes
<1> QED BY <1>1 DEF Accounted

(* A handle is given a reference of a container that lives.                *)
LEMMA HandleGained ==
  ASSUME NEW he, NEW ho, NEW ra, NEW ta, NEW fr, NEW ov, NEW ca, Accounted(he, ho, ra, ta, fr, ov, ca),
         NEW g \in Handles, ho[g].kind = "none", NEW m \in DOMAIN he, he[m].kind # "freed",
         NEW s, SlotFits(s, Len(he), ta), s.value = Ref(m)
  PROVE  Accounted(Dup(he, Ref(m)), [ho EXCEPT ![g] = s], ra, ta, fr, ov, ca)
<1> DEFINE ho2 == [ho EXCEPT ![g] = s]
           ext == External(ho, ra, ca)
           ext2 == External(ho2, ra, ca)
<1>1. HostFits(ho2, Len(he), ta)
  BY AccountParts, HostFitsChanged
<1>2. ext \in Counts /\ ext2 \in Counts /\ ov \in Counts /\ Balanced(he, ext, ov)
  <2>1. ho2 \in [Handles -> Slots]
    BY <1>1 DEF HostFits
  <2> HIDE DEF ho2
  <2> QED BY <2>1, AccountParts, ExternalCounts
<1>3. \A n \in DOMAIN he : ext2[n] = ext[n] + Is(n, m)
  <2> TAKE n \in DOMAIN he
  <2>1. n \in 1..MaxNodes
    BY AccountParts
  <2>2. /\ ext[n] \in Nat /\ ext2[n] \in Nat
        /\ ext2[n] + Is(ho[g].value, Ref(n)) = ext[n] + Is(s.value, Ref(n))
    BY <2>1, AccountParts, ExternalChanged
  <2>3. ho[g].value = Undefined
    BY AccountParts DEF SlotFits
  <2> HIDE DEF ext, ext2
  <2> QED BY <2>2, <2>3, IsOfRefs
<1>4. Sane(Dup(he, Ref(m))) /\ Len(Dup(he, Ref(m))) = Len(he)
  BY AccountParts, DupIsSane
<1> HIDE DEF ho2
<1>5. Balanced(Dup(he, Ref(m)), ext2, ov)
  <2> HIDE DEF ext, ext2
  <2> QED BY <1>2, <1>3, AccountParts, DupBalanced
<1>6. Accounted(Dup(he, Ref(m)), ho2, ra, ta, fr, ov, ca)
  BY <1>1, <1>4, <1>5, AccountedAgain
<1> QED BY <1>6 DEF ho2

(* A handle gives its reference back.                                      *)
LEMMA HandleLost ==
  ASSUME NEW he, NEW ho, NEW ra, NEW ta, NEW fr, NEW ov, NEW ca, Accounted(he, ho, ra, ta, fr, ov, ca),
         NEW g \in Handles, NEW m \in DOMAIN he, ho[g].value = Ref(m)
  PROVE  Accounted(FreeValue(he, Ref(m)), [ho EXCEPT ![g] = Empty], ra, ta, fr, ov, ca)
<1> DEFINE ho2 == [ho EXCEPT ![g] = Empty]
           ext == External(ho, ra, ca)
           ext2 == External(ho2, ra, ca)
<1>1. HostFits(ho2, Len(he), ta)
  BY AccountParts, HostFitsChanged, EmptyFits
<1>2. ext \in Counts /\ ext2 \in Counts /\ ov \in Counts /\ Balanced(he, ext, ov)
  <2>1. ho2 \in [Handles -> Slots]
    BY <1>1 DEF HostFits
  <2> HIDE DEF ho2
  <2> QED BY <2>1, AccountParts, ExternalCounts
<1>3. \A n \in DOMAIN he : ext[n] = ext2[n] + Is(n, m)
  <2> TAKE n \in DOMAIN he
  <2>1. n \in 1..MaxNodes
    BY AccountParts
  <2>2. /\ ext[n] \in Nat /\ ext2[n] \in Nat
        /\ ext2[n] + Is(ho[g].value, Ref(n)) = ext[n] + Is(Empty.value, Ref(n))
    BY <2>1, AccountParts, EmptyFits, ExternalChanged
  <2>3. Empty.value = Undefined
    BY EmptyFits
  <2> HIDE DEF ext, ext2
  <2> QED BY <2>2, <2>3, IsOfRefs
<1>4. Sane(FreeValue(he, Ref(m))) /\ Len(FreeValue(he, Ref(m))) = Len(he)
  BY AccountParts, FreeValueIsSane
<1> HIDE DEF ho2
<1>5. Balanced(FreeValue(he, Ref(m)), ext2, ov)
  <2> HIDE DEF ext, ext2
  <2> QED BY <1>2, <1>3, AccountParts, FreeValueBalanced
<1>6. Accounted(FreeValue(he, Ref(m)), ho2, ra, ta, fr, ov, ca)
  BY <1>1, <1>4, <1>5, AccountedAgain
<1> QED BY <1>6 DEF ho2

(* Nothing that is counted changes: tables, the index of an iterator.      *)
LEMMA SameBalance ==
  ASSUME NEW h, Sane(h), Len(h) <= MaxNodes, NEW ext, NEW ext2, NEW ov,
         Balanced(h, ext, ov), \A n \in DOMAIN h : ext2[n] = ext[n]
  PROVE  Balanced(h, ext2, ov)
BY DEF Balanced

LEMMA TablesChanged ==
  ASSUME NEW he, NEW ho, NEW ra, NEW ta, NEW fr, NEW ov, NEW ca, Accounted(he, ho, ra, ta, fr, ov, ca),
         NEW ta2 \in Seq(TableNames),
         \A t \in DOMAIN ta : t \in DOMAIN ta2 /\ ta2[t].names = ta[t].names
  PROVE  Accounted(he, ho, ra, ta2, fr, ov, ca)
<1>1. HostFits(ho, Len(he), ta2)
  <2> HIDE DEF TableNames
  <2> QED BY AccountParts, HostFitsMore
<1> QED BY <1>1 DEF Accounted

LEMMA IndexMoved ==
  ASSUME NEW he, NEW ho, NEW ra, NEW ta, NEW fr, NEW ov, NEW ca, Accounted(he, ho, ra, ta, fr, ov, ca),
         NEW g \in Handles, NEW s, SlotFits(s, Len(he), ta), s.value = ho[g].value
  PROVE  Accounted(he, [ho EXCEPT ![g] = s], ra, ta, fr, ov, ca)
<1> DEFINE ho2 == [ho EXCEPT ![g] = s]
           ext == External(ho, ra, ca)
           ext2 == External(ho2, ra, ca)
<1>1. HostFits(ho2, Len(he), ta)
  BY AccountParts, HostFitsChanged
<1>2. \A n \in DOMAIN he : ext2[n] = ext[n]
  <2> TAKE n \in DOMAIN he
  <2>1. n \in 1..MaxNodes
    BY AccountParts
  <2>2. /\ ext[n] \in Nat /\ ext2[n] \in Nat
        /\ ext2[n] + Is(ho[g].value, Ref(n)) = ext[n] + Is(s.value, Ref(n))
    BY <2>1, AccountParts, ExternalChanged
  <2>3. Is(s.value, Ref(n)) \in Nat
    BY DEF Is
  <2> HIDE DEF ext, ext2
  <2> QED BY <2>2, <2>3
<1>3. Balanced(he, ext2, ov)
  <2> HIDE DEF ext, ext2
  <2>1. Balanced(he, ext, ov)
    BY AccountParts DEF ext
  <2> QED BY <1>2, <2>1, AccountParts, SameBalance
<1> HIDE DEF ho2
<1>4. Accounted(he, ho2, ra, ta, fr, ov, ca)
  BY <1>1, <1>3, AccountParts, AccountedAgain
<1> QED BY <1>4 DEF ho2

(* A reference goes from a handle to a raw value, or back.                 *)
LEMMA CountRaised ==
  ASSUME NEW c \in Counts, NEW m \in 1..MaxNodes, NEW c2, c2 = [c EXCEPT ![m] = @ + 1]
  PROVE  c2 \in Counts /\ \A n \in 1..MaxNodes : c2[n] = c[n] + Is(n, m) /\ c[n] \in Nat
<1>1. c2 \in Counts
  BY DEF Counts
<1>2. \A n \in 1..MaxNodes : c[n] \in Nat /\ c2[n] = IF n = m THEN c[n] + 1 ELSE c[n]
  BY DEF Counts
<1> QED BY <1>1, <1>2 DEF Is

LEMMA CountLowered ==
  ASSUME NEW c \in Counts, NEW m \in 1..MaxNodes, c[m] > 0, NEW c2, c2 = [c EXCEPT ![m] = @ - 1]
  PROVE  c2 \in Counts /\ \A n \in 1..MaxNodes : c[n] = c2[n] + Is(n, m) /\ c2[n] \in Nat
<1>1. \A n \in 1..MaxNodes : c[n] \in Nat /\ c2[n] = IF n = m THEN c[n] - 1 ELSE c[n]
  BY DEF Counts
<1>2. \A n \in 1..MaxNodes : c2[n] \in Nat
  BY <1>1
<1>3. c2 \in Counts
  BY <1>2 DEF Counts
<1> QED BY <1>1, <1>2, <1>3 DEF Is

LEMMA ExternalOfRaws ==
  ASSUME NEW ho \in [Handles -> Slots], NEW ra \in Counts, NEW ra2 \in Counts, NEW N, NEW ca, CallFits(ca, N),
         NEW n \in 1..MaxNodes
  PROVE  /\ External(ho, ra2, ca)[n] + ra[n] = External(ho, ra, ca)[n] + ra2[n]
         /\ External(ho, ra2, ca)[n] \in Nat /\ External(ho, ra, ca)[n] \in Nat
         /\ ra[n] \in Nat /\ ra2[n] \in Nat
<1>1. /\ External(ho, ra, ca)[n] = Count(ho, Ref(n)) + ra[n] + Times(Ref(n), ca.argv) + Times(Ref(n), ca.args)
      /\ External(ho, ra2, ca)[n] = Count(ho, Ref(n)) + ra2[n] + Times(Ref(n), ca.argv) + Times(Ref(n), ca.args)
  BY DEF External
<1>2. /\ Count(ho, Ref(n)) \in Nat /\ Times(Ref(n), ca.argv) \in Nat /\ Times(Ref(n), ca.args) \in Nat
      /\ ra[n] \in Nat
  BY ExternalCounts
<1>3. ra2[n] \in Nat
  BY DEF Counts
<1> QED BY <1>1, <1>2, <1>3

LEMMA HandleToRaw ==
  ASSUME NEW he, NEW ho, NEW ra, NEW ta, NEW fr, NEW ov, NEW ca, Accounted(he, ho, ra, ta, fr, ov, ca),
         NEW g \in Handles, NEW m \in DOMAIN he, ho[g].value = Ref(m), ra[m] < MaxRaw
  PROVE  Accounted(he, [ho EXCEPT ![g] = Empty], [ra EXCEPT ![m] = @ + 1], ta, fr, ov, ca)
<1> DEFINE ho2 == [ho EXCEPT ![g] = Empty]
           ra2 == [ra EXCEPT ![m] = @ + 1]
           ext == External(ho, ra, ca)
           mid == External(ho2, ra, ca)
           ext2 == External(ho2, ra2, ca)
<1>1. HostFits(ho2, Len(he), ta)
  BY AccountParts, HostFitsChanged, EmptyFits
<1>2. m \in 1..MaxNodes /\ \A n \in 1..MaxNodes : ra[n] \in Nat
  BY AccountParts DEF Counts
<1>3. /\ ra2 \in Counts /\ \A n \in 1..MaxNodes : ra2[n] = ra[n] + Is(n, m)
  <2>1. ra \in Counts
    BY AccountParts
  <2> QED BY <1>2, <2>1, CountRaised
<1>4. CountsFit(ra2, Len(he)) /\ \A n \in 1..MaxNodes : ra2[n] <= MaxRaw
  <2>1. \A n \in 1..MaxNodes : n > Len(he) => ra2[n] = 0
    BY <1>2, <1>3, AccountParts DEF Accounted, CountsFit, Is
  <2>2. \A n \in 1..MaxNodes : ra2[n] <= MaxRaw
    <3> TAKE n \in 1..MaxNodes
    <3>1. ra[n] \in Nat /\ ra[n] <= MaxRaw /\ MaxRaw \in Nat /\ ra[m] \in Nat
      BY <1>2, OwnedBounds DEF Accounted
    <3> QED BY <1>3, <3>1 DEF Is
  <2> QED BY <1>3, <2>1, <2>2 DEF CountsFit
<1> HIDE DEF ra2
<1>5. \A n \in DOMAIN he : ext2[n] = ext[n]
  <2> TAKE n \in DOMAIN he
  <2>1. n \in 1..MaxNodes
    BY AccountParts
  <2>2. /\ ext[n] \in Nat /\ mid[n] \in Nat
        /\ mid[n] + Is(ho[g].value, Ref(n)) = ext[n] + Is(Empty.value, Ref(n))
    BY <2>1, AccountParts, EmptyFits, ExternalChanged
  <2>3. Empty.value = Undefined
    BY EmptyFits
  <2>4. mid[n] + Is(n, m) = ext[n] /\ Is(n, m) \in Nat
    <3> HIDE DEF ext, mid
    <3> QED BY <2>2, <2>3, IsOfRefs
  <2>5. ho2 \in [Handles -> Slots]
    BY <1>1 DEF HostFits
  <2> HIDE DEF ho2
  <2>6. /\ ext2[n] + ra[n] = mid[n] + ra2[n] /\ ext2[n] \in Nat /\ mid[n] \in Nat
        /\ ra[n] \in Nat /\ ra2[n] \in Nat
    <3>1. ra \in Counts /\ ra2 \in Counts /\ CallFits(ca, Len(he))
      BY <1>3, AccountParts
    <3> QED BY <2>1, <2>5, <3>1, ExternalOfRaws
  <2> HIDE DEF mid, ext2, ext
  <2> QED BY <1>3, <2>1, <2>2, <2>4, <2>6
<1>6. Balanced(he, ext2, ov)
  <2> HIDE DEF ext, ext2
  <2>1. Balanced(he, ext, ov)
    BY AccountParts DEF ext
  <2> QED BY <1>5, <2>1, AccountParts, SameBalance
<1> HIDE DEF ho2
<1>7. Accounted(he, ho2, ra2, ta, fr, ov, ca)
  BY <1>1, <1>4, <1>6 DEF Accounted
<1> QED BY <1>7 DEF ho2, ra2

LEMMA RawToHandle ==
  ASSUME NEW he, NEW ho, NEW ra, NEW ta, NEW fr, NEW ov, NEW ca, Accounted(he, ho, ra, ta, fr, ov, ca),
         NEW g \in Handles, ho[g].kind = "none", NEW m \in DOMAIN he, ra[m] > 0
  PROVE  Accounted(he, [ho EXCEPT ![g] = Owned(Ref(m))], [ra EXCEPT ![m] = @ - 1], ta, fr, ov, ca)
<1> DEFINE s == Owned(Ref(m))
           ho2 == [ho EXCEPT ![g] = s]
           ra2 == [ra EXCEPT ![m] = @ - 1]
           ext == External(ho, ra, ca)
           mid == External(ho2, ra, ca)
           ext2 == External(ho2, ra2, ca)
<1>0. SlotFits(s, Len(he), ta) /\ s.value = Ref(m)
  BY AccountParts, OwnedFits
<1> HIDE DEF s
<1>1. HostFits(ho2, Len(he), ta)
  BY <1>0, AccountParts, HostFitsChanged
<1>2. m \in 1..MaxNodes /\ \A n \in 1..MaxNodes : ra[n] \in Nat
  BY AccountParts DEF Counts
<1>3. /\ ra2 \in Counts /\ \A n \in 1..MaxNodes : ra[n] = ra2[n] + Is(n, m)
  <2>1. ra \in Counts
    BY AccountParts
  <2> QED BY <1>2, <2>1, CountLowered
<1>4. CountsFit(ra2, Len(he)) /\ \A n \in 1..MaxNodes : ra2[n] <= MaxRaw
  <2>1. \A n \in 1..MaxNodes : n > Len(he) => ra2[n] = 0
    BY <1>2, <1>3, AccountParts DEF Accounted, CountsFit, Is
  <2>2. \A n \in 1..MaxNodes : ra2[n] <= MaxRaw
    <3> TAKE n \in 1..MaxNodes
    <3>1. ra[n] \in Nat /\ ra2[n] \in Nat /\ ra[n] <= MaxRaw /\ MaxRaw \in Nat
      BY <1>2, <1>3, OwnedBounds DEF Accounted, Counts
    <3>2. ra2[n] <= ra[n]
      BY <1>3, <3>1 DEF Is
    <3> QED BY <3>1, <3>2
  <2> QED BY <1>3, <2>1, <2>2 DEF CountsFit
<1> HIDE DEF ra2
<1>5. \A n \in DOMAIN he : ext2[n] = ext[n]
  <2> TAKE n \in DOMAIN he
  <2>1. n \in 1..MaxNodes
    BY AccountParts
  <2>2. /\ ext[n] \in Nat /\ mid[n] \in Nat
        /\ mid[n] + Is(ho[g].value, Ref(n)) = ext[n] + Is(s.value, Ref(n))
    BY <1>0, <2>1, AccountParts, ExternalChanged
  <2>3. ho[g].value = Undefined
    BY AccountParts DEF SlotFits
  <2>4. mid[n] = ext[n] + Is(n, m) /\ Is(n, m) \in Nat
    <3> HIDE DEF ext, mid
    <3> QED BY <1>0, <2>2, <2>3, IsOfRefs
  <2>5. ho2 \in [Handles -> Slots]
    BY <1>1 DEF HostFits
  <2> HIDE DEF ho2
  <2>6. /\ ext2[n] + ra[n] = mid[n] + ra2[n] /\ ext2[n] \in Nat /\ mid[n] \in Nat
        /\ ra[n] \in Nat /\ ra2[n] \in Nat
    <3>1. ra \in Counts /\ ra2 \in Counts /\ CallFits(ca, Len(he))
      BY <1>3, AccountParts
    <3> QED BY <2>1, <2>5, <3>1, ExternalOfRaws
  <2> HIDE DEF mid, ext2, ext
  <2> QED BY <1>3, <2>1, <2>2, <2>4, <2>6
<1>6. Balanced(he, ext2, ov)
  <2> HIDE DEF ext, ext2
  <2>1. Balanced(he, ext, ov)
    BY AccountParts DEF ext
  <2> QED BY <1>5, <2>1, AccountParts, SameBalance
<1> HIDE DEF ho2
<1>7. Accounted(he, ho2, ra2, ta, fr, ov, ca)
  BY <1>1, <1>4, <1>6 DEF Accounted
<1> QED BY <1>7 DEF ho2, ra2, s

-----------------------------------------------------------------------------
(* Assignments.                                                            *)

(* An assignment is refused: its reference is given back twice.            *)
LEMMA FitsRefused ==
  ASSUME NEW kind, NEW refs \in Int, NEW o \in Nat, NEW e \in Nat, NEW held \in Nat,
         NEW x \in Nat, Fits(kind, refs, o, e, held)
  PROVE  Fits(kind, refs, o + x, e + x, held)
BY DEF Fits

LEMMA HandleRefused ==
  ASSUME NEW he, NEW ho, NEW ra, NEW ta, NEW fr, NEW ov, NEW ca, Accounted(he, ho, ra, ta, fr, ov, ca),
         NEW g \in Handles, NEW m \in DOMAIN he, ho[g].value = Ref(m)
  PROVE  Accounted(FreeValue(FreeValue(he, Ref(m)), Ref(m)), [ho EXCEPT ![g] = Empty], ra, ta, fr,
                   [ov EXCEPT ![m] = @ + 1], ca)
<1> DEFINE ho2 == [ho EXCEPT ![g] = Empty]
           ext == External(ho, ra, ca)
           ext2 == External(ho2, ra, ca)
           more == [n \in 1..MaxNodes |-> ext[n] + Is(n, m)]
           ov2 == [ov EXCEPT ![m] = @ + 1]
           he1 == FreeValue(he, Ref(m))
           he2 == FreeValue(he1, Ref(m))
<1>1. HostFits(ho2, Len(he), ta) /\ ho2 \in [Handles -> Slots]
  <2>1. HostFits(ho2, Len(he), ta)
    BY AccountParts, HostFitsChanged, EmptyFits
  <2> QED BY <2>1 DEF HostFits
<1>2. m \in 1..MaxNodes /\ ov \in Counts
  BY AccountParts
<1>3. ov2 \in Counts /\ \A n \in 1..MaxNodes : ov2[n] = ov[n] + Is(n, m) /\ ov[n] \in Nat
  BY <1>2, CountRaised
<1>4. ext \in Counts
  BY AccountParts
<1>5. ext2 \in Counts
  <2> HIDE DEF ho2
  <2> QED BY <1>1, AccountParts, ExternalCounts
<1>6. \A n \in 1..MaxNodes : ext[n] \in Nat /\ ext2[n] \in Nat /\ Is(n, m) \in Nat
  BY <1>4, <1>5 DEF Counts, Is
<1>7. \A n \in DOMAIN he : ext[n] = ext2[n] + Is(n, m)
  <2> TAKE n \in DOMAIN he
  <2>1. n \in 1..MaxNodes
    BY AccountParts
  <2>2. /\ ext[n] \in Nat /\ ext2[n] \in Nat
        /\ ext2[n] + Is(ho[g].value, Ref(n)) = ext[n] + Is(Empty.value, Ref(n))
    BY <2>1, AccountParts, EmptyFits, ExternalChanged
  <2>3. Empty.value = Undefined
    BY EmptyFits
  <2> HIDE DEF ext, ext2
  <2> QED BY <2>2, <2>3, IsOfRefs
<1> HIDE DEF ov2, ext, ext2
<1>8. more \in Counts /\ \A n \in 1..MaxNodes : more[n] = ext[n] + Is(n, m)
  BY <1>6 DEF Counts
<1> HIDE DEF more
<1>9. Balanced(he, more, ov2)
  <2> SUFFICES ASSUME NEW n \in DOMAIN he
               PROVE  Fits(he[n].kind, he[n].refs, ov2[n], more[n], HeldInHeap(he, n))
    BY DEF Balanced
  <2>1. n \in 1..MaxNodes /\ he[n].refs \in Int
    BY AccountParts, SaneNodes
  <2>2. HeldInHeap(he, n) \in Nat
    <3>1. FiniteHeap(he)
      BY AccountParts, SaneNodes
    <3> QED BY <3>1, HeldChanges
  <2>3. Fits(he[n].kind, he[n].refs, ov[n], ext[n], HeldInHeap(he, n))
    BY AccountParts DEF Balanced, ext
  <2>4. Fits(he[n].kind, he[n].refs, ov[n] + Is(n, m), ext[n] + Is(n, m), HeldInHeap(he, n))
    BY <1>3, <1>6, <2>1, <2>2, <2>3, FitsRefused
  <2> QED BY <1>3, <1>8, <2>1, <2>4
<1>10. /\ Sane(he1) /\ Len(he1) = Len(he) /\ DOMAIN he1 = DOMAIN he
       /\ Balanced(he1, ext, ov2)
  <2>1. Sane(he) /\ Len(he) <= MaxNodes /\ \A n \in DOMAIN he : n \in 1..MaxNodes
    BY AccountParts
  <2>2. Sane(he1) /\ Len(he1) = Len(he)
    BY <2>1, FreeValueIsSane
  <2>3. \A n \in DOMAIN he : more[n] = ext[n] + Is(n, m)
    BY <1>8, <2>1
  <2>4. ext \in Counts
    BY <1>4 DEF ext
  <2>5. Balanced(he1, ext, ov2)
    BY <1>3, <1>8, <1>9, <2>1, <2>3, <2>4, FreeValueBalanced
  <2>6. DOMAIN he1 = DOMAIN he
    BY <2>1, <2>2, SaneNodes
  <2> QED BY <2>2, <2>5, <2>6
<1> HIDE DEF he1
<1>11. Sane(he2) /\ Len(he2) = Len(he) /\ Balanced(he2, ext2, ov2)
  <2>1. Len(he1) <= MaxNodes
    BY <1>10, AccountParts
  <2>2. \A n \in DOMAIN he1 : ext[n] = ext2[n] + Is(n, m)
    BY <1>7, <1>10
  <2>3. ext \in Counts /\ ext2 \in Counts /\ m \in DOMAIN he1
    BY <1>4, <1>5, <1>10
  <2>4. Balanced(he2, ext2, ov2)
    BY <1>3, <1>10, <2>1, <2>2, <2>3, FreeValueBalanced
  <2>5. Sane(he2) /\ Len(he2) = Len(he)
    BY <1>10, <2>3, FreeValueIsSane
  <2> QED BY <2>4, <2>5
<1> HIDE DEF he2, ho2
<1>12. CountsFit(ov2, Len(he))
  BY <1>2, <1>3, AccountParts DEF Accounted, CountsFit, Is
<1>13. DOMAIN he2 = DOMAIN he
  BY <1>11, AccountParts, SaneNodes
<1>14. Accounted(he2, ho2, ra, ta, fr, ov2, ca)
  BY <1>1, <1>11, <1>12, <1>13 DEF Accounted, ext2
<1> QED BY <1>14 DEF he2, he1, ho2, ov2

(* Handles and the entries of a container exchange references.             *)
LEMMA EntriesMoved ==
  ASSUME NEW he, NEW ho, NEW ra, NEW ta, NEW fr, NEW ov, NEW ca, Accounted(he, ho, ra, ta, fr, ov, ca),
         NEW n \in DOMAIN he, NEW e, EntriesFit(e, he), NEW he2, Replaced(he2, he, n, e),
         NEW ho2, HostFits(ho2, Len(he), ta),
         \A x \in DOMAIN he : External(ho2, ra, ca)[x] + Count(e, Ref(x))
                                = External(ho, ra, ca)[x] + Count(he[n].entries, Ref(x))
  PROVE  Accounted(he2, ho2, ra, ta, fr, ov, ca)
<1> DEFINE ext == External(ho, ra, ca)
           ext2 == External(ho2, ra, ca)
<1>1. Sane(he) /\ Len(he) <= MaxNodes /\ ext \in Counts /\ ov \in Counts /\ Balanced(he, ext, ov)
  BY AccountParts
<1>2. ext2 \in Counts
  <2>1. ho2 \in [Handles -> Slots]
    BY DEF HostFits
  <2> QED BY <2>1, AccountParts, ExternalCounts
<1>3. \A x \in DOMAIN he : ext2[x] + Count(e, Ref(x)) = ext[x] + Count(he[n].entries, Ref(x))
  OBVIOUS
<1> HIDE DEF ext, ext2
<1>4. Balanced(he2, ext2, ov)
  BY <1>1, <1>2, <1>3, EntriesBalanced
<1>5. Sane(he2) /\ Len(he2) = Len(he)
  BY <1>1, EntriesReplaced
<1> QED BY <1>4, <1>5, AccountedAgain DEF ext2

LEMMA EntriesMovedAndFreed ==
  ASSUME NEW he, NEW ho, NEW ra, NEW ta, NEW fr, NEW ov, NEW ca, Accounted(he, ho, ra, ta, fr, ov, ca),
         NEW n \in DOMAIN he, NEW e, EntriesFit(e, he), NEW he2, Replaced(he2, he, n, e),
         NEW ho2, HostFits(ho2, Len(he), ta), NEW k \in DOMAIN he,
         \A x \in DOMAIN he : External(ho2, ra, ca)[x] + Is(x, k) + Count(e, Ref(x))
                                = External(ho, ra, ca)[x] + Count(he[n].entries, Ref(x))
  PROVE  Accounted(FreeValue(he2, Ref(k)), ho2, ra, ta, fr, ov, ca)
<1> DEFINE ext == External(ho, ra, ca)
           ext2 == External(ho2, ra, ca)
           mid == [x \in 1..MaxNodes |-> ext2[x] + Is(x, k)]
<1>1. Sane(he) /\ Len(he) <= MaxNodes /\ ext \in Counts /\ ov \in Counts /\ Balanced(he, ext, ov)
  BY AccountParts
<1>2. ext2 \in Counts
  <2>1. ho2 \in [Handles -> Slots]
    BY DEF HostFits
  <2> QED BY <2>1, AccountParts, ExternalCounts
<1>3. \A x \in DOMAIN he : ext2[x] + Is(x, k) + Count(e, Ref(x)) = ext[x] + Count(he[n].entries, Ref(x))
  OBVIOUS
<1> HIDE DEF ext, ext2
<1>4. mid \in Counts /\ \A x \in DOMAIN he : mid[x] = ext2[x] + Is(x, k)
  <2>1. \A x \in 1..MaxNodes : ext2[x] \in Nat /\ Is(x, k) \in Nat
    BY <1>2 DEF Counts, Is
  <2>2. mid \in Counts
    BY <2>1 DEF Counts
  <2> QED BY <2>2, AccountParts
<1> HIDE DEF mid
<1>5. \A x \in DOMAIN he : mid[x] + Count(e, Ref(x)) = ext[x] + Count(he[n].entries, Ref(x))
  BY <1>3, <1>4
<1>6. Balanced(he2, mid, ov)
  BY <1>1, <1>4, <1>5, EntriesBalanced
<1>7. Sane(he2) /\ Len(he2) = Len(he) /\ DOMAIN he2 = DOMAIN he
  BY <1>1, EntriesReplaced
<1>8. Balanced(FreeValue(he2, Ref(k)), ext2, ov)
  <2>1. Len(he2) <= MaxNodes /\ k \in DOMAIN he2 /\ \A x \in DOMAIN he2 : mid[x] = ext2[x] + Is(x, k)
    BY <1>1, <1>4, <1>7
  <2> QED BY <1>1, <1>2, <1>4, <1>6, <1>7, <2>1, FreeValueBalanced
<1>9. Sane(FreeValue(he2, Ref(k))) /\ Len(FreeValue(he2, Ref(k))) = Len(he)
  BY <1>7, FreeValueIsSane
<1> QED BY <1>8, <1>9, AccountedAgain DEF ext2

-----------------------------------------------------------------------------
(* The actions of OwnedValues.                                             *)

(* Of the variables of HostCallback.                                       *)
Inv == Accounted(heap, host, raws, tables, frozen, over, call)

(* What a handle or an entry holds lives, in a program that is Sound.      *)
LEMMA HandleNames ==
  ASSUME Inv, NEW h \in Handles, host[h].kind # "none"
  PROVE  NodeOf(h) \in DOMAIN heap /\ host[h].value = Ref(NodeOf(h))
<1>1. SlotFits(host[h], Len(heap), tables) /\ DOMAIN heap = 1..Len(heap)
  BY AccountParts DEF Inv
<1>2. PICK m \in 1..Len(heap) : host[h].value = Ref(m)
  BY <1>1, SlotNames
<1> QED BY <1>1, <1>2 DEF NodeOf, Ref, Value

LEMMA HeldIsAlive ==
  ASSUME Inv, Sound, NEW h \in Handles, NEW m \in DOMAIN heap, host[h].value = Ref(m)
  PROVE  heap[m].kind # "freed"
<1>1. host \in [Handles -> Slots] /\ raws[m] \in Nat
  <2>1. HostFits(host, Len(heap), tables) /\ raws \in Counts /\ m \in 1..MaxNodes
    BY AccountParts DEF Inv
  <2> QED BY <2>1 DEF HostFits, Counts
<1>2. HeldByHandles(m) = Count(host, Ref(m)) /\ Count(host, Ref(m)) \in Nat
  BY <1>1, HostCount DEF HeldByHandles
<1>3. Count(host, Ref(m)) > 0
  <2>1. h \in DOMAIN host /\ IsFiniteSet(DOMAIN host)
    BY <1>1, FiniteHandles
  <2>2. Count(host, host[h].value) > 0
    BY <2>1, CountOfSome
  <2> QED BY <2>2
<1>4. HeldInHeap(heap, m) \in Nat
  <2>1. FiniteHeap(heap)
    BY AccountParts, SaneNodes DEF Inv
  <2> QED BY <2>1, HeldChanges
<1>5. Holders(m) # 0
  BY <1>1, <1>2, <1>3, <1>4 DEF Holders
<1> QED BY <1>5 DEF Sound, Alive

LEMMA EntryIsAlive ==
  ASSUME Inv, Sound, NEW n \in DOMAIN heap, NEW i \in DOMAIN heap[n].entries
  PROVE  \E m \in DOMAIN heap : heap[n].entries[i].value = Ref(m) /\ heap[m].kind # "freed"
<1>1. Sane(heap) /\ FiniteHeap(heap) /\ heap[n].entries \in Seq(Entries(Refs))
  <2>1. Sane(heap)
    BY AccountParts DEF Inv
  <2> QED BY <2>1, SaneNodes
<1>2. PICK m \in DOMAIN heap : heap[n].entries[i].value = Ref(m)
  <2>1. heap[n].entries[i] \in Entries(Refs)
    BY <1>1
  <2>2. PICK m \in Nat : heap[n].entries[i].value = Ref(m)
    BY <2>1 DEF Entries, Refs
  <2>3. heap[n].entries[i].value.data \in DOMAIN heap
    BY <1>1 DEF Sane
  <2> QED BY <2>2, <2>3 DEF Ref, Value
<1>3. Count(heap[n].entries, Ref(m)) > 0 /\ Count(heap[n].entries, Ref(m)) \in Nat
  <2>1. IsFiniteSet(DOMAIN heap[n].entries)
    BY <1>1 DEF FiniteHeap
  <2> HIDE <1>1
  <2>2. Count(heap[n].entries, heap[n].entries[i].value) > 0
    BY <2>1, CountOfSome
  <2>3. Count(heap[n].entries, Ref(m)) \in Nat
    BY <2>1, CountIsNat
  <2> QED BY <1>2, <2>2, <2>3
<1>4. /\ HeldInHeap(heap, m) \in Nat /\ HeldBy(heap[n], m) \in Nat
      /\ HeldBy(heap[n], m) <= HeldInHeap(heap, m)
  BY <1>1, HeldChanges
<1>5. HeldInHeap(heap, m) > 0
  <2>1. HeldBy(heap[n], m) >= Count(heap[n].entries, Ref(m))
    BY <1>3 DEF HeldBy
  <2> QED BY <1>3, <1>4, <2>1
<1>6. HeldByHandles(m) \in Nat /\ raws[m] \in Nat
  <2>1. HostFits(host, Len(heap), tables) /\ raws \in Counts /\ m \in 1..MaxNodes
    BY AccountParts DEF Inv
  <2>2. host \in [Handles -> Slots]
    BY <2>1 DEF HostFits
  <2> QED BY <2>1, <2>2, HostCount DEF HeldByHandles, Counts
<1>7. Holders(m) # 0
  BY <1>4, <1>5, <1>6 DEF Holders
<1> QED BY <1>2, <1>7 DEF Sound, Alive

(* The operations of OwnedJsValue.                                         *)
LEMMA CloneKeeps ==
  ASSUME Inv, Sound, NEW h \in Handles, NEW g \in Handles, Clone(h, g), UNCHANGED call
  PROVE  Inv'
<1>1. NodeOf(h) \in DOMAIN heap /\ host[h].value = Ref(NodeOf(h))
  BY HandleNames DEF Clone, Owns
<1>2. heap[NodeOf(h)].kind # "freed"
  BY <1>1, HeldIsAlive
<1>3. SlotFits(host[h], Len(heap), tables)
  BY AccountParts DEF Inv
<1>4. Accounted(Dup(heap, Ref(NodeOf(h))), [host EXCEPT ![g] = host[h]], raws, tables, frozen, over, call)
  BY <1>1, <1>2, <1>3, HandleGained DEF Clone, Inv, IsFree, Owns
<1> QED BY <1>1, <1>4 DEF Clone, Inv

LEMMA DropKeeps ==
  ASSUME Inv, NEW h \in Handles, Drop(h), UNCHANGED call
  PROVE  Inv'
<1>1. NodeOf(h) \in DOMAIN heap /\ host[h].value = Ref(NodeOf(h))
  BY HandleNames DEF Drop, Owns
<1>2. Accounted(FreeValue(heap, Ref(NodeOf(h))), [host EXCEPT ![h] = Empty], raws, tables, frozen, over, call)
  BY <1>1, HandleLost DEF Inv
<1> QED BY <1>1, <1>2 DEF Drop, Inv

LEMMA ExtractKeeps ==
  ASSUME Inv, NEW h \in Handles, Extract(h), UNCHANGED call
  PROVE  Inv'
<1>1. NodeOf(h) \in DOMAIN heap /\ host[h].value = Ref(NodeOf(h))
  BY HandleNames DEF Extract, Owns
<1>2. Accounted(heap, [host EXCEPT ![h] = Empty], [raws EXCEPT ![NodeOf(h)] = @ + 1], tables, frozen, over, call)
  BY <1>1, HandleToRaw DEF Inv, Extract
<1> QED BY <1>2 DEF Extract, Inv

LEMMA WrapKeeps ==
  ASSUME Inv, NEW h \in Handles, NEW n \in DOMAIN heap, Wrap(n, h), UNCHANGED call
  PROVE  Inv'
<1>1. Accounted(heap, [host EXCEPT ![h] = Owned(Ref(n))], [raws EXCEPT ![n] = @ - 1], tables, frozen, over, call)
  BY RawToHandle DEF Inv, Wrap, IsFree, Owns
<1> QED BY <1>1 DEF Wrap, Inv

LEMMA ReplaceKeeps ==
  ASSUME Inv, NEW h \in Handles, NEW n \in DOMAIN heap, Replace(h, n), UNCHANGED call
  PROVE  Inv'
<1> DEFINE he2 == FreeValue(heap, Ref(NodeOf(h)))
           ho2 == [host EXCEPT ![h] = Empty]
<1>1. NodeOf(h) \in DOMAIN heap /\ host[h].value = Ref(NodeOf(h))
  BY HandleNames DEF Replace, Owns
<1>2. Accounted(he2, ho2, raws, tables, frozen, over, call)
  BY <1>1, HandleLost DEF Inv
<1>3. host \in [Handles -> Slots]
  BY AccountParts DEF Inv, HostFits
<1>4. ho2[h].kind = "none"
  BY <1>3, EmptyFits
<1>5. n \in DOMAIN he2
  <2>1. Sane(heap) /\ DOMAIN heap = 1..Len(heap) /\ Len(he2) = Len(heap)
    BY <1>1, AccountParts, FreeValueIsSane DEF Inv
  <2>2. DOMAIN he2 = 1..Len(he2)
    <3> HIDE DEF he2, ho2
    <3> QED BY <1>2, AccountParts
  <2> QED BY <2>1, <2>2
<1>6. [ho2 EXCEPT ![h] = Owned(Ref(n))] = [host EXCEPT ![h] = Owned(Ref(n))]
  BY <1>3
<1>7. Accounted(he2, [ho2 EXCEPT ![h] = Owned(Ref(n))], [raws EXCEPT ![n] = @ - 1], tables, frozen, over, call)
  <2> HIDE DEF he2, ho2
  <2> QED BY <1>2, <1>4, <1>5, RawToHandle DEF Replace
<1> QED BY <1>1, <1>6, <1>7 DEF Replace, Inv

LEMMA EntryNames ==
  ASSUME NEW h, Sane(h), NEW n \in DOMAIN h
  PROVE  /\ EntriesFit(h[n].entries, h) /\ IsFiniteSet(DOMAIN h[n].entries)
         /\ \A i \in DOMAIN h[n].entries : \E m \in DOMAIN h : h[n].entries[i].value = Ref(m)
<1>1. FiniteHeap(h) /\ h[n].entries \in Seq(Entries(Refs))
  BY SaneNodes
<1>2. \A i \in DOMAIN h[n].entries : h[n].entries[i].value.data \in DOMAIN h
  BY DEF Sane
<1>3. \A i \in DOMAIN h[n].entries : \E m \in DOMAIN h : h[n].entries[i].value = Ref(m)
  <2> TAKE i \in DOMAIN h[n].entries
  <2>1. h[n].entries[i] \in Entries(Refs)
    BY <1>1
  <2>2. PICK m \in Nat : h[n].entries[i].value = Ref(m)
    BY <2>1 DEF Entries, Refs
  <2> QED BY <1>2, <2>2 DEF Ref, Value
<1> QED BY <1>1, <1>2, <1>3 DEF EntriesFit, FiniteHeap

LEMMA EntryChanged ==
  ASSUME NEW V, NEW s \in Seq(Entries(V)), NEW i \in DOMAIN s, NEW v \in V,
         NEW t, t = [s EXCEPT ![i].value = v]
  PROVE  /\ t \in Seq(Entries(V)) /\ DOMAIN t = DOMAIN s /\ t[i].value = v
         /\ \A j \in DOMAIN s \ {i} : t[j] = s[j]
<1> DEFINE y == [s[i] EXCEPT !.value = v]
<1>1. s[i] \in Entries(V)
  OBVIOUS
<1>2. y \in Entries(V) /\ y.value = v
  <2> DEFINE z == s[i]
  <2>1. z \in Entries(V)
    BY <1>1
  <2> HIDE DEF z
  <2>2. [z EXCEPT !.value = v] \in Entries(V) /\ [z EXCEPT !.value = v].value = v
    BY <2>1 DEF Entries
  <2> QED BY <2>2 DEF z
<1>3. t = [s EXCEPT ![i] = y]
  OBVIOUS
<1> HIDE DEF y
<1> QED BY <1>2, <1>3

(* Assignments to containers.                                              *)
LEMMA PutReplaces ==
  ASSUME Inv, NEW n \in DOMAIN heap, NEW i \in DOMAIN heap[n].entries, NEW key,
         NEW g \in Handles, NEW m \in DOMAIN heap, host[g].value = Ref(m)
  PROVE  Accounted(Put(n, i, key, Ref(m)), [host EXCEPT ![g] = Empty], raws, tables, frozen, over, call)
<1> DEFINE entries == heap[n].entries
           e == [entries EXCEPT ![i].value = Ref(m)]
           he2 == [heap EXCEPT ![n].entries[i].value = Ref(m)]
           ho2 == [host EXCEPT ![g] = Empty]
<1>0. Sane(heap) /\ DOMAIN heap = 1..Len(heap) /\ Accounted(heap, host, raws, tables, frozen, over, call)
  BY AccountParts DEF Inv
<1>1. PICK k \in DOMAIN heap : entries[i].value = Ref(k)
  BY <1>0, EntryNames
<1>2. EntriesFit(entries, heap) /\ IsFiniteSet(DOMAIN entries)
  BY <1>0, EntryNames
<1>3. EntriesFit(e, heap) /\ DOMAIN e = DOMAIN entries /\ e[i].value = Ref(m)
      /\ \A j \in DOMAIN entries \ {i} : e[j].value = entries[j].value
  <2>1. Ref(m) \in Refs /\ Ref(m).data = m
    BY <1>0 DEF Refs, Ref, Value
  <2>2. entries \in Seq(Entries(Refs)) /\ i \in DOMAIN entries
    BY <1>2 DEF EntriesFit
  <2> HIDE DEF entries
  <2>5. e = [entries EXCEPT ![i].value = Ref(m)]
    OBVIOUS
  <2> HIDE DEF e
  <2>6. /\ e \in Seq(Entries(Refs)) /\ DOMAIN e = DOMAIN entries /\ e[i].value = Ref(m)
        /\ \A j \in DOMAIN entries \ {i} : e[j] = entries[j]
    BY <2>1, <2>2, <2>5, EntryChanged
  <2>7. \A j \in DOMAIN e : e[j].value.data \in DOMAIN heap
    BY <1>2, <2>1, <2>6 DEF EntriesFit
  <2> QED BY <2>6, <2>7 DEF EntriesFit
<1>4. Replaced(he2, heap, n, e)
  BY DEF Replaced
<1>5. HostFits(ho2, Len(heap), tables)
  BY <1>0, AccountParts, HostFitsChanged, EmptyFits
<1>6. \A x \in DOMAIN heap : External(ho2, raws, call)[x] + Is(x, k) + Count(e, Ref(x))
                               = External(host, raws, call)[x] + Count(heap[n].entries, Ref(x))
  <2> TAKE x \in DOMAIN heap
  <2> HIDE DEF e, he2
  <2>1. /\ Count(e, Ref(x)) = Count(entries, Ref(x)) - Is(entries[i].value, Ref(x)) + Is(e[i].value, Ref(x))
        /\ Count(entries, Ref(x)) \in Nat /\ Count(e, Ref(x)) \in Nat
    <3> i \in DOMAIN entries
      OBVIOUS
    <3> HIDE DEF entries
    <3> QED BY <1>2, <1>3, CountOfChanged
  <2>2. /\ External(host, raws, call)[x] \in Nat /\ External(ho2, raws, call)[x] \in Nat
        /\ External(ho2, raws, call)[x] + Is(host[g].value, Ref(x))
             = External(host, raws, call)[x] + Is(Empty.value, Ref(x))
    BY <1>0, AccountParts, EmptyFits, ExternalChanged
  <2>3. Empty.value = Undefined
    BY EmptyFits
  <2>4. External(ho2, raws, call)[x] + Is(x, m) = External(host, raws, call)[x]
    <3> HIDE DEF ho2
    <3> QED BY <2>2, <2>3, IsOfRefs
  <2>5. Count(e, Ref(x)) = Count(entries, Ref(x)) - Is(x, k) + Is(x, m) /\ Is(x, k) \in Nat /\ Is(x, m) \in Nat
    BY <1>1, <1>3, <2>1, IsOfRefs
  <2> DEFINE a == External(ho2, raws, call)[x]
             b == External(host, raws, call)[x]
             c == Count(entries, Ref(x))
             d == Count(e, Ref(x))
  <2>6. a + Is(x, m) = b /\ d = c - Is(x, k) + Is(x, m) /\ a \in Nat /\ b \in Nat /\ c \in Nat /\ d \in Nat
    BY <2>1, <2>2, <2>4, <2>5
  <2>7. a + Is(x, k) + d = b + c
    <3> HIDE DEF a, b, c, d
    <3> QED BY <2>5, <2>6
  <2> QED BY <2>7
<1>7. Accounted(FreeValue(he2, Ref(k)), ho2, raws, tables, frozen, over, call)
  <2> HIDE DEF he2, ho2, e, entries
  <2> QED BY <1>0, <1>3, <1>4, <1>5, <1>6, EntriesMovedAndFreed
<1> QED BY <1>1, <1>7 DEF Put

LEMMA PutAppends ==
  ASSUME Inv, NEW n \in DOMAIN heap, NEW i, i \notin DOMAIN heap[n].entries,
         NEW key \in Strings \cup {None},
         NEW g \in Handles, NEW m \in DOMAIN heap, host[g].value = Ref(m)
  PROVE  Accounted(Put(n, i, key, Ref(m)), [host EXCEPT ![g] = Empty], raws, tables, frozen, over, call)
<1> DEFINE entries == heap[n].entries
           x0 == Entry(key, Ref(m))
           e == Append(entries, x0)
           he2 == [heap EXCEPT ![n].entries = Append(@, Entry(key, Ref(m)))]
           ho2 == [host EXCEPT ![g] = Empty]
<1>0. Sane(heap) /\ DOMAIN heap = 1..Len(heap) /\ Accounted(heap, host, raws, tables, frozen, over, call)
  BY AccountParts DEF Inv
<1>2. EntriesFit(entries, heap) /\ entries \in Seq(Entries(Refs)) /\ IsFiniteSet(DOMAIN entries)
  BY <1>0, EntryNames DEF EntriesFit
<1>3. x0 \in Entries(Refs) /\ x0.value = Ref(m) /\ x0.value.data = m
  BY <1>0 DEF Entry, Entries, Refs, Ref, Value
<1> HIDE DEF x0
<1>4. EntriesFit(e, heap)
  <2> HIDE DEF entries
  <2>1. e \in Seq(Entries(Refs)) /\ DOMAIN e = DOMAIN entries \cup {Len(entries) + 1}
        /\ e[Len(entries) + 1] = x0 /\ \A j \in DOMAIN entries : e[j] = entries[j]
    BY <1>2, <1>3
  <2> QED BY <1>2, <1>3, <2>1 DEF EntriesFit
<1>5. Replaced(he2, heap, n, e)
  BY DEF Replaced, x0
<1>6. HostFits(ho2, Len(heap), tables)
  BY <1>0, AccountParts, HostFitsChanged, EmptyFits
<1>7. \A x \in DOMAIN heap : External(ho2, raws, call)[x] + Count(e, Ref(x))
                               = External(host, raws, call)[x] + Count(heap[n].entries, Ref(x))
  <2> TAKE x \in DOMAIN heap
  <2>1. Count(entries, Ref(x)) \in Nat
    BY <1>2, CountIsNat
  <2>2. Count(e, Ref(x)) = Count(entries, Ref(x)) + Is(x0.value, Ref(x))
    <3> HIDE DEF entries
    <3> QED BY <1>2, <1>3, CountOfAppend
  <2> HIDE DEF e, he2
  <2>3. /\ External(host, raws, call)[x] \in Nat /\ External(ho2, raws, call)[x] \in Nat
        /\ External(ho2, raws, call)[x] + Is(host[g].value, Ref(x))
             = External(host, raws, call)[x] + Is(Empty.value, Ref(x))
    BY <1>0, AccountParts, EmptyFits, ExternalChanged
  <2>4. Empty.value = Undefined
    BY EmptyFits
  <2>5. External(ho2, raws, call)[x] + Is(x, m) = External(host, raws, call)[x] /\ Is(x, m) \in Nat
    <3> HIDE DEF ho2
    <3> QED BY <2>3, <2>4, IsOfRefs
  <2>6. Count(e, Ref(x)) = Count(entries, Ref(x)) + Is(x, m)
    BY <1>3, <2>2, IsOfRefs
  <2> DEFINE a == External(ho2, raws, call)[x]
             b == External(host, raws, call)[x]
             c == Count(entries, Ref(x))
             d == Count(e, Ref(x))
  <2>7. a + Is(x, m) = b /\ d = c + Is(x, m) /\ a \in Nat /\ b \in Nat /\ c \in Nat
    BY <2>1, <2>3, <2>5, <2>6
  <2>8. a + d = b + c
    <3> HIDE DEF a, b, c, d
    <3> QED BY <2>5, <2>7
  <2> QED BY <2>8
<1>8. Accounted(he2, ho2, raws, tables, frozen, over, call)
  <2> HIDE DEF he2, ho2, e, entries
  <2> QED BY <1>0, <1>4, <1>5, <1>6, <1>7, EntriesMoved
<1> QED BY <1>8 DEF Put

LEMMA AssignKeeps ==
  ASSUME Inv, NEW n \in DOMAIN heap, NEW i, NEW key \in Strings \cup {None},
         NEW g \in Handles, host[g].kind # "none", Assign(n, i, key, g), UNCHANGED call
  PROVE  Inv'
<1> DEFINE m == NodeOf(g)
<1>1. m \in DOMAIN heap /\ host[g].value = Ref(m)
  BY HandleNames
<1>2. host[g].value.data = m
  BY DEF NodeOf
<1> HIDE DEF m
<1>3. CASE n \in frozen
  <2>1. Accounted(FreeValue(FreeValue(heap, Ref(m)), Ref(m)), [host EXCEPT ![g] = Empty], raws, tables, frozen,
                  [over EXCEPT ![m] = @ + 1], call)
    BY <1>1, HandleRefused DEF Inv
  <2>2. /\ heap' = FreeValue(FreeValue(heap, Ref(m)), Ref(m)) /\ over' = [over EXCEPT ![m] = @ + 1]
        /\ host' = [host EXCEPT ![g] = Empty] /\ UNCHANGED <<raws, tables, frozen, call>>
    BY <1>1, <1>2, <1>3 DEF Assign, Refused
  <2> QED BY <2>1, <2>2 DEF Inv
<1>4. CASE n \notin frozen
  <2>1. Accounted(Put(n, i, key, Ref(m)), [host EXCEPT ![g] = Empty], raws, tables, frozen, over, call)
    BY <1>1, PutReplaces, PutAppends
  <2>2. /\ heap' = Put(n, i, key, Ref(m))
        /\ host' = [host EXCEPT ![g] = Empty] /\ UNCHANGED <<raws, tables, frozen, over, call>>
    BY <1>1, <1>4 DEF Assign
  <2> QED BY <2>1, <2>2 DEF Inv
<1> QED BY <1>3, <1>4

(* Operations of objects and arrays.                                       *)
LEMMA SetPropertyKeeps ==
  ASSUME Inv, NEW h \in Handles, NEW g \in Handles, NEW key \in {Text, NulText},
         SetProperty(h, key, g), UNCHANGED call
  PROVE  Inv'
<1>1. /\ NodeOf(h) \in DOMAIN heap /\ host[g].kind # "none"
      /\ NodeOf(g) \in DOMAIN heap /\ host[g].value = Ref(NodeOf(g))
  BY HandleNames DEF SetProperty, Owns
<1>2. CASE key = NulText
  <2>1. Accounted(FreeValue(heap, Ref(NodeOf(g))), [host EXCEPT ![g] = Empty], raws, tables, frozen, over, call)
    BY <1>1, HandleLost DEF Inv
  <2>2. /\ heap' = FreeValue(heap, Ref(NodeOf(g))) /\ host' = [host EXCEPT ![g] = Empty]
        /\ UNCHANGED <<raws, tables, frozen, over, call>>
    BY <1>1, <1>2 DEF SetProperty
  <2> QED BY <2>1, <2>2 DEF Inv
<1>3. CASE key # NulText
  <2>1. PICK i : Assign(NodeOf(h), i, key, g)
    BY <1>3 DEF SetProperty
  <2>2. key \in Strings \cup {None}
    BY DEF Strings
  <2> QED BY <1>1, <2>1, <2>2, AssignKeeps
<1> QED BY <1>2, <1>3

LEMMA SetIndexKeeps ==
  ASSUME Inv, NEW h \in Handles, NEW g \in Handles, NEW i, SetIndex(h, i, g), UNCHANGED call
  PROVE  Inv'
<1>1. NodeOf(h) \in DOMAIN heap /\ host[g].kind # "none" /\ Assign(NodeOf(h), i, None, g)
  BY HandleNames DEF SetIndex, Owns
<1> QED BY <1>1, AssignKeeps

LEMMA GetKeeps ==
  ASSUME Inv, Sound, NEW h \in Handles, NEW g \in Handles, NEW i, Get(h, i, g), UNCHANGED call
  PROVE  Inv'
<1>1. NodeOf(h) \in DOMAIN heap /\ i \in DOMAIN heap[NodeOf(h)].entries
  BY HandleNames DEF Get, Owns
<1>2. PICK m \in DOMAIN heap : heap[NodeOf(h)].entries[i].value = Ref(m) /\ heap[m].kind # "freed"
  BY <1>1, EntryIsAlive
<1>3. SlotFits(Owned(Ref(m)), Len(heap), tables) /\ Owned(Ref(m)).value = Ref(m)
  BY AccountParts, OwnedFits DEF Inv
<1>4. Accounted(Dup(heap, Ref(m)), [host EXCEPT ![g] = Owned(Ref(m))], raws, tables, frozen, over, call)
  BY <1>2, <1>3, HandleGained DEF Get, Inv, IsFree, Owns
<1> QED BY <1>2, <1>4 DEF Get, Inv

(* Property iterators and their tables.                                    *)
LEMMA TableAdded ==
  ASSUME NEW S, NEW ta \in Seq(S), NEW x \in S, NEW t2, t2 = Append(ta, x)
  PROVE  /\ t2 \in Seq(S) /\ Len(t2) = Len(ta) + 1 /\ Len(ta) \in Nat /\ DOMAIN ta = 1..Len(ta)
         /\ DOMAIN t2 = DOMAIN ta \cup {Len(ta) + 1} /\ t2[Len(ta) + 1] = x
         /\ \A t \in DOMAIN ta : t \in DOMAIN t2 /\ t2[t] = ta[t]
OBVIOUS

LEMMA NamesFit ==
  ASSUME Inv, NEW n \in DOMAIN heap
  PROVE  [i \in DOMAIN heap[n].entries |-> NameOf(n, i)] \in Seq(Names)
<1>1. heap[n].entries \in Seq(Entries(Refs))
  BY AccountParts, EntryNames DEF Inv, EntriesFit
<1>2. ASSUME NEW i \in DOMAIN heap[n].entries
      PROVE  NameOf(n, i) \in Names
  <2>1. heap[n].entries[i] \in Entries(Refs) /\ i \in Nat
    BY <1>1
  <2>2. heap[n].entries[i].key \in Strings \cup {None}
    BY <2>1 DEF Entries
  <2> QED BY <2>1, <2>2 DEF NameOf, Names
<1> DEFINE s == [i \in DOMAIN heap[n].entries |-> NameOf(n, i)]
<1>3. DOMAIN heap[n].entries = 1..Len(heap[n].entries) /\ Len(heap[n].entries) \in Nat
  BY <1>1
<1>4. s \in [1..Len(heap[n].entries) -> Names]
  BY <1>2, <1>3
<1> HIDE DEF s
<1>5. s \in Seq(Names)
  BY <1>3, <1>4
<1> QED BY <1>5 DEF s

LEMMA PropertiesIterKeeps ==
  ASSUME Inv, Sound, NEW h \in Handles, NEW g \in Handles, PropertiesIter(h, g), UNCHANGED call
  PROVE  Inv'
<1> DEFINE n == NodeOf(h)
           x == [names |-> [i \in DOMAIN heap[n].entries |-> NameOf(n, i)], frees |-> 0, clones |-> 0]
           s == Slot("iter", host[h].value, Len(tables) + 1, 0)
<1>1. n \in DOMAIN heap /\ host[h].value = Ref(n)
  BY HandleNames DEF PropertiesIter, Owns
<1>2. heap[n].kind # "freed"
  BY <1>1, HeldIsAlive
<1>3. tables \in Seq(TableNames) /\ Accounted(heap, host, raws, tables, frozen, over, call)
  BY DEF Inv, Accounted
<1>4. x \in TableNames
  <2> DEFINE y == [i \in DOMAIN heap[n].entries |-> NameOf(n, i)]
  <2>1. y \in Seq(Names)
    <3> HIDE DEF n
    <3> QED BY <1>1, NamesFit
  <2> HIDE DEF y
  <2>2. [names |-> y, frees |-> 0, clones |-> 0] \in TableNames
    BY <2>1 DEF TableNames
  <2> QED BY <2>2 DEF y
<1>5. tables' = Append(tables, x)
  BY DEF PropertiesIter
<1>6. x.names \in Seq(Names)
  <2> HIDE DEF x
  <2> QED BY <1>4 DEF TableNames
<1> HIDE DEF x, n
<1>7. /\ tables' \in Seq(TableNames) /\ Len(tables) \in Nat /\ Len(tables) + 1 \in DOMAIN tables'
      /\ tables'[Len(tables) + 1] = x
      /\ \A t \in DOMAIN tables : t \in DOMAIN tables' /\ tables'[t].names = tables[t].names
  <2> HIDE DEF TableNames
  <2> QED BY <1>3, <1>4, <1>5, TableAdded
<1>8. Accounted(heap, host, raws, tables', frozen, over, call)
  <2> HIDE DEF TableNames
  <2> QED BY <1>3, <1>7, TablesChanged
<1>9. SlotFits(s, Len(heap), tables') /\ s.value = Ref(n)
  <2>1. Ref(n) \in Refs /\ Ref(n) \in NodesUpTo(Len(heap))
    BY <1>1, <1>3, AccountParts DEF Refs, NodesUpTo
  <2>2. s.value = Ref(n) /\ s.kind = "iter" /\ s.table = Len(tables) + 1 /\ s.index = 0 /\ s \in Slots
    BY <1>1, <1>7, <2>1 DEF Slot, Slots
  <2>3. Len(x.names) \in Nat
    BY <1>6
  <2>4. 0 <= 2 * Len(tables'[Len(tables) + 1].names)
    BY <1>7, <2>3
  <2> HIDE DEF s
  <2> QED BY <1>7, <2>1, <2>2, <2>4 DEF SlotFits
<1>10. Accounted(Dup(heap, Ref(n)), [host EXCEPT ![g] = s], raws, tables', frozen, over, call)
  <2>1. host[g].kind = "none"
    BY DEF PropertiesIter, IsFree, Owns
  <2> HIDE DEF s
  <2> QED BY <1>1, <1>2, <1>8, <1>9, <2>1, HandleGained
<1> QED BY <1>1, <1>10 DEF PropertiesIter, Inv

LEMMA TableCloned ==
  ASSUME NEW x \in TableNames, NEW y, y = [x EXCEPT !.clones = @ + 1]
  PROVE  y \in TableNames /\ y.names = x.names /\ y.frees = x.frees /\ y.clones = x.clones + 1
BY DEF TableNames

LEMMA TableFreed ==
  ASSUME NEW x \in TableNames, NEW y, y = [x EXCEPT !.frees = @ + 1]
  PROVE  y \in TableNames /\ y.names = x.names /\ y.frees = x.frees + 1 /\ y.clones = x.clones
BY DEF TableNames

LEMMA SameNames ==
  ASSUME NEW ta \in Seq(TableNames), NEW t \in DOMAIN ta, NEW t2,
         t2 = [ta EXCEPT ![t].clones = @ + 1] \/ t2 = [ta EXCEPT ![t].frees = @ + 1]
  PROVE  /\ t2 \in Seq(TableNames)
         /\ \A u \in DOMAIN ta : u \in DOMAIN t2 /\ t2[u].names = ta[u].names
<1> DEFINE y == [ta[t] EXCEPT !.clones = @ + 1]
           z == [ta[t] EXCEPT !.frees = @ + 1]
<1>1. y \in TableNames /\ y.names = ta[t].names /\ z \in TableNames /\ z.names = ta[t].names
  <2>1. ta[t] \in TableNames
    OBVIOUS
  <2> QED BY <2>1, TableCloned, TableFreed
<1>2. t2 = [ta EXCEPT ![t] = y] \/ t2 = [ta EXCEPT ![t] = z]
  OBVIOUS
<1> HIDE DEF y, z, TableNames
<1>3. PICK x \in TableNames : t2 = [ta EXCEPT ![t] = x] /\ x.names = ta[t].names
  BY <1>1, <1>2
<1>4. t2 \in Seq(TableNames) /\ DOMAIN t2 = DOMAIN ta /\ \A u \in DOMAIN ta : t2[u] = IF u = t THEN x ELSE ta[u]
  BY <1>3
<1> QED BY <1>3, <1>4

LEMMA IterCloneKeeps ==
  ASSUME Inv, Sound, NEW h \in Handles, NEW g \in Handles, IterClone(h, g), UNCHANGED call
  PROVE  Inv'
<1> DEFINE n == NodeOf(h)
<1>1. n \in DOMAIN heap /\ host[h].value = Ref(n)
  BY HandleNames DEF IterClone, Iterates, Owns
<1>2. heap[n].kind # "freed"
  BY <1>1, HeldIsAlive
<1>3. tables \in Seq(TableNames) /\ Accounted(heap, host, raws, tables, frozen, over, call)
  BY DEF Inv, Accounted
<1>4. SlotFits(host[h], Len(heap), tables) /\ host[h].table \in DOMAIN tables
  BY <1>3, AccountParts DEF IterClone, Iterates, Owns, SlotFits
<1> HIDE DEF n
<1>5. /\ tables' \in Seq(TableNames)
      /\ \A u \in DOMAIN tables : u \in DOMAIN tables' /\ tables'[u].names = tables[u].names
  <2> HIDE DEF TableNames
  <2> QED BY <1>3, <1>4, SameNames DEF IterClone
<1>6. Accounted(heap, host, raws, tables', frozen, over, call)
  <2> HIDE DEF TableNames
  <2> QED BY <1>3, <1>5, TablesChanged
<1>7. SlotFits(host[h], Len(heap), tables')
  BY <1>6, AccountParts
<1>8. Accounted(Dup(heap, Ref(n)), [host EXCEPT ![g] = host[h]], raws, tables', frozen, over, call)
  <2>1. host[g].kind = "none"
    BY DEF IterClone, IsFree, Owns
  <2> QED BY <1>1, <1>2, <1>6, <1>7, <2>1, HandleGained
<1> QED BY <1>1, <1>8 DEF IterClone, Inv

LEMMA IterDropKeeps ==
  ASSUME Inv, NEW h \in Handles, IterDrop(h), UNCHANGED call
  PROVE  Inv'
<1> DEFINE n == NodeOf(h)
<1>1. n \in DOMAIN heap /\ host[h].value = Ref(n)
  BY HandleNames DEF IterDrop, Iterates, Owns
<1>2. tables \in Seq(TableNames) /\ Accounted(heap, host, raws, tables, frozen, over, call)
  BY DEF Inv, Accounted
<1>3. host[h].table \in DOMAIN tables
  BY <1>2, AccountParts DEF IterDrop, Iterates, Owns, SlotFits
<1> HIDE DEF n
<1>4. /\ tables' \in Seq(TableNames)
      /\ \A u \in DOMAIN tables : u \in DOMAIN tables' /\ tables'[u].names = tables[u].names
  <2> HIDE DEF TableNames
  <2> QED BY <1>2, <1>3, SameNames DEF IterDrop, FreePropertyEnum
<1>5. Accounted(heap, host, raws, tables', frozen, over, call)
  <2> HIDE DEF TableNames
  <2> QED BY <1>2, <1>4, TablesChanged
<1>6. Accounted(FreeValue(heap, Ref(n)), [host EXCEPT ![h] = Empty], raws, tables', frozen, over, call)
  BY <1>1, <1>5, HandleLost
<1> QED BY <1>1, <1>6 DEF IterDrop, Inv

(* An iterator counts names and values; it is not past the last name.      *)
LEMMA Half2 ==
  ASSUME NEW i \in Nat, NEW L \in Nat, i \div 2 < L
  PROVE  i + 1 <= 2 * L
OBVIOUS

LEMMA SlotMoved ==
  ASSUME NEW s, NEW N, NEW ta, SlotFits(s, N, ta), s.kind = "iter", NEW t, t = [s EXCEPT !.index = @ + 1],
         s.index + 1 <= 2 * Len(ta[s.table].names)
  PROVE  SlotFits(t, N, ta) /\ t.value = s.value
<1>1. s \in Slots
  BY DEF SlotFits
<1>2. /\ t \in Slots /\ t.kind = s.kind /\ t.value = s.value /\ t.table = s.table /\ t.index = s.index + 1
  BY <1>1 DEF Slots
<1> QED BY <1>2 DEF SlotFits

LEMMA IterNextKeeps ==
  ASSUME Inv, Sound, NEW h \in Handles, NEW g \in Handles, IterNext(h, g), UNCHANGED call
  PROVE  Inv'
<1> DEFINE n == NodeOf(h)
           s == [host[h] EXCEPT !.index = @ + 1]
           ho2 == [host EXCEPT ![h] = s]
           names == tables[host[h].table].names
           there == Positions(n, names[host[h].index \div 2 + 1])
           i == CHOOSE i \in there : TRUE
           v == heap[n].entries[i].value
<1>1. n \in DOMAIN heap /\ host[h].value = Ref(n) /\ host[h].kind = "iter"
  BY HandleNames DEF IterNext, Iterates, Owns
<1>2. Accounted(heap, host, raws, tables, frozen, over, call) /\ tables \in Seq(TableNames)
      /\ SlotFits(host[h], Len(heap), tables) /\ host \in [Handles -> Slots]
  BY AccountParts DEF Inv, Accounted, HostFits
<1>3. host[h].index \in Nat /\ Len(names) \in Nat
  <2>1. host[h].table \in DOMAIN tables
    BY <1>1, <1>2 DEF SlotFits
  <2>2. tables[host[h].table] \in TableNames
    <3> HIDE DEF TableNames
    <3> QED BY <1>2, <2>1
  <2>3. names \in Seq(Names)
    BY <2>2 DEF TableNames
  <2>4. host[h].index \in Nat
    BY <1>2 DEF Slots
  <2> HIDE DEF names
  <2> QED BY <2>3, <2>4
<1>4. SlotFits(s, Len(heap), tables) /\ s.value = host[h].value
  <2>1. host[h].index \div 2 < Len(names)
    BY DEF IterNext, HasNext
  <2>2. host[h].index + 1 <= 2 * Len(names)
    BY <1>3, <2>1, Half2
  <2> QED BY <1>1, <1>2, <2>2, SlotMoved
<1>5. Accounted(heap, ho2, raws, tables, frozen, over, call)
  BY <1>2, <1>4, IndexMoved
<1>6. h # g /\ host[g].kind = "none"
  BY <1>1 DEF IterNext, IsFree, Owns
<1>7. CASE host[h].index % 2 = 1 /\ there # {}
  <2>1. i \in DOMAIN heap[n].entries
    BY <1>7 DEF Positions
  <2>2. PICK m \in DOMAIN heap : v = Ref(m) /\ heap[m].kind # "freed"
    BY <1>1, <2>1, EntryIsAlive
  <2>3. SlotFits(Owned(Ref(m)), Len(heap), tables) /\ Owned(Ref(m)).value = Ref(m)
    BY AccountParts, OwnedFits DEF Inv
  <2>4. ho2[g].kind = "none"
    BY <1>2, <1>6
  <2>5. Accounted(Dup(heap, Ref(m)), [ho2 EXCEPT ![g] = Owned(Ref(m))], raws, tables, frozen, over, call)
    <3> HIDE DEF ho2
    <3> QED BY <1>5, <2>2, <2>3, <2>4, HandleGained
  <2>6. /\ heap' = Dup(heap, v) /\ host' = [host EXCEPT ![h].index = @ + 1, ![g] = Owned(v)]
        /\ UNCHANGED <<raws, tables, frozen, over, call>>
    BY <1>7 DEF IterNext
  <2>7. [host EXCEPT ![h].index = @ + 1, ![g] = Owned(v)] = [ho2 EXCEPT ![g] = Owned(v)]
    <3> HIDE DEF v
    <3> QED BY <1>2, <1>6
  <2> HIDE DEF ho2, v
  <2> QED BY <2>2, <2>5, <2>6, <2>7 DEF Inv
<1>8. CASE ~(host[h].index % 2 = 1 /\ there # {})
  <2>1. heap' = heap /\ host' = [host EXCEPT ![h].index = @ + 1]
        /\ UNCHANGED <<raws, tables, frozen, over, call>>
    BY <1>8 DEF IterNext
  <2>2. [host EXCEPT ![h].index = @ + 1] = ho2
    BY <1>2
  <2> HIDE DEF ho2
  <2> QED BY <1>5, <2>1, <2>2 DEF Inv
<1> QED BY <1>7, <1>8

(* Scripts.                                                                *)
LEMMA ScriptFreezesKeeps ==
  ASSUME Inv, NEW n \in DOMAIN heap, ScriptFreezes(n), UNCHANGED call
  PROVE  Inv'
BY DEF ScriptFreezes, Inv, Accounted

LEMMA ScriptDeletesKeeps ==
  ASSUME Inv, NEW n \in DOMAIN heap, NEW i, ScriptDeletes(n, i), UNCHANGED call
  PROVE  Inv'
<1> DEFINE entries == heap[n].entries
           e == [j \in 1..Len(entries) - 1 |-> entries[IF j < i THEN j ELSE j + 1]]
           he2 == [heap EXCEPT ![n].entries = e]
<1>0. /\ Sane(heap) /\ DOMAIN heap = 1..Len(heap) /\ HostFits(host, Len(heap), tables)
      /\ Accounted(heap, host, raws, tables, frozen, over, call)
      /\ i \in DOMAIN entries
  BY AccountParts DEF Inv, ScriptDeletes
<1>1. PICK k \in DOMAIN heap : entries[i].value = Ref(k)
  BY <1>0, EntryNames
<1>2. EntriesFit(entries, heap) /\ entries \in Seq(Entries(Refs)) /\ IsFiniteSet(DOMAIN entries)
  BY <1>0, EntryNames DEF EntriesFit
<1>3. e \in Seq(Entries(Refs)) /\ \A v : Count(e, v) = Count(entries, v) - Is(entries[i].value, v)
  <2> HIDE DEF entries
  <2> QED BY <1>0, <1>2, CountOfRest
<1>4. EntriesFit(e, heap)
  <2>1. \A j \in DOMAIN e : \E l \in DOMAIN entries : e[j] = entries[l]
    <3> TAKE j \in DOMAIN e
    <3> DEFINE l == IF j < i THEN j ELSE j + 1
    <3> HIDE DEF entries
    <3>1. l \in DOMAIN entries /\ e[j] = entries[l]
      BY <1>0, <1>2
    <3> QED BY <3>1
  <2> HIDE DEF e, entries
  <2> QED BY <1>2, <1>3, <2>1 DEF EntriesFit
<1>5. Replaced(he2, heap, n, e)
  BY DEF Replaced
<1>6. \A x \in DOMAIN heap : External(host, raws, call)[x] + Is(x, k) + Count(e, Ref(x))
                               = External(host, raws, call)[x] + Count(heap[n].entries, Ref(x))
  <2> TAKE x \in DOMAIN heap
  <2> HIDE DEF e
  <2>1. External(host, raws, call)[x] \in Nat
    <3>1. x \in 1..MaxNodes /\ External(host, raws, call) \in Counts
      BY <1>0, AccountParts
    <3> QED BY <3>1 DEF Counts
  <2>2. Count(entries, Ref(x)) \in Nat
    BY <1>2, CountIsNat
  <2>3. Count(e, Ref(x)) = Count(entries, Ref(x)) - Is(x, k) /\ Is(x, k) \in Nat
    BY <1>1, <1>3, IsOfRefs
  <2> DEFINE c == Count(entries, Ref(x))
  <2> HIDE DEF c
  <2>4. External(host, raws, call)[x] + Is(x, k) + (c - Is(x, k)) = External(host, raws, call)[x] + c
    BY <2>1, <2>2, <2>3 DEF c
  <2> QED BY <2>3, <2>4 DEF c
<1>7. Accounted(FreeValue(he2, Ref(k)), host, raws, tables, frozen, over, call)
  <2> HIDE DEF he2, e, entries
  <2> QED BY <1>0, <1>4, <1>5, <1>6, EntriesMovedAndFreed
<1>8. heap' = FreeValue(he2, Ref(k)) /\ UNCHANGED <<host, raws, tables, frozen, over, call>>
  BY <1>1 DEF ScriptDeletes
<1> QED BY <1>7, <1>8 DEF Inv

(* A new container, and the elements of an array as raw values.            *)
LEMMA CallFitsMore ==
  ASSUME NEW ca, NEW N \in Nat, CallFits(ca, N)
  PROVE  CallFits(ca, N + 1)
<1>1. NodesUpTo(N) \subseteq NodesUpTo(N + 1)
  BY DEF NodesUpTo
<1>2. \A vs \in Seq(NodesUpTo(N)) : vs \in Seq(NodesUpTo(N + 1))
  <2> DEFINE A == NodesUpTo(N)
             B == NodesUpTo(N + 1)
  <2> HIDE DEF A, B
  <2>1. A \subseteq B
    BY <1>1 DEF A, B
  <2>2. \A vs \in Seq(A) : vs \in Seq(B)
    BY <2>1
  <2> QED BY <2>2 DEF A, B
<1> QED BY <1>2 DEF CallFits

LEMMA NotNamed ==
  ASSUME NEW N \in Nat, NEW vs \in Seq(NodesUpTo(N)), NEW n \in Nat, n > N
  PROVE  Times(Ref(n), vs) = 0
<1>1. \A i \in DOMAIN vs : vs[i] # Ref(n)
  <2> TAKE i \in DOMAIN vs
  <2>1. vs[i] \in NodesUpTo(N)
    OBVIOUS
  <2>2. PICK m \in 1..N : vs[i] = Ref(m)
    BY <2>1 DEF NodesUpTo
  <2> QED BY <2>2 DEF Ref, Value
<1>2. {i \in DOMAIN vs : vs[i] = Ref(n)} = {}
  BY <1>1
<1> QED BY <1>2, FS_EmptySet DEF Times

LEMMA NobodyHolds ==
  ASSUME NEW he, NEW ho, NEW ra, NEW ta, NEW fr, NEW ov, NEW ca, Accounted(he, ho, ra, ta, fr, ov, ca),
         NEW n \in 1..MaxNodes, n > Len(he)
  PROVE  External(ho, ra, ca)[n] = 0
<1>1. /\ Len(he) \in Nat /\ HostFits(ho, Len(he), ta) /\ ra \in Counts /\ CallFits(ca, Len(he))
      /\ \A h \in Handles : SlotFits(ho[h], Len(he), ta)
  BY AccountParts
<1>2. ra[n] = 0
  BY DEF Accounted, CountsFit
<1>3. ho \in [Handles -> Slots]
  BY <1>1 DEF HostFits
<1>4. Count(ho, Ref(n)) = 0
  <2>1. \A h \in Handles : ho[h].value # Ref(n)
    <3> TAKE h \in Handles
    <3>1. CASE ho[h].kind = "none"
      BY <1>1, <3>1 DEF SlotFits, Undefined, Ref, Value
    <3>2. CASE ho[h].kind # "none"
      <4>1. PICK m \in 1..Len(he) : ho[h].value = Ref(m)
        BY <1>1, <3>2, SlotNames
      <4>2. m # n
        BY <1>1, <4>1
      <4> QED BY <4>1, <4>2 DEF Ref, Value
    <3> QED BY <3>1, <3>2
  <2>2. DOMAIN ho = Handles
    BY <1>3
  <2> QED BY <2>1, <2>2, CountOfNone
<1>5. Times(Ref(n), ca.argv) = 0 /\ Times(Ref(n), ca.args) = 0
  <2>1. ca.argv \in Seq(NodesUpTo(Len(he))) /\ ca.args \in Seq(NodesUpTo(Len(he))) /\ n \in Nat
    BY <1>1 DEF CallFits
  <2> QED BY <1>1, <2>1, NotNamed
<1> QED BY <1>2, <1>4, <1>5 DEF External

LEMMA CreateKeeps ==
  ASSUME Inv, NEW h \in Handles, NEW kind \in {"object", "array"}, Create(h, kind), UNCHANGED call
  PROVE  Inv'
<1> DEFINE N == Len(heap)
           k == N + 1
           he2 == Append(heap, Node(kind))
           s == Owned(Ref(k))
           ho2 == [host EXCEPT ![h] = s]
           ext == External(host, raws, call)
           ext2 == External(ho2, raws, call)
<1>1. /\ Sane(heap) /\ N \in Nat /\ DOMAIN heap = 1..N /\ N < MaxNodes /\ k \in 1..MaxNodes
      /\ HostFits(host, N, tables) /\ raws \in Counts /\ over \in Counts /\ CallFits(call, N)
      /\ ext \in Counts /\ Balanced(heap, ext, over)
      /\ Accounted(heap, host, raws, tables, frozen, over, call)
  <2>1. N < MaxNodes /\ MaxNodes \in Nat
    BY OwnedBounds DEF Create
  <2>2. N \in Nat
    BY AccountParts DEF Inv
  <2>3. k \in 1..MaxNodes
    <3> HIDE DEF N
    <3> QED BY <2>1, <2>2
  <2> QED BY <2>1, <2>2, <2>3, AccountParts DEF Inv
<1>2. /\ Sane(he2) /\ Len(he2) = k /\ DOMAIN he2 = DOMAIN heap \cup {k}
      /\ \A x \in DOMAIN heap : he2[x] = heap[x]
      /\ he2[k].kind = kind /\ he2[k].refs = 1
      /\ \A x \in DOMAIN he2 : HeldInHeap(he2, x) = HeldInHeap(heap, x)
      /\ HeldInHeap(heap, k) = 0
  <2>1. Sane(heap) /\ Grows(he2, heap, kind)
    BY <1>1 DEF Grows
  <2> HIDE DEF he2, s, ho2, ext, ext2
  <2>2. /\ Sane(he2) /\ Len(he2) = Len(heap) + 1 /\ DOMAIN he2 = DOMAIN heap \cup {Len(heap) + 1}
        /\ \A x \in DOMAIN heap : he2[x] = heap[x]
        /\ he2[Len(heap) + 1].kind = kind /\ he2[Len(heap) + 1].refs = 1
        /\ \A x \in DOMAIN he2 : HeldInHeap(he2, x) = HeldInHeap(heap, x)
        /\ HeldInHeap(heap, Len(heap) + 1) = 0
    <3> HIDE DEF N, k
    <3> QED BY <2>1, NodeAdded
  <2> QED BY <2>2
<1> HIDE DEF he2, N, s
<1>3. SlotFits(s, k, tables) /\ s.value = Ref(k)
  <2>1. k \in Nat /\ k \in 1..k
    BY <1>1
  <2> QED BY <2>1, OwnedFits DEF s
<1>4. HostFits(host, k, tables)
  <2>1. k \in Nat /\ N <= k
    BY <1>1
  <2> HIDE DEF k
  <2> QED BY <1>1, <2>1, HostFitsMore
<1>5. CallFits(call, k)
  BY <1>1, CallFitsMore
<1>6. HostFits(ho2, k, tables)
  BY <1>3, <1>4, HostFitsChanged
<1>7. ext2 \in Counts
  <2>1. ho2 \in [Handles -> Slots]
    BY <1>6 DEF HostFits
  <2> HIDE DEF ho2
  <2> QED BY <1>1, <2>1, ExternalCounts
<1>8. \A x \in 1..MaxNodes : ext2[x] = ext[x] + Is(x, k) /\ ext[x] \in Nat
  <2> TAKE x \in 1..MaxNodes
  <2>1. /\ ext[x] \in Nat /\ ext2[x] \in Nat
        /\ ext2[x] + Is(host[h].value, Ref(x)) = ext[x] + Is(s.value, Ref(x))
    <3> HIDE DEF k
    <3> QED BY <1>1, <1>3, <1>4, <1>5, ExternalChanged
  <2>2. host[h].value = Undefined
    BY <1>1, AccountParts DEF Create, IsFree, Owns, SlotFits
  <2> HIDE DEF ext, ext2, k
  <2> QED BY <1>3, <2>1, <2>2, IsOfRefs
<1>9. ext[k] = 0 /\ over[k] = 0
  <2>1. k > Len(heap)
    BY <1>1 DEF N
  <2>2. ext[k] = 0
    <3> HIDE DEF k
    <3> QED BY <1>1, <2>1, NobodyHolds
  <2>3. over[k] = 0
    BY <1>1, <2>1 DEF Accounted, CountsFit
  <2> QED BY <2>2, <2>3
<1>10. Balanced(he2, ext2, over)
  <2> SUFFICES ASSUME NEW x \in DOMAIN he2
               PROVE  Fits(he2[x].kind, he2[x].refs, over[x], ext2[x], HeldInHeap(he2, x))
    BY DEF Balanced
  <2> HIDE DEF ext, ext2
  <2>1. CASE x = k
    <3>1. Is(k, k) = 1
      BY DEF Is
    <3>2. ext2[k] = 1 /\ HeldInHeap(he2, k) = 0
      BY <1>1, <1>2, <1>8, <1>9, <3>1
    <3>3. he2[k].kind # "freed"
      BY <1>2
    <3> HIDE DEF k
    <3> QED BY <1>2, <1>9, <2>1, <3>2, <3>3 DEF Fits
  <2>2. CASE x # k
    <3>1. x \in DOMAIN heap /\ x \in 1..MaxNodes
      <4>1. x \in DOMAIN heap
        <5> HIDE DEF k
        <5> QED BY <1>2, <2>2
      <4>2. x \in 1..N /\ MaxNodes \in Nat
        BY <1>1, <4>1, OwnedBounds
      <4> QED BY <1>1, <4>1, <4>2
    <3>2. Fits(heap[x].kind, heap[x].refs, over[x], ext[x], HeldInHeap(heap, x))
      BY <1>1, <3>1 DEF Balanced
    <3>3. ext2[x] = ext[x]
      BY <1>8, <2>2, <3>1 DEF Is
    <3> QED BY <1>2, <3>1, <3>2, <3>3
  <2> QED BY <2>1, <2>2
<1>11. /\ CountsFit(raws, k) /\ CountsFit(over, k) /\ frozen \subseteq DOMAIN he2 /\ k <= MaxNodes
       /\ \A n \in 1..MaxNodes : raws[n] <= MaxRaw /\ tables \in Seq(TableNames)
  <2> HIDE DEF TableNames
  <2>1. /\ CountsFit(raws, N) /\ CountsFit(over, N) /\ frozen \subseteq DOMAIN heap
        /\ (\A n \in 1..MaxNodes : raws[n] <= MaxRaw) /\ tables \in Seq(TableNames)
    BY <1>1 DEF Accounted, N
  <2>2. CountsFit(raws, k) /\ CountsFit(over, k)
    BY <1>1, <2>1 DEF CountsFit
  <2> QED BY <1>1, <1>2, <2>1, <2>2
<1>12. Accounted(he2, ho2, raws, tables, frozen, over, call)
  <2>1. tables \in Seq(TableNames)
    BY <1>1 DEF Accounted
  <2> HIDE DEF ho2, k, TableNames
  <2> QED BY <1>2, <1>5, <1>6, <1>10, <1>11, <2>1 DEF Accounted, ext2
<1>13. /\ heap' = he2 /\ host' = ho2 /\ UNCHANGED <<raws, tables, frozen, over, call>>
  BY DEF Create, he2, N, s
<1> QED BY <1>12, <1>13 DEF Inv

LEMMA RawElementsKeeps ==
  ASSUME Inv, Sound, NEW h \in Handles, RawElements(h), UNCHANGED call
  PROVE  Inv'
<1> DEFINE w == NodeOf(h)
           entries == heap[w].entries
           T(n) == Count(entries, Ref(n))
           he2 == [n \in DOMAIN heap |-> [heap[n] EXCEPT !.refs = @ + T(n)]]
           ra2 == [n \in DOMAIN raws |-> IF n \in DOMAIN heap THEN raws[n] + T(n) ELSE raws[n]]
           ext == External(host, raws, call)
           ext2 == External(host, ra2, call)
<1>0. w \in DOMAIN heap
  BY HandleNames DEF RawElements, Owns
<1>1. /\ Sane(heap) /\ DOMAIN heap = 1..Len(heap) /\ Len(heap) \in Nat /\ Len(heap) <= MaxNodes
      /\ HostFits(host, Len(heap), tables) /\ raws \in Counts /\ over \in Counts /\ CallFits(call, Len(heap))
      /\ ext \in Counts /\ Balanced(heap, ext, over) /\ \A n \in DOMAIN heap : n \in 1..MaxNodes
      /\ Accounted(heap, host, raws, tables, frozen, over, call)
  BY AccountParts DEF Inv
<1>2. IsFiniteSet(DOMAIN entries)
  BY <1>0, <1>1, EntryNames
<1>3. \A n : T(n) \in Nat
  <2> HIDE DEF entries
  <2> QED BY <1>2, CountIsNat
<1>4. ASSUME NEW n \in DOMAIN heap, T(n) # 0
      PROVE  heap[n].kind # "freed"
  <2>1. PICK i \in DOMAIN entries : entries[i].value = Ref(n)
    <3>1. CASE \A i \in DOMAIN entries : entries[i].value # Ref(n)
      <4> HIDE DEF entries
      <4> QED BY <1>4, <3>1, CountOfNone
    <3> QED BY <3>1
  <2>2. PICK m \in DOMAIN heap : entries[i].value = Ref(m) /\ heap[m].kind # "freed"
    BY <1>0, <2>1, EntryIsAlive
  <2> QED BY <2>1, <2>2 DEF Ref, Value
<1> HIDE DEF entries, w
<1>5. /\ heap' = he2 /\ raws' = ra2 /\ UNCHANGED <<host, tables, frozen, over, call>>
      /\ \A n \in DOMAIN heap : raws[n] + T(n) <= MaxRaw
  BY DEF RawElements, Count, entries, w
<1> HIDE DEF T
<1>6. \A n \in DOMAIN heap :
        /\ he2[n] \in Nodes(Refs) /\ he2[n].kind = heap[n].kind /\ he2[n].entries = heap[n].entries
        /\ he2[n].proto = heap[n].proto /\ he2[n].refs = heap[n].refs + T(n)
  <2> TAKE n \in DOMAIN heap
  <2>1. heap[n] \in Nodes(Refs) /\ heap[n].refs + T(n) \in Int
    BY <1>1, <1>3, SaneNodes
  <2>2. he2[n] = [heap[n] EXCEPT !.refs = heap[n].refs + T(n)]
    OBVIOUS
  <2> HIDE DEF he2
  <2> QED BY <2>1, <2>2, OtherRefs
<1>7. DOMAIN he2 = DOMAIN heap /\ he2 = [n \in DOMAIN heap |-> he2[n]]
  OBVIOUS
<1> HIDE DEF he2
<1>8. he2 \in HeapOf(Refs) /\ Len(he2) = Len(heap)
  <2>1. he2 \in [1..Len(heap) -> Nodes(Refs)]
    BY <1>1, <1>6, <1>7
  <2> QED BY <1>1, <2>1 DEF HeapOf
<1>9. Sane(he2)
  BY <1>1, <1>6, <1>7, <1>8 DEF Sane
<1>10. \A n \in 1..MaxNodes :
         /\ raws[n] \in Nat
         /\ ra2[n] = IF n \in DOMAIN heap THEN raws[n] + T(n) ELSE raws[n]
         /\ ra2[n] \in Nat
  <2> TAKE n \in 1..MaxNodes
  <2>1. raws[n] \in Nat /\ n \in DOMAIN raws
    BY <1>1 DEF Counts
  <2> QED BY <1>3, <2>1
<1>11. ra2 \in Counts
  <2>1. DOMAIN ra2 = 1..MaxNodes
    BY <1>1 DEF Counts
  <2> QED BY <1>10, <2>1 DEF Counts
<1> HIDE DEF ra2
<1>12. CountsFit(ra2, Len(heap)) /\ \A n \in 1..MaxNodes : ra2[n] <= MaxRaw
  <2>1. /\ \A n \in 1..MaxNodes : n > Len(heap) => raws[n] = 0
        /\ \A n \in 1..MaxNodes : raws[n] <= MaxRaw
    BY <1>1 DEF Accounted, CountsFit
  <2>2. \A n \in 1..MaxNodes : n > Len(heap) => ra2[n] = 0
    BY <1>1, <1>10, <2>1
  <2>3. \A n \in 1..MaxNodes : ra2[n] <= MaxRaw
    BY <1>5, <1>10, <2>1
  <2> QED BY <1>11, <2>2, <2>3 DEF CountsFit
<1>13. \A n \in DOMAIN heap : ext2[n] = ext[n] + T(n) /\ ext[n] \in Nat /\ ext2[n] \in Nat
  <2> TAKE n \in DOMAIN heap
  <2>1. host \in [Handles -> Slots] /\ n \in 1..MaxNodes
    BY <1>1 DEF HostFits
  <2>2. /\ ext2[n] + raws[n] = ext[n] + ra2[n]
        /\ ext2[n] \in Nat /\ ext[n] \in Nat /\ raws[n] \in Nat /\ ra2[n] \in Nat
    BY <1>1, <1>11, <2>1, ExternalOfRaws
  <2> HIDE DEF ext, ext2
  <2> QED BY <1>3, <1>10, <2>1, <2>2
<1> HIDE DEF ext, ext2
<1>14. Balanced(he2, ext2, over)
  <2> SUFFICES ASSUME NEW n \in DOMAIN heap
               PROVE  Fits(he2[n].kind, he2[n].refs, over[n], ext2[n], HeldInHeap(he2, n))
    BY <1>7 DEF Balanced
  <2>1. HeldInHeap(he2, n) = HeldInHeap(heap, n)
    BY <1>6, <1>7, HeldSame
  <2>2. HeldInHeap(heap, n) \in Nat
    <3>1. FiniteHeap(heap)
      BY <1>1, SaneNodes
    <3> QED BY <3>1, HeldChanges
  <2>3. heap[n].refs \in Int /\ over[n] \in Nat
    BY <1>1, SaneNodes DEF Counts
  <2>4. Fits(heap[n].kind, heap[n].refs, over[n], ext[n], HeldInHeap(heap, n))
    BY <1>1 DEF Balanced
  <2>5. heap[n].kind # "freed" \/ T(n) = 0
    BY <1>4 DEF T
  <2>6. Fits(heap[n].kind, heap[n].refs + T(n), over[n], ext2[n], HeldInHeap(heap, n))
    BY <1>3, <1>13, <2>2, <2>3, <2>4, <2>5, FitsMore
  <2> QED BY <1>6, <2>1, <2>6
<1>15. Accounted(he2, host, ra2, tables, frozen, over, call)
  <2>1. tables \in Seq(TableNames) /\ frozen \subseteq DOMAIN heap /\ CountsFit(over, Len(heap))
    BY <1>1 DEF Accounted
  <2> HIDE DEF TableNames
  <2> QED BY <1>1, <1>7, <1>8, <1>9, <1>12, <1>14, <2>1 DEF Accounted, ext2
<1> QED BY <1>5, <1>15 DEF Inv

-----------------------------------------------------------------------------
(* exec_callback.                                                          *)

(* A call begins or ends: so do the references of its arguments.           *)
LEMMA ExternalOfCalls ==
  ASSUME NEW ho \in [Handles -> Slots], NEW ra \in Counts, NEW N, NEW ca, CallFits(ca, N),
         NEW ca2, CallFits(ca2, N), NEW n \in 1..MaxNodes
  PROVE  /\ External(ho, ra, ca2)[n] + Times(Ref(n), ca.argv) + Times(Ref(n), ca.args)
              = External(ho, ra, ca)[n] + Times(Ref(n), ca2.argv) + Times(Ref(n), ca2.args)
         /\ External(ho, ra, ca2)[n] \in Nat /\ External(ho, ra, ca)[n] \in Nat
         /\ Times(Ref(n), ca.argv) \in Nat /\ Times(Ref(n), ca.args) \in Nat
         /\ Times(Ref(n), ca2.argv) \in Nat /\ Times(Ref(n), ca2.args) \in Nat
<1>1. /\ External(ho, ra, ca)[n] = Count(ho, Ref(n)) + ra[n] + Times(Ref(n), ca.argv) + Times(Ref(n), ca.args)
      /\ External(ho, ra, ca2)[n] = Count(ho, Ref(n)) + ra[n] + Times(Ref(n), ca2.argv) + Times(Ref(n), ca2.args)
  BY DEF External
<1>2. /\ Count(ho, Ref(n)) \in Nat /\ Times(Ref(n), ca.argv) \in Nat /\ Times(Ref(n), ca.args) \in Nat
      /\ ra[n] \in Nat
  BY ExternalCounts
<1>3. Times(Ref(n), ca2.argv) \in Nat /\ Times(Ref(n), ca2.args) \in Nat
  BY ExternalCounts
<1> QED BY <1>1, <1>2, <1>3

LEMMA ArgumentsNamed ==
  ASSUME NEW ca, NEW N, CallFits(ca, N)
  PROVE  /\ Len(ca.argv) \in Nat
         /\ \A k \in 1..Len(ca.argv) : \E m \in 1..N : ca.argv[k] = Ref(m)
         /\ \A v : Times(v, ca.argv) = TimesIn(ca.argv, 1, Len(ca.argv), v)
<1>1. ca.argv \in Seq(NodesUpTo(N))
  BY DEF CallFits
<1>2. Len(ca.argv) \in Nat /\ \A k \in 1..Len(ca.argv) : ca.argv[k] \in NodesUpTo(N)
  BY <1>1
<1>3. \A v : Times(v, ca.argv) = TimesIn(ca.argv, 1, Len(ca.argv), v)
  BY <1>1, TimesIsTimesIn
<1> QED BY <1>2, <1>3 DEF NodesUpTo

LEMMA NoCallFits ==
  ASSUME NEW N
  PROVE  CallFits(NoCall, N) /\ NoCall.argv = <<>> /\ NoCall.args = <<>>
BY DEF CallFits, NoCall

LEMMA ExternalOfNoCall ==
  ASSUME NEW ho \in [Handles -> Slots], NEW ra \in Counts, NEW N, NEW ca, CallFits(ca, N), NEW n \in 1..MaxNodes
  PROVE  /\ External(ho, ra, ca)[n] = External(ho, ra, NoCall)[n] + Times(Ref(n), ca.argv) + Times(Ref(n), ca.args)
         /\ External(ho, ra, NoCall)[n] \in Nat /\ Times(Ref(n), ca.argv) \in Nat
         /\ Times(Ref(n), ca.args) \in Nat
<1> DEFINE e == External(ho, ra, ca)[n]
           e2 == External(ho, ra, NoCall)[n]
           a == Times(Ref(n), ca.argv)
           b == Times(Ref(n), ca.args)
           a2 == Times(Ref(n), NoCall.argv)
           b2 == Times(Ref(n), NoCall.args)
<1>1. CallFits(NoCall, N) /\ NoCall.argv = <<>> /\ NoCall.args = <<>>
  BY NoCallFits
<1>2. a2 = 0 /\ b2 = 0
  BY <1>1, NoTimes
<1>3. CallFits(NoCall, N)
  BY <1>1
<1>4. /\ e2 + a + b = e + a2 + b2 /\ e2 \in Nat /\ e \in Nat
      /\ a \in Nat /\ b \in Nat
  BY <1>3, ExternalOfCalls
<1> HIDE DEF e, e2, a, b, a2, b2
<1>5. e = e2 + a + b
  BY <1>2, <1>4
<1> QED BY <1>4, <1>5 DEF e, e2, a, b

LEMMA ArgumentsFreed ==
  ASSUME NEW he, Sane(he), Len(he) <= MaxNodes, NEW ca, CallFits(ca, Len(he)),
         NEW ext \in Counts, NEW ext2 \in Counts, NEW ov \in Counts, Balanced(he, ext, ov),
         \A n \in DOMAIN he : ext[n] = ext2[n] + Times(Ref(n), ca.argv)
  PROVE  /\ Sane(FreeAll(he, ca.argv)) /\ Len(FreeAll(he, ca.argv)) = Len(he)
         /\ Balanced(FreeAll(he, ca.argv), ext2, ov)
<1> DEFINE vs == ca.argv
<1>1. DOMAIN he = 1..Len(he)
  BY SaneNodes
<1>2. /\ Len(vs) \in Nat /\ \A k \in 1..Len(vs) : \E m \in DOMAIN he : vs[k] = Ref(m)
      /\ \A v : Times(v, vs) = TimesIn(vs, 1, Len(vs), v)
  <2>1. /\ Len(vs) \in Nat /\ \A k \in 1..Len(vs) : \E m \in 1..Len(he) : vs[k] = Ref(m)
        /\ \A v : Times(v, vs) = TimesIn(vs, 1, Len(vs), v)
    BY ArgumentsNamed
  <2> HIDE DEF vs
  <2> QED BY <1>1, <2>1
<1>3. \A n \in DOMAIN he : ext[n] = ext2[n] + TimesIn(vs, 1, Len(vs), Ref(n))
  BY <1>2
<1> HIDE DEF vs
<1>4. Sane(FreeAll(he, vs)) /\ Len(FreeAll(he, vs)) = Len(he) /\ Balanced(FreeAll(he, vs), ext2, ov)
  BY <1>2, <1>3, FreeAllBalanced
<1> QED BY <1>4 DEF vs

LEMMA ArgumentsOwned ==
  ASSUME NEW he, Sane(he), Len(he) <= MaxNodes, NEW ca, CallFits(ca, Len(he)),
         \A k \in 1..Len(ca.argv) : he[ca.argv[k].data].kind # "freed",
         NEW ext \in Counts, NEW ext2 \in Counts, NEW ov \in Counts, Balanced(he, ext, ov),
         \A n \in DOMAIN he : ext2[n] = ext[n] + Times(Ref(n), ca.argv)
  PROVE  /\ Sane(DupAll(he, ca.argv)) /\ Len(DupAll(he, ca.argv)) = Len(he)
         /\ Balanced(DupAll(he, ca.argv), ext2, ov)
         /\ \A k \in 1..Len(ca.argv) : DupAll(he, ca.argv)[ca.argv[k].data].kind # "freed"
<1> DEFINE vs == ca.argv
<1>1. DOMAIN he = 1..Len(he)
  BY SaneNodes
<1>2. /\ Len(vs) \in Nat /\ \A k \in 1..Len(vs) : \E m \in DOMAIN he : vs[k] = Ref(m)
      /\ \A v : Times(v, vs) = TimesIn(vs, 1, Len(vs), v)
  <2>1. /\ Len(vs) \in Nat /\ \A k \in 1..Len(vs) : \E m \in 1..Len(he) : vs[k] = Ref(m)
        /\ \A v : Times(v, vs) = TimesIn(vs, 1, Len(vs), v)
    BY ArgumentsNamed
  <2> HIDE DEF vs
  <2> QED BY <1>1, <2>1
<1>3. \A n \in DOMAIN he : ext2[n] = ext[n] + TimesIn(vs, 1, Len(vs), Ref(n))
  BY <1>2
<1>4. \A k \in 1..Len(vs) : \E m \in DOMAIN he : vs[k] = Ref(m) /\ he[m].kind # "freed" /\ vs[k].data = m
  BY <1>2 DEF Ref, Value
<1> HIDE DEF vs
<1>5. /\ Sane(DupAll(he, vs)) /\ Len(DupAll(he, vs)) = Len(he) /\ Balanced(DupAll(he, vs), ext2, ov)
      /\ \A n \in DOMAIN he : DupAll(he, vs)[n].kind = he[n].kind
  BY <1>2, <1>3, <1>4, DupAllBalanced
<1>6. \A k \in 1..Len(vs) : DupAll(he, vs)[vs[k].data].kind # "freed"
  BY <1>4, <1>5
<1> QED BY <1>5, <1>6 DEF vs

(* The arguments of the engine are given back at the end of a call.        *)
LEMMA CallEnds ==
  ASSUME NEW he, NEW ho, NEW ra, NEW ta, NEW fr, NEW ov, NEW ca, Accounted(he, ho, ra, ta, fr, ov, ca),
         ca.args = <<>>
  PROVE  Accounted(FreeAll(he, ca.argv), ho, ra, ta, fr, ov, NoCall)
<1> DEFINE ext == External(ho, ra, ca)
           ext2 == External(ho, ra, NoCall)
           he2 == FreeAll(he, ca.argv)
<1>1. /\ Sane(he) /\ DOMAIN he = 1..Len(he) /\ Len(he) <= MaxNodes
      /\ ra \in Counts /\ ov \in Counts /\ CallFits(ca, Len(he)) /\ HostFits(ho, Len(he), ta)
      /\ ext \in Counts /\ Balanced(he, ext, ov) /\ \A n \in DOMAIN he : n \in 1..MaxNodes
  BY AccountParts
<1>2. ho \in [Handles -> Slots] /\ CallFits(NoCall, Len(he)) /\ NoCall.argv = <<>> /\ NoCall.args = <<>>
  BY <1>1, NoCallFits DEF HostFits
<1>3. ext2 \in Counts
  BY <1>1, <1>2, ExternalCounts
<1>4. \A n \in DOMAIN he : ext[n] = ext2[n] + Times(Ref(n), ca.argv)
  <2> TAKE n \in DOMAIN he
  <2>1. n \in 1..MaxNodes /\ ho \in [Handles -> Slots] /\ ra \in Counts /\ CallFits(ca, Len(he))
    BY <1>1, <1>2
  <2> HIDE DEF ext, ext2, he2
  <2>2. /\ External(ho, ra, ca)[n] = External(ho, ra, NoCall)[n] + Times(Ref(n), ca.argv) + Times(Ref(n), ca.args)
        /\ External(ho, ra, NoCall)[n] \in Nat /\ Times(Ref(n), ca.argv) \in Nat
    BY <2>1, ExternalOfNoCall
  <2>3. Times(Ref(n), ca.args) = 0
    BY NoTimes
  <2>4. External(ho, ra, ca)[n] = External(ho, ra, NoCall)[n] + Times(Ref(n), ca.argv)
    BY <2>2, <2>3
  <2> QED BY <2>4 DEF ext, ext2
<1> HIDE DEF ext, ext2
<1>5. Sane(he2) /\ Len(he2) = Len(he) /\ Balanced(he2, ext2, ov)
  BY <1>1, <1>3, <1>4, ArgumentsFreed
<1> HIDE DEF he2
<1>6. DOMAIN he2 = DOMAIN he
  BY <1>1, <1>5, SaneNodes
<1>7. Accounted(he2, ho, ra, ta, fr, ov, NoCall)
  BY <1>1, <1>2, <1>5, <1>6 DEF Accounted, ext2
<1> QED BY <1>7 DEF he2

LEMMA CallbackThrowsKeeps ==
  ASSUME Inv, CallbackThrows
  PROVE  Inv'
<1>1. call.args = <<>>
  BY AccountParts DEF Inv, CallbackThrows, Running, CallFits
<1>2. Accounted(FreeAll(heap, call.argv), host, raws, tables, frozen, over, NoCall)
  BY <1>1, CallEnds DEF Inv
<1> QED BY <1>2 DEF Inv, CallbackThrows

LEMMA CallbackReturnsKeeps ==
  ASSUME Inv, NEW h \in Handles, NEW n, CallbackReturns(h, n)
  PROVE  Inv'
<1> DEFINE m == NodeOf(h)
           i == Len(heap[n].entries) + 1
           ho2 == [host EXCEPT ![h] = Empty]
<1>1. m \in DOMAIN heap /\ host[h].value = Ref(m)
  BY HandleNames DEF CallbackReturns, Owns
<1> HIDE DEF m
<1>2. call.args = <<>>
  BY AccountParts DEF Inv, CallbackReturns, Running, CallFits
<1>3. PICK kept : /\ heap' = FreeAll(kept, call.argv)
                  /\ kept = FreeValue(heap, Ref(m)) \/ (n \in DOMAIN heap /\ kept = Put(n, i, None, Ref(m)))
  BY <1>1 DEF CallbackReturns
<1>4. Accounted(kept, ho2, raws, tables, frozen, over, call)
  <2>1. CASE kept = FreeValue(heap, Ref(m))
    BY <1>1, <2>1, HandleLost DEF Inv
  <2>2. CASE n \in DOMAIN heap /\ kept = Put(n, i, None, Ref(m))
    <3>1. i \notin DOMAIN heap[n].entries
      <4>1. heap[n].entries \in Seq(Entries(Refs))
        BY <2>2, AccountParts, EntryNames DEF Inv, EntriesFit
      <4> QED BY <4>1
    <3> HIDE DEF i
    <3> QED BY <1>1, <2>2, <3>1, PutAppends
  <2> QED BY <1>3, <2>1, <2>2
<1>5. Accounted(FreeAll(kept, call.argv), ho2, raws, tables, frozen, over, NoCall)
  <2> HIDE DEF ho2
  <2> QED BY <1>2, <1>4, CallEnds
<1> QED BY <1>3, <1>5 DEF Inv, CallbackReturns

LEMMA ClosureRunsKeeps ==
  ASSUME Inv, ClosureRuns
  PROVE  Inv'
<1>1. CallFits(call, Len(heap)) /\ call.args = <<>>
  BY AccountParts DEF Inv, ClosureRuns
<1>2. call'.argv = call.argv /\ call'.args = call.args /\ call'.status = "running"
  BY DEF ClosureRuns
<1>3. CallFits(call', Len(heap))
  BY <1>1, <1>2 DEF CallFits
<1>4. External(host, raws, call') = External(host, raws, call)
  BY <1>2 DEF External
<1> QED BY <1>3, <1>4 DEF ClosureRuns, ownVars, Inv, Accounted

(* A call that holds nothing, and one whose next argument is converted.    *)
Idle(ca) == ca.argv = <<>> /\ ca.args = <<>>
ArgumentMoves(ca, ca2) ==
  /\ ca.args # <<>>
  /\ ca2.status = ca.status /\ ca2.argv = ca.argv /\ ca2.args = Tail(ca.args)

LEMMA ArgumentsOwnedTwice ==
  ASSUME NEW he, Sane(he), Len(he) <= MaxNodes, NEW ca, CallFits(ca, Len(he)),
         \A k \in 1..Len(ca.argv) : he[ca.argv[k].data].kind # "freed",
         NEW ext \in Counts, NEW ext2 \in Counts, NEW ov \in Counts, Balanced(he, ext, ov),
         \A n \in 1..MaxNodes :
           /\ ext[n] \in Nat /\ Times(Ref(n), ca.argv) \in Nat
           /\ ext2[n] = ext[n] + Times(Ref(n), ca.argv) + Times(Ref(n), ca.argv)
  PROVE  /\ Sane(OwnArguments(he, ca.argv)) /\ Len(OwnArguments(he, ca.argv)) = Len(he)
         /\ Balanced(OwnArguments(he, ca.argv), ext2, ov)
<1> DEFINE mid == [n \in 1..MaxNodes |-> ext[n] + Times(Ref(n), ca.argv)]
           once == DupAll(he, ca.argv)
           twice == DupAll(once, ca.argv)
<1>1. \A n \in DOMAIN he : n \in 1..MaxNodes
  BY SaneNodes, OwnedBounds
<1>2. mid \in Counts
  BY DEF Counts
<1>3. \A n \in DOMAIN he : mid[n] = ext[n] + Times(Ref(n), ca.argv)
  BY <1>1
<1>4. \A n \in DOMAIN he : ext2[n] = mid[n] + Times(Ref(n), ca.argv)
  BY <1>1
<1> HIDE DEF mid
<1>5. /\ Sane(once) /\ Len(once) = Len(he) /\ Balanced(once, mid, ov)
      /\ \A k \in 1..Len(ca.argv) : once[ca.argv[k].data].kind # "freed"
  BY <1>2, <1>3, ArgumentsOwned
<1> HIDE DEF once
<1>6. DOMAIN once = DOMAIN he /\ Len(once) <= MaxNodes /\ CallFits(ca, Len(once))
  BY <1>5, SaneNodes
<1>7. Sane(twice) /\ Len(twice) = Len(once) /\ Balanced(twice, ext2, ov)
  BY <1>2, <1>4, <1>5, <1>6, ArgumentsOwned
<1> QED BY <1>5, <1>7 DEF once, OwnArguments

(* A call holds its arguments twice: the engine, and exec_callback.        *)
LEMMA CallBegins ==
  ASSUME NEW he, NEW ho, NEW ra, NEW ta, NEW fr, NEW ov, NEW ca, Accounted(he, ho, ra, ta, fr, ov, ca),
         Idle(ca), NEW ca2, CallFits(ca2, Len(he)), ca2.args = ca2.argv,
         \A k \in 1..Len(ca2.argv) : he[ca2.argv[k].data].kind # "freed"
  PROVE  Accounted(OwnArguments(he, ca2.argv), ho, ra, ta, fr, ov, ca2)
<1> DEFINE ext == External(ho, ra, ca)
           ext2 == External(ho, ra, ca2)
<1>1. /\ Sane(he) /\ DOMAIN he = 1..Len(he) /\ Len(he) <= MaxNodes
      /\ ra \in Counts /\ ov \in Counts /\ CallFits(ca, Len(he)) /\ HostFits(ho, Len(he), ta)
      /\ ext \in Counts /\ Balanced(he, ext, ov) /\ \A n \in DOMAIN he : n \in 1..MaxNodes
  BY AccountParts
<1>2. ho \in [Handles -> Slots]
  BY <1>1 DEF HostFits
<1>3. ext2 \in Counts
  BY <1>1, <1>2, ExternalCounts
<1>4. \A n \in 1..MaxNodes :
        /\ ext[n] \in Nat /\ ext2[n] \in Nat /\ Times(Ref(n), ca2.argv) \in Nat
        /\ ext2[n] = ext[n] + Times(Ref(n), ca2.argv) + Times(Ref(n), ca2.argv)
  <2> TAKE n \in 1..MaxNodes
  <2>1. /\ n \in 1..MaxNodes /\ ho \in [Handles -> Slots] /\ ra \in Counts
        /\ CallFits(ca, Len(he)) /\ CallFits(ca2, Len(he))
    BY <1>1, <1>2
  <2>2. /\ ext2[n] + Times(Ref(n), ca.argv) + Times(Ref(n), ca.args)
             = ext[n] + Times(Ref(n), ca2.argv) + Times(Ref(n), ca2.args)
        /\ ext2[n] \in Nat /\ ext[n] \in Nat /\ Times(Ref(n), ca2.argv) \in Nat
    BY <2>1, ExternalOfCalls
  <2>3. Times(Ref(n), ca.argv) = 0 /\ Times(Ref(n), ca.args) = 0
    BY NoTimes DEF Idle
  <2> HIDE DEF ext, ext2
  <2> QED BY <2>2, <2>3
<1> HIDE DEF ext, ext2
<1>5. ext2 \in Counts /\ CallFits(ca2, Len(he))
  BY <1>3
<1> DEFINE he2 == OwnArguments(he, ca2.argv)
<1>6. Sane(he2) /\ Len(he2) = Len(he) /\ Balanced(he2, ext2, ov)
  BY <1>1, <1>4, <1>5, ArgumentsOwnedTwice
<1> HIDE DEF he2
<1>7. DOMAIN he2 = DOMAIN he
  BY <1>1, <1>6, SaneNodes
<1>8. Accounted(he2, ho, ra, ta, fr, ov, ca2)
  BY <1>5, <1>6, <1>7 DEF Accounted, ext2
<1> QED BY <1>8 DEF he2

LEMMA CallbackEntersKeeps ==
  ASSUME Inv, NEW argv, argv \in Seq(NodesUpTo(Len(heap))), CallbackEnters(argv)
  PROVE  Inv'
<1> DEFINE ca2 == [status |-> "converting", argv |-> argv, args |-> argv]
<1>1. CallFits(call, Len(heap)) /\ call.status = "none"
  BY AccountParts DEF Inv, CallbackEnters, Calling
<1>2. Idle(call)
  BY <1>1 DEF CallFits, Idle
<1>3. CallFits(ca2, Len(heap)) /\ ca2.args = ca2.argv /\ ca2.argv = argv
  BY DEF CallFits
<1>4. \A k \in 1..Len(argv) : heap[argv[k].data].kind # "freed"
  BY DEF CallbackEnters, Alive
<1> HIDE DEF ca2
<1>5. Accounted(OwnArguments(heap, argv), host, raws, tables, frozen, over, ca2)
  <2>1. Accounted(OwnArguments(heap, ca2.argv), host, raws, tables, frozen, over, ca2)
    BY <1>2, <1>3, <1>4, CallBegins DEF Inv
  <2> QED BY <1>3, <2>1
<1> QED BY <1>5 DEF Inv, CallbackEnters, ca2

(* An argument goes from the call to a handle.                             *)
LEMMA ArgumentTaken ==
  ASSUME NEW he, NEW ho, NEW ra, NEW ta, NEW fr, NEW ov, NEW ca, Accounted(he, ho, ra, ta, fr, ov, ca),
         ca.status = "converting", NEW ca2, ArgumentMoves(ca, ca2),
         NEW g \in Handles, ho[g].kind = "none",
         NEW s, SlotFits(s, Len(he), ta), s.value = Head(ca.args)
  PROVE  Accounted(he, [ho EXCEPT ![g] = s], ra, ta, fr, ov, ca2)
<1> DEFINE ho2 == [ho EXCEPT ![g] = s]
           ext == External(ho, ra, ca)
           ext2 == External(ho2, ra, ca2)
<1>1. /\ Sane(he) /\ Len(he) \in Nat /\ DOMAIN he = 1..Len(he) /\ Len(he) <= MaxNodes
      /\ ra \in Counts /\ ov \in Counts /\ CallFits(ca, Len(he)) /\ HostFits(ho, Len(he), ta)
      /\ ext \in Counts /\ Balanced(he, ext, ov) /\ \A n \in DOMAIN he : n \in 1..MaxNodes
  BY AccountParts
<1>2. /\ ca.args \in Seq(NodesUpTo(Len(he))) /\ Len(ca.args) <= Len(ca.argv)
      /\ ca.argv \in Seq(NodesUpTo(Len(he)))
  BY <1>1 DEF CallFits
<1>3. /\ Head(ca.args) \in NodesUpTo(Len(he)) /\ Tail(ca.args) \in Seq(NodesUpTo(Len(he)))
      /\ Len(Tail(ca.args)) <= Len(ca.argv)
  BY <1>2 DEF ArgumentMoves
<1>4. CallFits(ca2, Len(he))
  BY <1>2, <1>3 DEF CallFits, ArgumentMoves
<1>7. HostFits(ho2, Len(he), ta)
  BY <1>1, HostFitsChanged
<1>8. \A n \in DOMAIN he : ext2[n] = ext[n]
  <2> TAKE n \in DOMAIN he
  <2> DEFINE mid == External(ho2, ra, ca)
  <2>1. /\ n \in 1..MaxNodes /\ ra \in Counts /\ ho2 \in [Handles -> Slots]
        /\ CallFits(ca, Len(he)) /\ CallFits(ca2, Len(he))
    BY <1>1, <1>4, <1>7 DEF HostFits
  <2>2. /\ ext[n] \in Nat /\ mid[n] \in Nat
        /\ mid[n] + Is(ho[g].value, Ref(n)) = ext[n] + Is(s.value, Ref(n))
    <3>1. /\ HostFits(ho, Len(he), ta) /\ SlotFits(s, Len(he), ta) /\ ra \in Counts
          /\ CallFits(ca, Len(he)) /\ n \in 1..MaxNodes
      BY <1>1, <2>1
    <3> HIDE DEF ext, mid, ext2
    <3>2. /\ External(ho, ra, ca)[n] \in Nat
          /\ External([ho EXCEPT ![g] = s], ra, ca)[n] \in Nat
          /\ External([ho EXCEPT ![g] = s], ra, ca)[n] + Is(ho[g].value, Ref(n))
               = External(ho, ra, ca)[n] + Is(s.value, Ref(n))
      BY <3>1, ExternalChanged
    <3> QED BY <3>2 DEF ext, mid
  <2>3. /\ ext2[n] + Times(Ref(n), ca.argv) + Times(Ref(n), ca.args)
             = mid[n] + Times(Ref(n), ca2.argv) + Times(Ref(n), ca2.args)
        /\ ext2[n] \in Nat
        /\ Times(Ref(n), ca.argv) \in Nat /\ Times(Ref(n), ca.args) \in Nat
    <3> HIDE DEF ho2
    <3> QED BY <2>1, ExternalOfCalls
  <2>4. /\ Times(Ref(n), ca.args) = Is(Head(ca.args), Ref(n)) + Times(Ref(n), Tail(ca.args))
        /\ Times(Ref(n), Tail(ca.args)) \in Nat
    BY <1>2, TimesOfTail DEF ArgumentMoves
  <2>5. Is(ho[g].value, Ref(n)) = 0
    <3>1. ho[g].value = Undefined
      BY <1>1 DEF HostFits, SlotFits
    <3> QED BY <3>1, IsOfRefs
  <2>6. Is(s.value, Ref(n)) = Is(Head(ca.args), Ref(n)) /\ Is(Head(ca.args), Ref(n)) \in Nat
    BY DEF Is
  <2> DEFINE a == Times(Ref(n), ca.argv)
             b == Times(Ref(n), ca.args)
             c == Times(Ref(n), Tail(ca.args))
             d == Is(Head(ca.args), Ref(n))
  <2>7. ext2[n] + a + b = mid[n] + a + c /\ a \in Nat /\ b \in Nat /\ b = d + c /\ c \in Nat
    BY <2>3, <2>4 DEF ArgumentMoves
  <2>8. mid[n] = ext[n] + d /\ d \in Nat /\ ext[n] \in Nat /\ ext2[n] \in Nat
    BY <2>2, <2>3, <2>5, <2>6
  <2> DEFINE x == ext[n]
             y == ext2[n]
             z == mid[n]
  <2>9. y + a + b = z + a + c /\ b = d + c /\ z = x + d
    BY <2>7, <2>8
  <2>10. a \in Nat /\ b \in Nat /\ c \in Nat /\ d \in Nat /\ x \in Nat /\ y \in Nat
    BY <2>7, <2>8
  <2> HIDE DEF x, y, z, a, b, c, d
  <2>11. y = x
    BY <2>9, <2>10
  <2> QED BY <2>11 DEF x, y
<1> HIDE DEF ho2
<1>9. Balanced(he, ext2, ov)
  <2> HIDE DEF ext, ext2
  <2> QED BY <1>1, <1>8, SameBalance
<1>10. Accounted(he, ho2, ra, ta, fr, ov, ca2)
  BY <1>4, <1>7, <1>9 DEF Accounted, ext2
<1> QED BY <1>10 DEF ho2

LEMMA TakeArgumentKeeps ==
  ASSUME Inv, NEW h \in Handles, TakeArgument(h)
  PROVE  Inv'
<1>1. ArgumentMoves(call, call')
  BY DEF TakeArgument, ArgumentMoves
<1> DEFINE s == Owned(Head(call.args))
<1>2. CallFits(call, Len(heap)) /\ Len(heap) \in Nat
  BY AccountParts DEF Inv
<1>3. Head(call.args) \in NodesUpTo(Len(heap))
  BY <1>2 DEF CallFits, TakeArgument
<1>4. PICK m \in 1..Len(heap) : Head(call.args) = Ref(m)
  BY <1>3 DEF NodesUpTo
<1>5. SlotFits(s, Len(heap), tables) /\ s.value = Head(call.args)
  BY <1>2, <1>4, OwnedFits
<1> HIDE DEF s
<1>6. Accounted(heap, [host EXCEPT ![h] = s], raws, tables, frozen, over, call')
  BY <1>1, <1>5, ArgumentTaken DEF Inv, TakeArgument, IsFree, Owns
<1> QED BY <1>6 DEF Inv, TakeArgument, s

LEMMA ArgumentsFreedTwice ==
  ASSUME NEW he, Sane(he), Len(he) <= MaxNodes, NEW ca, CallFits(ca, Len(he)),
         NEW ext \in Counts, NEW ext2 \in Counts, NEW ov \in Counts, Balanced(he, ext, ov),
         \A n \in 1..MaxNodes : ext2[n] \in Nat /\ Times(Ref(n), ca.argv) \in Nat,
         \A n \in DOMAIN he : ext[n] = ext2[n] + Times(Ref(n), ca.argv) + Times(Ref(n), ca.argv)
  PROVE  /\ Sane(FreeAll(FreeAll(he, ca.argv), ca.argv))
         /\ Len(FreeAll(FreeAll(he, ca.argv), ca.argv)) = Len(he)
         /\ Balanced(FreeAll(FreeAll(he, ca.argv), ca.argv), ext2, ov)
<1> DEFINE mid == [n \in 1..MaxNodes |-> ext2[n] + Times(Ref(n), ca.argv)]
           once == FreeAll(he, ca.argv)
           twice == FreeAll(once, ca.argv)
<1>1. \A n \in DOMAIN he : n \in 1..MaxNodes
  BY SaneNodes, OwnedBounds
<1>2. mid \in Counts
  BY DEF Counts
<1>3. \A n \in DOMAIN he : ext[n] = mid[n] + Times(Ref(n), ca.argv)
  BY <1>1
<1>4. \A n \in DOMAIN he : mid[n] = ext2[n] + Times(Ref(n), ca.argv)
  BY <1>1
<1> HIDE DEF mid
<1>5. Sane(once) /\ Len(once) = Len(he) /\ Balanced(once, mid, ov)
  BY <1>2, <1>3, ArgumentsFreed
<1> HIDE DEF once
<1>6. DOMAIN once = DOMAIN he /\ Len(once) <= MaxNodes /\ CallFits(ca, Len(once))
  BY <1>5, SaneNodes
<1>7. Sane(twice) /\ Len(twice) = Len(once) /\ Balanced(twice, ext2, ov)
  BY <1>2, <1>4, <1>5, <1>6, ArgumentsFreed
<1> QED BY <1>5, <1>7 DEF once, twice

(* The references of n among handles, and those handles emptied.           *)
TakenOf(taken, ho, n) == Cardinality({h \in taken : ho[h].value = Ref(n)})
Emptied(ho2, ho, taken) == ho2 = [h \in Handles |-> IF h \in taken THEN Empty ELSE ho[h]]

LEMMA HandlesEmptied ==
  ASSUME NEW ho \in [Handles -> Slots], NEW taken \in SUBSET Handles, NEW n,
         NEW ho2, Emptied(ho2, ho, taken)
  PROVE  /\ ho2 \in [Handles -> Slots]
         /\ TakenOf(taken, ho, n) \in Nat
         /\ Count(ho, Ref(n)) \in Nat /\ Count(ho2, Ref(n)) \in Nat
         /\ Count(ho, Ref(n)) = Count(ho2, Ref(n)) + TakenOf(taken, ho, n)
<1> DEFINE S == {h \in Handles : ho[h].value = Ref(n)}
           T == {h \in taken : ho[h].value = Ref(n)}
           R == {h \in Handles : ho2[h].value = Ref(n)}
<1>1. Empty \in Slots /\ Empty.value # Ref(n)
  BY DEF Empty, Slot, Slots, Undefined, Ref, Value
<1>2. ho2 \in [Handles -> Slots]
  BY <1>1 DEF Emptied
<1>3. R = S \ T /\ S \cap T = T
  BY <1>1 DEF Emptied
<1>4. IsFiniteSet(S) /\ IsFiniteSet(T)
  <2>1. S \in SUBSET Handles /\ T \in SUBSET Handles
    OBVIOUS
  <2> QED BY <2>1, FiniteHandles, FS_Subset
<1>5. Count(ho, Ref(n)) = Cardinality(S) /\ Count(ho2, Ref(n)) = Cardinality(R)
  BY <1>2, HostCount
<1>6. Count(ho, Ref(n)) \in Nat /\ Count(ho2, Ref(n)) \in Nat
  BY <1>2, HostCount
<1> HIDE DEF S, T, R
<1>7. Cardinality(T) \in Nat
  BY <1>4, FS_CardinalityType
<1>8. Cardinality(S \ T) = Cardinality(S) - Cardinality(S \cap T)
  BY <1>4, FS_Difference
<1>9. Count(ho, Ref(n)) = Count(ho2, Ref(n)) + Cardinality(T)
  BY <1>3, <1>5, <1>6, <1>7, <1>8
<1> QED BY <1>2, <1>6, <1>7, <1>9 DEF T, TakenOf

(* Of a call that ends before all its arguments were converted, the handles*)
(* in taken have those that were.                                          *)
TakenFrom(taken, ho, he, ca) ==
  \A n \in DOMAIN he :
    TakenOf(taken, ho, n) = Times(Ref(n), ca.argv) - Times(Ref(n), ca.args)

(* A conversion fails: handles and arguments are given back.               *)
LEMMA CallAbandoned ==
  ASSUME NEW he, NEW ho, NEW ra, NEW ta, NEW fr, NEW ov, NEW ca, Accounted(he, ho, ra, ta, fr, ov, ca),
         NEW taken \in SUBSET Handles, TakenFrom(taken, ho, he, ca),
         NEW ho2, Emptied(ho2, ho, taken)
  PROVE  Accounted(FreeAll(FreeAll(he, ca.argv), ca.argv), ho2, ra, ta, fr, ov, NoCall)
<1> DEFINE ext == External(ho, ra, ca)
           ext2 == External(ho2, ra, NoCall)
           he2 == FreeAll(FreeAll(he, ca.argv), ca.argv)
<1>1. /\ Sane(he) /\ DOMAIN he = 1..Len(he) /\ Len(he) <= MaxNodes
      /\ ra \in Counts /\ ov \in Counts /\ CallFits(ca, Len(he)) /\ HostFits(ho, Len(he), ta)
      /\ ext \in Counts /\ Balanced(he, ext, ov) /\ \A n \in DOMAIN he : n \in 1..MaxNodes
  BY AccountParts
<1>2. ho \in [Handles -> Slots] /\ CallFits(NoCall, Len(he))
  BY <1>1, NoCallFits DEF HostFits
<1>3. ho2 \in [Handles -> Slots]
  BY <1>2, HandlesEmptied
<1>4. ext2 \in Counts
  BY <1>1, <1>2, <1>3, ExternalCounts
<1>5. HostFits(ho2, Len(he), ta)
  <2>1. SlotFits(Empty, Len(he), ta) /\ \A h \in Handles : SlotFits(ho[h], Len(he), ta)
    BY <1>1, EmptyFits DEF HostFits
  <2>2. \A h \in Handles : ho2[h] = Empty \/ ho2[h] = ho[h]
    BY DEF Emptied
  <2>3. \A h \in Handles : SlotFits(ho2[h], Len(he), ta)
    BY <2>1, <2>2
  <2> QED BY <1>3, <2>3 DEF HostFits
<1>6. \A n \in 1..MaxNodes : ext2[n] \in Nat /\ Times(Ref(n), ca.argv) \in Nat
  <2>1. \A n \in 1..MaxNodes : Times(Ref(n), ca.argv) \in Nat
    BY <1>1, <1>2, ExternalCounts
  <2> HIDE DEF ext2
  <2> QED BY <1>4, <2>1 DEF Counts
<1>7. \A n \in DOMAIN he : ext[n] = ext2[n] + Times(Ref(n), ca.argv) + Times(Ref(n), ca.argv)
  <2> TAKE n \in DOMAIN he
  <2>0. /\ n \in 1..MaxNodes /\ ho \in [Handles -> Slots] /\ ho2 \in [Handles -> Slots]
        /\ ra \in Counts /\ CallFits(ca, Len(he)) /\ CallFits(NoCall, Len(he))
    BY <1>1, <1>2, <1>3
  <2>1. /\ ext[n] = Count(ho, Ref(n)) + ra[n] + Times(Ref(n), ca.argv) + Times(Ref(n), ca.args)
        /\ ra[n] \in Nat /\ Times(Ref(n), ca.argv) \in Nat /\ Times(Ref(n), ca.args) \in Nat
    <3> HIDE DEF ext, ext2, he2
    <3>1. /\ External(ho, ra, ca)[n] = Count(ho, Ref(n)) + ra[n]
                                          + Times(Ref(n), ca.argv) + Times(Ref(n), ca.args)
          /\ ra[n] \in Nat /\ Times(Ref(n), ca.argv) \in Nat /\ Times(Ref(n), ca.args) \in Nat
      <4>1. n \in 1..MaxNodes /\ ho \in [Handles -> Slots] /\ ra \in Counts /\ CallFits(ca, Len(he))
        BY <2>0
      <4> QED BY <4>1, ExternalCounts
    <3> QED BY <3>1 DEF ext
  <2>2. ext2[n] = Count(ho2, Ref(n)) + ra[n] + Times(Ref(n), NoCall.argv) + Times(Ref(n), NoCall.args)
    <3> HIDE DEF ext, ext2, he2
    <3>1. External(ho2, ra, NoCall)[n]
            = Count(ho2, Ref(n)) + ra[n] + Times(Ref(n), NoCall.argv) + Times(Ref(n), NoCall.args)
      <4>1. n \in 1..MaxNodes /\ ho2 \in [Handles -> Slots] /\ ra \in Counts /\ CallFits(NoCall, Len(he))
        BY <2>0
      <4> QED BY <4>1, ExternalCounts
    <3> QED BY <3>1 DEF ext2
  <2>3. Times(Ref(n), NoCall.argv) = 0 /\ Times(Ref(n), NoCall.args) = 0
    BY NoCallFits, NoTimes
  <2>4. /\ Count(ho, Ref(n)) \in Nat /\ Count(ho2, Ref(n)) \in Nat
        /\ Count(ho, Ref(n)) = Count(ho2, Ref(n)) + TakenOf(taken, ho, n)
    BY <1>2, HandlesEmptied
  <2>5. TakenOf(taken, ho, n) = Times(Ref(n), ca.argv) - Times(Ref(n), ca.args)
    BY DEF TakenFrom
  <2> DEFINE x == ext[n]
             y == ext2[n]
             c == Count(ho, Ref(n))
             c2 == Count(ho2, Ref(n))
             r == ra[n]
             a == Times(Ref(n), ca.argv)
             b == Times(Ref(n), ca.args)
  <2>6. /\ x = c + r + a + b /\ y = c2 + r + 0 + 0 /\ c = c2 + (a - b)
        /\ r \in Nat /\ a \in Nat /\ b \in Nat /\ c \in Nat /\ c2 \in Nat
    BY <2>1, <2>2, <2>3, <2>4, <2>5
  <2> HIDE DEF x, y, c, c2, r, a, b
  <2>7. x = y + a + a
    BY <2>6
  <2> QED BY <2>7 DEF x, y, a
<1> HIDE DEF ext, ext2
<1>8. Sane(he2) /\ Len(he2) = Len(he) /\ Balanced(he2, ext2, ov)
  BY <1>1, <1>4, <1>6, <1>7, ArgumentsFreedTwice
<1> HIDE DEF he2
<1>9. DOMAIN he2 = DOMAIN he
  BY <1>1, <1>8, SaneNodes
<1>10. Accounted(he2, ho2, ra, ta, fr, ov, NoCall)
  BY <1>1, <1>2, <1>5, <1>8, <1>9 DEF Accounted, ext2
<1> QED BY <1>10 DEF he2

LEMMA ConversionFailsKeeps ==
  ASSUME Inv, NEW taken \in SUBSET Handles, ConversionFails(taken)
  PROVE  Inv'
<1>1. TakenFrom(taken, host, heap, call)
  BY DEF ConversionFails, TakenFrom, TakenOf
<1>2. Accounted(FreeAll(FreeAll(heap, call.argv), call.argv), host', raws, tables, frozen, over, NoCall)
  <2>1. Emptied(host', host, taken)
    BY DEF ConversionFails, Emptied
  <2> QED BY <1>1, <2>1, CallAbandoned DEF Inv
<1> QED BY <1>2 DEF Inv, ConversionFails

-----------------------------------------------------------------------------
(* The invariant holds.                                                    *)

(* Every step of HostCallback.                                             *)
LEMMA InitAccounted == Init => Inv
<1> SUFFICES ASSUME Init PROVE Inv
  OBVIOUS
<1>1. /\ heap = <<>> /\ host = [h \in Handles |-> Empty] /\ raws = [n \in 1..MaxNodes |-> 0]
      /\ tables = <<>> /\ frozen = {} /\ over = [n \in 1..MaxNodes |-> 0] /\ call = NoCall
  BY DEF Init, OwnInit
<1>2. Sane(heap) /\ Len(heap) = 0 /\ Len(heap) <= MaxNodes
  BY <1>1, OwnedBounds DEF Sane, HeapOf
<1>3. HostFits(host, Len(heap), tables)
  <2>1. SlotFits(Empty, Len(heap), tables) /\ Empty \in Slots
    BY EmptyFits DEF SlotFits
  <2> QED BY <1>1, <2>1 DEF HostFits
<1>4. raws \in Counts /\ over \in Counts
  BY <1>1 DEF Counts
<1>5. CountsFit(raws, Len(heap)) /\ CountsFit(over, Len(heap))
  <2>1. \A n \in 1..MaxNodes : raws[n] = 0 /\ over[n] = 0
    BY <1>1
  <2> QED BY <1>4, <2>1 DEF CountsFit
<1>6. \A n \in 1..MaxNodes : raws[n] <= MaxRaw
  BY <1>1, OwnedBounds
<1>7. tables \in Seq(TableNames) /\ frozen \subseteq DOMAIN heap
  BY <1>1
<1>8. CallFits(call, Len(heap))
  BY <1>1, NoCallFits
<1>9. Balanced(heap, External(host, raws, call), over)
  BY <1>1 DEF Balanced
<1> QED BY <1>2, <1>3, <1>5, <1>6, <1>7, <1>8, <1>9 DEF Inv, Accounted

LEMMA HandleKeeps ==
  ASSUME Inv, Sound, UNCHANGED call, NEW h \in Handles,
         OneHandle(h) \/ \E g \in Handles : TwoHandles(h, g)
  PROVE  Inv'
<1>1. CASE \E kind \in {"object", "array"} : Create(h, kind)
  BY <1>1, CreateKeeps
<1>2. CASE Drop(h)
  BY <1>2, DropKeeps
<1>3. CASE Extract(h)
  BY <1>3, ExtractKeeps
<1>4. CASE RawElements(h)
  BY <1>4, RawElementsKeeps
<1>5. CASE IterDrop(h)
  BY <1>5, IterDropKeeps
<1>6. CASE \E n \in DOMAIN heap : Wrap(n, h) \/ Replace(h, n)
  BY <1>6, WrapKeeps, ReplaceKeeps
<1>7. ASSUME NEW g \in Handles, TwoHandles(h, g)
      PROVE  Inv'
  <2>1. CASE Clone(h, g)
    BY <2>1, CloneKeeps
  <2>2. CASE Push(h, g)
    BY <2>2, SetIndexKeeps DEF Push
  <2>3. CASE PropertiesIter(h, g)
    BY <2>3, PropertiesIterKeeps
  <2>4. CASE IterClone(h, g)
    BY <2>4, IterCloneKeeps
  <2>5. CASE IterNext(h, g)
    BY <2>5, IterNextKeeps
  <2>6. CASE \E key \in {Text, NulText} : SetProperty(h, key, g)
    BY <2>6, SetPropertyKeeps
  <2>7. CASE \E i \in 1..MaxEntries : SetIndex(h, i, g) \/ Get(h, i, g)
    BY <2>7, SetIndexKeeps, GetKeeps
  <2> QED BY <1>7, <2>1, <2>2, <2>3, <2>4, <2>5, <2>6, <2>7 DEF TwoHandles
<1> QED BY <1>1, <1>2, <1>3, <1>4, <1>5, <1>6, <1>7 DEF OneHandle

LEMMA ScriptKeeps ==
  ASSUME Inv, UNCHANGED call, Script
  PROVE  Inv'
BY ScriptFreezesKeeps, ScriptDeletesKeeps DEF Script

LEMMA CallbackKeeps ==
  ASSUME Inv, Callback
  PROVE  Inv'
<1>1. ASSUME NEW n \in DOMAIN heap, NEW m \in DOMAIN heap \cup {None},
             CallbackEnters(IF m = None THEN <<Ref(n)>> ELSE <<Ref(n), Ref(m)>>)
      PROVE  Inv'
  <2> DEFINE argv == IF m = None THEN <<Ref(n)>> ELSE <<Ref(n), Ref(m)>>
  <2>1. DOMAIN heap = 1..Len(heap)
    BY AccountParts DEF Inv
  <2>2. Ref(n) \in NodesUpTo(Len(heap)) /\ (m # None => Ref(m) \in NodesUpTo(Len(heap)))
    BY <2>1 DEF NodesUpTo
  <2>3. argv \in Seq(NodesUpTo(Len(heap)))
    BY <2>2
  <2>4. CallbackEnters(argv)
    BY <1>1
  <2> HIDE DEF argv
  <2> QED BY <2>3, <2>4, CallbackEntersKeeps
<1>2. ASSUME NEW h \in Handles,
             TakeArgument(h) \/ \E n \in DOMAIN heap \cup {None} : CallbackReturns(h, n)
      PROVE  Inv'
  BY <1>2, TakeArgumentKeeps, CallbackReturnsKeeps
<1>3. CASE \E taken \in SUBSET Handles : ConversionFails(taken)
  BY <1>3, ConversionFailsKeeps
<1>4. CASE ClosureRuns \/ CallbackThrows
  BY <1>4, ClosureRunsKeeps, CallbackThrowsKeeps
<1> QED BY <1>1, <1>2, <1>3, <1>4 DEF Callback

LEMMA NextAccounted == Inv /\ [Next]_vars => Inv'
<1> SUFFICES ASSUME Inv, [Next]_vars PROVE Inv'
  OBVIOUS
<1>1. ASSUME UNCHANGED <<ownVars, call>>
      PROVE  Inv'
  BY <1>1 DEF Inv, ownVars
<1>2. ASSUME Sound, UNCHANGED call,
             \/ \E h \in Handles : OneHandle(h) \/ \E g \in Handles : TwoHandles(h, g)
             \/ Script
      PROVE  Inv'
  BY <1>2, HandleKeeps, ScriptKeeps
<1>3. CASE Callback
  BY <1>3, CallbackKeeps
<1>4. CASE UNCHANGED vars
  BY <1>1, <1>4 DEF vars
<1>5. CASE \/ \E x \in FromScript : ExchangeStarts("script", x)
           \/ \E shape \in DOMAIN FromHost : \E x \in FromHost[shape] : ExchangeStarts("host", x)
           \/ Reads \/ Writes
  BY <1>1, <1>5 DEF ExchangeStarts, Reads, Writes, Converted
<1> QED BY <1>2, <1>3, <1>4, <1>5 DEF Next, MaySay

(* In every state of a program that uses OwnedJsValues, iterators, raw     *)
(* values and closures, every reference is of a container there is and is  *)
(* counted by it: what Clone, Drop, extract and exec_callback of           *)
(* src/value/value.rs and src/callback.rs keep.                            *)
THEOREM ReferencesAreAccounted == Spec => []Inv
BY InitAccounted, NextAccounted, PTL DEF Spec

(* An assignment is refused only by a container that was frozen before, and*)
(* no container thaws.                                                     *)
NoneRefused == frozen = {} => \A n \in 1..MaxNodes : over[n] = 0

LEMMA NoneRefusedHolds == Spec => []NoneRefused
<1>1. Init => NoneRefused
  BY DEF Init, OwnInit, NoneRefused
<1>2. NoneRefused /\ [Next]_vars => NoneRefused'
  <2> SUFFICES ASSUME NoneRefused, [Next]_vars PROVE NoneRefused'
    OBVIOUS
  <2>1. ASSUME frozen' = frozen, over' = over PROVE NoneRefused'
    BY <2>1 DEF NoneRefused
  <2>2. ASSUME frozen' # {} PROVE NoneRefused'
    BY <2>2 DEF NoneRefused
  <2>3. ASSUME NEW n, NEW i, NEW key, NEW g, Assign(n, i, key, g) PROVE NoneRefused'
    BY <2>1, <2>2, <2>3 DEF Assign
  <2>4. ASSUME NEW h, OneHandle(h) PROVE NoneRefused'
    BY <2>1, <2>4 DEF OneHandle, Create, Drop, Extract, RawElements, IterDrop, Wrap, Replace
  <2>5. ASSUME NEW h, NEW g, TwoHandles(h, g) PROVE NoneRefused'
    <3>1. ASSUME NEW key, SetProperty(h, key, g) PROVE NoneRefused'
      BY <2>1, <2>3, <3>1 DEF SetProperty
    <3>2. ASSUME NEW i, SetIndex(h, i, g) PROVE NoneRefused'
      BY <2>3, <3>2 DEF SetIndex
    <3> QED BY <2>1, <2>5, <3>1, <3>2
            DEF TwoHandles, Clone, Push, PropertiesIter, IterClone, IterNext, Get
  <2>6. CASE Script
    BY <2>1, <2>2, <2>6 DEF Script, ScriptFreezes, ScriptDeletes
  <2>7. CASE Callback
    BY <2>1, <2>7 DEF Callback, CallbackEnters, TakeArgument, ConversionFails, ClosureRuns,
       CallbackReturns, CallbackThrows, ownVars
  <2>8. CASE \/ \E x \in FromScript : ExchangeStarts("script", x)
             \/ \E shape \in DOMAIN FromHost : \E x \in FromHost[shape] : ExchangeStarts("host", x)
             \/ Reads \/ Writes
    BY <2>1, <2>8 DEF ExchangeStarts, Reads, Writes, Converted, ownVars
  <2>9. CASE UNCHANGED vars
    BY <2>1, <2>9 DEF vars, ownVars
  <2> QED BY <2>4, <2>5, <2>6, <2>7, <2>8, <2>9 DEF Next
<1> QED BY <1>1, <1>2, PTL DEF Spec

(* Until a script freezes a container, the count of every container is the *)
(* number of references that are held, and no container that is held is    *)
(* freed (value.rs, object.rs, array.rs, callback.rs).  After it an        *)
(* assignment may be refused, and frees a reference too many.              *)
THEOREM CountsAreExact == Spec => []CountsExactUnfrozen
<1>1. Inv /\ NoneRefused => CountsExactUnfrozen
  <2> SUFFICES ASSUME Inv, NoneRefused, frozen = {}, NEW n \in DOMAIN heap
               PROVE  IF Alive(n) THEN heap[n].refs = Holders(n) + HeldByCall(n)
                      ELSE Holders(n) + HeldByCall(n) = 0 /\ heap[n].refs = 0
    BY DEF CountsExactUnfrozen, CountsExact
  <2> DEFINE e == External(host, raws, call)[n]
             b == HeldInHeap(heap, n)
             c == HeldByHandles(n)
             r == raws[n]
             x == Times(Ref(n), call.argv)
             y == Times(Ref(n), call.args)
             held == Holders(n) + HeldByCall(n)
  <2>1. /\ n \in 1..MaxNodes /\ host \in [Handles -> Slots] /\ raws \in Counts
        /\ CallFits(call, Len(heap))
    BY AccountParts DEF Inv, HostFits
  <2>2. /\ e = Count(host, Ref(n)) + r + x + y
        /\ Count(host, Ref(n)) \in Nat /\ r \in Nat /\ x \in Nat /\ y \in Nat
    BY <2>1, ExternalCounts
  <2>3. Count(host, Ref(n)) = c
    BY <2>1, HostCount DEF HeldByHandles
  <2>4. b \in Nat
    <3>1. FiniteHeap(heap)
      BY AccountParts, SaneNodes DEF Inv
    <3> QED BY <3>1, HeldChanges
  <2>5. held = (c + r + b) + (x + y)
    BY DEF Holders, HeldByCall
  <2>6. Fits(heap[n].kind, heap[n].refs, over[n], e, b)
    <3>1. Balanced(heap, External(host, raws, call), over)
      BY AccountParts DEF Inv
    <3> QED BY <3>1 DEF Balanced
  <2> HIDE DEF e, b, c, r, x, y, held
  <2>7. e + b = held
    BY <2>2, <2>3, <2>4, <2>5
  <2>8. over[n] = 0
    BY <2>1 DEF NoneRefused
  <2>9. heap[n].refs \in Int
    BY AccountParts, SaneNodes DEF Inv, FiniteHeap
  <2>10. IF heap[n].kind # "freed" THEN heap[n].refs = held
         ELSE held = 0 /\ heap[n].refs = 0
    BY <2>6, <2>7, <2>8, <2>9 DEF Fits
  <2> QED BY <2>10 DEF Alive, held
<1> QED BY <1>1, ReferencesAreAccounted, NoneRefusedHolds, PTL

-----------------------------------------------------------------------------
(* Property tables.                                                        *)

(* The table of a handle that is an iterator; how many use table t.        *)
TableOf(s) == IF s.kind = "iter" THEN s.table ELSE None
Uses(ho) == [h \in Handles |-> [value |-> TableOf(ho[h])]]
UsersOf(ho, t) == Count(Uses(ho), t)

(* A table that was not shared has one user, or was freed once.            *)
TableShared(ho, ta, t) == ta[t].clones = 0 => UsersOf(ho, t) + ta[t].frees = 1
TablesAccounted == \A t \in DOMAIN tables : TableShared(host, tables, t)

(* Handles that come and go change the users of a table if they iterate.   *)
LEMMA UsersCounted ==
  ASSUME NEW ho \in [Handles -> Slots], NEW t \in Nat
  PROVE  /\ UsersOf(ho, t) = Cardinality({h \in Handles : ho[h].kind = "iter" /\ ho[h].table = t})
         /\ UsersOf(ho, t) \in Nat
<1>1. {h \in DOMAIN Uses(ho) : Uses(ho)[h].value = t}
        = {h \in Handles : ho[h].kind = "iter" /\ ho[h].table = t}
  BY NoneIsNoNumber DEF Uses, TableOf
<1>2. IsFiniteSet(DOMAIN Uses(ho))
  BY FiniteHandles DEF Uses
<1>3. UsersOf(ho, t) \in Nat
  BY <1>2, CountIsNat DEF UsersOf
<1> QED BY <1>1, <1>3 DEF UsersOf, Count

LEMMA SameUsers ==
  ASSUME NEW ho, NEW ho2, \A h \in Handles : TableOf(ho2[h]) = TableOf(ho[h]), NEW t
  PROVE  UsersOf(ho2, t) = UsersOf(ho, t)
<1>1. Uses(ho2) = Uses(ho)
  BY DEF Uses
<1> QED BY <1>1 DEF UsersOf

SlotSet(ho2, ho, g, s) == ho2 = [ho EXCEPT ![g] = s]

LEMMA UsersChanged ==
  ASSUME NEW ho \in [Handles -> Slots], NEW g \in Handles, NEW s, NEW ho2, SlotSet(ho2, ho, g, s), NEW t
  PROVE  /\ UsersOf(ho2, t) = UsersOf(ho, t) - Is(TableOf(ho[g]), t) + Is(TableOf(s), t)
         /\ UsersOf(ho, t) \in Nat /\ UsersOf(ho2, t) \in Nat
<1> DEFINE u == Uses(ho)
           u2 == Uses(ho2)
<1>1. /\ DOMAIN u2 = DOMAIN u /\ IsFiniteSet(DOMAIN u) /\ g \in DOMAIN u
      /\ u[g].value = TableOf(ho[g]) /\ u2[g].value = TableOf(s)
      /\ \A h \in DOMAIN u \ {g} : u2[h].value = u[h].value
  BY FiniteHandles DEF Uses, SlotSet
<1> HIDE DEF u, u2
<1>2. /\ Count(u2, t) = Count(u, t) - Is(u[g].value, t) + Is(u2[g].value, t)
      /\ Count(u, t) \in Nat /\ Count(u2, t) \in Nat
  BY <1>1, CountOfChanged
<1> QED BY <1>1, <1>2 DEF UsersOf, u, u2

LEMMA TablesKept ==
  ASSUME TablesAccounted, tables' = tables, \A h \in Handles : TableOf(host'[h]) = TableOf(host[h])
  PROVE  TablesAccounted'
<1>1. \A t : UsersOf(host', t) = UsersOf(host, t)
  BY SameUsers
<1> QED BY <1>1 DEF TablesAccounted, TableShared

LEMMA SlotKept ==
  ASSUME NEW ho \in [Handles -> Slots], NEW g \in Handles, NEW s, TableOf(s) = TableOf(ho[g]),
         NEW ho2, ho2 = [ho EXCEPT ![g] = s]
  PROVE  \A h \in Handles : TableOf(ho2[h]) = TableOf(ho[h])
OBVIOUS

LEMMA NoTable ==
  ASSUME NEW v
  PROVE  TableOf(Owned(v)) = None /\ TableOf(Empty) = None
BY DEF TableOf, Owned, Empty, Slot

(* Steps that leave iterators alone.                                       *)
LEMMA OneHandleKeepsTables ==
  ASSUME Inv, TablesAccounted, NEW h \in Handles,
         \/ \E kind \in {"object", "array"} : Create(h, kind)
         \/ Drop(h) \/ Extract(h) \/ RawElements(h)
         \/ \E n \in DOMAIN heap : Wrap(n, h) \/ Replace(h, n)
  PROVE  TablesAccounted'
<1>1. host \in [Handles -> Slots]
  BY AccountParts DEF Inv, HostFits
<1>2. tables' = tables
  BY DEF Create, Drop, Extract, RawElements, Wrap, Replace
<1>3. host' = host \/ (\E s : /\ TableOf(s) = None /\ host' = [host EXCEPT ![h] = s]
                             /\ host[h].kind \in {"none", "value"})
  BY NoTable DEF Create, Drop, Extract, RawElements, Wrap, Replace, Owns, IsFree
<1>4. \A f \in Handles : TableOf(host'[f]) = TableOf(host[f])
  <2>1. CASE host' = host
    BY <2>1
  <2>2. ASSUME NEW s, TableOf(s) = None, host' = [host EXCEPT ![h] = s],
               host[h].kind \in {"none", "value"}
        PROVE  \A f \in Handles : TableOf(host'[f]) = TableOf(host[f])
    <3>1. TableOf(host[h]) = None
      BY <2>2 DEF TableOf
    <3> QED BY <1>1, <2>2, <3>1, SlotKept
  <2> QED BY <1>3, <2>1, <2>2
<1> QED BY <1>2, <1>4, TablesKept

LEMMA TwoHandlesKeepTables ==
  ASSUME Inv, TablesAccounted, NEW h \in Handles, NEW g \in Handles,
         \/ Clone(h, g)
         \/ \E i : SetIndex(h, i, g) \/ Get(h, i, g)
         \/ \E key : SetProperty(h, key, g)
  PROVE  TablesAccounted'
<1>1. host \in [Handles -> Slots]
  BY AccountParts DEF Inv, HostFits
<1>2. tables' = tables
  BY DEF Clone, SetIndex, Get, SetProperty, Assign
<1>3. \E s : /\ TableOf(s) = None /\ host' = [host EXCEPT ![g] = s]
             /\ host[g].kind \in {"none", "value"}
  <2>1. CASE Clone(h, g)
    BY <2>1 DEF Clone, Owns, IsFree, TableOf
  <2>2. CASE \E i : SetIndex(h, i, g)
    BY <2>2, NoTable DEF SetIndex, Assign, Owns
  <2>3. CASE \E i : Get(h, i, g)
    BY <2>3, NoTable DEF Get, Owns, IsFree
  <2>4. CASE \E key : SetProperty(h, key, g)
    BY <2>4, NoTable DEF SetProperty, Assign, Owns
  <2> QED BY <2>1, <2>2, <2>3, <2>4
<1>4. TableOf(host[g]) = None
  BY <1>3 DEF TableOf
<1>5. \A f \in Handles : TableOf(host'[f]) = TableOf(host[f])
  BY <1>1, <1>3, <1>4, SlotKept
<1> QED BY <1>2, <1>5, TablesKept

LEMMA IterNextKeepsTables ==
  ASSUME Inv, TablesAccounted, NEW h \in Handles, NEW g \in Handles, IterNext(h, g)
  PROVE  TablesAccounted'
<1>1. /\ host \in [Handles -> Slots] /\ host[h].kind = "iter" /\ host[g].kind = "none"
      /\ host[h] \in Slots
  <2>1. host \in [Handles -> Slots]
    BY AccountParts DEF Inv, HostFits
  <2> QED BY <2>1 DEF IterNext, Iterates, IsFree, Owns
<1> DEFINE s == [host[h] EXCEPT !.index = @ + 1]
           mid == [host EXCEPT ![h] = s]
<1>2. TableOf(s) = TableOf(host[h])
  BY <1>1 DEF TableOf, Slots
<1>3. \A f \in Handles : TableOf(mid[f]) = TableOf(host[f])
  <2> HIDE DEF s
  <2> QED BY <1>1, <1>2, SlotKept
<1>4. mid \in [Handles -> Slots] /\ mid[g] = host[g]
  <2>1. s \in Slots
    BY <1>1 DEF Slots
  <2> HIDE DEF s
  <2> QED BY <1>1, <2>1
<1>5. host' = mid \/ \E v : host' = [mid EXCEPT ![g] = Owned(v)]
  BY DEF IterNext
<1>6. \A f \in Handles : TableOf(host'[f]) = TableOf(host[f])
  <2>1. TableOf(mid[g]) = None
    BY <1>1, <1>4 DEF TableOf
  <2> HIDE DEF mid
  <2>2. ASSUME NEW v, host' = [mid EXCEPT ![g] = Owned(v)]
        PROVE  \A f \in Handles : TableOf(host'[f]) = TableOf(mid[f])
    BY <1>4, <2>1, <2>2, NoTable, SlotKept
  <2> QED BY <1>3, <1>5, <2>2
<1>7. tables' = tables
  BY DEF IterNext
<1> QED BY <1>6, <1>7, TablesKept

(* Iterators begin, are cloned and end.                                    *)
LEMMA TableNamed ==
  ASSUME Inv, NEW h \in Handles
  PROVE  /\ TableOf(host[h]) \in DOMAIN tables \cup {None}
         /\ host[h].kind = "iter" => TableOf(host[h]) = host[h].table /\ host[h].table \in DOMAIN tables
<1>1. SlotFits(host[h], Len(heap), tables)
  BY AccountParts DEF Inv
<1> QED BY <1>1 DEF SlotFits, TableOf

LEMMA PropertiesIterKeepsTables ==
  ASSUME Inv, TablesAccounted, NEW h \in Handles, NEW g \in Handles, PropertiesIter(h, g)
  PROVE  TablesAccounted'
<1> DEFINE k == Len(tables) + 1
           s == Slot("iter", host[h].value, k, 0)
<1>1. host \in [Handles -> Slots] /\ tables \in Seq(TableNames)
  BY AccountParts DEF Inv, HostFits, Accounted
<1>2. PICK x : tables' = Append(tables, x) /\ x.frees = 0
  BY DEF PropertiesIter
<1>3. /\ DOMAIN tables' = DOMAIN tables \cup {k} /\ tables'[k] = x
      /\ \A t \in DOMAIN tables : tables'[t] = tables[t]
      /\ DOMAIN tables = 1..Len(tables) /\ Len(tables) \in Nat
  BY <1>1, <1>2
<1>4. SlotSet(host', host, g, s) /\ TableOf(s) = k /\ TableOf(host[g]) = None
  BY DEF SlotSet, PropertiesIter, IsFree, Owns, Slot, TableOf
<1> HIDE DEF s
<1>5. \A t \in Nat : /\ UsersOf(host', t) = UsersOf(host, t) + Is(k, t)
                     /\ UsersOf(host, t) \in Nat
  <2> TAKE t \in Nat
  <2>1. /\ UsersOf(host', t) = UsersOf(host, t) - Is(TableOf(host[g]), t) + Is(TableOf(s), t)
        /\ UsersOf(host, t) \in Nat
    BY <1>1, <1>4, UsersChanged
  <2>2. Is(None, t) = 0 /\ Is(k, t) \in Nat
    BY NoneIsNoNumber DEF Is
  <2> QED BY <1>4, <2>1, <2>2
<1>6. UsersOf(host, k) = 0
  <2>1. \A f \in Handles : TableOf(host[f]) # k
    BY <1>3, TableNamed, NoneIsNoNumber
  <2>2. \A f \in DOMAIN Uses(host) : Uses(host)[f].value # k
    BY <2>1 DEF Uses
  <2> QED BY <2>2, CountOfNone DEF UsersOf
<1>7. k \in Nat /\ Is(k, k) = 1 /\ \A t \in DOMAIN tables : t \in Nat /\ Is(k, t) = 0
  BY <1>3 DEF Is
<1>8. ASSUME NEW t \in DOMAIN tables
      PROVE  TableShared(host', tables', t)
  <2>1. /\ UsersOf(host', t) = UsersOf(host, t) /\ tables'[t] = tables[t]
        /\ TableShared(host, tables, t)
    BY <1>3, <1>5, <1>7 DEF TablesAccounted
  <2> QED BY <2>1 DEF TableShared
<1>9. TableShared(host', tables', k)
  BY <1>2, <1>3, <1>5, <1>6, <1>7 DEF TableShared
<1> QED BY <1>3, <1>8, <1>9 DEF TablesAccounted

LEMMA IterCloneKeepsTables ==
  ASSUME Inv, TablesAccounted, NEW h \in Handles, NEW g \in Handles, IterClone(h, g)
  PROVE  TablesAccounted'
<1> DEFINE k == host[h].table
<1>1. host \in [Handles -> Slots] /\ tables \in Seq(TableNames)
  BY AccountParts DEF Inv, HostFits, Accounted
<1>2. k \in DOMAIN tables /\ TableOf(host[h]) = k
  BY TableNamed DEF IterClone, Iterates, Owns
<1> DEFINE x == [tables[k] EXCEPT !.clones = @ + 1]
<1>3. x.clones # 0
  <2>1. tables[k] \in TableNames
    BY <1>1, <1>2
  <2>2. x.clones = tables[k].clones + 1
    BY <2>1 DEF TableNames
  <2> QED BY <2>1, <2>2 DEF TableNames
<1>4. /\ DOMAIN tables' = DOMAIN tables /\ tables'[k] = x
      /\ \A t \in DOMAIN tables : t # k => tables'[t] = tables[t]
      /\ \A t \in DOMAIN tables : t \in Nat
  <2>1. tables' = [tables EXCEPT ![k] = x]
    BY DEF IterClone
  <2> HIDE DEF x
  <2> QED BY <1>1, <1>2, <2>1
<1> HIDE DEF x
<1>5. SlotSet(host', host, g, host[h]) /\ TableOf(host[g]) = None
  BY DEF SlotSet, IterClone, IsFree, Owns, TableOf
<1>6. \A t \in DOMAIN tables : t # k => UsersOf(host', t) = UsersOf(host, t)
  <2> TAKE t \in DOMAIN tables
  <2>1. /\ UsersOf(host', t) = UsersOf(host, t) - Is(TableOf(host[g]), t) + Is(TableOf(host[h]), t)
        /\ UsersOf(host, t) \in Nat
    BY <1>1, <1>5, UsersChanged
  <2>2. Is(None, t) = 0 /\ (t # k => Is(k, t) = 0)
    BY <1>4, NoneIsNoNumber DEF Is
  <2> QED BY <1>2, <1>5, <2>1, <2>2
<1> HIDE DEF k
<1> QED BY <1>3, <1>4, <1>6 DEF TablesAccounted, TableShared

LEMMA IterDropKeepsTables ==
  ASSUME Inv, TablesAccounted, NEW h \in Handles, IterDrop(h)
  PROVE  TablesAccounted'
<1> DEFINE k == host[h].table
<1>1. host \in [Handles -> Slots] /\ tables \in Seq(TableNames)
  BY AccountParts DEF Inv, HostFits, Accounted
<1>2. k \in DOMAIN tables /\ TableOf(host[h]) = k
  BY TableNamed DEF IterDrop, Iterates, Owns
<1> DEFINE x == [tables[k] EXCEPT !.frees = @ + 1]
<1>3. x.clones = tables[k].clones /\ x.frees = tables[k].frees + 1 /\ tables[k].frees \in Nat
  <2>1. tables[k] \in TableNames
    BY <1>1, <1>2
  <2> QED BY <2>1, TableFreed DEF TableNames
<1>4. /\ DOMAIN tables' = DOMAIN tables /\ tables'[k] = x
      /\ \A t \in DOMAIN tables : t # k => tables'[t] = tables[t]
      /\ \A t \in DOMAIN tables : t \in Nat
  <2>1. tables' = [tables EXCEPT ![k] = x]
    BY DEF IterDrop, FreePropertyEnum
  <2> HIDE DEF x
  <2> QED BY <1>1, <1>2, <2>1
<1> HIDE DEF x
<1>5. SlotSet(host', host, h, Empty) /\ TableOf(Empty) = None
  BY NoTable DEF SlotSet, IterDrop
<1>6. \A t \in DOMAIN tables :
        UsersOf(host', t) = UsersOf(host, t) - Is(k, t) /\ UsersOf(host, t) \in Nat
  <2> TAKE t \in DOMAIN tables
  <2>1. /\ UsersOf(host', t) = UsersOf(host, t) - Is(TableOf(host[h]), t) + Is(TableOf(Empty), t)
        /\ UsersOf(host, t) \in Nat
    BY <1>1, <1>5, UsersChanged
  <2>2. Is(None, t) = 0 /\ Is(k, t) \in Nat
    BY <1>4, NoneIsNoNumber DEF Is
  <2> QED BY <1>2, <1>5, <2>1, <2>2
<1>7. Is(k, k) = 1 /\ \A t \in DOMAIN tables : t # k => Is(k, t) = 0
  BY DEF Is
<1> HIDE DEF k
<1>8. ASSUME NEW t \in DOMAIN tables
      PROVE  TableShared(host', tables', t)
  <2>1. TableShared(host, tables, t)
    BY DEF TablesAccounted
  <2>2. CASE t = k
    BY <1>2, <1>3, <1>4, <1>6, <1>7, <2>1, <2>2 DEF TableShared
  <2>3. CASE t # k
    BY <1>4, <1>6, <1>7, <2>1, <2>3 DEF TableShared
  <2> QED BY <2>2, <2>3
<1> QED BY <1>4, <1>8 DEF TablesAccounted

LEMMA CallbackKeepsTables ==
  ASSUME Inv, TablesAccounted, Callback
  PROVE  TablesAccounted'
<1>1. host \in [Handles -> Slots]
  BY AccountParts DEF Inv, HostFits
<1>2. tables' = tables
  BY DEF Callback, CallbackEnters, TakeArgument, ConversionFails, ClosureRuns, CallbackReturns,
         CallbackThrows, ownVars
<1>3. \A f \in Handles : TableOf(host'[f]) = TableOf(host[f])
  <2>1. CASE host' = host
    BY <2>1
  <2>2. ASSUME NEW h \in Handles, TakeArgument(h) \/ \E n : CallbackReturns(h, n)
        PROVE  \A f \in Handles : TableOf(host'[f]) = TableOf(host[f])
    <3>1. PICK s : host' = [host EXCEPT ![h] = s] /\ TableOf(s) = None
      BY <2>2, NoTable DEF TakeArgument, CallbackReturns
    <3>2. TableOf(host[h]) = None
      BY <2>2 DEF TakeArgument, CallbackReturns, IsFree, Owns, TableOf
    <3> QED BY <1>1, <3>1, <3>2, SlotKept
  <2>3. ASSUME NEW taken \in SUBSET Handles, ConversionFails(taken)
        PROVE  \A f \in Handles : TableOf(host'[f]) = TableOf(host[f])
    <3> TAKE f \in Handles
    <3>1. host'[f] = IF f \in taken THEN Empty ELSE host[f]
      BY <2>3 DEF ConversionFails
    <3>2. f \in taken => TableOf(host[f]) = None
      BY <2>3 DEF ConversionFails, Owns, TableOf
    <3> QED BY <3>1, <3>2, NoTable
  <2> QED BY <2>1, <2>2, <2>3 DEF Callback, CallbackEnters, ClosureRuns, CallbackThrows, ownVars
<1> QED BY <1>2, <1>3, TablesKept

(* The property table of an iterator is freed when the last iterator over  *)
(* it goes and not before, unless an iterator was cloned                   *)
(* (OwnedJsPropertyIterator and its Drop in src/value/object.rs).          *)
THEOREM TablesAreFreedOnce == Spec => []TablesFreedOnce
<1>1. Init => TablesAccounted
  BY DEF Init, OwnInit, TablesAccounted
<1>2. Inv /\ TablesAccounted /\ [Next]_vars => TablesAccounted'
  <2> SUFFICES ASSUME Inv, TablesAccounted, [Next]_vars PROVE TablesAccounted'
    OBVIOUS
  <2>1. ASSUME tables' = tables, host' = host
        PROVE  TablesAccounted'
    BY <2>1 DEF TablesAccounted
  <2>2. ASSUME NEW h \in Handles, OneHandle(h)
        PROVE  TablesAccounted'
    BY <2>2, OneHandleKeepsTables, IterDropKeepsTables DEF OneHandle
  <2>3. ASSUME NEW h \in Handles, NEW g \in Handles, TwoHandles(h, g)
        PROVE  TablesAccounted'
    BY <2>3, TwoHandlesKeepTables, PropertiesIterKeepsTables, IterCloneKeepsTables,
       IterNextKeepsTables DEF TwoHandles, Push
  <2>4. CASE Script
    BY <2>1, <2>4 DEF Script, ScriptFreezes, ScriptDeletes
  <2>5. CASE Callback
    BY <2>5, CallbackKeepsTables
  <2>6. CASE \/ \E x \in FromScript : ExchangeStarts("script", x)
             \/ \E shape \in DOMAIN FromHost : \E x \in FromHost[shape] : ExchangeStarts("host", x)
             \/ Reads \/ Writes
    BY <2>1, <2>6 DEF ExchangeStarts, Reads, Writes, Converted, ownVars
  <2>7. CASE UNCHANGED vars
    BY <2>1, <2>7 DEF vars, ownVars
  <2> QED BY <2>2, <2>3, <2>4, <2>5, <2>6, <2>7 DEF Next
<1>3. Inv /\ TablesAccounted => TablesFreedOnce
  <2> SUFFICES ASSUME Inv, TablesAccounted, NEW t \in DOMAIN tables, tables[t].clones = 0
               PROVE  tables[t].frees = IF Users(t) > 0 THEN 0 ELSE 1
    BY DEF TablesFreedOnce
  <2>1. host \in [Handles -> Slots] /\ tables \in Seq(TableNames)
    BY AccountParts DEF Inv, HostFits, Accounted
  <2>2. tables[t].frees \in Nat /\ t \in Nat
    <3>1. tables[t] \in TableNames /\ t \in Nat
      BY <2>1
    <3> QED BY <3>1 DEF TableNames
  <2>3. Users(t) = UsersOf(host, t) /\ UsersOf(host, t) \in Nat
    BY <2>1, <2>2, UsersCounted DEF Users, Owns
  <2>4. UsersOf(host, t) + tables[t].frees = 1
    BY DEF TablesAccounted, TableShared
  <2> QED BY <2>2, <2>3, <2>4
<1> QED BY <1>1, <1>2, <1>3, ReferencesAreAccounted, PTL DEF Spec
=============================================================================
