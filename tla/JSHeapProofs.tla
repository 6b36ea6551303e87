---------------------------- MODULE JSHeapProofs ----------------------------
(***************************************************************************)
(* Facts about the heap of JSHeap that hold for any number of containers:  *)
(* how many references it holds of a container, and how that number changes*)
(* when an entry or a whole container does.                                *)
(***************************************************************************)
EXTENDS JSHeap, FiniteSetTheorems, SequenceTheorems, TLAPS

-----------------------------------------------------------------------------
(* Least elements, induction and recursion over the numbers up to N.       *)

(* Every set of numbers has a least one; with it, induction and recursion  *)
(* as facts about sets, which need no operator as a parameter.             *)
LEMMA Least ==
  ASSUME NEW T, T \subseteq Nat, T # {}
  PROVE  \E x \in T : \A y \in T : x <= y
<1> DEFINE Below == {0..x : x \in T}
<1>1. Below \subseteq FiniteSubsetsOf(Nat)
  <2> SUFFICES ASSUME NEW x \in T
               PROVE  0..x \in SUBSET Nat /\ IsFiniteSet(0..x)
    BY DEF FiniteSubsetsOf
  <2>1. x \in Int /\ 0 \in Int
    OBVIOUS
  <2> QED BY <2>1, FS_Interval
<1>2. PICK U \in Below : \A V \in Below : ~ (<<V, U>> \in StrictSubsetOrdering(Nat))
  <2>1. Below # {}
    OBVIOUS
  <2> HIDE DEF Below
  <2> QED BY <1>1, <2>1, WFMin, FS_StrictSubsetOrderingWellFounded
<1>3. PICK x \in T : U = 0..x
  OBVIOUS
<1>4. ASSUME NEW y \in T, y < x
      PROVE  FALSE
  <2>1. 0..y \in Below /\ 0..y \subseteq 0..x /\ 0..y # 0..x
    <3>1. x \in 0..x /\ x \notin 0..y
      BY <1>4
    <3> QED BY <1>4, <3>1
  <2>2. <<0..y, 0..x>> \in StrictSubsetOrdering(Nat)
    BY <2>1 DEF StrictSubsetOrdering
  <2> QED BY <1>2, <1>3, <2>1, <2>2
<1> QED BY <1>4

LEMMA Induction ==
  ASSUME NEW N \in Nat, NEW S, 0 \in S,
         \A k \in 1..N : k - 1 \in S => k \in S
  PROVE  0..N \subseteq S
<1> DEFINE T == (0..N) \ S
<1>1. SUFFICES ASSUME T # {} PROVE FALSE
  OBVIOUS
<1>2. PICK x \in T : \A y \in T : x <= y
  <2>1. T \subseteq Nat
    OBVIOUS
  <2> HIDE DEF T
  <2> QED BY <1>1, <2>1, Least
<1>3. x \in 1..N /\ x - 1 \in 0..N
  OBVIOUS
<1> QED BY <1>2, <1>3

(* S has 0 and goes on up to N.                                            *)
Closed(S, N) == \A k \in 1..N : k - 1 \in S => k \in S

LEMMA Reached ==
  ASSUME NEW N \in Nat, NEW S, 0 \in S, Closed(S, N)
  PROVE  N \in S
<1>1. 0..N \subseteq S
  BY Induction DEF Closed
<1> QED BY <1>1

(* f starts at a and goes on by G.                                         *)
IsStep(G, X, N) == G \in [X \X (1..N) -> X]
Repeats(f, X, a, N, G) ==
  f \in [0..N -> X] /\ f[0] = a /\ \A k \in 1..N : f[k] = G[<<f[k-1], k>>]

(* Such a function exists: what a recursive definition names.              *)
LEMMA Recursion ==
  ASSUME NEW X, NEW a \in X, NEW N \in Nat, NEW G, IsStep(G, X, N)
  PROVE  \E f : Repeats(f, X, a, N, G)
<1> USE DEF IsStep, Repeats
<1> DEFINE Eq(f, n) == f[0] = a /\ \A k \in 1..n : f[k] = G[<<f[k-1], k>>]
<1> DEFINE S == {n \in 0..N : \E f \in [0..N -> X] : Eq(f, n)}
<1>1. 0 \in S
  <2> DEFINE g == [k \in 0..N |-> a]
  <2>1. g \in [0..N -> X]
    OBVIOUS
  <2>2. g[0] = a /\ 0 \in 0..N
    OBVIOUS
  <2> HIDE DEF g
  <2> QED BY <2>1, <2>2
<1>2. ASSUME NEW k \in 1..N, k - 1 \in S
      PROVE  k \in S
  <2>1. PICK f \in [0..N -> X] : Eq(f, k - 1)
    BY <1>2
  <2> DEFINE g == [f EXCEPT ![k] = G[<<f[k-1], k>>]]
  <2>2. g \in [0..N -> X]
    OBVIOUS
  <2>3. g[0] = a
    BY <2>1
  <2>4. ASSUME NEW j \in 1..k
        PROVE  g[j] = G[<<g[j-1], j>>]
    <3>1. g[j-1] = f[j-1]
      OBVIOUS
    <3>2. CASE j = k
      BY <3>1, <3>2
    <3>3. CASE j # k
      <4> j \in 1..k-1
        BY <3>3
      <4> g[j] = f[j]
        BY <3>3
      <4> QED BY <3>1, <2>1
    <3> QED BY <3>2, <3>3
  <2> HIDE DEF g
  <2> QED BY <2>2, <2>3, <2>4
<1>3. 0..N \subseteq S
  <2> HIDE DEF S
  <2> QED BY <1>1, <1>2, Induction
<1>4. PICK f \in [0..N -> X] : Eq(f, N)
  <2>1. N \in 0..N
    OBVIOUS
  <2> QED BY <1>3, <2>1
<1> QED BY <1>4

-----------------------------------------------------------------------------
(* The references containers hold.                                         *)

(* How often v is held by entries; what a node holds of node n.            *)
Count(entries, v) == Cardinality({i \in DOMAIN entries : entries[i].value = v})
HeldBy(node, n) == Count(node.entries, Ref(n)) + (IF node.proto = n THEN 1 ELSE 0)

(* A heap of finitely many nodes with finitely many entries.               *)
FiniteHeap(h) ==
  IsFiniteSet(DOMAIN h) /\ \A m \in DOMAIN h : IsFiniteSet(DOMAIN h[m].entries)

(* The entries of m that hold n; those of all nodes but k, and the other   *)
(* nodes that have n for their prototype.                                  *)
Places(h, m, n) ==
  {<<m, i>> : i \in {j \in DOMAIN h[m].entries : h[m].entries[j].value = Ref(n)}}
OtherPlaces(h, k, n) == UNION {Places(h, m, n) : m \in DOMAIN h \ {k}}
OtherKids(h, k, n) == {m \in DOMAIN h \ {k} : h[m].proto = n}

LEMMA CountIsNat ==
  ASSUME NEW s, IsFiniteSet(DOMAIN s), NEW v
  PROVE  /\ IsFiniteSet({i \in DOMAIN s : s[i].value = v})
         /\ Count(s, v) \in Nat
<1>1. {i \in DOMAIN s : s[i].value = v} \in SUBSET DOMAIN s
  OBVIOUS
<1>2. IsFiniteSet({i \in DOMAIN s : s[i].value = v})
  BY <1>1, FS_Subset
<1> QED BY <1>2, FS_CardinalityType DEF Count

LEMMA PairsCounted ==
  ASSUME NEW m, NEW A, IsFiniteSet(A)
  PROVE  /\ IsFiniteSet({<<m, i>> : i \in A})
         /\ Cardinality({<<m, i>> : i \in A}) = Cardinality(A)
<1> DEFINE B == {<<m, i>> : i \in A}
           f == [i \in A |-> <<m, i>>]
<1>1. f \in Bijection(A, B)
  BY DEF Bijection, Injection, Surjection, IsInjective
<1> HIDE DEF B, f
<1>2. ExistsBijection(A, B)
  BY <1>1 DEF ExistsBijection
<1>3. IsFiniteSet(B) /\ Cardinality(B) = Cardinality(A)
  BY <1>2, FS_Bijection
<1> QED BY <1>3 DEF B

LEMMA PlacesCounted ==
  ASSUME NEW h, FiniteHeap(h), NEW m \in DOMAIN h, NEW n
  PROVE  /\ IsFiniteSet(Places(h, m, n))
         /\ Cardinality(Places(h, m, n)) = Count(h[m].entries, Ref(n))
<1> DEFINE A == {j \in DOMAIN h[m].entries : h[m].entries[j].value = Ref(n)}
<1>1. IsFiniteSet(A)
  BY CountIsNat DEF FiniteHeap
<1>2. IsFiniteSet({<<m, i>> : i \in A}) /\ Cardinality({<<m, i>> : i \in A}) = Cardinality(A)
  <2> HIDE DEF A
  <2> QED BY <1>1, PairsCounted
<1> QED BY <1>2 DEF Places, Count

LEMMA UnionFinite ==
  ASSUME NEW D, IsFiniteSet(D), NEW f, DOMAIN f = D, \A m \in D : IsFiniteSet(f[m])
  PROVE  IsFiniteSet(UNION {f[m] : m \in D})
<1> DEFINE S == {f[m] : m \in D}
<1>1. [m \in D |-> f[m]] \in Surjection(D, S)
  BY DEF Surjection
<1>2. IsFiniteSet(S)
  <2> HIDE DEF S
  <2> QED BY <1>1, FS_Surjection
<1>3. \A T \in S : IsFiniteSet(T)
  OBVIOUS
<1> HIDE DEF S
<1> QED BY <1>2, <1>3, FS_UNION DEF S

(* What a heap holds of n: what one node holds, and what the others do.    *)
LEMMA HeldSplit ==
  ASSUME NEW h, FiniteHeap(h), NEW k \in DOMAIN h, NEW n
  PROVE  /\ Cardinality(OtherPlaces(h, k, n)) \in Nat
         /\ Cardinality(OtherKids(h, k, n)) \in Nat
         /\ HeldBy(h[k], n) \in Nat
         /\ HeldInHeap(h, n) = Cardinality(OtherPlaces(h, k, n))
                                 + Cardinality(OtherKids(h, k, n)) + HeldBy(h[k], n)
<1> DEFINE D == DOMAIN h \ {k}
           f == [m \in D |-> Places(h, m, n)]
           Here == Places(h, k, n)
           There == OtherPlaces(h, k, n)
           All == UNION {Places(h, m, n) : m \in DOMAIN h}
           Kids == {m \in DOMAIN h : h[m].proto = n}
           Others == OtherKids(h, k, n)
<1>1. IsFiniteSet(Here) /\ Cardinality(Here) = Count(h[k].entries, Ref(n)) /\ Cardinality(Here) \in Nat
  <2>1. IsFiniteSet(Here) /\ Cardinality(Here) = Count(h[k].entries, Ref(n))
    BY PlacesCounted
  <2> QED BY <2>1, FS_CardinalityType
<1>2. IsFiniteSet(There) /\ Cardinality(There) \in Nat
  <2>1. IsFiniteSet(D)
    BY FS_Difference DEF FiniteHeap
  <2>2. \A m \in D : IsFiniteSet(f[m])
    BY PlacesCounted
  <2>3. There = UNION {f[m] : m \in D}
    BY DEF OtherPlaces
  <2> HIDE DEF There
  <2>4. DOMAIN f = D
    OBVIOUS
  <2> HIDE DEF f, D
  <2>5. IsFiniteSet(There)
    BY <2>1, <2>2, <2>3, <2>4, UnionFinite
  <2> QED BY <2>5, FS_CardinalityType
<1>3. Cardinality(Here \cup There) = Cardinality(Here) + Cardinality(There)
  <2>1. Here \cap There = {}
    BY DEF Places, OtherPlaces
  <2> HIDE DEF Here, There
  <2> QED BY <1>1, <1>2, <2>1, FS_Union, FS_EmptySet
<1>4. Cardinality(All) = Cardinality(Here) + Cardinality(There)
  <2>1. All = Here \cup There
    <3> HIDE DEF Places
    <3> QED BY DEF OtherPlaces
  <2> HIDE DEF All, Here, There
  <2> QED BY <1>3, <2>1
<1>5. IsFiniteSet(Others) /\ Cardinality(Others) \in Nat
  <2>1. Others \in SUBSET DOMAIN h
    BY DEF OtherKids
  <2>2. IsFiniteSet(Others)
    BY <2>1, FS_Subset DEF FiniteHeap
  <2> QED BY <2>2, FS_CardinalityType
<1>6. Cardinality(Kids) = Cardinality(Others) + (IF h[k].proto = n THEN 1 ELSE 0)
  <2>1. CASE h[k].proto = n
    <3>1. Kids = Others \cup {k} /\ k \notin Others
      BY <2>1 DEF OtherKids
    <3> HIDE DEF Kids, Others
    <3> QED BY <1>5, <2>1, <3>1, FS_AddElement
  <2>2. CASE h[k].proto # n
    <3>1. Kids = Others
      BY <2>2 DEF OtherKids
    <3> HIDE DEF Kids, Others
    <3> QED BY <1>5, <2>2, <3>1
  <2> QED BY <2>1, <2>2
<1>7. HeldInHeap(h, n) = Cardinality(All) + Cardinality(Kids)
  BY DEF HeldInHeap, Places
<1>8. HeldBy(h[k], n) = Cardinality(Here) + (IF h[k].proto = n THEN 1 ELSE 0)
  BY <1>1 DEF HeldBy
<1>9. (IF h[k].proto = n THEN 1 ELSE 0) \in Nat
  OBVIOUS
<1> HIDE DEF Here, There, All, Kids, Others, D, f
<1>10. HeldInHeap(h, n) = Cardinality(There) + Cardinality(Others) + HeldBy(h[k], n)
  BY <1>1, <1>2, <1>4, <1>5, <1>6, <1>7, <1>8, <1>9
<1>11. HeldBy(h[k], n) \in Nat
  BY <1>1, <1>8, <1>9
<1> QED BY <1>2, <1>5, <1>10, <1>11 DEF There, Others

(* One node changes: so do the references of the heap.                     *)
LEMMA HeldChanges ==
  ASSUME NEW h, FiniteHeap(h), NEW g, FiniteHeap(g), DOMAIN g = DOMAIN h, NEW k \in DOMAIN h,
         \A m \in DOMAIN h \ {k} : g[m].entries = h[m].entries /\ g[m].proto = h[m].proto,
         NEW n
  PROVE  /\ HeldInHeap(g, n) = HeldInHeap(h, n) - HeldBy(h[k], n) + HeldBy(g[k], n)
         /\ HeldInHeap(g, n) \in Nat /\ HeldInHeap(h, n) \in Nat
         /\ HeldBy(h[k], n) \in Nat /\ HeldBy(g[k], n) \in Nat
         /\ HeldBy(h[k], n) <= HeldInHeap(h, n)
<1>1. OtherPlaces(g, k, n) = OtherPlaces(h, k, n) /\ OtherKids(g, k, n) = OtherKids(h, k, n)
  BY DEF OtherPlaces, OtherKids, Places
<1> QED BY <1>1, HeldSplit

(* Counts and kinds are no references.                                     *)
LEMMA HeldSame ==
  ASSUME NEW h, NEW g, DOMAIN g = DOMAIN h,
         \A m \in DOMAIN h : g[m].entries = h[m].entries /\ g[m].proto = h[m].proto,
         NEW n
  PROVE  HeldInHeap(g, n) = HeldInHeap(h, n)
<1>1. \A m \in DOMAIN h :
        {j \in DOMAIN g[m].entries : g[m].entries[j].value = Ref(n)}
          = {j \in DOMAIN h[m].entries : h[m].entries[j].value = Ref(n)}
  OBVIOUS
<1>2. {m \in DOMAIN g : g[m].proto = n} = {m \in DOMAIN h : h[m].proto = n}
  OBVIOUS
<1>3. \A m \in DOMAIN h : Places(g, m, n) = Places(h, m, n)
  BY <1>1 DEF Places
<1>4. UNION {Places(g, m, n) : m \in DOMAIN g} = UNION {Places(h, m, n) : m \in DOMAIN h}
  BY <1>3
<1> QED BY <1>2, <1>4 DEF HeldInHeap, Places

-----------------------------------------------------------------------------
(* The entries of a container that hold a value.                           *)

(* One where x is y.                                                       *)
Is(x, y) == IF x = y THEN 1 ELSE 0

(* Nodes whose entries hold values of V.                                   *)
Entries(V) == [key : Strings \cup {None}, value : V]
Nodes(V) ==
  [kind : {"object", "array", "proxy", "freed"}, entries : Seq(Entries(V)),
   proto : Nat \cup {None}, refs : Int]

LEMMA OneMore ==
  ASSUME NEW R, IsFiniteSet(R), NEW k, k \notin R, NEW x, NEW y,
         NEW B, B = IF x = y THEN R \cup {k} ELSE R
  PROVE  /\ Cardinality(B) = Cardinality(R) + Is(x, y)
         /\ Cardinality(R) \in Nat /\ IsFiniteSet(B)
<1>1. Cardinality(R) \in Nat
  BY FS_CardinalityType
<1>2. CASE x = y
  <2>1. B = R \cup {k}
    BY <1>2
  <2>2. IsFiniteSet(B) /\ Cardinality(B) = Cardinality(R) + 1
    BY <2>1, FS_AddElement
  <2> QED BY <1>1, <1>2, <2>2 DEF Is
<1>3. CASE x # y
  BY <1>1, <1>3 DEF Is
<1> QED BY <1>2, <1>3

(* An entry is overwritten, appended, or taken out.                        *)
LEMMA CountOfChanged ==
  ASSUME NEW s, NEW t, DOMAIN t = DOMAIN s, IsFiniteSet(DOMAIN s), NEW k \in DOMAIN s,
         \A i \in DOMAIN s \ {k} : t[i].value = s[i].value, NEW v
  PROVE  /\ Count(t, v) = Count(s, v) - Is(s[k].value, v) + Is(t[k].value, v)
         /\ Count(s, v) \in Nat /\ Count(t, v) \in Nat
         /\ Is(s[k].value, v) <= Count(s, v)
<1> DEFINE A == {i \in DOMAIN s : s[i].value = v}
           B == {i \in DOMAIN t : t[i].value = v}
           R == {i \in DOMAIN s \ {k} : s[i].value = v}
<1>1. IsFiniteSet(R) /\ Cardinality(R) \in Nat
  <2>1. R \in SUBSET DOMAIN s
    OBVIOUS
  <2> HIDE DEF R
  <2> QED BY <2>1, FS_Subset, FS_CardinalityType
<1>2. Cardinality(A) = Cardinality(R) + Is(s[k].value, v)
  <2>1. A = IF s[k].value = v THEN R \cup {k} ELSE R
    OBVIOUS
  <2>2. k \notin R
    OBVIOUS
  <2> HIDE DEF A, R
  <2> QED BY <1>1, <2>1, <2>2, OneMore
<1>3. Cardinality(B) = Cardinality(R) + Is(t[k].value, v)
  <2>1. B = IF t[k].value = v THEN R \cup {k} ELSE R
    OBVIOUS
  <2>2. k \notin R
    OBVIOUS
  <2> HIDE DEF B, R
  <2> QED BY <1>1, <2>1, <2>2, OneMore
<1>4. Count(s, v) = Cardinality(A) /\ Count(t, v) = Cardinality(B)
  BY DEF Count
<1>5. Is(s[k].value, v) \in {0, 1} /\ Is(t[k].value, v) \in {0, 1}
  BY DEF Is
<1> HIDE DEF A, B, R
<1> QED BY <1>1, <1>2, <1>3, <1>4, <1>5

LEMMA CountOfNone ==
  ASSUME NEW s, NEW v, \A i \in DOMAIN s : s[i].value # v
  PROVE  Count(s, v) = 0
BY FS_EmptySet DEF Count

LEMMA CountOfSome ==
  ASSUME NEW s, IsFiniteSet(DOMAIN s), NEW i \in DOMAIN s
  PROVE  Count(s, s[i].value) > 0
<1> DEFINE A == {j \in DOMAIN s : s[j].value = s[i].value}
<1>1. A # {}
  OBVIOUS
<1>2. IsFiniteSet(A) /\ Cardinality(A) \in Nat
  BY CountIsNat DEF Count
<1>3. Cardinality(A) > 0
  <2> HIDE DEF A
  <2> QED BY <1>1, <1>2, FS_EmptySet
<1> QED BY <1>3 DEF Count

LEMMA CountOfAppend ==
  ASSUME NEW E, NEW s \in Seq(E), NEW e \in E, NEW v
  PROVE  Count(Append(s, e), v) = Count(s, v) + Is(e.value, v)
<1> DEFINE A == {i \in DOMAIN s : s[i].value = v}
           t == Append(s, e)
           B == {i \in DOMAIN t : t[i].value = v}
           k == Len(s) + 1
<1>1. IsFiniteSet(A) /\ Cardinality(A) \in Nat
  <2>1. IsFiniteSet(DOMAIN s)
    BY FS_Interval
  <2> QED BY <2>1, CountIsNat DEF Count
<1>2. B = IF e.value = v THEN A \cup {k} ELSE A
  <2>1. DOMAIN t = DOMAIN s \cup {k} /\ t[k] = e /\ \A i \in DOMAIN s : t[i] = s[i]
    OBVIOUS
  <2>2. k \notin DOMAIN s
    OBVIOUS
  <2> HIDE DEF t, k
  <2> QED BY <2>1, <2>2
<1>3. k \notin A
  OBVIOUS
<1>4. Cardinality(B) = Cardinality(A) + Is(e.value, v)
  <2> HIDE DEF A, B, k
  <2> QED BY <1>1, <1>2, <1>3, OneMore
<1> QED BY <1>4 DEF Count

LEMMA CountOfRest ==
  ASSUME NEW E, NEW s \in Seq(E), NEW i \in DOMAIN s, NEW v
  PROVE  LET t == [j \in 1..Len(s) - 1 |-> s[IF j < i THEN j ELSE j + 1]]
         IN  /\ t \in Seq(E)
             /\ Count(t, v) = Count(s, v) - Is(s[i].value, v)
<1> DEFINE t == [j \in 1..Len(s) - 1 |-> s[IF j < i THEN j ELSE j + 1]]
           A == {j \in DOMAIN s : s[j].value = v}
           R == A \ {i}
           B == {j \in DOMAIN t : t[j].value = v}
           f == [j \in B |-> IF j < i THEN j ELSE j + 1]
<1>1. t \in Seq(E)
  <2>1. Len(s) - 1 \in Nat
    OBVIOUS
  <2>2. \A j \in 1..Len(s) - 1 : t[j] \in E
    OBVIOUS
  <2>3. t \in [1..Len(s) - 1 -> E]
    BY <2>2
  <2> HIDE DEF t
  <2> QED BY <2>1, <2>3
<1>2. f \in Bijection(B, R)
  <2>1. f \in [B -> R]
    OBVIOUS
  <2>2. \A a, b \in B : f[a] = f[b] => a = b
    OBVIOUS
  <2>3. \A r \in R : \E b \in B : f[b] = r
    <3> TAKE r \in R
    <3> DEFINE b == IF r < i THEN r ELSE r - 1
    <3>1. b \in 1..Len(s) - 1
      OBVIOUS
    <3>2. t[b] = s[r]
      OBVIOUS
    <3>3. b \in B /\ f[b] = r
      BY <3>1, <3>2
    <3> QED BY <3>3
  <2> HIDE DEF f, B, R
  <2> QED BY <2>1, <2>2, <2>3 DEF Bijection, Injection, Surjection, IsInjective
<1>3. IsFiniteSet(A) /\ Cardinality(A) \in Nat
  <2>1. IsFiniteSet(DOMAIN s)
    BY FS_Interval
  <2> QED BY <2>1, CountIsNat DEF Count
<1>4. IsFiniteSet(R) /\ Cardinality(R) = Cardinality(A) - Is(s[i].value, v)
  <2>1. s[i].value = v <=> i \in A
    OBVIOUS
  <2> HIDE DEF A
  <2> QED BY <1>3, <2>1, FS_RemoveElement DEF Is
<1>5. Cardinality(B) = Cardinality(R)
  <2> HIDE DEF f, B, R
  <2>1. ExistsBijection(B, R)
    BY <1>2 DEF ExistsBijection
  <2>2. IsFiniteSet(B)
    <3>1. f \in Injection(B, R)
      BY <1>2 DEF Bijection
    <3> QED BY <1>4, <3>1, FS_Injection
  <2> QED BY <2>1, <2>2, FS_Bijection
<1> QED BY <1>1, <1>4, <1>5 DEF Count
=============================================================================
