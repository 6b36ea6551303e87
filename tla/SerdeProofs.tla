---------------------------- MODULE SerdeProofs -----------------------------
(***************************************************************************)
(* What holds of to_js and from_js for any value, however deep and long,   *)
(* and for any widths of numbers.                                          *)
(*                                                                         *)
(* to_js: the counts of the containers are exact, the open ones are a path *)
(* from the root, and only keys fail.  A serializer at work is described   *)
(* by the compounds around the next value: each has its container in the   *)
(* spine, and a key is pending just when a member is due.                  *)
(*                                                                         *)
(* from_js: everything it names exists, and it reports a cycle just when   *)
(* there is one.  Its path is a walk of distinct containers, each read out *)
(* of the one before, and as long as the open compounds ask for; what it   *)
(* has read to the end can be sorted, each container after all it leads to.*)
(***************************************************************************)
EXTENDS Serde, JSHeapProofs

-----------------------------------------------------------------------------
(* Values, containers and heaps that fit.                                  *)

(* A value, in a heap of N containers.                                     *)
ValueFits(v, N) ==
  /\ v \in JSValue
  /\ \/ v.tag = "int" /\ v.data \in MinI32..MaxI32
     \/ v.tag \in {"float", "bigint"} /\ v.data \in MinI64..MaxU64
     \/ v.tag = "string" /\ v.data \in Strings
     \/ v.tag \in {"undefined", "null", "throws"} /\ v.data = None
     \/ v.tag = "node" /\ v.data \in 1..N

(* A container in such a heap.                                             *)
NodeFits(x, N) ==
  /\ x \in Nodes(JSValue) /\ x.kind # "freed" /\ x.proto \in 1..N \cup {None}
  /\ \A i \in DOMAIN x.entries :
       ValueFits(x.entries[i].value, N) /\ (x.kind = "object" => x.entries[i].key \in Strings)

HeapFits(h) == h \in Seq(Nodes(JSValue)) /\ \A n \in 1..Len(h) : NodeFits(h[n], Len(h))

(* What these say of the parts of a heap.                                  *)
LEMMA HeapParts ==
  ASSUME NEW h, HeapFits(h)
  PROVE  /\ Len(h) \in Nat /\ DOMAIN h = 1..Len(h) /\ FiniteHeap(h)
         /\ \A n \in DOMAIN h : /\ h[n] \in Nodes(JSValue) /\ NodeFits(h[n], Len(h))
                                /\ h[n].refs \in Int /\ h[n].entries \in Seq(Entries(JSValue))
                                /\ h[n].kind \in {"object", "array", "proxy"}
                                /\ h[n].proto \in 1..Len(h) \cup {None}
<1>1. Len(h) \in Nat /\ DOMAIN h = 1..Len(h) /\ \A n \in DOMAIN h : h[n] \in Nodes(JSValue)
  BY DEF HeapFits
<1>2. \A n \in DOMAIN h : NodeFits(h[n], Len(h))
  BY <1>1 DEF HeapFits
<1>3. \A n \in DOMAIN h : h[n].refs \in Int /\ h[n].entries \in Seq(Entries(JSValue))
  BY <1>1 DEF Nodes
<1>4. \A n \in DOMAIN h : h[n].kind \in {"object", "array", "proxy"} /\ h[n].proto \in 1..Len(h) \cup {None}
  BY <1>1, <1>2 DEF NodeFits, Nodes
<1>5. FiniteHeap(h)
  <2>1. IsFiniteSet(DOMAIN h)
    BY <1>1, FS_Interval
  <2>2. \A m \in DOMAIN h : IsFiniteSet(DOMAIN h[m].entries)
    BY <1>3, FS_Interval
  <2> QED BY <2>1, <2>2 DEF FiniteHeap
<1> QED BY <1>1, <1>2, <1>3, <1>4, <1>5

(* One container is another one.                                           *)
NodeReplaced(g, h, m, x) == g = [h EXCEPT ![m] = x]

(* The heap still fits.                                                    *)
LEMMA ReplacedFits ==
  ASSUME NEW h, HeapFits(h), NEW m \in DOMAIN h, NEW x, NodeFits(x, Len(h)), NEW g, NodeReplaced(g, h, m, x)
  PROVE  /\ HeapFits(g) /\ Len(g) = Len(h) /\ DOMAIN g = DOMAIN h
         /\ g[m] = x /\ \A n \in DOMAIN h \ {m} : g[n] = h[n]
<1>1. h \in Seq(Nodes(JSValue)) /\ x \in Nodes(JSValue)
  BY DEF HeapFits, NodeFits
<1>2. /\ g \in Seq(Nodes(JSValue)) /\ Len(g) = Len(h) /\ DOMAIN g = DOMAIN h
      /\ g[m] = x /\ \A n \in DOMAIN h \ {m} : g[n] = h[n]
  BY <1>1 DEF NodeReplaced
<1>3. \A n \in 1..Len(g) : NodeFits(g[n], Len(g))
  <2> TAKE n \in 1..Len(g)
  <2>1. n \in DOMAIN h /\ NodeFits(h[n], Len(h))
    BY <1>2, HeapParts
  <2> QED BY <1>2, <2>1
<1> QED BY <1>2, <1>3 DEF HeapFits

LEMMA RefsChange ==
  ASSUME NEW x, NEW N \in Nat, NodeFits(x, N), NEW r \in Int, NEW y, y = [x EXCEPT !.refs = r]
  PROVE  /\ NodeFits(y, N) /\ y.kind = x.kind /\ y.entries = x.entries
         /\ y.proto = x.proto /\ y.refs = r
<1>1. x \in Nodes(JSValue)
  BY DEF NodeFits
<1>2. /\ y \in Nodes(JSValue) /\ y.kind = x.kind /\ y.entries = x.entries
      /\ y.proto = x.proto /\ y.refs = r
  BY <1>1 DEF Nodes
<1> QED BY <1>2 DEF NodeFits

(* h and g differ in counts only.                                          *)
SameShape(g, h) ==
  /\ Len(g) = Len(h) /\ DOMAIN g = DOMAIN h
  /\ \A n \in DOMAIN h : g[n].kind = h[n].kind /\ g[n].entries = h[n].entries /\ g[n].proto = h[n].proto

IfRef(v, n, d) == IF v = Ref(n) THEN d ELSE 0

(* JS_DupValue and JS_FreeValue.                                           *)
LEMMA RefsMoved ==
  ASSUME NEW h, HeapFits(h), NEW v, ValueFits(v, Len(h)), NEW d \in Int, NEW g, g = AddRefs(h, v, d)
  PROVE  /\ HeapFits(g) /\ SameShape(g, h)
         /\ \A n \in DOMAIN h : /\ HeldInHeap(g, n) = HeldInHeap(h, n)
                                /\ g[n].refs = h[n].refs + IfRef(v, n, d)
<1>1. CASE ~IsNode(v)
  <2>1. g = h
    BY <1>1 DEF AddRefs
  <2>2. \A n : v # Ref(n)
    BY <1>1 DEF IsNode, Ref, Value
  <2>3. \A n \in DOMAIN h : h[n].refs \in Int
    BY HeapParts
  <2> QED BY <2>1, <2>2, <2>3 DEF SameShape, IfRef
<1>2. CASE IsNode(v)
  <2> DEFINE m == v.data
             x == [h[m] EXCEPT !.refs = @ + d]
  <2>1. m \in DOMAIN h /\ v = Ref(m)
    <3>1. m \in 1..Len(h)
      BY <1>2 DEF ValueFits, IsNode
    <3>2. v \in JSValue
      BY DEF ValueFits
    <3>3. v = Ref(m)
      BY <1>2, <3>2 DEF JSValue, Ref, Value, IsNode
    <3> QED BY <3>1, <3>3, HeapParts
  <2>2. NodeReplaced(g, h, m, x)
    BY <1>2 DEF AddRefs, NodeReplaced
  <2>3. /\ NodeFits(x, Len(h)) /\ x.entries = h[m].entries /\ x.proto = h[m].proto
        /\ x.kind = h[m].kind /\ x.refs = h[m].refs + d
    <3>1. NodeFits(h[m], Len(h)) /\ h[m].refs + d \in Int /\ Len(h) \in Nat
      BY <2>1, HeapParts
    <3> QED BY <3>1, RefsChange
  <2> HIDE DEF x
  <2>4. /\ HeapFits(g) /\ Len(g) = Len(h) /\ DOMAIN g = DOMAIN h
        /\ g[m] = x /\ \A n \in DOMAIN h \ {m} : g[n] = h[n]
    <3> HIDE DEF m
    <3> QED BY <2>1, <2>2, <2>3, ReplacedFits
  <2>5. SameShape(g, h)
    BY <2>3, <2>4 DEF SameShape
  <2>6. \A n \in DOMAIN h : g[n].refs = h[n].refs + IfRef(v, n, d)
    <3> TAKE n \in DOMAIN h
    <3>1. h[n].refs \in Int
      BY HeapParts
    <3>2. v = Ref(n) <=> n = m
      BY <2>1 DEF Ref, Value
    <3> QED BY <2>3, <2>4, <3>1, <3>2 DEF IfRef
  <2>7. \A n \in DOMAIN h : HeldInHeap(g, n) = HeldInHeap(h, n)
    BY <2>5, HeldSame DEF SameShape
  <2> QED BY <2>4, <2>5, <2>6, <2>7
<1> QED BY <1>1, <1>2

(* A container takes a reference over.                                     *)

(* Container m of h takes v over; nothing else changes.                    *)
TakenOver(g, h, m, v) ==
  /\ HeapFits(g) /\ Len(g) = Len(h) /\ DOMAIN g = DOMAIN h
  /\ \A n \in DOMAIN h : /\ g[n].kind = h[n].kind /\ g[n].refs = h[n].refs
                         /\ HeldInHeap(g, n) = HeldInHeap(h, n) + IfRef(v, n, 1)
  /\ \A n \in DOMAIN h \ {m} : g[n].entries = h[n].entries /\ g[n].proto = h[n].proto

LastIs(x, v) == x.entries # <<>> /\ x.entries[Len(x.entries)].value = v

LEMMA IsOfRef ==
  ASSUME NEW v, NEW n
  PROVE  Is(v, Ref(n)) = IfRef(v, n, 1)
BY DEF Is, IfRef

LEMMA EntryFits ==
  ASSUME NEW v, NEW N \in Nat, ValueFits(v, N), NEW key \in Strings \cup {None}
  PROVE  Entry(key, v) \in Entries(JSValue) /\ Entry(key, v).value = v /\ Entry(key, v).key = key
BY DEF Entry, Entries, ValueFits

Appended(y, x, e) == y = [x EXCEPT !.entries = Append(@, e)]

LEMMA AppendedFits ==
  ASSUME NEW x, NEW N \in Nat, NodeFits(x, N), NEW v, ValueFits(v, N), NEW key \in Strings \cup {None},
         x.kind = "object" => key \in Strings, NEW y, Appended(y, x, Entry(key, v))
  PROVE  /\ NodeFits(y, N) /\ y.kind = x.kind /\ y.proto = x.proto /\ y.refs = x.refs
         /\ y.entries = Append(x.entries, Entry(key, v)) /\ LastIs(y, v)
<1> DEFINE e == Entry(key, v)
           es == Append(x.entries, e)
<1>1. e \in Entries(JSValue) /\ e.value = v /\ e.key = key
  BY EntryFits
<1>2. x \in Nodes(JSValue) /\ x.entries \in Seq(Entries(JSValue))
  BY DEF NodeFits, Nodes
<1> HIDE DEF e
<1>3. es \in Seq(Entries(JSValue))
  BY <1>1, <1>2
<1>4. /\ DOMAIN es = DOMAIN x.entries \cup {Len(es)} /\ es[Len(es)] = e /\ es # <<>>
      /\ \A i \in DOMAIN x.entries : es[i] = x.entries[i]
  <2> DEFINE xs == x.entries
             E == Entries(JSValue)
  <2>1. xs \in Seq(E) /\ e \in E
    BY <1>1, <1>2
  <2> HIDE DEF xs, E
  <2>2. /\ DOMAIN Append(xs, e) = DOMAIN xs \cup {Len(Append(xs, e))}
        /\ Append(xs, e)[Len(Append(xs, e))] = e /\ Append(xs, e) # <<>>
        /\ \A i \in DOMAIN xs : Append(xs, e)[i] = xs[i]
    BY <2>1
  <2> QED BY <2>2 DEF xs
<1> HIDE DEF es
<1>5. y = [x EXCEPT !.entries = es]
  BY DEF Appended, e, es
<1>6. /\ y \in Nodes(JSValue) /\ y.kind = x.kind /\ y.proto = x.proto /\ y.refs = x.refs
      /\ y.entries = es
  BY <1>2, <1>3, <1>5 DEF Nodes
<1>7. NodeFits(y, N)
  <2>1. \A i \in DOMAIN y.entries :
          ValueFits(y.entries[i].value, N) /\ (y.kind = "object" => y.entries[i].key \in Strings)
    <3> TAKE i \in DOMAIN y.entries
    <3>1. CASE i = Len(es)
      BY <1>1, <1>4, <1>6, <3>1
    <3>2. CASE i # Len(es)
      <4>1. i \in DOMAIN x.entries /\ es[i] = x.entries[i]
        BY <1>4, <1>6, <3>2
      <4> QED BY <1>6, <4>1 DEF NodeFits
    <3> QED BY <3>1, <3>2
  <2> QED BY <1>6, <2>1 DEF NodeFits
<1>8. LastIs(y, v)
  BY <1>1, <1>4, <1>6 DEF LastIs
<1> QED BY <1>6, <1>7, <1>8 DEF es, e

(* A container takes over the reference to a value as its last entry.      *)
LEMMA EntryTakenOver ==
  ASSUME NEW h, HeapFits(h), NEW m \in DOMAIN h, NEW v, ValueFits(v, Len(h)), NEW key \in Strings \cup {None},
         h[m].kind = "object" => key \in Strings,
         NEW y, Appended(y, h[m], Entry(key, v)), NEW g, NodeReplaced(g, h, m, y)
  PROVE  TakenOver(g, h, m, v) /\ LastIs(g[m], v) /\ g[m].proto = h[m].proto
<1>1. /\ Len(h) \in Nat /\ NodeFits(h[m], Len(h)) /\ h[m].entries \in Seq(Entries(JSValue)) /\ FiniteHeap(h)
  BY HeapParts
<1>2. /\ NodeFits(y, Len(h)) /\ y.kind = h[m].kind /\ y.proto = h[m].proto /\ y.refs = h[m].refs
      /\ y.entries = Append(h[m].entries, Entry(key, v)) /\ LastIs(y, v)
  <2> DEFINE x == h[m]
  <2>1. NodeFits(x, Len(h)) /\ (x.kind = "object" => key \in Strings) /\ Appended(y, x, Entry(key, v))
    BY <1>1
  <2> HIDE DEF x
  <2>2. /\ NodeFits(y, Len(h)) /\ y.kind = x.kind /\ y.proto = x.proto /\ y.refs = x.refs
        /\ y.entries = Append(x.entries, Entry(key, v)) /\ LastIs(y, v)
    BY <1>1, <2>1, AppendedFits
  <2> QED BY <2>2 DEF x
<1>3. /\ HeapFits(g) /\ Len(g) = Len(h) /\ DOMAIN g = DOMAIN h
      /\ g[m] = y /\ \A n \in DOMAIN h \ {m} : g[n] = h[n]
  BY <1>2, ReplacedFits
<1>4. \A n \in DOMAIN h : HeldInHeap(g, n) = HeldInHeap(h, n) + IfRef(v, n, 1)
  <2> TAKE n \in DOMAIN h
  <2>1. /\ FiniteHeap(g) /\ FiniteHeap(h) /\ DOMAIN g = DOMAIN h
        /\ \A k \in DOMAIN h \ {m} : g[k].entries = h[k].entries /\ g[k].proto = h[k].proto
    BY <1>1, <1>3, HeapParts
  <2>2. /\ HeldInHeap(g, n) = HeldInHeap(h, n) - HeldBy(h[m], n) + HeldBy(g[m], n)
        /\ HeldInHeap(h, n) \in Nat /\ HeldBy(h[m], n) \in Nat /\ HeldBy(g[m], n) \in Nat
    BY <2>1, HeldChanges
  <2>3. Count(y.entries, Ref(n)) = Count(h[m].entries, Ref(n)) + IfRef(v, n, 1)
    <3>1. Entry(key, v) \in Entries(JSValue) /\ Entry(key, v).value = v
      BY <1>1, EntryFits
    <3>2. Count(Append(h[m].entries, Entry(key, v)), Ref(n))
            = Count(h[m].entries, Ref(n)) + Is(Entry(key, v).value, Ref(n))
      BY <1>1, <3>1, CountOfAppend
    <3> QED BY <1>2, <3>1, <3>2, IsOfRef
  <2>4. Count(h[m].entries, Ref(n)) \in Nat
    BY <1>1, CountIsNat DEF FiniteHeap
  <2>5. HeldBy(g[m], n) = HeldBy(h[m], n) + IfRef(v, n, 1)
    <3> DEFINE a == Count(h[m].entries, Ref(n))
               b == Count(y.entries, Ref(n))
               c == IF h[m].proto = n THEN 1 ELSE 0
               d == IfRef(v, n, 1)
    <3>1. HeldBy(h[m], n) = a + c /\ HeldBy(g[m], n) = b + c
      BY <1>2, <1>3 DEF HeldBy
    <3>2. a \in Nat /\ c \in Nat /\ d \in Nat /\ b = a + d
      BY <2>3, <2>4 DEF IfRef
    <3> HIDE DEF a, b, c, d
    <3>3. HeldBy(g[m], n) = HeldBy(h[m], n) + d
      BY <3>1, <3>2
    <3> QED BY <3>3 DEF d
  <2>6. IfRef(v, n, 1) \in Nat
    BY DEF IfRef
  <2> QED BY <2>2, <2>5, <2>6
<1> QED BY <1>2, <1>3, <1>4 DEF TakenOver

(* JS_SetPropertyInt64 and JS_SetPropertyStr.                              *)
LEMMA ElementPushed ==
  ASSUME NEW h, HeapFits(h), NEW m \in DOMAIN h, NEW v, ValueFits(v, Len(h)), h[m].kind = "array",
         NEW g, g = PushElement(h, m, v)
  PROVE  TakenOver(g, h, m, v) /\ LastIs(g[m], v) /\ g[m].proto = h[m].proto
<1> DEFINE y == [h[m] EXCEPT !.entries = Append(@, Entry(None, v))]
<1>1. NodeReplaced(g, h, m, y) /\ Appended(y, h[m], Entry(None, v))
  BY DEF PushElement, NodeReplaced, Appended
<1> HIDE DEF y
<1>2. h[m].kind # "object" /\ None \in Strings \cup {None}
  OBVIOUS
<1> QED BY <1>1, <1>2, EntryTakenOver

(* A member is set; __proto__ takes a container once.                      *)
LEMMA MemberSet ==
  ASSUME NEW h, HeapFits(h), NEW m \in DOMAIN h, NEW v, ValueFits(v, Len(h)), NEW key \in Strings,
         key = ProtoKey => h[m].proto = None,
         NEW g, g = SetMember(h, m, key, v)
  PROVE  /\ TakenOver(g, h, m, v)
         /\ IsNode(v) => LastIs(g[m], v) \/ g[m].proto = v.data
         /\ key # ProtoKey => g[m].proto = h[m].proto
<1>0. Len(h) \in Nat /\ NodeFits(h[m], Len(h)) /\ FiniteHeap(h) /\ DOMAIN h = 1..Len(h)
  BY HeapParts
<1>1. CASE key # ProtoKey
  <2> DEFINE y == [h[m] EXCEPT !.entries = Append(@, Entry(key, v))]
  <2>1. NodeReplaced(g, h, m, y) /\ Appended(y, h[m], Entry(key, v))
    BY <1>1 DEF SetMember, NodeReplaced, Appended
  <2> HIDE DEF y
  <2> QED BY <2>1, EntryTakenOver
<1>2. CASE key = ProtoKey /\ ~IsNode(v)
  <2>1. g = h
    BY <1>2 DEF SetMember
  <2>2. \A n \in DOMAIN h : v # Ref(n)
    BY <1>2 DEF IsNode, Ref, Value
  <2>3. \A n \in DOMAIN h : HeldInHeap(h, n) \in Nat
    BY <1>0, HeldSplit
  <2>4. \A n \in DOMAIN h : HeldInHeap(g, n) = HeldInHeap(h, n) + IfRef(v, n, 1)
    BY <2>1, <2>2, <2>3 DEF IfRef
  <2> QED BY <1>2, <2>1, <2>4 DEF TakenOver
<1>3. CASE key = ProtoKey /\ IsNode(v)
  <2> DEFINE p == v.data
             y == [h[m] EXCEPT !.proto = p]
  <2>1. NodeReplaced(g, h, m, y)
    BY <1>3 DEF SetMember, NodeReplaced
  <2>2. p \in 1..Len(h) /\ v = Ref(p)
    <3>1. p \in 1..Len(h) /\ v \in JSValue
      BY <1>3 DEF ValueFits, IsNode
    <3> QED BY <1>3, <3>1 DEF JSValue, Ref, Value, IsNode
  <2> HIDE DEF p
  <2>3. /\ NodeFits(y, Len(h)) /\ y.kind = h[m].kind /\ y.entries = h[m].entries /\ y.refs = h[m].refs
        /\ y.proto = p
    <3>1. h[m] \in Nodes(JSValue) /\ p \in Nat
      BY <1>0, <2>2 DEF NodeFits
    <3>2. /\ y \in Nodes(JSValue) /\ y.kind = h[m].kind /\ y.entries = h[m].entries /\ y.refs = h[m].refs
          /\ y.proto = p
      BY <3>1 DEF Nodes
    <3> HIDE DEF y
    <3> QED BY <1>0, <2>2, <3>2 DEF NodeFits
  <2> HIDE DEF y
  <2>4. /\ HeapFits(g) /\ Len(g) = Len(h) /\ DOMAIN g = DOMAIN h
        /\ g[m] = y /\ \A n \in DOMAIN h \ {m} : g[n] = h[n]
    BY <2>1, <2>3, ReplacedFits
  <2>5. \A n \in DOMAIN h : HeldInHeap(g, n) = HeldInHeap(h, n) + IfRef(v, n, 1)
    <3> TAKE n \in DOMAIN h
    <3>1. /\ FiniteHeap(g) /\ FiniteHeap(h) /\ DOMAIN g = DOMAIN h
          /\ m \in DOMAIN h /\ \A k \in DOMAIN h \ {m} : g[k].entries = h[k].entries /\ g[k].proto = h[k].proto
      BY <1>0, <2>4, HeapParts
    <3>2. /\ HeldInHeap(g, n) = HeldInHeap(h, n) - HeldBy(h[m], n) + HeldBy(g[m], n)
          /\ HeldInHeap(h, n) \in Nat /\ HeldBy(h[m], n) \in Nat /\ HeldBy(g[m], n) \in Nat
      BY ONLY <3>1, HeldChanges
    <3>3. Count(h[m].entries, Ref(n)) \in Nat
      BY <1>0, CountIsNat DEF FiniteHeap
    <3>4. n # None /\ (v = Ref(n) <=> n = p)
      <4>1. n \in Nat
        BY <1>0
      <4> QED BY <2>2, <4>1, NoneIsNoNumber DEF Ref, Value
    <3>5. HeldBy(g[m], n) = HeldBy(h[m], n) + IfRef(v, n, 1)
      BY <1>3, <2>3, <2>4, <3>3, <3>4 DEF HeldBy, IfRef
    <3>6. IfRef(v, n, 1) \in Nat
      BY DEF IfRef
    <3> QED BY <3>2, <3>5, <3>6
  <2> QED BY <1>3, <2>3, <2>4, <2>5 DEF TakenOver, p
<1> QED BY <1>1, <1>2, <1>3

(* The references of a serializer.                                         *)

SerRecords ==
  [heap : Seq(Nodes(JSValue)), root : JSValue, paths : Seq(JSValue), current : JSValue \cup {None},
   current_is_key : BOOLEAN, current_key : Strings \cup {None},
   status : {"running", "error", "done", "failed"}, leaked : SUBSET Nat]

(* What it names exists.                                                   *)
SerFits(s) ==
  /\ s \in SerRecords /\ HeapFits(s.heap)
  /\ ValueFits(s.root, Len(s.heap)) /\ (s.current # None => ValueFits(s.current, Len(s.heap)))
  /\ \A i \in DOMAIN s.paths : ValueFits(s.paths[i], Len(s.heap)) /\ IsNode(s.paths[i])
  /\ s.leaked \subseteq 1..Len(s.heap)

PathCount(p, v) == Cardinality({i \in DOMAIN p : p[i] = v})
Leak(s, n) == IF n \in s.leaked THEN 1 ELSE 0

(* Every reference is counted, and one of f that nobody holds yet.         *)
CountedWith(s, f) ==
  \A n \in DOMAIN s.heap :
    s.heap[n].refs = HeldByHost(s, n) + HeldInHeap(s.heap, n) + Leak(s, n) + IfRef(f, n, 1)

LEMMA PathCountIsNat ==
  ASSUME NEW p \in Seq(JSValue), NEW v
  PROVE  IsFiniteSet({i \in DOMAIN p : p[i] = v}) /\ PathCount(p, v) \in Nat
<1>1. {i \in DOMAIN p : p[i] = v} \in SUBSET DOMAIN p /\ IsFiniteSet(DOMAIN p)
  BY FS_Interval
<1>2. IsFiniteSet({i \in DOMAIN p : p[i] = v})
  BY <1>1, FS_Subset
<1> QED BY <1>2, FS_CardinalityType DEF PathCount

(* A container enters the path, and leaves it.                             *)
LEMMA PathAppended ==
  ASSUME NEW p \in Seq(JSValue), NEW w \in JSValue, NEW v
  PROVE  PathCount(Append(p, w), v) = PathCount(p, v) + Is(w, v)
<1> DEFINE A == {i \in DOMAIN p : p[i] = v}
           t == Append(p, w)
           B == {i \in DOMAIN t : t[i] = v}
           k == Len(p) + 1
<1>1. IsFiniteSet(A) /\ k \notin A
  <2>1. k \notin A
    OBVIOUS
  <2> QED BY <2>1, PathCountIsNat
<1>2. B = IF w = v THEN A \cup {k} ELSE A
  <2>1. DOMAIN t = DOMAIN p \cup {k} /\ t[k] = w /\ (\A i \in DOMAIN p : t[i] = p[i]) /\ k \notin DOMAIN p
    OBVIOUS
  <2> HIDE DEF t, k
  <2> QED BY <2>1
<1>3. Cardinality(B) = Cardinality(A) + Is(w, v)
  <2> HIDE DEF A, B, k
  <2> QED BY <1>1, <1>2, OneMore
<1> QED BY <1>3 DEF PathCount

(* The last of the paths.                                                  *)
Front(p) == SubSeq(p, 1, Len(p) - 1)

LEMMA PathPopped ==
  ASSUME NEW p \in Seq(JSValue), p # <<>>, NEW v
  PROVE  /\ Front(p) \in Seq(JSValue) /\ Len(Front(p)) = Len(p) - 1 /\ p[Len(p)] \in JSValue
         /\ \A i \in 1..Len(p) - 1 : Front(p)[i] = p[i]
         /\ PathCount(p, v) = PathCount(Front(p), v) + Is(p[Len(p)], v)
<1>1. Len(p) \in Nat /\ Len(p) > 0 /\ p[Len(p)] \in JSValue
  OBVIOUS
<1>2. /\ Front(p) \in Seq(JSValue) /\ Len(Front(p)) = Len(p) - 1
      /\ \A i \in 1..Len(p) - 1 : Front(p)[i] = p[i]
  <2> DEFINE k == Len(p) - 1
  <2>1. k \in Int /\ 1 \in Int /\ k \in Nat /\ \A i \in 1..k : p[i] \in JSValue
    BY <1>1
  <2> HIDE DEF k
  <2>2. /\ SubSeq(p, 1, k) \in Seq(JSValue) /\ Len(SubSeq(p, 1, k)) = IF 1 <= k THEN k - 1 + 1 ELSE 0
        /\ \A i \in 1..k - 1 + 1 : SubSeq(p, 1, k)[i] = p[1 + i - 1]
    BY <2>1, SubSeqProperties
  <2>3. /\ Len(SubSeq(p, 1, k)) = k /\ \A i \in 1..k : SubSeq(p, 1, k)[i] = p[i]
    BY <2>1, <2>2
  <2> QED BY <2>2, <2>3 DEF Front, k
<1>3. p = Append(Front(p), p[Len(p)])
  <2> DEFINE q == Front(p)
             w == p[Len(p)]
  <2>1. /\ q \in Seq(JSValue) /\ Len(q) = Len(p) - 1 /\ w \in JSValue
        /\ \A i \in 1..Len(p) - 1 : q[i] = p[i]
    BY <1>1, <1>2
  <2>2. w = p[Len(p)]
    OBVIOUS
  <2> HIDE DEF q, w
  <2>3. Len(Append(q, w)) = Len(p) /\ \A i \in 1..Len(p) : Append(q, w)[i] = p[i]
    BY <1>1, <2>1, <2>2
  <2>4. Append(q, w) \in Seq(JSValue)
    BY <2>1
  <2> QED BY <2>3, <2>4 DEF q, w
<1>4. PathCount(Append(Front(p), p[Len(p)]), v) = PathCount(Front(p), v) + Is(p[Len(p)], v)
  BY <1>1, <1>2, PathAppended
<1> QED BY <1>1, <1>2, <1>3, <1>4

(* What a serializer holds of a container.                                 *)
LEMMA HostHolds ==
  ASSUME NEW s, SerFits(s), NEW n
  PROVE  /\ HeldByHost(s, n) = PathCount(s.paths, Ref(n)) + IfRef(s.current, n, 1) + IfRef(s.root, n, 1)
         /\ PathCount(s.paths, Ref(n)) \in Nat /\ HeldByHost(s, n) \in Nat
<1>1. HeldByHost(s, n) = PathCount(s.paths, Ref(n)) + IfRef(s.current, n, 1) + IfRef(s.root, n, 1)
  BY DEF HeldByHost, PathCount, IfRef
<1>2. s.paths \in Seq(JSValue)
  BY DEF SerFits, SerRecords
<1>3. PathCount(s.paths, Ref(n)) \in Nat
  BY <1>2, PathCountIsNat
<1>4. IfRef(s.current, n, 1) \in Nat /\ IfRef(s.root, n, 1) \in Nat
  BY DEF IfRef
<1> QED BY <1>1, <1>3, <1>4

LEMMA NoRef ==
  ASSUME NEW n \in Nat
  PROVE  /\ IfRef(None, n, 1) = 0 /\ IfRef(Undefined, n, 1) = 0 /\ Ref(n) \in JSValue
         /\ \A v : ~IsNode(v) => IfRef(v, n, 1) = 0
<1>1. Ref(n) \in JSValue
  BY DEF Ref, Value, JSValue, Tags
<1>2. None # Ref(n)
  BY <1>1, NoneIsNoValue
<1>3. Undefined # Ref(n) /\ \A v : ~IsNode(v) => v # Ref(n)
  BY DEF Undefined, Ref, Value, IsNode
<1> QED BY <1>1, <1>2, <1>3 DEF IfRef

(* Fields of a serializer that took or lost a reference.                   *)
LEMMA SerParts ==
  ASSUME NEW s, SerFits(s)
  PROVE  /\ HeapFits(s.heap) /\ Len(s.heap) \in Nat /\ DOMAIN s.heap = 1..Len(s.heap)
         /\ ValueFits(s.root, Len(s.heap)) /\ (s.current # None => ValueFits(s.current, Len(s.heap)))
         /\ s.paths \in Seq(JSValue) /\ s.root \in JSValue /\ s.current \in JSValue \cup {None}
         /\ s.current_key \in Strings \cup {None} /\ s.current_is_key \in BOOLEAN
         /\ \A i \in DOMAIN s.paths : ValueFits(s.paths[i], Len(s.heap)) /\ IsNode(s.paths[i])
         /\ s.leaked \subseteq 1..Len(s.heap)
         /\ \A n \in DOMAIN s.heap : s.heap[n].refs \in Int /\ HeldInHeap(s.heap, n) \in Nat /\ n \in Nat
<1>1. HeapFits(s.heap)
  BY DEF SerFits
<1>2. /\ Len(s.heap) \in Nat /\ DOMAIN s.heap = 1..Len(s.heap) /\ FiniteHeap(s.heap)
      /\ \A n \in DOMAIN s.heap : s.heap[n].refs \in Int
  BY <1>1, HeapParts
<1>3. \A n \in DOMAIN s.heap : HeldInHeap(s.heap, n) \in Nat /\ n \in Nat
  BY <1>2, HeldSplit
<1>4. /\ s.paths \in Seq(JSValue) /\ s.root \in JSValue /\ s.current \in JSValue \cup {None}
      /\ s.current_key \in Strings \cup {None} /\ s.current_is_key \in BOOLEAN
  BY DEF SerFits, SerRecords
<1>5. /\ ValueFits(s.root, Len(s.heap)) /\ (s.current # None => ValueFits(s.current, Len(s.heap)))
      /\ s.leaked \subseteq 1..Len(s.heap)
      /\ \A i \in DOMAIN s.paths : ValueFits(s.paths[i], Len(s.heap)) /\ IsNode(s.paths[i])
  BY DEF SerFits
<1> QED BY <1>1, <1>2, <1>3, <1>4, <1>5

(* A serializer is made of parts that fit.                                 *)
LEMMA SerMade ==
  ASSUME NEW t, t \in SerRecords, NEW N \in Nat, HeapFits(t.heap), Len(t.heap) = N,
         ValueFits(t.root, N), t.current # None => ValueFits(t.current, N),
         \A i \in DOMAIN t.paths : ValueFits(t.paths[i], N) /\ IsNode(t.paths[i]),
         t.leaked \subseteq 1..N
  PROVE  SerFits(t)
BY DEF SerFits

(* set_node_value.                                                         *)

(* The counts of the two agree when what changed in them does.             *)
LEMMA SameSum ==
  ASSUME NEW r \in Int, NEW r2 \in Int, NEW p \in Nat, NEW p2 \in Nat, NEW h \in Nat, NEW h2 \in Nat,
         NEW l \in Nat, NEW l2 \in Nat, NEW f \in Nat, NEW f2 \in Nat,
         r = p + h + l + f, r2 - r = (p2 - p) + (h2 - h) + (l2 - l) + (f2 - f)
  PROVE  r2 = p2 + h2 + l2 + f2
OBVIOUS

LEMMA CountsMove ==
  ASSUME NEW s, SerFits(s), NEW t, SerFits(t), NEW f, NEW f2, CountedWith(s, f),
         DOMAIN t.heap = DOMAIN s.heap,
         \A n \in DOMAIN s.heap :
           t.heap[n].refs - s.heap[n].refs
             = (HeldByHost(t, n) - HeldByHost(s, n)) + (HeldInHeap(t.heap, n) - HeldInHeap(s.heap, n))
                 + (Leak(t, n) - Leak(s, n)) + (IfRef(f2, n, 1) - IfRef(f, n, 1))
  PROVE  CountedWith(t, f2)
<1> SUFFICES ASSUME NEW n \in DOMAIN t.heap
             PROVE  t.heap[n].refs = HeldByHost(t, n) + HeldInHeap(t.heap, n) + Leak(t, n) + IfRef(f2, n, 1)
  BY DEF CountedWith
<1>1. /\ s.heap[n].refs \in Int /\ HeldInHeap(s.heap, n) \in Nat /\ HeldByHost(s, n) \in Nat
      /\ t.heap[n].refs \in Int /\ HeldInHeap(t.heap, n) \in Nat /\ HeldByHost(t, n) \in Nat
  BY SerParts, HostHolds
<1>2. /\ Leak(s, n) \in Nat /\ Leak(t, n) \in Nat /\ IfRef(f, n, 1) \in Nat /\ IfRef(f2, n, 1) \in Nat
  BY DEF Leak, IfRef
<1>3. s.heap[n].refs = HeldByHost(s, n) + HeldInHeap(s.heap, n) + Leak(s, n) + IfRef(f, n, 1)
  BY DEF CountedWith
<1> QED BY <1>1, <1>2, <1>3, SameSum

(* What set_node_value keeps, however it ends.                             *)
Keeps(s, t) ==
  /\ SerFits(t) /\ CountedWith(t, Undefined)
  /\ Len(t.heap) = Len(s.heap) /\ t.paths = s.paths /\ t.current_is_key = s.current_is_key

(* The value is the root.                                                  *)
RootSet(s, v, t) ==
  /\ t.root = v /\ t.current = v /\ t.current_key = s.current_key
  /\ t.status = s.status /\ t.leaked = s.leaked /\ SameShape(t.heap, s.heap)

(* The current container has it.                                           *)
Stored(s, v, t) ==
  LET m == s.current.data IN
  /\ t.root = s.root /\ t.current = s.current /\ t.status = s.status /\ t.leaked = s.leaked
  /\ TakenOver(t.heap, s.heap, m, v)
  /\ IsNode(v) => LastIs(t.heap[m], v) \/ t.heap[m].proto = v.data
  /\ s.current_key # ProtoKey => t.heap[m].proto = s.heap[m].proto
  /\ t.current_key = IF s.heap[m].kind = "array" THEN s.current_key ELSE None

(* No member is called __proto__ twice.                                    *)
ProtoFree(s) ==
  s.current_key = ProtoKey /\ s.current # None /\ IsNode(s.current) => s.heap[s.current.data].proto = None

IsRoot(s, v, t) ==
  t = [s EXCEPT !.heap = Dup(Free(@, s.root), v), !.root = v, !.current = v]

(* The three ways a value finds its place, and those in which it finds     *)
(* none.                                                                   *)
LEMMA RootPlaced ==
  ASSUME NEW s, SerFits(s), NEW v, ValueFits(v, Len(s.heap)), CountedWith(s, v), s.current = None,
         NEW t, IsRoot(s, v, t)
  PROVE  Keeps(s, t) /\ RootSet(s, v, t)
<1> DEFINE g == Free(s.heap, s.root)
           g2 == Dup(g, v)
           N == Len(s.heap)
<1>1. /\ HeapFits(s.heap) /\ N \in Nat /\ ValueFits(s.root, N)
  BY SerParts
<1>2. /\ HeapFits(g) /\ SameShape(g, s.heap)
      /\ \A n \in DOMAIN s.heap : /\ HeldInHeap(g, n) = HeldInHeap(s.heap, n)
                                  /\ g[n].refs = s.heap[n].refs + IfRef(s.root, n, -1)
  BY <1>1, RefsMoved DEF Free
<1>3. Len(g) = N /\ DOMAIN g = DOMAIN s.heap
  BY <1>2 DEF SameShape
<1> HIDE DEF g
<1>4. /\ HeapFits(g2) /\ SameShape(g2, g)
      /\ \A n \in DOMAIN g : /\ HeldInHeap(g2, n) = HeldInHeap(g, n)
                             /\ g2[n].refs = g[n].refs + IfRef(v, n, 1)
  <2>1. ValueFits(v, Len(g))
    BY <1>3
  <2> QED BY <1>2, <2>1, RefsMoved DEF Dup
<1>5. /\ t \in SerRecords /\ t.heap = g2 /\ t.root = v /\ t.current = v /\ t.paths = s.paths
      /\ t.current_is_key = s.current_is_key /\ t.current_key = s.current_key
      /\ t.status = s.status /\ t.leaked = s.leaked
  <2>1. g2 \in Seq(Nodes(JSValue)) /\ v \in JSValue
    BY <1>4 DEF HeapFits, ValueFits
  <2>2. t = [s EXCEPT !.heap = g2, !.root = v, !.current = v]
    BY DEF IsRoot, g, g2
  <2> HIDE DEF g2
  <2> QED BY <2>1, <2>2 DEF SerFits, SerRecords
<1> HIDE DEF g2
<1>6. SameShape(g2, s.heap) /\ Len(g2) = N /\ DOMAIN g2 = DOMAIN s.heap
  BY <1>2, <1>4 DEF SameShape
<1>7. SerFits(t)
  <2>1. \A i \in DOMAIN t.paths : ValueFits(t.paths[i], N) /\ IsNode(t.paths[i])
    BY <1>5, SerParts
  <2>2. t.leaked \subseteq 1..N
    BY <1>5, SerParts
  <2>3. HeapFits(t.heap) /\ Len(t.heap) = N /\ ValueFits(t.root, N) /\ ValueFits(t.current, N)
    BY <1>4, <1>5, <1>6
  <2> HIDE DEF N
  <2> QED BY <1>1, <1>5, <2>1, <2>2, <2>3, SerMade
<1>8. \A n \in DOMAIN s.heap :
        t.heap[n].refs - s.heap[n].refs
          = (HeldByHost(t, n) - HeldByHost(s, n)) + (HeldInHeap(t.heap, n) - HeldInHeap(s.heap, n))
              + (Leak(t, n) - Leak(s, n)) + (IfRef(Undefined, n, 1) - IfRef(v, n, 1))
  <2> TAKE n \in DOMAIN s.heap
  <2> DEFINE a == IfRef(s.root, n, 1)
             b == IfRef(v, n, 1)
             c == PathCount(s.paths, Ref(n))
             r == s.heap[n].refs
             H == HeldInHeap(s.heap, n)
             l == Leak(s, n)
             q == HeldByHost(s, n)
             p == HeldByHost(t, n)
             z == t.heap[n].refs
  <2>1. /\ n \in Nat /\ r \in Int /\ H \in Nat /\ HeldInHeap(t.heap, n) = H
        /\ z = (r + IfRef(s.root, n, -1)) + b
    BY <1>2, <1>3, <1>4, <1>5, SerParts
  <2>2. q = c + 0 + a /\ p = c + b + b /\ c \in Nat
    BY <1>5, <1>7, <2>1, HostHolds, NoRef
  <2>3. IfRef(s.root, n, -1) = -a /\ a \in Nat /\ b \in Nat
    BY DEF IfRef
  <2>4. Leak(t, n) = l /\ l \in Nat
    BY <1>5 DEF Leak
  <2>5. IfRef(Undefined, n, 1) = 0
    BY <2>1, NoRef
  <2>6. z = (r + (-a)) + b
    BY <2>1, <2>3
  <2> HIDE DEF a, b, c, r, H, l, q, p, z
  <2>7. z - r = (p - q) + (H - H) + (l - l) + (0 - b)
    BY <2>1, <2>2, <2>3, <2>4, <2>6
  <2> QED BY <2>1, <2>4, <2>5, <2>7 DEF b, r, H, l, q, p, z
<1>9. CountedWith(t, Undefined)
  <2>1. DOMAIN t.heap = DOMAIN s.heap
    BY <1>5, <1>6
  <2> QED BY <1>7, <1>8, <2>1, CountsMove
<1> QED BY <1>5, <1>6, <1>7, <1>9 DEF Keeps, RootSet

(* A container took the value over.                                        *)
Held(s, g, key, t) == t = [s EXCEPT !.heap = g, !.current_key = key]

LEMMA TakenPlaced ==
  ASSUME NEW s, SerFits(s), NEW v, ValueFits(v, Len(s.heap)), CountedWith(s, v),
         NEW m \in DOMAIN s.heap, NEW g, TakenOver(g, s.heap, m, v),
         NEW key \in Strings \cup {None}, NEW t, Held(s, g, key, t)
  PROVE  /\ Keeps(s, t) /\ t.heap = g /\ t.current_key = key
         /\ t.root = s.root /\ t.current = s.current /\ t.status = s.status /\ t.leaked = s.leaked
<1> DEFINE N == Len(s.heap)
<1>1. /\ HeapFits(g) /\ Len(g) = N /\ DOMAIN g = DOMAIN s.heap
      /\ \A n \in DOMAIN s.heap : /\ g[n].refs = s.heap[n].refs
                                  /\ HeldInHeap(g, n) = HeldInHeap(s.heap, n) + IfRef(v, n, 1)
  BY DEF TakenOver
<1>2. /\ t \in SerRecords /\ t.heap = g /\ t.root = s.root /\ t.current = s.current /\ t.paths = s.paths
      /\ t.current_is_key = s.current_is_key /\ t.current_key = key
      /\ t.status = s.status /\ t.leaked = s.leaked
  <2>1. g \in Seq(Nodes(JSValue))
    BY <1>1 DEF HeapFits
  <2> QED BY <2>1 DEF Held, SerFits, SerRecords
<1>3. SerFits(t)
  <2>1. /\ \A i \in DOMAIN t.paths : ValueFits(t.paths[i], N) /\ IsNode(t.paths[i])
    BY <1>2, SerParts
  <2>2. /\ t.leaked \subseteq 1..N /\ N \in Nat
        /\ ValueFits(t.root, N) /\ (t.current # None => ValueFits(t.current, N))
    BY <1>2, SerParts
  <2>3. HeapFits(t.heap) /\ Len(t.heap) = N
    BY <1>1, <1>2
  <2> HIDE DEF N
  <2> QED BY <1>2, <2>1, <2>2, <2>3, SerMade
<1>4. \A n \in DOMAIN s.heap :
        t.heap[n].refs - s.heap[n].refs
          = (HeldByHost(t, n) - HeldByHost(s, n)) + (HeldInHeap(t.heap, n) - HeldInHeap(s.heap, n))
              + (Leak(t, n) - Leak(s, n)) + (IfRef(Undefined, n, 1) - IfRef(v, n, 1))
  <2> TAKE n \in DOMAIN s.heap
  <2> DEFINE b == IfRef(v, n, 1)
             r == s.heap[n].refs
             H == HeldInHeap(s.heap, n)
             p == HeldByHost(s, n)
             l == Leak(s, n)
  <2>1. /\ n \in Nat /\ r \in Int /\ H \in Nat /\ HeldInHeap(t.heap, n) = H + b
        /\ t.heap[n].refs = r
    BY <1>1, <1>2, SerParts
  <2>2. HeldByHost(t, n) = p /\ p \in Nat
    BY <1>2, <1>3, HostHolds
  <2>3. b \in Nat /\ l \in Nat /\ Leak(t, n) = l
    BY <1>2 DEF IfRef, Leak
  <2>4. IfRef(Undefined, n, 1) = 0
    BY <2>1, NoRef
  <2> HIDE DEF b, r, H, p, l
  <2>5. t.heap[n].refs - r = (HeldByHost(t, n) - p) + (HeldInHeap(t.heap, n) - H)
                               + (Leak(t, n) - l) + (IfRef(Undefined, n, 1) - b)
    BY <2>1, <2>2, <2>3, <2>4
  <2> QED BY <2>5 DEF b, r, H, p, l
<1>5. CountedWith(t, Undefined)
  <2>1. DOMAIN t.heap = DOMAIN s.heap
    BY <1>1, <1>2
  <2> QED BY <1>3, <1>4, <2>1, CountsMove
<1> QED BY <1>1, <1>2, <1>3, <1>5 DEF Keeps

(* The value is freed, and the serializer fails.                           *)
IsFreed(s, v, key, t) == t = [s EXCEPT !.heap = Free(@, v), !.current_key = key, !.status = "error"]

LEMMA FreedPlaced ==
  ASSUME NEW s, SerFits(s), NEW v, ValueFits(v, Len(s.heap)), CountedWith(s, v),
         NEW key \in Strings \cup {None}, NEW t, IsFreed(s, v, key, t)
  PROVE  Keeps(s, t) /\ t.status = "error"
<1> DEFINE N == Len(s.heap)
           g == Free(s.heap, v)
<1>1. HeapFits(s.heap) /\ N \in Nat
  BY SerParts
<1>2. /\ HeapFits(g) /\ SameShape(g, s.heap)
      /\ \A n \in DOMAIN s.heap : /\ HeldInHeap(g, n) = HeldInHeap(s.heap, n)
                                  /\ g[n].refs = s.heap[n].refs + IfRef(v, n, -1)
  BY <1>1, RefsMoved DEF Free
<1>3. Len(g) = N /\ DOMAIN g = DOMAIN s.heap
  BY <1>2 DEF SameShape
<1>4. /\ t \in SerRecords /\ t.heap = g /\ t.root = s.root /\ t.current = s.current /\ t.paths = s.paths
      /\ t.current_is_key = s.current_is_key /\ t.status = "error" /\ t.leaked = s.leaked
  <2>1. g \in Seq(Nodes(JSValue))
    BY <1>2 DEF HeapFits
  <2>2. t = [s EXCEPT !.heap = g, !.current_key = key, !.status = "error"]
    BY DEF IsFreed, g
  <2> HIDE DEF g
  <2> QED BY <2>1, <2>2 DEF SerFits, SerRecords
<1> HIDE DEF g
<1>5. SerFits(t)
  <2>1. /\ \A i \in DOMAIN t.paths : ValueFits(t.paths[i], N) /\ IsNode(t.paths[i])
    BY <1>4, SerParts
  <2>2. /\ t.leaked \subseteq 1..N /\ N \in Nat
        /\ ValueFits(t.root, N) /\ (t.current # None => ValueFits(t.current, N))
    BY <1>4, SerParts
  <2>3. HeapFits(t.heap) /\ Len(t.heap) = N
    BY <1>2, <1>3, <1>4
  <2> HIDE DEF N
  <2> QED BY <1>4, <2>1, <2>2, <2>3, SerMade
<1>6. \A n \in DOMAIN s.heap :
        t.heap[n].refs - s.heap[n].refs
          = (HeldByHost(t, n) - HeldByHost(s, n)) + (HeldInHeap(t.heap, n) - HeldInHeap(s.heap, n))
              + (Leak(t, n) - Leak(s, n)) + (IfRef(Undefined, n, 1) - IfRef(v, n, 1))
  <2> TAKE n \in DOMAIN s.heap
  <2> DEFINE b == IfRef(v, n, 1)
             r == s.heap[n].refs
             H == HeldInHeap(s.heap, n)
             p == HeldByHost(s, n)
             l == Leak(s, n)
  <2>1. /\ n \in Nat /\ r \in Int /\ H \in Nat /\ HeldInHeap(t.heap, n) = H
        /\ t.heap[n].refs = r + IfRef(v, n, -1)
    BY <1>2, <1>4, SerParts
  <2>2. HeldByHost(t, n) = p /\ p \in Nat
    BY <1>4, <1>5, HostHolds
  <2>3. b \in Nat /\ l \in Nat /\ Leak(t, n) = l /\ IfRef(v, n, -1) = -b
    BY <1>4 DEF IfRef, Leak
  <2>4. IfRef(Undefined, n, 1) = 0
    BY <2>1, NoRef
  <2>5. t.heap[n].refs = r + (-b)
    BY <2>1, <2>3
  <2> HIDE DEF b, r, H, p, l
  <2>6. t.heap[n].refs - r = (HeldByHost(t, n) - p) + (HeldInHeap(t.heap, n) - H)
                               + (Leak(t, n) - l) + (IfRef(Undefined, n, 1) - b)
    BY <2>1, <2>2, <2>3, <2>4, <2>5
  <2> QED BY <2>6 DEF b, r, H, p, l
<1>7. CountedWith(t, Undefined)
  <2>1. DOMAIN t.heap = DOMAIN s.heap
    BY <1>3, <1>4
  <2> QED BY <1>5, <1>6, <2>1, CountsMove
<1> QED BY <1>3, <1>4, <1>5, <1>7 DEF Keeps

(* A release build forgets it.                                             *)
IsLeaked(s, v, t) ==
  t = [s EXCEPT !.leaked = @ \cup (IF IsNode(v) THEN {v.data} ELSE {}), !.status = "error"]

LEMMA LeakedPlaced ==
  ASSUME NEW s, SerFits(s), NEW v, ValueFits(v, Len(s.heap)), CountedWith(s, v),
         IsNode(v) => v.data \notin s.leaked, NEW t, IsLeaked(s, v, t)
  PROVE  Keeps(s, t) /\ t.status = "error"
<1> DEFINE N == Len(s.heap)
           L == s.leaked \cup (IF IsNode(v) THEN {v.data} ELSE {})
<1>1. HeapFits(s.heap) /\ N \in Nat /\ s.leaked \subseteq 1..N
  BY SerParts
<1>2. IsNode(v) => v.data \in 1..N /\ v = Ref(v.data)
  <2>1. v \in JSValue /\ (IsNode(v) => v.data \in 1..N)
    BY DEF ValueFits, IsNode
  <2> QED BY <2>1 DEF JSValue, Ref, Value, IsNode
<1>3. L \subseteq 1..N /\ L \in SUBSET Nat
  BY <1>1, <1>2
<1>4. /\ t \in SerRecords /\ t.heap = s.heap /\ t.root = s.root /\ t.current = s.current /\ t.paths = s.paths
      /\ t.current_is_key = s.current_is_key /\ t.status = "error" /\ t.leaked = L
  <2>1. t = [s EXCEPT !.leaked = L, !.status = "error"]
    BY DEF IsLeaked, L
  <2> HIDE DEF L
  <2> QED BY <1>3, <2>1 DEF SerFits, SerRecords
<1>5. SerFits(t)
  <2>1. /\ \A i \in DOMAIN t.paths : ValueFits(t.paths[i], N) /\ IsNode(t.paths[i])
    BY <1>4, SerParts
  <2>2. ValueFits(t.root, N) /\ (t.current # None => ValueFits(t.current, N))
    BY <1>4, SerParts
  <2>3. HeapFits(t.heap) /\ Len(t.heap) = N /\ t.leaked \subseteq 1..N
    BY <1>1, <1>3, <1>4
  <2> HIDE DEF N
  <2> QED BY <1>1, <1>4, <2>1, <2>2, <2>3, SerMade
<1>6. \A n \in DOMAIN s.heap :
        t.heap[n].refs - s.heap[n].refs
          = (HeldByHost(t, n) - HeldByHost(s, n)) + (HeldInHeap(t.heap, n) - HeldInHeap(s.heap, n))
              + (Leak(t, n) - Leak(s, n)) + (IfRef(Undefined, n, 1) - IfRef(v, n, 1))
  <2> TAKE n \in DOMAIN s.heap
  <2> DEFINE b == IfRef(v, n, 1)
             r == s.heap[n].refs
             H == HeldInHeap(s.heap, n)
             p == HeldByHost(s, n)
             l == Leak(s, n)
  <2>1. /\ n \in Nat /\ r \in Int /\ H \in Nat /\ HeldInHeap(t.heap, n) = H
        /\ t.heap[n].refs = r
    BY <1>4, SerParts
  <2>2. HeldByHost(t, n) = p /\ p \in Nat
    BY <1>4, <1>5, HostHolds
  <2>3. b \in Nat /\ l \in Nat /\ Leak(t, n) = l + b
    <3>1. CASE v = Ref(n)
      <4>1. IsNode(v) /\ v.data = n
        BY <3>1 DEF IsNode, Ref, Value
      <4> QED BY <1>4, <3>1, <4>1 DEF IfRef, Leak
    <3>2. CASE v # Ref(n)
      <4>1. IsNode(v) => v.data # n
        BY <1>2, <3>2
      <4> QED BY <1>4, <3>2, <4>1 DEF IfRef, Leak
    <3> QED BY <3>1, <3>2
  <2>4. IfRef(Undefined, n, 1) = 0
    BY <2>1, NoRef
  <2> HIDE DEF b, r, H, p, l
  <2>6. t.heap[n].refs - r = (HeldByHost(t, n) - p) + (HeldInHeap(t.heap, n) - H)
                               + (Leak(t, n) - l) + (IfRef(Undefined, n, 1) - b)
    BY <2>1, <2>2, <2>3, <2>4
  <2> QED BY <2>6 DEF b, r, H, p, l
<1>7. CountedWith(t, Undefined)
  <2>1. DOMAIN t.heap = DOMAIN s.heap
    BY <1>4
  <2> HIDE DEF L, N
  <2> QED BY <1>5, <1>6, <2>1, CountsMove
<1> QED BY <1>4, <1>5, <1>7 DEF Keeps

LEMMA ForgetKeeps ==
  ASSUME NEW s, SerFits(s), NEW v, ValueFits(v, Len(s.heap)), CountedWith(s, v),
         IsNode(v) => v.data \notin s.leaked, NEW t, t = Forget(s, v)
  PROVE  Keeps(s, t) /\ t.status = "error"
<1>1. s \in SerRecords
  BY DEF SerFits
<1>2. IsLeaked(s, v, t)
  <2> DEFINE L == s.leaked \cup (IF IsNode(v) THEN {v.data} ELSE {})
  <2>1. t = [[s EXCEPT !.leaked = L] EXCEPT !.status = "error"]
    BY DEF Forget, Fails
  <2> HIDE DEF L
  <2>2. t = [s EXCEPT !.leaked = L, !.status = "error"]
    BY <1>1, <2>1 DEF SerRecords
  <2> QED BY <2>2 DEF L, IsLeaked
<1> QED BY <1>2, LeakedPlaced

LEMMA Refuses ==
  ASSUME NEW s, SerFits(s), NEW v, ValueFits(v, Len(s.heap)), CountedWith(s, v),
         IsNode(v) => v.data \notin s.leaked, NEW t, t = Refuse(s, v)
  PROVE  Keeps(s, t) /\ t.status = "error"
<1>1. s \in SerRecords /\ s.current_key \in Strings \cup {None}
  BY SerParts DEF SerFits
<1>2. CASE DebugAssertions
  <2>1. IsFreed(s, v, s.current_key, t)
    <3> DEFINE g == Free(s.heap, v)
    <3>1. t = [[s EXCEPT !.heap = g] EXCEPT !.status = "error"]
      BY <1>2 DEF Refuse, Fails
    <3> HIDE DEF g
    <3>2. t = [s EXCEPT !.heap = g, !.current_key = s.current_key, !.status = "error"]
      BY <1>1, <3>1 DEF SerRecords
    <3> QED BY <3>2 DEF g, IsFreed
  <2> QED BY <1>1, <2>1, FreedPlaced
<1>3. CASE ~DebugAssertions
  BY <1>3, ForgetKeeps DEF Refuse
<1> QED BY <1>2, <1>3

(* There is a place for a value.                                           *)
CanTake(s) ==
  \/ s.current = None
  \/ IsNode(s.current) /\ (s.heap[s.current.data].kind = "array" \/ s.current_key \notin {None, NulText})

LEMMA NodeNamed ==
  ASSUME NEW v, NEW N, ValueFits(v, N), IsNode(v)
  PROVE  v.data \in 1..N /\ v = Ref(v.data)
<1>1. v \in JSValue /\ v.data \in 1..N
  BY DEF ValueFits, IsNode
<1> QED BY <1>1 DEF JSValue, Ref, Value, IsNode

(* set_node_value keeps the counts exact, however it ends, and says why it *)
(* ends as it does.                                                        *)
LEMMA SetNodeValueKeeps ==
  ASSUME NEW s, SerFits(s), NEW v, ValueFits(v, Len(s.heap)), CountedWith(s, v),
         IsNode(v) => v.data \notin s.leaked, ProtoFree(s), s.current # Undefined,
         NEW t, t = set_node_value(s, v)
  PROVE  /\ Keeps(s, t)
         /\ CanTake(s) /\ s.current = None => RootSet(s, v, t)
         /\ CanTake(s) /\ s.current # None => Stored(s, v, t)
         /\ ~CanTake(s) => t.status = "error"
<1>1. CASE s.current = None
  <2>1. IsRoot(s, v, t)
    BY <1>1 DEF set_node_value, IsRoot
  <2>2. CanTake(s)
    BY <1>1 DEF CanTake
  <2> QED BY <1>1, <2>1, <2>2, RootPlaced
<1>2. CASE s.current # None /\ ~IsNode(s.current)
  <2>1. t = Forget(s, v)
    BY <1>2 DEF set_node_value, is_array, is_object
  <2>2. ~CanTake(s)
    BY <1>2 DEF CanTake
  <2> QED BY <2>1, <2>2, ForgetKeeps
<1>3. CASE s.current # None /\ IsNode(s.current)
  <2> DEFINE m == s.current.data
  <2>1. m \in DOMAIN s.heap /\ HeapFits(s.heap)
    <3>1. ValueFits(s.current, Len(s.heap)) /\ DOMAIN s.heap = 1..Len(s.heap) /\ HeapFits(s.heap)
      BY <1>3, SerParts
    <3> QED BY <1>3, <3>1, NodeNamed
  <2>2. CASE s.heap[m].kind = "array"
    <3> DEFINE g == PushElement(s.heap, m, v)
    <3>1. TakenOver(g, s.heap, m, v) /\ LastIs(g[m], v) /\ g[m].proto = s.heap[m].proto
      BY <2>1, <2>2, ElementPushed
    <3>2. t = [s EXCEPT !.heap = g]
      BY <1>3, <2>2 DEF set_node_value, is_array, is_object
    <3> HIDE DEF g, m
    <3>3. Held(s, g, s.current_key, t) /\ s.current_key \in Strings \cup {None}
      <4>1. s \in SerRecords /\ s.current_key \in Strings \cup {None}
        BY SerParts DEF SerFits
      <4> QED BY <3>2, <4>1 DEF Held, SerRecords
    <3>4. /\ Keeps(s, t) /\ t.heap = g /\ t.current_key = s.current_key
          /\ t.root = s.root /\ t.current = s.current /\ t.status = s.status /\ t.leaked = s.leaked
      BY <2>1, <3>1, <3>3, TakenPlaced
    <3>5. Stored(s, v, t)
      BY <2>2, <3>1, <3>4 DEF Stored, m
    <3>6. CanTake(s)
      BY <1>3, <2>2 DEF CanTake, m
    <3> QED BY <1>3, <3>4, <3>5, <3>6
  <2>3. CASE s.heap[m].kind # "array" /\ s.current_key = None
    <3>1. t = Refuse(s, v)
      BY <1>3, <2>3 DEF set_node_value, is_array, is_object
    <3>2. ~CanTake(s)
      BY <1>3, <2>3 DEF CanTake
    <3> QED BY <3>1, <3>2, Refuses
  <2>4. CASE s.heap[m].kind # "array" /\ s.current_key # None
    <3>1. t = SetProperty(s, v)
      BY <1>3, <2>4 DEF set_node_value, is_array, is_object
    <3>2. CASE s.current_key = NulText
      <4>1. IsFreed(s, v, None, t) /\ None \in Strings \cup {None}
        <5> DEFINE g == Free(s.heap, v)
        <5>1. t = [[s EXCEPT !.heap = g, !.current_key = None] EXCEPT !.status = "error"]
          BY <3>1, <3>2 DEF SetProperty, Fails
        <5>2. s \in SerRecords
          BY DEF SerFits
        <5> HIDE DEF g
        <5>3. t = [s EXCEPT !.heap = g, !.current_key = None, !.status = "error"]
          BY <5>1, <5>2 DEF SerRecords
        <5> QED BY <5>3 DEF g, IsFreed
      <4>2. ~CanTake(s)
        BY <1>3, <2>4, <3>2 DEF CanTake
      <4> QED BY <4>1, <4>2, FreedPlaced
    <3>3. CASE s.current_key # NulText
      <4> DEFINE g == SetMember(s.heap, m, s.current_key, v)
      <4>1. s.current_key \in Strings /\ (s.current_key = ProtoKey => s.heap[m].proto = None)
        BY <1>3, <2>4, SerParts DEF ProtoFree
      <4>2. /\ TakenOver(g, s.heap, m, v)
            /\ IsNode(v) => LastIs(g[m], v) \/ g[m].proto = v.data
            /\ s.current_key # ProtoKey => g[m].proto = s.heap[m].proto
        <5> DEFINE h == s.heap
                   key == s.current_key
        <5>1. /\ HeapFits(h) /\ m \in DOMAIN h /\ ValueFits(v, Len(h)) /\ key \in Strings
              /\ (key = ProtoKey => h[m].proto = None) /\ g = SetMember(h, m, key, v)
          BY <2>1, <4>1
        <5> HIDE DEF g, m, h, key
        <5>2. /\ TakenOver(g, h, m, v)
              /\ IsNode(v) => LastIs(g[m], v) \/ g[m].proto = v.data
              /\ key # ProtoKey => g[m].proto = h[m].proto
          BY <5>1, MemberSet
        <5> QED BY <5>2 DEF h, key
      <4>3. Held(s, g, None, t) /\ None \in Strings \cup {None}
        BY <3>1, <3>3 DEF SetProperty, Held
      <4> HIDE DEF g
      <4>4. /\ Keeps(s, t) /\ t.heap = g /\ t.current_key = None
            /\ t.root = s.root /\ t.current = s.current /\ t.status = s.status /\ t.leaked = s.leaked
        <5> HIDE DEF m
        <5> QED BY <2>1, <4>2, <4>3, TakenPlaced
      <4>5. Stored(s, v, t)
        BY <2>4, <4>2, <4>4 DEF Stored
      <4>6. CanTake(s)
        BY <1>3, <2>4, <3>3 DEF CanTake
      <4> QED BY <1>3, <4>4, <4>5, <4>6
    <3> QED BY <3>2, <3>3
  <2> QED BY <2>2, <2>3, <2>4
<1> QED BY <1>1, <1>2, <1>3

(* A new container, push and pop.                                          *)

LEMMA FitsInMore ==
  ASSUME NEW N \in Nat, NEW v, ValueFits(v, N)
  PROVE  ValueFits(v, N + 1)
<1>1. v.data \in 1..N => v.data \in 1..N + 1
  OBVIOUS
<1> QED BY <1>1 DEF ValueFits

LEMMA NodeFitsInMore ==
  ASSUME NEW N \in Nat, NEW x, NodeFits(x, N)
  PROVE  NodeFits(x, N + 1)
<1>1. x.proto \in 1..N + 1 \cup {None}
  <2>1. x.proto \in 1..N \cup {None}
    BY DEF NodeFits
  <2>2. x.proto \in 1..N => x.proto \in 1..N + 1
    OBVIOUS
  <2> QED BY <2>1, <2>2
<1> QED BY <1>1, FitsInMore DEF NodeFits

(* A heap with one container more, that holds nothing and is held by none. *)
Grown(g, h, kind) ==
  LET k == Len(h) + 1 IN
  /\ HeapFits(g) /\ Len(g) = k /\ DOMAIN g = DOMAIN h \cup {k} /\ k \notin DOMAIN h
  /\ \A n \in DOMAIN h : g[n] = h[n]
  /\ g[k].kind = kind /\ g[k].refs = 1 /\ g[k].entries = <<>> /\ g[k].proto = None
  /\ \A n \in DOMAIN h : HeldInHeap(g, n) = HeldInHeap(h, n)
  /\ HeldInHeap(g, k) = 0

LEMMA NodeMade ==
  ASSUME NEW h, HeapFits(h), NEW kind \in {"array", "object"}, NEW g, g = Append(h, Node(kind))
  PROVE  Grown(g, h, kind)
<1> DEFINE k == Len(h) + 1
           y == Node(kind)
<1>1. Len(h) \in Nat /\ DOMAIN h = 1..Len(h) /\ FiniteHeap(h) /\ h \in Seq(Nodes(JSValue))
  BY HeapParts DEF HeapFits
<1>2. /\ y \in Nodes(JSValue) /\ y.entries = <<>> /\ y.proto = None /\ y.kind = kind /\ y.refs = 1
  BY DEF Node, Nodes
<1> HIDE DEF y
<1>3. /\ g \in Seq(Nodes(JSValue)) /\ Len(g) = k /\ DOMAIN g = DOMAIN h \cup {k}
      /\ g[k] = y /\ (\A n \in DOMAIN h : g[n] = h[n])
  <2>1. g = Append(h, y)
    BY DEF y
  <2> DEFINE V == Nodes(JSValue)
  <2>2. h \in Seq(V) /\ y \in V
    BY <1>1, <1>2
  <2> HIDE DEF V
  <2>3. /\ g \in Seq(V) /\ Len(g) = k /\ DOMAIN g = DOMAIN h \cup {k}
        /\ g[k] = y /\ (\A n \in DOMAIN h : g[n] = h[n])
    BY <2>1, <2>2
  <2> QED BY <2>3 DEF V
<1>4. k \notin DOMAIN h /\ k \in Nat /\ k \in DOMAIN g
  BY <1>1, <1>3
<1>5. HeapFits(g)
  <2>1. \A n \in 1..Len(g) : NodeFits(g[n], Len(g))
    <3> TAKE n \in 1..Len(g)
    <3>1. CASE n = k
      <4>1. NodeFits(y, k)
        BY <1>2 DEF NodeFits
      <4> QED BY <1>3, <3>1, <4>1
    <3>2. CASE n # k
      <4>1. n \in DOMAIN h
        BY <1>1, <1>3, <3>2
      <4>2. NodeFits(h[n], Len(h))
        BY <4>1, HeapParts
      <4>3. NodeFits(h[n], Len(h) + 1)
        BY <1>1, <4>2, NodeFitsInMore
      <4> QED BY <1>3, <4>1, <4>3
    <3> QED BY <3>1, <3>2
  <2> QED BY <1>3, <2>1 DEF HeapFits
<1> HIDE DEF k
<1>6. \A n \in DOMAIN g : HeldInHeap(g, n) = HeldInHeap(h, n)
  <2> TAKE n \in DOMAIN g
  <2>1. FiniteHeap(g) /\ n \in Nat
    BY <1>5, HeapParts
  <2>2. HeldBy(g[k], n) = 0
    <3>1. Count(y.entries, Ref(n)) = 0
      BY <1>2, CountOfNone
    <3> QED BY <1>2, <1>3, <2>1, <3>1, NoneIsNoNumber DEF HeldBy
  <2>3. /\ OtherPlaces(g, k, n) = UNION {Places(h, m, n) : m \in DOMAIN h}
        /\ OtherKids(g, k, n) = {m \in DOMAIN h : h[m].proto = n}
    <3>1. DOMAIN g \ {k} = DOMAIN h
      BY <1>3, <1>4
    <3>2. \A m \in DOMAIN h : Places(g, m, n) = Places(h, m, n)
      BY <1>3 DEF Places
    <3>3. OtherPlaces(g, k, n) = UNION {Places(g, m, n) : m \in DOMAIN h}
      BY <3>1 DEF OtherPlaces
    <3>4. OtherPlaces(g, k, n) = UNION {Places(h, m, n) : m \in DOMAIN h}
      BY <3>2, <3>3
    <3> QED BY <1>3, <3>1, <3>4 DEF OtherKids
  <2>4. HeldInHeap(h, n) = Cardinality(OtherPlaces(g, k, n)) + Cardinality(OtherKids(g, k, n))
    BY <2>3 DEF HeldInHeap, Places
  <2>5. /\ Cardinality(OtherPlaces(g, k, n)) \in Nat /\ Cardinality(OtherKids(g, k, n)) \in Nat
        /\ HeldInHeap(g, n) = Cardinality(OtherPlaces(g, k, n))
                                + Cardinality(OtherKids(g, k, n)) + HeldBy(g[k], n)
    BY <1>4, <2>1, HeldSplit
  <2> QED BY <2>2, <2>4, <2>5
<1>7. HeldInHeap(h, k) = 0
  <2>1. \A m \in DOMAIN h : Places(h, m, k) = {}
    <3> SUFFICES ASSUME NEW m \in DOMAIN h, NEW j \in DOMAIN h[m].entries, h[m].entries[j].value = Ref(k)
                 PROVE  FALSE
      BY DEF Places
    <3>1. ValueFits(Ref(k), Len(h))
      BY HeapParts DEF NodeFits
    <3>2. k \in 1..Len(h)
      BY <3>1, NodeNamed DEF IsNode, Ref, Value
    <3> QED BY <1>1, <1>4, <3>2
  <2>2. {m \in DOMAIN h : h[m].proto = k} = {}
    <3>1. \A m \in DOMAIN h : h[m].proto \in 1..Len(h) \cup {None}
      BY HeapParts
    <3> QED BY <1>1, <1>4, <3>1, NoneIsNoNumber
  <2>3. UNION {Places(h, m, k) : m \in DOMAIN h} = {}
    BY <2>1
  <2>4. HeldInHeap(h, k) = Cardinality(UNION {Places(h, m, k) : m \in DOMAIN h})
                             + Cardinality({m \in DOMAIN h : h[m].proto = k})
    BY DEF HeldInHeap, Places
  <2>5. Cardinality({}) = 0
    BY FS_EmptySet
  <2>6. HeldInHeap(h, k) = 0 + 0
    BY <2>2, <2>3, <2>4, <2>5
  <2> QED BY <2>6
<1> QED BY <1>2, <1>3, <1>4, <1>5, <1>6, <1>7 DEF Grown, k

(* The serializer makes a container; nobody holds it yet.                  *)
IsMade(s, kind, r) == r = [s EXCEPT !.heap = Append(@, Node(kind))]

(* A new container, of which the maker holds the only reference.           *)
LEMMA NodeMadeKeeps ==
  ASSUME NEW s, SerFits(s), CountedWith(s, Undefined), NEW kind \in {"array", "object"}, NEW r, IsMade(s, kind, r),
         NEW v, v = Ref(Len(s.heap) + 1)
  PROVE  /\ SerFits(r) /\ CountedWith(r, v) /\ Grown(r.heap, s.heap, kind)
         /\ ValueFits(v, Len(r.heap)) /\ v.data \notin r.leaked /\ IsNode(v) /\ v.data = Len(s.heap) + 1
         /\ r.root = s.root /\ r.current = s.current /\ r.paths = s.paths /\ r.leaked = s.leaked
         /\ r.current_is_key = s.current_is_key /\ r.current_key = s.current_key /\ r.status = s.status
<1> DEFINE N == Len(s.heap)
           k == N + 1
           g == Append(s.heap, Node(kind))
<1>1. HeapFits(s.heap) /\ N \in Nat /\ DOMAIN s.heap = 1..N
  BY SerParts
<1>2. Grown(g, s.heap, kind)
  BY <1>1, NodeMade
<1>3. HeapFits(g) /\ Len(g) = k /\ DOMAIN g = DOMAIN s.heap \cup {k} /\ k \notin DOMAIN s.heap
  BY <1>2 DEF Grown
<1>4. /\ r \in SerRecords /\ r.heap = g /\ r.root = s.root /\ r.current = s.current /\ r.paths = s.paths
      /\ r.current_is_key = s.current_is_key /\ r.current_key = s.current_key
      /\ r.status = s.status /\ r.leaked = s.leaked
  <2>1. g \in Seq(Nodes(JSValue))
    BY <1>3 DEF HeapFits
  <2>2. r = [s EXCEPT !.heap = g]
    BY DEF IsMade, g
  <2> HIDE DEF g
  <2> QED BY <2>1, <2>2 DEF SerFits, SerRecords
<1>5. ValueFits(v, k) /\ IsNode(v) /\ v.data = k
  <2>1. k \in Nat /\ k \in 1..k
    BY <1>1
  <2> HIDE DEF k
  <2>2. v \in JSValue /\ v.tag = "node" /\ v.data = k
    BY <2>1, NoRef DEF Ref, Value, k
  <2> QED BY <2>1, <2>2 DEF ValueFits, IsNode
<1> HIDE DEF g
<1>6. SerFits(r)
  <2>1. \A i \in DOMAIN r.paths : ValueFits(r.paths[i], k) /\ IsNode(r.paths[i])
    BY <1>1, <1>4, SerParts, FitsInMore
  <2>2. ValueFits(r.root, k) /\ (r.current # None => ValueFits(r.current, k))
    BY <1>1, <1>4, SerParts, FitsInMore
  <2>3. r.leaked \subseteq 1..k /\ k \in Nat
    <3>1. s.leaked \subseteq 1..N
      BY SerParts
    <3>2. k \in Nat /\ \A l \in 1..N : l \in 1..k
      BY <1>1
    <3> QED BY <1>4, <3>1, <3>2
  <2>4. HeapFits(r.heap) /\ Len(r.heap) = k
    BY <1>3, <1>4
  <2> HIDE DEF k
  <2> QED BY <1>4, <2>1, <2>2, <2>3, <2>4, SerMade
<1>7. k \notin r.leaked /\ k \in Nat
  <2>1. s.leaked \subseteq 1..N
    BY SerParts
  <2> QED BY <1>1, <1>4, <2>1
<1>8. CountedWith(r, v)
  <2> SUFFICES ASSUME NEW n \in DOMAIN r.heap
               PROVE  r.heap[n].refs = HeldByHost(r, n) + HeldInHeap(r.heap, n) + Leak(r, n) + IfRef(v, n, 1)
    BY DEF CountedWith
  <2>1. HeldByHost(r, n) = HeldByHost(s, n)
    BY <1>4 DEF HeldByHost
  <2>2. v = Ref(n) <=> n = k
    BY DEF Ref, Value
  <2>3. CASE n = k
    <3>1. HeldInHeap(r.heap, n) = 0 /\ r.heap[n].refs = 1
      BY <1>2, <1>4, <2>3 DEF Grown
    <3>2. Leak(r, n) = 0
      BY <1>7, <2>3 DEF Leak
    <3>3. HeldByHost(s, n) = 0
      <4>1. \A x : ValueFits(x, N) => x # Ref(n)
        <5> SUFFICES ASSUME ValueFits(Ref(n), N) PROVE FALSE
          OBVIOUS
        <5>1. n \in 1..N
          BY NodeNamed DEF IsNode, Ref, Value
        <5> QED BY <1>1, <1>3, <2>3, <5>1
      <4>2. {i \in DOMAIN s.paths : s.paths[i] = Ref(n)} = {}
        BY <4>1, SerParts
      <4>3. PathCount(s.paths, Ref(n)) = 0
        BY <4>2, FS_EmptySet DEF PathCount
      <4>4. s.root # Ref(n) /\ s.current # Ref(n)
        <5>1. None # Ref(n)
          BY <1>7, <2>3, NoRef, NoneIsNoValue
        <5> QED BY <4>1, <5>1, SerParts
      <4> QED BY <4>3, <4>4, HostHolds DEF IfRef
    <3> QED BY <2>1, <2>2, <2>3, <3>1, <3>2, <3>3 DEF IfRef
  <2>4. CASE n # k
    <3>1. n \in DOMAIN s.heap
      BY <1>3, <1>4, <2>4
    <3>2. HeldInHeap(r.heap, n) = HeldInHeap(s.heap, n) /\ r.heap[n] = s.heap[n]
      BY <1>2, <1>4, <3>1 DEF Grown
    <3>3. s.heap[n].refs = HeldByHost(s, n) + HeldInHeap(s.heap, n) + Leak(s, n) + IfRef(Undefined, n, 1)
      BY <3>1 DEF CountedWith
    <3>4. IfRef(v, n, 1) = 0 /\ IfRef(Undefined, n, 1) = 0 /\ Leak(r, n) = Leak(s, n)
      <4>1. n \in Nat
        BY <3>1, SerParts
      <4> QED BY <1>4, <2>2, <2>4, <4>1, NoRef DEF IfRef, Leak
    <3> QED BY <2>1, <3>2, <3>3, <3>4
  <2> QED BY <2>3, <2>4
<1> QED BY <1>2, <1>3, <1>4, <1>5, <1>6, <1>7, <1>8

(* The container becomes the current one, the one around it goes on the    *)
(* stack.                                                                  *)

IsEntered(s, v, t) ==
  t = [s EXCEPT !.paths = Append(@, s.current), !.current = v, !.heap = Dup(@, v)]

Entered(s, v, t) ==
  /\ SerFits(t) /\ CountedWith(t, Undefined) /\ SameShape(t.heap, s.heap)
  /\ t.paths = Append(s.paths, s.current) /\ t.current = v
  /\ t.root = s.root /\ t.leaked = s.leaked /\ t.current_is_key = s.current_is_key
  /\ t.current_key = s.current_key /\ t.status = s.status

LEMMA EnteredKeeps ==
  ASSUME NEW s, SerFits(s), CountedWith(s, Undefined), s.current # None, IsNode(s.current),
         NEW v, ValueFits(v, Len(s.heap)), NEW t, IsEntered(s, v, t)
  PROVE  Entered(s, v, t)
<1> DEFINE N == Len(s.heap)
           g == Dup(s.heap, v)
           p == Append(s.paths, s.current)
<1>1. /\ HeapFits(s.heap) /\ N \in Nat /\ s.paths \in Seq(JSValue) /\ s.current \in JSValue
      /\ ValueFits(s.current, N)
  BY SerParts
<1>2. /\ HeapFits(g) /\ SameShape(g, s.heap)
      /\ \A n \in DOMAIN s.heap : /\ HeldInHeap(g, n) = HeldInHeap(s.heap, n)
                                  /\ g[n].refs = s.heap[n].refs + IfRef(v, n, 1)
  BY <1>1, RefsMoved DEF Dup
<1>3. Len(g) = N /\ DOMAIN g = DOMAIN s.heap
  BY <1>2 DEF SameShape
<1>4. /\ p \in Seq(JSValue) /\ DOMAIN p = DOMAIN s.paths \cup {Len(p)} /\ p[Len(p)] = s.current
      /\ \A i \in DOMAIN s.paths : p[i] = s.paths[i]
  BY <1>1
<1> HIDE DEF p
<1>5. /\ t \in SerRecords /\ t.heap = g /\ t.root = s.root /\ t.current = v /\ t.paths = p
      /\ t.current_is_key = s.current_is_key /\ t.current_key = s.current_key
      /\ t.status = s.status /\ t.leaked = s.leaked
  <2>1. g \in Seq(Nodes(JSValue)) /\ v \in JSValue
    BY <1>2 DEF HeapFits, ValueFits
  <2>2. t = [s EXCEPT !.paths = p, !.current = v, !.heap = g]
    BY DEF IsEntered, g, p
  <2> HIDE DEF g
  <2> QED BY <1>4, <2>1, <2>2 DEF SerFits, SerRecords
<1> HIDE DEF g
<1>6. SerFits(t)
  <2>1. \A i \in DOMAIN t.paths : ValueFits(t.paths[i], N) /\ IsNode(t.paths[i])
    <3> TAKE i \in DOMAIN t.paths
    <3>1. CASE i = Len(p)
      BY <1>1, <1>4, <1>5, <3>1
    <3>2. CASE i # Len(p)
      <4>1. i \in DOMAIN s.paths /\ t.paths[i] = s.paths[i]
        BY <1>4, <1>5, <3>2
      <4> QED BY <4>1, SerParts
    <3> QED BY <3>1, <3>2
  <2>2. t.leaked \subseteq 1..N /\ ValueFits(t.root, N) /\ ValueFits(t.current, N)
    BY <1>5, SerParts
  <2>3. HeapFits(t.heap) /\ Len(t.heap) = N
    BY <1>2, <1>3, <1>5
  <2> HIDE DEF N
  <2> QED BY <1>1, <1>5, <2>1, <2>2, <2>3, SerMade
<1>7. \A n \in DOMAIN s.heap :
        t.heap[n].refs - s.heap[n].refs
          = (HeldByHost(t, n) - HeldByHost(s, n)) + (HeldInHeap(t.heap, n) - HeldInHeap(s.heap, n))
              + (Leak(t, n) - Leak(s, n)) + (IfRef(Undefined, n, 1) - IfRef(Undefined, n, 1))
  <2> TAKE n \in DOMAIN s.heap
  <2> DEFINE b == IfRef(v, n, 1)
             r == s.heap[n].refs
             H == HeldInHeap(s.heap, n)
             c == PathCount(s.paths, Ref(n))
             d == IfRef(s.current, n, 1)
             e == IfRef(s.root, n, 1)
             l == Leak(s, n)
             u == IfRef(Undefined, n, 1)
  <2>1. /\ r \in Int /\ H \in Nat /\ HeldInHeap(t.heap, n) = H /\ t.heap[n].refs = r + b
    BY <1>2, <1>5, SerParts
  <2>2. PathCount(t.paths, Ref(n)) = c + d /\ c \in Nat
    <3>1. PathCount(t.paths, Ref(n)) = c + Is(s.current, Ref(n))
      BY <1>1, <1>5, PathAppended DEF p
    <3> QED BY <3>1, IsOfRef, HostHolds
  <2>3. HeldByHost(s, n) = c + d + e /\ HeldByHost(t, n) = (c + d) + b + e
    BY <1>5, <1>6, <2>2, HostHolds
  <2>4. b \in Nat /\ l \in Nat /\ Leak(t, n) = l /\ d \in Nat /\ e \in Nat /\ u \in Nat
    BY <1>5 DEF IfRef, Leak
  <2> HIDE DEF b, r, H, c, d, e, l, u
  <2>5. t.heap[n].refs - r = (HeldByHost(t, n) - HeldByHost(s, n)) + (HeldInHeap(t.heap, n) - H)
                               + (Leak(t, n) - l) + (u - u)
    BY <2>1, <2>2, <2>3, <2>4
  <2> QED BY <2>5 DEF b, r, H, l, u
<1>8. CountedWith(t, Undefined)
  <2>1. DOMAIN t.heap = DOMAIN s.heap
    BY <1>3, <1>5
  <2> QED BY <1>6, <1>7, <2>1, CountsMove
<1> QED BY <1>2, <1>5, <1>6, <1>8 DEF p, Entered

(* A container is done with.                                               *)
LEMMA PopKeeps ==
  ASSUME NEW s, SerFits(s), CountedWith(s, Undefined), s.current # None, s.paths # <<>>,
         NEW t, t = pop(s)
  PROVE  /\ SerFits(t) /\ CountedWith(t, Undefined) /\ SameShape(t.heap, s.heap)
         /\ t.paths = Front(s.paths) /\ t.current = s.paths[Len(s.paths)]
         /\ t.root = s.root /\ t.leaked = s.leaked /\ t.current_is_key = s.current_is_key
         /\ t.current_key = s.current_key /\ t.status = s.status
<1> DEFINE N == Len(s.heap)
           v == s.current
           g == Free(s.heap, v)
           p == Front(s.paths)
           w == s.paths[Len(s.paths)]
<1>1. /\ HeapFits(s.heap) /\ N \in Nat /\ s.paths \in Seq(JSValue) /\ ValueFits(v, N)
  BY SerParts
<1>2. /\ HeapFits(g) /\ SameShape(g, s.heap)
      /\ \A n \in DOMAIN s.heap : /\ HeldInHeap(g, n) = HeldInHeap(s.heap, n)
                                  /\ g[n].refs = s.heap[n].refs + IfRef(v, n, -1)
  BY <1>1, RefsMoved DEF Free
<1>3. Len(g) = N /\ DOMAIN g = DOMAIN s.heap
  BY <1>2 DEF SameShape
<1>4. /\ p \in Seq(JSValue) /\ Len(p) = Len(s.paths) - 1 /\ w \in JSValue
      /\ \A i \in 1..Len(s.paths) - 1 : p[i] = s.paths[i]
  BY <1>1, PathPopped
<1>5. Len(s.paths) \in Nat /\ Len(s.paths) > 0
  BY <1>1
<1>6. /\ t \in SerRecords /\ t.heap = g /\ t.root = s.root /\ t.current = w /\ t.paths = p
      /\ t.current_is_key = s.current_is_key /\ t.current_key = s.current_key
      /\ t.status = s.status /\ t.leaked = s.leaked
  <2>1. g \in Seq(Nodes(JSValue))
    BY <1>2 DEF HeapFits
  <2>2. t = [s EXCEPT !.heap = g, !.current = w, !.paths = p]
    BY DEF pop, g, p, w, Front
  <2> HIDE DEF g, p, w
  <2> QED BY <1>4, <2>1, <2>2 DEF SerFits, SerRecords
<1> HIDE DEF g, p
<1>7. SerFits(t)
  <2>1. \A i \in DOMAIN t.paths : ValueFits(t.paths[i], N) /\ IsNode(t.paths[i])
    <3> TAKE i \in DOMAIN t.paths
    <3>1. i \in 1..Len(s.paths) - 1 /\ i \in DOMAIN s.paths /\ t.paths[i] = s.paths[i]
      BY <1>1, <1>4, <1>5, <1>6
    <3> QED BY <3>1, SerParts
  <2>2. t.leaked \subseteq 1..N /\ ValueFits(t.root, N) /\ ValueFits(t.current, N)
    <3>1. Len(s.paths) \in DOMAIN s.paths
      BY <1>1, <1>5
    <3> QED BY <1>6, <3>1, SerParts
  <2>3. HeapFits(t.heap) /\ Len(t.heap) = N
    BY <1>2, <1>3, <1>6
  <2> HIDE DEF N
  <2> QED BY <1>1, <1>6, <2>1, <2>2, <2>3, SerMade
<1>8. \A n \in DOMAIN s.heap :
        t.heap[n].refs - s.heap[n].refs
          = (HeldByHost(t, n) - HeldByHost(s, n)) + (HeldInHeap(t.heap, n) - HeldInHeap(s.heap, n))
              + (Leak(t, n) - Leak(s, n)) + (IfRef(Undefined, n, 1) - IfRef(Undefined, n, 1))
  <2> TAKE n \in DOMAIN s.heap
  <2> DEFINE b == IfRef(v, n, 1)
             r == s.heap[n].refs
             H == HeldInHeap(s.heap, n)
             c == PathCount(p, Ref(n))
             d == IfRef(w, n, 1)
             e == IfRef(s.root, n, 1)
             l == Leak(s, n)
             u == IfRef(Undefined, n, 1)
  <2>1. /\ r \in Int /\ H \in Nat /\ HeldInHeap(t.heap, n) = H /\ t.heap[n].refs = r + IfRef(v, n, -1)
    BY <1>2, <1>6, SerParts
  <2>2. PathCount(s.paths, Ref(n)) = c + d /\ c \in Nat
    <3>1. PathCount(s.paths, Ref(n)) = c + Is(w, Ref(n))
      <4> HIDE DEF w
      <4> QED BY <1>1, PathPopped DEF p, w
    <3>2. c \in Nat
      BY <1>4, PathCountIsNat
    <3> QED BY <3>1, <3>2, IsOfRef
  <2>3. HeldByHost(s, n) = (c + d) + b + e /\ HeldByHost(t, n) = c + d + e
    BY <1>6, <1>7, <2>2, HostHolds
  <2>4. b \in Nat /\ l \in Nat /\ Leak(t, n) = l /\ d \in Nat /\ e \in Nat /\ u \in Nat /\ IfRef(v, n, -1) = -b
    BY <1>6 DEF IfRef, Leak
  <2>5. t.heap[n].refs = r + (-b)
    BY <2>1, <2>4
  <2> HIDE DEF b, r, H, c, d, e, l, u
  <2>6. t.heap[n].refs - r = (HeldByHost(t, n) - HeldByHost(s, n)) + (HeldInHeap(t.heap, n) - H)
                               + (Leak(t, n) - l) + (u - u)
    BY <2>1, <2>2, <2>3, <2>4, <2>5
  <2> QED BY <2>6 DEF r, H, l, u
<1>9. CountedWith(t, Undefined)
  <2>1. DOMAIN t.heap = DOMAIN s.heap
    BY <1>3, <1>6
  <2> QED BY <1>7, <1>8, <2>1, CountsMove
<1> QED BY <1>2, <1>6, <1>7, <1>9 DEF p

(* v is what w is in: its last entry, or its prototype.                    *)
HoldsIn(h, v, w) == IsNode(v) /\ IsNode(w) /\ (LastIs(h[v.data], w) \/ h[v.data].proto = w.data)

(* A container of this kind was made, put in its place and entered.        *)
Pushed(s, kind, t) ==
  LET k == Len(s.heap) + 1
      m == s.current.data
  IN
  /\ t.status = s.status /\ t.leaked = s.leaked /\ t.current = Ref(k)
  /\ t.heap[k].kind = kind /\ t.heap[k].entries = <<>> /\ t.heap[k].proto = None
  /\ \A n \in DOMAIN s.heap : t.heap[n].kind = s.heap[n].kind
  /\ \A n \in DOMAIN s.heap : s.current # Ref(n) =>
       t.heap[n].entries = s.heap[n].entries /\ t.heap[n].proto = s.heap[n].proto
  /\ s.current = None =>
       t.paths = Append(s.paths, Ref(k)) /\ t.root = Ref(k) /\ t.current_key = s.current_key
  /\ s.current # None =>
       /\ t.paths = Append(s.paths, s.current) /\ t.root = s.root
       /\ HoldsIn(t.heap, s.current, Ref(k))
       /\ s.current_key # ProtoKey => t.heap[m].proto = s.heap[m].proto
       /\ t.current_key = IF s.heap[m].kind = "array" THEN s.current_key ELSE None

(* push_object and push_array.                                             *)
LEMMA PushKeeps ==
  ASSUME NEW s, SerFits(s), CountedWith(s, Undefined), ProtoFree(s), s.current # Undefined, s.status = "running",
         NEW kind \in {"array", "object"}, NEW t, t = push(s, kind)
  PROVE  /\ SerFits(t) /\ CountedWith(t, Undefined) /\ Len(t.heap) = Len(s.heap) + 1
         /\ t.current_is_key = s.current_is_key
         /\ CanTake(s) => Pushed(s, kind, t)
         /\ ~CanTake(s) => t.status = "error"
<1> DEFINE k == Len(s.heap) + 1
           v == Ref(k)
           r == [s EXCEPT !.heap = Append(@, Node(kind))]
           u == set_node_value(r, v)
           m == s.current.data
<1>1. IsMade(s, kind, r) /\ v = Ref(Len(s.heap) + 1)
  BY DEF IsMade
<1>2. t = IF Failed(u) THEN u ELSE [u EXCEPT !.paths = Append(@, u.current), !.current = v, !.heap = Dup(@, v)]
  BY DEF push
<1> HIDE DEF r
<1>3. /\ SerFits(r) /\ CountedWith(r, v) /\ Grown(r.heap, s.heap, kind)
      /\ ValueFits(v, Len(r.heap)) /\ v.data \notin r.leaked /\ IsNode(v) /\ v.data = k
      /\ r.root = s.root /\ r.current = s.current /\ r.paths = s.paths /\ r.leaked = s.leaked
      /\ r.current_is_key = s.current_is_key /\ r.current_key = s.current_key /\ r.status = s.status
  <2> HIDE DEF v
  <2> QED BY <1>1, NodeMadeKeeps
<1>4. /\ Len(r.heap) = k /\ DOMAIN r.heap = DOMAIN s.heap \cup {k} /\ k \notin DOMAIN s.heap
      /\ \A n \in DOMAIN s.heap : r.heap[n] = s.heap[n]
      /\ r.heap[k].kind = kind /\ r.heap[k].entries = <<>> /\ r.heap[k].proto = None
  BY <1>3 DEF Grown
<1>5. /\ DOMAIN s.heap = 1..Len(s.heap) /\ Len(s.heap) \in Nat
      /\ s.current # None => ValueFits(s.current, Len(s.heap))
  BY SerParts
<1> HIDE DEF k, v
<1>6. s.current # None /\ IsNode(s.current) => m \in DOMAIN s.heap /\ s.current = Ref(m) /\ r.heap[m] = s.heap[m]
  BY <1>4, <1>5, NodeNamed
<1>7. ProtoFree(r) /\ (CanTake(r) <=> CanTake(s)) /\ r.current # Undefined
  BY <1>3, <1>6 DEF ProtoFree, CanTake
<1>8. /\ Keeps(r, u)
      /\ CanTake(r) /\ r.current = None => RootSet(r, v, u)
      /\ CanTake(r) /\ r.current # None => Stored(r, v, u)
      /\ ~CanTake(r) => u.status = "error"
  BY <1>3, <1>7, SetNodeValueKeeps
<1>9. /\ SerFits(u) /\ CountedWith(u, Undefined) /\ Len(u.heap) = k /\ u.paths = s.paths
      /\ u.current_is_key = s.current_is_key
  BY <1>3, <1>4, <1>8 DEF Keeps
<1>10. CASE ~CanTake(s)
  <2>1. u.status = "error" /\ t = u
    BY <1>2, <1>7, <1>8, <1>10 DEF Failed
  <2> QED BY <1>9, <1>10, <2>1 DEF k
<1>11. CASE CanTake(s)
  <2>1. u.status = "running" /\ u.leaked = s.leaked
    BY <1>3, <1>7, <1>8, <1>11 DEF RootSet, Stored
  <2> HIDE DEF u
  <2>2. IsEntered(u, v, t)
    BY <1>2, <2>1 DEF Failed, IsEntered
  <2>3. u.current # None /\ IsNode(u.current)
    <3>1. CASE s.current = None
      <4>1. u.current = v
        BY <1>3, <1>7, <1>8, <1>11, <3>1 DEF RootSet
      <4>2. v \in JSValue
        BY <1>3 DEF ValueFits
      <4> QED BY <1>3, <4>1, <4>2, NoneIsNoValue
    <3>2. CASE s.current # None
      <4>1. u.current = s.current
        BY <1>3, <1>7, <1>8, <1>11, <3>2 DEF Stored
      <4> QED BY <1>11, <3>2, <4>1 DEF CanTake
    <3> QED BY <3>1, <3>2
  <2>4. /\ SerFits(t) /\ CountedWith(t, Undefined) /\ SameShape(t.heap, u.heap)
        /\ t.paths = Append(u.paths, u.current) /\ t.current = v
        /\ t.root = u.root /\ t.leaked = u.leaked /\ t.current_is_key = u.current_is_key
        /\ t.current_key = u.current_key /\ t.status = u.status
    <3>1. ValueFits(v, Len(u.heap))
      BY <1>3, <1>4, <1>9
    <3> HIDE DEF m
    <3>2. /\ SerFits(u) /\ CountedWith(u, Undefined) /\ u.current # None /\ IsNode(u.current)
          /\ ValueFits(v, Len(u.heap)) /\ IsEntered(u, v, t)
      BY <1>9, <2>2, <2>3, <3>1
    <3>3. Entered(u, v, t)
      BY <3>2, EnteredKeeps
    <3> QED BY <3>3 DEF Entered
  <2>5. /\ Len(t.heap) = k /\ DOMAIN u.heap = 1..k /\ k \in DOMAIN u.heap
        /\ \A n \in DOMAIN s.heap : n \in DOMAIN u.heap
    <3>1. Len(u.heap) = k /\ DOMAIN u.heap = 1..Len(u.heap) /\ k \in Nat
      BY <1>5, <1>9, SerParts DEF k
    <3>2. Len(t.heap) = k
      BY <2>4, <3>1 DEF SameShape
    <3> QED BY <1>5, <3>1, <3>2 DEF k
  <2>6. CASE s.current = None
    <3>1. RootSet(r, v, u)
      BY <1>3, <1>7, <1>8, <1>11, <2>6
    <3>2. SameShape(u.heap, r.heap) /\ u.root = v /\ u.current = v /\ u.current_key = s.current_key
      BY <1>3, <3>1 DEF RootSet
    <3>3. \A n \in DOMAIN u.heap : /\ t.heap[n].kind = r.heap[n].kind
                                   /\ t.heap[n].entries = r.heap[n].entries /\ t.heap[n].proto = r.heap[n].proto
      BY <2>4, <3>2 DEF SameShape
    <3>4. /\ t.heap[k].kind = kind /\ t.heap[k].entries = <<>> /\ t.heap[k].proto = None
          /\ \A n \in DOMAIN s.heap : /\ t.heap[n].kind = s.heap[n].kind
                                      /\ t.heap[n].entries = s.heap[n].entries /\ t.heap[n].proto = s.heap[n].proto
      BY <1>4, <2>5, <3>3
    <3>5. Pushed(s, kind, t)
      BY <1>3, <1>9, <2>1, <2>4, <2>6, <3>2, <3>4 DEF Pushed, k, v
    <3> QED BY <1>9, <1>11, <2>4, <2>5, <3>5 DEF k
  <2>7. CASE s.current # None
    <3>1. Stored(r, v, u) /\ IsNode(s.current)
      BY <1>3, <1>7, <1>8, <1>11, <2>7 DEF CanTake
    <3>2. /\ u.root = s.root /\ u.current = s.current
          /\ TakenOver(u.heap, r.heap, m, v)
          /\ LastIs(u.heap[m], v) \/ u.heap[m].proto = v.data
          /\ s.current_key # ProtoKey => u.heap[m].proto = r.heap[m].proto
          /\ u.current_key = IF r.heap[m].kind = "array" THEN s.current_key ELSE None
      BY <1>3, <3>1 DEF Stored
    <3>3. /\ DOMAIN u.heap = DOMAIN r.heap /\ \A n \in DOMAIN r.heap : u.heap[n].kind = r.heap[n].kind
          /\ \A n \in DOMAIN r.heap \ {m} : u.heap[n].entries = r.heap[n].entries /\ u.heap[n].proto = r.heap[n].proto
      BY <3>2 DEF TakenOver
    <3>4. \A n \in DOMAIN u.heap : /\ t.heap[n].kind = u.heap[n].kind
                                   /\ t.heap[n].entries = u.heap[n].entries /\ t.heap[n].proto = u.heap[n].proto
      BY <2>4 DEF SameShape
    <3>5. m \in DOMAIN s.heap /\ s.current = Ref(m) /\ r.heap[m] = s.heap[m] /\ m # k
      BY <1>4, <1>6, <2>7, <3>1
    <3>6. /\ t.heap[k].kind = kind /\ t.heap[k].entries = <<>> /\ t.heap[k].proto = None
      BY <1>4, <2>5, <3>3, <3>4, <3>5
    <3>7. \A n \in DOMAIN s.heap : /\ t.heap[n].kind = s.heap[n].kind
                                   /\ n # m => t.heap[n].entries = s.heap[n].entries /\ t.heap[n].proto = s.heap[n].proto
      <4> TAKE n \in DOMAIN s.heap
      <4>1. r.heap[n] = s.heap[n] /\ n \in DOMAIN r.heap /\ n \in DOMAIN u.heap
        BY <1>4, <2>5
      <4> QED BY <3>3, <3>4, <4>1
    <3>8. t.heap[m].entries = u.heap[m].entries /\ t.heap[m].proto = u.heap[m].proto
      BY <2>5, <3>4, <3>5
    <3>9. HoldsIn(t.heap, s.current, v)
      BY <1>3, <3>1, <3>2, <3>8 DEF HoldsIn, LastIs
    <3>10. s.current_key # ProtoKey => t.heap[m].proto = s.heap[m].proto
      BY <3>2, <3>5, <3>8
    <3>11. t.current_key = IF s.heap[m].kind = "array" THEN s.current_key ELSE None
      BY <2>4, <3>2, <3>5
    <3>12. t.paths = Append(s.paths, s.current) /\ t.root = s.root /\ t.current = v /\ t.status = s.status /\ t.leaked = s.leaked
      BY <1>3, <1>8, <1>9, <2>1, <2>4, <3>1, <3>2 DEF Stored
    <3>13. \A n \in DOMAIN s.heap : s.current # Ref(n) => n # m
      BY <3>5
    <3>14. Pushed(s, kind, t)
      <4> HIDE DEF m
      <4> QED BY <2>7, <3>6, <3>7, <3>9, <3>10, <3>11, <3>12, <3>13 DEF Pushed, k, v, m
    <3> QED BY <1>9, <1>11, <2>4, <2>5, <3>14 DEF k
  <2> QED BY <2>6, <2>7
<1> QED BY <1>10, <1>11

(* The containers from the root to the current one.                        *)

(* The containers begun and not ended, the current one last.               *)
Spine(s) == Append(s.paths, s.current)

(* Each is held by the one before; they are as old as they are deep, so    *)
(* that no two of them are one.                                            *)
SpineFits(s) ==
  LET p == Spine(s) IN
  s.paths # <<>> =>
    /\ s.current # None /\ IsNode(s.current) /\ p[1] = s.root /\ p[2] = s.root
    /\ \A i \in 2..Len(p) - 1 : HoldsIn(s.heap, p[i], p[i + 1])
    /\ \A i, j \in 2..Len(p) : i < j => p[i].data < p[j].data

(* The next value has a place: as the root, or in a container.             *)
Ready(s) ==
  \/ s.current = None /\ s.paths = <<>>
  \/ s.current # None /\ IsNode(s.current) /\ s.paths # <<>>

LEMMA SpineIsSeq ==
  ASSUME NEW s, SerFits(s), s.current # None
  PROVE  /\ Spine(s) \in Seq(JSValue) /\ Len(Spine(s)) = Len(s.paths) + 1 /\ Len(s.paths) \in Nat
         /\ \A i \in 1..Len(s.paths) : Spine(s)[i] = s.paths[i]
         /\ Spine(s)[Len(s.paths) + 1] = s.current
         /\ s.paths = <<>> <=> Len(s.paths) = 0
<1> DEFINE p == s.paths
           w == s.current
<1>1. p \in Seq(JSValue) /\ w \in JSValue
  BY SerParts
<1> HIDE DEF p, w
<1>2. /\ Append(p, w) \in Seq(JSValue) /\ Len(Append(p, w)) = Len(p) + 1 /\ Len(p) \in Nat
      /\ \A i \in 1..Len(p) : Append(p, w)[i] = p[i]
      /\ Append(p, w)[Len(p) + 1] = w
      /\ p = <<>> <=> Len(p) = 0
  BY <1>1
<1> QED BY <1>2 DEF Spine, p, w

(* Every container of the spine is one, and not the current one.           *)
LEMMA SpineNode ==
  ASSUME NEW s, SerFits(s), s.current # None, IsNode(s.current), NEW i \in 1..Len(Spine(s))
  PROVE  /\ IsNode(Spine(s)[i]) /\ Spine(s)[i].data \in DOMAIN s.heap /\ Spine(s)[i].data \in Nat
         /\ Spine(s)[i] = Ref(Spine(s)[i].data)
<1>1. ValueFits(Spine(s)[i], Len(s.heap)) /\ IsNode(Spine(s)[i])
  <2>1. CASE i = Len(s.paths) + 1
    BY <2>1, SpineIsSeq, SerParts
  <2>2. CASE i # Len(s.paths) + 1
    <3>1. i \in 1..Len(s.paths)
      BY <2>2, SpineIsSeq
    <3>2. i \in DOMAIN s.paths /\ Spine(s)[i] = s.paths[i]
      BY <3>1, SpineIsSeq, SerParts
    <3> QED BY <3>2, SerParts
  <2> QED BY <2>1, <2>2
<1> QED BY <1>1, NodeNamed, SerParts

(* The nodes but the current one stay as they are.                         *)
SameBut(g, h, v) ==
  \A n \in DOMAIN h : v # Ref(n) => g[n].entries = h[n].entries /\ g[n].proto = h[n].proto

(* The spine grows by the new container, and loses its last one.           *)
LEMMA SpinePushed ==
  ASSUME NEW s, SerFits(s), SpineFits(s), Ready(s), NEW kind, NEW t, SerFits(t), Pushed(s, kind, t)
  PROVE  /\ SpineFits(t) /\ t.paths # <<>> /\ t.current # None /\ IsNode(t.current)
         /\ Len(t.paths) = Len(s.paths) + 1
         /\ s.current # None => Spine(t) = Append(Spine(s), t.current)
<1> DEFINE k == Len(s.heap) + 1
           v == Ref(k)
           p == Spine(s)
           q == Spine(t)
<1>1. t.current = v /\ IsNode(v) /\ v.data = k /\ Len(s.heap) \in Nat /\ DOMAIN s.heap = 1..Len(s.heap)
  BY SerParts DEF Pushed, IsNode, Ref, Value
<1>2. t.current # None
  <2>1. v \in JSValue
    BY <1>1, NoRef
  <2> QED BY <1>1, <2>1, NoneIsNoValue
<1>3. /\ q \in Seq(JSValue) /\ Len(q) = Len(t.paths) + 1 /\ Len(t.paths) \in Nat
      /\ \A i \in 1..Len(t.paths) : q[i] = t.paths[i]
      /\ q[Len(t.paths) + 1] = v
      /\ t.paths = <<>> <=> Len(t.paths) = 0
  BY <1>1, <1>2, SpineIsSeq
<1>4. CASE s.current = None
  <2>1. t.paths = <<v>> /\ t.root = v /\ s.paths = <<>>
    <3>1. s.paths = <<>> /\ t.paths = Append(s.paths, v) /\ t.root = v
      BY <1>4 DEF Ready, Pushed
    <3> QED BY <3>1
  <2> HIDE DEF k, v, q
  <2>2. Len(t.paths) = 1 /\ t.paths[1] = v /\ Len(s.paths) = 0
    BY <2>1
  <2>3. Len(q) = 2 /\ q[1] = v /\ q[2] = v
    BY <1>3, <2>2
  <2> QED BY <1>1, <1>2, <1>3, <1>4, <2>1, <2>2, <2>3 DEF SpineFits, q
<1>5. CASE s.current # None
  <2>1. /\ s.paths # <<>> /\ IsNode(s.current) /\ t.paths = p /\ t.root = s.root
    BY <1>5 DEF Ready, Pushed, Spine
  <2>2. /\ p \in Seq(JSValue) /\ Len(p) = Len(s.paths) + 1 /\ Len(s.paths) \in Nat /\ Len(s.paths) > 0
        /\ p[Len(p)] = s.current
    BY <1>5, <2>1, SpineIsSeq
  <2>3. /\ p[1] = s.root /\ p[2] = s.root
        /\ \A i \in 2..Len(p) - 1 : HoldsIn(s.heap, p[i], p[i + 1])
        /\ \A i, j \in 2..Len(p) : i < j => p[i].data < p[j].data
    BY <2>1 DEF SpineFits
  <2>4. \A i \in 1..Len(p) : IsNode(p[i]) /\ p[i].data \in DOMAIN s.heap /\ p[i].data \in Nat /\ p[i] = Ref(p[i].data)
    BY <1>5, <2>1, SpineNode
  <2>5. q = Append(p, v)
    BY <1>1, <2>1 DEF Spine
  <2>6. SameBut(t.heap, s.heap, s.current) /\ HoldsIn(t.heap, s.current, v)
    BY <1>5 DEF Pushed, SameBut
  <2> HIDE DEF p, q, v
  <2>7. Len(q) = Len(p) + 1 /\ (\A i \in 1..Len(p) : q[i] = p[i]) /\ q[Len(p) + 1] = v
    BY <1>3, <2>1
  <2>8. \A i \in 2..Len(q) - 1 : HoldsIn(t.heap, q[i], q[i + 1])
    <3> TAKE i \in 2..Len(q) - 1
    <3>1. CASE i = Len(p)
      BY <2>2, <2>6, <2>7, <3>1
    <3>2. CASE i # Len(p)
      <4>1. i \in 2..Len(p) - 1 /\ i + 1 \in 2..Len(p) /\ Len(p) \in 2..Len(p) /\ i < Len(p) /\ i \in 2..Len(p) /\ i \in 1..Len(p)
        BY <2>2, <2>7, <3>2
      <4>2. q[i] = p[i] /\ q[i + 1] = p[i + 1]
        BY <2>7, <4>1
      <4>3. HoldsIn(s.heap, p[i], p[i + 1])
        BY <2>3, <4>1
      <4>4. p[i].data # s.current.data
        <5>1. p[i].data < p[Len(p)].data
          BY <2>3, <4>1
        <5>2. p[i].data \in Nat /\ p[Len(p)].data \in Nat
          BY <2>4, <4>1
        <5> QED BY <2>2, <5>1, <5>2
      <4>5. s.current # Ref(p[i].data)
        BY <4>4 DEF Ref, Value
      <4>6. /\ t.heap[p[i].data].entries = s.heap[p[i].data].entries
            /\ t.heap[p[i].data].proto = s.heap[p[i].data].proto
        BY <2>4, <2>6, <4>1, <4>5 DEF SameBut
      <4> QED BY <4>2, <4>3, <4>6 DEF HoldsIn, LastIs
    <3> QED BY <3>1, <3>2
  <2>9. \A i, j \in 2..Len(q) : i < j => q[i].data < q[j].data
    <3> TAKE i \in 2..Len(q)
    <3> TAKE j \in 2..Len(q)
    <3> HAVE i < j
    <3>1. i \in 1..Len(p) /\ i \in 2..Len(p)
      BY <2>2, <2>7
    <3>2. q[i] = p[i] /\ p[i].data \in 1..Len(s.heap)
      BY <1>1, <2>4, <2>7, <3>1
    <3>3. CASE j = Len(p) + 1
      <4>1. q[j].data = k
        BY <1>1, <2>7, <3>3
      <4> QED BY <1>1, <3>2, <4>1
    <3>4. CASE j # Len(p) + 1
      <4>1. j \in 2..Len(p) /\ j \in 1..Len(p)
        BY <2>2, <2>7, <3>4
      <4> QED BY <2>3, <2>7, <3>1, <4>1
    <3> QED BY <3>3, <3>4
  <2>10. q[1] = t.root /\ q[2] = t.root /\ Len(t.paths) = Len(s.paths) + 1
    <3>1. 1 \in 1..Len(p) /\ 2 \in 1..Len(p)
      BY <2>2
    <3> QED BY <2>1, <2>2, <2>3, <2>7, <3>1
  <2>11. t.paths # <<>>
    BY <1>3, <2>2, <2>10
  <2>12. SpineFits(t)
    BY <1>1, <1>2, <2>8, <2>9, <2>10 DEF SpineFits, q
  <2> QED BY <1>1, <1>2, <2>5, <2>10, <2>11, <2>12 DEF p, q
<1> QED BY <1>4, <1>5

(* A value other than a container went into the current container.         *)
LEMMA SpineKept ==
  ASSUME NEW s, SerFits(s), SpineFits(s), s.paths # <<>>, NEW t, t.paths = s.paths, t.current = s.current,
         t.root = s.root, SameBut(t.heap, s.heap, s.current)
  PROVE  SpineFits(t) /\ Spine(t) = Spine(s)
<1> DEFINE p == Spine(s)
<1>1. Spine(t) = p
  BY DEF Spine
<1>2. s.current # None /\ IsNode(s.current)
  BY DEF SpineFits
<1>3. /\ Len(p) = Len(s.paths) + 1 /\ Len(s.paths) \in Nat /\ Len(s.paths) > 0 /\ p[Len(p)] = s.current
  BY <1>2, SpineIsSeq
<1>4. /\ p[1] = s.root /\ p[2] = s.root
      /\ \A i \in 2..Len(p) - 1 : HoldsIn(s.heap, p[i], p[i + 1])
      /\ \A i, j \in 2..Len(p) : i < j => p[i].data < p[j].data
  BY DEF SpineFits
<1>5. \A i \in 1..Len(p) : p[i].data \in DOMAIN s.heap /\ p[i].data \in Nat
  BY <1>2, SpineNode
<1> HIDE DEF p
<1>6. \A i \in 2..Len(p) - 1 : HoldsIn(t.heap, p[i], p[i + 1])
  <2> TAKE i \in 2..Len(p) - 1
  <2>1. i < Len(p) /\ i \in 2..Len(p) /\ Len(p) \in 2..Len(p) /\ i \in 1..Len(p) /\ Len(p) \in 1..Len(p)
    BY <1>3
  <2>2. p[i].data < p[Len(p)].data /\ p[i].data \in Nat /\ p[Len(p)].data \in Nat
    BY <1>4, <1>5, <2>1
  <2>3. s.current # Ref(p[i].data)
    BY <1>3, <2>2 DEF Ref, Value
  <2>4. /\ t.heap[p[i].data].entries = s.heap[p[i].data].entries
        /\ t.heap[p[i].data].proto = s.heap[p[i].data].proto
    BY <1>5, <2>1, <2>3 DEF SameBut
  <2> QED BY <1>4, <2>4 DEF HoldsIn, LastIs
<1> QED BY <1>1, <1>2, <1>4, <1>6 DEF SpineFits, p

LEMMA SpinePopped ==
  ASSUME NEW s, SerFits(s), SpineFits(s), s.paths # <<>>, NEW t, SerFits(t), SameShape(t.heap, s.heap),
         t.paths = Front(s.paths), t.current = s.paths[Len(s.paths)], t.root = s.root
  PROVE  /\ SpineFits(t) /\ t.current # None /\ IsNode(t.current) /\ Len(t.paths) = Len(s.paths) - 1
         /\ \A i \in 1..Len(s.paths) : Spine(t)[i] = Spine(s)[i]
         /\ Len(Spine(t)) = Len(s.paths)
<1> DEFINE p == Spine(s)
           q == Spine(t)
<1>1. s.current # None /\ IsNode(s.current)
  BY DEF SpineFits
<1>2. /\ Len(p) = Len(s.paths) + 1 /\ Len(s.paths) \in Nat /\ Len(s.paths) > 0
      /\ \A i \in 1..Len(s.paths) : p[i] = s.paths[i]
  BY <1>1, SpineIsSeq
<1>3. /\ p[1] = s.root /\ p[2] = s.root
      /\ \A i \in 2..Len(p) - 1 : HoldsIn(s.heap, p[i], p[i + 1])
      /\ \A i, j \in 2..Len(p) : i < j => p[i].data < p[j].data
  BY DEF SpineFits
<1>4. \A i \in 1..Len(p) : IsNode(p[i]) /\ p[i].data \in DOMAIN s.heap
  BY <1>1, SpineNode
<1>5. /\ Len(t.paths) = Len(s.paths) - 1 /\ \A i \in 1..Len(s.paths) - 1 : t.paths[i] = s.paths[i]
  BY SerParts, PathPopped
<1>6. IsNode(t.current) /\ t.current # None
  <2>1. Len(s.paths) \in DOMAIN s.paths
    BY <1>2, SerParts
  <2>2. IsNode(s.paths[Len(s.paths)]) /\ s.paths[Len(s.paths)] \in JSValue
    BY <2>1, SerParts DEF ValueFits
  <2> QED BY <2>2, NoneIsNoValue
<1>7. /\ Len(q) = Len(t.paths) + 1
      /\ \A i \in 1..Len(t.paths) : q[i] = t.paths[i]
      /\ q[Len(t.paths) + 1] = t.current
  BY <1>6, SpineIsSeq
<1> HIDE DEF p, q
<1>8. Len(q) = Len(s.paths) /\ \A i \in 1..Len(s.paths) : q[i] = p[i]
  BY <1>2, <1>5, <1>7
<1>9. \A i \in 2..Len(q) - 1 : HoldsIn(t.heap, q[i], q[i + 1])
  <2> TAKE i \in 2..Len(q) - 1
  <2>1. i \in 2..Len(p) - 1 /\ i \in 1..Len(s.paths) /\ i + 1 \in 1..Len(s.paths) /\ i \in 1..Len(p)
    BY <1>2, <1>8
  <2>2. q[i] = p[i] /\ q[i + 1] = p[i + 1] /\ HoldsIn(s.heap, p[i], p[i + 1])
    BY <1>3, <1>8, <2>1
  <2>3. /\ t.heap[p[i].data].entries = s.heap[p[i].data].entries
        /\ t.heap[p[i].data].proto = s.heap[p[i].data].proto
    BY <1>4, <2>1 DEF SameShape
  <2> QED BY <2>2, <2>3 DEF HoldsIn, LastIs
<1>10. \A i, j \in 2..Len(q) : i < j => q[i].data < q[j].data
  <2> TAKE i \in 2..Len(q)
  <2> TAKE j \in 2..Len(q)
  <2> HAVE i < j
  <2>1. i \in 2..Len(p) /\ j \in 2..Len(p) /\ i \in 1..Len(s.paths) /\ j \in 1..Len(s.paths)
    BY <1>2, <1>8
  <2> QED BY <1>3, <1>8, <2>1
<1>11. t.paths # <<>> => q[1] = t.root /\ q[2] = t.root
  <2> HAVE t.paths # <<>>
  <2>1. Len(t.paths) > 0
    <3>1. t.paths \in Seq(JSValue)
      BY SerParts
    <3> QED BY <3>1
  <2>2. 1 \in 1..Len(s.paths) /\ 2 \in 1..Len(s.paths)
    BY <1>2, <1>5, <2>1
  <2> QED BY <1>3, <1>8, <2>2
<1> QED BY <1>5, <1>6, <1>8, <1>9, <1>10, <1>11 DEF SpineFits, p, q

(* The compounds that are open.                                            *)

(* What compounds there are.                                               *)
FrameKinds == {"seq", "map", "struct", "newtype_variant", "tuple_variant", "struct_variant"}
Frames == [kind : FrameKinds, due : {"key", "value", "end"}, keys : SUBSET Strings]

(* What is due when a value is complete.                                   *)
Settled(kind) ==
  IF kind \in Keyed THEN "key" ELSE IF kind = "newtype_variant" THEN "end" ELSE "value"

DueFits(f) == (f.due = "key" => f.kind \in Keyed) /\ (f.kind \in Listed => f.due = "value")

(* The compounds around the innermost are in the middle of a value.        *)
FramesFit(fs) ==
  /\ fs \in Seq(Frames) /\ \A i \in 1..Len(fs) : DueFits(fs[i])
  /\ \A i \in 1..Len(fs) - 1 : fs[i].due = Settled(fs[i].kind)

(* Where in the spine the container of a compound is.                      *)
TwoDeeps(fs, i) == {j \in 1..i : fs[j].kind \in TwoDeep}
Depth(fs, i) == i + 1 + Cardinality(TwoDeeps(fs, i))

LEMMA DepthIsNat ==
  ASSUME NEW fs, NEW i \in Nat
  PROVE  /\ IsFiniteSet(TwoDeeps(fs, i)) /\ Cardinality(TwoDeeps(fs, i)) \in Nat
         /\ Depth(fs, i) \in Nat /\ Depth(fs, i) >= i + 1
<1>1. TwoDeeps(fs, i) \in SUBSET (1..i) /\ IsFiniteSet(1..i)
  BY FS_Interval DEF TwoDeeps
<1>2. IsFiniteSet(TwoDeeps(fs, i))
  BY <1>1, FS_Subset
<1>3. Cardinality(TwoDeeps(fs, i)) \in Nat
  BY <1>2, FS_CardinalityType
<1> QED BY <1>2, <1>3 DEF Depth

LEMMA DepthOfNone ==
  ASSUME NEW fs
  PROVE  Depth(fs, 0) = 1
<1>1. TwoDeeps(fs, 0) = {}
  BY DEF TwoDeeps
<1> QED BY <1>1, FS_EmptySet DEF Depth

LEMMA DepthAgrees ==
  ASSUME NEW fs, NEW gs, NEW i \in Nat, \A j \in 1..i : gs[j].kind = fs[j].kind
  PROVE  Depth(gs, i) = Depth(fs, i)
<1>1. TwoDeeps(gs, i) = TwoDeeps(fs, i)
  BY DEF TwoDeeps
<1> QED BY <1>1 DEF Depth

LEMMA DepthOfNext ==
  ASSUME NEW fs, NEW i \in Nat
  PROVE  Depth(fs, i + 1) = Depth(fs, i) + (IF fs[i + 1].kind \in TwoDeep THEN 2 ELSE 1)
<1> DEFINE A == TwoDeeps(fs, i)
           B == TwoDeeps(fs, i + 1)
           x == fs[i + 1].kind \in TwoDeep
<1>1. IsFiniteSet(A) /\ Cardinality(A) \in Nat
  BY DepthIsNat
<1>2. i + 1 \notin A
  BY DEF TwoDeeps
<1>3. B = IF x THEN A \cup {i + 1} ELSE A
  <2>1. 1..i + 1 = (1..i) \cup {i + 1}
    OBVIOUS
  <2> QED BY <2>1 DEF TwoDeeps
<1> HIDE DEF A, B, x
<1>4. Cardinality(B) = Cardinality(A) + (IF x THEN 1 ELSE 0)
  <2>1. CASE x
    <3>1. B = A \cup {i + 1}
      BY <1>3, <2>1
    <3> QED BY <1>1, <1>2, <2>1, <3>1, FS_AddElement
  <2>2. CASE ~x
    BY <1>1, <1>3, <2>2
  <2> QED BY <2>1, <2>2
<1>5. i + 1 + 1 + Cardinality(B) = i + 1 + Cardinality(A) + (IF x THEN 2 ELSE 1)
  BY <1>1, <1>4
<1> QED BY <1>5 DEF Depth, A, B, x

LEMMA DepthGrows ==
  ASSUME NEW fs, NEW i \in Nat, NEW j \in Nat, i < j
  PROVE  Depth(fs, i) < Depth(fs, j)
<1> DEFINE a == Cardinality(TwoDeeps(fs, i))
           b == Cardinality(TwoDeeps(fs, j))
<1>1. a \in Nat /\ b \in Nat /\ IsFiniteSet(TwoDeeps(fs, j))
  BY DepthIsNat
<1>2. TwoDeeps(fs, i) \in SUBSET TwoDeeps(fs, j)
  BY DEF TwoDeeps
<1>3. a <= b
  BY <1>1, <1>2, FS_Subset
<1> HIDE DEF a, b
<1>4. i + 1 + a < j + 1 + b
  BY <1>1, <1>3
<1> QED BY <1>4 DEF Depth, a, b

(* A value is complete: AfterValue.                                        *)

SettledFrames(gs, fs) ==
  /\ FramesFit(gs) /\ Len(gs) = Len(fs)
  /\ \A i \in 1..Len(fs) : gs[i].kind = fs[i].kind /\ gs[i].keys = fs[i].keys /\ gs[i].due = Settled(fs[i].kind)

LEMMA FrameSettles ==
  ASSUME NEW f \in Frames, NEW due \in {"key", "value", "end"}, NEW g, g = [f EXCEPT !.due = due]
  PROVE  g \in Frames /\ g.kind = f.kind /\ g.keys = f.keys /\ g.due = due
BY DEF Frames

LEMMA SettledFits ==
  ASSUME NEW kind \in FrameKinds
  PROVE  Settled(kind) \in {"key", "value", "end"}
BY DEF Settled

LEMMA ValueSettles ==
  ASSUME NEW fs, FramesFit(fs), NEW gs, gs = AfterValue(fs)
  PROVE  SettledFrames(gs, fs)
<1>1. fs \in Seq(Frames) /\ Len(fs) \in Nat /\ DOMAIN fs = 1..Len(fs)
  BY DEF FramesFit
<1>2. CASE fs = <<>>
  <2>1. gs = fs /\ Len(fs) = 0
    BY <1>2 DEF AfterValue
  <2> QED BY <1>2, <2>1 DEF SettledFrames
<1>3. CASE fs # <<>>
  <2> DEFINE n == Len(fs)
             d == Settled(fs[n].kind)
             g == [fs[n] EXCEPT !.due = d]
  <2>1. n \in 1..n /\ n \in Nat /\ fs[n] \in Frames
    BY <1>1, <1>3
  <2>2. d \in {"key", "value", "end"}
    BY <2>1, SettledFits DEF Frames
  <2>3. gs = [fs EXCEPT ![n] = g]
    <3>1. d = CASE fs[n].kind \in Keyed -> "key" [] fs[n].kind = "newtype_variant" -> "end" [] OTHER -> "value"
      BY DEF Settled, Keyed
    <3> HIDE DEF d
    <3> QED BY <1>3, <3>1 DEF AfterValue
  <2>4. g \in Frames /\ g.kind = fs[n].kind /\ g.keys = fs[n].keys /\ g.due = d
    <3> DEFINE f == fs[n]
    <3> HIDE DEF d
    <3>1. f \in Frames /\ g = [f EXCEPT !.due = d]
      BY <2>1
    <3> HIDE DEF f, g
    <3>2. g \in Frames /\ g.kind = f.kind /\ g.keys = f.keys /\ g.due = d
      BY <2>2, <3>1, FrameSettles
    <3> QED BY <3>2 DEF f
  <2> HIDE DEF g
  <2>5. /\ gs \in Seq(Frames) /\ Len(gs) = n /\ gs[n] = g
        /\ \A i \in 1..n : i # n => gs[i] = fs[i]
    BY <1>1, <2>1, <2>3, <2>4
  <2>6. DueFits(g)
    BY <2>4 DEF DueFits, Settled, Keyed, Listed
  <2>7. \A i \in 1..n : /\ gs[i].kind = fs[i].kind /\ gs[i].keys = fs[i].keys /\ gs[i].due = Settled(fs[i].kind)
                        /\ DueFits(gs[i])
    <3> TAKE i \in 1..n
    <3>1. CASE i = n
      BY <2>4, <2>5, <2>6, <3>1
    <3>2. CASE i # n
      <4>1. gs[i] = fs[i] /\ i \in 1..n - 1
        BY <2>1, <2>5, <3>2
      <4> QED BY <4>1 DEF FramesFit
    <3> QED BY <3>1, <3>2
  <2>8. \A i \in 1..n - 1 : gs[i].due = Settled(gs[i].kind)
    BY <2>1, <2>7
  <2>9. FramesFit(gs)
    BY <2>5, <2>7, <2>8 DEF FramesFit
  <2> QED BY <2>5, <2>7, <2>9 DEF SettledFrames
<1> QED BY <1>2, <1>3

(* A compound is begun.                                                    *)
Begun(gs, fs, kind) ==
  LET n == Len(fs) + 1 IN
  /\ FramesFit(gs) /\ Len(gs) = n
  /\ \A i \in 1..Len(fs) : gs[i].kind = fs[i].kind /\ gs[i].keys = fs[i].keys
  /\ gs[n].kind = kind /\ gs[n].keys = {} /\ gs[n].due = IF kind \in Keyed THEN "key" ELSE "value"

LEMMA CompoundBegins ==
  ASSUME NEW fs, FramesFit(fs), NEW kind \in FrameKinds, NEW gs, gs = Append(AfterValue(fs), Frame(kind))
  PROVE  Begun(gs, fs, kind)
<1> DEFINE as == AfterValue(fs)
           f == Frame(kind)
           n == Len(fs)
<1>1. SettledFrames(as, fs)
  BY ValueSettles
<1>2. f \in Frames /\ f.kind = kind /\ f.keys = {} /\ f.due = (IF kind \in Keyed THEN "key" ELSE "value") /\ DueFits(f)
  <2>1. f \in Frames /\ f.kind = kind /\ f.keys = {} /\ f.due = (IF kind \in Keyed THEN "key" ELSE "value")
    BY DEF Frame, Frames
  <2> HIDE DEF f
  <2> QED BY <2>1 DEF DueFits, Keyed, Listed
<1> HIDE DEF as, f
<1>3. as \in Seq(Frames) /\ Len(as) = n /\ n \in Nat /\ \A i \in 1..n : DueFits(as[i])
  <2>1. FramesFit(as) /\ Len(as) = n
    BY <1>1 DEF SettledFrames
  <2>2. as \in Seq(Frames) /\ \A i \in 1..Len(as) : DueFits(as[i])
    BY <2>1 DEF FramesFit
  <2>3. n \in Nat
    BY DEF FramesFit
  <2> QED BY <2>1, <2>2, <2>3
<1>4. /\ gs \in Seq(Frames) /\ Len(gs) = n + 1 /\ gs[n + 1] = f /\ \A i \in 1..n : gs[i] = as[i]
  BY <1>2, <1>3 DEF as, f
<1>5. \A i \in 1..n : gs[i].kind = fs[i].kind /\ gs[i].keys = fs[i].keys /\ gs[i].due = Settled(gs[i].kind)
  BY <1>1, <1>4 DEF SettledFrames
<1>6. \A i \in 1..n + 1 : DueFits(gs[i])
  <2> TAKE i \in 1..n + 1
  <2>1. i = n + 1 \/ i \in 1..n
    BY <1>3
  <2> QED BY <1>2, <1>3, <1>4, <2>1
<1>7. FramesFit(gs)
  <2>1. Len(gs) - 1 = n
    <3>1. Len(gs) = n + 1 /\ n \in Nat
      BY <1>3, <1>4
    <3> HIDE DEF n
    <3> QED BY <3>1
  <2> QED BY <1>4, <1>5, <1>6, <2>1 DEF FramesFit
<1> QED BY <1>2, <1>3, <1>4, <1>5, <1>7 DEF Begun

(* A compound is ended.                                                    *)
Ended(gs, fs) ==
  /\ FramesFit(gs) /\ Len(gs) = Len(fs) - 1
  /\ \A i \in 1..Len(fs) - 1 : gs[i] = fs[i] /\ gs[i].due = Settled(gs[i].kind)

LEMMA CompoundEnds ==
  ASSUME NEW fs, FramesFit(fs), fs # <<>>, NEW gs, gs = SubSeq(fs, 1, Len(fs) - 1)
  PROVE  Ended(gs, fs)
<1> DEFINE k == Len(fs) - 1
<1>1. fs \in Seq(Frames) /\ Len(fs) \in Nat /\ k \in Nat /\ Len(fs) = k + 1 /\ \A i \in 1..k : fs[i] \in Frames
  BY DEF FramesFit
<1>2. gs = SubSeq(fs, 1, k)
  OBVIOUS
<1> HIDE DEF k
<1>3. /\ SubSeq(fs, 1, k) \in Seq(Frames) /\ Len(SubSeq(fs, 1, k)) = IF 1 <= k THEN k - 1 + 1 ELSE 0
      /\ \A i \in 1..k - 1 + 1 : SubSeq(fs, 1, k)[i] = fs[1 + i - 1]
  <2>1. k \in Int /\ 1 \in Int
    BY <1>1
  <2> QED BY <1>1, <2>1, SubSeqProperties
<1>4. gs \in Seq(Frames) /\ Len(gs) = k /\ \A i \in 1..k : gs[i] = fs[i]
  BY <1>1, <1>2, <1>3
<1>5. \A i \in 1..k : DueFits(fs[i]) /\ fs[i].due = Settled(fs[i].kind)
  BY <1>1 DEF FramesFit, k
<1>6. FramesFit(gs)
  <2>1. \A i \in 1..k - 1 : i \in 1..k
    BY <1>1
  <2> QED BY <1>4, <1>5, <2>1 DEF FramesFit
<1> QED BY <1>4, <1>5, <1>6 DEF Ended, k

LEMMA FrameReplaced ==
  ASSUME NEW fs \in Seq(Frames), NEW n \in 1..Len(fs), NEW g \in Frames, NEW gs, gs = [fs EXCEPT ![n] = g]
  PROVE  /\ gs \in Seq(Frames) /\ Len(gs) = Len(fs) /\ gs[n] = g
         /\ \A i \in 1..Len(fs) : i # n => gs[i] = fs[i]
OBVIOUS

(* A key is given.                                                         *)
KeyGiven(gs, fs, text) ==
  LET n == Len(fs) IN
  /\ FramesFit(gs) /\ Len(gs) = n /\ \A i \in 1..n - 1 : gs[i] = fs[i]
  /\ gs[n].kind = fs[n].kind /\ gs[n].due = "value" /\ gs[n].keys = fs[n].keys \cup {text}

LEMMA KeyIsGiven ==
  ASSUME NEW fs, FramesFit(fs), fs # <<>>, fs[Len(fs)].due = "key", NEW text \in Strings,
         NEW gs, gs = [fs EXCEPT ![Len(fs)].due = "value", ![Len(fs)].keys = @ \cup {text}]
  PROVE  KeyGiven(gs, fs, text)
<1> DEFINE n == Len(fs)
           K == fs[n].keys \cup {text}
           g == [fs[n] EXCEPT !.due = "value", !.keys = K]
<1>1. fs \in Seq(Frames) /\ n \in Nat /\ n \in 1..n /\ fs[n] \in Frames /\ DOMAIN fs = 1..n
  BY DEF FramesFit
<1>2. K \in SUBSET Strings
  BY <1>1 DEF Frames
<1>3. gs = [fs EXCEPT ![n] = g]
  BY <1>1
<1>4. g \in Frames /\ g.kind = fs[n].kind /\ g.due = "value" /\ g.keys = K
  <2> DEFINE f == fs[n]
  <2>1. f \in Frames /\ g = [f EXCEPT !.due = "value", !.keys = K]
    BY <1>1
  <2> HIDE DEF f, g, K
  <2>2. g \in Frames /\ g.kind = f.kind /\ g.due = "value" /\ g.keys = K
    BY <1>2, <2>1 DEF Frames
  <2> QED BY <2>2 DEF f
<1> HIDE DEF g
<1>5. /\ gs \in Seq(Frames) /\ Len(gs) = n /\ gs[n] = g
      /\ \A i \in 1..n : i # n => gs[i] = fs[i]
  <2>1. /\ fs \in Seq(Frames) /\ n \in 1..Len(fs) /\ g \in Frames /\ gs = [fs EXCEPT ![n] = g]
    BY <1>1, <1>3, <1>4
  <2>2. /\ gs \in Seq(Frames) /\ Len(gs) = Len(fs) /\ gs[n] = g
        /\ \A i \in 1..Len(fs) : i # n => gs[i] = fs[i]
    BY ONLY <2>1, FrameReplaced
  <2> QED BY <2>2
<1>6. DueFits(g)
  BY <1>4 DEF DueFits
<1>7. \A i \in 1..n : DueFits(gs[i])
  <2> TAKE i \in 1..n
  <2> QED BY <1>5, <1>6 DEF FramesFit
<1>8. \A i \in 1..n - 1 : gs[i] = fs[i] /\ gs[i].due = Settled(gs[i].kind)
  <2> TAKE i \in 1..n - 1
  <2>1. i \in 1..n /\ i # n
    BY <1>1
  <2> QED BY <1>5, <2>1 DEF FramesFit
<1>9. FramesFit(gs)
  BY <1>5, <1>7, <1>8 DEF FramesFit
<1> QED BY <1>4, <1>5, <1>8, <1>9 DEF KeyGiven, K

(* The containers of the compounds.                                        *)

HolderFits(x, f) ==
  (x.kind = "array" <=> f.kind \in Listed) /\ (x.proto # None => ProtoKey \in f.keys)

Holder(s, d) == s.heap[Spine(s)[d].data]

Holders(s, fs) ==
  \A i \in 1..Len(fs) :
    Depth(fs, i) <= Len(s.paths) + 1 /\ HolderFits(Holder(s, Depth(fs, i)), fs[i])

KeyFits(s, fs) ==
  /\ fs = <<>> => s.current_key = None
  /\ fs # <<>> =>
       LET f == fs[Len(fs)] IN
       /\ s.current_key # None <=> f.due = "value" /\ f.kind \notin Listed
       /\ s.current_key = ProtoKey => ProtoKey \in f.keys /\ s.heap[s.current.data].proto = None

(* A serializer at work, and the compounds that are open.                  *)
Building(s, fs) ==
  /\ FramesFit(fs) /\ SerFits(s) /\ CountedWith(s, Undefined)
  /\ s.status = "running" /\ s.current_is_key = FALSE
  /\ SpineFits(s) /\ Holders(s, fs) /\ Len(s.paths) + 1 = Depth(fs, Len(fs))
  /\ KeyFits(s, fs)

(* It waits for a value.                                                   *)
Awaits(s, fs) == IF fs = <<>> THEN s.current = None ELSE fs[Len(fs)].due = "value"

(* What these say of a serializer at work.                                 *)
LEMMA BuildingParts ==
  ASSUME NEW s, NEW fs, Building(s, fs)
  PROVE  /\ SerFits(s) /\ FramesFit(fs) /\ Len(fs) \in Nat /\ fs \in Seq(Frames) /\ Len(s.paths) \in Nat
         /\ fs = <<>> => s.paths = <<>> /\ Len(fs) = 0 /\ Len(s.paths) = 0
         /\ fs # <<>> => /\ s.paths # <<>> /\ s.current # None /\ IsNode(s.current)
                         /\ Len(fs) \in 1..Len(fs) /\ fs[Len(fs)] \in Frames /\ DueFits(fs[Len(fs)])
                         /\ s.current.data \in DOMAIN s.heap /\ s.current = Ref(s.current.data)
                         /\ Spine(s)[Len(s.paths) + 1] = s.current
                         /\ HolderFits(s.heap[s.current.data], fs[Len(fs)])
<1>1. SerFits(s) /\ FramesFit(fs) /\ fs \in Seq(Frames) /\ s.paths \in Seq(JSValue)
  BY SerParts DEF Building, FramesFit
<1>2. Len(fs) \in Nat /\ Len(s.paths) \in Nat /\ (Len(fs) = 0 <=> fs = <<>>) /\ (Len(s.paths) = 0 <=> s.paths = <<>>)
  BY <1>1
<1>3. Len(s.paths) + 1 = Depth(fs, Len(fs))
  BY DEF Building
<1>4. CASE fs = <<>>
  <2>1. Len(fs) = 0 /\ Depth(fs, 0) = 1
    BY <1>2, <1>4, DepthOfNone
  <2>2. Len(s.paths) = 0
    BY <1>2, <1>3, <2>1
  <2> QED BY <1>1, <1>2, <1>4, <2>1, <2>2
<1>5. CASE fs # <<>>
  <2>1. Len(fs) \in 1..Len(fs) /\ Depth(fs, Len(fs)) \in Nat /\ Depth(fs, Len(fs)) >= Len(fs) + 1
    BY <1>2, <1>5, DepthIsNat
  <2>2. Len(s.paths) > 0
    BY <1>2, <1>3, <2>1
  <2>3. s.paths # <<>>
    BY <1>2, <2>2
  <2>4. s.current # None /\ IsNode(s.current)
    BY <2>3 DEF Building, SpineFits
  <2>5. s.current.data \in DOMAIN s.heap /\ s.current = Ref(s.current.data)
    BY <1>1, <2>4, NodeNamed, SerParts
  <2>6. Spine(s)[Len(s.paths) + 1] = s.current
    BY <1>1, <2>4, SpineIsSeq
  <2>7. HolderFits(Holder(s, Depth(fs, Len(fs))), fs[Len(fs)])
    BY <2>1 DEF Building, Holders
  <2>8. HolderFits(s.heap[s.current.data], fs[Len(fs)])
    BY <1>3, <2>6, <2>7 DEF Holder
  <2>9. fs[Len(fs)] \in Frames /\ DueFits(fs[Len(fs)])
    BY <1>1, <2>1 DEF FramesFit
  <2> QED BY <1>1, <1>2, <1>5, <2>1, <2>3, <2>4, <2>5, <2>6, <2>8, <2>9
<1> QED BY <1>4, <1>5

LEMMA BuildingReady ==
  ASSUME NEW s, NEW fs, Building(s, fs), Awaits(s, fs)
  PROVE  /\ ProtoFree(s) /\ Ready(s) /\ s.current # Undefined /\ CountedWith(s, Undefined) /\ s.status = "running"
         /\ s.current = None <=> fs = <<>>
         /\ s.current_key # NulText => CanTake(s)
         /\ s.current_key = NulText => ~CanTake(s)
<1>1. CountedWith(s, Undefined) /\ s.status = "running" /\ KeyFits(s, fs)
  BY DEF Building
<1>2. Undefined \in JSValue /\ ~IsNode(Undefined)
  BY DEF Undefined, Value, JSValue, Tags, IsNode
<1>3. None # Undefined /\ None # NulText /\ None # ProtoKey
  BY <1>2, NoneIsNoValue, StringsDiffer DEF Strings
<1>4. CASE fs = <<>>
  <2>1. s.current = None /\ s.paths = <<>> /\ s.current_key = None
    BY <1>1, <1>4, BuildingParts DEF Awaits, KeyFits
  <2> QED BY <1>1, <1>3, <1>4, <2>1 DEF ProtoFree, Ready, CanTake
<1>5. CASE fs # <<>>
  <2> DEFINE f == fs[Len(fs)]
             x == s.heap[s.current.data]
  <2>1. /\ s.paths # <<>> /\ s.current # None /\ IsNode(s.current) /\ HolderFits(x, f)
        /\ s.current.data \in DOMAIN s.heap
    BY <1>5, BuildingParts
  <2>2. f.due = "value"
    BY <1>5 DEF Awaits
  <2>3. (s.current_key # None <=> f.kind \notin Listed) /\ (s.current_key = ProtoKey => x.proto = None)
    BY <1>1, <1>5, <2>2 DEF KeyFits
  <2>4. x.kind = "array" <=> f.kind \in Listed
    BY <2>1 DEF HolderFits
  <2>5. s.current_key # NulText => CanTake(s)
    BY <2>1, <2>3, <2>4 DEF CanTake
  <2>6. s.current_key = NulText => ~CanTake(s)
    BY <1>3, <2>1, <2>3, <2>4 DEF CanTake
  <2>7. ProtoFree(s)
    BY <2>3 DEF ProtoFree
  <2>8. Ready(s) /\ s.current # Undefined
    BY <1>2, <2>1 DEF Ready
  <2> QED BY <1>1, <1>5, <2>1, <2>5, <2>6, <2>7, <2>8
<1> QED BY <1>4, <1>5

(* Below the top, the containers are not the current one.                  *)
LEMMA LowerHolder ==
  ASSUME NEW s, SerFits(s), SpineFits(s), s.paths # <<>>, NEW d \in Nat, 2 <= d, d <= Len(s.paths)
  PROVE  Spine(s)[d].data \in DOMAIN s.heap /\ s.current # Ref(Spine(s)[d].data)
<1>1. s.current # None /\ IsNode(s.current)
  BY DEF SpineFits
<1> DEFINE p == Spine(s)
           e == Len(s.paths) + 1
<1>2. Len(p) = e /\ Len(s.paths) \in Nat /\ p[e] = s.current
  BY <1>1, SpineIsSeq
<1>3. d \in 2..Len(p) /\ e \in 2..Len(p) /\ d < e /\ d \in 1..Len(p) /\ e \in 1..Len(p)
  BY <1>2
<1>4. \A i, j \in 2..Len(p) : i < j => p[i].data < p[j].data
  BY DEF SpineFits
<1>5. p[d].data \in DOMAIN s.heap /\ p[d].data \in Nat /\ p[e].data \in Nat
  BY <1>1, <1>3, SpineNode
<1> HIDE DEF p, e
<1>6. p[d].data # p[e].data
  BY <1>3, <1>4, <1>5
<1>7. s.current.data # p[d].data
  BY <1>2, <1>6
<1>8. s.current # Ref(p[d].data)
  BY <1>7 DEF Ref, Value
<1> QED BY <1>5, <1>8 DEF p

(* A value that is no container.                                           *)

LEMMA ScalarCounted ==
  ASSUME NEW s, SerFits(s), CountedWith(s, Undefined), NEW v, ~IsNode(v)
  PROVE  CountedWith(s, v)
<1> SUFFICES ASSUME NEW n \in DOMAIN s.heap
             PROVE  s.heap[n].refs = HeldByHost(s, n) + HeldInHeap(s.heap, n) + Leak(s, n) + IfRef(v, n, 1)
  BY DEF CountedWith
<1>1. s.heap[n].refs = HeldByHost(s, n) + HeldInHeap(s.heap, n) + Leak(s, n) + IfRef(Undefined, n, 1)
  BY DEF CountedWith
<1>2. IfRef(Undefined, n, 1) = 0 /\ IfRef(v, n, 1) = 0
  BY SerParts, NoRef
<1> QED BY <1>1, <1>2

(* How a call of a serializer ends.                                        *)
Outcome(s, t, gs) ==
  /\ SerFits(t) /\ CountedWith(t, Undefined)
  /\ \/ t.status = "running" /\ Building(t, gs) /\ t.current_key \in {s.current_key, Text, None}
     \/ t.status = "error" /\ s.current_key = NulText

LEMMA SettledHolders ==
  ASSUME NEW t, NEW fs, NEW gs, Len(fs) \in Nat, Holders(t, fs), Len(gs) = Len(fs),
         \A i \in 1..Len(fs) : gs[i].kind = fs[i].kind /\ fs[i].keys \subseteq gs[i].keys
  PROVE  /\ Holders(t, gs) /\ Depth(gs, Len(gs)) = Depth(fs, Len(fs))
<1>1. \A i \in 1..Len(fs) : Depth(gs, i) = Depth(fs, i)
  <2> TAKE i \in 1..Len(fs)
  <2>1. i \in Nat /\ \A j \in 1..i : j \in 1..Len(fs)
    OBVIOUS
  <2> QED BY <2>1, DepthAgrees
<1>2. Depth(gs, Len(fs)) = Depth(fs, Len(fs))
  BY DepthAgrees
<1> QED BY <1>1, <1>2 DEF Holders, HolderFits

(* The current container took a value, and its compound is in order.       *)
LEMMA StoredHolders ==
  ASSUME NEW s, NEW fs, Building(s, fs), fs # <<>>, NEW t, SerFits(t), NEW v, Stored(s, v, t), t.paths = s.paths
  PROVE  Holders(t, fs) /\ SameBut(t.heap, s.heap, s.current)
<1> DEFINE m == s.current.data
           p == Spine(s)
<1>1. /\ SerFits(s) /\ SpineFits(s) /\ s.paths # <<>> /\ s.current = Ref(m) /\ m \in DOMAIN s.heap
      /\ Len(s.paths) \in Nat /\ p[Len(s.paths) + 1] = s.current /\ HolderFits(s.heap[m], fs[Len(fs)])
      /\ Len(fs) \in Nat /\ Len(s.paths) + 1 = Depth(fs, Len(fs)) /\ Holders(s, fs) /\ KeyFits(s, fs)
  <2>1. /\ SerFits(s) /\ SpineFits(s) /\ Holders(s, fs) /\ KeyFits(s, fs) /\ Len(s.paths) + 1 = Depth(fs, Len(fs))
    BY DEF Building
  <2>2. /\ s.paths # <<>> /\ s.current = Ref(m) /\ m \in DOMAIN s.heap
        /\ Len(s.paths) \in Nat /\ p[Len(s.paths) + 1] = s.current /\ HolderFits(s.heap[m], fs[Len(fs)])
        /\ Len(fs) \in Nat
    BY BuildingParts
  <2> QED BY <2>1, <2>2
<1>2. /\ t.current = s.current
      /\ s.current_key # ProtoKey => t.heap[m].proto = s.heap[m].proto
      /\ TakenOver(t.heap, s.heap, m, v)
  BY DEF Stored
<1>3. /\ \A n \in DOMAIN s.heap : t.heap[n].kind = s.heap[n].kind
      /\ \A n \in DOMAIN s.heap \ {m} : t.heap[n].entries = s.heap[n].entries /\ t.heap[n].proto = s.heap[n].proto
  BY <1>2 DEF TakenOver
<1>4. Spine(t) = p
  BY <1>2 DEF Spine
<1>5. s.current_key = ProtoKey => ProtoKey \in fs[Len(fs)].keys
  BY <1>1 DEF KeyFits
<1> HIDE DEF p, m
<1>6. ASSUME NEW i \in 1..Len(fs)
      PROVE  Depth(fs, i) <= Len(t.paths) + 1 /\ HolderFits(Holder(t, Depth(fs, i)), fs[i])
  <2> DEFINE d == Depth(fs, i)
  <2>1. d <= Len(t.paths) + 1 /\ HolderFits(s.heap[p[d].data], fs[i]) /\ Holder(t, d) = t.heap[p[d].data]
    BY <1>1, <1>4 DEF Holders, Holder, p
  <2>2. CASE i = Len(fs)
    <3>1. d = Len(s.paths) + 1
      BY <1>1, <2>2
    <3>2. p[d].data = m
      BY <1>1, <3>1 DEF m
    <3> HIDE DEF d
    <3>3. HolderFits(t.heap[m], fs[i])
      BY <1>1, <1>2, <1>3, <1>5, <2>2 DEF HolderFits
    <3> QED BY <2>1, <3>2, <3>3 DEF d
  <2>3. CASE i # Len(fs)
    <3>1. d \in Nat /\ 2 <= d /\ d < Depth(fs, Len(fs))
      <4>1. i \in Nat /\ i < Len(fs) /\ i >= 1
        BY <1>1, <2>3
      <4>2. d \in Nat /\ d >= i + 1 /\ d < Depth(fs, Len(fs))
        BY <1>1, <4>1, DepthIsNat, DepthGrows
      <4> HIDE DEF d
      <4> QED BY <4>1, <4>2
    <3> HIDE DEF d
    <3>2. d <= Len(s.paths)
      BY <1>1, <3>1
    <3>3. p[d].data \in DOMAIN s.heap /\ s.current # Ref(p[d].data)
      BY <1>1, <3>1, <3>2, LowerHolder DEF p
    <3>4. p[d].data # m
      BY <1>1, <3>3 DEF Ref, Value
    <3>5. HolderFits(t.heap[p[d].data], fs[i])
      BY <1>3, <2>1, <3>3, <3>4 DEF HolderFits
    <3> QED BY <2>1, <3>5 DEF d
  <2> QED BY <2>2, <2>3
<1>7. SameBut(t.heap, s.heap, s.current)
  BY <1>1, <1>3 DEF SameBut
<1> QED BY <1>6, <1>7 DEF Holders

LEMMA ScalarSet ==
  ASSUME NEW s, NEW fs, Building(s, fs), Awaits(s, fs), NEW v, ValueFits(v, Len(s.heap)), ~IsNode(v),
         NEW t, t = set_node_value(s, v), NEW gs, SettledFrames(gs, fs)
  PROVE  Outcome(s, t, gs)
<1>1. /\ SerFits(s) /\ CountedWith(s, v) /\ ProtoFree(s) /\ s.current # Undefined /\ s.status = "running"
      /\ s.current = None <=> fs = <<>>
      /\ (s.current_key # NulText => CanTake(s)) /\ s.current_is_key = FALSE
  <2>1. SerFits(s) /\ CountedWith(s, Undefined) /\ s.current_is_key = FALSE
    BY DEF Building
  <2>2. CountedWith(s, v)
    BY <2>1, ScalarCounted
  <2>3. /\ ProtoFree(s) /\ s.current # Undefined /\ s.status = "running"
        /\ s.current = None <=> fs = <<>>
        /\ s.current_key # NulText => CanTake(s)
    BY BuildingReady
  <2> QED BY <2>1, <2>2, <2>3
<1>2. /\ Keeps(s, t)
      /\ CanTake(s) /\ s.current = None => RootSet(s, v, t)
      /\ CanTake(s) /\ s.current # None => Stored(s, v, t)
      /\ ~CanTake(s) => t.status = "error"
  BY <1>1, SetNodeValueKeeps
<1>3. SerFits(t) /\ CountedWith(t, Undefined) /\ t.paths = s.paths /\ t.current_is_key = FALSE
  BY <1>1, <1>2 DEF Keeps
<1>4. CASE ~CanTake(s)
  BY <1>1, <1>2, <1>3, <1>4 DEF Outcome
<1>5. /\ FramesFit(gs) /\ Len(gs) = Len(fs) /\ Len(fs) \in Nat
      /\ \A i \in 1..Len(fs) : gs[i].kind = fs[i].kind /\ fs[i].keys \subseteq gs[i].keys
      /\ \A i \in 1..Len(fs) : gs[i].due = Settled(fs[i].kind)
  BY BuildingParts DEF SettledFrames
<1>6. gs = <<>> <=> fs = <<>>
  <2>1. gs \in Seq(Frames) /\ fs \in Seq(Frames)
    BY <1>5, BuildingParts DEF FramesFit
  <2>2. (gs = <<>> <=> Len(gs) = 0) /\ (fs = <<>> <=> Len(fs) = 0)
    BY <2>1
  <2> QED BY <1>5, <2>2
<1>7. CASE CanTake(s) /\ s.current = None
  <2>1. /\ t.status = "running" /\ t.current_key = s.current_key /\ fs = <<>> /\ gs = <<>>
    BY <1>1, <1>2, <1>6, <1>7 DEF RootSet
  <2>2. s.paths = <<>> /\ Len(fs) = 0 /\ Len(s.paths) + 1 = Depth(fs, Len(fs)) /\ s.current_key = None
    BY <2>1, BuildingParts DEF Building, KeyFits
  <2>3. SpineFits(t)
    BY <1>3, <2>2 DEF SpineFits
  <2>4. Holders(t, gs)
    BY <1>5, <2>2 DEF Holders
  <2>5. KeyFits(t, gs)
    BY <2>1, <2>2 DEF KeyFits
  <2>6. Len(t.paths) + 1 = Depth(gs, Len(gs))
    BY <1>3, <2>1, <2>2
  <2>7. Building(t, gs)
    BY <1>3, <1>5, <2>1, <2>3, <2>4, <2>5, <2>6 DEF Building
  <2> QED BY <1>3, <2>1, <2>7 DEF Outcome
<1>8. CASE CanTake(s) /\ s.current # None
  <2>1. Stored(s, v, t) /\ fs # <<>> /\ gs # <<>>
    BY <1>1, <1>2, <1>6, <1>8
  <2>2. Holders(t, fs) /\ SameBut(t.heap, s.heap, s.current)
    BY <1>3, <2>1, StoredHolders
  <2>3. t.current = s.current /\ t.root = s.root /\ t.status = "running"
        /\ t.current_key = IF s.heap[s.current.data].kind = "array" THEN s.current_key ELSE None
    BY <1>1, <2>1 DEF Stored
  <2>4. SpineFits(t)
    BY <1>1, <1>3, <2>1, <2>2, <2>3, SpineKept, BuildingParts DEF Building
  <2>5. Holders(t, gs) /\ Depth(gs, Len(gs)) = Depth(fs, Len(fs))
    BY <1>5, <2>2, SettledHolders
  <2>6. KeyFits(t, gs)
    <3> DEFINE f == fs[Len(fs)]
               g == gs[Len(gs)]
    <3>1. HolderFits(s.heap[s.current.data], f) /\ Len(fs) \in 1..Len(fs)
      BY <2>1, BuildingParts
    <3>2. g.kind = f.kind /\ g.due = Settled(f.kind)
      BY <1>5, <3>1
    <3>3. s.current_key # None <=> f.kind \notin Listed
      BY <2>1 DEF Building, KeyFits, Awaits
    <3>4. t.current_key = None
      BY <2>3, <3>1, <3>3 DEF HolderFits
    <3>5. g.due = "value" => g.kind \in Listed \/ g.kind \notin FrameKinds
      BY <3>2 DEF Settled, Listed, Keyed, FrameKinds
    <3>6. g.kind \in FrameKinds
      <4>1. f \in Frames
        BY <2>1, BuildingParts
      <4> QED BY <3>2, <4>1 DEF Frames
    <3>7. None # ProtoKey
      BY StringsDiffer DEF Strings
    <3> QED BY <2>1, <3>4, <3>5, <3>6, <3>7 DEF KeyFits
  <2>7. Len(t.paths) + 1 = Depth(gs, Len(gs))
    BY <1>3, <2>5 DEF Building
  <2>8. Building(t, gs)
    BY <1>3, <1>5, <2>3, <2>4, <2>5, <2>6, <2>7 DEF Building
  <2> QED BY <1>3, <2>3, <2>8 DEF Outcome
<1> QED BY <1>4, <1>7, <1>8

(* A container is made for a compound.                                     *)

(* The containers of the compounds are still what they were.               *)
LEMMA HoldersPushed ==
  ASSUME NEW s, SerFits(s), SpineFits(s), Ready(s), NEW fs, Len(fs) \in Nat, Holders(s, fs),
         s.current = None => Len(fs) = 0,
         \A i \in 1..Len(fs) : Depth(fs, i) = Len(s.paths) + 1 /\ s.current_key = ProtoKey => ProtoKey \in fs[i].keys,
         NEW kind, NEW t, SerFits(t), Pushed(s, kind, t)
  PROVE  Holders(t, fs)
<1>1. CASE s.current = None
  BY <1>1 DEF Holders
<1>2. CASE s.current # None
  <2> DEFINE p == Spine(s)
             q == Spine(t)
             m == s.current.data
  <2>1. /\ t.current # None /\ Len(t.paths) = Len(s.paths) + 1 /\ q = Append(p, t.current)
    BY <1>2, SpinePushed
  <2>2. s.paths # <<>> /\ IsNode(s.current)
    BY <1>2 DEF Ready
  <2>3. p \in Seq(JSValue) /\ Len(p) = Len(s.paths) + 1 /\ Len(s.paths) \in Nat /\ p[Len(s.paths) + 1] = s.current
    BY <1>2, SpineIsSeq
  <2>4. \A i \in 1..Len(s.paths) + 1 : q[i] = p[i]
    <3> DEFINE w == t.current
    <3>1. q = Append(p, w)
      BY <2>1
    <3> HIDE DEF p, q, w
    <3> QED BY <2>3, <3>1
  <2>5. /\ \A n \in DOMAIN s.heap : t.heap[n].kind = s.heap[n].kind
        /\ \A n \in DOMAIN s.heap : s.current # Ref(n) => t.heap[n].proto = s.heap[n].proto
        /\ s.current_key # ProtoKey => t.heap[m].proto = s.heap[m].proto
    BY <1>2 DEF Pushed
  <2>6. m \in DOMAIN s.heap
    BY <1>2, <2>2, NodeNamed, SerParts
  <2>7. ASSUME NEW i \in 1..Len(fs)
        PROVE  Depth(fs, i) <= Len(t.paths) + 1 /\ HolderFits(Holder(t, Depth(fs, i)), fs[i])
    <3> DEFINE d == Depth(fs, i)
    <3>1. d <= Len(s.paths) + 1 /\ HolderFits(s.heap[p[d].data], fs[i])
      BY DEF Holders, Holder
    <3>2. d \in Nat /\ 2 <= d /\ (d = Len(s.paths) + 1 /\ s.current_key = ProtoKey => ProtoKey \in fs[i].keys)
      <4>1. i \in Nat /\ i >= 1
        OBVIOUS
      <4>2. d \in Nat /\ d >= i + 1
        BY <4>1, DepthIsNat
      <4> HIDE DEF d
      <4>3. 2 <= d
        BY <4>1, <4>2
      <4> QED BY <4>2, <4>3 DEF d
    <3> HIDE DEF d, p, q, m
    <3>3. d \in 1..Len(s.paths) + 1
      BY <2>3, <3>1, <3>2
    <3>4. q[d] = p[d]
      BY <2>4, <3>3
    <3>5. CASE d = Len(s.paths) + 1
      <4>1. p[d].data = m
        BY <2>3, <3>5 DEF m
      <4>2. HolderFits(t.heap[m], fs[i])
        BY <2>5, <2>6, <3>1, <3>2, <3>5, <4>1 DEF HolderFits
      <4> QED BY <2>1, <2>3, <3>3, <3>4, <4>1, <4>2 DEF Holder, d, q
    <3>6. CASE d # Len(s.paths) + 1
      <4>1. d <= Len(s.paths)
        BY <2>3, <3>3, <3>6
      <4>2. p[d].data \in DOMAIN s.heap /\ s.current # Ref(p[d].data)
        BY <2>2, <3>2, <4>1, LowerHolder DEF p
      <4>3. HolderFits(t.heap[p[d].data], fs[i])
        BY <2>5, <3>1, <4>2 DEF HolderFits
      <4> QED BY <2>1, <2>3, <3>3, <3>4, <4>3 DEF Holder, d, q
    <3> QED BY <3>5, <3>6
  <2> QED BY <2>7 DEF Holders
<1> QED BY <1>1, <1>2

LEMMA HolderBegun ==
  ASSUME NEW t, SerFits(t), t.current # None, NEW fs, Len(fs) \in Nat, Holders(t, fs), NEW kind,
         NEW gs, Begun(gs, fs, kind), Len(t.paths) + 1 = Depth(gs, Len(gs)),
         t.heap[t.current.data].proto = None, t.heap[t.current.data].kind = "array" <=> kind \in Listed
  PROVE  Holders(t, gs)
<1> DEFINE n == Len(fs)
<1>1. /\ Len(gs) = n + 1 /\ gs[n + 1].kind = kind
      /\ \A i \in 1..n : gs[i].kind = fs[i].kind /\ gs[i].keys = fs[i].keys
  BY DEF Begun
<1>2. Spine(t)[Len(t.paths) + 1] = t.current /\ Len(t.paths) \in Nat
  BY SpineIsSeq
<1>3. ASSUME NEW i \in 1..n + 1
      PROVE  Depth(gs, i) <= Len(t.paths) + 1 /\ HolderFits(Holder(t, Depth(gs, i)), gs[i])
  <2>1. CASE i = n + 1
    <3>1. Depth(gs, i) = Len(t.paths) + 1
      BY <1>1, <2>1
    <3>2. Holder(t, Depth(gs, i)) = t.heap[t.current.data]
      BY <1>2, <3>1 DEF Holder
    <3>3. HolderFits(t.heap[t.current.data], gs[i])
      BY <1>1, <2>1 DEF HolderFits
    <3> QED BY <1>2, <3>1, <3>2, <3>3
  <2>2. CASE i # n + 1
    <3>1. i \in 1..n /\ i \in Nat /\ \A j \in 1..i : j \in 1..n
      BY <2>2
    <3>2. Depth(gs, i) = Depth(fs, i)
      BY <1>1, <3>1, DepthAgrees
    <3>3. Depth(fs, i) <= Len(t.paths) + 1 /\ HolderFits(Holder(t, Depth(fs, i)), fs[i])
      BY <3>1 DEF Holders
    <3>4. gs[i].kind = fs[i].kind /\ gs[i].keys = fs[i].keys
      BY <1>1, <3>1
    <3> QED BY <3>2, <3>3, <3>4 DEF HolderFits
  <2> QED BY <2>1, <2>2
<1> QED BY <1>1, <1>3 DEF Holders

(* How deep it is.                                                         *)
LEMMA DepthBegun ==
  ASSUME NEW fs, Len(fs) \in Nat, NEW kind, NEW gs, Begun(gs, fs, kind)
  PROVE  Depth(gs, Len(gs)) = Depth(fs, Len(fs)) + (IF kind \in TwoDeep THEN 2 ELSE 1)
<1> DEFINE n == Len(fs)
<1>1. Len(gs) = n + 1 /\ gs[n + 1].kind = kind /\ \A i \in 1..n : gs[i].kind = fs[i].kind
  BY DEF Begun
<1>2. Depth(gs, n) = Depth(fs, n)
  BY <1>1, DepthAgrees
<1>3. Depth(gs, n + 1) = Depth(gs, n) + (IF gs[n + 1].kind \in TwoDeep THEN 2 ELSE 1)
  BY DepthOfNext
<1> HIDE DEF n
<1> QED BY <1>1, <1>2, <1>3 DEF n

(* What push does to a serializer at work.                                 *)
LEMMA BuildingPushed ==
  ASSUME NEW s, NEW fs, Building(s, fs), Awaits(s, fs), NEW kind \in {"array", "object"}, NEW t, t = push(s, kind)
  PROVE  /\ SerFits(t) /\ CountedWith(t, Undefined) /\ t.current_is_key = FALSE
         /\ s.current_key = NulText => t.status = "error"
         /\ s.current_key # NulText =>
              /\ t.status = "running" /\ SpineFits(t) /\ Holders(t, fs) /\ Len(t.paths) = Len(s.paths) + 1
              /\ t.paths # <<>> /\ t.current # None /\ IsNode(t.current) /\ t.current_key = None
              /\ t.heap[t.current.data].kind = kind /\ t.heap[t.current.data].proto = None
<1>1. SerFits(s) /\ CountedWith(s, Undefined) /\ s.current_is_key = FALSE /\ SpineFits(s) /\ Holders(s, fs)
      /\ Len(s.paths) + 1 = Depth(fs, Len(fs)) /\ KeyFits(s, fs) /\ s.status = "running"
  BY DEF Building
<1>2. /\ ProtoFree(s) /\ Ready(s) /\ s.current # Undefined
      /\ s.current = None <=> fs = <<>>
      /\ s.current_key # NulText => CanTake(s)
      /\ s.current_key = NulText => ~CanTake(s)
  BY BuildingReady
<1>3. /\ SerFits(t) /\ CountedWith(t, Undefined) /\ t.current_is_key = s.current_is_key
      /\ CanTake(s) => Pushed(s, kind, t)
      /\ ~CanTake(s) => t.status = "error"
  BY <1>1, <1>2, PushKeeps
<1>4. CASE s.current_key = NulText
  BY <1>1, <1>2, <1>3, <1>4
<1>5. CASE s.current_key # NulText
  <2>1. Pushed(s, kind, t)
    BY <1>2, <1>3, <1>5
  <2>2. /\ SpineFits(t) /\ t.paths # <<>> /\ t.current # None /\ IsNode(t.current)
        /\ Len(t.paths) = Len(s.paths) + 1
    BY <1>1, <1>2, <1>3, <2>1, SpinePushed
  <2>3. Len(fs) \in Nat /\ (fs = <<>> => Len(fs) = 0)
    BY BuildingParts
  <2>4. \A i \in 1..Len(fs) : Depth(fs, i) = Len(s.paths) + 1 /\ s.current_key = ProtoKey => ProtoKey \in fs[i].keys
    <3> TAKE i \in 1..Len(fs)
    <3> HAVE Depth(fs, i) = Len(s.paths) + 1 /\ s.current_key = ProtoKey
    <3>1. i = Len(fs)
      <4>1. i \in Nat /\ Depth(fs, i) \in Nat
        BY DepthIsNat
      <4>2. ~ i < Len(fs)
        BY <1>1, <2>3, <4>1, DepthGrows
      <4> QED BY <2>3, <4>1, <4>2
    <3>2. fs # <<>>
      BY <2>3
    <3> QED BY <1>1, <3>1, <3>2 DEF KeyFits
  <2>5. Holders(t, fs)
    BY <1>1, <1>2, <1>3, <2>1, <2>3, <2>4, HoldersPushed
  <2>6. t.status = "running" /\ t.heap[t.current.data].kind = kind /\ t.heap[t.current.data].proto = None
    <3>1. t.current = Ref(Len(s.heap) + 1)
      BY <2>1 DEF Pushed
    <3>2. t.current.data = Len(s.heap) + 1
      BY <3>1 DEF Ref, Value
    <3> QED BY <1>1, <2>1, <3>2 DEF Pushed
  <2>7. t.current_key = None
    <3>1. CASE s.current = None
      <4>1. s.current_key = None /\ t.current_key = s.current_key
        BY <1>1, <1>2, <2>1, <3>1 DEF KeyFits, Pushed
      <4> QED BY <4>1
    <3>2. CASE s.current # None
      <4>1. HolderFits(s.heap[s.current.data], fs[Len(fs)]) /\ fs # <<>>
        BY <1>2, <3>2, BuildingParts
      <4>2. s.current_key # None <=> fs[Len(fs)].kind \notin Listed
        BY <1>1, <4>1 DEF KeyFits, Awaits
      <4>3. t.current_key = IF s.heap[s.current.data].kind = "array" THEN s.current_key ELSE None
        BY <2>1, <3>2 DEF Pushed
      <4> QED BY <4>1, <4>2, <4>3 DEF HolderFits
    <3> QED BY <3>1, <3>2
  <2> QED BY <1>1, <1>3, <1>5, <2>2, <2>5, <2>6, <2>7
<1> QED BY <1>4, <1>5

(* serialize_seq, serialize_map, serialize_struct.                         *)
LEMMA CompoundPushed ==
  ASSUME NEW s, NEW fs, Building(s, fs), Awaits(s, fs), NEW kind \in {"seq", "map", "struct"},
         NEW t, t = push(s, IF kind = "seq" THEN "array" ELSE "object"), NEW gs, Begun(gs, fs, kind)
  PROVE  Outcome(s, t, gs)
<1> DEFINE c == IF kind = "seq" THEN "array" ELSE "object"
<1>1. c \in {"array", "object"} /\ (c = "array" <=> kind \in Listed) /\ kind \notin TwoDeep
  BY DEF Listed, TwoDeep
<1>2. /\ SerFits(t) /\ CountedWith(t, Undefined) /\ t.current_is_key = FALSE
      /\ s.current_key = NulText => t.status = "error"
      /\ s.current_key # NulText =>
           /\ t.status = "running" /\ SpineFits(t) /\ Holders(t, fs) /\ Len(t.paths) = Len(s.paths) + 1
           /\ t.paths # <<>> /\ t.current # None /\ IsNode(t.current) /\ t.current_key = None
           /\ t.heap[t.current.data].kind = c /\ t.heap[t.current.data].proto = None
  <2>1. t = push(s, c)
    OBVIOUS
  <2> HIDE DEF c
  <2> QED BY <1>1, <2>1, BuildingPushed
<1> HIDE DEF c
<1>3. CASE s.current_key = NulText
  BY <1>2, <1>3 DEF Outcome
<1>4. CASE s.current_key # NulText
  <2>1. Len(fs) \in Nat /\ Len(s.paths) \in Nat /\ Len(s.paths) + 1 = Depth(fs, Len(fs))
    BY BuildingParts DEF Building
  <2>2. Depth(gs, Len(gs)) = Depth(fs, Len(fs)) + 1
    BY <1>1, <2>1, DepthBegun
  <2>3. Len(t.paths) + 1 = Depth(gs, Len(gs))
    BY <1>2, <1>4, <2>1, <2>2
  <2>4. Holders(t, gs)
    BY <1>1, <1>2, <1>4, <2>1, <2>3, HolderBegun
  <2>5. FramesFit(gs) /\ Len(gs) = Len(fs) + 1 /\ gs[Len(gs)].kind = kind /\ gs[Len(gs)].due = IF kind \in Keyed THEN "key" ELSE "value"
    BY DEF Begun
  <2>6. KeyFits(t, gs)
    <3>1. gs[Len(gs)].due = "value" => kind \in Listed
      BY <2>5 DEF Keyed, Listed
    <3>2. t.current_key = None /\ None # ProtoKey
      BY <1>2, <1>4, StringsDiffer DEF Strings
    <3> QED BY <2>5, <3>1, <3>2 DEF KeyFits
  <2>7. Building(t, gs)
    BY <1>2, <1>4, <2>3, <2>4, <2>5, <2>6 DEF Building
  <2> QED BY <1>2, <1>4, <2>7 DEF Outcome
<1> QED BY <1>3, <1>4

(* The name of a variant, a field or a key.                                *)

Named(t, s, key, is_key) == t = [s EXCEPT !.current_key = key, !.current_is_key = is_key]

NameKept(t, s, key, is_key) ==
  /\ SerFits(t) /\ CountedWith(t, Undefined)
  /\ t.heap = s.heap /\ t.root = s.root /\ t.paths = s.paths /\ t.current = s.current
  /\ t.status = s.status /\ t.leaked = s.leaked /\ t.current_key = key /\ t.current_is_key = is_key

LEMMA NameKeeps ==
  ASSUME NEW s, SerFits(s), CountedWith(s, Undefined), NEW key \in Strings \cup {None}, NEW is_key \in BOOLEAN,
         NEW t, Named(t, s, key, is_key)
  PROVE  NameKept(t, s, key, is_key)
<1>1. s \in SerRecords
  BY DEF SerFits
<1>2. /\ t \in SerRecords
      /\ t.heap = s.heap /\ t.root = s.root /\ t.paths = s.paths /\ t.current = s.current
      /\ t.status = s.status /\ t.leaked = s.leaked /\ t.current_key = key /\ t.current_is_key = is_key
  BY <1>1 DEF Named, SerRecords
<1>3. SerFits(t)
  BY <1>2 DEF SerFits
<1>4. CountedWith(t, Undefined)
  BY <1>2 DEF CountedWith, HeldByHost, Leak
<1> QED BY <1>2, <1>3, <1>4 DEF NameKept

(* Nothing changed but the key.                                            *)
LEMMA SameHolders ==
  ASSUME NEW s, NEW t, t.heap = s.heap, t.root = s.root, t.paths = s.paths, t.current = s.current, NEW fs
  PROVE  (SpineFits(t) <=> SpineFits(s)) /\ (Holders(t, fs) <=> Holders(s, fs))
<1>1. Spine(t) = Spine(s)
  BY DEF Spine
<1> QED BY <1>1 DEF SpineFits, Holders, Holder

LEMMA NameIsGiven ==
  ASSUME NEW s, s \in SerRecords, NEW text \in Strings, NEW t, t = serialize_name(s, text)
  PROVE  Named(t, s, text, FALSE)
<1> DEFINE r == [s EXCEPT !.current_is_key = TRUE]
<1>1. r \in SerRecords /\ r.current_is_key = TRUE
  BY DEF SerRecords
<1>2. t = [r EXCEPT !.current_key = text, !.current_is_key = FALSE]
  BY <1>1 DEF serialize_name, serialize_str
<1>3. t = [s EXCEPT !.current_key = text, !.current_is_key = FALSE]
  BY <1>2 DEF SerRecords
<1> QED BY <1>3 DEF Named

(* serialize_newtype_variant, serialize_tuple_variant,                     *)
(* serialize_struct_variant.                                               *)
LEMMA VariantPushed ==
  ASSUME NEW s, NEW fs, Building(s, fs), Awaits(s, fs), NEW kind \in TwoDeep \cup {"newtype_variant"},
         NEW u, u = push(s, "object"), NEW named, named = IF Failed(u) THEN u ELSE serialize_name(u, Text),
         NEW t, t = IF Failed(u) \/ kind = "newtype_variant" THEN named
                    ELSE push(named, IF kind = "tuple_variant" THEN "array" ELSE "object"),
         NEW gs, Begun(gs, fs, kind)
  PROVE  Outcome(s, t, gs)
<1>1. /\ SerFits(u) /\ CountedWith(u, Undefined) /\ u.current_is_key = FALSE
      /\ s.current_key = NulText => u.status = "error"
      /\ s.current_key # NulText =>
           /\ u.status = "running" /\ SpineFits(u) /\ Holders(u, fs) /\ Len(u.paths) = Len(s.paths) + 1
           /\ u.paths # <<>> /\ u.current # None /\ IsNode(u.current) /\ u.current_key = None
           /\ u.heap[u.current.data].kind = "object" /\ u.heap[u.current.data].proto = None
  BY BuildingPushed
<1>2. CASE s.current_key = NulText
  <2>1. t = u /\ u.status = "error"
    BY <1>1, <1>2 DEF Failed
  <2> QED BY <1>1, <1>2, <2>1 DEF Outcome
<1>3. CASE s.current_key # NulText
  <2>1. ~Failed(u) /\ named = serialize_name(u, Text)
    BY <1>1, <1>3 DEF Failed
  <2>2. Text \in Strings /\ Text # None /\ Text # NulText /\ Text # ProtoKey
    BY StringsDiffer DEF Strings
  <2>3. Named(named, u, Text, FALSE)
    BY <1>1, <2>1, <2>2, NameIsGiven DEF SerFits
  <2>4. /\ SerFits(named) /\ CountedWith(named, Undefined)
        /\ named.heap = u.heap /\ named.root = u.root /\ named.paths = u.paths /\ named.current = u.current
        /\ named.status = u.status /\ named.current_key = Text /\ named.current_is_key = FALSE
    <3>1. Text \in Strings \cup {None} /\ FALSE \in BOOLEAN /\ SerFits(u) /\ CountedWith(u, Undefined)
      BY <1>1, <2>2
    <3>2. NameKept(named, u, Text, FALSE)
      BY <2>3, <3>1, NameKeeps
    <3> QED BY <3>2 DEF NameKept
  <2>5. SpineFits(named) /\ Holders(named, fs)
    BY <1>1, <1>3, <2>4, SameHolders
  <2>6. Len(fs) \in Nat /\ Len(s.paths) \in Nat /\ Len(s.paths) + 1 = Depth(fs, Len(fs))
    BY BuildingParts DEF Building
  <2>7. FramesFit(gs) /\ Len(gs) = Len(fs) + 1 /\ gs[Len(gs)].kind = kind /\ gs[Len(gs)].due = IF kind \in Keyed THEN "key" ELSE "value"
    BY DEF Begun
  <2>8. gs # <<>>
    BY <2>6, <2>7
  <2>9. Depth(gs, Len(gs)) = Depth(fs, Len(fs)) + (IF kind \in TwoDeep THEN 2 ELSE 1)
    BY <2>6, DepthBegun
  <2>10. CASE kind = "newtype_variant"
    <3>1. t = named /\ kind \notin TwoDeep /\ kind \notin Listed /\ kind \notin Keyed
      BY <2>1, <2>10 DEF TwoDeep, Listed, Keyed
    <3>2. Len(t.paths) + 1 = Depth(gs, Len(gs))
      BY <1>1, <1>3, <2>4, <2>6, <2>9, <3>1
    <3>3. Holders(t, gs)
      BY <1>1, <1>3, <2>4, <2>5, <2>6, <3>1, <3>2, HolderBegun
    <3>4. KeyFits(t, gs)
      BY <2>2, <2>4, <2>7, <2>8, <3>1 DEF KeyFits
    <3>5. Building(t, gs)
      BY <1>1, <1>3, <2>4, <2>5, <2>7, <3>1, <3>2, <3>3, <3>4 DEF Building
    <3> QED BY <1>1, <1>3, <2>4, <3>1, <3>5 DEF Outcome
  <2>11. CASE kind # "newtype_variant"
    <3> DEFINE c == IF kind = "tuple_variant" THEN "array" ELSE "object"
    <3>1. c \in {"array", "object"} /\ (c = "array" <=> kind \in Listed) /\ kind \in TwoDeep
      BY <2>11 DEF TwoDeep, Listed
    <3>2. t = push(named, c)
      BY <2>1, <2>11
    <3> HIDE DEF c
    <3>3. /\ ProtoFree(named) /\ Ready(named) /\ named.current # Undefined /\ named.status = "running" /\ CanTake(named)
      <4>1. named.current # Undefined
        BY <1>1, <1>3, <2>4 DEF Undefined, Value, IsNode
      <4> QED BY <1>1, <1>3, <2>2, <2>4, <4>1 DEF ProtoFree, Ready, CanTake
    <3>4. /\ SerFits(t) /\ CountedWith(t, Undefined) /\ t.current_is_key = FALSE /\ Pushed(named, c, t)
      BY <2>4, <3>1, <3>2, <3>3, PushKeeps
    <3>5. /\ SpineFits(t) /\ t.paths # <<>> /\ t.current # None /\ IsNode(t.current)
          /\ Len(t.paths) = Len(named.paths) + 1
      BY <2>4, <2>5, <3>3, <3>4, SpinePushed
    <3>6. Holders(t, fs)
      BY <1>1, <1>3, <2>2, <2>4, <2>5, <2>6, <3>3, <3>4, HoldersPushed
    <3>7. t.status = "running" /\ t.heap[t.current.data].kind = c /\ t.heap[t.current.data].proto = None
          /\ t.current_key = None
      <4>1. t.current = Ref(Len(named.heap) + 1)
        BY <3>4 DEF Pushed
      <4>2. t.current.data = Len(named.heap) + 1
        BY <4>1 DEF Ref, Value
      <4>3. t.current_key = IF named.heap[named.current.data].kind = "array" THEN named.current_key ELSE None
        BY <1>1, <1>3, <2>4, <3>4 DEF Pushed
      <4>4. t.current_key = None
        BY <1>1, <1>3, <2>4, <4>3
      <4>5. t.status = named.status /\ t.heap[t.current.data].kind = c /\ t.heap[t.current.data].proto = None
        BY <3>4, <4>2 DEF Pushed
      <4> QED BY <1>1, <1>3, <2>4, <4>4, <4>5
    <3>8. Len(t.paths) + 1 = Depth(gs, Len(gs))
      <4>1. Len(named.paths) = Len(s.paths) + 1 /\ Len(t.paths) = Len(named.paths) + 1
        BY <1>1, <1>3, <2>4, <3>5
      <4>2. Depth(gs, Len(gs)) = Depth(fs, Len(fs)) + 2
        BY <2>9, <3>1
      <4> DEFINE x == Len(t.paths)
                 y == Len(s.paths)
                 z == Depth(fs, Len(fs))
      <4>3. x = y + 2 /\ y \in Nat /\ y + 1 = z
        BY <2>6, <4>1
      <4> HIDE DEF x, y, z
      <4>4. x + 1 = z + 2
        BY <4>3
      <4> QED BY <4>2, <4>4 DEF x, z
    <3>9. Holders(t, gs)
      BY <2>6, <3>1, <3>4, <3>5, <3>6, <3>7, <3>8, HolderBegun
    <3>10. KeyFits(t, gs)
      <4>1. gs[Len(gs)].due = "value" => kind \in Listed
        BY <2>7, <2>11 DEF Keyed, Listed, TwoDeep
      <4>2. t.current_key = None /\ None # ProtoKey
        BY <3>7, StringsDiffer DEF Strings
      <4> QED BY <2>7, <2>8, <4>1, <4>2 DEF KeyFits
    <3>11. Building(t, gs)
      BY <2>7, <3>4, <3>5, <3>7, <3>8, <3>9, <3>10 DEF Building
    <3> QED BY <3>4, <3>7, <3>11 DEF Outcome
  <2> QED BY <2>10, <2>11
<1> QED BY <1>2, <1>3

(* A container is ended.                                                   *)

LEMMA HoldersPopped ==
  ASSUME NEW s, SerFits(s), SpineFits(s), s.paths # <<>>, CountedWith(s, Undefined), NEW fs, Holders(s, fs),
         \A i \in 1..Len(fs) : Depth(fs, i) <= Len(s.paths), NEW t, t = pop(s), Len(fs) \in Nat
  PROVE  /\ SerFits(t) /\ CountedWith(t, Undefined) /\ SpineFits(t) /\ Holders(t, fs)
         /\ Len(t.paths) = Len(s.paths) - 1 /\ t.current # None /\ IsNode(t.current)
         /\ t.current_is_key = s.current_is_key /\ t.current_key = s.current_key /\ t.status = s.status
<1>1. s.current # None /\ IsNode(s.current)
  BY DEF SpineFits
<1>2. /\ SerFits(t) /\ CountedWith(t, Undefined) /\ SameShape(t.heap, s.heap)
      /\ t.paths = Front(s.paths) /\ t.current = s.paths[Len(s.paths)]
      /\ t.root = s.root /\ t.current_is_key = s.current_is_key
      /\ t.current_key = s.current_key /\ t.status = s.status
  BY <1>1, PopKeeps
<1>3. /\ SpineFits(t) /\ t.current # None /\ IsNode(t.current) /\ Len(t.paths) = Len(s.paths) - 1
      /\ \A i \in 1..Len(s.paths) : Spine(t)[i] = Spine(s)[i]
  BY <1>2, SpinePopped
<1>4. Len(s.paths) \in Nat /\ Len(Spine(s)) = Len(s.paths) + 1
  BY <1>1, SpineIsSeq
<1>5. ASSUME NEW i \in 1..Len(fs)
      PROVE  Depth(fs, i) <= Len(t.paths) + 1 /\ HolderFits(Holder(t, Depth(fs, i)), fs[i])
  <2> DEFINE d == Depth(fs, i)
  <2>1. d <= Len(s.paths) /\ HolderFits(s.heap[Spine(s)[d].data], fs[i])
    BY DEF Holders, Holder
  <2>2. d \in Nat /\ d >= 1
    <3>1. i \in Nat /\ d \in Nat /\ d >= i + 1
      BY DepthIsNat
    <3> HIDE DEF d
    <3> QED BY <3>1
  <2> HIDE DEF d
  <2>3. d \in 1..Len(s.paths) /\ d \in 1..Len(Spine(s)) /\ d <= Len(t.paths) + 1
    BY <1>3, <1>4, <2>1, <2>2
  <2>4. Spine(t)[d] = Spine(s)[d] /\ Spine(s)[d].data \in DOMAIN s.heap
    BY <1>1, <1>3, <2>3, SpineNode
  <2>5. HolderFits(t.heap[Spine(s)[d].data], fs[i])
    BY <1>2, <2>1, <2>4 DEF SameShape, HolderFits
  <2> QED BY <2>3, <2>4, <2>5 DEF Holder, d
<1> QED BY <1>2, <1>3, <1>5 DEF Holders

(* No key is pending between the members of a compound.                    *)
LEMMA SettledKey ==
  ASSUME NEW t, t.current_key = None, NEW gs, FramesFit(gs),
         gs # <<>> => gs[Len(gs)].due = Settled(gs[Len(gs)].kind)
  PROVE  KeyFits(t, gs)
<1>1. CASE gs = <<>>
  BY <1>1 DEF KeyFits
<1>2. CASE gs # <<>>
  <2> DEFINE g == gs[Len(gs)]
  <2>1. gs \in Seq(Frames) /\ Len(gs) \in 1..Len(gs)
    BY <1>2 DEF FramesFit
  <2>5. g \in Frames
    BY <2>1
  <2>2. g.kind \in FrameKinds /\ g.due = Settled(g.kind)
    BY <1>2, <2>5 DEF Frames
  <2>3. g.due = "value" => g.kind \in Listed
    BY <2>2 DEF Settled, Listed, Keyed, FrameKinds
  <2>4. None # ProtoKey
    BY StringsDiffer DEF Strings
  <2> QED BY <1>2, <2>3, <2>4 DEF KeyFits
<1> QED BY <1>1, <1>2

(* SerializeEnd.                                                           *)
LEMMA EndKeeps ==
  ASSUME NEW s, NEW fs, Building(s, fs), fs # <<>>,
         fs[Len(fs)].due # "value" \/ fs[Len(fs)].kind \in Listed,
         NEW t, t = Close(s, fs[Len(fs)].kind), NEW gs, Ended(gs, fs)
  PROVE  Building(t, gs) /\ t.current_key = None
<1> DEFINE n == Len(fs)
           kind == fs[n].kind
           D == Depth(gs, Len(gs))
<1>1. /\ SerFits(s) /\ CountedWith(s, Undefined) /\ SpineFits(s) /\ Holders(s, fs)
      /\ Len(s.paths) + 1 = Depth(fs, n) /\ s.status = "running" /\ s.current_is_key = FALSE
  BY DEF Building
<1>2. /\ n \in Nat /\ n >= 1 /\ s.paths # <<>> /\ Len(s.paths) \in Nat /\ fs \in Seq(Frames)
  <2>1. n \in 1..n /\ n \in Nat /\ s.paths # <<>> /\ Len(s.paths) \in Nat /\ fs \in Seq(Frames)
    BY BuildingParts
  <2> HIDE DEF n
  <2> QED BY <2>1
<1>3. s.current_key = None
  BY DEF Building, KeyFits
<1>4. /\ FramesFit(gs) /\ Len(gs) = n - 1
      /\ \A i \in 1..n - 1 : gs[i] = fs[i] /\ gs[i].due = Settled(gs[i].kind)
  BY DEF Ended
<1>5. \A i \in 1..n - 1 : Depth(gs, i) = Depth(fs, i)
  <2> TAKE i \in 1..n - 1
  <2>1. i \in Nat /\ \A j \in 1..i : j \in 1..n - 1
    BY <1>2
  <2> QED BY <1>4, <2>1, DepthAgrees
<1>6. /\ D \in Nat /\ D >= 1 /\ Len(s.paths) = D + (IF kind \in TwoDeep THEN 1 ELSE 0)
  <2>1. n - 1 \in Nat
    BY <1>2
  <2>2. D = Depth(fs, n - 1)
    BY <1>4, <2>1, DepthAgrees
  <2>3. Depth(fs, n - 1 + 1) = Depth(fs, n - 1) + (IF fs[n - 1 + 1].kind \in TwoDeep THEN 2 ELSE 1)
    BY <2>1, DepthOfNext
  <2>4. n - 1 + 1 = n
    BY <1>2
  <2>5. D \in Nat /\ D >= n - 1 + 1
    BY <2>1, <2>2, DepthIsNat
  <2>6. Depth(fs, n) = D + (IF kind \in TwoDeep THEN 2 ELSE 1)
    BY <2>2, <2>3, <2>4
  <2> HIDE DEF D, n, kind
  <2> QED BY <1>1, <1>2, <2>4, <2>5, <2>6 DEF n
<1>7. \A i \in 1..Len(gs) : Depth(gs, i) <= D
  <2> TAKE i \in 1..Len(gs)
  <2>1. i \in Nat /\ Len(gs) \in Nat /\ (i < Len(gs) \/ i = Len(gs))
    BY <1>2, <1>4
  <2>2. i < Len(gs) => Depth(gs, i) < D
    BY <2>1, DepthGrows
  <2>3. Depth(gs, i) \in Nat /\ D \in Nat
    BY <2>1, DepthIsNat
  <2> HIDE DEF D
  <2>4. i = Len(gs) => Depth(gs, i) = D
    BY DEF D
  <2> QED BY <2>1, <2>2, <2>3, <2>4
<1>8. Holders(s, gs)
  <2> SUFFICES ASSUME NEW i \in 1..n - 1
               PROVE  Depth(gs, i) <= Len(s.paths) + 1 /\ HolderFits(Holder(s, Depth(gs, i)), gs[i])
    BY <1>4 DEF Holders
  <2>1. i \in 1..n
    BY <1>2
  <2> QED BY <1>1, <1>4, <1>5, <2>1 DEF Holders
<1>9. gs # <<>> => gs[Len(gs)].due = Settled(gs[Len(gs)].kind)
  <2> HAVE gs # <<>>
  <2>1. gs \in Seq(Frames)
    BY <1>4 DEF FramesFit
  <2>2. Len(gs) \in 1..Len(gs)
    BY <2>1
  <2> QED BY <1>4, <2>2
<1>10. Len(gs) \in Nat
  BY <1>2, <1>4
<1> HIDE DEF D, n
<1>11. CASE kind \notin TwoDeep
  <2>1. t = pop(s) /\ \A i \in 1..Len(gs) : Depth(gs, i) <= Len(s.paths)
    BY <1>6, <1>7, <1>11 DEF Close, n
  <2>2. /\ SerFits(t) /\ CountedWith(t, Undefined) /\ SpineFits(t) /\ Holders(t, gs)
        /\ Len(t.paths) = Len(s.paths) - 1
        /\ t.current_is_key = s.current_is_key /\ t.current_key = s.current_key /\ t.status = s.status
    BY <1>1, <1>2, <1>8, <1>10, <2>1, HoldersPopped
  <2>3. KeyFits(t, gs)
    BY <1>3, <1>4, <1>9, <2>2, SettledKey
  <2>4. Len(t.paths) + 1 = D
    BY <1>2, <1>6, <1>11, <2>2
  <2> QED BY <1>1, <1>3, <1>4, <2>2, <2>3, <2>4 DEF Building, D
<1>12. CASE kind \in TwoDeep
  <2> DEFINE u == pop(s)
  <2>1. t = pop(u) /\ Len(s.paths) = D + 1
    BY <1>6, <1>12 DEF Close, n
  <2>2. \A i \in 1..Len(gs) : Depth(gs, i) <= Len(s.paths)
    <3> TAKE i \in 1..Len(gs)
    <3>1. i \in Nat /\ Depth(gs, i) <= D
      BY <1>7, <1>10
    <3>2. Depth(gs, i) \in Nat
      BY <3>1, DepthIsNat
    <3> QED BY <1>6, <2>1, <3>1, <3>2
  <2>3. u = pop(s)
    OBVIOUS
  <2> HIDE DEF u
  <2>4. /\ SerFits(u) /\ CountedWith(u, Undefined) /\ SpineFits(u) /\ Holders(u, gs)
        /\ Len(u.paths) = Len(s.paths) - 1
        /\ u.current_is_key = s.current_is_key /\ u.current_key = s.current_key /\ u.status = s.status
    BY <1>1, <1>2, <1>8, <1>10, <2>2, <2>3, HoldersPopped
  <2>5. Len(u.paths) = D
    BY <1>6, <2>1, <2>4
  <2>6. u.paths # <<>>
    <3>1. u.paths \in Seq(JSValue)
      BY <2>4, SerParts
    <3> QED BY <1>6, <2>5, <3>1
  <2>7. \A i \in 1..Len(gs) : Depth(gs, i) <= Len(u.paths)
    BY <1>7, <2>5
  <2>8. /\ SerFits(t) /\ CountedWith(t, Undefined) /\ SpineFits(t) /\ Holders(t, gs)
        /\ Len(t.paths) = Len(u.paths) - 1
        /\ t.current_is_key = u.current_is_key /\ t.current_key = u.current_key /\ t.status = u.status
    BY <1>10, <2>1, <2>4, <2>6, <2>7, HoldersPopped
  <2>9. KeyFits(t, gs)
    BY <1>3, <1>4, <1>9, <2>4, <2>8, SettledKey
  <2>10. Len(t.paths) + 1 = D
    BY <1>6, <2>5, <2>8
  <2> QED BY <1>1, <1>3, <1>4, <2>4, <2>8, <2>9, <2>10 DEF Building, D
<1> QED BY <1>11, <1>12

(* SerializeKey.                                                           *)
LEMMA KeyKeeps ==
  ASSUME NEW s, NEW fs, Building(s, fs), fs # <<>>, fs[Len(fs)].due = "key",
         NEW text \in Strings, text \notin fs[Len(fs)].keys,
         NEW t, t = IF s.current_key # None THEN Fails(s) ELSE serialize_name(s, text),
         NEW gs, KeyGiven(gs, fs, text)
  PROVE  Building(t, gs) /\ t.current_key = text
<1> DEFINE n == Len(fs)
           f == fs[n]
           g == gs[n]
<1>1. /\ SerFits(s) /\ CountedWith(s, Undefined) /\ SpineFits(s) /\ Holders(s, fs)
      /\ Len(s.paths) + 1 = Depth(fs, n) /\ s.status = "running" /\ KeyFits(s, fs)
  BY DEF Building
<1>2. s.current_key = None
  <2>1. s.current_key # None => f.due = "value"
    BY <1>1 DEF KeyFits
  <2> QED BY <2>1
<1>3. NameKept(t, s, text, FALSE)
  <2>1. t = serialize_name(s, text) /\ s \in SerRecords
    BY <1>1, <1>2 DEF SerFits
  <2>2. Named(t, s, text, FALSE)
    BY <2>1, NameIsGiven
  <2>3. text \in Strings \cup {None} /\ FALSE \in BOOLEAN /\ SerFits(s) /\ CountedWith(s, Undefined)
    BY <1>1
  <2> QED BY <2>2, <2>3, NameKeeps
<1>4. /\ SerFits(t) /\ CountedWith(t, Undefined)
      /\ t.heap = s.heap /\ t.root = s.root /\ t.paths = s.paths /\ t.current = s.current
      /\ t.status = s.status /\ t.current_key = text /\ t.current_is_key = FALSE
  BY <1>3 DEF NameKept
<1>5. SpineFits(t) /\ Holders(t, fs)
  BY <1>1, <1>4, SameHolders
<1>6. /\ FramesFit(gs) /\ Len(gs) = n /\ \A i \in 1..n - 1 : gs[i] = fs[i]
      /\ g.kind = f.kind /\ g.due = "value" /\ g.keys = f.keys \cup {text}
  BY DEF KeyGiven
<1>7. n \in Nat /\ n \in 1..n /\ DueFits(f) /\ HolderFits(s.heap[s.current.data], f)
  BY BuildingParts
<1>8. Holders(t, gs) /\ Depth(gs, Len(gs)) = Depth(fs, n)
  <2>1. \A i \in 1..n : gs[i].kind = fs[i].kind /\ fs[i].keys \subseteq gs[i].keys
    <3> TAKE i \in 1..n
    <3>1. i = n \/ i \in 1..n - 1
      BY <1>7
    <3> QED BY <1>6, <3>1
  <2> QED BY <1>5, <1>6, <1>7, <2>1, SettledHolders
<1>9. KeyFits(t, gs)
  <2>1. g.kind \notin Listed
    <3>1. f.kind \in Keyed
      BY <1>7 DEF DueFits
    <3> QED BY <1>6, <3>1 DEF Keyed, Listed
  <2>2. text # None
    BY StringsDiffer
  <2>3. text = ProtoKey => ProtoKey \in g.keys /\ t.heap[t.current.data].proto = None
    BY <1>4, <1>6, <1>7 DEF HolderFits
  <2>4. gs # <<>>
    <3>1. gs = <<>> => Len(gs) = 0
      OBVIOUS
    <3> QED BY <1>6, <1>7, <3>1
  <2> QED BY <1>4, <1>6, <2>1, <2>2, <2>3, <2>4 DEF KeyFits
<1> QED BY <1>1, <1>4, <1>5, <1>6, <1>8, <1>9 DEF Building

(* SerializeOtherKey.                                                      *)
LEMMA OtherKeyKeeps ==
  ASSUME NEW s, NEW fs, Building(s, fs), fs # <<>>, fs[Len(fs)].due = "key", NEW container \in BOOLEAN,
         NEW r, Named(r, s, s.current_key, TRUE),
         NEW v, ValueFits(v, Len(s.heap)), ~IsNode(v),
         NEW t, t = IF container THEN push(r, "array") ELSE set_node_value(r, v)
  PROVE  SerFits(t) /\ CountedWith(t, Undefined) /\ t.status = "error"
<1> DEFINE f == fs[Len(fs)]
<1>1. SerFits(s) /\ CountedWith(s, Undefined) /\ s.status = "running" /\ KeyFits(s, fs)
  BY DEF Building
<1>2. s.current_key = None
  <2>1. s.current_key # None => f.due = "value"
    BY <1>1 DEF KeyFits
  <2> QED BY <2>1
<1>3. NameKept(r, s, s.current_key, TRUE)
  <2>1. s.current_key \in Strings \cup {None} /\ TRUE \in BOOLEAN
    BY <1>2
  <2> QED BY <1>1, <2>1, NameKeeps
<1>4. /\ SerFits(r) /\ CountedWith(r, Undefined) /\ r.heap = s.heap /\ r.current = s.current
      /\ r.status = "running" /\ r.current_key = None
  BY <1>1, <1>2, <1>3 DEF NameKept
<1>5. /\ s.current # None /\ IsNode(s.current) /\ HolderFits(s.heap[s.current.data], f) /\ DueFits(f)
  BY BuildingParts
<1>6. s.heap[s.current.data].kind # "array"
  <2>1. f.kind \notin Listed
    BY <1>5 DEF DueFits, Keyed, Listed
  <2> QED BY <1>5, <2>1 DEF HolderFits
<1>7. ~CanTake(r)
  BY <1>4, <1>5, <1>6 DEF CanTake
<1>8. ProtoFree(r) /\ r.current # Undefined
  <2>1. None # ProtoKey
    BY StringsDiffer DEF Strings
  <2> QED BY <1>4, <1>5, <2>1 DEF ProtoFree, Undefined, Value, IsNode
<1>9. CASE container
  <2>1. t = push(r, "array") /\ "array" \in {"array", "object"}
    BY <1>9
  <2> QED BY <1>4, <1>7, <1>8, <2>1, PushKeeps
<1>10. CASE ~container
  <2>1. t = set_node_value(r, v) /\ ValueFits(v, Len(r.heap))
    BY <1>4, <1>10
  <2>2. CountedWith(r, v)
    BY <1>4, ScalarCounted
  <2>3. Keeps(r, t) /\ t.status = "error"
    BY <1>4, <1>7, <1>8, <2>1, <2>2, SetNodeValueKeeps
  <2> QED BY <2>3 DEF Keeps
<1> QED BY <1>9, <1>10

(* A value went into the current container, which is above the compounds.  *)
LEMMA StoredAbove ==
  ASSUME NEW s, SerFits(s), SpineFits(s), s.paths # <<>>, NEW t, SerFits(t), NEW v, Stored(s, v, t),
         t.paths = s.paths, NEW fs, Len(fs) \in Nat, Holders(s, fs),
         \A i \in 1..Len(fs) : Depth(fs, i) <= Len(s.paths)
  PROVE  SpineFits(t) /\ Holders(t, fs)
<1> DEFINE m == s.current.data
           p == Spine(s)
<1>1. s.current # None /\ IsNode(s.current)
  BY DEF SpineFits
<1>2. m \in DOMAIN s.heap /\ s.current = Ref(m)
  BY <1>1, NodeNamed, SerParts
<1>3. t.current = s.current /\ t.root = s.root /\ TakenOver(t.heap, s.heap, m, v)
  BY DEF Stored
<1>4. /\ \A n \in DOMAIN s.heap : t.heap[n].kind = s.heap[n].kind
      /\ \A n \in DOMAIN s.heap \ {m} : t.heap[n].entries = s.heap[n].entries /\ t.heap[n].proto = s.heap[n].proto
  BY <1>3 DEF TakenOver
<1>5. SameBut(t.heap, s.heap, s.current)
  BY <1>2, <1>4 DEF SameBut
<1>6. SpineFits(t) /\ Spine(t) = p
  BY <1>3, <1>5, SpineKept
<1>7. ASSUME NEW i \in 1..Len(fs)
      PROVE  Depth(fs, i) <= Len(t.paths) + 1 /\ HolderFits(Holder(t, Depth(fs, i)), fs[i])
  <2> DEFINE d == Depth(fs, i)
  <2>1. d <= Len(s.paths) + 1 /\ d <= Len(s.paths) /\ HolderFits(s.heap[p[d].data], fs[i])
    BY DEF Holders, Holder
  <2>2. d \in Nat /\ 2 <= d
    <3>1. i \in Nat /\ d \in Nat /\ d >= i + 1 /\ i >= 1
      BY DepthIsNat
    <3> HIDE DEF d
    <3> QED BY <3>1
  <2> HIDE DEF d, p, m
  <2>3. p[d].data \in DOMAIN s.heap /\ s.current # Ref(p[d].data)
    BY <2>1, <2>2, LowerHolder DEF p
  <2>4. HolderFits(t.heap[p[d].data], fs[i])
    BY <1>2, <1>4, <2>1, <2>3 DEF HolderFits
  <2> QED BY <1>6, <2>1, <2>4 DEF Holder, d
<1> QED BY <1>6, <1>7 DEF Holders

(* serialize_bytes.                                                        *)
LEMMA BytesKeep ==
  ASSUME NEW s, NEW fs, Building(s, fs), Awaits(s, fs), NEW u, u = push(s, "array"),
         NEW v, \A N \in Nat : ValueFits(v, N), ~IsNode(v),
         NEW t, t = IF Failed(u) THEN u ELSE pop(set_node_value(u, v)), NEW gs, SettledFrames(gs, fs)
  PROVE  Outcome(s, t, gs)
<1>1. /\ SerFits(u) /\ CountedWith(u, Undefined) /\ u.current_is_key = FALSE
      /\ s.current_key = NulText => u.status = "error"
      /\ s.current_key # NulText =>
           /\ u.status = "running" /\ SpineFits(u) /\ Holders(u, fs) /\ Len(u.paths) = Len(s.paths) + 1
           /\ u.paths # <<>> /\ u.current # None /\ IsNode(u.current) /\ u.current_key = None
           /\ u.heap[u.current.data].kind = "array" /\ u.heap[u.current.data].proto = None
  <2>1. "array" \in {"array", "object"}
    OBVIOUS
  <2> QED BY <2>1, BuildingPushed
<1>2. CASE s.current_key = NulText
  <2>1. t = u /\ u.status = "error"
    BY <1>1, <1>2 DEF Failed
  <2> QED BY <1>1, <1>2, <2>1 DEF Outcome
<1>3. CASE s.current_key # NulText
  <2> DEFINE w == set_node_value(u, v)
  <2>1. t = pop(w) /\ w = set_node_value(u, v)
    BY <1>1, <1>3 DEF Failed
  <2> HIDE DEF w
  <2>2. Len(s.paths) \in Nat /\ Len(s.paths) + 1 = Depth(fs, Len(fs)) /\ Len(fs) \in Nat
    BY BuildingParts DEF Building
  <2>3. CanTake(u) /\ ProtoFree(u) /\ u.current # Undefined
    <3>1. None # ProtoKey
      BY StringsDiffer DEF Strings
    <3> QED BY <1>1, <1>3, <3>1 DEF CanTake, ProtoFree, Undefined, Value, IsNode
  <2>4. Keeps(u, w) /\ Stored(u, v, w)
    <3>1. ValueFits(v, Len(u.heap))
      BY <1>1, SerParts
    <3>2. CountedWith(u, v)
      BY <1>1, ScalarCounted
    <3> QED BY <1>1, <1>3, <2>1, <2>3, <3>1, <3>2, SetNodeValueKeeps
  <2>5. /\ SerFits(w) /\ CountedWith(w, Undefined) /\ w.paths = u.paths /\ w.current_is_key = FALSE
        /\ w.status = "running" /\ w.current_key = None
    BY <1>1, <1>3, <2>4 DEF Keeps, Stored
  <2>6. \A i \in 1..Len(fs) : Depth(fs, i) <= Len(u.paths)
    <3> TAKE i \in 1..Len(fs)
    <3>1. i \in Nat /\ (i < Len(fs) \/ i = Len(fs))
      BY <2>2
    <3>2. i < Len(fs) => Depth(fs, i) < Depth(fs, Len(fs))
      BY <2>2, <3>1, DepthGrows
    <3>3. Depth(fs, i) \in Nat
      BY <3>1, DepthIsNat
    <3>4. Len(u.paths) = Depth(fs, Len(fs))
      BY <1>1, <1>3, <2>2
    <3> QED BY <1>1, <1>3, <2>2, <3>1, <3>2, <3>3, <3>4
  <2>7. SpineFits(w) /\ Holders(w, fs)
    BY <1>1, <1>3, <2>2, <2>4, <2>5, <2>6, StoredAbove
  <2>8. /\ SerFits(t) /\ CountedWith(t, Undefined) /\ SpineFits(t) /\ Holders(t, fs)
        /\ Len(t.paths) = Len(w.paths) - 1
        /\ t.current_is_key = w.current_is_key /\ t.current_key = w.current_key /\ t.status = w.status
    <3>1. w.paths # <<>> /\ \A i \in 1..Len(fs) : Depth(fs, i) <= Len(w.paths)
      BY <1>1, <1>3, <2>5, <2>6
    <3> QED BY <2>1, <2>2, <2>5, <2>7, <3>1, HoldersPopped
  <2>9. /\ FramesFit(gs) /\ Len(gs) = Len(fs)
        /\ \A i \in 1..Len(fs) : gs[i].kind = fs[i].kind /\ fs[i].keys \subseteq gs[i].keys
        /\ \A i \in 1..Len(fs) : gs[i].due = Settled(gs[i].kind)
    BY DEF SettledFrames
  <2>10. Holders(t, gs) /\ Depth(gs, Len(gs)) = Depth(fs, Len(fs))
    BY <2>2, <2>8, <2>9, SettledHolders
  <2>11. KeyFits(t, gs)
    <3>1. gs # <<>> => gs[Len(gs)].due = Settled(gs[Len(gs)].kind)
      <4> HAVE gs # <<>>
      <4>1. gs \in Seq(Frames)
        BY <2>9 DEF FramesFit
      <4>2. Len(gs) \in 1..Len(gs)
        BY <4>1
      <4> QED BY <2>9, <4>2
    <3> QED BY <2>5, <2>8, <2>9, <3>1, SettledKey
  <2>12. Len(t.paths) + 1 = Depth(gs, Len(gs))
    BY <1>1, <1>3, <2>2, <2>5, <2>8, <2>10
  <2>13. Building(t, gs)
    BY <2>5, <2>8, <2>9, <2>10, <2>11, <2>12 DEF Building
  <2> QED BY <2>5, <2>8, <2>13 DEF Outcome
<1> QED BY <1>2, <1>3

(* Counts of a whole heap.                                                 *)

Recounted(g, h, r) == g = [n \in DOMAIN h |-> [h[n] EXCEPT !.refs = r[n]]]

LEMMA RecountedFits ==
  ASSUME NEW h, HeapFits(h), NEW r \in [DOMAIN h -> Int], NEW g, Recounted(g, h, r)
  PROVE  /\ HeapFits(g) /\ SameShape(g, h)
         /\ \A n \in DOMAIN h : HeldInHeap(g, n) = HeldInHeap(h, n) /\ g[n].refs = r[n]
<1> DEFINE N == Len(h)
<1>1. N \in Nat /\ DOMAIN h = 1..N /\ \A n \in DOMAIN h : NodeFits(h[n], N)
  BY HeapParts
<1>2. \A n \in DOMAIN h : /\ NodeFits(g[n], N) /\ g[n].kind = h[n].kind /\ g[n].entries = h[n].entries
                          /\ g[n].proto = h[n].proto /\ g[n].refs = r[n]
  <2> TAKE n \in DOMAIN h
  <2> DEFINE x == h[n]
             y == g[n]
             c == r[n]
  <2>1. NodeFits(x, N) /\ c \in Int /\ y = [x EXCEPT !.refs = c]
    BY <1>1 DEF Recounted
  <2> HIDE DEF x, y, c, N
  <2>2. NodeFits(y, N) /\ y.kind = x.kind /\ y.entries = x.entries /\ y.proto = x.proto /\ y.refs = c
    BY <1>1, <2>1, RefsChange
  <2> QED BY <2>2 DEF x, y, c
<1>3. DOMAIN g = 1..N /\ g = [n \in 1..N |-> g[n]]
  <2>1. DOMAIN g = DOMAIN h /\ g = [n \in DOMAIN h |-> g[n]]
    BY DEF Recounted
  <2> QED BY <1>1, <2>1
<1>4. \A n \in 1..N : g[n] \in Nodes(JSValue)
  BY <1>1, <1>2 DEF NodeFits
<1> HIDE DEF N
<1>5. g \in Seq(Nodes(JSValue)) /\ Len(g) = N
  <2> DEFINE V == Nodes(JSValue)
  <2>1. \A n \in 1..N : g[n] \in V
    BY <1>4
  <2> HIDE DEF V
  <2>2. [n \in 1..N |-> g[n]] \in Seq(V) /\ Len([n \in 1..N |-> g[n]]) = N
    BY <1>1, <2>1, IsASeq
  <2> QED BY <1>3, <2>2 DEF V
<1>6. HeapFits(g)
  BY <1>1, <1>2, <1>5 DEF HeapFits
<1>7. SameShape(g, h)
  BY <1>1, <1>2, <1>3, <1>5 DEF SameShape, N
<1>8. \A n \in DOMAIN h : HeldInHeap(g, n) = HeldInHeap(h, n)
  BY <1>7, HeldSame DEF SameShape
<1> QED BY <1>2, <1>6, <1>7, <1>8

(* The Serializer goes.                                                    *)
LEMMA DropKeeps ==
  ASSUME NEW s, SerFits(s), CountedWith(s, Undefined), NEW root \in {s.root, Undefined},
         NEW status \in {"done", "failed"}, NEW t, t = DropSerializer(s, root, status)
  PROVE  SerFits(t) /\ CountedWith(t, Undefined) /\ t.status = status
<1> DEFINE N == Len(s.heap)
           r == [n \in DOMAIN s.heap |-> s.heap[n].refs - HeldByHost(s, n) + IfRef(root, n, 1)]
           g == [n \in DOMAIN s.heap |-> [s.heap[n] EXCEPT !.refs = r[n]]]
<1>1. HeapFits(s.heap) /\ N \in Nat /\ DOMAIN s.heap = 1..N
  BY SerParts
<1>2. r \in [DOMAIN s.heap -> Int]
  <2>1. \A n \in DOMAIN s.heap : s.heap[n].refs - HeldByHost(s, n) + IfRef(root, n, 1) \in Int
    <3> TAKE n \in DOMAIN s.heap
    <3>1. s.heap[n].refs \in Int /\ HeldByHost(s, n) \in Nat /\ IfRef(root, n, 1) \in Nat
      BY SerParts, HostHolds DEF IfRef
    <3> QED BY <3>1
  <2> QED BY <2>1
<1>3. /\ HeapFits(g) /\ SameShape(g, s.heap)
      /\ \A n \in DOMAIN s.heap : HeldInHeap(g, n) = HeldInHeap(s.heap, n) /\ g[n].refs = r[n]
  <2>1. Recounted(g, s.heap, r)
    BY DEF Recounted
  <2> HIDE DEF g, r
  <2> QED BY <1>1, <1>2, <2>1, RecountedFits
<1>4. t = [s EXCEPT !.heap = g, !.root = root, !.paths = <<>>, !.current = None, !.status = status]
  BY DEF DropSerializer, IfRef
<1>5. root \in JSValue /\ ValueFits(root, N)
  <2>1. Undefined \in JSValue /\ ValueFits(Undefined, N)
    BY DEF Undefined, Value, JSValue, Tags, ValueFits
  <2> QED BY <2>1, SerParts
<1>6. \A n \in DOMAIN s.heap : r[n] = s.heap[n].refs - HeldByHost(s, n) + IfRef(root, n, 1)
  OBVIOUS
<1> HIDE DEF g, r
<1>7. /\ t \in SerRecords /\ t.heap = g /\ t.root = root /\ t.paths = <<>> /\ t.current = None
      /\ t.status = status /\ t.leaked = s.leaked
  <2>1. g \in Seq(Nodes(JSValue)) /\ <<>> \in Seq(JSValue)
    BY <1>3 DEF HeapFits
  <2> QED BY <1>4, <1>5, <2>1 DEF SerFits, SerRecords
<1>8. SerFits(t)
  <2>1. t.leaked \subseteq 1..N
    BY <1>7, SerParts
  <2>2. HeapFits(t.heap) /\ Len(t.heap) = N /\ ValueFits(t.root, N) /\ DOMAIN t.paths = {}
    BY <1>3, <1>5, <1>7 DEF SameShape
  <2> HIDE DEF N
  <2> QED BY <1>1, <1>7, <2>1, <2>2, SerMade
<1>9. CountedWith(t, Undefined)
  <2> SUFFICES ASSUME NEW n \in DOMAIN t.heap
               PROVE  t.heap[n].refs = HeldByHost(t, n) + HeldInHeap(t.heap, n) + Leak(t, n) + IfRef(Undefined, n, 1)
    BY DEF CountedWith
  <2> DEFINE a == s.heap[n].refs
             b == HeldByHost(s, n)
             H == HeldInHeap(s.heap, n)
             l == Leak(s, n)
             e == IfRef(root, n, 1)
  <2>1. n \in DOMAIN s.heap /\ n \in Nat
    BY <1>3, <1>7, SerParts DEF SameShape
  <2>2. IfRef(Undefined, n, 1) = 0 /\ IfRef(None, n, 1) = 0
    BY <2>1, NoRef
  <2>3. a = b + H + l + 0
    BY <2>1, <2>2 DEF CountedWith
  <2>4. a \in Int /\ b \in Nat /\ H \in Nat /\ l \in Nat /\ e \in Nat
    BY <2>1, SerParts, HostHolds DEF Leak, IfRef
  <2>5. t.heap[n].refs = a - b + e /\ HeldInHeap(t.heap, n) = H /\ Leak(t, n) = l
    BY <1>3, <1>6, <1>7, <2>1 DEF Leak
  <2>6. HeldByHost(t, n) = e
    <3>1. HeldByHost(t, n) = PathCount(t.paths, Ref(n)) + IfRef(t.current, n, 1) + IfRef(t.root, n, 1)
      BY <1>8, HostHolds
    <3>2. PathCount(t.paths, Ref(n)) = 0
      <4>1. {i \in DOMAIN t.paths : t.paths[i] = Ref(n)} = {}
        BY <1>7
      <4> QED BY <4>1, FS_EmptySet DEF PathCount
    <3> QED BY <1>7, <2>2, <2>4, <3>1, <3>2
  <2> HIDE DEF a, b, H, l, e
  <2> QED BY <2>2, <2>3, <2>4, <2>5, <2>6
<1> QED BY <1>7, <1>8, <1>9

(* Values that are written.                                                *)

(* Numbers are in the range of their kind, whatever the widths.            *)
LEMMA Constants ==
  /\ MaxI32 \in Nat /\ MaxSafe \in Nat /\ MaxI64 \in Nat /\ MaxU64 \in Nat
  /\ MaxI32 < MaxSafe /\ MaxSafe < MaxI64 /\ MaxI64 < MaxU64 /\ MaxU64 = 2 * MaxI64 + 1
  /\ MinI32 = -(MaxI32 + 1) /\ MinI64 = -(MaxI64 + 1)
<1>1. /\ MaxI32 \in Nat /\ MaxSafe \in Nat /\ MaxI64 \in Nat /\ MaxU64 \in Nat
      /\ MaxI32 < MaxSafe /\ MaxSafe < MaxI64 /\ MaxU64 = 2 * MaxI64 + 1
  BY WidthsAssumption
<1> QED BY <1>1 DEF MinI32, MinI64

(* Whatever the width, the low bits of a number are in it.                 *)
LEMMA LowBits ==
  ASSUME NEW v \in Int
  PROVE  AsI32(v) \in MinI32..MaxI32
<1> DEFINE W == 2 * MaxI32 + 2
           a == v - MinI32
<1>1. W \in Nat /\ W > 0 /\ a \in Int /\ MaxI32 - MinI32 + 1 = W /\ MinI32 \in Int
  BY Constants
<1> HIDE DEF W, a
<1>2. a % W \in 0..W - 1
  BY <1>1
<1>3. (a % W) + MinI32 \in MinI32..MaxI32
  <2> DEFINE r == a % W
  <2>1. r \in Int /\ 0 <= r /\ r <= W - 1
    BY <1>1, <1>2
  <2> HIDE DEF r
  <2> QED BY <1>1, <2>1, Constants DEF r
<1> QED BY <1>1, <1>3 DEF AsI32, a

LEMMA NumberFits ==
  ASSUME NEW tag \in {"int", "float", "bigint"}, NEW d \in Int,
         tag = "int" => d \in MinI32..MaxI32, tag # "int" => d \in MinI64..MaxU64
  PROVE  /\ ~IsNode(Value(tag, d))
         /\ \A N : ValueFits(Value(tag, d), N)
<1>1. Value(tag, d) \in JSValue
  BY DEF Value, JSValue, Tags
<1> QED BY <1>1 DEF Value, ValueFits, IsNode

(* The value that a scalar is written as is a value of the engine.         *)
LEMMA ScalarFits ==
  ASSUME NEW t \in Scalars, t.kind \notin {"str", "unit_variant"}
  PROVE  ~IsNode(ScalarOf(t)) /\ \A N : ValueFits(ScalarOf(t), N)
<1> DEFINE k == t.kind
           d == t.data
<1>1. <<k, d>> \in Numbers \/ (k \in {"none", "unit"} /\ d = None)
  <2>1. CASE \E x \in Numbers : t = Token(x[1], x[2])
    <3>1. PICK x \in Numbers : t = Token(x[1], x[2])
      BY <2>1
    <3>2. x = <<x[1], x[2]>>
      BY NumbersAssumption
    <3>3. t.kind = x[1] /\ t.data = x[2]
      BY <3>1 DEF Token
    <3>4. x = <<k, d>>
      BY <3>2, <3>3
    <3> QED BY <3>1, <3>4
  <2>2. CASE t \in {Token("str", y) : y \in {Text, NulText}} \cup {Token("none", None), Token("unit", None), Token("unit_variant", Text)}
    BY <2>2 DEF Token
  <2> QED BY <2>1, <2>2 DEF Scalars
<1> HIDE DEF k, d
<1>2. CASE k \in {"none", "unit"}
  <2>1. ScalarOf(t) = Null
    BY <1>1, <1>2 DEF ScalarOf, k, d
  <2>2. Null \in JSValue
    BY DEF Null, Value, JSValue, Tags
  <2> QED BY <2>1, <2>2 DEF Null, Value, ValueFits, IsNode
<1>3. CASE k \notin {"none", "unit"}
  <2>1. /\ k \in {"i32", "i64", "u32", "u64", "f64"}
        /\ k = "i32" => d \in MinI32..MaxI32
        /\ k = "i64" => d \in MinI64..MaxI64
        /\ k = "u32" => d \in 0..2 * MaxI32 + 1
        /\ k = "u64" => d \in 0..MaxU64
        /\ k = "f64" => d \in MinI64..MaxU64
  BY <1>1, <1>3, NumbersAssumption
  <2>2. d \in Int
    BY <2>1, Constants
  <2>3. CASE k = "i32"
    <3>1. ScalarOf(t) = Value("int", d)
      BY <1>1, <2>3 DEF ScalarOf, k, d, serialize_i32
    <3> QED BY <2>1, <2>2, <2>3, <3>1, NumberFits
  <2>4. CASE k = "i64"
    <3>1. ScalarOf(t) = serialize_i64(d)
      BY <1>1, <2>4 DEF ScalarOf, k, d
    <3>2. d \in MinI64..MaxU64
      BY <2>1, <2>4, Constants
    <3>3. CASE d > MaxSafe
      <4>1. serialize_i64(d) = Value("bigint", d)
        BY <2>2, <3>3, Constants DEF serialize_i64
      <4> QED BY <2>2, <3>1, <3>2, <4>1, NumberFits
    <3>4. CASE d > MaxI32 /\ d <= MaxSafe
      <4>1. serialize_i64(d) = Value("float", d)
        BY <2>2, <3>4, Constants DEF serialize_i64
      <4> QED BY <2>2, <3>1, <3>2, <4>1, NumberFits
    <3>5. CASE d <= MaxI32
      <4>1. serialize_i64(d) = Value("int", AsI32(d))
        BY <2>2, <3>5, Constants DEF serialize_i64
      <4>2. AsI32(d) \in MinI32..MaxI32 /\ AsI32(d) \in Int
        BY <2>2, LowBits, Constants
      <4> QED BY <3>1, <4>1, <4>2, NumberFits
    <3> QED BY <2>2, <3>3, <3>4, <3>5, Constants
  <2>5. CASE k = "u32"
    <3>1. ScalarOf(t) = serialize_u32(d)
      BY <1>1, <2>5 DEF ScalarOf, k, d
    <3>2. d \in MinI64..MaxU64 /\ (d <= MaxI32 => d \in MinI32..MaxI32)
      BY <2>1, <2>2, <2>5, Constants
    <3>3. CASE d > MaxI32
      <4>1. serialize_u32(d) = Value("float", d)
        BY <3>3 DEF serialize_u32
      <4> QED BY <2>2, <3>1, <3>2, <4>1, NumberFits
    <3>4. CASE ~ d > MaxI32
      <4>1. serialize_u32(d) = Value("int", d) /\ d <= MaxI32
        BY <2>2, <3>4, Constants DEF serialize_u32
      <4> QED BY <2>2, <3>1, <3>2, <4>1, NumberFits
    <3> QED BY <3>3, <3>4
  <2>6. CASE k = "u64"
    <3>1. ScalarOf(t) = serialize_u64(d)
      BY <1>1, <2>6 DEF ScalarOf, k, d
    <3>2. d \in MinI64..MaxU64 /\ (d <= MaxI32 => d \in MinI32..MaxI32)
      BY <2>1, <2>2, <2>6, Constants
    <3>3. CASE d > MaxSafe
      <4>1. serialize_u64(d) = Value("bigint", d)
        BY <2>2, <3>3, Constants DEF serialize_u64
      <4> QED BY <2>2, <3>1, <3>2, <4>1, NumberFits
    <3>4. CASE d > MaxI32 /\ d <= MaxSafe
      <4>1. serialize_u64(d) = Value("float", d)
        BY <2>2, <3>4, Constants DEF serialize_u64
      <4> QED BY <2>2, <3>1, <3>2, <4>1, NumberFits
    <3>5. CASE d <= MaxI32
      <4>1. serialize_u64(d) = Value("int", d)
        BY <2>2, <3>5, Constants DEF serialize_u64
      <4> QED BY <2>2, <3>1, <3>2, <3>5, <4>1, NumberFits
    <3> QED BY <2>2, <3>3, <3>4, <3>5, Constants
  <2>7. CASE k = "f64"
    <3>1. ScalarOf(t) = Value("float", d)
      BY <1>1, <2>7 DEF ScalarOf, k, d
    <3> QED BY <2>1, <2>2, <2>7, <3>1, NumberFits
  <2> QED BY <2>1, <2>3, <2>4, <2>5, <2>6, <2>7
<1> QED BY <1>2, <1>3

LEMMA StringFits ==
  ASSUME NEW text \in Strings
  PROVE  ~IsNode(Value("string", text)) /\ \A N : ValueFits(Value("string", text), N)
<1>1. Value("string", text) \in JSValue
  BY DEF Value, JSValue, Tags
<1> QED BY <1>1 DEF Value, ValueFits, IsNode

-----------------------------------------------------------------------------
(* The inductive invariant: counts, spine, compounds and tokens.           *)

TokenKinds ==
  {"i32", "i64", "u32", "u64", "f64", "str", "none", "unit", "unit_variant", "some", "newtype_struct",
   "bytes", "key", "other_key", "end"} \cup FrameKinds
TokenSet == [kind : TokenKinds, data : Int \cup Strings \cup {None}]

(* A key with a NUL in it was given.                                       *)
NulNamed == \E i \in DOMAIN tokens : tokens[i] = Token("key", NulText)
KeyToBlame == LastToken = "other_key" \/ NulNamed

(* A call that may be the first waits for the root.                        *)
RootDue == frames = <<>> /\ (Started => LastToken \in Wrappers) => ser.current = None

AtWork == Building(ser, frames) /\ RootDue /\ (ser.current_key = NulText => NulNamed)

SerInv ==
  /\ tokens \in Seq(TokenSet) /\ SerFits(ser) /\ CountedWith(ser, Undefined)
  /\ Running => AtWork
  /\ ser.status \in {"error", "failed"} => KeyToBlame

(* A call was made.                                                        *)

(* A call is one more token.                                               *)
LEMMA Said ==
  ASSUME tokens \in Seq(TokenSet), NEW t \in TokenSet, Says(t)
  PROVE  /\ tokens' \in Seq(TokenSet) /\ tokens' # <<>> /\ tokens'[Len(tokens')] = t
         /\ NulNamed => NulNamed'
         /\ t = Token("key", NulText) => NulNamed'
<1> DEFINE k == Len(tokens)
<1>1. k \in Nat /\ DOMAIN tokens = 1..k
  OBVIOUS
<1>2. /\ tokens' \in Seq(TokenSet) /\ Len(tokens') = k + 1 /\ tokens'[k + 1] = t
      /\ \A i \in 1..k : tokens'[i] = tokens[i]
  BY DEF Says
<1>3. DOMAIN tokens' = 1..k + 1
  BY <1>2
<1> HIDE DEF k
<1>4. tokens' # <<>>
  BY <1>1, <1>2
<1>5. NulNamed => NulNamed'
  BY <1>1, <1>2, <1>3 DEF NulNamed
<1>6. t = Token("key", NulText) => NulNamed'
  BY <1>1, <1>2, <1>3 DEF NulNamed
<1> QED BY <1>2, <1>4, <1>5, <1>6

(* When a value is due, the serializer waits for one.                      *)
LEMMA Awaiting ==
  ASSUME SerInv, ValueDue
  PROVE  /\ tokens \in Seq(TokenSet) /\ Building(ser, frames) /\ Awaits(ser, frames) /\ FramesFit(frames)
         /\ Len(ser.heap) \in Nat /\ ser.current_is_key = FALSE
         /\ ser.current_key = NulText => NulNamed
<1>1. tokens \in Seq(TokenSet) /\ AtWork
  BY DEF SerInv, ValueDue
<1>2. Building(ser, frames) /\ (ser.current_key = NulText => NulNamed)
  BY <1>1 DEF AtWork
<1>3. Awaits(ser, frames)
  <2>1. CASE frames = <<>>
    BY <1>1, <2>1 DEF ValueDue, AtWork, RootDue, Awaits
  <2>2. CASE frames # <<>>
    BY <2>2 DEF ValueDue, Awaits, Top
  <2> QED BY <2>1, <2>2
<1>4. FramesFit(frames) /\ SerFits(ser) /\ ser.current_is_key = FALSE
  BY <1>2 DEF Building
<1>5. Len(ser.heap) \in Nat
  BY <1>4, SerParts
<1> QED BY <1>1, <1>2, <1>3, <1>4, <1>5

(* The invariant holds after a call that wrote a value, or failed to.      *)
LEMMA OutcomeHolds ==
  ASSUME tokens \in Seq(TokenSet), ser.current_key = NulText => NulNamed,
         NEW t \in TokenSet, Says(t), t.kind \notin Wrappers, Outcome(ser, ser', frames')
  PROVE  SerInv'
<1>1. /\ tokens' \in Seq(TokenSet) /\ tokens' # <<>> /\ tokens'[Len(tokens')] = t
      /\ NulNamed => NulNamed'
  BY Said
<1>2. SerFits(ser') /\ CountedWith(ser', Undefined)
  BY DEF Outcome
<1>3. CASE /\ ser'.status = "running" /\ Building(ser', frames')
           /\ ser'.current_key \in {ser.current_key, Text, None}
  <2>1. RootDue'
    BY <1>1 DEF RootDue, Started, LastToken
  <2>2. NulText # Text /\ NulText # None
    BY StringsDiffer DEF Strings
  <2>3. ser'.current_key = NulText => NulNamed'
    BY <1>1, <1>3, <2>2
  <2>4. AtWork'
    BY <1>3, <2>1, <2>3 DEF AtWork
  <2> QED BY <1>1, <1>2, <1>3, <2>4 DEF SerInv
<1>4. CASE ser'.status = "error" /\ ser.current_key = NulText
  <2>1. KeyToBlame'
    BY <1>1, <1>4 DEF KeyToBlame
  <2> QED BY <1>1, <1>2, <1>4, <2>1 DEF SerInv, Running
<1> QED BY <1>3, <1>4 DEF Outcome

(* Every call keeps the invariant.                                         *)

LEMMA ZeroFits == ~IsNode(serialize_i32(0)) /\ \A N : ValueFits(serialize_i32(0), N)
<1>1. 0 \in MinI32..MaxI32
  BY Constants
<1> QED BY <1>1, NumberFits DEF serialize_i32

LEMMA ScalarsAreTokens ==
  ASSUME NEW t \in Scalars
  PROVE  /\ t \in TokenSet /\ t.kind \notin Wrappers
         /\ t.kind \in {"str", "unit_variant"} => t.data \in Strings
<1>1. CASE \E x \in Numbers : t = Token(x[1], x[2])
  <2>1. PICK x \in Numbers : t = Token(x[1], x[2])
    BY <1>1
  <2>2. x[1] \in {"i32", "i64", "u32", "u64", "f64"} /\ x[2] \in Int
    BY NumbersAssumption, Constants
  <2>3. t \in TokenSet /\ t.kind = x[1]
    BY <2>1, <2>2 DEF Token, TokenSet, TokenKinds
  <2> QED BY <2>2, <2>3 DEF Wrappers
<1>2. CASE \E y \in {Text, NulText} : t = Token("str", y)
  BY <1>2 DEF Token, TokenSet, TokenKinds, Wrappers, Strings
<1>3. CASE t \in {Token("none", None), Token("unit", None), Token("unit_variant", Text)}
  BY <1>3 DEF Token, TokenSet, TokenKinds, Wrappers, Strings
<1> QED BY <1>1, <1>2, <1>3 DEF Scalars

LEMMA ScalarStep ==
  ASSUME SerInv, NEW t \in Scalars, SerializeScalar(t)
  PROVE  SerInv'
<1> DEFINE v == IF t.kind \in {"str", "unit_variant"} THEN Value("string", t.data) ELSE ScalarOf(t)
<1>1. ValueDue /\ Says(t) /\ frames' = AfterValue(frames)
  BY DEF SerializeScalar
<1>2. /\ tokens \in Seq(TokenSet) /\ Building(ser, frames) /\ Awaits(ser, frames) /\ FramesFit(frames)
      /\ Len(ser.heap) \in Nat /\ ser.current_is_key = FALSE
      /\ ser.current_key = NulText => NulNamed
  BY <1>1, Awaiting
<1>3. /\ t \in TokenSet /\ t.kind \notin Wrappers
      /\ t.kind \in {"str", "unit_variant"} => t.data \in Strings
  BY ScalarsAreTokens
<1>4. ser' = set_node_value(ser, v)
  BY <1>2 DEF SerializeScalar, serialize_str
<1>5. ~IsNode(v) /\ ValueFits(v, Len(ser.heap))
  <2>1. CASE t.kind \in {"str", "unit_variant"}
    <3>1. t.data \in Strings /\ v = Value("string", t.data)
      BY <1>3, <2>1
    <3> QED BY <3>1, StringFits
  <2>2. CASE t.kind \notin {"str", "unit_variant"}
    <3>1. v = ScalarOf(t)
      BY <2>2
    <3> QED BY <2>2, <3>1, ScalarFits
  <2> QED BY <2>1, <2>2
<1> HIDE DEF v
<1>6. SettledFrames(frames', frames)
  BY <1>1, <1>2, ValueSettles
<1>7. Outcome(ser, ser', frames')
  BY <1>2, <1>4, <1>5, <1>6, ScalarSet
<1> QED BY <1>1, <1>2, <1>3, <1>7, OutcomeHolds

LEMMA WrapperStep ==
  ASSUME SerInv, NEW kind \in Wrappers, SerializeWrapper(kind)
  PROVE  SerInv'
<1> DEFINE t == Token(kind, None)
<1>1. ValueDue /\ Says(t) /\ ser' = ser /\ frames' = frames
  BY DEF SerializeWrapper
<1>2. tokens \in Seq(TokenSet) /\ Building(ser, frames) /\ Awaits(ser, frames)
      /\ (ser.current_key = NulText => NulNamed)
  BY <1>1, Awaiting
<1>3. t \in TokenSet
  BY DEF Token, TokenSet, TokenKinds, Wrappers
<1> HIDE DEF t
<1>4. tokens' \in Seq(TokenSet) /\ (NulNamed => NulNamed')
  BY <1>1, <1>2, <1>3, Said
<1>5. RootDue'
  BY <1>1, <1>2 DEF RootDue, Awaits
<1>6. AtWork'
  BY <1>1, <1>2, <1>4, <1>5 DEF AtWork
<1>7. ser.status = "running"
  BY <1>1 DEF ValueDue, Running
<1> QED BY <1>1, <1>4, <1>6, <1>7 DEF SerInv

LEMMA BytesStep ==
  ASSUME SerInv, SerializeBytes
  PROVE  SerInv'
<1> DEFINE t == Token("bytes", None)
           u == push(ser, "array")
           v == serialize_i32(0)
<1>1. /\ ValueDue /\ Says(t) /\ frames' = AfterValue(frames)
      /\ ser' = IF Failed(u) THEN u ELSE pop(set_node_value(u, v))
  BY DEF SerializeBytes
<1>2. t \in TokenSet /\ t.kind \notin Wrappers
  BY DEF Token, TokenSet, TokenKinds, Wrappers
<1>3. ~IsNode(v) /\ \A N \in Nat : ValueFits(v, N)
  BY ZeroFits
<1> HIDE DEF t, u, v
<1>4. /\ tokens \in Seq(TokenSet) /\ Building(ser, frames) /\ Awaits(ser, frames) /\ FramesFit(frames)
      /\ ser.current_key = NulText => NulNamed
  BY <1>1, Awaiting
<1>5. SettledFrames(frames', frames)
  BY <1>1, <1>4, ValueSettles
<1>6. Outcome(ser, ser', frames')
  BY <1>1, <1>3, <1>4, <1>5, BytesKeep DEF u
<1> QED BY <1>1, <1>2, <1>4, <1>6, OutcomeHolds

(* A call that cannot be the first of a value keeps the serializer at work.*)
LEMMA WorkGoesOn ==
  ASSUME NEW t \in TokenSet, tokens \in Seq(TokenSet), Says(t), t.kind \notin Wrappers,
         Building(ser', frames'), ser'.current_key = NulText => NulNamed'
  PROVE  SerInv'
<1>1. tokens' \in Seq(TokenSet) /\ tokens' # <<>> /\ tokens'[Len(tokens')] = t
  BY Said
<1>2. RootDue'
  BY <1>1 DEF RootDue, Started, LastToken
<1>3. AtWork'
  BY <1>2 DEF AtWork
<1>4. SerFits(ser') /\ CountedWith(ser', Undefined) /\ ser'.status = "running"
  BY DEF Building
<1> QED BY <1>1, <1>3, <1>4 DEF SerInv

LEMMA CompoundStep ==
  ASSUME SerInv, NEW kind \in {"seq", "map", "struct"}, SerializeCompound(kind)
  PROVE  SerInv'
<1> DEFINE t == Token(kind, None)
<1>1. /\ ValueDue /\ Says(t) /\ frames' = Append(AfterValue(frames), Frame(kind))
      /\ ser' = push(ser, IF kind = "seq" THEN "array" ELSE "object")
  BY DEF SerializeCompound
<1>2. t \in TokenSet /\ t.kind \notin Wrappers /\ kind \in FrameKinds
  BY DEF Token, TokenSet, TokenKinds, FrameKinds, Wrappers
<1> HIDE DEF t
<1>3. /\ tokens \in Seq(TokenSet) /\ Building(ser, frames) /\ Awaits(ser, frames) /\ FramesFit(frames)
      /\ ser.current_key = NulText => NulNamed
  BY <1>1, Awaiting
<1>4. Begun(frames', frames, kind)
  BY <1>1, <1>2, <1>3, CompoundBegins
<1>5. Outcome(ser, ser', frames')
  BY <1>1, <1>3, <1>4, CompoundPushed
<1> QED BY <1>1, <1>2, <1>3, <1>5, OutcomeHolds

LEMMA VariantStep ==
  ASSUME SerInv, NEW kind \in TwoDeep \cup {"newtype_variant"}, SerializeVariant(kind)
  PROVE  SerInv'
<1> DEFINE t == Token(kind, Text)
           u == push(ser, "object")
           named == IF Failed(u) THEN u ELSE serialize_name(u, Text)
<1>1. /\ ValueDue /\ Says(t) /\ frames' = Append(AfterValue(frames), Frame(kind))
      /\ ser' = IF Failed(u) \/ kind = "newtype_variant" THEN named
                ELSE push(named, IF kind = "tuple_variant" THEN "array" ELSE "object")
  BY DEF SerializeVariant
<1>2. t \in TokenSet /\ t.kind \notin Wrappers /\ kind \in FrameKinds
  BY DEF Token, TokenSet, TokenKinds, FrameKinds, TwoDeep, Wrappers, Strings
<1> HIDE DEF t
<1>3. /\ tokens \in Seq(TokenSet) /\ Building(ser, frames) /\ Awaits(ser, frames) /\ FramesFit(frames)
      /\ ser.current_key = NulText => NulNamed
  BY <1>1, Awaiting
<1>4. Begun(frames', frames, kind)
  BY <1>1, <1>2, <1>3, CompoundBegins
<1>5. Outcome(ser, ser', frames')
  BY <1>1, <1>3, <1>4, VariantPushed
<1> QED BY <1>1, <1>2, <1>3, <1>5, OutcomeHolds

LEMMA KeyStep ==
  ASSUME SerInv, NEW text \in Strings, SerializeKey(text)
  PROVE  SerInv'
<1> DEFINE t == Token("key", text)
<1>1. /\ Running /\ frames # <<>> /\ frames[Len(frames)].due = "key" /\ text \notin frames[Len(frames)].keys
      /\ Says(t) /\ ser' = IF ser.current_key # None THEN Fails(ser) ELSE serialize_name(ser, text)
      /\ frames' = [frames EXCEPT ![Len(frames)].due = "value", ![Len(frames)].keys = @ \cup {text}]
  BY DEF SerializeKey, Top
<1>2. t \in TokenSet /\ t.kind \notin Wrappers
  BY DEF Token, TokenSet, TokenKinds, Wrappers
<1>3. tokens \in Seq(TokenSet) /\ Building(ser, frames)
  BY <1>1 DEF SerInv, AtWork
<1>4. FramesFit(frames)
  BY <1>3 DEF Building
<1>5. KeyGiven(frames', frames, text)
  BY <1>1, <1>4, KeyIsGiven
<1>6. Building(ser', frames') /\ ser'.current_key = text
  BY <1>1, <1>3, <1>5, KeyKeeps
<1>7. ser'.current_key = NulText => NulNamed'
  <2> HIDE DEF t
  <2>1. t = Token("key", NulText) => NulNamed'
    BY <1>1, <1>2, <1>3, Said
  <2> QED BY <1>6, <2>1 DEF t
<1> HIDE DEF t
<1> QED BY <1>1, <1>2, <1>3, <1>6, <1>7, WorkGoesOn

LEMMA OtherKeyStep ==
  ASSUME SerInv, NEW container \in BOOLEAN, SerializeOtherKey(container)
  PROVE  SerInv'
<1> DEFINE t == Token("other_key", None)
           r == [ser EXCEPT !.current_is_key = TRUE]
           v == serialize_i32(0)
<1>1. /\ Running /\ frames # <<>> /\ frames[Len(frames)].due = "key" /\ Says(t)
      /\ ser' = IF container THEN push(r, "array") ELSE set_node_value(r, v)
  BY DEF SerializeOtherKey, Top
<1>2. t \in TokenSet /\ t.kind = "other_key"
  BY DEF Token, TokenSet, TokenKinds
<1>3. tokens \in Seq(TokenSet) /\ Building(ser, frames) /\ SerFits(ser)
  BY <1>1 DEF SerInv, AtWork
<1>4. Named(r, ser, ser.current_key, TRUE)
  <2>1. ser \in SerRecords
    BY <1>3 DEF SerFits
  <2>2. ser = [ser EXCEPT !.current_key = ser.current_key]
    BY <2>1 DEF SerRecords
  <2> QED BY <2>2 DEF Named
<1>5. ~IsNode(v) /\ ValueFits(v, Len(ser.heap))
  BY ZeroFits
<1> HIDE DEF t, r, v
<1>6. SerFits(ser') /\ CountedWith(ser', Undefined) /\ ser'.status = "error"
  BY <1>1, <1>3, <1>4, <1>5, OtherKeyKeeps
<1>7. tokens' \in Seq(TokenSet) /\ tokens'[Len(tokens')] = t
  BY <1>1, <1>2, <1>3, Said
<1>8. KeyToBlame'
  BY <1>2, <1>7 DEF KeyToBlame, LastToken
<1> QED BY <1>6, <1>7, <1>8 DEF SerInv, Running

LEMMA EndStep ==
  ASSUME SerInv, SerializeEnd
  PROVE  SerInv'
<1> DEFINE t == Token("end", None)
           f == frames[Len(frames)]
<1>1. /\ Running /\ frames # <<>> /\ Says(t) /\ ser' = Close(ser, f.kind)
      /\ frames' = SubSeq(frames, 1, Len(frames) - 1)
      /\ f.due # "value" \/ f.kind \in Listed
  BY DEF SerializeEnd, Top
<1>2. t \in TokenSet /\ t.kind \notin Wrappers
  BY DEF Token, TokenSet, TokenKinds, Wrappers
<1> HIDE DEF t
<1>3. tokens \in Seq(TokenSet) /\ Building(ser, frames)
  BY <1>1 DEF SerInv, AtWork
<1>4. Ended(frames', frames)
  <2>1. FramesFit(frames)
    BY <1>3 DEF Building
  <2> QED BY <1>1, <2>1, CompoundEnds
<1>5. Building(ser', frames') /\ ser'.current_key = None
  BY <1>1, <1>3, <1>4, EndKeeps
<1>6. NulText # None
  BY StringsDiffer DEF Strings
<1> QED BY <1>1, <1>2, <1>3, <1>5, <1>6, WorkGoesOn

LEMMA ReturnStep ==
  ASSUME SerInv, ToJsReturns \/ ToJsFails
  PROVE  SerInv'
<1>1. SerFits(ser) /\ CountedWith(ser, Undefined) /\ tokens \in Seq(TokenSet)
  BY DEF SerInv
<1>2. CASE ToJsReturns
  <2>1. ser' = DropSerializer(ser, ser.root, "done") /\ tokens' = tokens
    BY <1>2 DEF ToJsReturns
  <2>2. SerFits(ser') /\ CountedWith(ser', Undefined) /\ ser'.status = "done"
    BY <1>1, <2>1, DropKeeps
  <2> QED BY <1>1, <2>1, <2>2 DEF SerInv, Running
<1>3. CASE ToJsFails
  <2>1. ser.status = "error" /\ ser' = DropSerializer(ser, Undefined, "failed") /\ tokens' = tokens
    BY <1>3 DEF ToJsFails
  <2>2. SerFits(ser') /\ CountedWith(ser', Undefined) /\ ser'.status = "failed"
    BY <1>1, <2>1, DropKeeps
  <2>3. KeyToBlame'
    BY <2>1 DEF SerInv, KeyToBlame, LastToken, NulNamed
  <2> QED BY <1>1, <2>1, <2>2, <2>3 DEF SerInv, Running
<1> QED BY <1>2, <1>3

(* The initial states.                                                     *)

(* A new serializer fits, and so does the heap of a script.                *)
LEMMA NewFits == SerFits(NewSerializer) /\ CountedWith(NewSerializer, Undefined) /\ Building(NewSerializer, <<>>)
<1> DEFINE s == NewSerializer
<1>1. Undefined \in JSValue /\ \A N : ValueFits(Undefined, N)
  <2>1. Undefined \in JSValue
    BY DEF Undefined, Value, JSValue, Tags
  <2> QED BY <2>1 DEF ValueFits, Undefined, Value
<1>2. /\ s \in SerRecords /\ s.heap = <<>> /\ s.root = Undefined /\ s.paths = <<>> /\ s.current = None
      /\ s.current_is_key = FALSE /\ s.current_key = None /\ s.status = "running" /\ s.leaked = {}
  <2>1. <<>> \in Seq(Nodes(JSValue)) /\ <<>> \in Seq(JSValue)
    OBVIOUS
  <2> QED BY <1>1, <2>1 DEF NewSerializer, SerRecords
<1> HIDE DEF s
<1>3. Len(s.heap) = 0 /\ DOMAIN s.heap = {} /\ Len(s.paths) = 0 /\ DOMAIN s.paths = {}
  BY <1>2
<1>4. HeapFits(s.heap)
  BY <1>2, <1>3 DEF HeapFits
<1>5. SerFits(s)
  BY <1>1, <1>2, <1>3, <1>4 DEF SerFits
<1>6. CountedWith(s, Undefined)
  BY <1>3 DEF CountedWith
<1>7. FramesFit(<<>>)
  BY DEF FramesFit
<1>8. SpineFits(s)
  BY <1>2 DEF SpineFits
<1>9. Holders(s, <<>>)
  BY DEF Holders
<1>10. Len(s.paths) + 1 = Depth(<<>>, Len(<<>>))
  BY <1>3, DepthOfNone
<1>11. KeyFits(s, <<>>)
  BY <1>2 DEF KeyFits
<1> QED BY <1>2, <1>5, <1>6, <1>7, <1>8, <1>9, <1>10, <1>11 DEF Building, s

(* The heap of a script.                                                   *)
LEMMA GraphFits ==
  ASSUME NEW graph \in Graphs
  PROVE  HeapFits(graph) /\ Len(graph) >= 1
<1> DEFINE N == Len(graph)
           E == Entries(JSValue)
           X == [kind : {"array", "object", "proxy"}, entries : Seq(E), proto : Nat \cup {None}, refs : Int]
<1>1. /\ graph # <<>> /\ graph \in Seq(X)
      /\ \A n \in DOMAIN graph :
           /\ graph[n].proto \in DOMAIN graph \cup {None}
           /\ \A i \in DOMAIN graph[n].entries :
                /\ ValueIn(graph[n].entries[i].value, DOMAIN graph)
                /\ graph[n].kind = "object" => graph[n].entries[i].key \in Strings
  BY GraphsAssumption DEF Entries
<1>2. N \in Nat /\ DOMAIN graph = 1..N /\ N >= 1 /\ \A n \in 1..N : graph[n] \in X
  <2> HIDE DEF X
  <2> QED BY <1>1
<1> HIDE DEF N
<1>3. \A n \in 1..N : graph[n] \in Nodes(JSValue) /\ graph[n].kind # "freed" /\ graph[n].entries \in Seq(E)
  BY <1>2 DEF Nodes
<1>4. graph \in Seq(Nodes(JSValue))
  <2> DEFINE V == Nodes(JSValue)
  <2>1. graph = [n \in 1..N |-> graph[n]]
    <3> HIDE DEF X
    <3> QED BY <1>1, <1>2
  <2>2. \A n \in 1..N : graph[n] \in V
    BY <1>3
  <2> HIDE DEF V
  <2>3. [n \in 1..N |-> graph[n]] \in Seq(V)
    BY <1>2, <2>2, IsASeq
  <2> QED BY <2>1, <2>3 DEF V
<1>5. \A n \in 1..N : NodeFits(graph[n], N)
  <2> TAKE n \in 1..N
  <2> DEFINE es == graph[n].entries
  <2>1. es \in Seq(E)
    BY <1>3
  <2>2. \A i \in DOMAIN es : es[i].value \in JSValue
    <3>1. \A i \in DOMAIN es : es[i] \in E
      <4> HIDE DEF es, E
      <4> QED BY <2>1
    <3> HIDE DEF es
    <3> QED BY <3>1 DEF Entries
  <2>3. \A i \in DOMAIN es : ValueFits(es[i].value, N)
    <3> TAKE i \in DOMAIN es
    <3> DEFINE v == es[i].value
    <3>1. v \in JSValue /\ ValueIn(v, 1..N)
      BY <1>1, <1>2, <2>2
    <3> HIDE DEF v
    <3>2. ValueFits(v, N)
      BY <3>1 DEF ValueIn, ValueFits
    <3> QED BY <3>2 DEF v
  <2>4. graph[n].proto \in 1..N \cup {None}
    BY <1>1, <1>2
  <2>5. \A i \in DOMAIN es : graph[n].kind = "object" => es[i].key \in Strings
    BY <1>1, <1>2
  <2> HIDE DEF es
  <2>6. graph[n] \in Nodes(JSValue) /\ graph[n].kind # "freed"
    BY <1>3
  <2> QED BY <2>3, <2>4, <2>5, <2>6 DEF NodeFits, es
<1> QED BY <1>2, <1>4, <1>5 DEF HeapFits, N

LEMMA GraphCounted ==
  ASSUME NEW graph \in Graphs, NEW s,
         s = [NewSerializer EXCEPT !.heap = Counted(graph), !.root = Ref(1), !.status = "done"]
  PROVE  SerFits(s) /\ CountedWith(s, Undefined) /\ s.status = "done"
<1> DEFINE g == Counted(graph)
           r == [n \in DOMAIN graph |-> HeldInHeap(graph, n) + (IF n = 1 THEN 1 ELSE 0)]
<1>1. HeapFits(graph) /\ Len(graph) >= 1 /\ Len(graph) \in Nat /\ DOMAIN graph = 1..Len(graph) /\ FiniteHeap(graph)
  BY GraphFits, HeapParts
<1> HIDE DEF g, r
<1>2. \A n \in DOMAIN graph : HeldInHeap(graph, n) \in Nat
  <2> TAKE n \in DOMAIN graph
  <2> DEFINE a == Cardinality(OtherPlaces(graph, n, n))
             b == Cardinality(OtherKids(graph, n, n))
             c == HeldBy(graph[n], n)
             d == HeldInHeap(graph, n)
  <2>1. a \in Nat /\ b \in Nat /\ c \in Nat /\ d = a + b + c
    <3>1. FiniteHeap(graph) /\ n \in DOMAIN graph
      BY <1>1
    <3> QED BY ONLY <3>1, HeldSplit
  <2> HIDE DEF a, b, c, d
  <2>2. d \in Nat
    BY <2>1
  <2> QED BY <2>2 DEF d
<1>3. r \in [DOMAIN graph -> Int] /\ Recounted(g, graph, r)
  BY <1>2 DEF Counted, Recounted, g, r
<1>4. \A n \in DOMAIN graph : r[n] = HeldInHeap(graph, n) + (IF n = 1 THEN 1 ELSE 0)
  BY DEF r
<1>5. /\ s.heap = g /\ s.root = Ref(1) /\ s.status = "done" /\ s.paths = <<>> /\ s.current = None
      /\ s.current_is_key = FALSE /\ s.current_key = None /\ s.leaked = {}
      /\ DOMAIN s = DOMAIN NewSerializer
      /\ s = [heap |-> g, root |-> Ref(1), paths |-> <<>>, current |-> None,
              current_is_key |-> FALSE, current_key |-> None, status |-> "done", leaked |-> {}]
  BY DEF NewSerializer, g
<1>6. /\ HeapFits(g) /\ SameShape(g, graph)
      /\ \A n \in DOMAIN graph : HeldInHeap(g, n) = HeldInHeap(graph, n) /\ g[n].refs = r[n]
  BY <1>1, <1>3, RecountedFits
<1>7. Len(g) = Len(graph) /\ DOMAIN g = DOMAIN graph
  BY <1>6 DEF SameShape
<1>8. Ref(1) \in JSValue /\ ValueFits(Ref(1), Len(g))
  <2>1. Ref(1) \in JSValue
    BY NoRef
  <2> QED BY <1>1, <1>7, <2>1 DEF ValueFits, Ref, Value
<1>9. s \in SerRecords
  <2>1. g \in Seq(Nodes(JSValue))
    BY <1>6 DEF HeapFits
  <2>2. <<>> \in Seq(JSValue)
    OBVIOUS
  <2> QED BY <1>5, <1>8, <2>1, <2>2 DEF SerRecords
<1>10. SerFits(s)
  <2>1. DOMAIN s.paths = {}
    BY <1>5
  <2> QED BY <1>5, <1>6, <1>8, <1>9, <2>1 DEF SerFits
<1>11. CountedWith(s, Undefined)
  <2> SUFFICES ASSUME NEW n \in DOMAIN s.heap
               PROVE  s.heap[n].refs = HeldByHost(s, n) + HeldInHeap(s.heap, n) + Leak(s, n) + IfRef(Undefined, n, 1)
    BY DEF CountedWith
  <2>1. n \in DOMAIN graph /\ n \in Nat
    BY <1>1, <1>5, <1>7
  <2>2. s.heap[n].refs = HeldInHeap(s.heap, n) + (IF n = 1 THEN 1 ELSE 0)
    BY <1>4, <1>5, <1>6, <2>1
  <2>3. IfRef(s.current, n, 1) = 0 /\ IfRef(Undefined, n, 1) = 0
    BY <1>5, <2>1, NoRef
  <2>4. IfRef(s.root, n, 1) = IF n = 1 THEN 1 ELSE 0
    BY <1>5, <2>1 DEF IfRef, Ref, Value
  <2>5. PathCount(s.paths, Ref(n)) = 0
    <3>1. {i \in DOMAIN s.paths : s.paths[i] = Ref(n)} = {}
      BY <1>5
    <3> QED BY <3>1, FS_EmptySet DEF PathCount
  <2>6. HeldByHost(s, n) = PathCount(s.paths, Ref(n)) + IfRef(s.current, n, 1) + IfRef(s.root, n, 1)
    BY <1>10, HostHolds
  <2>7. Leak(s, n) = 0 /\ HeldInHeap(s.heap, n) \in Nat
    BY <1>2, <1>5, <1>6, <2>1 DEF Leak
  <2> QED BY <2>2, <2>3, <2>4, <2>5, <2>6, <2>7
<1> QED BY <1>5, <1>10, <1>11

(* It holds at first.                                                      *)
LEMMA InitHolds ==
  ASSUME Init
  PROVE  SerInv
<1>1. CASE SerInit
  <2>1. ser = NewSerializer /\ tokens = <<>> /\ frames = <<>>
    BY <1>1 DEF SerInit
  <2>2. Building(ser, frames) /\ SerFits(ser) /\ CountedWith(ser, Undefined)
    BY <2>1, NewFits
  <2>3. ser.current = None /\ ser.current_key = None /\ ser.status = "running"
    BY <2>1 DEF NewSerializer
  <2>4. None # NulText
    BY StringsDiffer DEF Strings
  <2>5. AtWork
    BY <2>2, <2>3, <2>4 DEF AtWork, RootDue
  <2>6. tokens \in Seq(TokenSet)
    BY <2>1
  <2> QED BY <2>2, <2>3, <2>5, <2>6 DEF SerInv
<1>2. CASE \E graph \in Graphs :
             /\ ser = [NewSerializer EXCEPT !.heap = Counted(graph), !.root = Ref(1), !.status = "done"]
             /\ tokens = <<>> /\ frames = <<>>
  <2>1. SerFits(ser) /\ CountedWith(ser, Undefined) /\ ser.status = "done" /\ tokens = <<>>
    BY <1>2, GraphCounted
  <2>2. tokens \in Seq(TokenSet)
    BY <2>1
  <2> QED BY <2>1, <2>2 DEF SerInv, Running
<1> QED BY <1>1, <1>2 DEF Init

(* It holds after every step; from_js changes nothing of it.               *)
LEMMA StepHolds ==
  ASSUME SerInv, [Next]_vars
  PROVE  SerInv'
<1>1. CASE UNCHANGED serVars
  BY <1>1 DEF serVars, SerInv, AtWork, RootDue, Running, Started, LastToken, NulNamed, KeyToBlame
<1>2. CASE Serialize
  <2>1. CASE \E t \in Scalars : SerializeScalar(t)
    BY <2>1, ScalarStep
  <2>2. CASE \E kind \in Wrappers : SerializeWrapper(kind)
    BY <2>2, WrapperStep
  <2>3. CASE SerializeBytes
    BY <2>3, BytesStep
  <2>4. CASE \E kind \in {"seq", "map", "struct"} : SerializeCompound(kind)
    BY <2>4, CompoundStep
  <2>5. CASE \E kind \in TwoDeep \cup {"newtype_variant"} : SerializeVariant(kind)
    BY <2>5, VariantStep
  <2>6. CASE \E text \in Strings : SerializeKey(text)
    BY <2>6, KeyStep
  <2>7. CASE \E container \in BOOLEAN : SerializeOtherKey(container)
    BY <2>7, OtherKeyStep
  <2>8. CASE SerializeEnd
    BY <2>8, EndStep
  <2>9. CASE ToJsReturns \/ ToJsFails
    BY <2>9, ReturnStep
  <2> QED BY <1>2, <2>1, <2>2, <2>3, <2>4, <2>5, <2>6, <2>7, <2>8, <2>9 DEF Serialize
<1>3. CASE FromJs \/ Deserialize
  BY <1>1, <1>3 DEF FromJs, Deserialize
<1>4. CASE UNCHANGED vars
  BY <1>1, <1>4 DEF vars
<1> QED BY <1>2, <1>3, <1>4 DEF Next

(* It holds always.                                                        *)
LEMMA SerializerInvariant == Spec => []SerInv
BY InitHolds, StepHolds, PTL DEF Spec

(* However to_js goes, the reference count of every container it made is   *)
(* the number of references that its Serializer, other containers and its  *)
(* caller hold, and one more for a container that a release build refuses  *)
(* and leaks (set_node_value, push_object, push_array, pop and Drop for    *)
(* Serializer in src/serde/ser.rs).                                        *)
THEOREM CountsOfContainersAreExact == Spec => []ReferencesExact
<1>1. SerInv => ReferencesExact
  <2> SUFFICES ASSUME SerInv, NEW n \in DOMAIN ser.heap
               PROVE  ser.heap[n].refs = HeldByHost(ser, n) + HeldInHeap(ser.heap, n)
                                           + (IF n \in ser.leaked THEN 1 ELSE 0)
    BY DEF ReferencesExact
  <2>1. SerFits(ser) /\ CountedWith(ser, Undefined)
    BY DEF SerInv
  <2>2. /\ IfRef(Undefined, n, 1) = 0 /\ HeldByHost(ser, n) \in Nat /\ HeldInHeap(ser.heap, n) \in Nat
        /\ Leak(ser, n) = IF n \in ser.leaked THEN 1 ELSE 0
    BY <2>1, SerParts, NoRef, HostHolds DEF Leak
  <2>3. ser.heap[n].refs = HeldByHost(ser, n) + HeldInHeap(ser.heap, n) + Leak(ser, n) + IfRef(Undefined, n, 1)
    BY <2>1 DEF CountedWith
  <2> QED BY <2>2, <2>3
<1> QED BY <1>1, SerializerInvariant, PTL

(* The containers begun and not ended are a path from the root, each the   *)
(* last element of the one before, as deep as the compounds of the Rust    *)
(* value (paths and current of Serializer in src/serde/ser.rs).            *)
THEOREM OpenContainersAreAPath == Spec => []SpineIsAPath
<1>1. SerInv => SpineIsAPath
  <2> SUFFICES ASSUME SerInv, Running, frames # <<>>
               PROVE  /\ Len(ser.paths) = Len(frames) + Cardinality({i \in DOMAIN frames : frames[i].kind \in TwoDeep})
                      /\ Spine(ser)[1] = ser.root /\ Spine(ser)[2] = ser.root
                      /\ \A i \in 2..Len(Spine(ser)) - 1 : HoldsIn(ser.heap, Spine(ser)[i], Spine(ser)[i + 1])
    BY DEF SpineIsAPath, Spine, HoldsIn, LastIs
  <2>1. Building(ser, frames)
    BY DEF SerInv, AtWork
  <2>2. SpineFits(ser) /\ ser.paths # <<>> /\ Len(ser.paths) \in Nat /\ Len(frames) \in Nat /\ frames \in Seq(Frames)
    <3>1. SpineFits(ser)
      BY <2>1 DEF Building
    <3>2. ser.paths # <<>> /\ Len(ser.paths) \in Nat /\ Len(frames) \in Nat /\ frames \in Seq(Frames)
      BY <2>1, BuildingParts
    <3> QED BY <3>1, <3>2
  <2>3. /\ Len(ser.paths) + 1 = Len(frames) + 1 + Cardinality(TwoDeeps(frames, Len(frames)))
        /\ Cardinality(TwoDeeps(frames, Len(frames))) \in Nat
    BY <2>1, <2>2, DepthIsNat DEF Building, Depth
  <2>4. TwoDeeps(frames, Len(frames)) = {i \in DOMAIN frames : frames[i].kind \in TwoDeep}
    BY <2>2 DEF TwoDeeps
  <2>5. Len(ser.paths) = Len(frames) + Cardinality(TwoDeeps(frames, Len(frames)))
    BY <2>2, <2>3
  <2> QED BY <2>2, <2>4, <2>5 DEF SpineFits
<1> QED BY <1>1, SerializerInvariant, PTL

(* to_js fails only for a key that is not a string, or has a NUL in it: a  *)
(* value always finds its place (set_node_value in src/serde/ser.rs).      *)
THEOREM OnlyKeysFail == Spec => []FailsOnlyForKeys
<1>1. SerInv => FailsOnlyForKeys
  BY DEF SerInv, FailsOnlyForKeys, KeyToBlame, LastToken, NulNamed
<1> QED BY <1>1, SerializerInvariant, PTL

-----------------------------------------------------------------------------
(* Proxies, and what can be read out of a container.                       *)

(* A proxy is older than nothing it leads to: age says how old.            *)
Next1(h, n) == h[n].entries[1].value.data
IsAge(h, age) ==
  /\ age \in [DOMAIN h -> 1..Len(h)]
  /\ \A n \in DOMAIN h : h[n].kind = "proxy" =>
       h[n].entries # <<>> /\ IsNode(h[n].entries[1].value) /\ age[Next1(h, n)] < age[n]
WellProxied(h) == HeapFits(h) /\ \E age : IsAge(h, age)

(* The containers that are no proxies, as values.                          *)
Plain(h) == {n \in DOMAIN h : h[n].kind \in {"array", "object"}}
PlainRefs(h) == {Ref(n) : n \in Plain(h)}

LEMMA NextFits ==
  ASSUME NEW h, HeapFits(h), NEW age, IsAge(h, age), NEW n \in DOMAIN h, h[n].kind = "proxy"
  PROVE  Next1(h, n) \in DOMAIN h /\ age[n] \in Nat /\ age[Next1(h, n)] \in Nat /\ age[Next1(h, n)] < age[n]
<1>1. /\ DOMAIN h = 1..Len(h) /\ Len(h) \in Nat /\ NodeFits(h[n], Len(h)) /\ h[n].entries \in Seq(Entries(JSValue))
  BY HeapParts
<1>2. h[n].entries # <<>> /\ IsNode(h[n].entries[1].value) /\ age[Next1(h, n)] < age[n]
  BY DEF IsAge
<1>3. 1 \in DOMAIN h[n].entries
  <2> DEFINE es == h[n].entries
  <2>1. es \in Seq(Entries(JSValue)) /\ es # <<>>
    BY <1>1, <1>2
  <2> HIDE DEF es
  <2>2. 1 \in DOMAIN es
    BY <2>1
  <2> QED BY <2>2 DEF es
<1>4. ValueFits(h[n].entries[1].value, Len(h))
  BY <1>1, <1>3 DEF NodeFits
<1>5. Next1(h, n) \in DOMAIN h
  BY <1>1, <1>2, <1>4 DEF ValueFits, IsNode, Next1
<1>6. age[n] \in 1..Len(h) /\ age[Next1(h, n)] \in 1..Len(h)
  BY <1>5 DEF IsAge
<1> QED BY <1>1, <1>2, <1>5, <1>6

(* What a chain of proxies leads to, as an equation.                       *)
Led(h, f, n) == f[n] = IF h[n].kind = "proxy" THEN f[Next1(h, n)] ELSE Ref(n)

LEMMA LedExists ==
  ASSUME NEW h, HeapFits(h), NEW age, IsAge(h, age)
  PROVE  \E f \in [DOMAIN h -> JSValue] : \A n \in DOMAIN h : Led(h, f, n)
<1> DEFINE N == Len(h)
           V == JSValue
           S == {k \in 0..N + 1 : \E f \in [DOMAIN h -> V] : \A n \in DOMAIN h : age[n] < k => Led(h, f, n)}
<1>1. N \in Nat /\ DOMAIN h = 1..N
  BY HeapParts
<1>2. \A n \in DOMAIN h : Ref(n) \in V
  <2> TAKE n \in DOMAIN h
  <2>1. n \in Nat
    BY <1>1
  <2> QED BY <2>1, NoRef
<1> HIDE DEF N, V
<1>3. \A n \in DOMAIN h : age[n] \in 1..N
  BY DEF IsAge, N
<1>4. 0 \in S
  <2> DEFINE f == [n \in DOMAIN h |-> Ref(n)]
  <2>1. f \in [DOMAIN h -> V]
    BY <1>2
  <2>2. \A n \in DOMAIN h : ~(age[n] < 0)
    BY <1>1, <1>3
  <2> HIDE DEF f
  <2> QED BY <1>1, <2>1, <2>2
<1>5. ASSUME NEW k \in 1..N + 1, k - 1 \in S
      PROVE  k \in S
  <2>1. PICK f \in [DOMAIN h -> V] : \A n \in DOMAIN h : age[n] < k - 1 => Led(h, f, n)
    BY <1>5
  <2> DEFINE At(n) == IF h[n].kind = "proxy" THEN f[Next1(h, n)] ELSE Ref(n)
             g == [n \in DOMAIN h |-> IF age[n] = k - 1 THEN At(n) ELSE f[n]]
  <2>2. \A n \in DOMAIN h : At(n) \in V
    BY <1>2, <2>1, NextFits
  <2>3. g \in [DOMAIN h -> V]
    BY <2>1, <2>2
  <2>4. \A n \in DOMAIN h : age[n] # k - 1 => g[n] = f[n]
    OBVIOUS
  <2>5. \A n \in DOMAIN h : age[n] = k - 1 => g[n] = At(n)
    OBVIOUS
  <2> HIDE DEF g
  <2>6. ASSUME NEW n \in DOMAIN h, age[n] < k
        PROVE  Led(h, g, n)
    <3>1. age[n] < k - 1 \/ age[n] = k - 1
      BY <1>1, <1>3, <2>6
    <3>2. CASE h[n].kind = "proxy"
      <4>1. Next1(h, n) \in DOMAIN h /\ age[Next1(h, n)] # k - 1
        BY <1>1, <1>3, <3>1, <3>2, NextFits
      <4>2. g[Next1(h, n)] = f[Next1(h, n)]
        BY <2>4, <4>1
      <4>3. g[n] = f[Next1(h, n)]
        BY <1>1, <1>3, <2>1, <2>4, <2>5, <3>1, <3>2 DEF Led
      <4> QED BY <3>2, <4>2, <4>3 DEF Led
    <3>3. CASE h[n].kind # "proxy"
      BY <1>1, <1>3, <2>1, <2>4, <2>5, <3>1, <3>3 DEF Led
    <3> QED BY <3>2, <3>3
  <2> QED BY <1>1, <2>3, <2>6
<1>6. N + 1 \in S
  <2> HIDE DEF S
  <2>1. N + 1 \in Nat /\ Closed(S, N + 1)
    BY <1>1, <1>5 DEF Closed
  <2> QED BY <1>4, <2>1, Reached
<1>7. PICK f \in [DOMAIN h -> V] : \A n \in DOMAIN h : age[n] < N + 1 => Led(h, f, n)
  BY <1>6
<1>8. \A n \in DOMAIN h : age[n] < N + 1
  BY <1>1, <1>3
<1> QED BY <1>7, <1>8 DEF V

(* It leads to a container that is no proxy.                               *)
LEMMA LedToPlain ==
  ASSUME NEW h, HeapFits(h), NEW age, IsAge(h, age), NEW f, \A n \in DOMAIN h : Led(h, f, n)
  PROVE  \A n \in DOMAIN h : f[n] \in PlainRefs(h)
<1> DEFINE N == Len(h)
           S == {k \in 0..N + 1 : \A n \in DOMAIN h : age[n] < k => f[n] \in PlainRefs(h)}
<1>1. N \in Nat /\ DOMAIN h = 1..N /\ \A n \in DOMAIN h : h[n].kind \in {"object", "array", "proxy"}
  BY HeapParts
<1> HIDE DEF N
<1>2. \A n \in DOMAIN h : age[n] \in 1..N
  BY DEF IsAge, N
<1>3. 0 \in S
  BY <1>1, <1>2
<1>4. ASSUME NEW k \in 1..N + 1, k - 1 \in S
      PROVE  k \in S
  <2>1. ASSUME NEW n \in DOMAIN h, age[n] < k
        PROVE  f[n] \in PlainRefs(h)
    <3>1. CASE h[n].kind = "proxy"
      <4>1. Next1(h, n) \in DOMAIN h /\ age[Next1(h, n)] < k - 1
        BY <1>1, <1>2, <2>1, <3>1, NextFits
      <4> QED BY <1>4, <3>1, <4>1 DEF Led
    <3>2. CASE h[n].kind # "proxy"
      BY <1>1, <3>2 DEF Led, PlainRefs, Plain
    <3> QED BY <3>1, <3>2
  <2> QED BY <1>1, <2>1
<1>5. N + 1 \in S
  <2> HIDE DEF S
  <2>1. N + 1 \in Nat /\ Closed(S, N + 1)
    BY <1>1, <1>4 DEF Closed
  <2> QED BY <1>3, <2>1, Reached
<1> QED BY <1>1, <1>2, <1>5

(* get_proxy_target ends, at a value that is no proxy.                     *)
LEMMA TargetIs ==
  ASSUME NEW h, WellProxied(h), NEW v, ValueFits(v, Len(h))
  PROVE  /\ ~IsNode(v) => ProxyTarget(h, v) = v
         /\ IsNode(v) => ProxyTarget(h, v) \in PlainRefs(h)
<1>1. PICK age : IsAge(h, age)
  BY DEF WellProxied
<1>2. HeapFits(h)
  BY DEF WellProxied
<1> DEFINE target[n \in DOMAIN h] ==
             IF h[n].kind = "proxy" THEN target[h[n].entries[1].value.data] ELSE Ref(n)
<1>3. ProxyTarget(h, v) = IF is_proxy(h, v) THEN target[v.data] ELSE v
  BY DEF ProxyTarget
<1>4. PICK f \in [DOMAIN h -> JSValue] : \A n \in DOMAIN h : Led(h, f, n)
  BY <1>1, <1>2, LedExists
<1>5. f = [n \in DOMAIN h |-> IF h[n].kind = "proxy" THEN f[h[n].entries[1].value.data] ELSE Ref(n)]
  BY <1>4 DEF Led, Next1
<1>6. target = [n \in DOMAIN h |-> IF h[n].kind = "proxy" THEN target[h[n].entries[1].value.data] ELSE Ref(n)]
  BY <1>5
<1> HIDE DEF target
<1>7. \A n \in DOMAIN h : Led(h, target, n)
  BY <1>6 DEF Led, Next1
<1>8. \A n \in DOMAIN h : target[n] \in PlainRefs(h)
  BY <1>1, <1>2, <1>7, LedToPlain
<1>9. CASE ~IsNode(v)
  BY <1>3, <1>9 DEF is_proxy
<1>10. CASE IsNode(v)
  <2>1. v.data \in DOMAIN h /\ v = Ref(v.data) /\ h[v.data].kind \in {"object", "array", "proxy"}
    <3>1. v.data \in DOMAIN h /\ DOMAIN h = 1..Len(h)
      BY <1>2, <1>10, HeapParts DEF ValueFits, IsNode
    <3>2. v = Ref(v.data)
      BY <1>10 DEF ValueFits, JSValue, Ref, Value, IsNode
    <3> QED BY <1>2, <3>1, <3>2, HeapParts
  <2>2. CASE h[v.data].kind = "proxy"
    BY <1>3, <1>8, <1>10, <2>1, <2>2 DEF is_proxy
  <2>3. CASE h[v.data].kind # "proxy"
    BY <1>3, <1>10, <2>1, <2>3 DEF is_proxy, PlainRefs, Plain
  <2> QED BY <2>2, <2>3
<1> QED BY <1>9, <1>10

(* ProxyTarget(h, v), where v is a container.                              *)
LEMMA TargetOfNode ==
  ASSUME NEW h, WellProxied(h), NEW v, ValueFits(v, Len(h)), IsNode(v)
  PROVE  /\ ProxyTarget(h, v).data \in Plain(h) /\ ProxyTarget(h, v) = Ref(ProxyTarget(h, v).data)
         /\ IsNode(ProxyTarget(h, v))
<1>1. PICK m \in Plain(h) : ProxyTarget(h, v) = Ref(m)
  BY TargetIs DEF PlainRefs
<1> QED BY <1>1 DEF Ref, Value, IsNode

-----------------------------------------------------------------------------
(* What can be read of a container, and from there, in a heap h.           *)

(* Element j of an array is read if none before is undefined.              *)
Seen(h, n, j) ==
  /\ j \in DOMAIN h[n].entries /\ IsNode(h[n].entries[j].value)
  /\ h[n].kind = "array" => \A k \in 1..j : h[n].entries[k].value # Undefined
EntryTarget(h, n, j) == ProxyTarget(h, h[n].entries[j].value).data
ReadableIn(h, n) == {EntryTarget(h, n, j) : j \in {i \in DOMAIN h[n].entries : Seen(h, n, i)}}
UnionIn(h, T) == UNION {ReadableIn(h, n) : n \in T}

LEMMA ReadableIs == \A n : Readable(n) = ReadableIn(heap, n)
<1> TAKE n
<1> DEFINE es == heap[n].entries
           Open1(j) == IsNode(es[j].value) /\ (heap[n].kind = "array" => \A k \in 1..j : es[k].value # Undefined)
<1>1. \A j \in DOMAIN es : Seen(heap, n, j) <=> Open1(j)
  BY DEF Seen
<1>2. ReadableIn(heap, n) = {ProxyTarget(heap, es[j].value).data : j \in {i \in DOMAIN es : Open1(i)}}
  <2> HIDE DEF Open1
  <2>1. {i \in DOMAIN es : Seen(heap, n, i)} = {i \in DOMAIN es : Open1(i)}
    BY <1>1
  <2> QED BY <2>1 DEF ReadableIn, EntryTarget
<1> QED BY <1>2 DEF Readable

LEMMA ReadableFits ==
  ASSUME NEW h, WellProxied(h), NEW n \in DOMAIN h
  PROVE  ReadableIn(h, n) \subseteq Plain(h)
<1> SUFFICES ASSUME NEW j, Seen(h, n, j)
             PROVE  EntryTarget(h, n, j) \in Plain(h)
  BY DEF ReadableIn
<1>1. HeapFits(h) /\ NodeFits(h[n], Len(h))
  BY HeapParts DEF WellProxied
<1>2. ValueFits(h[n].entries[j].value, Len(h)) /\ IsNode(h[n].entries[j].value)
  BY <1>1 DEF NodeFits, Seen
<1> QED BY <1>2, TargetOfNode DEF EntryTarget

(* R is what can be reached from S in up to k steps, for every k.          *)
Reaches(h, S, R) ==
  /\ R \in [0..Len(h) -> SUBSET DOMAIN h] /\ R[0] = S
  /\ \A k \in 1..Len(h) : R[k] = R[k - 1] \cup UnionIn(h, R[k - 1])

LEMMA ReachIs ==
  ASSUME WellProxied(heap), NEW S, S \subseteq DOMAIN heap
  PROVE  \E R : Reaches(heap, S, R) /\ Reach(S) = R[Len(heap)]
<1> DEFINE N == Len(heap)
           X == SUBSET DOMAIN heap
           G == [x \in X \X (1..N) |-> x[1] \cup UnionIn(heap, x[1])]
           R[k \in 0..N] == IF k = 0 THEN S ELSE R[k - 1] \cup UNION {Readable(n) : n \in R[k - 1]}
<1>1. N \in Nat
  BY HeapParts DEF WellProxied
<1>2. \A T \in X : UnionIn(heap, T) \in X
  BY ReadableFits DEF UnionIn, Plain
<1>3. \A T : UNION {Readable(n) : n \in T} = UnionIn(heap, T)
  BY ReadableIs DEF UnionIn
<1> HIDE DEF N, X
<1>4. S \in X
  BY DEF X
<1>5. IsStep(G, X, N)
  BY <1>2 DEF IsStep, X
<1>6. PICK f : Repeats(f, X, S, N, G)
  <2> HIDE DEF G
  <2> QED BY <1>1, <1>4, <1>5, Recursion
<1>7. \A k \in 1..N : f[k - 1] \in X /\ f[k] = f[k - 1] \cup UnionIn(heap, f[k - 1])
  <2> TAKE k \in 1..N
  <2>1. f[k - 1] \in X
    <3>1. k - 1 \in 0..N
      BY <1>1
    <3> QED BY <1>6, <3>1 DEF Repeats
  <2> QED BY <1>6, <2>1 DEF Repeats
<1>8. f = [k \in 0..N |-> IF k = 0 THEN S ELSE f[k - 1] \cup UNION {Readable(n) : n \in f[k - 1]}]
  BY <1>1, <1>3, <1>6, <1>7 DEF Repeats
<1>9. R = [k \in 0..N |-> IF k = 0 THEN S ELSE R[k - 1] \cup UNION {Readable(n) : n \in R[k - 1]}]
  BY <1>8
<1>10. Reach(S) = R[N]
  BY DEF Reach, N, R
<1> HIDE DEF R
<1>11. R[0] = S /\ \A k \in 1..N : R[k] = R[k - 1] \cup UnionIn(heap, R[k - 1])
  BY <1>1, <1>3, <1>9
<1>12. 0..N \subseteq {k \in 0..N : R[k] \in X}
  <2> DEFINE T == {k \in 0..N : R[k] \in X}
  <2>1. 0 \in T
    BY <1>1, <1>4, <1>11
  <2>2. ASSUME NEW k \in 1..N, k - 1 \in T
        PROVE  k \in T
    <3>1. R[k - 1] \in X
      BY <2>2
    <3>2. R[k] \in X
      BY <1>2, <1>11, <3>1 DEF X
    <3> QED BY <3>2
  <2> HIDE DEF T
  <2> QED BY <1>1, <2>1, <2>2, Induction DEF T
<1>13. R \in [0..N -> X]
  BY <1>9, <1>12
<1> QED BY <1>10, <1>11, <1>13 DEF Reaches, N, X

(* What is reached stays in a set that is closed under reading.            *)
LEMMA ReachStays ==
  ASSUME NEW h, WellProxied(h), NEW S, NEW R, Reaches(h, S, R), NEW F, S \subseteq F,
         \A n \in F \cap DOMAIN h : ReadableIn(h, n) \subseteq F
  PROVE  R[Len(h)] \subseteq F
<1> DEFINE T == {k \in 0..Len(h) : R[k] \subseteq F}
<1>1. Len(h) \in Nat
  BY HeapParts DEF WellProxied
<1>2. 0 \in T
  BY <1>1 DEF Reaches
<1>3. ASSUME NEW k \in 1..Len(h), k - 1 \in T
      PROVE  k \in T
  <2>1. R[k - 1] \subseteq F /\ R[k - 1] \subseteq DOMAIN h
    <3>1. k - 1 \in 0..Len(h)
      BY <1>1
    <3> QED BY <1>3, <3>1 DEF Reaches
  <2>2. UnionIn(h, R[k - 1]) \subseteq F
    BY <2>1 DEF UnionIn
  <2> QED BY <2>1, <2>2 DEF Reaches
<1>4. Len(h) \in T
  <2> HIDE DEF T
  <2>1. Closed(T, Len(h))
    BY <1>3 DEF Closed
  <2> QED BY <1>1, <1>2, <2>1, Reached
<1> QED BY <1>4

(* What is reached in k steps is reached.                                  *)
LEMMA ReachGrows ==
  ASSUME NEW h, WellProxied(h), NEW S, NEW R, Reaches(h, S, R), NEW k \in 0..Len(h)
  PROVE  R[k] \subseteq R[Len(h)]
<1> DEFINE N == Len(h)
           T == {j \in 0..N - k : R[k] \subseteq R[k + j]}
<1>1. N \in Nat /\ k \in Nat /\ k <= N /\ N - k \in Nat
  BY HeapParts DEF WellProxied
<1> HIDE DEF N
<1>2. 0 \in T
  BY <1>1
<1>3. ASSUME NEW j \in 1..N - k, j - 1 \in T
      PROVE  j \in T
  <2>1. R[k] \subseteq R[k + (j - 1)]
    BY <1>3
  <2>2. k + j \in 1..N /\ (k + j) - 1 = k + (j - 1)
    BY <1>1
  <2>3. R[k + j] = R[(k + j) - 1] \cup UnionIn(h, R[(k + j) - 1])
    BY <2>2 DEF Reaches, N
  <2> QED BY <2>1, <2>2, <2>3
<1>4. N - k \in T
  <2> HIDE DEF T
  <2>1. Closed(T, N - k)
    BY <1>3 DEF Closed
  <2> QED BY <1>1, <1>2, <2>1, Reached
<1>5. k + (N - k) = N
  BY <1>1
<1> QED BY <1>4, <1>5 DEF N

-----------------------------------------------------------------------------
(* Cycles.                                                                 *)

(* What from_js starts with, when it is a container.                       *)
Start == IF IsNode(ser.root) THEN {ProxyTarget(heap, ser.root).data} ELSE {}
Cyclic == \E n \in Reach(Start) : n \in Reach(Readable(n))

(* Of a walk of N containers, at most N differ.                            *)
LEMMA WalkShort ==
  ASSUME NEW N \in Nat, NEW L \in Nat, NEW q \in [1..L -> 1..N],
         \A i, j \in 1..L : q[i] = q[j] => i = j
  PROVE  L <= N
<1>1. /\ IsFiniteSet(1..L) /\ Cardinality(1..L) = L
      /\ IsFiniteSet(1..N) /\ Cardinality(1..N) = N
  BY FS_Interval
<1> DEFINE S == 1..L
           T == 1..N
<1>2. q \in [S -> T]
  OBVIOUS
<1>3. ASSUME N < L
      PROVE  FALSE
  <2>1. IsFiniteSet(S) /\ IsFiniteSet(T) /\ Cardinality(T) < Cardinality(S)
    BY <1>1, <1>3
  <2>2. \A i, j \in S : q[i] = q[j] => i = j
    OBVIOUS
  <2> HIDE DEF S, T
  <2> QED BY <1>2, <2>1, <2>2, FS_PigeonHole
<1> QED BY <1>3

(* A walk stays in what is reached from its first container.               *)
LEMMA WalkReached ==
  ASSUME NEW h, WellProxied(h), NEW S, NEW R, Reaches(h, S, R),
         NEW L \in Nat, L <= Len(h), NEW q, \A i \in 1..L : q[i] \in DOMAIN h,
         L >= 1 => q[1] \in S, \A i \in 1..L : i < L => q[i + 1] \in ReadableIn(h, q[i])
  PROVE  \A i \in 1..L : q[i] \in R[Len(h)]
<1> DEFINE T == {k \in 0..L : k >= 1 => q[k] \in R[k - 1]}
<1>1. Len(h) \in Nat
  BY HeapParts DEF WellProxied
<1>2. 0 \in T
  OBVIOUS
<1>3. ASSUME NEW k \in 1..L, k - 1 \in T
      PROVE  k \in T
  <2>1. CASE k = 1
    BY <2>1 DEF Reaches
  <2>2. CASE k # 1
    <3>1. k - 1 \in 1..Len(h) /\ k - 1 \in 1..L /\ k - 1 < L /\ (k - 1) + 1 = k
      BY <1>1, <2>2
    <3>2. q[k - 1] \in R[(k - 1) - 1] /\ q[k] \in ReadableIn(h, q[k - 1])
      BY <1>3, <3>1
    <3>3. R[k - 1] = R[(k - 1) - 1] \cup UnionIn(h, R[(k - 1) - 1])
      BY <3>1 DEF Reaches
    <3> QED BY <3>2, <3>3 DEF UnionIn
  <2> QED BY <2>1, <2>2
<1>4. 0..L \subseteq T
  <2> HIDE DEF T
  <2> QED BY <1>2, <1>3, Induction
<1> TAKE i \in 1..L
<1>5. i \in T /\ i - 1 \in 0..Len(h)
  BY <1>1, <1>4
<1> QED BY <1>5, ReachGrows

(* A walk from the start whose last container leads back to it closes a    *)
(* cycle.                                                                  *)
LEMMA WalkCloses ==
  ASSUME WellProxied(heap), Start \subseteq DOMAIN heap, NEW L \in Nat, NEW q \in [1..L -> DOMAIN heap],
         \A i, j \in 1..L : q[i] = q[j] => i = j,
         L >= 1 => q[1] \in Start, \A i \in 1..L : i < L => q[i + 1] \in ReadableIn(heap, q[i]),
         NEW b \in 1..L, q[b] \in ReadableIn(heap, q[L])
  PROVE  Cyclic
<1> DEFINE N == Len(heap)
<1>1. N \in Nat /\ DOMAIN heap = 1..N
  BY HeapParts DEF WellProxied
<1>2. L <= N
  BY <1>1, WalkShort
<1>3. q[b] \in Reach(Start)
  <2>1. PICK R : Reaches(heap, Start, R) /\ Reach(Start) = R[Len(heap)]
    BY ReachIs
  <2>2. \A i \in 1..L : q[i] \in DOMAIN heap
    OBVIOUS
  <2>3. \A i \in 1..L : q[i] \in R[Len(heap)]
    BY <1>2, <2>1, <2>2, WalkReached
  <2> QED BY <2>1, <2>3
<1>4. q[b] \in Reach(Readable(q[b]))
  <2> DEFINE S == ReadableIn(heap, q[b])
             M == L - b + 1
             r == [j \in 1..M |-> IF j = M THEN q[b] ELSE q[b + j]]
  <2>1. S \subseteq DOMAIN heap /\ S = Readable(q[b])
    BY ReadableFits, ReadableIs DEF Plain
  <2>2. PICK R : Reaches(heap, S, R) /\ Reach(S) = R[Len(heap)]
    <3> HIDE DEF S
    <3> QED BY <2>1, ReachIs
  <2>3. M \in Nat /\ M >= 1 /\ M <= N
    BY <1>1, <1>2
  <2>4. \A i \in 1..M : r[i] \in DOMAIN heap
    OBVIOUS
  <2>5. r[1] \in S
    <3>1. CASE b = L
      BY <3>1
    <3>2. CASE b # L
      <4>1. b < L /\ 1 \in 1..M /\ 1 # M
        BY <3>2
      <4> QED BY <4>1
    <3> QED BY <3>1, <3>2
  <2>6. ASSUME NEW i \in 1..M, i < M
        PROVE  r[i + 1] \in ReadableIn(heap, r[i])
    <3>1. r[i] = q[b + i] /\ b + i \in 1..L
      BY <2>6
    <3>2. CASE i + 1 = M
      <4>1. r[i + 1] = q[b] /\ b + i = L
        BY <2>3, <3>2
      <4> QED BY <3>1, <4>1
    <3>3. CASE i + 1 # M
      <4>1. r[i + 1] = q[(b + i) + 1] /\ b + i < L
        BY <2>3, <2>6, <3>3
      <4> QED BY <3>1, <4>1
    <3> QED BY <3>2, <3>3
  <2>7. r[M] = q[b] /\ M \in 1..M
    BY <2>3
  <2> HIDE DEF r, S, M
  <2>8. r[M] \in R[Len(heap)]
    BY <2>2, <2>3, <2>4, <2>5, <2>6, <2>7, WalkReached DEF N
  <2> QED BY <2>1, <2>2, <2>7, <2>8
<1> QED BY <1>3, <1>4 DEF Cyclic

(* The containers of F can be laid out so that each leads to earlier ones. *)
Ranked(h, F, rank) ==
  /\ rank \in [DOMAIN h -> Nat] /\ F \subseteq DOMAIN h
  /\ \A n \in F : \A m \in ReadableIn(h, n) : m \in F /\ rank[m] < rank[n]

LEMMA RankedIsAcyclic ==
  ASSUME WellProxied(heap), NEW F, NEW rank, Ranked(heap, F, rank), Start \subseteq F
  PROVE  ~Cyclic
<1> SUFFICES ASSUME NEW n \in Reach(Start), n \in Reach(Readable(n))
             PROVE  FALSE
  BY DEF Cyclic
<1>1. n \in F
  <2>1. Start \subseteq DOMAIN heap
    BY DEF Ranked
  <2>2. PICK R : Reaches(heap, Start, R) /\ Reach(Start) = R[Len(heap)]
    BY <2>1, ReachIs
  <2>3. \A m \in F \cap DOMAIN heap : ReadableIn(heap, m) \subseteq F
    BY DEF Ranked
  <2> QED BY <2>2, <2>3, ReachStays
<1> DEFINE S == ReadableIn(heap, n)
           E == {m \in F : rank[m] < rank[n]}
<1>2. S = Readable(n) /\ S \subseteq E /\ S \subseteq DOMAIN heap
  BY <1>1, ReadableIs DEF Ranked
<1>3. \A m \in E \cap DOMAIN heap : ReadableIn(heap, m) \subseteq E
  <2> SUFFICES ASSUME NEW m \in F, rank[m] < rank[n], NEW k \in ReadableIn(heap, m)
               PROVE  k \in F /\ rank[k] < rank[n]
    OBVIOUS
  <2>1. k \in F /\ rank[k] < rank[m]
    BY DEF Ranked
  <2>2. rank[k] \in Nat /\ rank[m] \in Nat /\ rank[n] \in Nat
    BY <1>1, <2>1 DEF Ranked
  <2> QED BY <2>1, <2>2
<1>4. Reach(S) \subseteq E
  <2> HIDE DEF S, E
  <2>1. PICK R : Reaches(heap, S, R) /\ Reach(S) = R[Len(heap)]
    BY <1>2, ReachIs
  <2> QED BY <1>2, <1>3, <2>1, ReachStays
<1>5. rank[n] \in Nat
  BY <1>1 DEF Ranked
<1> QED BY <1>2, <1>4, <1>5

-----------------------------------------------------------------------------
(* to_js makes a tree.                                                     *)

(* What to_js makes is a tree: a container leads to later ones only.       *)

Rises(h, n) ==
  /\ h[n].kind # "proxy"
  /\ \A i \in DOMAIN h[n].entries : IsNode(h[n].entries[i].value) => n < h[n].entries[i].value.data
Ascending(h) == \A n \in DOMAIN h : Rises(h, n)

LEMMA ShapeAscends ==
  ASSUME NEW h, NEW g, SameShape(g, h), Ascending(h)
  PROVE  Ascending(g)
BY DEF SameShape, Ascending, Rises

LEMMA RefsAscend ==
  ASSUME NEW h, HeapFits(h), Ascending(h), NEW v, ValueFits(v, Len(h)), NEW d \in Int
  PROVE  HeapFits(AddRefs(h, v, d)) /\ Len(AddRefs(h, v, d)) = Len(h) /\ Ascending(AddRefs(h, v, d))
<1> DEFINE g == AddRefs(h, v, d)
<1>1. HeapFits(g) /\ SameShape(g, h)
  BY RefsMoved
<1> HIDE DEF g
<1>2. HeapFits(g) /\ Len(g) = Len(h) /\ Ascending(g)
  BY <1>1, ShapeAscends DEF SameShape
<1> QED BY <1>2 DEF g

(* One entry more, of a later container.                                   *)
LEMMA EntryAscends ==
  ASSUME NEW h, HeapFits(h), Ascending(h), NEW m \in DOMAIN h, NEW v, NEW key,
         IsNode(v) => m < v.data, NEW g, g = [h EXCEPT ![m].entries = Append(@, Entry(key, v))]
  PROVE  Ascending(g)
<1> DEFINE x == h[m]
           e == Entry(key, v)
           y == [x EXCEPT !.entries = Append(@, e)]
<1>1. x \in Nodes(JSValue) /\ h \in Seq(Nodes(JSValue))
  BY HeapParts DEF HeapFits
<1>2. DOMAIN g = DOMAIN h /\ g[m] = y /\ \A n \in DOMAIN h \ {m} : g[n] = h[n]
  BY <1>1
<1>3. y.kind = x.kind /\ y.entries = Append(x.entries, e)
  BY <1>1 DEF Nodes
<1>4. x.entries \in Seq(Entries(JSValue)) /\ e.value = v
  BY <1>1 DEF Nodes, Entry
<1> HIDE DEF e, y, x
<1>5. \A i \in DOMAIN y.entries : y.entries[i].value = v \/ (i \in DOMAIN x.entries /\ y.entries[i] = x.entries[i])
  <2> DEFINE es == x.entries
  <2>1. es \in Seq(Entries(JSValue)) /\ y.entries = Append(es, e)
    BY <1>3, <1>4
  <2>2. \A i \in DOMAIN Append(es, e) : Append(es, e)[i] = e \/ (i \in DOMAIN es /\ Append(es, e)[i] = es[i])
    <3> HIDE DEF es
    <3> QED BY <2>1
  <2> QED BY <1>4, <2>1, <2>2
<1>6. \A n \in DOMAIN g : Rises(g, n)
  <2> TAKE n \in DOMAIN g
  <2>1. CASE n = m
    <3>1. Rises(h, m)
      BY DEF Ascending
    <3>2. x.kind # "proxy" /\ \A i \in DOMAIN x.entries : IsNode(x.entries[i].value) => m < x.entries[i].value.data
      BY <3>1 DEF Rises, x
    <3> QED BY <1>2, <1>3, <1>5, <2>1, <3>2 DEF Rises
  <2>2. CASE n # m
    <3>1. g[n] = h[n] /\ Rises(h, n)
      BY <1>2, <2>2 DEF Ascending
    <3> QED BY <3>1 DEF Rises
  <2> QED BY <2>1, <2>2
<1> QED BY <1>6 DEF Ascending

LEMMA ProtoAscends ==
  ASSUME NEW h, HeapFits(h), Ascending(h), NEW m \in DOMAIN h, NEW p, NEW g, g = [h EXCEPT ![m].proto = p]
  PROVE  Ascending(g)
<1> DEFINE x == h[m]
           y == [x EXCEPT !.proto = p]
<1>1. x \in Nodes(JSValue) /\ h \in Seq(Nodes(JSValue))
  BY HeapParts DEF HeapFits
<1>2. DOMAIN g = DOMAIN h /\ g[m] = y /\ \A n \in DOMAIN h \ {m} : g[n] = h[n]
  BY <1>1
<1>3. y.kind = x.kind /\ y.entries = x.entries
  BY <1>1 DEF Nodes
<1> HIDE DEF y
<1>4. \A n \in DOMAIN h : g[n].kind = h[n].kind /\ g[n].entries = h[n].entries
  BY <1>2, <1>3
<1> QED BY <1>2, <1>4 DEF Ascending, Rises

(* A new container leads nowhere.                                          *)
LEMMA GrownAscends ==
  ASSUME NEW h, Ascending(h), NEW kind \in {"array", "object"}, NEW g, Grown(g, h, kind)
  PROVE  Ascending(g)
<1> DEFINE k == Len(h) + 1
<1>1. /\ DOMAIN g = DOMAIN h \cup {k} /\ \A n \in DOMAIN h : g[n] = h[n]
      /\ g[k].kind = kind /\ g[k].entries = <<>>
  BY DEF Grown
<1> HIDE DEF k
<1>2. Rises(g, k)
  BY <1>1 DEF Rises
<1>3. \A n \in DOMAIN h : Rises(g, n)
  BY <1>1 DEF Ascending, Rises
<1> QED BY <1>1, <1>2, <1>3 DEF Ascending

LEMMA UndefinedIsNoNode == ~IsNode(Undefined) /\ Undefined \in JSValue
BY DEF IsNode, Undefined, Value, JSValue, Tags

(* A value later than the container it goes to.                            *)
Later(s, v) == IsNode(v) /\ s.current # None /\ IsNode(s.current) => s.current.data < v.data

LEMMA SetAscends ==
  ASSUME NEW s, SerFits(s), Ascending(s.heap), NEW v, ValueFits(v, Len(s.heap)), Later(s, v),
         NEW t, t = set_node_value(s, v)
  PROVE  Ascending(t.heap)
<1> DEFINE h == s.heap
<1>1. /\ HeapFits(h) /\ DOMAIN h = 1..Len(h) /\ ValueFits(s.root, Len(h)) /\ -1 \in Int /\ 1 \in Int
      /\ s.current # None => ValueFits(s.current, Len(h))
  BY SerParts
<1>2. s \in SerRecords
  BY DEF SerFits
<1>3. Ascending(Free(h, v)) /\ Ascending(Dup(Free(h, s.root), v))
  <2>1. HeapFits(Free(h, s.root)) /\ Len(Free(h, s.root)) = Len(h) /\ Ascending(Free(h, s.root))
    BY <1>1, RefsAscend DEF Free
  <2>2. Ascending(Dup(Free(h, s.root), v))
    BY <1>1, <2>1, RefsAscend DEF Dup
  <2>3. Ascending(Free(h, v))
    BY <1>1, RefsAscend DEF Free
  <2> QED BY <2>2, <2>3
<1>4. Forget(s, v).heap = h /\ Refuse(s, v).heap \in {h, Free(h, v)}
  BY <1>2 DEF Forget, Refuse, Fails, SerRecords
<1>5. CASE s.current = None
  <2>1. t.heap = Dup(Free(h, s.root), v)
    <3> DEFINE g == Dup(Free(h, s.root), v)
    <3>1. t = [s EXCEPT !.heap = g, !.root = v, !.current = v]
      <4>1. IsRoot(s, v, t)
        <5> HIDE DEF g, h
        <5>1. s.current # Undefined
          BY <1>5, UndefinedIsNoNode, NoneIsNoValue
        <5> QED BY <1>5, <5>1 DEF set_node_value, IsRoot
      <4> QED BY <4>1 DEF IsRoot
    <3> HIDE DEF g, h
    <3>2. t.heap = g
      BY <1>2, <3>1 DEF SerRecords
    <3> QED BY <3>2 DEF g
  <2> QED BY <1>3, <2>1
<1>6. CASE s.current # None /\ ~IsNode(s.current)
  <2>1. t \in {Forget(s, v), [s EXCEPT !.current = v]}
    <3> HIDE DEF h
    <3>1. CASE s.current = Undefined
      <4>1. t = [s EXCEPT !.current = v]
        BY <1>6, <3>1 DEF set_node_value, is_array, is_object
      <4> QED BY <4>1
    <3>2. CASE s.current # Undefined
      <4>1. t = Forget(s, v)
        BY <1>6, <3>2 DEF set_node_value, is_array, is_object
      <4> QED BY <4>1
    <3> QED BY <3>1, <3>2
  <2>2. [s EXCEPT !.current = v].heap = h
    BY <1>2 DEF SerRecords
  <2> QED BY <1>3, <1>4, <2>1, <2>2
<1>7. CASE s.current # None /\ IsNode(s.current)
  <2> DEFINE m == s.current.data
  <2>1. m \in DOMAIN h /\ (IsNode(v) => m < v.data)
    BY <1>1, <1>7, NodeNamed DEF Later
  <2>2. CASE h[m].kind = "array"
    <3> DEFINE g == PushElement(h, m, v)
    <3>1. t = [s EXCEPT !.heap = g]
      BY <1>7, <2>2, UndefinedIsNoNode DEF set_node_value, is_array
    <3> HIDE DEF g, h
    <3>2. t.heap = g
      BY <1>2, <3>1 DEF SerRecords
    <3>3. Ascending(g)
      <4>1. g = [h EXCEPT ![m].entries = Append(@, Entry(None, v))]
        BY DEF g, PushElement
      <4>2. HeapFits(h) /\ Ascending(h) /\ m \in DOMAIN h /\ (IsNode(v) => m < v.data)
        BY <1>1, <2>1 DEF h
      <4> HIDE DEF m
      <4> QED BY <4>1, <4>2, EntryAscends
    <3> QED BY <3>2, <3>3
  <2>3. CASE h[m].kind # "array"
    <3>1. t = IF s.current_key = None THEN Refuse(s, v) ELSE SetProperty(s, v)
      BY <1>7, <2>3, UndefinedIsNoNode DEF set_node_value, is_array, is_object
    <3>2. SetProperty(s, v).heap \in {Free(h, v), SetMember(h, m, s.current_key, v)}
      BY <1>2 DEF SetProperty, Fails, SerRecords
    <3>3. Ascending(SetMember(h, m, s.current_key, v))
      <4> DEFINE key == s.current_key
                 g == SetMember(h, m, key, v)
      <4>1. HeapFits(h) /\ Ascending(h) /\ m \in DOMAIN h /\ (IsNode(v) => m < v.data)
        BY <1>1, <2>1
      <4> HIDE DEF h, m, key
      <4>2. CASE key # ProtoKey
        <5>1. g = [h EXCEPT ![m].entries = Append(@, Entry(key, v))]
          BY <4>2 DEF SetMember
        <5> HIDE DEF g
        <5>2. Ascending(g)
          BY <4>1, <5>1, EntryAscends
        <5> QED BY <5>2 DEF g, key
      <4>3. CASE key = ProtoKey
        <5>1. g \in {h, [h EXCEPT ![m].proto = v.data]}
          BY <4>3 DEF SetMember
        <5> HIDE DEF g
        <5>2. Ascending(g)
          BY <4>1, <5>1, ProtoAscends
        <5> QED BY <5>2 DEF g, key
      <4> QED BY <4>2, <4>3
    <3> QED BY <1>3, <1>4, <3>1, <3>2, <3>3
  <2> QED BY <2>2, <2>3
<1> QED BY <1>5, <1>6, <1>7

LEMMA PushAscends ==
  ASSUME NEW s, SerFits(s), CountedWith(s, Undefined), ProtoFree(s), s.current # Undefined, s.status = "running",
         Ascending(s.heap), NEW kind \in {"array", "object"}, NEW t, t = push(s, kind)
  PROVE  Ascending(t.heap)
<1> DEFINE k == Len(s.heap) + 1
           v == Ref(k)
           r == [s EXCEPT !.heap = Append(@, Node(kind))]
           u == set_node_value(r, v)
<1>1. IsMade(s, kind, r) /\ v = Ref(Len(s.heap) + 1)
  BY DEF IsMade
<1>2. t = IF Failed(u) THEN u ELSE [u EXCEPT !.paths = Append(@, u.current), !.current = v, !.heap = Dup(@, v)]
  BY DEF push
<1> HIDE DEF r
<1>3. /\ SerFits(r) /\ CountedWith(r, v) /\ Grown(r.heap, s.heap, kind)
      /\ ValueFits(v, Len(r.heap)) /\ v.data \notin r.leaked /\ IsNode(v) /\ v.data = k
      /\ r.current = s.current /\ r.current_key = s.current_key
  <2> HIDE DEF v
  <2> QED BY <1>1, NodeMadeKeeps
<1>4. k \notin DOMAIN s.heap /\ \A n \in DOMAIN s.heap : r.heap[n] = s.heap[n]
  BY <1>3 DEF Grown
<1>5. DOMAIN s.heap = 1..Len(s.heap) /\ Len(s.heap) \in Nat /\ (s.current # None => ValueFits(s.current, Len(s.heap)))
  BY SerParts
<1>6. Later(r, v)
  <2> HIDE DEF v
  <2> QED BY <1>3, <1>5, NodeNamed DEF Later
<1> HIDE DEF k, v
<1>7. ProtoFree(r) /\ r.current # Undefined
  BY <1>3, <1>4, <1>5, NodeNamed DEF ProtoFree
<1>8. SerFits(u) /\ Len(u.heap) = Len(r.heap)
  BY <1>3, <1>7, SetNodeValueKeeps DEF Keeps
<1>9. Ascending(u.heap)
  BY <1>3, <1>6, GrownAscends, SetAscends
<1> HIDE DEF u
<1>10. Ascending(Dup(u.heap, v))
  BY <1>3, <1>8, <1>9, RefsAscend DEF Dup, SerFits
<1>11. u \in SerRecords
  BY <1>8 DEF SerFits
<1>12. t.heap \in {u.heap, Dup(u.heap, v)}
  BY <1>2, <1>11 DEF SerRecords
<1> QED BY <1>9, <1>10, <1>12

LEMMA PopAscends ==
  ASSUME NEW s, SerFits(s), s.current # None, s.paths # <<>>, CountedWith(s, Undefined), Ascending(s.heap),
         NEW t, t = pop(s)
  PROVE  /\ Ascending(t.heap) /\ SerFits(t) /\ CountedWith(t, Undefined) /\ t.paths = Front(s.paths)
         /\ t.current # None
<1>1. /\ SameShape(t.heap, s.heap) /\ SerFits(t) /\ CountedWith(t, Undefined)
      /\ t.paths = Front(s.paths) /\ t.current = s.paths[Len(s.paths)]
  BY PopKeeps
<1>2. t.current \in JSValue
  BY <1>1, SerParts
<1> QED BY <1>1, <1>2, ShapeAscends, NoneIsNoValue

-----------------------------------------------------------------------------
(* The heap that from_js gets.                                             *)

(* The heap that from_js reads: without a ring of proxies, and a tree when *)
(* to_js made it.                                                          *)
HeapMade == WellProxied(heap) /\ ((Started \/ ser.status # "done") => Ascending(heap))

LEMMA TreeProxied ==
  ASSUME NEW h, HeapFits(h), Ascending(h)
  PROVE  WellProxied(h)
<1> DEFINE age == [n \in DOMAIN h |-> 1]
<1>1. DOMAIN h = 1..Len(h) /\ Len(h) \in Nat
  BY HeapParts
<1>2. age \in [DOMAIN h -> 1..Len(h)]
  BY <1>1
<1> HIDE DEF age
<1>3. IsAge(h, age)
  BY <1>2 DEF IsAge, Ascending, Rises
<1> QED BY <1>3 DEF WellProxied

LEMMA GraphProxied ==
  ASSUME NEW graph \in Graphs
  PROVE  WellProxied(Counted(graph))
<1> DEFINE g == Counted(graph)
           r == [n \in DOMAIN graph |-> HeldInHeap(graph, n) + (IF n = 1 THEN 1 ELSE 0)]
<1>1. HeapFits(graph) /\ DOMAIN graph = 1..Len(graph) /\ FiniteHeap(graph)
  BY GraphFits, HeapParts
<1> HIDE DEF g, r
<1>2. \A n \in DOMAIN graph : HeldInHeap(graph, n) \in Nat
  BY <1>1, HeldSplit
<1>3. r \in [DOMAIN graph -> Int] /\ Recounted(g, graph, r)
  BY <1>2 DEF Counted, Recounted, g, r
<1>4. HeapFits(g) /\ SameShape(g, graph)
  BY <1>1, <1>3, RecountedFits
<1>5. PICK age \in [DOMAIN graph -> 1..Len(graph)] :
         \A n \in DOMAIN graph : graph[n].kind = "proxy" => age[graph[n].entries[1].value.data] < age[n]
  BY GraphsAssumption
<1>6. \A n \in DOMAIN graph : graph[n].kind = "proxy" => graph[n].entries # <<>> /\ IsNode(graph[n].entries[1].value)
  BY GraphsAssumption
<1>7. IsAge(g, age)
  <2>1. age \in [DOMAIN g -> 1..Len(g)]
    BY <1>4 DEF SameShape
  <2>2. ASSUME NEW n \in DOMAIN g, g[n].kind = "proxy"
        PROVE  g[n].entries # <<>> /\ IsNode(g[n].entries[1].value) /\ age[Next1(g, n)] < age[n]
    <3>1. n \in DOMAIN graph /\ graph[n].kind = "proxy" /\ g[n].entries = graph[n].entries
      BY <1>4, <2>2 DEF SameShape
    <3> QED BY <1>5, <1>6, <3>1 DEF Next1
  <2> QED BY <2>1, <2>2 DEF IsAge
<1> QED BY <1>4, <1>7 DEF WellProxied, g

LEMMA HeapMadeAtFirst ==
  ASSUME Init
  PROVE  HeapMade
<1>1. CASE SerInit
  <2>1. heap = <<>>
    BY <1>1 DEF SerInit, NewSerializer, heap
  <2>2. HeapFits(heap)
    BY <1>1, NewFits DEF SerInit, SerFits, heap
  <2>3. Ascending(heap)
    BY <2>1 DEF Ascending
  <2> QED BY <2>2, <2>3, TreeProxied DEF HeapMade
<1>2. CASE \E graph \in Graphs :
             /\ ser = [NewSerializer EXCEPT !.heap = Counted(graph), !.root = Ref(1), !.status = "done"]
             /\ tokens = <<>> /\ frames = <<>>
  <2>1. PICK graph \in Graphs :
          /\ ser = [NewSerializer EXCEPT !.heap = Counted(graph), !.root = Ref(1), !.status = "done"]
          /\ tokens = <<>> /\ frames = <<>>
    BY <1>2
  <2>2. heap = Counted(graph) /\ ser.status = "done" /\ ~Started
    BY <2>1 DEF NewSerializer, heap, Started
  <2> QED BY <2>2, GraphProxied DEF HeapMade
<1> QED BY <1>1, <1>2 DEF Init

LEMMA PushedInPlace ==
  ASSUME NEW s, NEW fs, Building(s, fs), Awaits(s, fs), Ascending(s.heap), NEW kind \in {"array", "object"},
         NEW t, t = push(s, kind)
  PROVE  Ascending(t.heap)
<1>1. ProtoFree(s) /\ s.current # Undefined /\ CountedWith(s, Undefined) /\ s.status = "running" /\ SerFits(s)
  BY BuildingReady, BuildingParts
<1> QED BY <1>1, PushAscends

LEMMA WritingAscends ==
  ASSUME SerInv, ValueDue, Ascending(heap), NEW v, ValueFits(v, Len(ser.heap)), ~IsNode(v),
         NEW t, t = set_node_value(ser, v)
  PROVE  Ascending(t.heap)
<1>1. SerFits(ser)
  BY DEF SerInv
<1> QED BY <1>1, SetAscends DEF Later, heap

LEMMA BytesAscend ==
  ASSUME SerInv, Ascending(heap), SerializeBytes
  PROVE  Ascending(heap')
<1> DEFINE u == push(ser, "array")
           v == serialize_i32(0)
           w == set_node_value(u, v)
<1>1. ValueDue /\ ser' = IF Failed(u) THEN u ELSE pop(w)
  BY DEF SerializeBytes
<1>2. Building(ser, frames) /\ Awaits(ser, frames) /\ "array" \in {"array", "object"}
  BY <1>1, Awaiting
<1>3. ~IsNode(v) /\ \A N : ValueFits(v, N)
  BY ZeroFits
<1> HIDE DEF v, u
<1>4. Ascending(u.heap)
  BY <1>2, PushedInPlace DEF u, heap
<1>5. /\ SerFits(u) /\ CountedWith(u, Undefined)
      /\ ser.current_key = NulText => u.status = "error"
      /\ ser.current_key # NulText =>
           /\ u.status = "running" /\ u.paths # <<>> /\ u.current # None /\ IsNode(u.current)
           /\ u.current_key = None /\ u.heap[u.current.data].kind = "array"
  BY <1>2, BuildingPushed DEF u
<1>6. CASE Failed(u)
  BY <1>1, <1>4, <1>6 DEF heap
<1>7. CASE ~Failed(u)
  <2>1. ser.current_key # NulText
    BY <1>5, <1>7 DEF Failed
  <2>2. CanTake(u) /\ ProtoFree(u) /\ u.current # Undefined
    <3>1. None # ProtoKey
      BY StringsDiffer DEF Strings
    <3> QED BY <1>5, <2>1, <3>1 DEF CanTake, ProtoFree, Undefined, Value, IsNode
  <2>3. CountedWith(u, v)
    BY <1>3, <1>5, ScalarCounted
  <2>4. Keeps(u, w) /\ Stored(u, v, w)
    BY <1>3, <1>5, <2>1, <2>2, <2>3, SetNodeValueKeeps
  <2>5. Ascending(w.heap)
    BY <1>3, <1>4, <1>5, SetAscends DEF Later
  <2>6. SerFits(w) /\ CountedWith(w, Undefined) /\ w.paths # <<>> /\ w.current # None
    BY <1>5, <2>1, <2>4 DEF Keeps, Stored
  <2> HIDE DEF w
  <2>7. Ascending(pop(w).heap)
    BY <2>5, <2>6, PopAscends
  <2> QED BY <1>1, <1>7, <2>7 DEF heap
<1> QED BY <1>6, <1>7

LEMMA VariantAscends ==
  ASSUME SerInv, Ascending(heap), NEW kind \in TwoDeep \cup {"newtype_variant"}, SerializeVariant(kind)
  PROVE  Ascending(heap')
<1> DEFINE u == push(ser, "object")
           named == IF Failed(u) THEN u ELSE serialize_name(u, Text)
           c == IF kind = "tuple_variant" THEN "array" ELSE "object"
<1>1. ValueDue /\ ser' = IF Failed(u) \/ kind = "newtype_variant" THEN named ELSE push(named, c)
  BY DEF SerializeVariant
<1>2. Building(ser, frames) /\ Awaits(ser, frames) /\ "object" \in {"array", "object"} /\ c \in {"array", "object"}
  BY <1>1, Awaiting
<1> HIDE DEF u, c
<1>3. Ascending(u.heap)
  BY <1>2, PushedInPlace DEF u, heap
<1>4. /\ SerFits(u) /\ CountedWith(u, Undefined)
      /\ ser.current_key = NulText => u.status = "error"
      /\ ser.current_key # NulText =>
           /\ u.status = "running" /\ u.current # None /\ IsNode(u.current)
  BY <1>2, BuildingPushed DEF u
<1>5. CASE Failed(u)
  BY <1>1, <1>3, <1>5 DEF heap
<1>6. CASE ~Failed(u)
  <2>1. ser.current_key # NulText
    BY <1>4, <1>6 DEF Failed
  <2>2. Text \in Strings /\ Text \in Strings \cup {None} /\ FALSE \in BOOLEAN /\ Text # ProtoKey
    BY StringsDiffer DEF Strings
  <2>3. Named(named, u, Text, FALSE)
    BY <1>4, <1>6, <2>2, NameIsGiven DEF SerFits
  <2> HIDE DEF named
  <2>4. NameKept(named, u, Text, FALSE)
    BY <1>4, <2>2, <2>3, NameKeeps
  <2>5. /\ SerFits(named) /\ CountedWith(named, Undefined) /\ named.heap = u.heap /\ named.current = u.current
        /\ named.status = u.status /\ named.current_key = Text
    BY <2>4 DEF NameKept
  <2>6. ProtoFree(named) /\ named.current # Undefined /\ named.status = "running"
    BY <1>4, <2>1, <2>2, <2>5 DEF ProtoFree, Undefined, Value, IsNode
  <2>7. Ascending(push(named, c).heap)
    BY <1>2, <1>3, <2>5, <2>6, PushAscends
  <2> QED BY <1>1, <1>3, <1>6, <2>5, <2>7 DEF heap
<1> QED BY <1>5, <1>6

LEMMA EndAscends ==
  ASSUME SerInv, Ascending(heap), SerializeEnd
  PROVE  Ascending(heap')
<1> DEFINE s == ser
           f == frames[Len(frames)]
<1>1. Running /\ frames # <<>> /\ ser' = Close(ser, f.kind)
  BY DEF SerializeEnd, Top
<1>2. Building(ser, frames)
  BY <1>1 DEF SerInv, AtWork
<1>3. SerFits(ser) /\ CountedWith(ser, Undefined) /\ ser.current # None /\ ser.paths # <<>>
  <2>1. CountedWith(ser, Undefined)
    BY <1>2 DEF Building
  <2>2. SerFits(ser) /\ (frames # <<>> => ser.paths # <<>> /\ ser.current # None)
    BY <1>2, BuildingParts
  <2> QED BY <1>1, <2>1, <2>2
<1>4. /\ Ascending(pop(ser).heap) /\ SerFits(pop(ser)) /\ CountedWith(pop(ser), Undefined)
      /\ pop(ser).paths = Front(ser.paths) /\ pop(ser).current # None
  BY <1>3, PopAscends DEF heap
<1>5. CASE f.kind \notin TwoDeep
  BY <1>1, <1>4, <1>5 DEF Close, heap
<1>6. CASE f.kind \in TwoDeep
  <2>1. pop(ser).paths # <<>>
    <3>1. /\ Len(ser.paths) + 1 = Depth(frames, Len(frames)) /\ Len(frames) \in Nat /\ Len(frames) >= 1
          /\ frames \in Seq(Frames) /\ Len(ser.paths) \in Nat
      <4>1. Len(ser.paths) + 1 = Depth(frames, Len(frames)) /\ frames \in Seq(Frames) /\ Len(ser.paths) \in Nat
        BY <1>2, BuildingParts DEF Building
      <4> QED BY <1>1, <4>1
    <3>2. Len(ser.paths) >= 2
      <4> DEFINE i == Len(frames) - 1
                 x == Len(ser.paths)
                 y == Depth(frames, i)
                 z == Depth(frames, Len(frames))
      <4>1. i \in Nat /\ i + 1 = Len(frames) /\ frames[i + 1].kind \in TwoDeep
        BY <1>6, <3>1
      <4>2. z = y + 2 /\ y \in Nat /\ y >= i + 1
        <5> HIDE DEF i
        <5>1. Depth(frames, i + 1) = Depth(frames, i) + 2
          BY <4>1, DepthOfNext
        <5> QED BY <4>1, <5>1, DepthIsNat
      <4>3. x + 1 = z /\ x \in Nat
        BY <3>1
      <4> HIDE DEF x, y, z, i
      <4>4. x >= 2
        BY <4>1, <4>2, <4>3
      <4> QED BY <4>4 DEF x
    <3>3. Len(Front(ser.paths)) = Len(ser.paths) - 1
      <4>1. ser.paths \in Seq(JSValue)
        BY <1>3, SerParts
      <4> DEFINE p == ser.paths
      <4>2. p \in Seq(JSValue) /\ p # <<>>
        BY <1>3, <4>1
      <4> HIDE DEF p
      <4>3. Len(Front(p)) = Len(p) - 1
        BY ONLY <4>2, PathPopped
      <4> QED BY <4>3 DEF p
    <3>4. Len(Front(ser.paths)) # 0
      <4> DEFINE x == Len(ser.paths)
                 y == Len(Front(ser.paths))
      <4>1. x \in Nat /\ x >= 2 /\ y = x - 1
        BY <3>1, <3>2, <3>3
      <4> HIDE DEF x, y
      <4>2. y # 0
        BY <4>1
      <4> QED BY <4>2 DEF y
    <3>5. Front(ser.paths) # <<>>
      BY <3>4
    <3> QED BY <1>4, <3>5
  <2>2. Ascending(pop(pop(ser)).heap)
    BY <1>4, <2>1, PopAscends
  <2> QED BY <1>1, <1>6, <2>2 DEF Close, heap
<1> QED BY <1>5, <1>6

(* Every step of to_js keeps the heap a tree.                              *)
LEMMA SerializeAscends ==
  ASSUME SerInv, Ascending(heap), Serialize
  PROVE  Ascending(heap')
<1>1. SerFits(ser)
  BY DEF SerInv
<1>2. ASSUME NEW t \in Scalars, SerializeScalar(t)
      PROVE  Ascending(heap')
  <2> DEFINE v == IF t.kind \in {"str", "unit_variant"} THEN Value("string", t.data) ELSE ScalarOf(t)
  <2>1. ValueDue /\ Len(ser.heap) \in Nat /\ ser.current_is_key = FALSE
    BY <1>2, Awaiting DEF SerializeScalar
  <2>2. ser' = set_node_value(ser, v)
    BY <1>2, <2>1 DEF SerializeScalar, serialize_str
  <2>3. ~IsNode(v) /\ ValueFits(v, Len(ser.heap))
    <3>1. CASE t.kind \in {"str", "unit_variant"}
      <4>1. t.data \in Strings /\ v = Value("string", t.data)
        BY <3>1, ScalarsAreTokens
      <4> QED BY <4>1, StringFits
    <3>2. CASE t.kind \notin {"str", "unit_variant"}
      <4>1. v = ScalarOf(t)
        BY <3>2
      <4> QED BY <3>2, <4>1, ScalarFits
    <3> QED BY <3>1, <3>2
  <2> HIDE DEF v
  <2> QED BY <2>1, <2>2, <2>3, WritingAscends DEF heap
<1>3. ASSUME NEW kind \in {"seq", "map", "struct"}, SerializeCompound(kind)
      PROVE  Ascending(heap')
  <2> DEFINE c == IF kind = "seq" THEN "array" ELSE "object"
  <2>1. ValueDue /\ ser' = push(ser, c) /\ c \in {"array", "object"}
    BY <1>3 DEF SerializeCompound
  <2> HIDE DEF c
  <2>2. Building(ser, frames) /\ Awaits(ser, frames)
    BY <2>1, Awaiting
  <2> QED BY <2>1, <2>2, PushedInPlace DEF heap
<1>4. ASSUME NEW text \in Strings, SerializeKey(text)
      PROVE  Ascending(heap')
  <2>1. ser' \in {Fails(ser), serialize_name(ser, text)}
    BY <1>4 DEF SerializeKey
  <2>2. Fails(ser).heap = ser.heap /\ serialize_name(ser, text).heap = ser.heap
    <3>1. ser \in SerRecords
      BY <1>1 DEF SerFits
    <3>2. Named(serialize_name(ser, text), ser, text, FALSE)
      BY <3>1, NameIsGiven
    <3> QED BY <3>1, <3>2 DEF Named, Fails, SerRecords
  <2> QED BY <2>1, <2>2 DEF heap
<1>5. ASSUME NEW container \in BOOLEAN, SerializeOtherKey(container)
      PROVE  Ascending(heap')
  <2> DEFINE r == [ser EXCEPT !.current_is_key = TRUE]
             v == serialize_i32(0)
  <2>1. /\ Running /\ frames # <<>> /\ frames[Len(frames)].due = "key"
        /\ ser' = IF container THEN push(r, "array") ELSE set_node_value(r, v)
    BY <1>5 DEF SerializeOtherKey, Top
  <2>2. Building(ser, frames)
    BY <2>1 DEF SerInv, AtWork
  <2>3. Named(r, ser, ser.current_key, TRUE)
    <3>1. ser \in SerRecords
      BY <1>1 DEF SerFits
    <3>2. ser = [ser EXCEPT !.current_key = ser.current_key]
      BY <3>1 DEF SerRecords
    <3> QED BY <3>2 DEF Named
  <2>4. ~IsNode(v) /\ \A N : ValueFits(v, N)
    BY ZeroFits
  <2> HIDE DEF r, v
  <2>5. NameKept(r, ser, ser.current_key, TRUE)
    BY <1>1, <2>2, <2>3, NameKeeps, SerParts DEF Building
  <2>6. /\ SerFits(r) /\ CountedWith(r, Undefined) /\ r.heap = ser.heap /\ r.current = ser.current
        /\ r.status = ser.status /\ r.current_key = ser.current_key
    BY <2>5 DEF NameKept
  <2>7. Ascending(set_node_value(r, v).heap)
    BY <2>4, <2>6, SetAscends DEF Later, heap
  <2>8. Ascending(push(r, "array").heap)
    <3>1. ser.current # None /\ IsNode(ser.current)
      BY <2>1, <2>2, BuildingParts
    <3>2. ser.current_key = None
      BY <2>1, <2>2 DEF Building, KeyFits
    <3>3. ProtoFree(r) /\ r.current # Undefined /\ r.status = "running" /\ "array" \in {"array", "object"}
      BY <2>1, <2>6, <3>1, <3>2, StringsDiffer DEF ProtoFree, Running, Undefined, Value, IsNode, Strings
    <3> QED BY <2>6, <3>3, PushAscends DEF heap
  <2> QED BY <2>1, <2>7, <2>8 DEF heap
<1>6. ASSUME ToJsReturns \/ ToJsFails
      PROVE  Ascending(heap')
  <2> DEFINE Dropped(root) == [n \in DOMAIN ser.heap |-> [ser.heap[n] EXCEPT !.refs =
                        ser.heap[n].refs - HeldByHost(ser, n) + (IF root = Ref(n) THEN 1 ELSE 0)]]
  <2>1. \A root, status : DropSerializer(ser, root, status).heap = Dropped(root)
    <3> TAKE root, status
    <3> HIDE DEF Dropped
    <3>1. DropSerializer(ser, root, status) = [ser EXCEPT !.heap = Dropped(root), !.root = root, !.paths = <<>>,
                                                          !.current = None, !.status = status]
      BY DEF DropSerializer, Dropped
    <3> QED BY <1>1, <3>1 DEF SerFits, SerRecords
  <2>2. \A root : DOMAIN Dropped(root) = DOMAIN ser.heap /\ \A n \in DOMAIN ser.heap :
          Dropped(root)[n].kind = ser.heap[n].kind /\ Dropped(root)[n].entries = ser.heap[n].entries
    <3> TAKE root
    <3>1. \A n \in DOMAIN ser.heap : ser.heap[n] \in Nodes(JSValue)
      BY <1>1, SerParts, HeapParts
    <3> QED BY <3>1 DEF Nodes
  <2> HIDE DEF Dropped
  <2>3. \A root : Ascending(Dropped(root))
    BY <2>2 DEF Ascending, Rises, heap
  <2>4. \E root : ser'.heap = Dropped(root)
    BY <1>6, <2>1 DEF ToJsReturns, ToJsFails
  <2> QED BY <2>3, <2>4 DEF heap
<1>7. ASSUME NEW kind \in Wrappers, SerializeWrapper(kind)
      PROVE  Ascending(heap')
  BY <1>7 DEF SerializeWrapper, heap
<1> QED BY <1>2, <1>3, <1>4, <1>5, <1>6, <1>7, BytesAscend, VariantAscends, EndAscends DEF Serialize

LEMMA HeapStays ==
  ASSUME SerInv, HeapMade, [Next]_vars
  PROVE  HeapMade'
<1>1. CASE UNCHANGED serVars
  BY <1>1 DEF serVars, HeapMade, WellProxied, IsAge, HeapFits, heap, Ascending, Rises, Started
<1>2. CASE Serialize
  <2>1. ser.status # "done"
    BY <1>2 DEF Serialize, SerializeScalar, SerializeWrapper, SerializeBytes, SerializeCompound, SerializeVariant,
                SerializeKey, SerializeOtherKey, SerializeEnd, ToJsReturns, ToJsFails, ValueDue, Running
  <2>2. Ascending(heap')
    BY <1>2, <2>1, SerializeAscends DEF HeapMade
  <2>3. HeapFits(heap')
    <3>1. SerInv'
      BY StepHolds
    <3> QED BY <3>1 DEF SerInv, SerFits, heap
  <2> QED BY <2>2, <2>3, TreeProxied DEF HeapMade
<1>3. CASE FromJs \/ Deserialize
  BY <1>1, <1>3 DEF FromJs, Deserialize
<1>4. CASE UNCHANGED vars
  BY <1>1, <1>4 DEF vars
<1> QED BY <1>2, <1>3, <1>4 DEF Next

-----------------------------------------------------------------------------
(* The operations of the Deserializer.                                     *)

(* The Deserializer and its operations.                                    *)

Statuses ==
  {"none", "reading", "same", "changed", "exception", "circular", "expected array", "expected object",
   "invalid type", "bigint overflow", "panic"}
Items == [node : Nat, index : Nat]
DeRecords ==
  [paths : Seq(Items), current : JSValue, open : Seq(FrameKinds), ready : BOOLEAN, at : Nat \ {0},
   status : Statuses]

(* What it names exists, and the containers on its path are no proxies.    *)
DeFits(h, d) ==
  /\ d \in DeRecords /\ ValueFits(d.current, Len(h))
  /\ \A i \in 1..Len(d.paths) : d.paths[i].node \in Plain(h)

LEMMA DeParts ==
  ASSUME NEW h, NEW d, DeFits(h, d)
  PROVE  /\ d.paths \in Seq(Items) /\ Len(d.paths) \in Nat /\ DOMAIN d.paths = 1..Len(d.paths)
         /\ d.open \in Seq(FrameKinds) /\ Len(d.open) \in Nat /\ DOMAIN d.open = 1..Len(d.open)
         /\ d.current \in JSValue /\ d.ready \in BOOLEAN /\ d.at \in Nat /\ d.at >= 1 /\ d.status \in Statuses
         /\ \A i \in 1..Len(d.paths) : d.paths[i] \in Items /\ d.paths[i].node \in Nat /\ d.paths[i].index \in Nat
         /\ d.paths # <<>> <=> Len(d.paths) >= 1
         /\ d.open # <<>> <=> Len(d.open) >= 1
<1>1. /\ d.paths \in Seq(Items) /\ d.open \in Seq(FrameKinds) /\ d.current \in JSValue
      /\ d.ready \in BOOLEAN /\ d.at \in Nat \ {0} /\ d.status \in Statuses
  BY DEF DeFits, DeRecords
<1>2. \A p \in Items : p.node \in Nat /\ p.index \in Nat
  BY DEF Items
<1>3. /\ Len(d.paths) \in Nat /\ DOMAIN d.paths = 1..Len(d.paths) /\ (d.paths # <<>> <=> Len(d.paths) >= 1)
      /\ \A i \in 1..Len(d.paths) : d.paths[i] \in Items
  <2> HIDE DEF Items
  <2> QED BY <1>1
<1>4. Len(d.open) \in Nat /\ DOMAIN d.open = 1..Len(d.open) /\ (d.open # <<>> <=> Len(d.open) >= 1)
  BY <1>1
<1>5. d.at \in Nat /\ d.at >= 1
  BY <1>1
<1> QED BY <1>1, <1>2, <1>3, <1>4, <1>5

LEMMA EndsIs ==
  ASSUME NEW d, d \in DeRecords, NEW status \in Statuses
  PROVE  LET t == Ends(d, status)
         IN  /\ t \in DeRecords /\ t.status = status /\ t.paths = d.paths /\ t.current = d.current
             /\ t.open = d.open /\ t.ready = d.ready /\ t.at = d.at
BY DEF Ends, DeRecords

(* Value v is what item p of a container gives.                            *)
Given(h, p, v) ==
  LET es == h[p.node].entries IN
  IF h[p.node].kind = "array"
    THEN p.index + 1 \in DOMAIN es /\ v = es[p.index + 1].value /\ v # Undefined
    ELSE /\ p.index < 2 * Len(es)
         /\ p.index % 2 = 0 => ~IsNode(v)
         /\ p.index % 2 # 0 => p.index \div 2 + 1 \in DOMAIN es /\ v = es[p.index \div 2 + 1].value

(* There is no item p any more.                                            *)
Spent(h, p) ==
  LET es == h[p.node].entries IN
  IF h[p.node].kind = "array" THEN p.index + 1 \in DOMAIN es => es[p.index + 1].value = Undefined
                              ELSE p.index >= 2 * Len(es)

LEMMA ItemIs ==
  ASSUME WellProxied(heap), NEW p \in Items, p.node \in Plain(heap)
  PROVE  LET end == Item(p) = IF heap[p.node].kind = "array" THEN Undefined ELSE None
         IN  /\ end => Spent(heap, p)
             /\ ~end => Given(heap, p, Item(p)) /\ ValueFits(Item(p), Len(heap))
<1> DEFINE n == p.node
           k == p.index
           es == heap[n].entries
           v == Item(p)
<1>1. /\ n \in DOMAIN heap /\ heap[n].kind \in {"array", "object"} /\ k \in Nat
  BY DEF Plain, Items
<1>2. /\ NodeFits(heap[n], Len(heap)) /\ es \in Seq(Entries(JSValue))
  BY <1>1, HeapParts DEF WellProxied
<1>3. Len(es) \in Nat /\ DOMAIN es = 1..Len(es)
  BY <1>2
<1>4. /\ \A i \in DOMAIN es : ValueFits(es[i].value, Len(heap)) /\ es[i].value \in JSValue
      /\ heap[n].kind = "object" => \A i \in DOMAIN es : es[i].key \in Strings
  BY <1>2 DEF NodeFits, ValueFits
<1>5. v = IF heap[n].kind = "array"
          THEN IF k < Len(es) THEN es[k + 1].value ELSE Undefined
          ELSE IF k >= 2 * Len(es) THEN None
               ELSE IF k % 2 = 0 THEN Value("string", es[k \div 2 + 1].key)
               ELSE es[k \div 2 + 1].value
  BY DEF Item
<1> HIDE DEF v, es, k, n
<1>6. CASE heap[n].kind = "array"
  <2>1. k + 1 \in DOMAIN es <=> k < Len(es)
    BY <1>1, <1>3
  <2>2. v = Undefined => (k + 1 \in DOMAIN es => es[k + 1].value = Undefined)
    BY <1>5, <1>6, <2>1
  <2>3. v # Undefined => k + 1 \in DOMAIN es /\ v = es[k + 1].value
    BY <1>5, <1>6, <2>1
  <2>4. v # Undefined => ValueFits(v, Len(heap))
    BY <1>4, <2>3
  <2> QED BY <1>6, <2>2, <2>3, <2>4 DEF Spent, Given, v, es, k, n
<1>7. CASE heap[n].kind = "object"
  <2>1. k < 2 * Len(es) => k \div 2 + 1 \in DOMAIN es
    BY <1>1, <1>3
  <2>2. v = None => k >= 2 * Len(es)
    <3>1. ASSUME k < 2 * Len(es)
          PROVE  v \in JSValue
      <4>1. es[k \div 2 + 1].value \in JSValue /\ es[k \div 2 + 1].key \in Strings
        BY <1>4, <1>7, <2>1, <3>1
      <4>2. Value("string", es[k \div 2 + 1].key) \in JSValue
        BY <4>1 DEF Value, JSValue, Tags
      <4>3. ~(k >= 2 * Len(es))
        BY <1>1, <1>3, <3>1
      <4> QED BY <1>5, <1>7, <4>1, <4>2, <4>3
    <3>2. k < 2 * Len(es) \/ k >= 2 * Len(es)
      BY <1>1, <1>3
    <3> QED BY <3>1, <3>2, NoneIsNoValue
  <2>3. ASSUME v # None
        PROVE  Given(heap, p, v) /\ ValueFits(v, Len(heap))
    <3>1. k < 2 * Len(es)
      BY <1>1, <1>3, <1>5, <1>7, <2>3
    <3>2. k \div 2 + 1 \in DOMAIN es
      BY <2>1, <3>1
    <3>3. v = IF k % 2 = 0 THEN Value("string", es[k \div 2 + 1].key) ELSE es[k \div 2 + 1].value
      <4>1. ~(k >= 2 * Len(es))
        BY <1>1, <1>3, <3>1
      <4> QED BY <1>5, <1>7, <4>1
    <3>4. CASE k % 2 = 0
      <4>1. v = Value("string", es[k \div 2 + 1].key) /\ es[k \div 2 + 1].key \in Strings
        BY <1>4, <1>7, <3>2, <3>3, <3>4
      <4>2. ~IsNode(v) /\ ValueFits(v, Len(heap))
        BY <4>1, StringFits
      <4> QED BY <1>7, <3>1, <3>4, <4>2 DEF Given, v, es, k, n
    <3>5. CASE k % 2 # 0
      <4>1. v = es[k \div 2 + 1].value /\ ValueFits(v, Len(heap))
        BY <1>4, <3>2, <3>3, <3>5
      <4> QED BY <1>7, <3>1, <3>2, <3>5, <4>1 DEF Given, v, es, k, n
    <3> QED BY <3>4, <3>5
  <2> QED BY <1>7, <2>2, <2>3 DEF Spent, v, es, k, n
<1> QED BY <1>1, <1>6, <1>7 DEF n, v

(* next took an item.                                                      *)
Moved(h, d, t) ==
  LET top == Len(d.paths) IN
  /\ DeFits(h, t) /\ Len(t.paths) = top /\ Given(h, d.paths[top], t.current)
  /\ \A i \in 1..top - 1 : t.paths[i] = d.paths[i]
  /\ t.paths[top].node = d.paths[top].node /\ t.paths[top].index = d.paths[top].index + 1
  /\ t.open = d.open /\ t.ready = d.ready /\ t.at = d.at /\ t.status = d.status

LEMMA NextIs ==
  ASSUME WellProxied(heap), NEW d, DeFits(heap, d), d.paths # <<>>, NEW t, t = next(d)
  PROVE  /\ AtEnd(d) => t = d /\ Spent(heap, d.paths[Len(d.paths)])
         /\ ~AtEnd(d) => t = Ends(d, "exception") \/ Moved(heap, d, t)
<1> DEFINE top == Len(d.paths)
           p == d.paths[top]
           item == Item(p)
<1>1. /\ d \in DeRecords /\ d.paths \in Seq(Items) /\ top \in 1..top /\ top \in Nat /\ p \in Items
      /\ p.node \in Plain(heap)
  BY DeParts DEF DeFits
<1>2. AtEnd(d) <=> (item = IF heap[p.node].kind = "array" THEN Undefined ELSE None)
  BY DEF AtEnd
<1>3. /\ AtEnd(d) => Spent(heap, p)
      /\ ~AtEnd(d) => Given(heap, p, item) /\ ValueFits(item, Len(heap))
  <2> HIDE DEF p
  <2> QED BY <1>1, <1>2, ItemIs
<1>4. t = IF AtEnd(d) THEN d ELSE IF item = Value("throws", None) THEN Ends(d, "exception")
          ELSE [d EXCEPT !.current = item, !.paths[Len(d.paths)].index = @ + 1]
  BY DEF next
<1>5. ASSUME ~AtEnd(d), item # Value("throws", None)
      PROVE  Moved(heap, d, t)
  <2> DEFINE q == [d.paths EXCEPT ![top].index = @ + 1]
             x == [p EXCEPT !.index = @ + 1]
  <2>1. t = [d EXCEPT !.current = item, !.paths = q]
    BY <1>4, <1>5
  <2>2. x \in Items /\ x.node = p.node /\ x.index = p.index + 1
    BY <1>1 DEF Items
  <2>3. q = [d.paths EXCEPT ![top] = x]
    OBVIOUS
  <2>4. item \in JSValue /\ ValueFits(item, Len(heap)) /\ Given(heap, p, item)
    BY <1>3, <1>5 DEF ValueFits
  <2> HIDE DEF item, q, x
  <2>5. q \in Seq(Items) /\ Len(q) = top /\ q[top] = x /\ \A i \in 1..top : i # top => q[i] = d.paths[i]
    <3> DEFINE P == d.paths
    <3>1. P \in Seq(Items) /\ top = Len(P) /\ q = [P EXCEPT ![top] = x] /\ x \in Items
      BY <1>1, <2>2, <2>3
    <3> HIDE DEF P, top
    <3>2. q \in Seq(Items) /\ Len(q) = top /\ q[top] = x /\ \A i \in 1..top : i # top => q[i] = P[i]
      BY <1>1, <3>1
    <3> QED BY <3>2 DEF P
  <2>6. /\ t \in DeRecords /\ t.paths = q /\ t.current = item /\ t.open = d.open /\ t.ready = d.ready
        /\ t.at = d.at /\ t.status = d.status
    BY <1>1, <2>1, <2>4, <2>5 DEF DeRecords
  <2>7. \A i \in 1..top : t.paths[i].node = d.paths[i].node
    BY <1>1, <2>2, <2>5, <2>6
  <2>8. DeFits(heap, t)
    BY <2>4, <2>5, <2>6, <2>7 DEF DeFits
  <2>9. \A i \in 1..top - 1 : t.paths[i] = d.paths[i]
    BY <1>1, <2>5, <2>6
  <2> QED BY <2>2, <2>4, <2>5, <2>6, <2>8, <2>9 DEF Moved
<1> QED BY <1>3, <1>4, <1>5

(* enter went into container n.                                            *)
Inside(h, d, t, n) ==
  /\ DeFits(h, t) /\ Len(t.paths) = Len(d.paths) + 1
  /\ \A i \in 1..Len(d.paths) : t.paths[i] = d.paths[i]
  /\ t.paths[Len(d.paths) + 1] = [node |-> n, index |-> 0]
  /\ \A i \in 1..Len(d.paths) : d.paths[i].node # n
  /\ t.current = d.current /\ t.open = d.open /\ t.ready = d.ready /\ t.at = d.at /\ t.status = d.status

(* enter finds that it is in the container already.                        *)
Again(d, n) == \E i \in 1..Len(d.paths) : d.paths[i].node = n

(* enter, of a container.                                                  *)
Enters(d) ==
  LET v == ProxyTarget(heap, d.current) IN
  IF Circular(d, v) THEN Ends(d, "circular") ELSE [d EXCEPT !.paths = Append(@, [node |-> v.data, index |-> 0])]

LEMMA EnterIs ==
  ASSUME WellProxied(heap), NEW d, DeFits(heap, d), IsNode(d.current), NEW t, t = Enters(d),
         NEW n, n = ProxyTarget(heap, d.current).data
  PROVE  \/ t = Ends(d, "circular") /\ Again(d, n)
         \/ Inside(heap, d, t, n) /\ n \in Plain(heap)
<1> DEFINE v == ProxyTarget(heap, d.current)
<1>1. d \in DeRecords /\ ValueFits(d.current, Len(heap))
  BY DEF DeFits
<1>3. CASE Circular(d, v)
  <2>1. t = Ends(d, "circular")
    BY <1>3 DEF Enters
  <2>2. PICK i \in DOMAIN d.paths : d.paths[i].node = v.data
    BY <1>3 DEF Circular
  <2>3. DOMAIN d.paths = 1..Len(d.paths)
    BY DeParts
  <2>4. Again(d, n)
    BY <2>2, <2>3 DEF Again
  <2> QED BY <2>1, <2>4
<1>4. CASE ~Circular(d, v)
  <2> DEFINE x == [node |-> n, index |-> 0]
             q == Append(d.paths, x)
  <2>1. t = [d EXCEPT !.paths = q]
    BY <1>4 DEF Enters
  <2>2. n \in Plain(heap) /\ n \in Nat
    <3>1. n \in Plain(heap)
      BY <1>1, <1>4, TargetOfNode
    <3>2. DOMAIN heap = 1..Len(heap)
      BY HeapParts DEF WellProxied
    <3> QED BY <3>1, <3>2 DEF Plain
  <2>3. d.paths \in Seq(Items) /\ Len(d.paths) \in Nat /\ DOMAIN d.paths = 1..Len(d.paths)
    BY DeParts
  <2>4. x \in Items /\ x.node = n
    BY <2>2 DEF Items
  <2> HIDE DEF x
  <2>5. /\ q \in Seq(Items) /\ Len(q) = Len(d.paths) + 1 /\ q[Len(d.paths) + 1] = x
        /\ \A i \in 1..Len(d.paths) : q[i] = d.paths[i]
    BY <2>3, <2>4
  <2> HIDE DEF q
  <2>6. /\ t \in DeRecords /\ t.paths = q /\ t.current = d.current /\ t.open = d.open /\ t.ready = d.ready
        /\ t.at = d.at /\ t.status = d.status
    BY <1>1, <2>1, <2>5 DEF DeRecords
  <2>7. DeFits(heap, t)
    <3>1. \A i \in 1..Len(d.paths) + 1 : t.paths[i].node \in Plain(heap)
      <4> TAKE i \in 1..Len(d.paths) + 1
      <4>1. i \in 1..Len(d.paths) \/ i = Len(d.paths) + 1
        BY <2>3
      <4> QED BY <2>2, <2>4, <2>5, <2>6, <4>1 DEF DeFits
    <3> QED BY <1>1, <2>5, <2>6, <3>1 DEF DeFits
  <2>8. \A i \in 1..Len(d.paths) : d.paths[i].node # n
    BY <1>4, <2>3 DEF Circular
  <2> QED BY <1>4, <2>2, <2>5, <2>6, <2>7, <2>8 DEF Inside, x
<1> QED BY <1>3, <1>4

(* leave goes back to the container around.                                *)
Outside(h, d, t) ==
  /\ DeFits(h, t) /\ Len(t.paths) = Len(d.paths) - 1
  /\ \A i \in 1..Len(d.paths) - 1 : t.paths[i] = d.paths[i]
  /\ t.open = d.open /\ t.ready = d.ready /\ t.at = d.at /\ t.status = d.status

LEMMA LeaveIs ==
  ASSUME WellProxied(heap), NEW d, DeFits(heap, d), d.paths # <<>>, NEW t, t = leave(d)
  PROVE  Outside(heap, d, t)
<1> DEFINE q == SubSeq(d.paths, 1, Len(d.paths) - 1)
           n == d.paths[Len(d.paths)].node
<1>1. d \in DeRecords /\ d.paths \in Seq(Items) /\ Len(d.paths) \in Nat /\ Len(d.paths) >= 1
  BY DeParts DEF DeFits
<1>2. n \in Plain(heap) /\ n \in 1..Len(heap) /\ Len(heap) \in Nat
  <2>1. Len(d.paths) \in 1..Len(d.paths)
    BY <1>1
  <2>2. n \in Plain(heap)
    BY <2>1 DEF DeFits
  <2> QED BY <2>2, HeapParts DEF WellProxied, Plain
<1>3. /\ q \in Seq(Items) /\ Len(q) = Len(d.paths) - 1 /\ \A i \in 1..Len(d.paths) - 1 : q[i] = d.paths[i]
  BY <1>1
<1>4. Ref(n) \in JSValue /\ ValueFits(Ref(n), Len(heap))
  <2> HIDE DEF n
  <2>1. Ref(n) \in JSValue
    BY <1>2, NoRef
  <2> QED BY <1>2, <2>1 DEF ValueFits, Ref, Value
<1>5. t = [d EXCEPT !.current = Ref(n), !.paths = q]
  BY DEF leave
<1> HIDE DEF q, n
<1>6. /\ t \in DeRecords /\ t.paths = q /\ t.current = Ref(n) /\ t.open = d.open /\ t.ready = d.ready
      /\ t.at = d.at /\ t.status = d.status
  BY <1>1, <1>3, <1>4, <1>5 DEF DeRecords
<1>7. DeFits(heap, t)
  <2>1. \A i \in 1..Len(t.paths) : t.paths[i].node \in Plain(heap)
    <3> TAKE i \in 1..Len(t.paths)
    <3>1. i \in 1..Len(d.paths) /\ t.paths[i] = d.paths[i]
      BY <1>1, <1>3, <1>6
    <3> QED BY <3>1 DEF DeFits
  <2> QED BY <1>4, <1>6, <2>1 DEF DeFits
<1> QED BY <1>3, <1>6, <1>7 DEF Outside

-----------------------------------------------------------------------------
(* Its path is a walk.                                                     *)

(* open, ready and at change, nothing else.                                *)
Kept(d, t) == t.paths = d.paths /\ t.current = d.current /\ t.status = d.status
IsSet(d, t, open, ready, at) == t = [d EXCEPT !.open = open, !.ready = ready, !.at = at]

LEMMA SetIs ==
  ASSUME NEW h, NEW d, DeFits(h, d), NEW open \in Seq(FrameKinds), NEW ready \in BOOLEAN, NEW at \in Nat \ {0},
         NEW t, IsSet(d, t, open, ready, at)
  PROVE  /\ DeFits(h, t) /\ Kept(d, t) /\ t.open = open /\ t.ready = ready /\ t.at = at
<1>1. d \in DeRecords
  BY DEF DeFits
<1>2. /\ t \in DeRecords /\ t.paths = d.paths /\ t.current = d.current /\ t.open = open /\ t.ready = ready
      /\ t.at = at /\ t.status = d.status
  BY <1>1 DEF IsSet, DeRecords
<1> QED BY <1>2 DEF DeFits, Kept

LEMMA StopIs ==
  ASSUME NEW h, NEW d, DeFits(h, d), NEW status \in Statuses
  PROVE  LET t == Ends(d, status)
         IN  /\ DeFits(h, t) /\ t.status = status /\ t.paths = d.paths /\ t.current = d.current
             /\ t.open = d.open /\ t.ready = d.ready
<1> DEFINE t == Ends(d, status)
<1>1. /\ t \in DeRecords /\ t.status = status /\ t.paths = d.paths /\ t.current = d.current
      /\ t.open = d.open /\ t.ready = d.ready
  BY EndsIs DEF DeFits
<1> HIDE DEF t
<1>2. DeFits(h, t)
  BY <1>1 DEF DeFits
<1> QED BY <1>1, <1>2 DEF t

-----------------------------------------------------------------------------
(* The path from the root.                                                 *)

StartOf(h, root) == IF IsNode(root) THEN {ProxyTarget(h, root).data} ELSE {}

(* What container k + 1 of the path, or the current value, is read from.   *)
Within(h, root, d, k) == IF k = 0 THEN StartOf(h, root) ELSE ReadableIn(h, d.paths[k].node)
Walks(h, root, d) ==
  /\ \A i \in 1..Len(d.paths) : d.paths[i].node \in Within(h, root, d, i - 1)
  /\ \A i, j \in 1..Len(d.paths) : d.paths[i].node = d.paths[j].node => i = j

(* No undefined element was passed.                                        *)
Passed(h, p) ==
  h[p.node].kind = "array" =>
    \A k \in 1..p.index : k \in DOMAIN h[p.node].entries /\ h[p.node].entries[k].value # Undefined
OnWalk(h, root, d) ==
  DeFits(h, d) /\ Walks(h, root, d) /\ \A i \in 1..Len(d.paths) : Passed(h, d.paths[i])
Fresh(h, root, d) == IsNode(d.current) => ProxyTarget(h, d.current).data \in Within(h, root, d, Len(d.paths))

(* A walk of distinct containers that leads back into itself.              *)
Chain(h, root, L, q) ==
  /\ L \in Nat /\ q \in [1..L -> DOMAIN h] /\ \A i, j \in 1..L : q[i] = q[j] => i = j
  /\ L >= 1 => q[1] \in StartOf(h, root)
  /\ \A i \in 1..L : i < L => q[i + 1] \in ReadableIn(h, q[i])
ClosedWalk(h, root) ==
  \E L \in Nat : \E q : Chain(h, root, L, q) /\ \E b \in 1..L : q[b] \in ReadableIn(h, q[L])

(* Two deserializers on the same walk.                                     *)
SamePath(d, t) ==
  Len(t.paths) = Len(d.paths) /\ \A i \in 1..Len(d.paths) : t.paths[i].node = d.paths[i].node

LEMMA SameWalk ==
  ASSUME NEW h, NEW root, NEW d, NEW t, Len(d.paths) \in Nat, Walks(h, root, d), SamePath(d, t)
  PROVE  Walks(h, root, t) /\ \A k \in 0..Len(d.paths) : Within(h, root, t, k) = Within(h, root, d, k)
<1>1. \A k \in 0..Len(d.paths) : Within(h, root, t, k) = Within(h, root, d, k)
  BY DEF SamePath, Within
<1>2. \A i \in 1..Len(d.paths) : i - 1 \in 0..Len(d.paths)
  OBVIOUS
<1> QED BY <1>1, <1>2 DEF Walks, SamePath

LEMMA KeptWalks ==
  ASSUME NEW h, NEW root, NEW d, NEW t, OnWalk(h, root, d), DeFits(h, t), Kept(d, t)
  PROVE  OnWalk(h, root, t) /\ (Fresh(h, root, d) => Fresh(h, root, t))
<1>1. t.paths = d.paths /\ t.current = d.current
  BY DEF Kept
<1> QED BY <1>1 DEF OnWalk, Walks, Within, Fresh

(* next goes on within the walk.                                           *)
LEMMA NextWalks ==
  ASSUME WellProxied(heap), NEW root, NEW d, OnWalk(heap, root, d), d.paths # <<>>, NEW t, Moved(heap, d, t)
  PROVE  OnWalk(heap, root, t) /\ Fresh(heap, root, t)
<1> DEFINE top == Len(d.paths)
           p == d.paths[top]
           n == p.node
           es == heap[n].entries
           v == t.current
<1>1. /\ DeFits(heap, d) /\ Walks(heap, root, d) /\ top \in Nat /\ top >= 1 /\ top \in 1..top
      /\ p.index \in Nat /\ n \in Plain(heap) /\ Passed(heap, p)
  <2>1. DeFits(heap, d) /\ Walks(heap, root, d) /\ \A i \in 1..top : Passed(heap, d.paths[i])
    BY DEF OnWalk
  <2>2. top \in Nat /\ top >= 1 /\ \A i \in 1..top : d.paths[i].index \in Nat
    BY <2>1, DeParts
  <2>3. top \in 1..top
    BY <2>2
  <2>4. \A i \in 1..top : d.paths[i].node \in Plain(heap)
    BY <2>1 DEF DeFits
  <2> HIDE DEF top
  <2>5. d.paths[top].node \in Plain(heap) /\ d.paths[top].index \in Nat /\ Passed(heap, d.paths[top])
    BY <2>1, <2>2, <2>3, <2>4
  <2> QED BY <2>1, <2>2, <2>3, <2>5
<1>2. /\ DeFits(heap, t) /\ Len(t.paths) = top /\ Given(heap, p, v)
      /\ \A i \in 1..top - 1 : t.paths[i] = d.paths[i]
      /\ t.paths[top].node = n /\ t.paths[top].index = p.index + 1
  BY DEF Moved
<1>3. SamePath(d, t)
  <2>1. ASSUME NEW i \in 1..top
        PROVE  t.paths[i].node = d.paths[i].node
    <3>1. i \in 1..top - 1 \/ i = top
      BY <1>1
    <3> QED BY <1>2, <3>1
  <2> QED BY <1>2, <2>1 DEF SamePath
<1>4. Walks(heap, root, t) /\ Within(heap, root, t, top) = ReadableIn(heap, n)
  <2>1. Len(d.paths) \in Nat /\ Walks(heap, root, d) /\ SamePath(d, t)
    BY <1>1, <1>3
  <2>2. Walks(heap, root, t) /\ \A k \in 0..Len(d.paths) : Within(heap, root, t, k) = Within(heap, root, d, k)
    BY ONLY <2>1, SameWalk
  <2>3. top \in 0..Len(d.paths) /\ top # 0
    BY <1>1
  <2>4. Within(heap, root, t, top) = Within(heap, root, d, top)
    BY <2>2, <2>3
  <2> QED BY <2>2, <2>3, <2>4 DEF Within
<1>5. NodeFits(heap[n], Len(heap)) /\ es \in Seq(Entries(JSValue)) /\ heap[n].kind \in {"array", "object"}
  BY <1>1, HeapParts DEF WellProxied, Plain
<1>6. Len(es) \in Nat /\ DOMAIN es = 1..Len(es)
  BY <1>5
<1> HIDE DEF es, v
<1>7. heap[n].kind = "array" =>
        /\ p.index + 1 \in DOMAIN es /\ v = es[p.index + 1].value
        /\ \A k \in 1..p.index + 1 : k \in DOMAIN es /\ es[k].value # Undefined
  <2> SUFFICES ASSUME heap[n].kind = "array"
               PROVE  /\ p.index + 1 \in DOMAIN es /\ v = es[p.index + 1].value
                      /\ \A k \in 1..p.index + 1 : k \in DOMAIN es /\ es[k].value # Undefined
    OBVIOUS
  <2>1. p.index + 1 \in DOMAIN es /\ v = es[p.index + 1].value /\ v # Undefined
    BY <1>2 DEF Given, es
  <2>2. \A k \in 1..p.index : k \in DOMAIN es /\ es[k].value # Undefined
    BY <1>1 DEF Passed, es
  <2>3. ASSUME NEW k \in 1..p.index + 1
        PROVE  k \in 1..p.index \/ k = p.index + 1
    BY <1>1
  <2> QED BY <2>1, <2>2, <2>3
<1>8. \A i \in 1..top : Passed(heap, t.paths[i])
  <2> TAKE i \in 1..top
  <2>1. CASE i = top
    BY <1>2, <1>7, <2>1 DEF Passed, es
  <2>2. CASE i # top
    <3>1. i \in 1..top - 1
      BY <1>1, <2>2
    <3>2. t.paths[i] = d.paths[i] /\ Passed(heap, d.paths[i])
      BY <1>2, <3>1 DEF OnWalk
    <3> QED BY <3>2
  <2> QED BY <2>1, <2>2
<1>9. ASSUME IsNode(v)
      PROVE  ProxyTarget(heap, v).data \in ReadableIn(heap, n)
  <2> DEFINE j == IF heap[n].kind = "array" THEN p.index + 1 ELSE p.index \div 2 + 1
  <2>1. j \in DOMAIN es /\ v = es[j].value
    <3>1. CASE heap[n].kind = "array"
      BY <1>7, <3>1
    <3>2. CASE heap[n].kind # "array"
      BY <1>2, <1>9, <3>2 DEF Given, es, v
    <3> QED BY <3>1, <3>2
  <2>2. heap[n].kind = "array" => \A k \in 1..j : es[k].value # Undefined
    BY <1>7
  <2> HIDE DEF j
  <2>3. Seen(heap, n, j)
    BY <1>9, <2>1, <2>2 DEF Seen, es
  <2> QED BY <2>1, <2>3 DEF ReadableIn, EntryTarget, es
<1> QED BY <1>2, <1>4, <1>8, <1>9 DEF OnWalk, Fresh, v

(* enter goes further on it, or finds that it closes.                      *)
LEMMA EnterWalks ==
  ASSUME WellProxied(heap), NEW root, NEW d, OnWalk(heap, root, d), NEW n,
         n \in Within(heap, root, d, Len(d.paths)), NEW t, Inside(heap, d, t, n)
  PROVE  OnWalk(heap, root, t)
<1> DEFINE top == Len(d.paths)
<1>1. DeFits(heap, d) /\ Walks(heap, root, d) /\ top \in Nat
  BY DeParts DEF OnWalk
<1>2. /\ DeFits(heap, t) /\ Len(t.paths) = top + 1 /\ \A i \in 1..top : t.paths[i] = d.paths[i]
      /\ t.paths[top + 1].node = n /\ t.paths[top + 1].index = 0 /\ \A i \in 1..top : d.paths[i].node # n
  BY DEF Inside
<1>3. \A k \in 0..top : Within(heap, root, t, k) = Within(heap, root, d, k)
  BY <1>1, <1>2 DEF Within
<1>4. \A i \in 1..top + 1 : t.paths[i].node \in Within(heap, root, t, i - 1)
  <2> TAKE i \in 1..top + 1
  <2>1. CASE i = top + 1
    <3>1. i - 1 = top /\ top \in 0..top
      BY <1>1, <2>1
    <3> QED BY <1>2, <1>3, <2>1, <3>1
  <2>2. CASE i # top + 1
    <3>1. i \in 1..top /\ i - 1 \in 0..top
      BY <1>1, <2>2
    <3>2. d.paths[i].node \in Within(heap, root, d, i - 1)
      BY <1>1, <3>1 DEF Walks
    <3> QED BY <1>2, <1>3, <3>1, <3>2
  <2> QED BY <2>1, <2>2
<1>5. \A i, j \in 1..top + 1 : t.paths[i].node = t.paths[j].node => i = j
  <2> TAKE i, j \in 1..top + 1
  <2>1. (i \in 1..top \/ i = top + 1) /\ (j \in 1..top \/ j = top + 1)
    BY <1>1
  <2>2. i \in 1..top /\ j \in 1..top => (d.paths[i].node = d.paths[j].node => i = j)
    BY <1>1 DEF Walks
  <2> QED BY <1>2, <2>1, <2>2
<1>6. \A i \in 1..top + 1 : Passed(heap, t.paths[i])
  <2> TAKE i \in 1..top + 1
  <2>1. CASE i = top + 1
    <3>1. 1..t.paths[i].index = {}
      BY <1>2, <2>1
    <3> QED BY <3>1 DEF Passed
  <2>2. CASE i # top + 1
    <3>1. i \in 1..top
      BY <1>1, <2>2
    <3> QED BY <1>2, <3>1 DEF OnWalk
  <2> QED BY <2>1, <2>2
<1> QED BY <1>2, <1>4, <1>5, <1>6 DEF OnWalk, Walks

LEMMA EnterCloses ==
  ASSUME NEW h, NEW root, NEW d, OnWalk(h, root, d), NEW n,
         n \in Within(h, root, d, Len(d.paths)), Again(d, n)
  PROVE  ClosedWalk(h, root)
<1> DEFINE L == Len(d.paths)
           q == [i \in 1..L |-> d.paths[i].node]
<1>1. DeFits(h, d) /\ Walks(h, root, d) /\ L \in Nat
  BY DeParts DEF OnWalk
<1>2. PICK b \in 1..L : d.paths[b].node = n
  BY DEF Again
<1>3. L >= 1 /\ L \in 1..L /\ L # 0
  BY <1>1, <1>2
<1>4. \A i \in 1..L : q[i] = d.paths[i].node /\ q[i] \in DOMAIN h
  BY <1>1 DEF DeFits, Plain
<1>5. \A i \in 1..L : i < L => q[i + 1] \in ReadableIn(h, q[i])
  <2> SUFFICES ASSUME NEW i \in 1..L, i < L
               PROVE  q[i + 1] \in ReadableIn(h, q[i])
    OBVIOUS
  <2>1. i + 1 \in 1..L /\ (i + 1) - 1 = i /\ i # 0
    BY <1>1
  <2>2. d.paths[i + 1].node \in Within(h, root, d, i)
    BY <1>1, <2>1 DEF Walks
  <2> QED BY <1>4, <2>1, <2>2 DEF Within
<1>6. q[1] \in StartOf(h, root)
  <2>1. 1 \in 1..L /\ 1 - 1 = 0
    BY <1>3
  <2>2. d.paths[1].node \in Within(h, root, d, 0)
    BY <1>1, <2>1 DEF Walks
  <2> QED BY <1>4, <2>1, <2>2 DEF Within
<1>7. \A i, j \in 1..L : q[i] = q[j] => i = j
  BY <1>1, <1>4 DEF Walks
<1>8. q[b] \in ReadableIn(h, q[L])
  BY <1>2, <1>3, <1>4 DEF Within
<1>9. q \in [1..L -> DOMAIN h]
  BY <1>4
<1> HIDE DEF q, L
<1>10. Chain(h, root, L, q)
  BY <1>1, <1>5, <1>6, <1>7, <1>9 DEF Chain
<1> QED BY <1>1, <1>2, <1>8, <1>10 DEF ClosedWalk

LEMMA LeaveWalks ==
  ASSUME NEW h, NEW root, NEW d, OnWalk(h, root, d), d.paths # <<>>, NEW t, Outside(h, d, t)
  PROVE  OnWalk(h, root, t)
<1> DEFINE m == Len(d.paths) - 1
<1>1. DeFits(h, d) /\ Walks(h, root, d) /\ Len(d.paths) \in Nat /\ Len(d.paths) >= 1
  BY DeParts DEF OnWalk
<1>2. DeFits(h, t) /\ Len(t.paths) = m /\ \A i \in 1..m : t.paths[i] = d.paths[i]
  BY DEF Outside
<1>3. m \in Nat /\ \A i \in 1..m : i \in 1..Len(d.paths) /\ i - 1 \in 0..m
  BY <1>1
<1>4. \A k \in 0..m : Within(h, root, t, k) = Within(h, root, d, k)
  BY <1>2, <1>3 DEF Within
<1> HIDE DEF m
<1>5. Walks(h, root, t)
  BY <1>1, <1>2, <1>3, <1>4 DEF Walks
<1>6. \A i \in 1..m : Passed(h, t.paths[i])
  BY <1>2, <1>3 DEF OnWalk
<1> QED BY <1>2, <1>5, <1>6 DEF OnWalk

-----------------------------------------------------------------------------
(* Its path is long enough.                                                *)

(* The path is as long as the compounds that are open ask for, and k more. *)

KindsOf(q) == [i \in DOMAIN q |-> [kind |-> q[i]]]
DepthOf(q) == Depth(KindsOf(q), Len(q))
Slack(d, k) == Len(d.paths) + 1 >= DepthOf(d.open) + k
Takes(kind) == IF kind \in TwoDeep THEN 2 ELSE 1

LEMMA DepthIs ==
  ASSUME NEW q \in Seq(FrameKinds)
  PROVE  DepthOf(q) \in Nat /\ DepthOf(q) >= Len(q) + 1 /\ (q = <<>> => DepthOf(q) = 1)
<1>1. Len(q) \in Nat
  OBVIOUS
<1>2. q = <<>> => Len(q) = 0
  OBVIOUS
<1> QED BY <1>1, <1>2, DepthIsNat, DepthOfNone DEF DepthOf

LEMMA DepthOpens ==
  ASSUME NEW q \in Seq(FrameKinds), NEW kind \in FrameKinds
  PROVE  DepthOf(Append(q, kind)) = DepthOf(q) + Takes(kind)
<1> DEFINE p == Append(q, kind)
           n == Len(q)
           fs == KindsOf(q)
           gs == KindsOf(p)
<1>1. /\ n \in Nat /\ Len(p) = n + 1 /\ DOMAIN p = 1..n + 1 /\ DOMAIN q = 1..n
      /\ p[n + 1] = kind /\ \A i \in 1..n : p[i] = q[i]
  OBVIOUS
<1> HIDE DEF p, n
<1>2. n + 1 \in 1..n + 1 /\ \A i \in 1..n : i \in 1..n + 1
  BY <1>1
<1>3. gs[n + 1].kind = kind /\ \A i \in 1..n : gs[i].kind = fs[i].kind
  BY <1>1, <1>2 DEF KindsOf
<1> HIDE DEF gs, fs
<1>4. Depth(gs, n) = Depth(fs, n)
  BY <1>1, <1>3, DepthAgrees
<1>5. Depth(gs, n + 1) = Depth(gs, n) + (IF gs[n + 1].kind \in TwoDeep THEN 2 ELSE 1)
  BY <1>1, DepthOfNext
<1> QED BY <1>1, <1>3, <1>4, <1>5 DEF DepthOf, Takes, p, n, fs, gs

LEMMA DepthCloses ==
  ASSUME NEW q \in Seq(FrameKinds), q # <<>>
  PROVE  LET r == SubSeq(q, 1, Len(q) - 1)
         IN  /\ r \in Seq(FrameKinds) /\ q[Len(q)] \in FrameKinds
             /\ DepthOf(q) = DepthOf(r) + Takes(q[Len(q)])
<1> DEFINE r == SubSeq(q, 1, Len(q) - 1)
           kind == q[Len(q)]
<1>1. Len(q) \in Nat /\ Len(q) >= 1 /\ DOMAIN q = 1..Len(q)
  OBVIOUS
<1>2. r \in Seq(FrameKinds) /\ kind \in FrameKinds
  BY <1>1
<1>3. q = Append(r, kind)
  BY <1>1
<1> HIDE DEF r, kind
<1>4. DepthOf(q) = DepthOf(r) + Takes(kind)
  BY <1>2, <1>3, DepthOpens
<1> QED BY <1>2, <1>4 DEF r, kind

(* A deserializer on its walk, with room for k more, and one that went on  *)
(* or ended.                                                               *)
Steady(h, root, d, k) == OnWalk(h, root, d) /\ Slack(d, k) /\ Reading(d)
Safe(h, root, d) ==
  /\ DeFits(h, d) /\ Slack(d, 0)
  /\ Reading(d) => OnWalk(h, root, d) /\ (d.ready => Fresh(h, root, d))
  /\ d.status = "circular" => ClosedWalk(h, root)

LEMMA SteadyParts ==
  ASSUME NEW h, NEW root, NEW d, NEW k \in Nat, Steady(h, root, d, k)
  PROVE  /\ DeFits(h, d) /\ OnWalk(h, root, d) /\ Slack(d, 0)
         /\ Len(d.paths) >= Len(d.open) + k /\ (k >= 1 => d.paths # <<>>)
         /\ d.open # <<>> => d.paths # <<>>
<1>1. DeFits(h, d) /\ OnWalk(h, root, d)
  BY DEF Steady, OnWalk
<1>2. /\ Len(d.paths) \in Nat /\ Len(d.open) \in Nat /\ d.open \in Seq(FrameKinds)
      /\ d.paths # <<>> <=> Len(d.paths) >= 1
      /\ d.open # <<>> <=> Len(d.open) >= 1
  BY <1>1, DeParts
<1>3. DepthOf(d.open) \in Nat /\ DepthOf(d.open) >= Len(d.open) + 1
  BY <1>2, DepthIs
<1>4. Len(d.paths) + 1 >= DepthOf(d.open) + k
  BY DEF Steady, Slack
<1> DEFINE a == Len(d.paths)
           b == Len(d.open)
           c == DepthOf(d.open)
<1>5. a \in Nat /\ b \in Nat /\ c \in Nat /\ c >= b + 1 /\ a + 1 >= c + k
  BY <1>2, <1>3, <1>4
<1> HIDE DEF a, b, c
<1>6. a + 1 >= c + 0 /\ a >= b + k /\ (k >= 1 => a >= 1) /\ (b >= 1 => a >= 1)
  BY <1>5
<1> QED BY <1>1, <1>2, <1>6 DEF a, b, c, Slack

LEMMA StopIsSafe ==
  ASSUME NEW h, NEW root, NEW d, DeFits(h, d), Slack(d, 0), NEW status \in Statuses \ {"reading"},
         status = "circular" => ClosedWalk(h, root)
  PROVE  Safe(h, root, Ends(d, status))
<1> DEFINE t == Ends(d, status)
<1>1. DeFits(h, t) /\ t.status = status /\ t.paths = d.paths /\ t.open = d.open
  BY StopIs
<1> HIDE DEF t
<1>2. Slack(t, 0)
  BY <1>1 DEF Slack
<1>3. Safe(h, root, t)
  BY <1>1, <1>2 DEF Safe, Reading
<1> QED BY <1>3 DEF t

(* What next, enter and leave make of a deserializer that reads.           *)
LEMMA NextSteady ==
  ASSUME WellProxied(heap), NEW root, NEW d, NEW k \in Nat, Steady(heap, root, d, k), d.paths # <<>>,
         NEW t, t = next(d)
  PROVE  /\ DeFits(heap, t) /\ Slack(t, 0) /\ t.open = d.open
         /\ AtEnd(d) => t = d
         /\ ~AtEnd(d) =>
              \/ t = Ends(d, "exception") /\ t.status = "exception"
              \/ Moved(heap, d, t) /\ Steady(heap, root, t, k) /\ Fresh(heap, root, t)
<1>1. DeFits(heap, d) /\ OnWalk(heap, root, d) /\ Slack(d, 0)
  BY SteadyParts
<1>2. CASE AtEnd(d)
  <2>1. t = d
    BY <1>1, <1>2, NextIs
  <2> QED BY <1>1, <1>2, <2>1
<1>3. CASE ~AtEnd(d) /\ t = Ends(d, "exception")
  <2>1. "exception" \in Statuses
    BY DEF Statuses
  <2>2. DeFits(heap, t) /\ t.status = "exception" /\ t.paths = d.paths /\ t.open = d.open
    BY <1>1, <1>3, <2>1, StopIs
  <2> QED BY <1>1, <1>3, <2>2 DEF Slack
<1>4. CASE ~AtEnd(d) /\ Moved(heap, d, t)
  <2>1. OnWalk(heap, root, t) /\ Fresh(heap, root, t)
    BY <1>1, <1>4, NextWalks
  <2>2. DeFits(heap, t) /\ Len(t.paths) = Len(d.paths) /\ t.open = d.open /\ t.status = d.status
    BY <1>4 DEF Moved
  <2> QED BY <1>1, <1>4, <2>1, <2>2 DEF Steady, Slack, Reading
<1> QED BY <1>1, <1>2, <1>3, <1>4, NextIs

LEMMA EnterSteady ==
  ASSUME WellProxied(heap), NEW root, NEW d, NEW k \in Nat, Steady(heap, root, d, k), Fresh(heap, root, d),
         NEW error \in Statuses \ {"reading", "circular"},
         NEW t, t = Ends(d, error) \/ (IsNode(d.current) /\ t = Enters(d))
  PROVE  \/ ~Reading(t) /\ Safe(heap, root, t)
         \/ /\ Steady(heap, root, t, k + 1) /\ IsNode(d.current) /\ t.current = d.current /\ t.open = d.open
            /\ t.ready = d.ready /\ Inside(heap, d, t, ProxyTarget(heap, d.current).data)
<1> DEFINE n == ProxyTarget(heap, d.current).data
<1>1. DeFits(heap, d) /\ OnWalk(heap, root, d) /\ Slack(d, 0) /\ d.paths \in Seq(Items) /\ d.open \in Seq(FrameKinds)
  BY SteadyParts, DeParts
<1> HIDE DEF n
<1>2. \/ t = Ends(d, error)
      \/ IsNode(d.current) /\ t = Ends(d, "circular") /\ Again(d, n)
      \/ IsNode(d.current) /\ Inside(heap, d, t, n)
  BY <1>1, EnterIs DEF n
<1>3. "circular" \in Statuses \ {"reading"} /\ error \in Statuses \ {"reading"} /\ error # "circular"
  BY DEF Statuses
<1>4. ASSUME IsNode(d.current)
      PROVE  n \in Within(heap, root, d, Len(d.paths))
  BY <1>4 DEF Fresh, n
<1>5. CASE t = Ends(d, error)
  <2>1. t.status = error
    BY <1>1, <1>2, <1>3, <1>5, StopIs
  <2> QED BY <1>1, <1>2, <1>3, <1>5, <2>1, StopIsSafe DEF Reading
<1>6. CASE IsNode(d.current) /\ t = Ends(d, "circular") /\ Again(d, n)
  <2>1. n \in Within(heap, root, d, Len(d.paths)) /\ Again(d, n)
    BY <1>4, <1>6
  <2>2. ClosedWalk(heap, root)
    BY <1>1, <2>1, EnterCloses
  <2>3. t.status = "circular"
    <3>1. "circular" \in Statuses
      BY DEF Statuses
    <3>2. Ends(d, "circular").status = "circular"
      BY ONLY <1>1, <3>1, StopIs
    <3> QED BY <1>6, <3>2
  <2> QED BY <1>1, <1>3, <1>6, <2>2, <2>3, StopIsSafe DEF Reading
<1>7. CASE IsNode(d.current) /\ Inside(heap, d, t, n)
  <2>1. OnWalk(heap, root, t)
    BY <1>1, <1>4, <1>7, EnterWalks
  <2>2. /\ Len(t.paths) = Len(d.paths) + 1 /\ t.current = d.current /\ t.open = d.open
        /\ t.ready = d.ready /\ t.status = d.status
    BY <1>7 DEF Inside
  <2>3. Slack(t, k + 1)
    <3> DEFINE a == Len(d.paths)
               c == DepthOf(d.open)
    <3>1. a \in Nat /\ c \in Nat /\ a + 1 >= c + k
      BY <1>1, DepthIs DEF Steady, Slack
    <3> HIDE DEF a, c
    <3>2. (a + 1) + 1 >= c + (k + 1)
      BY <3>1
    <3> QED BY <2>2, <3>2 DEF Slack, a, c
  <2> QED BY <1>7, <2>1, <2>2, <2>3 DEF Steady, Reading, n
<1> QED BY <1>2, <1>5, <1>6, <1>7

-----------------------------------------------------------------------------
(* The requests of a type.                                                 *)

(* The requests change open, ready and at.                                 *)

Readied(d) == [d EXCEPT !.ready = TRUE]
Advanced(d) == [d EXCEPT !.at = @ + 1]
Opened(d, kind) == Done([d EXCEPT !.open = Append(@, kind)])
Popped(d) == [d EXCEPT !.open = SubSeq(@, 1, Len(@) - 1)]
NextAt(d) == IF Started THEN d.at + 1 ELSE d.at

LEMMA SettersSet ==
  ASSUME NEW h, NEW d, DeFits(h, d)
  PROVE  /\ IsSet(d, Readied(d), d.open, TRUE, d.at) /\ IsSet(d, Advanced(d), d.open, d.ready, d.at + 1)
         /\ IsSet(d, Readied(Advanced(d)), d.open, TRUE, d.at + 1)
         /\ IsSet(d, Done(d), d.open, FALSE, NextAt(d))
         /\ \A kind : IsSet(d, Opened(d, kind), Append(d.open, kind), FALSE, NextAt(d))
         /\ \A kind : IsSet(d, Readied(Opened(d, kind)), Append(d.open, kind), TRUE, NextAt(d))
         /\ IsSet(d, Popped(d), SubSeq(d.open, 1, Len(d.open) - 1), d.ready, d.at)
         /\ IsSet(d, Popped(Advanced(d)), SubSeq(d.open, 1, Len(d.open) - 1), d.ready, d.at + 1)
         /\ d.at + 1 \in Nat \ {0} /\ NextAt(d) \in Nat \ {0} /\ d.at \in Nat \ {0}
<1>1. d \in DeRecords /\ d.at \in Nat /\ d.at >= 1
  BY DeParts DEF DeFits
<1>2. d.at + 1 \in Nat \ {0} /\ NextAt(d) \in Nat \ {0} /\ d.at \in Nat \ {0}
  BY <1>1 DEF NextAt
<1>3. IsSet(d, Readied(d), d.open, TRUE, d.at) /\ IsSet(d, Advanced(d), d.open, d.ready, d.at + 1)
  BY <1>1 DEF IsSet, Readied, Advanced, DeRecords
<1>4. IsSet(d, Readied(Advanced(d)), d.open, TRUE, d.at + 1) /\ IsSet(d, Done(d), d.open, FALSE, NextAt(d))
  BY <1>1 DEF IsSet, Readied, Advanced, Done, NextAt, DeRecords
<1>5. ASSUME NEW kind
      PROVE  /\ IsSet(d, Opened(d, kind), Append(d.open, kind), FALSE, NextAt(d))
             /\ IsSet(d, Readied(Opened(d, kind)), Append(d.open, kind), TRUE, NextAt(d))
  <2> DEFINE q == Append(d.open, kind)
  <2>1. Opened(d, kind) = Done([d EXCEPT !.open = q])
    BY DEF Opened
  <2> HIDE DEF q
  <2> QED BY <1>1, <2>1 DEF IsSet, Readied, Done, NextAt, DeRecords, q
<1>6. /\ IsSet(d, Popped(d), SubSeq(d.open, 1, Len(d.open) - 1), d.ready, d.at)
      /\ IsSet(d, Popped(Advanced(d)), SubSeq(d.open, 1, Len(d.open) - 1), d.ready, d.at + 1)
  BY <1>1 DEF IsSet, Popped, Advanced, DeRecords
<1> QED BY <1>2, <1>3, <1>4, <1>5, <1>6

LEMMA SetSafe ==
  ASSUME NEW h, NEW root, NEW d, NEW k \in Nat, Steady(h, root, d, k),
         NEW open \in Seq(FrameKinds), DepthOf(open) <= DepthOf(d.open) + k,
         NEW ready \in BOOLEAN, ready => Fresh(h, root, d), NEW at \in Nat \ {0}, NEW t, IsSet(d, t, open, ready, at)
  PROVE  Safe(h, root, t) /\ Reading(t) /\ OnWalk(h, root, t) /\ Kept(d, t) /\ t.open = open /\ t.ready = ready
<1>1. OnWalk(h, root, d) /\ DeFits(h, d) /\ Reading(d)
  BY SteadyParts DEF Steady
<1>2. DeFits(h, t) /\ Kept(d, t) /\ t.open = open /\ t.ready = ready
  BY <1>1, SetIs
<1>3. OnWalk(h, root, t) /\ (Fresh(h, root, d) => Fresh(h, root, t))
  BY <1>1, <1>2, KeptWalks
<1>4. t.paths = d.paths /\ t.status = d.status /\ t.status = "reading"
  BY <1>1, <1>2 DEF Kept, Reading
<1>5. Slack(t, 0)
  <2> DEFINE a == Len(d.paths)
             b == DepthOf(d.open)
             c == DepthOf(open)
  <2>1. a \in Nat /\ b \in Nat /\ c \in Nat /\ a + 1 >= b + k /\ c <= b + k
    BY <1>1, DeParts, DepthIs DEF Steady, Slack
  <2> HIDE DEF a, b, c
  <2>2. a + 1 >= c + 0
    BY <2>1
  <2> QED BY <1>2, <1>4, <2>2 DEF Slack, a, c
<1> QED BY <1>2, <1>3, <1>4, <1>5 DEF Safe, Reading

(* Nothing is opened, and k = 0.                                           *)
LEMMA SameOpenSafe ==
  ASSUME NEW h, NEW root, NEW d, NEW k \in Nat, Steady(h, root, d, k),
         NEW ready \in BOOLEAN, ready => Fresh(h, root, d), NEW at \in Nat \ {0}, NEW t, IsSet(d, t, d.open, ready, at)
  PROVE  Safe(h, root, t) /\ Reading(t) /\ Kept(d, t) /\ t.open = d.open /\ t.ready = ready
<1>1. DeFits(h, d) /\ d.open \in Seq(FrameKinds)
  BY SteadyParts, DeParts
<1>2. DepthOf(d.open) \in Nat
  BY <1>1, DepthIs
<1>3. DepthOf(d.open) <= DepthOf(d.open) + k
  BY <1>2
<1> QED BY <1>1, <1>3, SetSafe

(* A compound is opened, in the container that was entered for it.         *)
LEMMA OpensSafe ==
  ASSUME NEW h, NEW root, NEW d, NEW kind \in FrameKinds, NEW k \in Nat, Takes(kind) <= k, Steady(h, root, d, k),
         NEW ready \in BOOLEAN, ready => Fresh(h, root, d), NEW at \in Nat \ {0},
         NEW t, IsSet(d, t, Append(d.open, kind), ready, at)
  PROVE  Safe(h, root, t) /\ Reading(t) /\ Kept(d, t) /\ t.open = Append(d.open, kind) /\ t.ready = ready
<1>1. DeFits(h, d) /\ d.open \in Seq(FrameKinds)
  BY SteadyParts, DeParts
<1>2. DepthOf(d.open) \in Nat /\ DepthOf(Append(d.open, kind)) = DepthOf(d.open) + Takes(kind) /\ Takes(kind) \in Nat
  BY <1>1, DepthIs, DepthOpens DEF Takes
<1>3. Append(d.open, kind) \in Seq(FrameKinds)
  BY <1>1
<1> DEFINE open == Append(d.open, kind)
<1>4. open \in Seq(FrameKinds) /\ IsSet(d, t, open, ready, at) /\ DepthOf(open) <= DepthOf(d.open) + k
  BY <1>2, <1>3
<1> HIDE DEF open
<1>5. Safe(h, root, t) /\ Reading(t) /\ Kept(d, t) /\ t.open = open /\ t.ready = ready
  BY <1>4, SetSafe
<1> QED BY <1>5 DEF open

LEMMA SafeReads ==
  ASSUME NEW h, NEW root, NEW d, Safe(h, root, d), Reading(d)
  PROVE  Steady(h, root, d, 0) /\ (d.ready => Fresh(h, root, d))
BY DEF Safe, Steady

-----------------------------------------------------------------------------
(* One request after another.                                              *)

LEMMA Stops ==
  ASSUME NEW h, NEW root, NEW d, NEW k \in Nat, Steady(h, root, d, k),
         NEW status \in Statuses \ {"reading", "circular"}
  PROVE  Safe(h, root, Ends(d, status)) /\ ~Reading(Ends(d, status))
<1>1. DeFits(h, d) /\ Slack(d, 0) /\ status \in Statuses /\ status # "circular" /\ status # "reading"
  BY SteadyParts
<1>2. Safe(h, root, Ends(d, status))
  BY <1>1, StopIsSafe
<1>3. Ends(d, status).status = status
  BY ONLY <1>1, StopIs
<1> QED BY <1>1, <1>2, <1>3 DEF Reading

(* next, and the next after it, when something follows.                    *)
LEMMA NextSafe ==
  ASSUME WellProxied(heap), NEW root, NEW d, NEW k \in Nat, Steady(heap, root, d, k), d.paths # <<>>,
         Fresh(heap, root, d) \/ ~AtEnd(d), NEW t, t = next(d)
  PROVE  /\ ~Reading(t) => Safe(heap, root, t)
         /\ Reading(t) => Steady(heap, root, t, k) /\ Fresh(heap, root, t) /\ t.open = d.open /\ t.paths # <<>>
<1>1. CASE AtEnd(d)
  <2>1. t = d
    BY <1>1, NextSteady
  <2> QED BY <1>1, <2>1 DEF Steady
<1>2. CASE ~AtEnd(d) /\ t = Ends(d, "exception")
  <2>1. "exception" \in Statuses \ {"reading", "circular"}
    BY DEF Statuses
  <2> QED BY <1>2, <2>1, Stops
<1>3. CASE Moved(heap, d, t) /\ Steady(heap, root, t, k) /\ Fresh(heap, root, t)
  <2>1. Len(t.paths) = Len(d.paths) /\ t.open = d.open
    BY <1>3 DEF Moved
  <2>2. DeFits(heap, t) /\ DeFits(heap, d) /\ Reading(t)
    BY <1>3, SteadyParts DEF Steady
  <2>3. t.paths # <<>>
    BY <2>1, <2>2, DeParts
  <2> QED BY <1>3, <2>1, <2>2, <2>3
<1> QED BY <1>1, <1>2, <1>3, NextSteady

(* The requests of both types.                                             *)

(* The deserializer reads on: a value is due, or the path is not empty     *)
(* when a compound is open.                                                *)
LEMMA ReadsOn ==
  ASSUME Safe(heap, ser.root, de), Reading(de)
  PROVE  /\ Steady(heap, ser.root, de, 0) /\ DeFits(heap, de) /\ (de.ready => Fresh(heap, ser.root, de))
         /\ de.open # <<>> => de.paths # <<>>
         /\ de.open \in Seq(FrameKinds) /\ de.ready \in BOOLEAN
<1>1. Steady(heap, ser.root, de, 0) /\ (de.ready => Fresh(heap, ser.root, de))
  BY SafeReads
<1>2. DeFits(heap, de) /\ (de.open # <<>> => de.paths # <<>>)
  BY <1>1, SteadyParts
<1> QED BY <1>1, <1>2, DeParts

(* A value is taken from next, or next found an exception.                 *)
LEMMA TakesSafe ==
  ASSUME NEW root, NEW d, NEW k \in Nat,
         ~Reading(d) => Safe(heap, root, d), Reading(d) => Steady(heap, root, d, k) /\ Fresh(heap, root, d)
  PROVE  /\ Safe(heap, root, IF Reading(d) THEN Readied(d) ELSE d)
         /\ Reading(d) => Safe(heap, root, Readied(Advanced(d)))
<1>1. CASE Reading(d)
  <2>1. DeFits(heap, d)
    BY <1>1, SteadyParts
  <2>2. /\ IsSet(d, Readied(d), d.open, TRUE, d.at) /\ IsSet(d, Readied(Advanced(d)), d.open, TRUE, d.at + 1)
        /\ d.at \in Nat \ {0} /\ d.at + 1 \in Nat \ {0}
    BY <2>1, SettersSet
  <2> QED BY <1>1, <2>2, SameOpenSafe
<1>2. CASE ~Reading(d)
  BY <1>2
<1> QED BY <1>1, <1>2

LEMMA NextElementSafe ==
  ASSUME WellProxied(heap), Safe(heap, ser.root, de), NextElement
  PROVE  Safe(heap, ser.root, de')
<1> DEFINE d == next(de)
           t == IF Reading(d) THEN Readied(d) ELSE d
<1>1. Reading(de) /\ de.open # <<>> /\ de' = IF AtEnd(de) THEN Ends(de, "changed") ELSE t
  BY DEF NextElement, Typed, Readied
<1>2. Steady(heap, ser.root, de, 0) /\ de.paths # <<>>
  BY <1>1, ReadsOn
<1>3. "changed" \in Statuses \ {"reading", "circular"} /\ 0 \in Nat
  BY DEF Statuses
<1>4. Safe(heap, ser.root, Ends(de, "changed"))
  BY <1>2, <1>3, Stops
<1>5. ASSUME ~AtEnd(de)
      PROVE  Safe(heap, ser.root, t)
  <2>1. /\ ~Reading(d) => Safe(heap, ser.root, d)
        /\ Reading(d) => Steady(heap, ser.root, d, 0) /\ Fresh(heap, ser.root, d)
    BY <1>2, <1>3, <1>5, NextSafe
  <2> HIDE DEF d
  <2> QED BY <1>3, <2>1, TakesSafe
<1> QED BY <1>1, <1>4, <1>5

LEMMA NextKeySafe ==
  ASSUME WellProxied(heap), Safe(heap, ser.root, de), NextKey
  PROVE  Safe(heap, ser.root, de')
<1> DEFINE d == next(de)
           v == IF Reading(d) THEN next(d) ELSE d
<1>1. /\ Reading(de) /\ de.open # <<>>
      /\ de' = IF AtEnd(de) THEN Ends(de, "changed")
               ELSE IF Reading(d) /\ to_string(d.current.data) # Asked.data THEN Ends(d, "changed")
               ELSE IF Reading(v) THEN Readied(Advanced(v)) ELSE v
  BY DEF NextKey, Typed, Readied, Advanced
<1>2. Steady(heap, ser.root, de, 0) /\ de.paths # <<>>
  BY <1>1, ReadsOn
<1>3. "changed" \in Statuses \ {"reading", "circular"} /\ 0 \in Nat
  BY DEF Statuses
<1>4. Safe(heap, ser.root, Ends(de, "changed"))
  BY <1>2, <1>3, Stops
<1>5. ASSUME ~AtEnd(de)
      PROVE  /\ ~Reading(d) => Safe(heap, ser.root, d)
             /\ Reading(d) => /\ Steady(heap, ser.root, d, 0) /\ Fresh(heap, ser.root, d) /\ d.paths # <<>>
                              /\ Safe(heap, ser.root, Ends(d, "changed"))
  <2>1. /\ ~Reading(d) => Safe(heap, ser.root, d)
        /\ Reading(d) => Steady(heap, ser.root, d, 0) /\ Fresh(heap, ser.root, d) /\ d.paths # <<>>
    BY <1>2, <1>3, <1>5, NextSafe
  <2> HIDE DEF d
  <2> QED BY <1>3, <2>1, Stops
<1> HIDE DEF d
<1>6. ASSUME ~AtEnd(de)
      PROVE  /\ ~Reading(v) => Safe(heap, ser.root, v)
             /\ Reading(v) => Safe(heap, ser.root, Readied(Advanced(v)))
  <2>1. /\ ~Reading(v) => Safe(heap, ser.root, v)
        /\ Reading(v) => Steady(heap, ser.root, v, 0) /\ Fresh(heap, ser.root, v)
    <3>1. CASE Reading(d)
      <4>1. v = next(d)
        BY <3>1
      <4> HIDE DEF v
      <4> QED BY <1>3, <1>5, <1>6, <3>1, <4>1, NextSafe
    <3>2. CASE ~Reading(d)
      BY <1>5, <1>6, <3>2
    <3> QED BY <3>1, <3>2
  <2> HIDE DEF v
  <2> QED BY <1>3, <2>1, TakesSafe
<1> HIDE DEF v
<1>7. CASE AtEnd(de)
  <2>1. de' = Ends(de, "changed")
    BY <1>1, <1>7
  <2> QED BY <1>4, <2>1
<1>8. CASE ~AtEnd(de)
  <2>1. \/ Reading(d) /\ de' = Ends(d, "changed")
        \/ Reading(v) /\ de' = Readied(Advanced(v))
        \/ ~Reading(v) /\ de' = v
    BY <1>1, <1>8
  <2> QED BY <1>5, <1>6, <1>8, <2>1
<1> QED BY <1>7, <1>8

LEMMA LeaveSteady ==
  ASSUME WellProxied(heap), NEW root, NEW d, OnWalk(heap, root, d), d.paths # <<>>
  PROVE  /\ OnWalk(heap, root, leave(d)) /\ Outside(heap, d, leave(d)) /\ DeFits(heap, leave(d))
<1> DEFINE t == leave(d)
<1>1. DeFits(heap, d)
  BY DEF OnWalk
<1>2. t = leave(d)
  OBVIOUS
<1> HIDE DEF t
<1>3. Outside(heap, d, t)
  BY <1>1, <1>2, LeaveIs
<1>4. OnWalk(heap, root, t) /\ DeFits(heap, t)
  BY <1>3, LeaveWalks DEF Outside
<1> QED BY <1>2, <1>3, <1>4

(* A compound that ends is closed, and its container left.                 *)
LEMMA CloseSafe ==
  ASSUME WellProxied(heap), NEW root, NEW d, Steady(heap, root, d, 0), d.open # <<>>, ~d.ready,
         NEW u, u = (IF d.open[Len(d.open)] \in TwoDeep THEN leave(leave(d)) ELSE leave(d))
  PROVE  Safe(heap, root, Popped(Advanced(u))) /\ Safe(heap, root, Popped(u))
<1> DEFINE kind == d.open[Len(d.open)]
           open == SubSeq(d.open, 1, Len(d.open) - 1)
           k == Takes(kind)
<1>1. /\ DeFits(heap, d) /\ OnWalk(heap, root, d) /\ d.paths # <<>> /\ d.open \in Seq(FrameKinds)
      /\ Len(d.paths) \in Nat /\ Len(d.paths) + 1 >= DepthOf(d.open)
  <2>1. /\ DeFits(heap, d) /\ OnWalk(heap, root, d) /\ d.paths # <<>>
    BY SteadyParts
  <2>2. Len(d.paths) \in Nat /\ DepthOf(d.open) \in Nat
    BY <2>1, DeParts, DepthIs
  <2> QED BY <2>1, <2>2, DeParts DEF Steady, Slack
<1>2. open \in Seq(FrameKinds) /\ kind \in FrameKinds /\ DepthOf(d.open) = DepthOf(open) + k
  BY <1>1, DepthCloses
<1>3. k \in {1, 2} /\ (k = 2 <=> kind \in TwoDeep) /\ DepthOf(open) \in Nat /\ DepthOf(open) >= 1
  <2>1. DepthOf(open) \in Nat /\ DepthOf(open) >= Len(open) + 1 /\ Len(open) \in Nat
    <3> HIDE DEF open
    <3> QED BY <1>2, DepthIs
  <2> QED BY <2>1 DEF Takes
<1> HIDE DEF open, kind
<1>4. Len(d.paths) >= k
  BY <1>1, <1>2, <1>3
<1>5. OnWalk(heap, root, u) /\ Len(u.paths) = Len(d.paths) - k /\ u.open = d.open /\ u.ready = d.ready /\ u.status = d.status
  <2> DEFINE v == leave(d)
  <2>1. /\ OnWalk(heap, root, v) /\ DeFits(heap, v) /\ Len(v.paths) = Len(d.paths) - 1 /\ v.open = d.open
        /\ v.ready = d.ready /\ v.status = d.status
    <3>1. OnWalk(heap, root, v) /\ Outside(heap, d, v) /\ DeFits(heap, v)
      BY <1>1, LeaveSteady
    <3> HIDE DEF v
    <3> QED BY <3>1 DEF Outside
  <2> HIDE DEF v
  <2>2. CASE kind \in TwoDeep
    <3>1. v.paths # <<>>
      <4>1. Len(v.paths) >= 1
        BY <1>1, <1>3, <1>4, <2>1, <2>2
      <4> QED BY <2>1, <4>1, DeParts
    <3>2. u = leave(v)
      BY <2>2 DEF v, kind
    <3>3. OnWalk(heap, root, u) /\ Outside(heap, v, u)
      BY <2>1, <3>1, <3>2, LeaveSteady
    <3>4. Len(u.paths) = Len(v.paths) - 1 /\ u.open = v.open /\ u.ready = v.ready /\ u.status = v.status
      BY <3>3 DEF Outside
    <3>5. Len(u.paths) = Len(d.paths) - k
      BY <1>1, <1>3, <2>1, <2>2, <3>4
    <3> QED BY <2>1, <3>3, <3>4, <3>5
  <2>3. CASE kind \notin TwoDeep
    <3>1. u = v /\ k = 1
      BY <1>3, <2>3 DEF v, kind
    <3> QED BY <2>1, <3>1
  <2> QED BY <2>2, <2>3
<1>6. Safe(heap, root, Popped(Advanced(u))) /\ Safe(heap, root, Popped(u))
  <2>1. DeFits(heap, u) /\ ~u.ready /\ u.status = "reading"
    BY <1>5 DEF OnWalk, Steady, Reading
  <2>2. /\ IsSet(u, Popped(u), open, u.ready, u.at) /\ IsSet(u, Popped(Advanced(u)), open, u.ready, u.at + 1)
        /\ u.at + 1 \in Nat \ {0} /\ u.at \in Nat \ {0}
    <3> DEFINE q == SubSeq(u.open, 1, Len(u.open) - 1)
    <3>1. q = open
      BY <1>5, <2>1, DeParts DEF open
    <3> HIDE DEF q
    <3>2. /\ IsSet(u, Popped(u), q, u.ready, u.at) /\ IsSet(u, Popped(Advanced(u)), q, u.ready, u.at + 1)
          /\ u.at + 1 \in Nat \ {0} /\ u.at \in Nat \ {0}
      BY ONLY <2>1, SettersSet DEF q
    <3> QED BY <3>1, <3>2
  <2>3. ASSUME NEW at \in Nat \ {0}, NEW t, IsSet(u, t, open, u.ready, at)
        PROVE  Safe(heap, root, t)
    <3>1. DeFits(heap, t) /\ Kept(u, t) /\ t.open = open /\ t.ready = u.ready
      <4>1. u.ready \in BOOLEAN /\ open \in Seq(FrameKinds)
        BY <1>2, <2>1, DeParts
      <4> QED BY ONLY <2>1, <2>3, <4>1, SetIs
    <3>2. OnWalk(heap, root, t)
      BY <1>5, <3>1, KeptWalks
    <3>3. t.paths = u.paths /\ t.status = "reading"
      BY <2>1, <3>1 DEF Kept
    <3>4. Slack(t, 0)
      <4> DEFINE a == Len(d.paths)
                 b == DepthOf(d.open)
                 c == DepthOf(open)
      <4>1. a \in Nat /\ c \in Nat /\ b = c + k /\ a + 1 >= b /\ k \in Nat
        BY <1>1, <1>2, <1>3
      <4> HIDE DEF a, b, c, k
      <4>2. (a - k) + 1 >= c + 0
        BY <4>1
      <4> QED BY <1>5, <3>1, <3>3, <4>2 DEF Slack, a, c
    <3> QED BY <2>1, <3>1, <3>2, <3>3, <3>4 DEF Safe, Reading
  <2> QED BY <2>2, <2>3
<1> QED BY <1>6

LEMMA LeaveCompoundSafe ==
  ASSUME WellProxied(heap), Safe(heap, ser.root, de), LeaveCompound
  PROVE  Safe(heap, ser.root, de')
<1> DEFINE u == IF de.open[Len(de.open)] \in TwoDeep THEN leave(leave(de)) ELSE leave(de)
<1>1. /\ Reading(de) /\ de.open # <<>> /\ ~de.ready
      /\ de' = Ends(de, "changed") \/ de' = Popped(Advanced(u))
  BY DEF LeaveCompound, Typed, Popped, Advanced, Open
<1>2. Steady(heap, ser.root, de, 0)
  BY <1>1, ReadsOn
<1>3. "changed" \in Statuses \ {"reading", "circular"} /\ 0 \in Nat
  BY DEF Statuses
<1>4. Safe(heap, ser.root, Ends(de, "changed"))
  BY <1>2, <1>3, Stops
<1> HIDE DEF u
<1>5. Safe(heap, ser.root, Popped(Advanced(u)))
  BY <1>1, <1>2, CloseSafe DEF u
<1> QED BY <1>1, <1>4, <1>5

(* What follows a value.                                                   *)
LEMMA VisitStatus ==
  ASSUME NEW t, NEW v
  PROVE  Visit(t, v) \in {"same", "changed", "invalid type", "bigint overflow"}
<1>1. VisitNumber(t.kind, v) \in {"same", "invalid type", "bigint overflow"}
  BY DEF VisitNumber
<1> DEFINE a == t.kind \in Integer \cup {"f64"} /\ v.tag # "string"
           b == t.kind = "str" /\ v.tag = "string"
           c == t.kind = "unit" /\ v.tag \in {"null", "undefined"}
           e == t.kind = "unit_variant" /\ v.tag = "string"
<1>2. Integer = {"i32", "i64", "u32", "u64"}
  BY DEF Integer, Ranges
<1>3. CASE a
  <2>1. Visit(t, v) = LET r == VisitNumber(t.kind, v) IN IF r = "same" /\ v.data # t.data THEN "changed" ELSE r
    BY <1>2, <1>3 DEF Visit
  <2> QED BY <1>1, <2>1
<1>4. CASE ~a
  BY <1>2, <1>4 DEF Visit
<1> QED BY <1>3, <1>4

LEMMA AnswersSafe ==
  ASSUME Safe(heap, ser.root, de), Reading(de)
  PROVE  /\ Safe(heap, ser.root, Done(de))
         /\ de.ready => Safe(heap, ser.root, Advanced(de))
         /\ \A status \in Statuses \ {"reading", "circular"} : Safe(heap, ser.root, Ends(de, status))
<1>1. /\ Steady(heap, ser.root, de, 0) /\ DeFits(heap, de) /\ (de.ready => Fresh(heap, ser.root, de))
      /\ de.ready \in BOOLEAN
  BY ReadsOn
<1>2. /\ IsSet(de, Advanced(de), de.open, de.ready, de.at + 1)
      /\ IsSet(de, Done(de), de.open, FALSE, NextAt(de))
      /\ de.at + 1 \in Nat \ {0} /\ NextAt(de) \in Nat \ {0}
  BY <1>1, SettersSet
<1>3. 0 \in Nat /\ FALSE \in BOOLEAN
  OBVIOUS
<1>4. Safe(heap, ser.root, Done(de))
  <2>1. \A ready \in BOOLEAN : (ready => Fresh(heap, ser.root, de)) /\ IsSet(de, Done(de), de.open, ready, NextAt(de))
          => Safe(heap, ser.root, Done(de))
    BY <1>1, <1>2, <1>3, SameOpenSafe
  <2> QED BY <1>2, <1>3, <2>1
<1>5. de.ready => Safe(heap, ser.root, Advanced(de))
  <2>1. \A ready \in BOOLEAN : (ready => Fresh(heap, ser.root, de)) /\ IsSet(de, Advanced(de), de.open, ready, de.at + 1)
          => Safe(heap, ser.root, Advanced(de))
    BY <1>1, <1>2, <1>3, SameOpenSafe
  <2> QED BY <1>1, <1>2, <2>1
<1>6. ASSUME NEW status \in Statuses \ {"reading", "circular"}
      PROVE  Safe(heap, ser.root, Ends(de, status))
  BY <1>1, <1>3, Stops
<1> QED BY <1>4, <1>5, <1>6

LEMMA PlainRequests ==
  ASSUME Safe(heap, ser.root, de),
         \/ DeserializeScalar \/ DeserializeOption \/ DeserializeNewtypeStruct \/ DeserializeBytes \/ FromJsReturns
  PROVE  Safe(heap, ser.root, de')
<1>1. Reading(de)
  BY DEF DeserializeScalar, DeserializeOption, DeserializeNewtypeStruct, DeserializeBytes, FromJsReturns,
         ValueAsked, Typed
<1>2. /\ Safe(heap, ser.root, Done(de))
      /\ de.ready => Safe(heap, ser.root, Advanced(de))
      /\ \A status \in Statuses \ {"reading", "circular"} : Safe(heap, ser.root, Ends(de, status))
  BY <1>1, AnswersSafe
<1>3. {"same", "changed", "invalid type", "bigint overflow", "panic"} \subseteq Statuses \ {"reading", "circular"}
  BY DEF Statuses
<1>4. CASE DeserializeScalar
  <2> DEFINE r == Visit(Asked, ProxyTarget(heap, de.current))
  <2>1. de' = IF r = "same" THEN Done(de) ELSE Ends(de, r)
    BY <1>4 DEF DeserializeScalar
  <2>2. r \in Statuses \ {"reading", "circular"}
    BY <1>3, VisitStatus
  <2> HIDE DEF r
  <2> QED BY <1>2, <2>1, <2>2
<1>5. CASE DeserializeOption
  <2>1. de.ready /\ (de' = Done(de) \/ de' = Advanced(de) \/ de' = Ends(de, "changed"))
    BY <1>5 DEF DeserializeOption, ValueAsked, Advanced
  <2> QED BY <1>2, <1>3, <2>1
<1>6. CASE DeserializeNewtypeStruct
  <2>1. de.ready /\ de' = Advanced(de)
    BY <1>6 DEF DeserializeNewtypeStruct, ValueAsked, Advanced
  <2> QED BY <1>2, <2>1
<1>7. CASE DeserializeBytes \/ FromJsReturns
  <2>1. de' = Ends(de, "panic") \/ de' = Ends(de, "same")
    BY <1>7 DEF DeserializeBytes, FromJsReturns
  <2> QED BY <1>2, <1>3, <2>1
<1> QED BY <1>4, <1>5, <1>6, <1>7

(* A container was entered for a compound, which is opened.                *)
LEMMA OpensIs ==
  ASSUME NEW d, NEW kind, Reading(d)
  PROVE  Opens(d, kind) = Opened(d, kind)
BY DEF Opens, Opened

LEMMA ArrayIsNode ==
  ASSUME WellProxied(heap), NEW v, ValueFits(v, Len(heap)), is_array(heap, ProxyTarget(heap, v))
  PROVE  IsNode(v)
<1>1. IsNode(ProxyTarget(heap, v))
  BY DEF is_array
<1>2. is_proxy(heap, v) \/ ProxyTarget(heap, v) = v
  BY DEF ProxyTarget
<1> QED BY <1>1, <1>2 DEF is_proxy

LEMMA EnterCases ==
  ASSUME WellProxied(heap), NEW d, DeFits(heap, d)
  PROVE  /\ \/ enter_array(d) = Ends(d, "expected array")
            \/ IsNode(d.current) /\ enter_array(d) = Enters(d)
         /\ \/ enter_object(d) = Ends(d, "expected object")
            \/ IsNode(d.current) /\ enter_object(d) = Enters(d)
<1>1. is_array(heap, ProxyTarget(heap, d.current)) => IsNode(d.current)
  BY ArrayIsNode DEF DeFits
<1>2. is_object(heap, d.current) => IsNode(d.current)
  BY DEF is_object
<1>3. enter_array(d) = IF is_array(heap, ProxyTarget(heap, d.current)) THEN Enters(d) ELSE Ends(d, "expected array")
  BY DEF enter_array, enter, Enters
<1>4. enter_object(d) = IF is_object(heap, d.current) THEN Enters(d) ELSE Ends(d, "expected object")
  BY DEF enter_object, enter, Enters
<1> QED BY <1>1, <1>2, <1>3, <1>4

LEMMA EntersEither ==
  ASSUME WellProxied(heap), NEW root, NEW d, NEW k \in Nat, Steady(heap, root, d, k), Fresh(heap, root, d),
         NEW u, u = enter_array(d) \/ u = enter_object(d)
  PROVE  \/ ~Reading(u) /\ Safe(heap, root, u)
         \/ Steady(heap, root, u, k + 1) /\ Reading(u) /\ IsNode(u.current)
<1>1. "expected array" \in Statuses \ {"reading", "circular"} /\ "expected object" \in Statuses \ {"reading", "circular"}
  BY DEF Statuses
<1>2. DeFits(heap, d)
  BY SteadyParts
<1>3. PICK error \in Statuses \ {"reading", "circular"} : u = Ends(d, error) \/ (IsNode(d.current) /\ u = Enters(d))
  BY <1>1, <1>2, EnterCases
<1>4. \/ ~Reading(u) /\ Safe(heap, root, u)
      \/ Steady(heap, root, u, k + 1) /\ IsNode(d.current) /\ u.current = d.current
  BY <1>3, EnterSteady
<1> QED BY <1>4 DEF Steady

LEMMA EntersAndOpens ==
  ASSUME WellProxied(heap), NEW root, NEW d, NEW k \in Nat, Steady(heap, root, d, k), Fresh(heap, root, d),
         NEW kind \in FrameKinds, Takes(kind) <= k + 1, NEW u, u = enter_array(d) \/ u = enter_object(d)
  PROVE  Safe(heap, root, Opens(u, kind))
<1>1. \/ ~Reading(u) /\ Safe(heap, root, u)
      \/ Steady(heap, root, u, k + 1) /\ Reading(u)
  BY EntersEither
<1>2. CASE ~Reading(u)
  BY <1>1, <1>2 DEF Opens
<1>3. CASE Reading(u)
  <2>1. k + 1 \in Nat /\ Steady(heap, root, u, k + 1) /\ DeFits(heap, u) /\ FALSE \in BOOLEAN
    BY <1>1, <1>3, SteadyParts
  <2>2. IsSet(u, Opened(u, kind), Append(u.open, kind), FALSE, NextAt(u)) /\ NextAt(u) \in Nat \ {0}
    BY <2>1, SettersSet
  <2>3. \A ready \in BOOLEAN :
          (ready => Fresh(heap, root, u)) /\ IsSet(u, Opened(u, kind), Append(u.open, kind), ready, NextAt(u))
            => Safe(heap, root, Opened(u, kind))
    BY <2>1, <2>2, OpensSafe
  <2>4. Safe(heap, root, Opened(u, kind))
    BY <2>1, <2>2, <2>3
  <2> QED BY <1>3, <2>4, OpensIs
<1> QED BY <1>2, <1>3

LEMMA CompoundSafe ==
  ASSUME WellProxied(heap), Safe(heap, ser.root, de), DeserializeSeq \/ DeserializeMap
  PROVE  Safe(heap, ser.root, de')
<1>1. Reading(de) /\ de.ready
  BY DEF DeserializeSeq, DeserializeMap, ValueAsked, Typed
<1>2. /\ Steady(heap, ser.root, de, 0) /\ DeFits(heap, de) /\ Fresh(heap, ser.root, de)
      /\ ValueFits(de.current, Len(heap))
  BY <1>1, ReadsOn DEF DeFits
<1>3. CASE DeserializeSeq
  <2>1. de' = Opens(enter_array(de), "seq")
    BY <1>3 DEF DeserializeSeq
  <2>2. "seq" \in FrameKinds /\ Takes("seq") <= 0 + 1
    BY DEF FrameKinds, Takes, TwoDeep
  <2> QED BY <1>2, <2>1, <2>2, EntersAndOpens
<1>4. CASE DeserializeMap
  <2> DEFINE kind == Asked.kind
  <2>1. de' = Opens(enter_object(de), kind)
    BY <1>4 DEF DeserializeMap
  <2>2. kind = "map" \/ kind = "struct"
    BY <1>4 DEF DeserializeMap
  <2> HIDE DEF kind
  <2>3. kind \in FrameKinds /\ Takes(kind) <= 0 + 1
    BY ONLY <2>2 DEF FrameKinds, Takes, TwoDeep
  <2> QED BY <1>2, <2>1, <2>3, EntersAndOpens
<1> QED BY <1>3, <1>4

-----------------------------------------------------------------------------
(* Variants.                                                               *)

(* A variant has a name, which no container is taken for.                  *)
NamesAreText ==
  \A i \in DOMAIN tokens : tokens[i].kind \in TwoDeep \cup {"newtype_variant"} => tokens[i].data = Text

LEMMA NodeIsNoText ==
  ASSUME NEW N \in Nat, NEW v, ValueFits(v, N), IsNode(v)
  PROVE  to_string(v.data) # Text
<1>1. v.data \in Int
  BY DEF ValueFits, IsNode
<1>2. Text \in Strings /\ NulText \in Strings
  BY DEF Strings
<1>3. v.data # Text /\ v.data # NulText
  BY <1>1, <1>2, TextIsNoNumber
<1> QED BY <1>3 DEF to_string

(* The value after the name of a variant was asked for.                    *)
LEMMA NamedSafe ==
  ASSUME WellProxied(heap), NEW root, NEW d, Steady(heap, root, d, 1), IsNode(d.current),
         NEW name, name = next(d), NEW value, value = (IF Reading(name) THEN next(name) ELSE name)
  PROVE  /\ ~Reading(value) => Safe(heap, root, value)
         /\ Reading(value) => /\ Steady(heap, root, value, 1)
                              /\ to_string(name.current.data) = Text => Fresh(heap, root, value)
<1>1. d.paths # <<>> /\ DeFits(heap, d) /\ 1 \in Nat /\ Len(heap) \in Nat
  BY SteadyParts, HeapParts DEF WellProxied
<1>2. "exception" \in Statuses \ {"reading", "circular"}
  BY DEF Statuses
<1>3. to_string(d.current.data) # Text
  BY <1>1, NodeIsNoText DEF DeFits
<1>4. CASE AtEnd(d)
  <2>1. name = d /\ Reading(d)
    BY <1>1, <1>4, NextSteady DEF Steady
  <2>2. value = d
    BY <1>1, <1>4, <2>1, NextSteady
  <2> QED BY <1>3, <2>1, <2>2
<1>5. CASE ~AtEnd(d) /\ name = Ends(d, "exception") /\ name.status = "exception"
  <2>1. Safe(heap, root, name) /\ ~Reading(name)
    BY <1>1, <1>2, <1>5, Stops
  <2> QED BY <2>1
<1>6. CASE ~AtEnd(d) /\ Moved(heap, d, name) /\ Steady(heap, root, name, 1) /\ Fresh(heap, root, name)
  <2>1. Reading(name) /\ name.paths # <<>> /\ value = next(name)
    <3>1. name.paths # <<>>
      BY <1>1, <1>6, SteadyParts
    <3> QED BY <1>6, <3>1 DEF Steady
  <2> QED BY <1>1, <1>6, <2>1, NextSafe
<1> QED BY <1>1, <1>4, <1>5, <1>6, NextSteady

LEMMA VariantSafe ==
  ASSUME WellProxied(heap), SerInv, NamesAreText, Safe(heap, ser.root, de), DeserializeVariant
  PROVE  Safe(heap, ser.root, de')
<1> DEFINE root == ser.root
           d == enter_object(de)
           name == IF Reading(d) THEN next(d) ELSE d
           value == IF Reading(name) THEN next(name) ELSE name
           kind == Asked.kind
           same == to_string(name.current.data) = Asked.data
<1>1. /\ Reading(de) /\ de.ready /\ de.at <= Len(tokens) /\ kind \in TwoDeep \cup {"newtype_variant"}
      /\ de' = IF ~Reading(value) THEN value
               ELSE IF ~same THEN Ends(value, "changed")
               ELSE CASE kind = "newtype_variant" -> Readied(Opens(value, kind))
                      [] kind = "tuple_variant" -> Opens(enter_array(value), kind)
                      [] kind = "struct_variant" -> Opens(enter_object(value), kind)
  BY DEF DeserializeVariant, ValueAsked, Typed, Readied
<1>2. /\ Steady(heap, root, de, 0) /\ DeFits(heap, de) /\ Fresh(heap, root, de)
  BY <1>1, ReadsOn
<1>3. Asked.data = Text
  <2>1. de.at \in DOMAIN tokens
    BY <1>1, <1>2, DeParts DEF SerInv
  <2> QED BY <1>1, <2>1 DEF NamesAreText, Asked
<1>4. /\ {"expected array", "expected object", "changed"} \subseteq Statuses \ {"reading", "circular"}
      /\ 0 \in Nat /\ 1 \in Nat /\ 0 + 1 = 1 /\ 1 + 1 = 2
  BY DEF Statuses
<1>5. Steady(heap, root, de, 0) /\ Fresh(heap, root, de) /\ d = enter_object(de)
  BY <1>2
<1>6. \/ ~Reading(d) /\ Safe(heap, root, d)
      \/ Steady(heap, root, d, 1) /\ Reading(d) /\ IsNode(d.current)
  <2> HIDE DEF d, root
  <2>1. \/ ~Reading(d) /\ Safe(heap, root, d)
        \/ Steady(heap, root, d, 0 + 1) /\ Reading(d) /\ IsNode(d.current)
    BY <1>4, <1>5, EntersEither
  <2> QED BY <1>4, <2>1
<1> HIDE DEF d, root
<1>7. /\ ~Reading(value) => Safe(heap, root, value)
      /\ Reading(value) => Steady(heap, root, value, 1) /\ (same => Fresh(heap, root, value))
  <2>1. CASE Reading(d)
    <3>1. name = next(d)
      BY <2>1
    <3> HIDE DEF name
    <3>2. Steady(heap, root, d, 1) /\ IsNode(d.current)
      BY <1>6, <2>1
    <3>3. value = (IF Reading(name) THEN next(name) ELSE name)
      OBVIOUS
    <3> HIDE DEF value
    <3>4. /\ ~Reading(value) => Safe(heap, root, value)
          /\ Reading(value) => /\ Steady(heap, root, value, 1)
                               /\ to_string(name.current.data) = Text => Fresh(heap, root, value)
      BY <3>1, <3>2, <3>3, NamedSafe
    <3> QED BY <1>3, <3>4
  <2>2. CASE ~Reading(d)
    BY <1>6, <2>2
  <2> QED BY <2>1, <2>2
<1> HIDE DEF value, same
<1>8. CASE ~Reading(value)
  <2>1. de' = value
    BY <1>1, <1>8
  <2> QED BY <1>7, <1>8, <2>1 DEF root
<1>9. CASE Reading(value) /\ ~same
  <2>1. de' = Ends(value, "changed")
    BY <1>1, <1>9
  <2> QED BY <1>4, <1>7, <1>9, <2>1, Stops DEF root
<1>10. CASE Reading(value) /\ same
  <2>1. Steady(heap, root, value, 1) /\ Fresh(heap, root, value) /\ DeFits(heap, value)
    BY <1>4, <1>7, <1>10, SteadyParts
  <2>2. CASE kind = "newtype_variant"
    <3>1. de' = Readied(Opened(value, "newtype_variant"))
      BY <1>1, <1>10, <2>2, OpensIs
    <3>2. /\ IsSet(value, Readied(Opened(value, "newtype_variant")), Append(value.open, "newtype_variant"), TRUE, NextAt(value))
          /\ NextAt(value) \in Nat \ {0}
      BY <2>1, SettersSet
    <3>3. "newtype_variant" \in FrameKinds /\ Takes("newtype_variant") <= 1
      BY DEF FrameKinds, Takes, TwoDeep
    <3>4. \A ready \in BOOLEAN :
            IsSet(value, Readied(Opened(value, "newtype_variant")), Append(value.open, "newtype_variant"), ready, NextAt(value))
              => Safe(heap, root, Readied(Opened(value, "newtype_variant")))
      BY <1>4, <2>1, <3>2, <3>3, OpensSafe
    <3> QED BY <3>1, <3>2, <3>4 DEF root
  <2>3. CASE kind = "tuple_variant"
    <3>1. de' = Opens(enter_array(value), "tuple_variant")
      BY <1>1, <1>10, <2>3
    <3>2. "tuple_variant" \in FrameKinds /\ Takes("tuple_variant") <= 1 + 1
      BY DEF FrameKinds, Takes, TwoDeep
    <3> QED BY <1>4, <2>1, <3>1, <3>2, EntersAndOpens DEF root
  <2>4. CASE kind = "struct_variant"
    <3>1. de' = Opens(enter_object(value), "struct_variant")
      BY <1>1, <1>10, <2>4
    <3>2. "struct_variant" \in FrameKinds /\ Takes("struct_variant") <= 1 + 1
      BY DEF FrameKinds, Takes, TwoDeep
    <3> QED BY <1>4, <2>1, <3>1, <3>2, EntersAndOpens DEF root
  <2> QED BY <1>1, <2>2, <2>3, <2>4 DEF TwoDeep
<1> QED BY <1>8, <1>9, <1>10

-----------------------------------------------------------------------------
(* What has been read.                                                     *)

(* A type that takes any value goes through everything that can be read.   *)

(* Entry j was read of a container.                                        *)
Past(h, p, j) ==
  /\ j \in DOMAIN h[p.node].entries /\ IsNode(h[p.node].entries[j].value)
  /\ IF h[p.node].kind = "array" THEN j <= p.index ELSE 2 * j <= p.index
(* Container m is the one that is being read for container i of the path.  *)
Pending(h, d, i, m) ==
  IF i < Len(d.paths) THEN m = d.paths[i + 1].node
                      ELSE d.ready /\ IsNode(d.current) /\ m = ProxyTarget(h, d.current).data

(* F is what was read to the end.                                          *)
Explored(h, d, F) ==
  \A i \in 1..Len(d.paths) : \A j :
    Past(h, d.paths[i], j) =>
      \/ EntryTarget(h, d.paths[i].node, j) \in F
      \/ Pending(h, d, i, EntryTarget(h, d.paths[i].node, j))
KindFits(h, p, kind) ==
  IF h[p.node].kind = "array" THEN kind = "seq" ELSE kind = "map" /\ p.index % 2 = 0
Surveyed(h, root, d, F) ==
  /\ Explored(h, d, F)
  /\ d.paths = <<>> => IF d.ready THEN d.current = root ELSE StartOf(h, root) \subseteq F
  /\ Len(d.open) = Len(d.paths) /\ \A i \in 1..Len(d.paths) : KindFits(h, d.paths[i], d.open[i])

Sorting(h, F, rank, K) == Ranked(h, F, rank) /\ K \in Nat /\ \A n \in F : rank[n] < K
Explores(h, root, d) == \E F, rank, K : Sorting(h, F, rank, K) /\ Surveyed(h, root, d, F)
Sorted(h, root) == \E F, rank : Ranked(h, F, rank) /\ StartOf(h, root) \subseteq F

LEMMA ExploresAtFirst ==
  ASSUME NEW h, NEW root
  PROVE  Explores(h, root, NewDeserializer(root))
<1> DEFINE d == NewDeserializer(root)
           rank == [n \in DOMAIN h |-> 0]
<1>1. d.paths = <<>> /\ d.ready = TRUE /\ d.current = root /\ d.open = <<>>
  BY DEF NewDeserializer
<1>2. 1..Len(d.paths) = {}
  BY <1>1
<1>3. Surveyed(h, root, d, {})
  BY <1>1, <1>2 DEF Surveyed, Explored
<1>4. Sorting(h, {}, rank, 0)
  BY DEF Sorting, Ranked
<1> QED BY <1>3, <1>4 DEF Explores

LEMMA ScalarSurveyed ==
  ASSUME NEW h, WellProxied(h), NEW root, NEW d, DeFits(h, d), d.ready, ~IsNode(ProxyTarget(h, d.current)),
         NEW F, Surveyed(h, root, d, F), NEW t, Kept(d, t), t.open = d.open, ~t.ready
  PROVE  Surveyed(h, root, t, F)
<1>1. ~IsNode(d.current)
  BY TargetOfNode DEF DeFits
<1>2. t.paths = d.paths /\ t.current = d.current
  BY DEF Kept
<1>3. Explored(h, t, F)
  BY <1>1, <1>2 DEF Surveyed, Explored, Pending
<1>4. t.paths = <<>> => StartOf(h, root) \subseteq F
  BY <1>1, <1>2 DEF Surveyed, StartOf
<1> QED BY <1>2, <1>3, <1>4 DEF Surveyed

LEMMA EntriesCount ==
  ASSUME NEW h, WellProxied(h), NEW n \in Plain(h)
  PROVE  /\ DOMAIN h[n].entries = 1..Len(h[n].entries) /\ Len(h[n].entries) \in Nat
         /\ \A j \in DOMAIN h[n].entries : j \in Nat /\ j >= 1
<1>1. NodeFits(h[n], Len(h)) /\ h[n].entries \in Seq(Entries(JSValue))
  BY HeapParts DEF WellProxied, Plain
<1> DEFINE es == h[n].entries
<1>2. es \in Seq(Entries(JSValue))
  BY <1>1
<1> HIDE DEF es
<1>3. DOMAIN es = 1..Len(es) /\ Len(es) \in Nat /\ \A j \in DOMAIN es : j \in Nat /\ j >= 1
  BY <1>2
<1> QED BY <1>3 DEF es

LEMMA EnterSurveyed ==
  ASSUME NEW h, WellProxied(h), NEW root, NEW d, DeFits(h, d), d.ready, IsNode(d.current), NEW n, n = ProxyTarget(h, d.current).data,
         NEW F, Surveyed(h, root, d, F), NEW u, Inside(h, d, u, n),
         NEW kind, kind = (IF h[n].kind = "array" THEN "seq" ELSE "map"),
         NEW t, Kept(u, t), t.open = Append(d.open, kind), ~t.ready
  PROVE  Surveyed(h, root, t, F)
<1> DEFINE top == Len(d.paths)
           p == t.paths[top + 1]
<1>1. /\ top \in Nat /\ Len(t.paths) = top + 1 /\ \A i \in 1..top : t.paths[i] = d.paths[i]
      /\ p.node = n /\ p.index = 0 /\ t.current = d.current
  BY DeParts DEF Inside, Kept
<1>2. d.open \in Seq(FrameKinds) /\ Len(d.open) = top
  BY DeParts DEF Surveyed
<1>3. Len(t.open) = top + 1 /\ t.open[top + 1] = kind /\ \A i \in 1..top : t.open[i] = d.open[i]
  BY <1>1, <1>2
<1> HIDE DEF top
<1>4. ASSUME NEW i \in 1..top + 1
      PROVE  i \in 1..top \/ i = top + 1
  BY <1>1
<1>5. Explored(h, t, F)
  <2> SUFFICES ASSUME NEW i \in 1..top + 1, NEW j, Past(h, t.paths[i], j)
               PROVE  \/ EntryTarget(h, t.paths[i].node, j) \in F
                      \/ Pending(h, t, i, EntryTarget(h, t.paths[i].node, j))
    BY <1>1 DEF Explored
  <2>1. CASE i = top + 1
    <3>1. p.index = 0 /\ Past(h, p, j) /\ j \in DOMAIN h[n].entries
      BY <1>1, <2>1 DEF Past
    <3>2. n \in Plain(h)
      <4>1. top + 1 \in 1..Len(u.paths) /\ u.paths[top + 1].node = n /\ DeFits(h, u)
        BY <1>1 DEF Inside, top
      <4> QED BY <4>1 DEF DeFits
    <3>3. j \in Nat /\ j >= 1
      BY <3>1, <3>2, EntriesCount
    <3> HIDE DEF p
    <3>4. ~Past(h, p, j)
      BY <3>1, <3>3 DEF Past
    <3> QED BY <3>1, <3>4
  <2>2. CASE i \in 1..top
    <3> DEFINE m == EntryTarget(h, d.paths[i].node, j)
    <3>1. Past(h, d.paths[i], j) /\ t.paths[i] = d.paths[i]
      BY <1>1, <2>2
    <3>2. m \in F \/ Pending(h, d, i, m)
      BY <2>2, <3>1 DEF Surveyed, Explored, top
    <3>3. i < top + 1
      BY <1>1, <2>2
    <3>4. Pending(h, d, i, m) => m = t.paths[i + 1].node
      <4>1. CASE i < top
        <5>1. i + 1 \in 1..top
          BY <1>1, <2>2, <4>1
        <5> QED BY <1>1, <4>1, <5>1 DEF Pending, top
      <4>2. CASE ~(i < top)
        <5>1. i = top
          BY <1>1, <2>2, <4>2
        <5> QED BY <1>1, <4>2, <5>1 DEF Pending, top
      <4> QED BY <4>1, <4>2
    <3> QED BY <1>1, <3>1, <3>2, <3>3, <3>4 DEF Pending
  <2> QED BY <1>4, <2>1, <2>2
<1>6. \A i \in 1..top + 1 : KindFits(h, t.paths[i], t.open[i])
  <2> TAKE i \in 1..top + 1
  <2>1. CASE i = top + 1
    BY <1>1, <1>3, <2>1 DEF KindFits
  <2>2. CASE i \in 1..top
    BY <1>1, <1>3, <2>2 DEF Surveyed, top
  <2> QED BY <1>4, <2>1, <2>2
<1>7. t.paths # <<>>
  BY <1>1
<1> QED BY <1>1, <1>3, <1>5, <1>6, <1>7 DEF Surveyed

(* The next value of the innermost container was read.                     *)
Taken(h, d, t) ==
  LET top == Len(d.paths)
      p == t.paths[top]
  IN /\ Len(t.paths) = top /\ \A i \in 1..top - 1 : t.paths[i] = d.paths[i]
     /\ p.node = d.paths[top].node /\ t.open = d.open
     /\ h[p.node].kind = "array" \/ p.index % 2 = 0
     /\ \A j : Past(h, p, j) => \/ Past(h, d.paths[top], j)
                                \/ IsNode(t.current) /\ EntryTarget(h, p.node, j) = ProxyTarget(h, t.current).data

LEMMA TakenSurveyed ==
  ASSUME NEW h, NEW root, NEW d, DeFits(h, d), ~d.ready, d.paths # <<>>, NEW F, Surveyed(h, root, d, F),
         NEW v, Taken(h, d, v), NEW t, Kept(v, t), t.open = v.open, t.ready
  PROVE  Surveyed(h, root, t, F)
<1> DEFINE top == Len(d.paths)
           p == t.paths[top]
<1>1. top \in Nat /\ top >= 1 /\ top \in 1..top /\ \A i \in 1..top : i \in 1..top - 1 \/ i = top
  BY DeParts
<1>2. /\ Len(t.paths) = top /\ \A i \in 1..top - 1 : t.paths[i] = d.paths[i]
      /\ p.node = d.paths[top].node /\ t.open = d.open /\ t.current = v.current
      /\ h[p.node].kind = "array" \/ p.index % 2 = 0
      /\ \A j : Past(h, p, j) => \/ Past(h, d.paths[top], j)
                                 \/ IsNode(t.current) /\ EntryTarget(h, p.node, j) = ProxyTarget(h, t.current).data
  BY DEF Taken, Kept
<1> HIDE DEF top
<1>3. Explored(h, t, F)
  <2> SUFFICES ASSUME NEW i \in 1..top, NEW j, Past(h, t.paths[i], j)
               PROVE  \/ EntryTarget(h, t.paths[i].node, j) \in F
                      \/ Pending(h, t, i, EntryTarget(h, t.paths[i].node, j))
    BY <1>2 DEF Explored
  <2>1. CASE i = top
    <3>1. ~(top < top)
      BY <1>1
    <3>2. Past(h, d.paths[top], j) => EntryTarget(h, d.paths[top].node, j) \in F
      BY <1>1, <3>1 DEF Surveyed, Explored, Pending, top
    <3> QED BY <1>2, <2>1, <3>1, <3>2 DEF Pending
  <2>2. CASE i # top
    <3>1. i \in 1..top - 1 /\ i < top /\ t.paths[i] = d.paths[i]
      BY <1>1, <1>2, <2>2
    <3>2. i + 1 \in 1..top
      BY <1>1, <3>1
    <3>3. t.paths[i + 1].node = d.paths[i + 1].node
      BY <1>1, <1>2, <3>2
    <3>4. \/ EntryTarget(h, d.paths[i].node, j) \in F
          \/ Pending(h, d, i, EntryTarget(h, d.paths[i].node, j))
      BY <3>1 DEF Surveyed, Explored, top
    <3> QED BY <1>2, <3>1, <3>3, <3>4 DEF Pending, top
  <2> QED BY <2>1, <2>2
<1>4. \A i \in 1..top : KindFits(h, t.paths[i], t.open[i])
  <2> TAKE i \in 1..top
  <2>1. KindFits(h, d.paths[i], d.open[i])
    BY DEF Surveyed, top
  <2>2. CASE i = top
    BY <1>2, <2>1, <2>2 DEF KindFits
  <2>3. CASE i # top
    BY <1>1, <1>2, <2>1, <2>3
  <2> QED BY <2>2, <2>3
<1>5. t.paths # <<>> /\ Len(t.open) = top
  <2>1. Len(t.open) = top
    BY <1>2 DEF Surveyed, top
  <2> QED BY <1>1, <1>2, <2>1
<1> QED BY <1>2, <1>3, <1>4, <1>5 DEF Surveyed

LEMMA TopIs ==
  ASSUME NEW h, WellProxied(h), NEW d, DeFits(h, d), d.paths # <<>>
  PROVE  LET top == Len(d.paths)
             p == d.paths[top]
         IN  /\ top \in Nat /\ top >= 1 /\ top \in 1..top /\ p.node \in Plain(h) /\ p.index \in Nat
             /\ h[p.node].kind \in {"array", "object"}
             /\ DOMAIN h[p.node].entries = 1..Len(h[p.node].entries) /\ Len(h[p.node].entries) \in Nat
<1> DEFINE top == Len(d.paths)
<1>1. top \in Nat /\ top >= 1 /\ \A i \in 1..top : d.paths[i].index \in Nat
  BY DeParts
<1>2. top \in 1..top
  BY <1>1
<1>3. \A i \in 1..top : d.paths[i].node \in Plain(h)
  BY DEF DeFits
<1> HIDE DEF top
<1>4. d.paths[top].node \in Plain(h) /\ d.paths[top].index \in Nat
  BY <1>1, <1>2, <1>3
<1>5. h[d.paths[top].node].kind \in {"array", "object"}
  BY <1>4 DEF Plain
<1> QED BY <1>1, <1>2, <1>4, <1>5, EntriesCount DEF top

LEMMA ElementTaken ==
  ASSUME NEW h, WellProxied(h), NEW d, DeFits(h, d), d.paths # <<>>, h[d.paths[Len(d.paths)].node].kind = "array",
         NEW t, Moved(h, d, t)
  PROVE  Taken(h, d, t)
<1> DEFINE top == Len(d.paths)
           p == d.paths[top]
           q == t.paths[top]
           es == h[p.node].entries
<1>1. p.index \in Nat /\ DOMAIN es = 1..Len(es) /\ Len(es) \in Nat
  BY TopIs
<1>2. /\ Len(t.paths) = top /\ \A i \in 1..top - 1 : t.paths[i] = d.paths[i]
      /\ q.node = p.node /\ q.index = p.index + 1 /\ t.open = d.open
      /\ p.index + 1 \in DOMAIN es /\ t.current = es[p.index + 1].value
  BY DEF Moved, Given
<1> HIDE DEF es, p, q
<1>3. ASSUME NEW j, Past(h, q, j)
      PROVE  Past(h, p, j) \/ (IsNode(t.current) /\ EntryTarget(h, q.node, j) = ProxyTarget(h, t.current).data)
  <2>1. j \in DOMAIN es /\ IsNode(es[j].value) /\ j <= p.index + 1
    BY <1>2, <1>3 DEF Past, es, p
  <2>2. j <= p.index \/ j = p.index + 1
    BY <1>1, <2>1
  <2>3. CASE j <= p.index
    BY <2>1, <2>3 DEF Past, es, p
  <2>4. CASE j = p.index + 1
    BY <1>2, <2>1, <2>4 DEF EntryTarget, es
  <2> QED BY <2>2, <2>3, <2>4
<1> QED BY <1>2, <1>3 DEF Taken, p, q

LEMMA EvenIndex ==
  ASSUME NEW k \in Nat, k % 2 = 0, NEW c \in Nat, k < 2 * c
  PROVE  k + 1 < 2 * c /\ (k + 1) % 2 # 0 /\ (k + 2) % 2 = 0 /\ (k + 1) \div 2 = k \div 2 /\ k = 2 * (k \div 2)
<1>1. (k + 1) % 2 # 0 /\ (k + 2) % 2 = 0
  OBVIOUS
<1>2. (k + 1) \div 2 = k \div 2 /\ k = 2 * (k \div 2)
  OBVIOUS
<1>3. k + 1 < 2 * c
  <2> DEFINE a == k \div 2
  <2>1. a \in Nat /\ k = 2 * a
    BY <1>2
  <2> HIDE DEF a
  <2> QED BY <2>1
<1> QED BY <1>1, <1>2, <1>3

LEMMA Halved ==
  ASSUME NEW k \in Nat, k = 2 * (k \div 2), NEW j \in Nat, 2 * j <= k + 2
  PROVE  2 * j <= k \/ j = k \div 2 + 1
<1> DEFINE a == k \div 2
<1>1. a \in Nat
  OBVIOUS
<1>2. k = 2 * a
  OBVIOUS
<1> HIDE DEF a
<1>3. 2 * j <= k \/ j = a + 1
  BY <1>1, <1>2
<1> QED BY <1>3 DEF a

(* What next moves, in terms of the innermost container it moves in.       *)
LEMMA StepsOn ==
  ASSUME NEW h, NEW d, NEW t, Moved(h, d, t), NEW n, n = Len(d.paths)
  PROVE  /\ Len(t.paths) = n /\ \A i \in 1..n - 1 : t.paths[i] = d.paths[i]
         /\ t.paths[n].node = d.paths[n].node /\ t.paths[n].index = d.paths[n].index + 1
         /\ t.open = d.open /\ Given(h, d.paths[n], t.current)
BY DEF Moved

(* At an odd index the value of a member is due.                           *)
LEMMA GivenMember ==
  ASSUME NEW h, NEW r, NEW v, Given(h, r, v), h[r.node].kind # "array", r.index % 2 # 0,
         NEW es, h[r.node].entries = es, NEW m, r.index \div 2 = m
  PROVE  m + 1 \in DOMAIN es /\ v = es[m + 1].value
BY DEF Given

(* Of a member, the key comes first.                                       *)
LEMMA KeyTaken ==
  ASSUME NEW h, WellProxied(h), NEW d, DeFits(h, d), d.paths # <<>>,
         h[d.paths[Len(d.paths)].node].kind # "array", d.paths[Len(d.paths)].index % 2 = 0,
         NEW u, Moved(h, d, u)
  PROVE  /\ ~Spent(h, u.paths[Len(u.paths)])
         /\ \A t : Moved(h, u, t) => Taken(h, d, t)
<1> DEFINE top == Len(d.paths)
           p == d.paths[top]
           q == u.paths[top]
           k == p.index
           es == h[p.node].entries
           c == Len(es)
<1>1. top \in 1..top /\ k \in Nat /\ DOMAIN es = 1..c /\ c \in Nat
  BY TopIs
<1>2. /\ Len(u.paths) = top /\ \A i \in 1..top - 1 : u.paths[i] = d.paths[i]
      /\ q.node = p.node /\ q.index = k + 1 /\ u.open = d.open
      /\ k < 2 * c /\ DeFits(h, u)
  BY DEF Moved, Given
<1> HIDE DEF c
<1>3. k + 1 < 2 * c /\ (k + 1) % 2 # 0 /\ (k + 2) % 2 = 0 /\ (k + 1) \div 2 = k \div 2 /\ k = 2 * (k \div 2)
  <2>1. k \in Nat /\ k % 2 = 0 /\ c \in Nat /\ k < 2 * c
    BY <1>1, <1>2
  <2> HIDE DEF k
  <2> QED BY <2>1, EvenIndex
<1>4. ~Spent(h, u.paths[Len(u.paths)])
  <2>1. ~(k + 1 >= 2 * c)
    BY <1>1, <1>3
  <2> QED BY <1>2, <2>1 DEF Spent, c
<1>5. ASSUME NEW t, Moved(h, u, t)
      PROVE  Taken(h, d, t)
  <2> DEFINE r == t.paths[top]
             b == k \div 2 + 1
  <2>1. /\ Len(t.paths) = top /\ \A i \in 1..top - 1 : t.paths[i] = u.paths[i]
        /\ r.node = p.node /\ r.index = (k + 1) + 1 /\ t.open = d.open
        /\ b \in DOMAIN es /\ t.current = es[b].value
    <3>1. /\ Len(t.paths) = top /\ \A i \in 1..top - 1 : t.paths[i] = u.paths[i]
          /\ r.node = q.node /\ r.index = q.index + 1 /\ t.open = u.open
      BY <1>2, <1>5, StepsOn DEF top
    <3>2. Given(h, q, t.current)
      BY <1>2, <1>5, StepsOn DEF top
    <3>3. b \in DOMAIN es /\ t.current = es[b].value
      <4>1. h[q.node].kind # "array" /\ q.index % 2 # 0
        BY <1>2, <1>3
      <4>2. h[q.node].entries = es /\ q.index \div 2 = k \div 2
        BY <1>2, <1>3
      <4> HIDE DEF q, k, es
      <4> QED BY ONLY <3>2, <4>1, <4>2, GivenMember DEF b
    <3> QED BY ONLY <1>2, <3>1, <3>3
  <2>2. r.index % 2 = 0 /\ h[r.node].kind # "array" /\ h[p.node].kind # "array"
    BY <1>1, <1>3, <2>1
  <2> HIDE DEF es, p, r
  <2>3. ASSUME NEW j, Past(h, r, j)
        PROVE  Past(h, p, j) \/ (IsNode(t.current) /\ EntryTarget(h, r.node, j) = ProxyTarget(h, t.current).data)
    <3>1. j \in DOMAIN es /\ IsNode(es[j].value) /\ 2 * j <= k + 2
      <4>1. j \in DOMAIN es /\ IsNode(es[j].value) /\ 2 * j <= r.index
        BY <2>1, <2>2, <2>3 DEF Past, es
      <4> QED BY <1>1, <2>1, <4>1
    <3>2. j \in Nat
      BY <1>1, <3>1
    <3>3. 2 * j <= k \/ j = b
      <4>1. k \in Nat /\ k = 2 * (k \div 2) /\ 2 * j <= k + 2
        BY <1>1, <1>3, <3>1
      <4> QED BY <3>2, <4>1, Halved
    <3>4. CASE 2 * j <= k
      BY <2>2, <3>1, <3>4 DEF Past, es
    <3>5. CASE j = b
      BY <2>1, <3>1, <3>5 DEF EntryTarget, es
    <3> QED BY <3>3, <3>4, <3>5
  <2>4. \A i \in 1..top - 1 : t.paths[i] = d.paths[i]
    BY <1>2, <2>1
  <2>5. Len(t.paths) = top /\ r.node = p.node /\ t.open = d.open /\ r.index % 2 = 0
    BY <1>2, <2>1, <2>2
  <2>6. \A j : Past(h, r, j) => \/ Past(h, p, j)
                                \/ IsNode(t.current) /\ EntryTarget(h, r.node, j) = ProxyTarget(h, t.current).data
    BY <2>3
  <2> QED BY ONLY <2>4, <2>5, <2>6 DEF Taken, p, r
<1> QED BY <1>4, <1>5

LEMMA AllOfReadable ==
  ASSUME NEW h, NEW n, NEW F, \A j : Seen(h, n, j) => EntryTarget(h, n, j) \in F
  PROVE  ReadableIn(h, n) \subseteq F
BY DEF ReadableIn, Seen

(* Everything was read of the innermost container.                         *)
LEMMA SpentIsRead ==
  ASSUME NEW h, WellProxied(h), NEW d, DeFits(h, d), d.paths # <<>>, ~d.ready, Spent(h, d.paths[Len(d.paths)]),
         NEW F, Explored(h, d, F)
  PROVE  ReadableIn(h, d.paths[Len(d.paths)].node) \subseteq F
<1> DEFINE top == Len(d.paths)
           p == d.paths[top]
           n == p.node
           es == h[n].entries
<1>1. top \in 1..top /\ p.index \in Nat /\ DOMAIN es = 1..Len(es) /\ Len(es) \in Nat /\ top \in Nat
  BY TopIs
<1> SUFFICES ASSUME NEW j, Seen(h, n, j)
             PROVE  EntryTarget(h, n, j) \in F
  BY AllOfReadable
<1>2. j \in DOMAIN es /\ IsNode(es[j].value) /\ j \in Nat
  <2> HIDE DEF n
  <2>1. j \in DOMAIN es /\ IsNode(es[j].value)
    BY DEF Seen
  <2> HIDE DEF es
  <2> QED BY <1>1, <2>1
<1>3. Past(h, p, j)
  <2>1. CASE h[n].kind = "array"
    <3>1. \A k \in 1..j : es[k].value # Undefined
      BY <2>1 DEF Seen
    <3>2. p.index + 1 \in DOMAIN es => es[p.index + 1].value = Undefined
      BY <2>1 DEF Spent
    <3> HIDE DEF p
    <3>3. j <= p.index
      BY <1>1, <1>2, <3>1, <3>2
    <3> QED BY <1>2, <2>1, <3>3 DEF Past
  <2>2. CASE h[n].kind # "array"
    <3>1. p.index >= 2 * Len(es)
      BY <2>2 DEF Spent
    <3> DEFINE c == Len(es)
    <3>2. j <= c /\ c \in Nat /\ p.index \in Nat /\ p.index >= 2 * c
      BY <1>1, <1>2, <3>1
    <3> HIDE DEF c, p
    <3>3. 2 * j <= p.index
      BY <1>2, <3>2
    <3> QED BY <1>2, <2>2, <3>3 DEF Past
  <2> QED BY <2>1, <2>2
<1>4. ~(top < top)
  BY <1>1
<1> QED BY <1>1, <1>3, <1>4 DEF Explored, Pending

(* It is sorted last, if it was not before.                                *)
LEMMA SortedLast ==
  ASSUME NEW h, NEW F, NEW rank, NEW K, Sorting(h, F, rank, K), NEW n \in DOMAIN h, ReadableIn(h, n) \subseteq F
  PROVE  \E rank2, K2 : Sorting(h, F \cup {n}, rank2, K2)
<1>1. CASE n \in F
  <2>1. F \cup {n} = F
    BY <1>1
  <2> QED BY <2>1
<1>2. CASE n \notin F
  <2> DEFINE r == [x \in DOMAIN h |-> IF x = n THEN K ELSE rank[x]]
             G == F \cup {n}
  <2>1. K \in Nat /\ rank \in [DOMAIN h -> Nat] /\ F \subseteq DOMAIN h
    BY DEF Sorting, Ranked
  <2>2. r \in [DOMAIN h -> Nat] /\ r[n] = K /\ \A x \in F : r[x] = rank[x]
    BY <1>2, <2>1
  <2> HIDE DEF r
  <2>3. \A x \in F : rank[x] \in Nat /\ rank[x] < K
    BY <2>1 DEF Sorting
  <2>4. ASSUME NEW x \in G, NEW m \in ReadableIn(h, x)
        PROVE  m \in G /\ r[m] < r[x]
    <3>1. CASE x = n
      <4>1. m \in F
        BY <3>1
      <4> QED BY <2>2, <2>3, <3>1, <4>1
    <3>2. CASE x # n
      <4>1. x \in F /\ m \in F /\ rank[m] < rank[x]
        BY <3>2 DEF Sorting, Ranked
      <4> QED BY <2>2, <4>1
    <3> QED BY <3>1, <3>2
  <2>5. Ranked(h, G, r)
    BY <2>1, <2>2, <2>4 DEF Ranked
  <2>6. K + 1 \in Nat /\ \A x \in G : r[x] < K + 1
    <3>1. \A x \in G : r[x] \in Nat /\ r[x] <= K
      BY <2>1, <2>2, <2>3
    <3> QED BY <2>1, <3>1
  <2>7. Sorting(h, G, r, K + 1)
    BY <2>5, <2>6 DEF Sorting
  <2> QED BY <2>7
<1> QED BY <1>1, <1>2

LEMMA LeaveExplores ==
  ASSUME WellProxied(heap), NEW root, NEW d, OnWalk(heap, root, d), d.paths # <<>>, ~d.ready,
         Spent(heap, d.paths[Len(d.paths)]), NEW F, NEW rank, NEW K, Sorting(heap, F, rank, K),
         Surveyed(heap, root, d, F), NEW u, Outside(heap, d, u),
         NEW t, Kept(u, t), t.open = SubSeq(d.open, 1, Len(d.open) - 1), ~t.ready
  PROVE  Explores(heap, root, t)
<1> DEFINE top == Len(d.paths)
           n == d.paths[top].node
           G == F \cup {n}
<1>1. DeFits(heap, d) /\ Walks(heap, root, d)
  BY DEF OnWalk
<1>2. top \in Nat /\ top >= 1 /\ top \in 1..top /\ n \in DOMAIN heap
  BY <1>1, TopIs DEF Plain
<1>3. ReadableIn(heap, n) \subseteq F
  BY <1>1, SpentIsRead DEF Surveyed
<1>4. \E rank2, K2 : Sorting(heap, G, rank2, K2)
  <2> HIDE DEF n
  <2> QED BY <1>2, <1>3, SortedLast
<1>5. Len(t.paths) = top - 1 /\ \A i \in 1..top - 1 : t.paths[i] = d.paths[i]
  BY DEF Outside, Kept
<1>6. d.open \in Seq(FrameKinds) /\ Len(d.open) = top
  BY <1>1, DeParts DEF Surveyed
<1>7. Len(t.open) = top - 1 /\ \A i \in 1..top - 1 : t.open[i] = d.open[i]
  BY <1>2, <1>6
<1> HIDE DEF top
<1>8. Surveyed(heap, root, t, G)
  <2>1. Explored(heap, t, G)
    <3> SUFFICES ASSUME NEW i \in 1..top - 1, NEW j, Past(heap, t.paths[i], j)
                 PROVE  \/ EntryTarget(heap, t.paths[i].node, j) \in G
                        \/ Pending(heap, t, i, EntryTarget(heap, t.paths[i].node, j))
      BY <1>5 DEF Explored
    <3> DEFINE m == EntryTarget(heap, d.paths[i].node, j)
    <3>1. i \in 1..top /\ i < top /\ t.paths[i] = d.paths[i] /\ i \in Nat
      BY <1>2, <1>5
    <3>2. m \in F \/ m = d.paths[i + 1].node
      BY <3>1 DEF Surveyed, Explored, Pending, top
    <3>3. CASE m = d.paths[i + 1].node /\ i + 1 < top
      <4>1. i + 1 \in 1..top - 1 /\ i < top - 1
        BY <1>2, <3>1, <3>3
      <4>2. t.paths[i + 1].node = d.paths[i + 1].node
        BY <1>5, <4>1
      <4> QED BY <1>5, <3>1, <3>3, <4>1, <4>2 DEF Pending
    <3>4. CASE m = d.paths[i + 1].node /\ ~(i + 1 < top)
      <4>1. i + 1 = top
        BY <1>2, <3>1, <3>4
      <4> QED BY <3>1, <3>4, <4>1
    <3> QED BY <3>1, <3>2, <3>3, <3>4
  <2>2. t.paths = <<>> => StartOf(heap, root) \subseteq G
    <3> SUFFICES ASSUME t.paths = <<>>
                 PROVE  StartOf(heap, root) \subseteq G
      OBVIOUS
    <3>1. top = 1
      BY <1>2, <1>5
    <3>2. n \in StartOf(heap, root)
      <4>1. 1 \in 1..top /\ 1 - 1 = 0
        BY <3>1
      <4>2. d.paths[1].node \in Within(heap, root, d, 0)
        BY <1>1, <4>1 DEF Walks, top
      <4> QED BY <3>1, <4>2 DEF Within
    <3>3. StartOf(heap, root) = {n}
      <4> HIDE DEF n
      <4> QED BY <3>2 DEF StartOf
    <3> QED BY <3>3
  <2>3. \A i \in 1..top - 1 : KindFits(heap, t.paths[i], t.open[i])
    <3> TAKE i \in 1..top - 1
    <3>1. i \in 1..top
      BY <1>2
    <3>2. KindFits(heap, d.paths[i], d.open[i])
      BY <3>1 DEF Surveyed, top
    <3> QED BY <1>5, <1>7, <3>2
  <2> QED BY <1>5, <1>7, <2>1, <2>2, <2>3 DEF Surveyed
<1> QED BY <1>4, <1>8 DEF Explores

(* What the deserializer of a type that takes any value keeps.             *)
Goes(root, d) ==
  /\ Reading(d) => Explores(heap, root, d)
  /\ d.status = "same" => Sorted(heap, root)

LEMMA StopGoes ==
  ASSUME NEW root, NEW d, DeFits(heap, d), NEW status \in Statuses \ {"reading", "same"}
  PROVE  Goes(root, Ends(d, status)) /\ ~Reading(Ends(d, status))
<1>1. Ends(d, status).status = status
  BY StopIs
<1> QED BY <1>1 DEF Goes, Reading

LEMMA DoneIs ==
  ASSUME NEW h, NEW d, DeFits(h, d)
  PROVE  Kept(d, Done(d)) /\ Done(d).open = d.open /\ ~Done(d).ready
<1>1. d \in DeRecords
  BY DEF DeFits
<1> QED BY <1>1 DEF Done, DeRecords, Kept

LEMMA OpenedIs ==
  ASSUME NEW h, NEW d, DeFits(h, d), NEW kind
  PROVE  Kept(d, Opened(d, kind)) /\ Opened(d, kind).open = Append(d.open, kind) /\ ~Opened(d, kind).ready
<1>1. d \in DeRecords
  BY DEF DeFits
<1> QED BY <1>1 DEF Opened, Done, DeRecords, Kept

LEMMA OpenGoes ==
  ASSUME WellProxied(heap), NEW root, NEW d, DeFits(heap, d), d.ready, Reading(d), Explores(heap, root, d),
         NEW kind, kind \in {"seq", "map"},
         NEW u, u = enter_array(d) \/ u = enter_object(d),
         IsNode(d.current) => kind = (IF heap[ProxyTarget(heap, d.current).data].kind = "array" THEN "seq" ELSE "map")
  PROVE  Goes(root, Opens(u, kind))
<1> DEFINE n == ProxyTarget(heap, d.current).data
<1>1. PICK error \in {"expected array", "expected object"} : u = Ends(d, error) \/ (IsNode(d.current) /\ u = Enters(d))
  BY EnterCases
<1>2. {"expected array", "expected object", "circular"} \subseteq Statuses \ {"reading", "same"}
  BY DEF Statuses
<1> HIDE DEF n
<1>3. \/ \E status \in Statuses \ {"reading", "same"} : u = Ends(d, status)
      \/ IsNode(d.current) /\ Inside(heap, d, u, n)
  BY <1>1, <1>2, EnterIs DEF n
<1>4. ASSUME NEW status \in Statuses \ {"reading", "same"}, u = Ends(d, status)
      PROVE  Goes(root, Opens(u, kind))
  <2>1. Goes(root, Ends(d, status)) /\ ~Reading(Ends(d, status))
    BY StopGoes
  <2>2. Goes(root, u) /\ ~Reading(u)
    BY <1>4, <2>1
  <2> QED BY <2>2 DEF Opens
<1>5. CASE IsNode(d.current) /\ Inside(heap, d, u, n)
  <2> DEFINE t == Opens(u, kind)
             open == Append(d.open, kind)
  <2>1. DeFits(heap, u) /\ u.open = d.open /\ Reading(u)
    BY <1>5 DEF Inside, Reading
  <2>2. t = Opened(u, kind)
    BY <2>1, OpensIs
  <2>3. Kept(u, t) /\ t.open = open /\ ~t.ready
    BY <2>1, <2>2, OpenedIs
  <2> HIDE DEF t, open
  <2>7. PICK F, rank, K : Sorting(heap, F, rank, K) /\ Surveyed(heap, root, d, F)
    BY DEF Explores
  <2>8. Surveyed(heap, root, t, F)
    BY <1>5, <2>3, <2>7, EnterSurveyed DEF n, open
  <2>9. t.status = "reading"
    BY <2>1, <2>3 DEF Kept, Reading
  <2> QED BY <2>7, <2>8, <2>9 DEF Goes, Explores, t
<1> QED BY <1>3, <1>4, <1>5

LEMMA DeserializeAnyGoes ==
  ASSUME WellProxied(heap), Safe(heap, ser.root, de), Explores(heap, ser.root, de), DeserializeAny
  PROVE  Safe(heap, ser.root, de') /\ Goes(ser.root, de')
<1> DEFINE v == ProxyTarget(heap, de.current)
<1>1. Reading(de) /\ de.ready
  BY DEF DeserializeAny, Untyped
<1>2. Steady(heap, ser.root, de, 0) /\ DeFits(heap, de) /\ Fresh(heap, ser.root, de) /\ 0 \in Nat
  BY <1>1, ReadsOn
<1>3. /\ ~IsNode(v) => de' = Ends(de, "bigint overflow") \/ de' = Done(de)
      /\ IsNode(v) /\ is_array(heap, v) => de' = Opens(enter_array(de), "seq")
      /\ IsNode(v) /\ ~is_array(heap, v) => de' = Opens(enter_object(de), "map")
  BY DEF DeserializeAny
<1>4. {"bigint overflow"} \subseteq Statuses \ {"reading", "same", "circular"}
  BY DEF Statuses
<1>5. CASE ~IsNode(v) /\ de' = Ends(de, "bigint overflow")
  <2>1. Safe(heap, ser.root, Ends(de, "bigint overflow")) /\ Goes(ser.root, Ends(de, "bigint overflow"))
    BY <1>1, <1>2, <1>4, AnswersSafe, StopGoes
  <2> QED BY <1>5, <2>1
<1>6. CASE ~IsNode(v) /\ de' = Done(de)
  <2> DEFINE t == Done(de)
  <2>2. Safe(heap, ser.root, t)
    BY <1>1, AnswersSafe
  <2>5. Kept(de, t) /\ t.open = de.open /\ ~t.ready
    BY <1>2, DoneIs
  <2> HIDE DEF t, v
  <2>6. PICK F, rank, K : Sorting(heap, F, rank, K) /\ Surveyed(heap, ser.root, de, F)
    BY DEF Explores
  <2>7. Surveyed(heap, ser.root, t, F)
    BY <1>1, <1>2, <1>6, <2>5, <2>6, ScalarSurveyed DEF v
  <2>8. t.status = "reading"
    BY <1>1, <2>5 DEF Kept, Reading
  <2>9. Goes(ser.root, t)
    BY <2>6, <2>7, <2>8 DEF Goes, Explores
  <2> QED BY <1>6, <2>2, <2>9 DEF t
<1>7. CASE IsNode(v)
  <2> DEFINE kind == IF is_array(heap, v) THEN "seq" ELSE "map"
             u == IF is_array(heap, v) THEN enter_array(de) ELSE enter_object(de)
  <2>1. de' = Opens(u, kind)
    BY <1>3, <1>7
  <2>2. kind \in {"seq", "map"} /\ (u = enter_array(de) \/ u = enter_object(de))
    OBVIOUS
  <2>3. kind = (IF heap[ProxyTarget(heap, de.current).data].kind = "array" THEN "seq" ELSE "map")
    BY <1>7 DEF is_array
  <2> HIDE DEF kind, u, v
  <2>4. kind \in FrameKinds /\ Takes(kind) <= 0 + 1
    BY ONLY <2>2 DEF FrameKinds, Takes, TwoDeep
  <2>5. Safe(heap, ser.root, Opens(u, kind))
    BY <1>2, <2>2, <2>4, EntersAndOpens
  <2>6. Goes(ser.root, Opens(u, kind))
    BY <1>1, <1>2, <2>2, <2>3, OpenGoes
  <2> QED BY <2>1, <2>5, <2>6
<1> QED BY <1>3, <1>5, <1>6, <1>7

(* Of a type that takes any value, what is open fits the container.        *)
LEMMA OpenFits ==
  ASSUME NEW h, NEW root, NEW d, DeFits(h, d), NEW F, Surveyed(h, root, d, F), d.open # <<>>
  PROVE  d.paths # <<>> /\ KindFits(h, d.paths[Len(d.paths)], d.open[Len(d.open)])
<1>1. Len(d.open) = Len(d.paths) /\ \A i \in 1..Len(d.paths) : KindFits(h, d.paths[i], d.open[i])
  BY DEF Surveyed
<1>2. Len(d.open) \in Nat /\ Len(d.open) >= 1
  <2>1. d.open \in Seq(FrameKinds)
    BY DeParts
  <2> DEFINE open == d.open
  <2>2. open \in Seq(FrameKinds) /\ open # <<>>
    BY <2>1
  <2> HIDE DEF open
  <2>3. Len(open) \in Nat /\ Len(open) >= 1
    BY <2>2
  <2> QED BY <2>3 DEF open
<1>3. Len(d.paths) \in 1..Len(d.paths) /\ d.paths # <<>>
  BY <1>1, <1>2
<1> QED BY <1>1, <1>3

LEMMA ReadiedIs ==
  ASSUME NEW h, NEW d, DeFits(h, d)
  PROVE  Kept(d, Readied(d)) /\ Readied(d).open = d.open /\ Readied(d).ready
<1>1. d \in DeRecords
  BY DEF DeFits
<1> QED BY <1>1 DEF Readied, DeRecords, Kept

LEMMA PoppedIs ==
  ASSUME NEW h, NEW d, DeFits(h, d)
  PROVE  /\ Kept(d, Popped(d)) /\ Popped(d).open = SubSeq(d.open, 1, Len(d.open) - 1)
         /\ Popped(d).ready = d.ready
<1>1. d \in DeRecords
  BY DEF DeFits
<1> QED BY <1>1 DEF Popped, DeRecords, Kept

LEMMA AnyNextGoes ==
  ASSUME WellProxied(heap), Safe(heap, ser.root, de), Explores(heap, ser.root, de), AnyNext
  PROVE  Safe(heap, ser.root, de') /\ Goes(ser.root, de')
<1> DEFINE d == next(de)
           v == IF Reading(d) /\ Open = "map" THEN next(d) ELSE d
           t == IF Reading(v) THEN Readied(v) ELSE v
           top == de.paths[Len(de.paths)]
<1>1. Reading(de) /\ ~de.ready /\ de.open # <<>> /\ ~AtEnd(de) /\ de' = t
  BY DEF AnyNext, Untyped, Readied
<1>2. Steady(heap, ser.root, de, 0) /\ DeFits(heap, de) /\ de.paths # <<>> /\ 0 \in Nat
  BY <1>1, ReadsOn
<1>3. PICK F, rank, K : Sorting(heap, F, rank, K) /\ Surveyed(heap, ser.root, de, F)
  BY DEF Explores
<1>4. KindFits(heap, top, Open)
  BY <1>1, <1>2, <1>3, OpenFits DEF Open
<1>5. /\ ~Reading(d) => Safe(heap, ser.root, d)
      /\ Reading(d) => Steady(heap, ser.root, d, 0) /\ Fresh(heap, ser.root, d) /\ d.open = de.open /\ d.paths # <<>>
  BY <1>1, <1>2, NextSafe
<1>6. (d = Ends(de, "exception") /\ d.status = "exception") \/ Moved(heap, de, d)
  BY <1>1, <1>2, NextSteady
<1> HIDE DEF d
<1>7. ASSUME Reading(d)
      PROVE  Moved(heap, de, d) /\ DeFits(heap, d)
  BY <1>6, <1>7 DEF Reading, Moved
<1>8. /\ ~Reading(v) => Safe(heap, ser.root, v) /\ v.status = "exception"
      /\ Reading(v) => /\ Steady(heap, ser.root, v, 0) /\ Fresh(heap, ser.root, v)
                       /\ Taken(heap, de, v) /\ DeFits(heap, v)
  <2>1. CASE ~Reading(d)
    <3>1. v = d
      BY <2>1
    <3>2. d.status = "exception"
      BY <1>1, <1>6, <2>1 DEF Moved, Reading
    <3> QED BY <1>5, <2>1, <3>1, <3>2
  <2>2. CASE Reading(d) /\ Open # "map"
    <3>1. v = d
      BY <2>2
    <3>2. heap[top.node].kind = "array"
      BY <1>4, <2>2 DEF KindFits
    <3>3. Taken(heap, de, d)
      BY <1>2, <1>7, <2>2, <3>2, ElementTaken
    <3> QED BY <1>5, <1>7, <2>2, <3>1, <3>3
  <2>3. CASE Reading(d) /\ Open = "map"
    <3>1. v = next(d)
      BY <2>3
    <3>2. heap[top.node].kind # "array" /\ top.index % 2 = 0
      BY <1>4, <2>3 DEF KindFits
    <3>3. /\ ~Spent(heap, d.paths[Len(d.paths)])
          /\ \A x : Moved(heap, d, x) => Taken(heap, de, x)
      BY <1>2, <1>7, <2>3, <3>2, KeyTaken
    <3> HIDE DEF v
    <3>4. ~AtEnd(d)
      BY <1>5, <1>7, <2>3, <3>1, <3>3, NextIs
    <3>5. v.status = "exception" \/ Moved(heap, d, v)
      BY <1>2, <1>5, <2>3, <3>1, <3>4, NextSteady
    <3>6. /\ ~Reading(v) => Safe(heap, ser.root, v)
          /\ Reading(v) => Steady(heap, ser.root, v, 0) /\ Fresh(heap, ser.root, v)
      BY <1>2, <1>5, <2>3, <3>1, <3>4, NextSafe
    <3>7. Reading(v) => Moved(heap, d, v)
      BY <3>5 DEF Reading
    <3>8. ~Reading(v) => v.status = "exception"
      BY <2>3, <3>5 DEF Moved, Reading
    <3> QED BY <3>3, <3>6, <3>7, <3>8 DEF Moved
  <2> QED BY <2>1, <2>2, <2>3
<1> HIDE DEF v
<1>9. Safe(heap, ser.root, t)
  BY <1>2, <1>8, TakesSafe
<1>10. Goes(ser.root, t)
  <2>1. CASE ~Reading(v)
    BY <1>8, <2>1 DEF Goes, Reading
  <2>2. CASE Reading(v)
    <3>1. Kept(v, t) /\ t.open = v.open /\ t.ready
      BY <1>8, <2>2, ReadiedIs
    <3> HIDE DEF t
    <3>2. Surveyed(heap, ser.root, t, F)
      BY <1>1, <1>2, <1>3, <1>8, <2>2, <3>1, TakenSurveyed
    <3>3. t.status = "reading"
      BY <2>2, <3>1 DEF Kept, Reading
    <3> QED BY <1>3, <3>2, <3>3 DEF Goes, Explores
  <2> QED BY <2>1, <2>2
<1> QED BY <1>1, <1>9, <1>10

LEMMA AnyLeavesGoes ==
  ASSUME WellProxied(heap), Safe(heap, ser.root, de), Explores(heap, ser.root, de), AnyLeaves
  PROVE  Safe(heap, ser.root, de') /\ Goes(ser.root, de')
<1> DEFINE u == leave(de)
           t == Popped(u)
<1>1. Reading(de) /\ ~de.ready /\ de.open # <<>> /\ AtEnd(de)
  BY DEF AnyLeaves, Untyped
<1>2. /\ Steady(heap, ser.root, de, 0) /\ DeFits(heap, de) /\ de.paths # <<>> /\ 0 \in Nat
      /\ OnWalk(heap, ser.root, de)
  BY <1>1, ReadsOn DEF Steady
<1>3. PICK F, rank, K : Sorting(heap, F, rank, K) /\ Surveyed(heap, ser.root, de, F)
  BY DEF Explores
<1>4. Open \notin TwoDeep
  <2>1. KindFits(heap, de.paths[Len(de.paths)], Open)
    BY <1>1, <1>2, <1>3, OpenFits DEF Open
  <2> QED BY <2>1 DEF KindFits, TwoDeep
<1>5. Safe(heap, ser.root, t)
  <2>1. u = (IF de.open[Len(de.open)] \in TwoDeep THEN leave(leave(de)) ELSE leave(de))
    BY <1>4 DEF Open
  <2> HIDE DEF u
  <2> QED BY <1>1, <1>2, <2>1, CloseSafe
<1>6. Spent(heap, de.paths[Len(de.paths)])
  BY <1>1, <1>2, NextIs
<1>7. Outside(heap, de, u) /\ DeFits(heap, u)
  BY <1>2, LeaveSteady
<1>8. de' = t
  <2>1. de' = [u EXCEPT !.open = SubSeq(@, 1, Len(@) - 1)]
    BY DEF AnyLeaves
  <2> QED BY <2>1 DEF Popped
<1> HIDE DEF u
<1>9. Kept(u, t) /\ t.open = SubSeq(u.open, 1, Len(u.open) - 1) /\ t.ready = u.ready
  BY <1>7, PoppedIs
<1> HIDE DEF t
<1>10. u.open = de.open /\ u.ready = de.ready /\ u.status = de.status
  BY <1>7 DEF Outside
<1>11. Explores(heap, ser.root, t)
  BY <1>1, <1>2, <1>3, <1>6, <1>7, <1>9, <1>10, LeaveExplores
<1>12. t.status = "reading"
  BY <1>1, <1>9, <1>10 DEF Kept, Reading
<1> QED BY <1>5, <1>8, <1>11, <1>12 DEF Goes

LEMMA AnyReturnsGoes ==
  ASSUME Safe(heap, ser.root, de), Explores(heap, ser.root, de), AnyReturns
  PROVE  Safe(heap, ser.root, de') /\ Goes(ser.root, de')
<1>1. Reading(de) /\ ~de.ready /\ de.open = <<>> /\ de' = Ends(de, "same")
  BY DEF AnyReturns, Untyped
<1>2. DeFits(heap, de)
  BY <1>1, ReadsOn
<1>3. "same" \in Statuses \ {"reading", "circular"} /\ "same" \in Statuses
  BY DEF Statuses
<1>4. Safe(heap, ser.root, Ends(de, "same"))
  BY <1>1, <1>3, AnswersSafe
<1>5. Ends(de, "same").status = "same"
  BY <1>2, <1>3, StopIs
<1>6. PICK F, rank, K : Sorting(heap, F, rank, K) /\ Surveyed(heap, ser.root, de, F)
  BY DEF Explores
<1>7. de.paths = <<>>
  <2>1. Len(de.paths) = 0
    BY <1>1, <1>6 DEF Surveyed
  <2>2. de.paths \in Seq(Items)
    BY <1>2, DeParts
  <2> DEFINE q == de.paths
  <2>3. q \in Seq(Items) /\ Len(q) = 0
    BY <2>1, <2>2
  <2> HIDE DEF q
  <2>4. q = <<>>
    BY <2>3
  <2> QED BY <2>4 DEF q
<1>8. StartOf(heap, ser.root) \subseteq F
  BY <1>1, <1>6, <1>7 DEF Surveyed
<1>9. Sorted(heap, ser.root)
  BY <1>6, <1>8 DEF Sorted, Sorting
<1> QED BY <1>1, <1>4, <1>5, <1>9 DEF Goes, Reading

-----------------------------------------------------------------------------
(* The two together.                                                       *)

(* The inductive invariant of from_js.                                     *)

LEMMA SaysNames ==
  ASSUME tokens \in Seq(TokenSet), NamesAreText, NEW t \in TokenSet, Says(t),
         t.kind \in TwoDeep \cup {"newtype_variant"} => t.data = Text
  PROVE  NamesAreText'
<1> DEFINE k == Len(tokens)
<1>1. /\ k \in Nat /\ DOMAIN tokens = 1..k /\ DOMAIN tokens' = 1..k + 1
      /\ tokens'[k + 1] = t /\ \A i \in 1..k : tokens'[i] = tokens[i]
  BY DEF Says
<1> HIDE DEF k
<1>2. \A i \in 1..k + 1 : i \in 1..k \/ i = k + 1
  BY <1>1
<1>3. ASSUME NEW i \in 1..k + 1, tokens'[i].kind \in TwoDeep \cup {"newtype_variant"}
      PROVE  tokens'[i].data = Text
  <2>1. CASE i \in 1..k
    BY <1>1, <1>3, <2>1 DEF NamesAreText
  <2>2. CASE i = k + 1
    BY <1>1, <1>3, <2>2
  <2> QED BY <1>2, <2>1, <2>2
<1> QED BY <1>1, <1>3 DEF NamesAreText

(* Only serialize_..._variant gives the name of one.                       *)
LEMMA NamesStay ==
  ASSUME SerInv, NamesAreText, [Next]_vars
  PROVE  NamesAreText'
<1> DEFINE Others == {"i32", "i64", "u32", "u64", "f64", "str", "none", "unit", "unit_variant", "some",
                      "newtype_struct", "bytes", "key", "other_key", "end", "seq", "map", "struct"}
<1>1. tokens \in Seq(TokenSet)
  BY DEF SerInv
<1>2. ASSUME NEW t \in TokenSet, t.kind \in Others, Says(t)
      PROVE  NamesAreText'
  <2>1. t.kind \notin TwoDeep \cup {"newtype_variant"}
    BY <1>2 DEF TwoDeep
  <2> QED BY <1>1, <1>2, <2>1, SaysNames
<1>3. CASE UNCHANGED tokens
  BY <1>3 DEF NamesAreText
<1>4. CASE Serialize
  <2>1. ASSUME NEW t \in Scalars, SerializeScalar(t)
        PROVE  NamesAreText'
    <3>1. t \in TokenSet /\ Says(t)
      BY <2>1, ScalarsAreTokens DEF SerializeScalar
    <3>2. t.kind \in {"i32", "i64", "u32", "u64", "f64", "str", "none", "unit", "unit_variant"}
      BY NumbersAssumption DEF Scalars, Token
    <3> QED BY <1>2, <3>1, <3>2
  <2>2. ASSUME NEW kind \in Wrappers, SerializeWrapper(kind)
        PROVE  NamesAreText'
    <3> DEFINE t == Token(kind, None)
    <3>1. t \in TokenSet /\ t.kind \in Others
      BY DEF Token, TokenSet, TokenKinds, Wrappers
    <3>2. Says(t)
      BY <2>2 DEF SerializeWrapper
    <3> HIDE DEF t
    <3> QED BY <1>2, <3>1, <3>2
  <2>3. ASSUME NEW kind \in {"seq", "map", "struct"}, SerializeCompound(kind)
        PROVE  NamesAreText'
    <3> DEFINE t == Token(kind, None)
    <3>1. t \in TokenSet /\ t.kind \in Others
      BY DEF Token, TokenSet, TokenKinds, FrameKinds
    <3>2. Says(t)
      BY <2>3 DEF SerializeCompound
    <3> HIDE DEF t
    <3> QED BY <1>2, <3>1, <3>2
  <2>4. ASSUME NEW kind \in TwoDeep \cup {"newtype_variant"}, SerializeVariant(kind)
        PROVE  NamesAreText'
    <3> DEFINE t == Token(kind, Text)
    <3>1. t \in TokenSet /\ t.data = Text
      BY DEF Token, TokenSet, TokenKinds, FrameKinds, TwoDeep, Strings
    <3>2. Says(t)
      BY <2>4 DEF SerializeVariant
    <3> HIDE DEF t
    <3> QED BY <1>1, <3>1, <3>2, SaysNames
  <2>5. ASSUME NEW text \in Strings, SerializeKey(text)
        PROVE  NamesAreText'
    <3> DEFINE t == Token("key", text)
    <3>1. t \in TokenSet /\ t.kind \in Others
      BY DEF Token, TokenSet, TokenKinds
    <3>2. Says(t)
      BY <2>5 DEF SerializeKey
    <3> HIDE DEF t
    <3> QED BY <1>2, <3>1, <3>2
  <2>6. ASSUME NEW kind \in {"bytes", "other_key", "end"}, Says(Token(kind, None))
        PROVE  NamesAreText'
    <3> DEFINE t == Token(kind, None)
    <3>1. t \in TokenSet /\ t.kind \in Others
      BY DEF Token, TokenSet, TokenKinds
    <3>2. Says(t)
      BY <2>6
    <3> HIDE DEF t
    <3> QED BY <1>2, <3>1, <3>2
  <2>7. CASE SerializeBytes
    BY <2>6, <2>7 DEF SerializeBytes
  <2>8. CASE \E container \in BOOLEAN : SerializeOtherKey(container)
    BY <2>6, <2>8 DEF SerializeOtherKey
  <2>9. CASE SerializeEnd
    BY <2>6, <2>9 DEF SerializeEnd
  <2>10. CASE ToJsReturns \/ ToJsFails
    BY <1>3, <2>10 DEF ToJsReturns, ToJsFails
  <2> QED BY <1>4, <2>1, <2>2, <2>3, <2>4, <2>5, <2>7, <2>8, <2>9, <2>10 DEF Serialize
<1>5. CASE FromJs \/ Deserialize \/ UNCHANGED vars
  BY <1>3, <1>5 DEF FromJs, Deserialize, vars, serVars
<1> QED BY <1>4, <1>5 DEF Next

(* Before from_js, and as it begins.                                       *)
Waiting == Ends(NewDeserializer(Undefined), "none")

LEMMA BeginsSafe ==
  ASSUME NEW h, NEW root, NEW N, N = Len(h), ValueFits(root, N)
  PROVE  Safe(h, root, NewDeserializer(root)) /\ NewDeserializer(root).status = "reading"
<1> DEFINE d == NewDeserializer(root)
<1>1. /\ d.paths = <<>> /\ d.current = root /\ d.open = <<>> /\ d.ready = TRUE /\ d.at = 1 /\ d.status = "reading"
  BY DEF NewDeserializer
<1>2. 1..Len(d.paths) = {} /\ Len(d.paths) = 0
  BY <1>1
<1>3. d \in DeRecords
  <2>1. root \in JSValue /\ <<>> \in Seq(Items) /\ <<>> \in Seq(FrameKinds) /\ 1 \in Nat \ {0} /\ "reading" \in Statuses
    BY DEF Statuses, ValueFits
  <2> QED BY <2>1 DEF DeRecords, NewDeserializer
<1> HIDE DEF d
<1>4. DeFits(h, d)
  BY <1>1, <1>2, <1>3 DEF DeFits
<1>5. OnWalk(h, root, d)
  BY <1>2, <1>4 DEF OnWalk, Walks
<1>6. Fresh(h, root, d)
  BY <1>1, <1>2 DEF Fresh, Within, StartOf
<1>7. Slack(d, 0)
  <2>1. d.open \in Seq(FrameKinds)
    BY <1>1
  <2>2. DepthOf(d.open) = 1
    BY <1>1, <2>1, DepthIs
  <2> QED BY <1>2, <2>2 DEF Slack
<1>8. d.status # "circular"
  BY <1>1
<1>9. Safe(h, root, d)
  BY <1>4, <1>5, <1>6, <1>7, <1>8 DEF Safe
<1> QED BY <1>1, <1>9 DEF d

LEMMA WaitingIsSafe ==
  ASSUME NEW h, NEW root
  PROVE  Safe(h, root, Waiting) /\ Waiting.status = "none"
<1> DEFINE d == NewDeserializer(Undefined)
<1>1. \A N : ValueFits(Undefined, N)
  BY NewFits, UndefinedIsNoNode DEF ValueFits, Undefined, Value
<1>2. Safe(h, Undefined, d)
  BY <1>1, BeginsSafe
<1>3. DeFits(h, d) /\ Slack(d, 0)
  BY <1>2 DEF Safe
<1>4. "none" \in Statuses \ {"reading"} /\ "none" # "circular" /\ "none" \in Statuses
  BY DEF Statuses
<1> HIDE DEF d
<1>5. Safe(h, root, Ends(d, "none")) /\ Ends(d, "none").status = "none"
  BY <1>3, <1>4, StopIsSafe, StopIs
<1> QED BY <1>5 DEF Waiting, d

(* What a type that takes any value has read; the root when it is done.    *)
Searched ==
  ~Started => /\ Reading(de) => Explores(heap, ser.root, de)
              /\ de.status = "same" => Sorted(heap, ser.root)

DeInv ==
  /\ HeapMade /\ NamesAreText /\ Safe(heap, ser.root, de)
  /\ ser.status # "done" => de = Waiting
  /\ Searched

LEMMA DeInvAtFirst ==
  ASSUME Init
  PROVE  DeInv
<1>1. HeapMade
  BY HeapMadeAtFirst
<1>2. NamesAreText
  <2>1. tokens = <<>>
    BY DEF Init, SerInit
  <2> QED BY <2>1 DEF NamesAreText
<1>3. de = Waiting
  BY DEF Init, Waiting
<1>4. Safe(heap, ser.root, de) /\ de.status = "none"
  BY <1>3, WaitingIsSafe
<1>5. Searched
  BY <1>4 DEF Searched, Reading
<1> QED BY <1>1, <1>2, <1>3, <1>4, <1>5 DEF DeInv

LEMMA DeserializeKeeps ==
  ASSUME SerInv, DeInv, Deserialize
  PROVE  Reading(de) /\ Safe(heap, ser.root, de') /\ (~Started => Goes(ser.root, de'))
<1>1. WellProxied(heap) /\ NamesAreText /\ Safe(heap, ser.root, de) /\ Searched
  BY DEF DeInv, HeapMade
<1>2. CASE NextElement \/ NextKey \/ LeaveCompound
  <2>1. Started /\ Reading(de)
    BY <1>2 DEF NextElement, NextKey, LeaveCompound, Typed
  <2>2. Safe(heap, ser.root, de')
    BY <1>1, <1>2, NextElementSafe, NextKeySafe, LeaveCompoundSafe
  <2> QED BY <2>1, <2>2
<1>3. CASE DeserializeScalar \/ DeserializeOption \/ DeserializeNewtypeStruct \/ DeserializeBytes \/ FromJsReturns
  <2>1. Started /\ Reading(de)
    BY <1>3 DEF DeserializeScalar, DeserializeOption, DeserializeNewtypeStruct, DeserializeBytes, FromJsReturns,
                ValueAsked, Typed
  <2>2. Safe(heap, ser.root, de')
    BY <1>1, <1>3, PlainRequests
  <2> QED BY <2>1, <2>2
<1>4. CASE DeserializeSeq \/ DeserializeMap \/ DeserializeVariant
  <2>1. Started /\ Reading(de)
    BY <1>4 DEF DeserializeSeq, DeserializeMap, DeserializeVariant, ValueAsked, Typed
  <2>2. Safe(heap, ser.root, de')
    BY <1>1, <1>4, CompoundSafe, VariantSafe
  <2> QED BY <2>1, <2>2
<1>5. CASE DeserializeAny \/ AnyNext \/ AnyLeaves \/ AnyReturns
  <2>1. ~Started /\ Reading(de)
    BY <1>5 DEF DeserializeAny, AnyNext, AnyLeaves, AnyReturns, Untyped
  <2>2. Explores(heap, ser.root, de)
    BY <1>1, <2>1 DEF Searched
  <2>3. Safe(heap, ser.root, de') /\ Goes(ser.root, de')
    BY <1>1, <1>5, <2>2, DeserializeAnyGoes, AnyNextGoes, AnyLeavesGoes, AnyReturnsGoes
  <2> QED BY <2>1, <2>3
<1> QED BY <1>2, <1>3, <1>4, <1>5 DEF Deserialize

LEMMA DeInvStays ==
  ASSUME SerInv, DeInv, [Next]_vars
  PROVE  DeInv'
<1>1. HeapMade' /\ NamesAreText'
  BY HeapStays, NamesStay DEF DeInv
<1>2. ASSUME UNCHANGED serVars
      PROVE  /\ heap' = heap /\ ser' = ser /\ tokens' = tokens /\ (Started' <=> Started)
  BY <1>2 DEF serVars, heap, Started
<1>3. CASE UNCHANGED vars
  <2>1. heap' = heap /\ ser' = ser /\ (Started' <=> Started) /\ de' = de
    BY <1>2, <1>3 DEF vars
  <2>2. Safe(heap', ser'.root, de')
    BY <2>1 DEF DeInv
  <2>3. Searched'
    BY <2>1 DEF DeInv, Searched, Reading
  <2>4. ser'.status # "done" => de' = Waiting
    BY <2>1 DEF DeInv
  <2> QED BY <1>1, <2>2, <2>3, <2>4 DEF DeInv, Waiting
<1>4. CASE Serialize /\ UNCHANGED de
  <2>1. ser.status # "done"
    BY <1>4 DEF Serialize, SerializeScalar, SerializeWrapper, SerializeBytes, SerializeCompound, SerializeVariant,
                SerializeKey, SerializeOtherKey, SerializeEnd, ToJsReturns, ToJsFails, ValueDue, Running
  <2>2. de' = Waiting
    BY <1>4, <2>1 DEF DeInv
  <2>3. Safe(heap', ser'.root, de') /\ de'.status = "none"
    BY <2>2, WaitingIsSafe
  <2>4. Searched'
    BY <2>3 DEF Searched, Reading
  <2> QED BY <1>1, <2>2, <2>3, <2>4 DEF DeInv, Waiting
<1>5. CASE FromJs
  <2>1. heap' = heap /\ ser' = ser /\ (Started' <=> Started) /\ de' = NewDeserializer(ser.root) /\ ser.status = "done"
    BY <1>2, <1>5 DEF FromJs
  <2>2. ValueFits(ser.root, Len(heap))
    BY SerParts DEF SerInv, heap
  <2>3. Safe(heap, ser.root, NewDeserializer(ser.root)) /\ NewDeserializer(ser.root).status = "reading"
    BY <2>2, BeginsSafe
  <2>4. Explores(heap, ser.root, NewDeserializer(ser.root))
    BY ExploresAtFirst
  <2>5. Searched'
    BY <2>1, <2>3, <2>4 DEF Searched, Reading
  <2> QED BY <1>1, <2>1, <2>3, <2>5 DEF DeInv, Waiting
<1>6. CASE Deserialize
  <2>1. heap' = heap /\ ser' = ser /\ (Started' <=> Started)
    BY <1>2, <1>6 DEF Deserialize
  <2>2. Reading(de) /\ Safe(heap, ser.root, de') /\ (~Started => Goes(ser.root, de'))
    BY <1>6, DeserializeKeeps
  <2>3. ser.status = "done"
    BY <2>2, WaitingIsSafe DEF DeInv, Reading
  <2>4. Searched'
    BY <2>1, <2>2 DEF Searched, Goes, Reading
  <2> QED BY <1>1, <2>1, <2>2, <2>3, <2>4 DEF DeInv, Waiting
<1> QED BY <1>3, <1>4, <1>5, <1>6 DEF Next

LEMMA DeserializerInvariant == Spec => [](SerInv /\ DeInv)
<1>1. Init => SerInv /\ DeInv
  BY InitHolds, DeInvAtFirst
<1>2. SerInv /\ DeInv /\ [Next]_vars => (SerInv /\ DeInv)'
  BY StepHolds, DeInvStays
<1> QED BY <1>1, <1>2, PTL DEF Spec

LEMMA FitsIsIn ==
  ASSUME NEW h, DOMAIN h = 1..Len(h), NEW v, ValueFits(v, Len(h))
  PROVE  ValueIn(v, DOMAIN h)
BY DEF ValueFits, ValueIn

(* Whatever was serialized or made by a script, and however far from_js    *)
(* got, the containers hold values of the engine only, ints of 32 bits, no *)
(* reference to a container that is not there and no negative count; the   *)
(* paths of Serializer and Deserializer name containers there are, and a   *)
(* compound in progress has its container on the path, so that leave never *)
(* takes one from an empty path (src/serde/ser.rs, src/serde/de.rs).       *)
THEOREM EngineValuesAreTyped == Spec => []SerdeTypeOK
<1>1. ASSUME SerInv, DeInv
      PROVE  SerdeTypeOK
  <2>1. SerFits(ser) /\ HeapFits(heap) /\ Safe(heap, ser.root, de)
    BY <1>1 DEF SerInv, DeInv, SerFits, heap
  <2>2. DOMAIN heap = 1..Len(heap) /\ Len(heap) \in Nat
    BY <2>1, HeapParts
  <2>3. \A v : ValueFits(v, Len(heap)) => ValueOK(v)
    BY <2>2, FitsIsIn DEF ValueOK
  <2>4. ASSUME NEW n \in DOMAIN heap
        PROVE  /\ heap[n].kind \in {"array", "object", "proxy"} /\ heap[n].refs \in Nat
               /\ \A i \in DOMAIN heap[n].entries : ValueOK(heap[n].entries[i].value)
               /\ heap[n].proto \in DOMAIN heap \cup {None}
    <3>1. NodeFits(heap[n], Len(heap)) /\ heap[n] \in Nodes(JSValue)
      BY <2>1, HeapParts
    <3>2. /\ heap[n].kind \in {"array", "object", "proxy"}
          /\ \A i \in DOMAIN heap[n].entries : ValueOK(heap[n].entries[i].value)
          /\ heap[n].proto \in DOMAIN heap \cup {None}
      BY <2>2, <2>3, <3>1 DEF NodeFits, Nodes
    <3>3. heap[n].refs \in Nat
      <4>1. ser.heap[n].refs = HeldByHost(ser, n) + HeldInHeap(ser.heap, n) + Leak(ser, n) + IfRef(Undefined, n, 1)
        BY <1>1 DEF SerInv, CountedWith, heap
      <4>2. HeldByHost(ser, n) \in Nat /\ HeldInHeap(ser.heap, n) \in Nat /\ Leak(ser, n) \in Nat
            /\ IfRef(Undefined, n, 1) = 0
        BY <2>1, SerParts, NoRef, HostHolds DEF Leak, heap
      <4> QED BY <4>1, <4>2 DEF heap
    <3> QED BY <3>2, <3>3
  <2>5. /\ ValueOK(ser.root) /\ (ser.current # None => ValueOK(ser.current))
        /\ \A i \in DOMAIN ser.paths : IsNode(ser.paths[i]) /\ ValueOK(ser.paths[i])
        /\ ser.current_key \in Strings \cup {None} /\ ser.current_is_key \in BOOLEAN
    BY <2>1, <2>3, SerParts DEF heap
  <2>6. DeFits(heap, de) /\ Slack(de, 0)
    BY <2>1 DEF Safe
  <2>7. ValueOK(de.current) /\ \A i \in DOMAIN de.paths : de.paths[i].node \in DOMAIN heap /\ de.paths[i].index \in Nat
    BY <2>3, <2>6, DeParts DEF DeFits, Plain
  <2>8. Len(de.paths) >= Len(de.open)
    <3> DEFINE a == Len(de.paths)
               b == Len(de.open)
               c == DepthOf(de.open)
    <3>1. a \in Nat /\ b \in Nat /\ c \in Nat /\ c >= b + 1
      BY <2>6, DeParts, DepthIs
    <3>2. a + 1 >= c + 0
      BY <2>6 DEF Slack
    <3> HIDE DEF a, b, c
    <3>3. a >= b
      BY <3>1, <3>2
    <3> QED BY <3>3 DEF a, b
  <2> QED BY <2>4, <2>5, <2>7, <2>8 DEF SerdeTypeOK
<1> QED BY <1>1, DeserializerInvariant, PTL

(* A tree is laid out by the order its containers were made in.            *)
LEMMA TreeIsSorted ==
  ASSUME NEW h, WellProxied(h), Ascending(h), NEW root, ValueFits(root, Len(h))
  PROVE  Sorted(h, root)
<1> DEFINE N == Len(h)
           F == DOMAIN h
           rank == [n \in DOMAIN h |-> N - n]
<1>1. N \in Nat /\ F = 1..N /\ HeapFits(h)
  BY HeapParts DEF WellProxied
<1>2. rank \in [DOMAIN h -> Nat] /\ \A n \in F : rank[n] = N - n
  BY <1>1
<1> HIDE DEF rank
<1>3. ASSUME NEW n \in F, NEW m \in ReadableIn(h, n)
      PROVE  m \in F /\ rank[m] < rank[n]
  <2>1. m \in F
    BY <1>3, ReadableFits DEF Plain
  <2>2. PICK j \in DOMAIN h[n].entries : IsNode(h[n].entries[j].value) /\ m = EntryTarget(h, n, j)
    BY <1>3 DEF ReadableIn, Seen
  <2> DEFINE v == h[n].entries[j].value
  <2>3. IsNode(v) /\ n < v.data /\ ValueFits(v, N)
    <3>1. Rises(h, n) /\ NodeFits(h[n], N)
      BY <1>1, HeapParts DEF Ascending
    <3> QED BY <2>2, <3>1 DEF Rises, NodeFits
  <2> HIDE DEF v
  <2>4. v.data \in F
    BY <1>1, <2>3 DEF ValueFits, IsNode
  <2>5. ~is_proxy(h, v)
    BY <2>4 DEF is_proxy, Ascending, Rises
  <2>6. m = v.data
    BY <2>2, <2>5 DEF EntryTarget, ProxyTarget, v
  <2>7. n \in 1..N /\ m \in 1..N /\ n < m
    BY <1>1, <2>1, <2>3, <2>6
  <2>8. rank[n] = N - n /\ rank[m] = N - m
    BY <1>2, <2>1
  <2> QED BY <1>1, <2>1, <2>7, <2>8
<1>4. Ranked(h, F, rank)
  BY <1>2, <1>3 DEF Ranked
<1>5. StartOf(h, root) \subseteq F
  BY TargetOfNode DEF StartOf, Plain
<1> QED BY <1>4, <1>5 DEF Sorted

(* from_js reports a circular reference only when what it reads leads back *)
(* into itself, and gives a whole value only when no container it can reach*)
(* does: one that is met twice on different branches is no cycle (enter and*)
(* leave of the Deserializer, guard_circular_reference in src/serde/de.rs).*)
THEOREM CircularMeansCyclic == Spec => []CircularIffCycle
<1>1. ASSUME SerInv, DeInv
      PROVE  CircularIffCycle
  <2>1. /\ WellProxied(heap) /\ Safe(heap, ser.root, de) /\ Searched
        /\ Started => Ascending(heap)
    BY <1>1 DEF DeInv, HeapMade
  <2>2. ValueFits(ser.root, Len(heap))
    BY <1>1, SerParts DEF SerInv, heap
  <2>3. Start = StartOf(heap, ser.root)
    BY DEF Start, StartOf
  <2>4. de.status = "circular" => Cyclic
    <3> SUFFICES ASSUME de.status = "circular"
                 PROVE  Cyclic
      OBVIOUS
    <3>1. ClosedWalk(heap, ser.root)
      BY <2>1 DEF Safe
    <3>2. PICK L \in Nat : \E q : Chain(heap, ser.root, L, q) /\ \E b \in 1..L : q[b] \in ReadableIn(heap, q[L])
      BY <3>1 DEF ClosedWalk
    <3>3. PICK q : Chain(heap, ser.root, L, q) /\ \E b \in 1..L : q[b] \in ReadableIn(heap, q[L])
      BY <3>2
    <3>4. PICK b \in 1..L : q[b] \in ReadableIn(heap, q[L])
      BY <3>3
    <3>5. /\ q \in [1..L -> DOMAIN heap] /\ \A i, j \in 1..L : q[i] = q[j] => i = j
          /\ L >= 1 => q[1] \in Start
          /\ \A i \in 1..L : i < L => q[i + 1] \in ReadableIn(heap, q[i])
      BY <2>3, <3>3 DEF Chain
    <3>6. Start \subseteq DOMAIN heap
      BY <2>1, <2>2, <2>3, TargetOfNode DEF StartOf, Plain
    <3> QED BY <2>1, <3>4, <3>5, <3>6, WalkCloses
  <2>5. de.status = "same" => ~Cyclic
    <3> SUFFICES ASSUME de.status = "same"
                 PROVE  ~Cyclic
      OBVIOUS
    <3>1. Sorted(heap, ser.root)
      BY <2>1, <2>2, TreeIsSorted DEF Searched
    <3>2. PICK F, rank : Ranked(heap, F, rank) /\ StartOf(heap, ser.root) \subseteq F
      BY <3>1 DEF Sorted
    <3> QED BY <2>1, <2>3, <3>2, RankedIsAcyclic
  <2> QED BY <2>4, <2>5 DEF CircularIffCycle, Cyclic, Start
<1> QED BY <1>1, DeserializerInvariant, PTL
=============================================================================
