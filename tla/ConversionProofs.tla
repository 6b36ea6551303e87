-------------------------- MODULE ConversionProofs --------------------------
(***************************************************************************)
(* What the conversions of src/value/value.rs do, for every width of       *)
(* integers and for arrays, objects and HashMaps of any size: when they    *)
(* panic, and what comes back through a type.  First what a conversion of  *)
(* a plain value, a list and a map gives; then what the two conversions of *)
(* an exchange, one after the other, give for each shape of a type; then   *)
(* the theorems.                                                           *)
(***************************************************************************)
EXTENDS ValuesProofs

-----------------------------------------------------------------------------
(* A plain value.                                                          *)

(* What a BigInt type reads of a number.                                   *)
Number(v) == IF v.tag = "float" THEN FloatAsI64(v.data) ELSE v.data

LEMMA BigintRead ==
  ASSUME NEW v
  PROVE  \/ v.tag \in Numeric /\ to_bigint(v) = Ok(Number(v))
         \/ v.tag \notin Numeric /\ to_bigint(v) = Abort
<1>1. CASE v.tag = "float"
  <2>1. to_bigint(v) = Ok(FloatAsI64(v.data))
    BY <1>1 DEF to_bigint
  <2> QED BY <1>1, <2>1 DEF Number, Numeric
<1>2. CASE v.tag \in {"int", "shortbig", "bigint"}
  <2>1. to_bigint(v) = Ok(v.data)
    BY <1>2 DEF to_bigint
  <2> QED BY <1>2, <2>1 DEF Number, Numeric
<1>3. CASE v.tag \notin Numeric
  BY <1>3 DEF to_bigint, Numeric
<1> QED BY <1>1, <1>2, <1>3 DEF Numeric

LEMMA PlainRead ==
  ASSUME NEW item \in Items, NEW v, NEW r, r = TryPlain(item, v)
  PROVE  /\ r.status \in {"ok", "error", "abort"}
         /\ r.status = "abort" => item \in BigTypes /\ v.tag \notin Numeric
         /\ r.status = "ok" /\ item \in BigTypes => v.tag \in Numeric /\ r.value = Number(v)
<1>1. CASE item = "bool"
  BY <1>1 DEF TryPlain, Ok, Err, Result, BigTypes
<1>2. CASE item = "i32"
  BY <1>2 DEF TryPlain, ToI32, Ok, Err, Result, BigTypes
<1>3. CASE item = "f64"
  BY <1>3 DEF TryPlain, to_float, Ok, Err, Result, BigTypes
<1>4. CASE item = "String"
  BY <1>4 DEF TryPlain, Ok, Err, Result, BigTypes
<1>5. CASE item \in BigTypes
  <2>1. r = ToBig(item, v)
    BY <1>5 DEF TryPlain, BigTypes
  <2> QED BY <1>5, <2>1, BigintRead DEF ToBig, Ok, Err, Abort, Result
<1> QED BY <1>1, <1>2, <1>3, <1>4, <1>5 DEF Items

(* The tag of the value that a T becomes.                                  *)
TagOf(item, x) ==
  CASE item = "bool" -> "bool"
    [] item = "i32" -> "int"
    [] item = "f64" -> "float"
    [] item = "String" -> "string"
    [] OTHER -> NewBigInt(x).tag

LEMMA PlainWritten ==
  ASSUME NEW item \in Items, NEW x, NEW w, w = ToPlain(item, x)
  PROVE  \/ w = Ok(Value(TagOf(item, x), x))
         \/ w = Panic /\ item \in BigTypes \ {"i64"} /\ x \in RangeOf.i32
<1>1. CASE item \notin BigTypes
  BY <1>1 DEF ToPlain, TagOf, Items, BigTypes
<1>2. CASE item \in BigTypes
  <2>1. w = create_bigint(item, x) /\ TagOf(item, x) = NewBigInt(x).tag
    BY <1>2 DEF ToPlain, TagOf, BigTypes
  <2>2. NewBigInt(x) = Value(NewBigInt(x).tag, x)
    BY DEF NewBigInt, Value
  <2>3. NewBigInt(x).tag # "bigint" => x \in RangeOf.i32
    BY DEF NewBigInt, Value
  <2> QED BY <1>2, <2>1, <2>2, <2>3 DEF create_bigint
<1> QED BY <1>1, <1>2

LEMMA TagsOf ==
  ASSUME NEW item \in Items, NEW x
  PROVE  /\ TagOf(item, x) \notin {"undefined", "null", "throws", "node"}
         /\ item \in BigTypes => TagOf(item, x) \in {"shortbig", "bigint"}
         /\ item = "bool" => TagOf(item, x) = "bool"
         /\ item = "i32" => TagOf(item, x) = "int"
         /\ item = "f64" => TagOf(item, x) = "float"
         /\ item = "String" => TagOf(item, x) = "string"
BY DEF TagOf, NewBigInt, Value, Items, BigTypes

(* What a T became is read as a T again.                                   *)
LEMMA PlainBack ==
  ASSUME NEW item \in Items, NEW x \in InType(item), NEW v, v = Value(TagOf(item, x), x)
  PROVE  TryPlain(item, v) = Ok(IF item = "String" THEN to_string(x) ELSE x)
<1>0. v.tag = TagOf(item, x) /\ v.data = x
  BY DEF Value
<1>1. CASE item = "bool"
  BY <1>0, <1>1, TagsOf DEF TryPlain
<1>2. CASE item = "i32"
  BY <1>0, <1>2, TagsOf DEF TryPlain, ToI32
<1>3. CASE item = "f64"
  BY <1>0, <1>3, TagsOf DEF TryPlain, to_float
<1>4. CASE item = "String"
  BY <1>0, <1>4, TagsOf DEF TryPlain
<1>5. CASE item \in BigTypes
  <2>1. TryPlain(item, v) = ToBig(item, v)
    BY <1>5 DEF TryPlain, BigTypes
  <2>2. x \in RangeOf[item]
    BY <1>5 DEF InType, BigTypes
  <2>3. to_bigint(v) = Ok(x)
    BY <1>0, <1>5, TagsOf DEF to_bigint
  <2>4. item # "String"
    BY <1>5 DEF BigTypes
  <2> QED BY <2>1, <2>2, <2>3, <2>4 DEF ToBig, Ok, Result
<1> QED BY <1>1, <1>2, <1>3, <1>4, <1>5 DEF Items

-----------------------------------------------------------------------------
(* Containers: the elements present, and the first failure.                *)

Collecting(f, X, es) ==
  /\ f \in [0..Len(es) -> Seq(X)] /\ f[0] = <<>>
  /\ \A k \in 1..Len(es) :
       f[k] = IF es[k].value = Undefined THEN f[k-1] ELSE Append(f[k-1], es[k])
  /\ Present(es) = f[Len(es)]

LEMMA PresentSteps ==
  ASSUME NEW X, NEW es, Len(es) \in Nat,
         \A k \in 1..Len(es) : es[k].value # Undefined => es[k] \in X
  PROVE  \E f : Collecting(f, X, es)
<1> DEFINE N == Len(es)
           Kept1(s, k) == IF es[k].value = Undefined THEN s ELSE Append(s, es[k])
           Some[k \in 0..N] == IF k = 0 THEN <<>> ELSE Kept1(Some[k - 1], k)
           G == [p \in Seq(X) \X (1..N) |-> Kept1(p[1], p[2])]
<1>0. \A s \in Seq(X) : \A k \in 1..N : Kept1(s, k) \in Seq(X)
  OBVIOUS
<1>1. IsStep(G, Seq(X), N)
  <2> HIDE DEF Kept1
  <2> QED BY <1>0 DEF IsStep
<1>2. PICK f : Repeats(f, Seq(X), <<>>, N, G)
  <2>1. N \in Nat /\ <<>> \in Seq(X)
    OBVIOUS
  <2> HIDE DEF G, N
  <2> QED BY <1>1, <2>1, Recursion
<1>3. \A k \in 1..N : f[k-1] \in Seq(X) /\ f[k] = Kept1(f[k-1], k)
  <2> TAKE k \in 1..N
  <2>1. f[k-1] \in Seq(X)
    <3>1. k - 1 \in 0..N
      OBVIOUS
    <3> QED BY <1>2, <3>1 DEF Repeats
  <2> HIDE DEF Kept1
  <2> QED BY <1>2, <2>1 DEF Repeats
<1>4. f = [k \in 0..N |-> IF k = 0 THEN <<>> ELSE Kept1(f[k-1], k)]
  <2> HIDE DEF Kept1
  <2> QED BY <1>2, <1>3 DEF Repeats
<1>5. Some = [k \in 0..N |-> IF k = 0 THEN <<>> ELSE Kept1(Some[k-1], k)]
  <2> HIDE DEF Kept1
  <2> QED BY <1>4
<1>6. Present(es) = Some[N]
  BY DEF Present
<1> HIDE DEF Some
<1> DEFINE S == {k \in 0..N : Some[k] = f[k]}
<1>7. 0 \in S
  BY <1>2, <1>5 DEF Repeats
<1>8. ASSUME NEW k \in 1..N, k - 1 \in S
      PROVE  k \in S
  <2> HIDE DEF Kept1
  <2> QED BY <1>3, <1>5, <1>8
<1>9. Some[N] = f[N]
  <2>1. Closed(S, N) /\ N \in Nat
    BY <1>8 DEF Closed
  <2>2. N \in S
    <3> HIDE DEF S, N
    <3> QED BY <1>7, <2>1, Reached
  <2> QED BY <2>2
<1> QED BY <1>2, <1>3, <1>6, <1>9 DEF Repeats, Collecting

(* What is present is an element of the array and not undefined.           *)
LEMMA PresentFrom ==
  ASSUME NEW X, NEW es \in Seq(X)
  PROVE  /\ Present(es) \in Seq(X)
         /\ \A i \in DOMAIN Present(es) :
              /\ Present(es)[i].value # Undefined
              /\ \E j \in DOMAIN es : Present(es)[i] = es[j]
<1> DEFINE Y == {es[j] : j \in {k \in DOMAIN es : es[k].value # Undefined}}
<1>1. PICK f : Collecting(f, Y, es)
  <2>1. Len(es) \in Nat /\ \A k \in 1..Len(es) : es[k].value # Undefined => es[k] \in Y
    OBVIOUS
  <2> HIDE DEF Y
  <2> QED BY <2>1, PresentSteps
<1>2. Present(es) \in Seq(Y)
  <2>1. Len(es) \in 0..Len(es)
    OBVIOUS
  <2> HIDE DEF Y
  <2> QED BY <1>1, <2>1 DEF Collecting
<1>3. Y \subseteq X
  OBVIOUS
<1>4. \A i \in DOMAIN Present(es) : Present(es)[i] \in Y
  <2> HIDE DEF Y
  <2> QED BY <1>2
<1>5. Present(es) \in Seq(X)
  <2> HIDE DEF Y
  <2> QED BY <1>2, <1>3
<1> QED BY <1>4, <1>5

(* All of an array without undefined elements.                             *)
LEMMA PresentAll ==
  ASSUME NEW X, NEW es \in Seq(X), \A i \in DOMAIN es : es[i].value # Undefined
  PROVE  Present(es) = es
<1> DEFINE N == Len(es)
<1>1. N \in Nat /\ DOMAIN es = 1..N /\ \A k \in 1..N : es[k] \in X
  OBVIOUS
<1>2. PICK f : Collecting(f, X, es)
  <2> QED BY <1>1, PresentSteps
<1>3. \A k \in 1..N : f[k] = Append(f[k-1], es[k])
  BY <1>1, <1>2 DEF Collecting
<1>4. \A k \in 0..N : f[k] \in Seq(X)
  BY <1>2 DEF Collecting
<1> DEFINE S == {k \in 0..N : Len(f[k]) = k /\ \A i \in 1..k : f[k][i] = es[i]}
<1>5. 0 \in S
  BY <1>1, <1>2 DEF Collecting
<1>6. ASSUME NEW k \in 1..N, k - 1 \in S PROVE k \in S
  <2>1. k - 1 \in 0..N /\ f[k-1] \in Seq(X) /\ es[k] \in X /\ k \in 0..N
    BY <1>1, <1>4
  <2>2. Len(f[k-1]) = k - 1 /\ \A i \in 1..k-1 : f[k-1][i] = es[i]
    BY <1>6
  <2>3. f[k] = Append(f[k-1], es[k])
    BY <1>3
  <2> DEFINE s == f[k-1]
  <2>4. s \in Seq(X) /\ Len(s) = k - 1 /\ f[k] = Append(s, es[k]) /\ \A i \in 1..k-1 : s[i] = es[i]
    BY <2>1, <2>2, <2>3
  <2> HIDE DEF s
  <2>5. Len(f[k]) = k /\ \A i \in 1..k : f[k][i] = es[i]
    BY <2>1, <2>4
  <2> QED BY <2>1, <2>5
<1>7. N \in S
  <2>1. Closed(S, N)
    BY <1>6 DEF Closed
  <2> HIDE DEF S, N
  <2> QED BY <1>1, <1>5, <2>1, Reached
<1>8. /\ Present(es) = f[N] /\ f[N] \in Seq(X) /\ Len(f[N]) = N /\ \A i \in 1..N : f[N][i] = es[i]
  BY <1>1, <1>2, <1>4, <1>7 DEF Collecting
<1> HIDE DEF N
<1>9. Present(es) \in Seq(X) /\ Len(Present(es)) = N /\ \A i \in 1..N : Present(es)[i] = es[i]
  BY <1>8
<1> QED BY <1>1, <1>9

(* Of results, all are good and made into one, or one fails.               *)
Decided(results, r, all) ==
  \/ (\A i \in DOMAIN results : results[i].status = "ok") /\ r = all
  \/ \E i \in DOMAIN results : results[i].status # "ok" /\ r = results[i]

LEMMA FirstFailure ==
  ASSUME NEW bad, bad \subseteq Nat, bad # {}
  PROVE  (CHOOSE i \in bad : \A j \in bad : i <= j) \in bad
<1>1. \E i \in bad : \A j \in bad : i <= j
  BY Least
<1> QED BY <1>1

ElementRead(item, e) == IF e.value.tag = "throws" THEN Panic ELSE TryPlain(item, e.value)

LEMMA VecRead ==
  ASSUME NEW X, NEW es \in Seq(X), NEW item, NEW there, there = Present(es)
  PROVE  Decided([i \in DOMAIN there |-> ElementRead(item, there[i])], TryVec(item, es),
                 Ok([i \in DOMAIN there |-> ElementRead(item, there[i]).value]))
<1> DEFINE results == [i \in DOMAIN there |-> ElementRead(item, there[i])]
           bad == {i \in DOMAIN results : results[i].status # "ok"}
           first == CHOOSE i \in bad : \A j \in bad : i <= j
           all == [i \in DOMAIN results |-> results[i].value]
<1>1. TryVec(item, es) = IF bad = {} THEN Ok(all) ELSE results[first]
  BY DEF TryVec, AllOk, ElementRead
<1>2. bad \subseteq Nat
  <2>1. there \in Seq(X)
    BY PresentFrom
  <2> QED BY <2>1
<1>3. bad # {} => first \in bad
  <2> HIDE DEF bad
  <2> QED BY <1>2, FirstFailure
<1>4. all = [i \in DOMAIN there |-> ElementRead(item, there[i]).value]
  OBVIOUS
<1> HIDE DEF first, all
<1>5. CASE bad = {}
  BY <1>1, <1>4, <1>5 DEF Decided
<1>6. CASE bad # {}
  <2>1. TryVec(item, es) = results[first] /\ first \in DOMAIN results /\ results[first].status # "ok"
    BY <1>1, <1>3, <1>6
  <2>2. Decided(results, TryVec(item, es), Ok([i \in DOMAIN there |-> ElementRead(item, there[i]).value]))
    <3> HIDE DEF results
    <3> QED BY <2>1 DEF Decided
  <2> QED BY <2>2
<1> QED BY <1>5, <1>6

(* A member of a HashMap that is read, by the position of its key.         *)
MemberRead(item, es, i) ==
  LET v == Member(es, to_string(es[i].key)) IN
  IF v.tag = "throws" THEN Panic ELSE TryPlain(item, v)
Seen(es) == {i \in DOMAIN es : \A j \in DOMAIN es : j < i => es[j].value.tag # "throws"}

LEMMA MapRead ==
  ASSUME NEW X, NEW es \in Seq(X), NEW item
  PROVE  Decided([i \in Seen(es) |-> MemberRead(item, es, i)], TryMap(item, es),
                 Ok({<<to_string(es[i].key), MemberRead(item, es, i).value>> : i \in Seen(es)}))
<1> DEFINE seen == Seen(es)
           names == [i \in seen |-> to_string(es[i].key)]
           results == [i \in seen |-> MemberRead(item, es, i)]
           bad == {i \in DOMAIN results : results[i].status # "ok"}
           first == CHOOSE i \in bad : \A j \in bad : i <= j
           values == [i \in DOMAIN results |-> results[i].value]
           all == {<<names[i], values[i]>> : i \in DOMAIN names}
           made == {<<to_string(es[i].key), MemberRead(item, es, i).value>> : i \in seen}
<1>1. TryMap(item, es) = IF bad = {} THEN Ok(all) ELSE results[first]
  <2> DEFINE reads == [i \in DOMAIN names |->
                         LET v == Member(es, names[i]) IN
                         IF v.tag = "throws" THEN Panic ELSE TryPlain(item, v)]
             failed == {i \in DOMAIN reads : reads[i].status # "ok"}
  <2>1. TryMap(item, es) =
          IF failed = {} THEN Ok({<<names[i], [k \in DOMAIN reads |-> reads[k].value][i]>> : i \in DOMAIN names})
          ELSE reads[CHOOSE i \in failed : \A j \in failed : i <= j]
    BY DEF TryMap, AllOk, Seen
  <2>2. reads = results
    BY DEF MemberRead
  <2> HIDE DEF reads, results, names
  <2> QED BY <2>1, <2>2
<1>2. bad \subseteq Nat
  BY DEF Seen
<1>3. bad # {} => first \in bad
  <2> HIDE DEF bad
  <2> QED BY <1>2, FirstFailure
<1>4. all = made
  OBVIOUS
<1> HIDE DEF first, all
<1>5. CASE bad = {}
  BY <1>1, <1>4, <1>5 DEF Decided
<1>6. CASE bad # {}
  <2>1. TryMap(item, es) = results[first] /\ first \in DOMAIN results /\ results[first].status # "ok"
    BY <1>1, <1>3, <1>6
  <2>2. Decided(results, TryMap(item, es), Ok(made))
    <3> HIDE DEF results, made
    <3> QED BY <2>1 DEF Decided
  <2> QED BY <2>2
<1> QED BY <1>5, <1>6

Elements(item, xs) == [i \in DOMAIN xs |-> Entry(None, ToPlain(item, xs[i]).value)]

LEMMA VecWritten ==
  ASSUME NEW X, NEW xs \in Seq(X), NEW item
  PROVE  Decided([i \in DOMAIN xs |-> ToPlain(item, xs[i])], ToVec(item, xs),
                 Ok([Node("array") EXCEPT !.entries = Elements(item, xs)]))
<1> DEFINE results == [i \in DOMAIN xs |-> ToPlain(item, xs[i])]
           bad == {i \in DOMAIN results : results[i].status # "ok"}
           first == CHOOSE i \in bad : \A j \in bad : i <= j
           values == [i \in DOMAIN results |-> results[i].value]
           entries == [i \in DOMAIN values |-> Entry(None, values[i])]
           made == [Node("array") EXCEPT !.entries = Elements(item, xs)]
<1>1. ToVec(item, xs) = IF bad = {} THEN Ok([Node("array") EXCEPT !.entries = entries])
                        ELSE results[first]
  BY DEF ToVec, AllOk
<1>2. bad \subseteq Nat
  OBVIOUS
<1>3. bad # {} => first \in bad
  <2> HIDE DEF bad
  <2> QED BY <1>2, FirstFailure
<1>4. entries = Elements(item, xs)
  BY DEF Elements
<1> HIDE DEF first, entries
<1>5. CASE bad = {}
  BY <1>1, <1>4, <1>5 DEF Decided
<1>6. CASE bad # {}
  <2>1. ToVec(item, xs) = results[first] /\ first \in DOMAIN results /\ results[first].status # "ok"
    BY <1>1, <1>3, <1>6
  <2>2. Decided(results, ToVec(item, xs), Ok(made))
    <3> HIDE DEF results, made
    <3> QED BY <2>1 DEF Decided
  <2> QED BY <2>2
<1> QED BY <1>5, <1>6

(* A HashMap in the order its members are taken.                           *)
LEMMA SomeOrder ==
  ASSUME NEW pairs, IsFiniteSet(pairs), NEW s, s = InSomeOrder(pairs)
  PROVE  /\ s \in Seq(pairs)
         /\ \A p \in pairs : \E i \in DOMAIN s : s[i] = p
<1> DEFINE n == Cardinality(pairs)
           Orders(t) == \A p \in pairs : \E i \in DOMAIN t : t[i] = p
<1>1. n \in Nat /\ \E t \in [1..n -> pairs] : Orders(t)
  <2>1. n \in Nat /\ ExistsBijection(1..n, pairs)
    BY FS_CardinalityType
  <2>2. PICK t : t \in Bijection(1..n, pairs)
    BY <2>1 DEF ExistsBijection
  <2>3. t \in Surjection(1..n, pairs)
    BY <2>2 DEF Bijection
  <2> HIDE DEF n
  <2>4. t \in [1..n -> pairs] /\ \A p \in pairs : \E i \in 1..n : t[i] = p
    BY <2>3 DEF Surjection
  <2> QED BY <2>1, <2>4
<1>2. s = CHOOSE t \in [1..n -> pairs] : Orders(t)
  BY DEF InSomeOrder
<1>3. s \in [1..n -> pairs] /\ Orders(s)
  <2> HIDE DEF n, Orders
  <2> QED BY <1>1, <1>2
<1> HIDE DEF n
<1>4. s \in Seq(pairs)
  BY <1>1, <1>3, IsASeq
<1> QED BY <1>3, <1>4

(* The object made of the members of a HashMap.                            *)
MapNode(ms, vs) ==
  LET empty == [n \in {1} |-> Node("object")]
      Set[i \in 0..Len(ms)] ==
        IF i = 0 THEN empty ELSE SetMember(Set[i - 1], 1, ms[i][1], vs[i])
  IN Set[Len(ms)][1]

LEMMA MapWritten ==
  ASSUME NEW item, NEW pairs, NEW ms, ms = InSomeOrder(pairs), ms \in Seq(pairs)
  PROVE  Decided([i \in DOMAIN ms |-> IF ms[i][1] = NulText THEN Panic ELSE ToPlain(item, ms[i][2])],
                 ToMap(item, pairs),
                 Ok(MapNode(ms, [i \in DOMAIN ms |->
                      (IF ms[i][1] = NulText THEN Panic ELSE ToPlain(item, ms[i][2])).value])))
<1> DEFINE order == InSomeOrder(pairs)
           results == [i \in DOMAIN order |->
                         IF order[i][1] = NulText THEN Panic ELSE ToPlain(item, order[i][2])]
           bad == {i \in DOMAIN results : results[i].status # "ok"}
           first == CHOOSE i \in bad : \A j \in bad : i <= j
           values == [i \in DOMAIN results |-> results[i].value]
           made == MapNode(order, values)
<1>1. ToMap(item, pairs) = IF bad = {} THEN Ok(made) ELSE results[first]
  BY DEF ToMap, AllOk, MapNode
<1>2. bad \subseteq Nat
  BY ms \in Seq(pairs)
<1>3. bad # {} => first \in bad
  <2> HIDE DEF bad
  <2> QED BY <1>2, FirstFailure
<1>4. values = [i \in DOMAIN order |->
                  (IF order[i][1] = NulText THEN Panic ELSE ToPlain(item, order[i][2])).value]
  OBVIOUS
<1> HIDE DEF first, values
<1>5. Decided(results, ToMap(item, pairs), Ok(made))
  <2>1. CASE bad = {}
    BY <1>1, <2>1 DEF Decided
  <2>2. CASE bad # {}
    <3>1. ToMap(item, pairs) = results[first] /\ first \in DOMAIN results /\ results[first].status # "ok"
      BY <1>1, <1>3, <2>2
    <3> HIDE DEF results, made
    <3> QED BY <3>1 DEF Decided
  <2> QED BY <2>1, <2>2
<1> HIDE DEF order
<1>6. ms = order
  BY DEF order
<1> QED BY <1>4, <1>5, <1>6

Filling(f, X, ms, vs) ==
  /\ f \in [0..Len(ms) -> X] /\ f[0] = [n \in {1} |-> Node("object")]
  /\ \A k \in 1..Len(ms) : f[k] = SetMember(f[k-1], 1, ms[k][1], vs[k])
  /\ MapNode(ms, vs) = f[Len(ms)][1]

LEMMA MapNodeSteps ==
  ASSUME NEW X, NEW ms, NEW vs, Len(ms) \in Nat, [n \in {1} |-> Node("object")] \in X,
         \A h \in X : \A k \in 1..Len(ms) : SetMember(h, 1, ms[k][1], vs[k]) \in X
  PROVE  \E f : Filling(f, X, ms, vs)
<1> DEFINE N == Len(ms)
           empty == [n \in {1} |-> Node("object")]
           Set[i \in 0..N] == IF i = 0 THEN empty ELSE SetMember(Set[i - 1], 1, ms[i][1], vs[i])
           G == [p \in X \X (1..N) |-> SetMember(p[1], 1, ms[p[2]][1], vs[p[2]])]
<1>1. IsStep(G, X, N)
  BY DEF IsStep
<1>2. PICK f : Repeats(f, X, empty, N, G)
  <2>1. N \in Nat /\ empty \in X
    OBVIOUS
  <2> HIDE DEF G, N, empty
  <2> QED BY <1>1, <2>1, Recursion
<1>3. \A k \in 1..N : f[k-1] \in X /\ f[k] = SetMember(f[k-1], 1, ms[k][1], vs[k])
  <2> TAKE k \in 1..N
  <2>1. f[k-1] \in X
    <3>1. k - 1 \in 0..N
      OBVIOUS
    <3> QED BY <1>2, <3>1 DEF Repeats
  <2> QED BY <1>2, <2>1 DEF Repeats
<1>4. f = [k \in 0..N |-> IF k = 0 THEN empty ELSE SetMember(f[k-1], 1, ms[k][1], vs[k])]
  <2> HIDE DEF empty
  <2> QED BY <1>2, <1>3 DEF Repeats
<1>5. Set = [k \in 0..N |-> IF k = 0 THEN empty ELSE SetMember(Set[k-1], 1, ms[k][1], vs[k])]
  <2> HIDE DEF empty
  <2> QED BY <1>4
<1>6. MapNode(ms, vs) = Set[N][1]
  BY DEF MapNode
<1> HIDE DEF Set, empty
<1> DEFINE S == {k \in 0..N : Set[k] = f[k]}
<1>7. 0 \in S
  BY <1>2, <1>5 DEF Repeats
<1>8. ASSUME NEW k \in 1..N, k - 1 \in S
      PROVE  k \in S
  BY <1>3, <1>5, <1>8
<1>9. Set[N] = f[N]
  <2>1. Closed(S, N) /\ N \in Nat
    BY <1>8 DEF Closed
  <2>2. N \in S
    <3> HIDE DEF S, N
    <3> QED BY <1>7, <2>1, Reached
  <2> QED BY <2>2
<1> QED BY <1>2, <1>3, <1>6, <1>9 DEF Repeats, Filling, empty

(* Its members are those of the HashMap but __proto__.                     *)
Members(ms, vs) == {Entry(ms[j][1], vs[j]) : j \in {k \in DOMAIN ms : ms[k][1] # ProtoKey}}
Objects(Y) == [kind : {"object"}, entries : Seq(Y), proto : {None}, refs : {1}]

LEMMA MemberSet ==
  ASSUME NEW Y, NEW h \in [{1} -> Objects(Y)], NEW key, NEW v, ~IsNode(v),
         key # ProtoKey => Entry(key, v) \in Y
  PROVE  /\ SetMember(h, 1, key, v) \in [{1} -> Objects(Y)]
         /\ key = ProtoKey => SetMember(h, 1, key, v) = h
         /\ key # ProtoKey =>
              SetMember(h, 1, key, v)[1].entries = Append(h[1].entries, Entry(key, v))
<1>1. h[1] \in Objects(Y)
  OBVIOUS
<1>2. CASE key = ProtoKey
  BY <1>2 DEF SetMember
<1>3. CASE key # ProtoKey
  <2> DEFINE s == Append(h[1].entries, Entry(key, v))
             o == [h[1] EXCEPT !.entries = s]
  <2>1. s \in Seq(Y)
    <3>1. h[1].entries \in Seq(Y) /\ Entry(key, v) \in Y
      BY <1>1, <1>3 DEF Objects
    <3> QED BY <3>1
  <2>2. SetMember(h, 1, key, v) = [h EXCEPT ![1] = o]
    BY <1>3 DEF SetMember
  <2> HIDE DEF s
  <2>3. o \in Objects(Y) /\ o.entries = s
    BY <1>1, <2>1 DEF Objects
  <2> HIDE DEF o
  <2>4. [h EXCEPT ![1] = o] \in [{1} -> Objects(Y)] /\ [h EXCEPT ![1] = o][1] = o
    BY <2>3
  <2> QED BY <1>3, <2>2, <2>3, <2>4 DEF s
<1> QED BY <1>2, <1>3

LEMMA MapNodeIs ==
  ASSUME NEW P, NEW ms \in Seq(P), NEW vs, \A j \in DOMAIN ms : ~IsNode(vs[j]),
         NEW node, node = MapNode(ms, vs)
  PROVE  /\ node \in Objects(Members(ms, vs))
         /\ \A y \in Members(ms, vs) : \E i \in DOMAIN node.entries : node.entries[i] = y
<1> DEFINE N == Len(ms)
           Y == Members(ms, vs)
           X == [{1} -> Objects(Y)]
<1>1. N \in Nat /\ DOMAIN ms = 1..N
  OBVIOUS
<1>2. \A k \in 1..N : ms[k][1] # ProtoKey => Entry(ms[k][1], vs[k]) \in Y
  BY <1>1 DEF Members
<1>3. [n \in {1} |-> Node("object")] \in X
  BY DEF Node, Objects
<1> HIDE DEF N, Y
<1>4. PICK f : Filling(f, X, ms, vs)
  <2>1. \A h \in X : \A k \in 1..N : SetMember(h, 1, ms[k][1], vs[k]) \in X
    BY <1>1, <1>2, MemberSet
  <2> HIDE DEF X
  <2> QED BY <1>1, <1>3, <2>1, MapNodeSteps DEF N
<1>5. \A k \in 0..N : f[k] \in X
  BY <1>4 DEF Filling, N
<1>6. \A k \in 1..N :
        /\ f[k-1] \in X /\ f[k-1][1].entries \in Seq(Y)
        /\ ms[k][1] = ProtoKey => f[k] = f[k-1]
        /\ ms[k][1] # ProtoKey => f[k][1].entries = Append(f[k-1][1].entries, Entry(ms[k][1], vs[k]))
  <2> TAKE k \in 1..N
  <2>1. k - 1 \in 0..N
    BY <1>1
  <2>2. f[k-1] \in X
    BY <1>5, <2>1
  <2>3. f[k-1][1].entries \in Seq(Y)
    BY <2>2 DEF Objects
  <2>4. f[k] = SetMember(f[k-1], 1, ms[k][1], vs[k])
    BY <1>4 DEF Filling, N
  <2>5. ~IsNode(vs[k])
    BY <1>1
  <2> DEFINE h == f[k-1]
             g == f[k]
             key == ms[k][1]
             v == vs[k]
  <2>6. h \in [{1} -> Objects(Y)] /\ ~IsNode(v) /\ (key # ProtoKey => Entry(key, v) \in Y)
    BY <1>2, <2>2, <2>5
  <2>7. g = SetMember(h, 1, key, v)
    BY <2>4
  <2> HIDE DEF h, g, key, v, X
  <2>8. /\ key = ProtoKey => g = h
        /\ key # ProtoKey => g[1].entries = Append(h[1].entries, Entry(key, v))
    BY ONLY <2>6, <2>7, MemberSet
  <2> QED BY <2>2, <2>3, <2>8 DEF h, g, key, v
<1> DEFINE Has(k, y) == \E i \in DOMAIN f[k][1].entries : f[k][1].entries[i] = y
           S == {k \in 0..N : \A j \in 1..k : ms[j][1] # ProtoKey => Has(k, Entry(ms[j][1], vs[j]))}
<1>7. 0 \in S
  BY <1>1
<1>8. ASSUME NEW k \in 1..N, k - 1 \in S PROVE k \in S
  <2>1. \A j \in 1..k-1 : ms[j][1] # ProtoKey => Has(k - 1, Entry(ms[j][1], vs[j]))
    BY <1>8
  <2>2. \A y : Has(k - 1, y) => Has(k, y)
    <3> SUFFICES ASSUME NEW y, Has(k - 1, y) PROVE Has(k, y)
      OBVIOUS
    <3>1. CASE ms[k][1] = ProtoKey
      <4>1. f[k] = f[k-1]
        BY <1>6, <3>1
      <4> QED BY <4>1
    <3>2. CASE ms[k][1] # ProtoKey
      <4> DEFINE e == f[k-1][1].entries
      <4>1. f[k][1].entries = Append(e, Entry(ms[k][1], vs[k])) /\ e \in Seq(Y)
        BY <1>6, <3>2
      <4>2. PICK i \in DOMAIN e : e[i] = y
        OBVIOUS
      <4> HIDE DEF e
      <4> QED BY <4>1, <4>2
    <3> QED BY <3>1, <3>2
  <2>3. ms[k][1] # ProtoKey => Has(k, Entry(ms[k][1], vs[k]))
    <3> SUFFICES ASSUME ms[k][1] # ProtoKey PROVE Has(k, Entry(ms[k][1], vs[k]))
      OBVIOUS
    <3> DEFINE e == f[k-1][1].entries
               a == Entry(ms[k][1], vs[k])
    <3>1. f[k][1].entries = Append(e, a) /\ e \in Seq(Y)
      BY <1>6
    <3> HIDE DEF e, a
    <3>2. Len(e) + 1 \in DOMAIN Append(e, a) /\ Append(e, a)[Len(e) + 1] = a
      BY <3>1
    <3>3. Has(k, a)
      BY <3>1, <3>2
    <3> QED BY <3>3 DEF a
  <2> HIDE DEF Has
  <2>4. ASSUME NEW j \in 1..k, ms[j][1] # ProtoKey PROVE Has(k, Entry(ms[j][1], vs[j]))
    <3>1. j = k \/ j \in 1..k-1
      BY <1>1
    <3> QED BY <2>1, <2>2, <2>3, <2>4, <3>1
  <2> QED BY <1>1, <2>4
<1>9. N \in S
  <2>1. Closed(S, N)
    BY <1>8 DEF Closed
  <2> HIDE DEF S
  <2> QED BY <1>1, <1>7, <2>1, Reached
<1>10. node = f[N][1] /\ f[N] \in X
  BY <1>1, <1>4, <1>5 DEF Filling, N
<1>11. node \in Objects(Y)
  BY <1>10
<1>12. ASSUME NEW y \in Y PROVE \E i \in DOMAIN node.entries : node.entries[i] = y
  <2>1. PICK j \in DOMAIN ms : ms[j][1] # ProtoKey /\ y = Entry(ms[j][1], vs[j])
    BY DEF Y, Members
  <2>2. Has(N, y)
    BY <1>1, <1>9, <2>1
  <2> QED BY <1>10, <2>2
<1> QED BY <1>11, <1>12 DEF Y

-----------------------------------------------------------------------------
(* What a script's value and a Rust value become.                          *)

Shapes == {"plain", "option", "vec", "map"}
ScriptContainers ==
  [kind : {"array", "object"}, proto : {None}, refs : {1},
   entries : Seq([key : Strings \cup {None}, value : ScriptValues])]
ScriptSent(t, s) ==
  /\ t \in [shape : Shapes, item : Items] /\ (s \in ScriptValues \/ s \in ScriptContainers)
  /\ t.shape = "map" /\ "entries" \in DOMAIN s => NamesDiffer(s.entries)

(* What an exchange may look at, and its numbers as i64.                   *)
Plainly(s) == IF "entries" \in DOMAIN s THEN Ref(1) ELSE s
Inside(t, s) ==
  IF "entries" \notin DOMAIN s THEN {s}
  ELSE IF t.shape \in {"plain", "option"} THEN {Ref(1)}
  ELSE {s.entries[i].value : i \in DOMAIN s.entries}
Integral(vs) == {FloatAsI64(v.data) : v \in {w \in vs : w.tag \in Numeric}}

LEMMA Renumbered ==
  ASSUME NEW v, v.tag \in Numeric, Number(v) \in RangeOf.i32
  PROVE  FloatAsI64(v.data) = Number(v)
<1>1. CASE v.tag = "float"
  BY <1>1 DEF Number
<1>2. CASE v.tag # "float"
  <2>1. v.data \in Int /\ -(MaxI32 + 1) <= v.data /\ v.data <= MaxI32
    BY <1>2 DEF Number, RangeOf
  <2>2. v.data \notin {NaN, Half, Infinity}
    BY <2>1, ConversionWidths
  <2>3. ~(v.data > MaxI64) /\ ~(v.data < -(MaxI64 + 1))
    BY <2>1, ConversionWidths
  <2>4. FloatAsI64(v.data) = v.data
    BY <2>2, <2>3 DEF FloatAsI64
  <2> QED BY <1>2, <2>4 DEF Number
<1> QED BY <1>1, <1>2

(* What is read of a value and made into one again.                        *)
LEMMA PlainEcho ==
  ASSUME NEW item \in Items, NEW v, NEW vs, v \in vs,
         TryPlain(item, v).status = "ok", NEW w, w = ToPlain(item, TryPlain(item, v).value)
  PROVE  \/ w.status = "ok"
         \/ w = Panic /\ item \in BigTypes \ {"i64"} /\ Integral(vs) \cap RangeOf.i32 # {}
<1> DEFINE x == TryPlain(item, v).value
<1>1. CASE w = Ok(Value(TagOf(item, x), x))
  BY <1>1 DEF Ok, Result
<1>2. CASE w = Panic /\ item \in BigTypes \ {"i64"} /\ x \in RangeOf.i32
  <2>1. v.tag \in Numeric /\ x = Number(v)
    BY <1>2, PlainRead
  <2>2. FloatAsI64(v.data) = x
    BY <1>2, <2>1, Renumbered
  <2>3. FloatAsI64(v.data) \in Integral(vs)
    BY <2>1 DEF Integral
  <2> QED BY <1>2, <2>2, <2>3
<1> QED BY <1>1, <1>2, PlainWritten

ReadsWell(t, s, r) ==
  /\ r.status \in {"ok", "error", "panic", "abort"}
  /\ r.status = "panic" => \E v \in Inside(t, s) : v.tag = "throws"
  /\ r.status = "abort" =>
       \/ \E v \in Inside(t, s) : v.tag \notin Numeric
       \/ t.shape = "map" /\ \E i \in DOMAIN s.entries : s.entries[i].key = NulText

EchoesWell(t, s, w) ==
  /\ w.status \in {"ok", "panic"}
  /\ w.status = "panic" =>
       t.item \in BigTypes \ {"i64"} /\ Integral(Inside(t, s)) \cap RangeOf.i32 # {}

Statuses == {"ok", "error", "panic", "abort"}
LEMMA StatusOf ==
  /\ \A x : Ok(x).status = "ok" /\ Ok(x).value = x
  /\ Err.status = "error" /\ Panic.status = "panic" /\ Abort.status = "abort"
BY DEF Ok, Err, Panic, Abort, Result

LEMMA ScriptShapes ==
  ASSUME NEW t, NEW s, ScriptSent(t, s)
  PROVE  /\ t.item \in Items /\ t.shape \in Shapes
         /\ \/ s \in ScriptValues /\ "entries" \notin DOMAIN s /\ Plainly(s) = s /\ Inside(t, s) = {s}
            \/ /\ s \in ScriptContainers /\ "entries" \in DOMAIN s /\ Plainly(s) = Ref(1)
               /\ s.entries \in Seq([key : Strings \cup {None}, value : ScriptValues])
         /\ t.shape \in {"plain", "option"} => Plainly(s) \in Inside(t, s)
<1>1. t.item \in Items /\ t.shape \in Shapes
  BY DEF ScriptSent
<1>2. CASE s \in ScriptValues
  <2>1. "entries" \notin DOMAIN s
    BY <1>2 DEF ScriptValues
  <2> QED BY <1>1, <1>2, <2>1 DEF Plainly, Inside
<1>3. CASE s \in ScriptContainers
  <2>1. "entries" \in DOMAIN s /\ s.entries \in Seq([key : Strings \cup {None}, value : ScriptValues])
    BY <1>3 DEF ScriptContainers
  <2> QED BY <1>1, <1>3, <2>1 DEF Plainly, Inside
<1> QED BY <1>2, <1>3 DEF ScriptSent

LEMMA FromByShape ==
  ASSUME NEW t, NEW s
  PROVE  /\ t.shape = "plain" => TryFrom(t, s) = TryPlain(t.item, Plainly(s))
         /\ t.shape = "option" =>
              TryFrom(t, s) = IF Plainly(s) = Null THEN Ok(None) ELSE TryPlain(t.item, Plainly(s))
         /\ t.shape = "vec" =>
              \/ /\ "entries" \in DOMAIN s /\ s.kind = "array"
                 /\ TryFrom(t, s) = TryVec(t.item, s.entries)
              \/ /\ ~("entries" \in DOMAIN s /\ s.kind = "array")
                 /\ TryFrom(t, s) = Err
         /\ t.shape = "map" =>
              \/ "entries" \in DOMAIN s /\ TryFrom(t, s) = TryMap(t.item, s.entries)
              \/ "entries" \notin DOMAIN s /\ TryFrom(t, s) = Err
<1>1. CASE t.shape = "plain"
  BY <1>1 DEF TryFrom, Plainly
<1>2. CASE t.shape = "option"
  BY <1>2 DEF TryFrom, Plainly
<1>3. CASE t.shape = "vec"
  BY <1>3 DEF TryFrom
<1>4. CASE t.shape = "map"
  BY <1>4 DEF TryFrom
<1> QED BY <1>1, <1>2, <1>3, <1>4

LEMMA ToByShape ==
  ASSUME NEW t, NEW x
  PROVE  /\ t.shape = "plain" => ToOwned(t, x) = ToPlain(t.item, x)
         /\ t.shape = "option" =>
              ToOwned(t, x) = IF x = None THEN Ok(Null) ELSE ToPlain(t.item, x)
         /\ t.shape = "vec" => ToOwned(t, x) = ToVec(t.item, x)
         /\ t.shape = "map" => ToOwned(t, x) = ToMap(t.item, x)
BY DEF ToOwned

LEMMA PlainReadsWell ==
  ASSUME NEW t, NEW s, ScriptSent(t, s), t.shape \in {"plain", "option"}, NEW r, r = TryFrom(t, s)
  PROVE  ReadsWell(t, s, r)
<1> DEFINE p == TryPlain(t.item, Plainly(s))
<1>1. r = p \/ r = Ok(None)
  <2>1. CASE t.shape = "plain"
    BY <2>1, FromByShape
  <2>2. CASE t.shape = "option"
    BY <2>2, FromByShape
  <2> QED BY <2>1, <2>2
<1>2. p.status \in {"ok", "error", "abort"} /\ (p.status = "abort" => Plainly(s).tag \notin Numeric)
  BY ScriptShapes, PlainRead
<1> HIDE DEF p
<1>3. r.status \in {"ok", "error", "abort"} /\ (r.status = "abort" => Plainly(s).tag \notin Numeric)
  BY <1>1, <1>2, StatusOf
<1>4. Plainly(s) \in Inside(t, s)
  BY ScriptShapes
<1> QED BY <1>3, <1>4 DEF ReadsWell

LEMMA PlainEchoesWell ==
  ASSUME NEW t, NEW s, ScriptSent(t, s), t.shape \in {"plain", "option"}, NEW r, r = TryFrom(t, s), r.status = "ok",
         NEW w, w = ToOwned(t, r.value)
  PROVE  EchoesWell(t, s, w)
<1> DEFINE p == TryPlain(t.item, Plainly(s))
           x == r.value
<1>1. Plainly(s) \in Inside(t, s) /\ t.item \in Items
  BY ScriptShapes
<1>2. \/ w = Ok(Null)
      \/ r = p /\ w = ToPlain(t.item, p.value)
  <2>1. CASE t.shape = "plain"
    BY <2>1, FromByShape, ToByShape
  <2>2. CASE t.shape = "option" /\ x = None
    BY <2>2, ToByShape
  <2>3. CASE t.shape = "option" /\ x # None
    <3>1. r # Ok(None)
      BY <2>3, StatusOf
    <3>2. r = p
      BY <2>3, <3>1, FromByShape
    <3>3. w = ToPlain(t.item, x)
      BY <2>3, ToByShape
    <3> QED BY <3>2, <3>3
  <2> QED BY <2>1, <2>2, <2>3
<1>4. CASE w = Ok(Null)
  BY <1>4, StatusOf DEF EchoesWell
<1>5. CASE r = p /\ w = ToPlain(t.item, p.value)
  <2>1. p.status = "ok"
    BY <1>5
  <2>2. \/ w.status = "ok"
        \/ w = Panic /\ t.item \in BigTypes \ {"i64"} /\ Integral(Inside(t, s)) \cap RangeOf.i32 # {}
    BY <1>1, <1>5, <2>1, PlainEcho
  <2> QED BY <2>2, StatusOf DEF EchoesWell
<1> QED BY <1>2, <1>4, <1>5

(* What a failure among results was.                                       *)
LEMMA DecidedStatus ==
  ASSUME NEW results, NEW r, NEW x, Decided(results, r, Ok(x)),
         \A i \in DOMAIN results : results[i].status \in Statuses
  PROVE  /\ r.status \in Statuses
         /\ r.status = "ok" => r.value = x /\ \A i \in DOMAIN results : results[i].status = "ok"
         /\ r.status # "ok" => \E i \in DOMAIN results : r = results[i]
BY StatusOf DEF Decided, Statuses

LEMMA ElementReads ==
  ASSUME NEW item \in Items, NEW v, NEW r,
         r = IF v.tag = "throws" THEN Panic ELSE TryPlain(item, v)
  PROVE  /\ r.status \in Statuses
         /\ r.status = "panic" => v.tag = "throws"
         /\ r.status = "abort" => v.tag \notin Numeric
         /\ r.status = "ok" => r = TryPlain(item, v)
<1>1. CASE v.tag = "throws"
  BY <1>1, StatusOf DEF Statuses
<1>2. CASE v.tag # "throws"
  BY <1>2, PlainRead DEF Statuses
<1> QED BY <1>1, <1>2

(* The elements of an array and of an object are inside.                   *)
LEMMA PresentInside ==
  ASSUME NEW t, NEW s, ScriptSent(t, s), t.shape \in {"vec", "map"}, "entries" \in DOMAIN s,
         NEW there, there = Present(s.entries)
  PROVE  /\ there \in Seq([key : Strings \cup {None}, value : ScriptValues])
         /\ \A i \in DOMAIN there : there[i].value \in Inside(t, s)
<1>1. s.entries \in Seq([key : Strings \cup {None}, value : ScriptValues])
  BY ScriptShapes
<1>2. Inside(t, s) = {s.entries[i].value : i \in DOMAIN s.entries}
  BY DEF Inside
<1>3. \A i \in DOMAIN there : \E j \in DOMAIN s.entries : there[i] = s.entries[j]
  BY <1>1, PresentFrom
<1> QED BY <1>1, <1>2, <1>3, PresentFrom

(* x was read of an array: of the elements present, all well.              *)
ElementsRead(t, s, x) ==
  LET there == Present(s.entries) IN
  /\ "entries" \in DOMAIN s
  /\ x = [i \in DOMAIN there |-> ElementRead(t.item, there[i]).value]
  /\ \A i \in DOMAIN there : ElementRead(t.item, there[i]).status = "ok"

LEMMA VecReadsWell ==
  ASSUME NEW t, NEW s, ScriptSent(t, s), t.shape = "vec", NEW r, r = TryFrom(t, s)
  PROVE  ReadsWell(t, s, r) /\ (r.status = "ok" => ElementsRead(t, s, r.value))
<1> DEFINE there == Present(s.entries)
           results == [i \in DOMAIN there |-> ElementRead(t.item, there[i])]
           x == [i \in DOMAIN there |-> ElementRead(t.item, there[i]).value]
<1>1. t.item \in Items
  BY ScriptShapes
<1>2. CASE r = Err
  BY <1>2, StatusOf DEF ReadsWell
<1>3. CASE r = TryVec(t.item, s.entries) /\ "entries" \in DOMAIN s
  <2>1. /\ s.entries \in Seq([key : Strings \cup {None}, value : ScriptValues])
        /\ \A i \in DOMAIN there : there[i].value \in Inside(t, s)
    BY <1>3, ScriptShapes, PresentInside
  <2>2. Decided(results, r, Ok(x))
    BY <1>3, <2>1, VecRead
  <2> HIDE DEF there
  <2>3. \A i \in DOMAIN there :
          LET e == ElementRead(t.item, there[i])
              v == there[i].value
          IN e.status \in Statuses /\ (e.status = "panic" => v.tag = "throws")
               /\ (e.status = "abort" => v.tag \notin Numeric)
    BY <1>1, ElementReads DEF ElementRead
  <2>4. \A i \in DOMAIN results : results[i] = ElementRead(t.item, there[i]) /\ i \in DOMAIN there
    OBVIOUS
  <2>5. DOMAIN results = DOMAIN there
    OBVIOUS
  <2> HIDE DEF results, x
  <2>6. \A i \in DOMAIN results : results[i].status \in Statuses
    BY <2>3, <2>4
  <2>7. /\ r.status \in Statuses
        /\ r.status = "ok" => r.value = x /\ \A i \in DOMAIN results : results[i].status = "ok"
        /\ r.status # "ok" => \E i \in DOMAIN results : r = results[i]
    BY <2>2, <2>6, DecidedStatus
  <2>8. ReadsWell(t, s, r)
    <3>1. r.status = "panic" => \E v \in Inside(t, s) : v.tag = "throws"
      BY <2>1, <2>3, <2>4, <2>7
    <3>2. r.status = "abort" => \E v \in Inside(t, s) : v.tag \notin Numeric
      BY <2>1, <2>3, <2>4, <2>7
    <3> QED BY <2>7, <3>1, <3>2 DEF ReadsWell, Statuses
  <2>9. r.status = "ok" =>
          r.value = x /\ \A i \in DOMAIN there : ElementRead(t.item, there[i]).status = "ok"
    BY <2>4, <2>5, <2>7
  <2>10. r.status = "ok" => ElementsRead(t, s, r.value)
    BY <1>3, <2>9 DEF there, x, ElementsRead
  <2> QED BY <2>8, <2>10
<1>4. r = Err \/ (r = TryVec(t.item, s.entries) /\ "entries" \in DOMAIN s)
  BY FromByShape
<1> QED BY <1>2, <1>3, <1>4, StatusOf

LEMMA VecEchoesWell ==
  ASSUME NEW t, NEW s, ScriptSent(t, s), t.shape = "vec", NEW r, r = TryFrom(t, s), r.status = "ok",
         NEW w, w = ToOwned(t, r.value)
  PROVE  EchoesWell(t, s, w)
<1> DEFINE there == Present(s.entries)
           X == {ElementRead(t.item, there[i]).value : i \in DOMAIN there}
           results == [i \in DOMAIN r.value |-> ToPlain(t.item, r.value[i])]
<1>1. /\ "entries" \in DOMAIN s /\ t.item \in Items
      /\ r.value = [i \in DOMAIN there |-> ElementRead(t.item, there[i]).value]
      /\ \A i \in DOMAIN there : ElementRead(t.item, there[i]).status = "ok"
  <2>1. ElementsRead(t, s, r.value)
    BY VecReadsWell
  <2> QED BY <2>1, ScriptShapes DEF ElementsRead
<1>2. /\ there \in Seq([key : Strings \cup {None}, value : ScriptValues])
      /\ \A i \in DOMAIN there : there[i].value \in Inside(t, s)
  BY <1>1, PresentInside
<1> HIDE DEF there
<1>3. \A i \in DOMAIN there :
        /\ there[i].value \in Inside(t, s) /\ TryPlain(t.item, there[i].value).status = "ok"
        /\ ElementRead(t.item, there[i]) = TryPlain(t.item, there[i].value)
  <2> TAKE i \in DOMAIN there
  <2> DEFINE e == ElementRead(t.item, there[i])
             v == there[i].value
  <2>1. e = IF v.tag = "throws" THEN Panic ELSE TryPlain(t.item, v)
    BY DEF ElementRead
  <2>2. e.status = "ok" /\ v \in Inside(t, s)
    BY <1>1, <1>2
  <2> HIDE DEF e, v
  <2>3. e = TryPlain(t.item, v)
    BY <1>1, <2>1, <2>2, ElementReads
  <2> QED BY <2>2, <2>3 DEF e, v
<1>4. r.value \in Seq(X)
  <2>1. Len(there) \in Nat /\ DOMAIN there = 1..Len(there)
    BY <1>2
  <2>2. r.value \in [1..Len(there) -> X]
    BY <1>1, <2>1
  <2> HIDE DEF X
  <2> QED BY <2>1, <2>2, IsASeq
<1>5. Decided(results, w, Ok([Node("array") EXCEPT !.entries = Elements(t.item, r.value)]))
  <2>1. w = ToVec(t.item, r.value)
    BY ToByShape
  <2> HIDE DEF X
  <2> QED BY <1>4, <2>1, VecWritten
<1>6. \A i \in DOMAIN results : i \in DOMAIN there /\ results[i] = ToPlain(t.item, TryPlain(t.item, there[i].value).value)
  BY <1>1, <1>3
<1> HIDE DEF results
<1>7. \A i \in DOMAIN results :
        \/ results[i].status = "ok"
        \/ results[i] = Panic /\ t.item \in BigTypes \ {"i64"} /\ Integral(Inside(t, s)) \cap RangeOf.i32 # {}
  BY <1>1, <1>3, <1>6, PlainEcho
<1>8. /\ w.status \in Statuses
      /\ w.status # "ok" => \E i \in DOMAIN results : w = results[i]
  BY <1>5, <1>7, StatusOf, DecidedStatus DEF Statuses
<1> QED BY <1>7, <1>8, StatusOf DEF EchoesWell

LEMMA NoNul == \A k : to_string(k) # NulText
BY StringsDiffer DEF to_string

(* What a HashMap finds under a key: a member, or nothing under a part of  *)
(* a key.                                                                  *)
LEMMA MemberFound ==
  ASSUME NEW X, NEW es \in Seq(X), NEW i \in DOMAIN es, NEW v, v = Member(es, to_string(es[i].key))
  PROVE  \/ \E j \in DOMAIN es : v = es[j].value /\ es[j].key = to_string(es[i].key)
         \/ v = Undefined /\ es[i].key = NulText
<1> DEFINE name == to_string(es[i].key)
           named == {j \in DOMAIN es : es[j].key = name}
           one == CHOOSE j \in named : TRUE
<1>1. v = IF named = {} THEN Undefined ELSE es[one].value
  BY DEF Member
<1>2. named # {} => one \in named
  OBVIOUS
<1>3. named = {} => es[i].key = NulText
  BY DEF to_string
<1> HIDE DEF one
<1>4. CASE named = {}
  BY <1>1, <1>3, <1>4
<1>5. CASE named # {}
  BY <1>1, <1>2, <1>5
<1> QED BY <1>4, <1>5

LEMMA MemberInside ==
  ASSUME NEW t, NEW s, ScriptSent(t, s), t.shape = "map", "entries" \in DOMAIN s,
         NEW i \in DOMAIN s.entries, NEW v, v = Member(s.entries, to_string(s.entries[i].key))
  PROVE  v \in Inside(t, s) \/ (v = Undefined /\ s.entries[i].key = NulText)
<1>1. s.entries \in Seq([key : Strings \cup {None}, value : ScriptValues])
  BY ScriptShapes
<1>2. Inside(t, s) = {s.entries[j].value : j \in DOMAIN s.entries}
  BY DEF Inside
<1>3. \/ \E j \in DOMAIN s.entries : v = s.entries[j].value
      \/ v = Undefined /\ s.entries[i].key = NulText
  BY <1>1, MemberFound
<1> QED BY <1>2, <1>3

(* x was read of an object: of the members seen, all well.                 *)
MembersRead(t, s, x) ==
  LET es == s.entries IN
  /\ "entries" \in DOMAIN s
  /\ x = {<<to_string(es[i].key), MemberRead(t.item, es, i).value>> : i \in Seen(es)}
  /\ \A i \in Seen(es) : MemberRead(t.item, es, i).status = "ok"

LEMMA UndefinedIs == Undefined.tag = "undefined"
BY DEF Undefined, Value

LEMMA MapReadsWell ==
  ASSUME NEW t, NEW s, ScriptSent(t, s), t.shape = "map", NEW r, r = TryFrom(t, s)
  PROVE  ReadsWell(t, s, r) /\ (r.status = "ok" => MembersRead(t, s, r.value))
<1> DEFINE es == s.entries
           results == [i \in Seen(es) |-> MemberRead(t.item, es, i)]
           x == {<<to_string(es[i].key), MemberRead(t.item, es, i).value>> : i \in Seen(es)}
<1>1. t.item \in Items
  BY ScriptShapes
<1>2. CASE r = Err
  BY <1>2, StatusOf DEF ReadsWell
<1>3. CASE r = TryMap(t.item, es) /\ "entries" \in DOMAIN s
  <2>1. es \in Seq([key : Strings \cup {None}, value : ScriptValues])
    BY <1>3, ScriptShapes
  <2>2. Decided(results, r, Ok(x))
    BY <1>3, <2>1, MapRead
  <2>3. Seen(es) \subseteq DOMAIN es
    BY DEF Seen
  <2>4. \A i \in Seen(es) :
          LET e == MemberRead(t.item, es, i)
              v == Member(es, to_string(es[i].key))
          IN /\ e.status \in Statuses /\ (e.status = "panic" => v.tag = "throws")
             /\ e.status = "abort" => v.tag \notin Numeric
             /\ v \in Inside(t, s) \/ (v = Undefined /\ es[i].key = NulText)
    <3> TAKE i \in Seen(es)
    <3> DEFINE e == MemberRead(t.item, es, i)
               v == Member(es, to_string(es[i].key))
    <3>1. e = IF v.tag = "throws" THEN Panic ELSE TryPlain(t.item, v)
      BY DEF MemberRead
    <3>2. v \in Inside(t, s) \/ (v = Undefined /\ es[i].key = NulText)
      BY <1>3, <2>3, MemberInside
    <3> HIDE DEF e, v
    <3>3. e.status \in Statuses /\ (e.status = "panic" => v.tag = "throws")
            /\ (e.status = "abort" => v.tag \notin Numeric)
      BY <1>1, <3>1, ElementReads
    <3> QED BY <3>2, <3>3 DEF e, v
  <2>5. \A i \in DOMAIN results : results[i] = MemberRead(t.item, es, i) /\ i \in Seen(es)
    OBVIOUS
  <2>6. DOMAIN results = Seen(es)
    OBVIOUS
  <2> HIDE DEF results, x
  <2>7. \A i \in DOMAIN results : results[i].status \in Statuses
    BY <2>4, <2>5
  <2>8. /\ r.status \in Statuses
        /\ r.status = "ok" => r.value = x /\ \A i \in DOMAIN results : results[i].status = "ok"
        /\ r.status # "ok" => \E i \in DOMAIN results : r = results[i]
    BY <2>2, <2>7, DecidedStatus
  <2>9. ReadsWell(t, s, r)
    <3>1. r.status = "panic" => \E v \in Inside(t, s) : v.tag = "throws"
      BY <2>4, <2>5, <2>8, UndefinedIs
    <3>2. r.status = "abort" =>
            \/ \E v \in Inside(t, s) : v.tag \notin Numeric
            \/ \E i \in DOMAIN es : es[i].key = NulText
      BY <2>3, <2>4, <2>5, <2>8
    <3> QED BY <2>8, <3>1, <3>2 DEF ReadsWell, Statuses
  <2>10. r.status = "ok" =>
          r.value = x /\ \A i \in Seen(es) : MemberRead(t.item, es, i).status = "ok"
    BY <2>5, <2>6, <2>8
  <2>11. r.status = "ok" => MembersRead(t, s, r.value)
    BY <1>3, <2>10 DEF x, MembersRead
  <2> QED BY <2>9, <2>11
<1>4. r = Err \/ (r = TryMap(t.item, es) /\ "entries" \in DOMAIN s)
  BY FromByShape
<1> QED BY <1>2, <1>3, <1>4, StatusOf

LEMMA PairsFinite ==
  ASSUME NEW t, NEW s, ScriptSent(t, s), NEW x, MembersRead(t, s, x)
  PROVE  IsFiniteSet(x)
<1> DEFINE es == s.entries
           D == Seen(es)
           f == [i \in D |-> <<to_string(es[i].key), MemberRead(t.item, es, i).value>>]
<1>1. IsFiniteSet(D)
  <2>1. es \in Seq([key : Strings \cup {None}, value : ScriptValues])
    BY ScriptShapes DEF MembersRead
  <2>2. IsFiniteSet(DOMAIN es)
    <3>1. DOMAIN es = 1..Len(es) /\ Len(es) \in Int
      BY <2>1
    <3> QED BY <3>1, FS_Interval
  <2>3. D \subseteq DOMAIN es
    BY DEF Seen
  <2> HIDE DEF D, es
  <2> QED BY <2>2, <2>3, FS_Subset
<1>2. f \in Surjection(D, x)
  <2>1. x = {f[i] : i \in D}
    <3>1. x = {<<to_string(es[i].key), MemberRead(t.item, es, i).value>> : i \in D}
      BY DEF MembersRead
    <3> HIDE DEF D
    <3> QED BY <3>1
  <2>2. DOMAIN f = D /\ f = [i \in D |-> f[i]]
    OBVIOUS
  <2> HIDE DEF f, D
  <2> QED BY <2>1, <2>2 DEF Surjection
<1> QED BY <1>1, <1>2, FS_Surjection

LEMMA MapEchoesWell ==
  ASSUME NEW t, NEW s, ScriptSent(t, s), t.shape = "map", NEW r, r = TryFrom(t, s), r.status = "ok",
         NEW w, w = ToOwned(t, r.value)
  PROVE  EchoesWell(t, s, w)
<1> DEFINE es == s.entries
           pairs == r.value
           ms == InSomeOrder(pairs)
           results == [i \in DOMAIN ms |-> IF ms[i][1] = NulText THEN Panic ELSE ToPlain(t.item, ms[i][2])]
           made == MapNode(ms, [i \in DOMAIN ms |->
                      (IF ms[i][1] = NulText THEN Panic ELSE ToPlain(t.item, ms[i][2])).value])
<1>1. MembersRead(t, s, pairs) /\ t.item \in Items
  BY MapReadsWell, ScriptShapes
<1>2. ms \in Seq(pairs)
  BY <1>1, PairsFinite, SomeOrder
<1>3. Decided(results, w, Ok(made))
  <2>1. w = ToMap(t.item, pairs)
    BY ToByShape
  <2> QED BY <1>2, <2>1, MapWritten
<1>4. ASSUME NEW p \in pairs
      PROVE  /\ p[1] # NulText
             /\ \/ ToPlain(t.item, p[2]).status = "ok"
                \/ /\ ToPlain(t.item, p[2]) = Panic /\ t.item \in BigTypes \ {"i64"}
                   /\ Integral(Inside(t, s)) \cap RangeOf.i32 # {}
  <2>1. PICK i \in Seen(es) : p = <<to_string(es[i].key), MemberRead(t.item, es, i).value>>
    BY <1>1 DEF MembersRead
  <2> DEFINE e == MemberRead(t.item, es, i)
             v == Member(es, to_string(es[i].key))
  <2>2. e = IF v.tag = "throws" THEN Panic ELSE TryPlain(t.item, v)
    BY DEF MemberRead
  <2>3. e.status = "ok"
    BY <1>1 DEF MembersRead
  <2>4. v \in Inside(t, s) \/ v = Undefined
    <3>1. i \in DOMAIN es /\ "entries" \in DOMAIN s
      BY <1>1 DEF MembersRead, Seen
    <3> QED BY <3>1, MemberInside
  <2>5. p[1] # NulText /\ p[2] = e.value
    BY <2>1, NoNul
  <2> HIDE DEF e, v
  <2>6. e = TryPlain(t.item, v)
    BY <1>1, <2>2, <2>3, ElementReads
  <2>7. CASE v \in Inside(t, s)
    BY <1>1, <2>3, <2>5, <2>6, <2>7, PlainEcho
  <2>8. CASE v = Undefined
    <3>1. t.item \notin BigTypes
      BY <1>1, <2>3, <2>6, <2>8, PlainRead, UndefinedIs DEF Numeric
    <3> QED BY <1>1, <2>5, <3>1, PlainWritten, StatusOf
  <2> QED BY <2>4, <2>5, <2>7, <2>8
<1>5. \A i \in DOMAIN results : results[i] = ToPlain(t.item, ms[i][2]) /\ ms[i] \in pairs
  BY <1>2, <1>4
<1> HIDE DEF results, made, ms, pairs
<1>6. \A i \in DOMAIN results :
        \/ results[i].status = "ok"
        \/ results[i] = Panic /\ t.item \in BigTypes \ {"i64"} /\ Integral(Inside(t, s)) \cap RangeOf.i32 # {}
  BY <1>4, <1>5
<1>7. /\ w.status \in Statuses
      /\ w.status # "ok" => \E i \in DOMAIN results : w = results[i]
  BY <1>3, <1>6, StatusOf, DecidedStatus DEF Statuses
<1> QED BY <1>6, <1>7, StatusOf DEF EchoesWell

-----------------------------------------------------------------------------
(* What Rust sends through a script and back.                              *)

HostSent(t, s) ==
  /\ t \in [shape : Shapes, item : Items]
  /\ t.shape = "plain" => s \in InType(t.item)
  /\ t.shape = "option" => s \in InType(t.item) \cup {None}
  /\ t.shape = "vec" => s \in Seq(InType(t.item))
  /\ t.shape = "map" => IsHashMap(s, t.item)

HostNumbers(t, s) ==
  IF t.shape = "vec" THEN {s[i] : i \in DOMAIN s}
  ELSE IF t.shape = "map" THEN {p[2] : p \in s} ELSE {s}

(* What Rust gets back for what it sent.                                   *)
Expected(t, s) ==
  IF t.shape = "vec" THEN [i \in DOMAIN s |-> to_string(s[i])]
  ELSE IF t.shape = "map" THEN {<<p[1], to_string(p[2])>> : p \in {q \in s : q[1] # ProtoKey}}
  ELSE to_string(s)

WritesWell(t, s, w) ==
  /\ w.status \in {"ok", "panic"}
  /\ w.status = "panic" =>
       \/ t.item \in BigTypes \ {"i64"} /\ HostNumbers(t, s) \cap RangeOf.i32 # {}
       \/ t.shape = "map" /\ \E p \in s : p[1] = NulText

LEMMA NumbersOfTypes ==
  ASSUME NEW item \in Items
  PROVE  InType(item) \subseteq Int \cup Floats \cup Strings /\ (item # "String" => InType(item) \subseteq Int \cup Floats)
<1>1. CASE item = "bool"
  BY <1>1 DEF InType
<1>2. CASE item = "f64"
  BY <1>2 DEF InType
<1>3. CASE item = "String"
  BY <1>3 DEF InType
<1>4. CASE item \in {"i32", "i64", "u64", "i128", "u128"}
  <2>1. InType(item) = RangeOf[item] /\ item # "String"
    BY <1>4 DEF InType
  <2>2. RangeOf[item] \subseteq Int
    <3>1. {MaxI32, MaxI64, MaxU64, MaxI128, MaxU128} \subseteq Int
      BY ConversionWidths
    <3>2. \A a, b \in Int : a..b \subseteq Int
      OBVIOUS
    <3>3. RangeOf[item] \in {-(MaxI32 + 1)..MaxI32, -(MaxI64 + 1)..MaxI64, 0..MaxU64,
                            -(MaxI128 + 1)..MaxI128, 0..MaxU128}
      BY <1>4 DEF RangeOf
    <3>4. 0 \in Int /\ -(MaxI32 + 1) \in Int /\ -(MaxI64 + 1) \in Int /\ -(MaxI128 + 1) \in Int
      BY <3>1
    <3> QED BY <3>1, <3>2, <3>3, <3>4
  <2> QED BY <2>1, <2>2
<1> QED BY <1>1, <1>2, <1>3, <1>4 DEF Items, BigTypes

(* A T that became a value and is read as a T.                             *)
LEMMA TypedBack ==
  ASSUME NEW item \in Items, NEW x \in InType(item), NEW w, w = ToPlain(item, x), w.status = "ok"
  PROVE  /\ w = Ok(Value(TagOf(item, x), x)) /\ w.value.tag \notin {"undefined", "null", "throws", "node"}
         /\ "entries" \notin DOMAIN w.value
         /\ TryPlain(item, w.value) = Ok(to_string(x))
<1>1. w = Ok(Value(TagOf(item, x), x))
  BY PlainWritten, StatusOf
<1>2. w.value = Value(TagOf(item, x), x)
  BY <1>1, StatusOf
<1>3. TryPlain(item, w.value) = Ok(IF item = "String" THEN to_string(x) ELSE x)
  BY <1>2, PlainBack
<1>4. item # "String" => to_string(x) = x
  BY NumbersOfTypes, NoneIsNoData DEF to_string
<1>5. w.value.tag = TagOf(item, x) /\ "entries" \notin DOMAIN w.value
  BY <1>2 DEF Value
<1> QED BY <1>1, <1>3, <1>4, <1>5, TagsOf

LEMMA PlainWritesWell ==
  ASSUME NEW t, NEW s, HostSent(t, s), t.shape \in {"plain", "option"}, NEW w, w = ToOwned(t, s)
  PROVE  WritesWell(t, s, w)
<1>1. w = ToPlain(t.item, s) \/ w = Ok(Null)
  <2>1. CASE t.shape = "plain"
    BY <2>1, ToByShape
  <2>2. CASE t.shape = "option"
    BY <2>2, ToByShape
  <2> QED BY <2>1, <2>2
<1>2. t.item \in Items /\ s \in HostNumbers(t, s)
  BY DEF HostSent, HostNumbers
<1>3. CASE w = Ok(Null)
  BY <1>3, StatusOf DEF WritesWell
<1>4. CASE w = ToPlain(t.item, s)
  <2>1. \/ w.status = "ok"
        \/ w = Panic /\ t.item \in BigTypes \ {"i64"} /\ s \in RangeOf.i32
    BY <1>2, <1>4, PlainWritten, StatusOf
  <2> QED BY <1>2, <2>1, StatusOf DEF WritesWell
<1> QED BY <1>1, <1>3, <1>4

LEMMA PlainComesBack ==
  ASSUME NEW t, NEW s, HostSent(t, s), t.shape \in {"plain", "option"}, NEW w, w = ToOwned(t, s),
         w.status = "ok", NEW r, r = TryFrom(t, w.value)
  PROVE  r = Ok(Expected(t, s))
<1>1. t.item \in Items /\ Expected(t, s) = to_string(s)
  BY DEF HostSent, Expected
<1>2. CASE t.shape = "option" /\ s = None
  <2>1. w.value = Null
    BY <1>2, ToByShape, StatusOf
  <2>2. Plainly(Null) = Null
    BY DEF Plainly, Null, Value
  <2>3. r = Ok(None)
    BY <1>2, <2>1, <2>2, FromByShape
  <2>4. to_string(None) = None
    BY StringsDiffer DEF Strings, to_string
  <2> QED BY <1>1, <1>2, <2>3, <2>4
<1>3. CASE t.shape = "plain" \/ s # None
  <2>1. s \in InType(t.item)
    BY <1>3 DEF HostSent
  <2>2. w = ToPlain(t.item, s)
    BY <1>3, ToByShape
  <2>3. /\ w.value.tag \notin {"null", "node"} /\ "entries" \notin DOMAIN w.value
        /\ TryPlain(t.item, w.value) = Ok(to_string(s))
    BY <1>1, <2>1, <2>2, TypedBack
  <2>4. Plainly(w.value) = w.value /\ Null.tag = "null"
    BY <2>3 DEF Plainly, Null, Value
  <2>5. r = TryPlain(t.item, w.value)
    <3>1. w.value # Null
      BY <2>3, <2>4
    <3>2. CASE t.shape = "plain"
      BY <2>4, <3>2, FromByShape
    <3>3. CASE t.shape = "option"
      BY <2>4, <3>1, <3>3, FromByShape
    <3> QED BY <3>2, <3>3
  <2> QED BY <1>1, <2>3, <2>5
<1> QED BY <1>2, <1>3

LEMMA DecidedAll ==
  ASSUME NEW results, NEW r, NEW x, Decided(results, r, Ok(x)),
         \A i \in DOMAIN results : results[i].status = "ok"
  PROVE  r = Ok(x)
BY DEF Decided

(* What a T became, that of a failure too.                                 *)
LEMMA WrittenStatus ==
  ASSUME NEW item \in Items, NEW x, NEW w, w = ToPlain(item, x)
  PROVE  \/ w.status = "ok"
         \/ w = Panic /\ w.status = "panic" /\ item \in BigTypes \ {"i64"} /\ x \in RangeOf.i32
BY PlainWritten, StatusOf

LEMMA VecWritesWell ==
  ASSUME NEW t, NEW s, HostSent(t, s), t.shape = "vec", NEW w, w = ToOwned(t, s)
  PROVE  WritesWell(t, s, w)
<1> DEFINE results == [i \in DOMAIN s |-> ToPlain(t.item, s[i])]
           x == [Node("array") EXCEPT !.entries = Elements(t.item, s)]
<1>1. t.item \in Items /\ s \in Seq(InType(t.item)) /\ w = ToVec(t.item, s)
  BY ToByShape DEF HostSent
<1>2. Decided(results, w, Ok(x))
  BY <1>1, VecWritten
<1>3. \A i \in DOMAIN results : i \in DOMAIN s /\ results[i] = ToPlain(t.item, s[i])
  OBVIOUS
<1>4. \A i \in DOMAIN s : s[i] \in HostNumbers(t, s)
  BY DEF HostNumbers
<1> HIDE DEF results, x
<1>5. \A i \in DOMAIN results :
        \/ results[i].status = "ok"
        \/ /\ results[i].status = "panic" /\ t.item \in BigTypes \ {"i64"}
           /\ HostNumbers(t, s) \cap RangeOf.i32 # {}
  BY <1>1, <1>3, <1>4, WrittenStatus
<1>6. /\ w.status \in Statuses
      /\ w.status # "ok" => \E i \in DOMAIN results : w = results[i]
  BY <1>2, <1>5, DecidedStatus DEF Statuses
<1> QED BY <1>5, <1>6 DEF WritesWell

LEMMA VecComesBack ==
  ASSUME NEW t, NEW s, HostSent(t, s), t.shape = "vec", NEW w, w = ToOwned(t, s),
         w.status = "ok", NEW r, r = TryFrom(t, w.value)
  PROVE  r = Ok(Expected(t, s))
<1> DEFINE results == [i \in DOMAIN s |-> ToPlain(t.item, s[i])]
           x == [Node("array") EXCEPT !.entries = Elements(t.item, s)]
           es == Elements(t.item, s)
           reads == [i \in DOMAIN es |-> ElementRead(t.item, es[i])]
           values == [i \in DOMAIN es |-> ElementRead(t.item, es[i]).value]
           X == {es[i] : i \in DOMAIN es}
<1>1. t.item \in Items /\ s \in Seq(InType(t.item)) /\ w = ToVec(t.item, s)
  BY ToByShape DEF HostSent
<1>2. DOMAIN s = 1..Len(s) /\ Len(s) \in Nat /\ \A i \in DOMAIN s : s[i] \in InType(t.item)
  BY <1>1
<1>3. w.value = x /\ \A i \in DOMAIN s : ToPlain(t.item, s[i]).status = "ok"
  <2>1. Decided(results, w, Ok(x))
    BY <1>1, VecWritten
  <2>2. \A i \in DOMAIN results : results[i].status \in Statuses
    BY <1>1, WrittenStatus DEF Statuses
  <2>3. DOMAIN results = DOMAIN s /\ \A i \in DOMAIN s : results[i] = ToPlain(t.item, s[i])
    OBVIOUS
  <2> HIDE DEF results, x
  <2>4. w.value = x /\ \A i \in DOMAIN results : results[i].status = "ok"
    BY <2>1, <2>2, DecidedStatus
  <2> QED BY <2>3, <2>4
<1>4. x.entries = es /\ x.kind = "array" /\ "entries" \in DOMAIN x
  BY DEF Node
<1>5. DOMAIN es = DOMAIN s /\ \A i \in DOMAIN s : es[i].value = ToPlain(t.item, s[i]).value
  BY DEF Elements, Entry
<1> HIDE DEF es
<1>6. \A i \in DOMAIN es :
        /\ es[i].value.tag \notin {"undefined", "throws"}
        /\ ElementRead(t.item, es[i]) = Ok(to_string(s[i]))
  <2> TAKE i \in DOMAIN es
  <2>1. /\ es[i].value.tag \notin {"undefined", "throws"}
        /\ TryPlain(t.item, es[i].value) = Ok(to_string(s[i]))
    BY <1>1, <1>2, <1>3, <1>5, TypedBack
  <2> QED BY <2>1 DEF ElementRead
<1>7. es \in Seq(X)
  <2>1. es = [i \in 1..Len(s) |-> es[i]]
    BY <1>2, <1>5 DEF es, Elements
  <2>2. es \in [1..Len(s) -> X]
    BY <1>2, <1>5, <2>1
  <2> HIDE DEF X
  <2> QED BY <1>2, <2>2, IsASeq
<1>8. Present(es) = es
  <2>1. \A i \in DOMAIN es : es[i].value # Undefined
    BY <1>6, UndefinedIs
  <2> HIDE DEF X
  <2> QED BY <1>7, <2>1, PresentAll
<1>9. r = TryVec(t.item, es)
  <2> HIDE DEF x
  <2> QED BY <1>3, <1>4, FromByShape
<1>10. Decided(reads, r, Ok(values))
  <2> HIDE DEF X
  <2> QED BY <1>7, <1>8, <1>9, VecRead
<1>11. \A i \in DOMAIN reads : reads[i].status = "ok"
  BY <1>6, StatusOf
<1>12. values = [i \in DOMAIN s |-> to_string(s[i])]
  BY <1>5, <1>6, StatusOf
<1>13. r = Ok(values)
  <2> HIDE DEF reads, values
  <2> QED BY <1>10, <1>11, DecidedAll
<1> QED BY <1>12, <1>13 DEF Expected

(* The members of a HashMap, in some order, as values.                     *)
MemberWrite(item, p) == IF p[1] = NulText THEN Panic ELSE ToPlain(item, p[2])
MapMade(item, ms) == MapNode(ms, [i \in DOMAIN ms |-> MemberWrite(item, ms[i]).value])

LEMMA MapSent ==
  ASSUME NEW t, NEW s, HostSent(t, s), t.shape = "map", NEW w, w = ToOwned(t, s),
         NEW ms, ms = InSomeOrder(s)
  PROVE  /\ t.item \in Items /\ ms \in Seq(s) /\ \A p \in s : \E i \in DOMAIN ms : ms[i] = p
         /\ \A p \in s : p[1] \in Strings /\ p[2] \in InType(t.item) /\ p = <<p[1], p[2]>>
         /\ \A p, q \in s : p[1] = q[1] => p = q
         /\ Decided([i \in DOMAIN ms |-> MemberWrite(t.item, ms[i])], w, Ok(MapMade(t.item, ms)))
<1>1. t.item \in Items /\ IsHashMap(s, t.item) /\ w = ToMap(t.item, s)
  BY ToByShape DEF HostSent
<1>2. ms \in Seq(s) /\ \A p \in s : \E i \in DOMAIN ms : ms[i] = p
  BY <1>1, SomeOrder DEF IsHashMap
<1>3. Decided([i \in DOMAIN ms |-> MemberWrite(t.item, ms[i])], w, Ok(MapMade(t.item, ms)))
  BY <1>1, <1>2, MapWritten DEF MemberWrite, MapMade
<1> QED BY <1>1, <1>2, <1>3 DEF IsHashMap

LEMMA MemberStatus ==
  ASSUME NEW item \in Items, NEW p, NEW w, w = MemberWrite(item, p)
  PROVE  \/ w.status = "ok" /\ p[1] # NulText /\ w = ToPlain(item, p[2])
         \/ w.status = "panic" /\ p[1] = NulText
         \/ w.status = "panic" /\ item \in BigTypes \ {"i64"} /\ p[2] \in RangeOf.i32
<1>1. CASE p[1] = NulText
  BY <1>1, StatusOf DEF MemberWrite
<1>2. CASE p[1] # NulText
  <2>1. w = ToPlain(item, p[2])
    BY <1>2 DEF MemberWrite
  <2> QED BY <1>2, <2>1, WrittenStatus
<1> QED BY <1>1, <1>2

LEMMA MapWritesWell ==
  ASSUME NEW t, NEW s, HostSent(t, s), t.shape = "map", NEW w, w = ToOwned(t, s)
  PROVE  WritesWell(t, s, w)
<1> DEFINE ms == InSomeOrder(s)
           results == [i \in DOMAIN ms |-> MemberWrite(t.item, ms[i])]
           x == MapMade(t.item, ms)
<1>1. t.item \in Items /\ ms \in Seq(s) /\ Decided(results, w, Ok(x))
  BY MapSent
<1>2. \A i \in DOMAIN results : ms[i] \in s /\ results[i] = MemberWrite(t.item, ms[i])
  BY <1>1
<1>3. \A p \in s : p[2] \in HostNumbers(t, s)
  BY DEF HostNumbers
<1> HIDE DEF results, x, ms
<1>4. \A i \in DOMAIN results :
        \/ results[i].status = "ok"
        \/ /\ results[i].status = "panic"
           /\ \/ \E p \in s : p[1] = NulText
              \/ t.item \in BigTypes \ {"i64"} /\ HostNumbers(t, s) \cap RangeOf.i32 # {}
  BY <1>1, <1>2, <1>3, MemberStatus
<1>5. /\ w.status \in Statuses
      /\ w.status # "ok" => \E i \in DOMAIN results : w = results[i]
  BY <1>1, <1>4, DecidedStatus DEF Statuses
<1> QED BY <1>4, <1>5 DEF WritesWell

(* es are the members of a HashMap s that all became values, vs.           *)
WrittenAs(item, s, ms, vs, es) ==
  /\ item \in Items /\ ms \in Seq(s)
  /\ \A p \in s : p[2] \in InType(item)
  /\ \A p, q \in s : p[1] = q[1] => p = q
  /\ \A j \in DOMAIN ms : MemberWrite(item, ms[j]).status = "ok"
  /\ vs = [i \in DOMAIN ms |-> MemberWrite(item, ms[i]).value]
  /\ es \in Seq(Members(ms, vs))

(* What reading a member of the object gives.                              *)
LEMMA MemberComesBack ==
  ASSUME NEW item, NEW s, NEW ms, NEW vs, NEW es, WrittenAs(item, s, ms, vs, es), NEW i \in DOMAIN es
  PROVE  \E p \in s : /\ p[1] # ProtoKey /\ p[1] # NulText
                      /\ es[i].key = p[1] /\ es[i].value.tag # "throws"
                      /\ MemberRead(item, es, i) = Ok(to_string(p[2]))
<1> USE DEF WrittenAs
<1>1. \A y \in Members(ms, vs) : \E j \in DOMAIN ms :
        ms[j][1] # ProtoKey /\ y.key = ms[j][1] /\ y.value = vs[j]
  BY DEF Members, Entry
<1>2. \A k \in DOMAIN es : es[k] \in Members(ms, vs)
  OBVIOUS
<1>3. PICK j \in DOMAIN ms : ms[j][1] # ProtoKey /\ es[i].key = ms[j][1] /\ es[i].value = vs[j]
  BY <1>1, <1>2
<1> DEFINE p == ms[j]
<1>4. p \in s /\ \A l \in DOMAIN ms : ms[l] \in s
  OBVIOUS
<1>5. vs[j] = MemberWrite(item, p).value /\ MemberWrite(item, p).status = "ok"
  OBVIOUS
<1>6. p[1] # NulText /\ MemberWrite(item, p) = ToPlain(item, p[2])
  BY <1>5, MemberStatus
<1>7. /\ TryPlain(item, vs[j]) = Ok(to_string(p[2]))
      /\ vs[j].tag \notin {"undefined", "throws"}
  BY <1>4, <1>5, <1>6, TypedBack
<1>8. to_string(es[i].key) = p[1]
  BY <1>3, <1>6 DEF to_string
<1>9. Member(es, p[1]) = vs[j]
  <2>1. es[i].key # NulText
    BY <1>3, <1>6
  <2>2. PICK k \in DOMAIN es : Member(es, p[1]) = es[k].value /\ es[k].key = p[1]
    BY <1>8, <2>1, MemberFound
  <2>3. PICK l \in DOMAIN ms : es[k].key = ms[l][1] /\ es[k].value = vs[l]
    BY <1>1, <1>2
  <2>4. ms[l] = p
    BY <1>4, <2>2, <2>3
  <2>5. vs[l] = vs[j]
    BY <2>4
  <2> QED BY <2>2, <2>3, <2>5
<1> HIDE DEF p
<1>10. MemberRead(item, es, i) = Ok(to_string(p[2]))
  BY <1>7, <1>8, <1>9 DEF MemberRead
<1> QED BY <1>3, <1>4, <1>6, <1>7, <1>10 DEF p

LEMMA MapComesBack ==
  ASSUME NEW t, NEW s, HostSent(t, s), t.shape = "map", NEW w, w = ToOwned(t, s),
         w.status = "ok", NEW r, r = TryFrom(t, w.value)
  PROVE  r = Ok(Expected(t, s))
<1> DEFINE ms == InSomeOrder(s)
           vs == [i \in DOMAIN ms |-> MemberWrite(t.item, ms[i]).value]
           results == [i \in DOMAIN ms |-> MemberWrite(t.item, ms[i])]
           node == MapMade(t.item, ms)
           Y == Members(ms, vs)
           es == node.entries
           reads == [i \in Seen(es) |-> MemberRead(t.item, es, i)]
           x == {<<to_string(es[i].key), MemberRead(t.item, es, i).value>> : i \in Seen(es)}
           back == {<<p[1], to_string(p[2])>> : p \in {q \in s : q[1] # ProtoKey}}
<1>1. /\ t.item \in Items /\ ms \in Seq(s) /\ \A p \in s : \E i \in DOMAIN ms : ms[i] = p
      /\ \A p \in s : p[2] \in InType(t.item)
      /\ \A p, q \in s : p[1] = q[1] => p = q
      /\ Decided(results, w, Ok(node))
  BY MapSent
<1> HIDE DEF ms
<1>2. w.value = node /\ \A j \in DOMAIN ms : MemberWrite(t.item, ms[j]).status = "ok"
  <2>1. DOMAIN results = DOMAIN ms /\ \A i \in DOMAIN ms : results[i] = MemberWrite(t.item, ms[i])
    OBVIOUS
  <2> HIDE DEF results, node
  <2>2. \A i \in DOMAIN results : results[i].status \in Statuses
    BY <1>1, <2>1, MemberStatus DEF Statuses
  <2> QED BY <1>1, <2>1, <2>2, DecidedStatus
<1>3. \A j \in DOMAIN ms : ~IsNode(vs[j])
  <2> TAKE j \in DOMAIN ms
  <2>1. vs[j] = MemberWrite(t.item, ms[j]).value /\ ms[j] \in s
    BY <1>1
  <2>2. MemberWrite(t.item, ms[j]) = ToPlain(t.item, ms[j][2])
    BY <1>1, <1>2, MemberStatus
  <2> HIDE DEF vs
  <2> QED BY <1>1, <1>2, <2>1, <2>2, TypedBack DEF IsNode
<1>4. node = MapNode(ms, vs)
  BY DEF MapMade
<1> HIDE DEF node
<1>5. node \in Objects(Y) /\ \A y \in Y : \E i \in DOMAIN es : es[i] = y
  <2> HIDE DEF vs
  <2> QED BY <1>1, <1>3, <1>4, MapNodeIs
<1>6. es \in Seq(Y) /\ "entries" \in DOMAIN node
  BY <1>5 DEF Objects
<1>7. vs = [i \in DOMAIN ms |-> MemberWrite(t.item, ms[i]).value]
  OBVIOUS
<1> HIDE DEF vs, es
<1>8. \A i \in DOMAIN es :
        \E p \in s : /\ p[1] # ProtoKey /\ p[1] # NulText
                     /\ es[i].key = p[1] /\ es[i].value.tag # "throws"
                     /\ MemberRead(t.item, es, i) = Ok(to_string(p[2]))
  <2>1. WrittenAs(t.item, s, ms, vs, es)
    BY <1>1, <1>2, <1>6, <1>7 DEF WrittenAs
  <2> QED BY <2>1, MemberComesBack
<1>9. Seen(es) = DOMAIN es
  BY <1>8 DEF Seen
<1>10. r = TryMap(t.item, es)
  BY <1>2, <1>6, FromByShape DEF es
<1>11. Decided(reads, r, Ok(x))
  <2> HIDE DEF Y
  <2> QED BY <1>6, <1>10, MapRead
<1>12. \A i \in DOMAIN reads : reads[i].status = "ok"
  BY <1>8, <1>9, StatusOf
<1>13. r = Ok(x)
  <2> HIDE DEF reads, x
  <2> QED BY <1>11, <1>12, DecidedAll
<1>14. \A i \in DOMAIN es : \E p \in s :
         /\ p[1] # ProtoKey /\ to_string(es[i].key) = p[1]
         /\ MemberRead(t.item, es, i).value = to_string(p[2])
  <2> TAKE i \in DOMAIN es
  <2>1. PICK p \in s : /\ p[1] # ProtoKey /\ p[1] # NulText /\ es[i].key = p[1]
                       /\ MemberRead(t.item, es, i) = Ok(to_string(p[2]))
    BY <1>8
  <2>2. to_string(es[i].key) = p[1]
    BY <2>1 DEF to_string
  <2> QED BY <2>1, <2>2, StatusOf
<1>15. x \subseteq back
  BY <1>9, <1>14
<1>16. ASSUME NEW p \in s, p[1] # ProtoKey
       PROVE  <<p[1], to_string(p[2])>> \in x
  <2>1. PICK j \in DOMAIN ms : ms[j] = p
    BY <1>1
  <2>2. Entry(p[1], vs[j]) \in Y
    BY <1>16, <2>1 DEF Members
  <2>3. PICK i \in DOMAIN es : es[i] = Entry(p[1], vs[j])
    BY <1>5, <2>2
  <2>4. es[i].key = p[1]
    BY <2>3 DEF Entry
  <2>5. PICK q \in s : q[1] # NulText /\ es[i].key = q[1] /\ MemberRead(t.item, es, i) = Ok(to_string(q[2]))
    BY <1>8
  <2>6. q = p
    BY <1>1, <2>4, <2>5
  <2>7. to_string(es[i].key) = p[1] /\ MemberRead(t.item, es, i).value = to_string(p[2])
    BY <2>4, <2>5, <2>6, StatusOf DEF to_string
  <2> QED BY <1>9, <2>7
<1>17. x = back
  <2> HIDE DEF x
  <2>1. back \subseteq x
    BY <1>16
  <2> QED BY <1>15, <2>1
<1> QED BY <1>13, <1>17 DEF Expected

-----------------------------------------------------------------------------
(* Exchanges: the two conversions one after the other.                     *)

(* Where an exchange is: on its way, or what the two conversions gave.     *)
Traced(e, begun, half, r, w) ==
  \/ e.status = begun /\ e.value = e.sent
  \/ e.status = half /\ r.status = "ok" /\ e.value = r.value
  \/ e.status = "done" /\ r.status = "ok" /\ w.status = "ok" /\ e.value = w.value
  \/ e.status = r.status /\ r.status # "ok"
  \/ e.status = w.status /\ w.status # "ok" /\ r.status = "ok"

ReadFirst(e) == TryFrom(e.type, e.sent)
WrittenBack(e) == ToOwned(e.type, ReadFirst(e).value)
ScriptTrace(e) ==
  /\ e.way = "script" /\ ScriptSent(e.type, e.sent)
  /\ Traced(e, "script", "read", ReadFirst(e), WrittenBack(e))

WrittenFirst(e) == ToOwned(e.type, e.sent)
ReadBack(e) == TryFrom(e.type, WrittenFirst(e).value)
HostTrace(e) ==
  /\ e.way = "host" /\ HostSent(e.type, e.sent)
  /\ Traced(e, "host", "written", WrittenFirst(e), ReadBack(e))

IsExchange(e) ==
  e = [status |-> e.status, way |-> e.way, type |-> e.type, sent |-> e.sent, value |-> e.value]
ExchangeInv ==
  /\ IsExchange(exchange)
  /\ exchange.status = "none" \/ ScriptTrace(exchange) \/ HostTrace(exchange)

(* The conversions of both ways, whatever the shape.                       *)
LEMMA ScriptConversions ==
  ASSUME NEW t, NEW s, ScriptSent(t, s), NEW r, r = TryFrom(t, s), NEW w, w = ToOwned(t, r.value)
  PROVE  ReadsWell(t, s, r) /\ (r.status = "ok" => EchoesWell(t, s, w))
<1>1. t.shape \in Shapes
  BY ScriptShapes
<1>2. CASE t.shape \in {"plain", "option"}
  BY <1>2, PlainReadsWell, PlainEchoesWell
<1>3. CASE t.shape = "vec"
  BY <1>3, VecReadsWell, VecEchoesWell
<1>4. CASE t.shape = "map"
  BY <1>4, MapReadsWell, MapEchoesWell
<1> QED BY <1>1, <1>2, <1>3, <1>4 DEF Shapes

LEMMA HostConversions ==
  ASSUME NEW t, NEW s, HostSent(t, s), NEW w, w = ToOwned(t, s), NEW r, r = TryFrom(t, w.value)
  PROVE  WritesWell(t, s, w) /\ (w.status = "ok" => r = Ok(Expected(t, s)))
<1>1. t.shape \in Shapes
  BY DEF HostSent
<1>2. CASE t.shape \in {"plain", "option"}
  BY <1>2, PlainWritesWell, PlainComesBack
<1>3. CASE t.shape = "vec"
  BY <1>3, VecWritesWell, VecComesBack
<1>4. CASE t.shape = "map"
  BY <1>4, MapWritesWell, MapComesBack
<1> QED BY <1>1, <1>2, <1>3, <1>4 DEF Shapes

(* A conversion takes an exchange on.                                      *)
Moved(e, e2, c, next) ==
  /\ e2.way = e.way /\ e2.type = e.type /\ e2.sent = e.sent /\ e2.value = c.value
  /\ e2.status = IF c.status = "ok" THEN next ELSE c.status

LEMMA ExchangeMoved ==
  ASSUME NEW e, IsExchange(e), NEW c, NEW next, NEW e2,
         e2 = [e EXCEPT !.status = IF c.status = "ok" THEN next ELSE c.status, !.value = c.value]
  PROVE  IsExchange(e2) /\ Moved(e, e2, c, next)
<1> DEFINE st == IF c.status = "ok" THEN next ELSE c.status
<1>1. DOMAIN e = {"status", "way", "type", "sent", "value"}
  BY DEF IsExchange
<1>2. e2 = [status |-> st, way |-> e.way, type |-> e.type, sent |-> e.sent, value |-> c.value]
  BY <1>1
<1> QED BY <1>2 DEF IsExchange, Moved

LEMMA TraceMoves ==
  ASSUME NEW e, NEW e2, NEW c, NEW begun, NEW half, NEW r, NEW w, Traced(e, begun, half, r, w),
         {begun, half} \cap (Statuses \cup {"done"}) = {}, begun # half,
         r.status \in Statuses, r.status = "ok" => w.status \in Statuses
  PROVE  /\ e.status \in {begun, half, "done"} \cup (Statuses \ {"ok"})
         /\ e.status = begun => e.value = e.sent
         /\ e.status = half => e.value = r.value
         /\ e.status = begun /\ c = r /\ Moved(e, e2, c, half) => Traced(e2, begun, half, r, w)
         /\ e.status = half /\ c = w /\ Moved(e, e2, c, "done") => Traced(e2, begun, half, r, w)
BY DEF Traced, Moved, Statuses

LEMMA ScriptMoves ==
  ASSUME ScriptTrace(exchange), IsExchange(exchange), Reads \/ Writes
  PROVE  ScriptTrace(exchange')
<1> DEFINE e == exchange
           r == ReadFirst(e)
           w == WrittenBack(e)
<1>1. /\ e.way = "script" /\ ScriptSent(e.type, e.sent)
      /\ Traced(e, "script", "read", r, w)
  BY DEF ScriptTrace
<1>2. r = TryFrom(e.type, e.sent) /\ w = ToOwned(e.type, r.value)
  BY DEF ReadFirst, WrittenBack
<1>3. r.status \in Statuses /\ (r.status = "ok" => w.status \in Statuses)
  BY <1>1, <1>2, ScriptConversions DEF ReadsWell, EchoesWell, Statuses
<1> HIDE DEF r, w
<1>4. /\ e.status \in {"script", "read", "done"} \cup (Statuses \ {"ok"})
      /\ e.status = "script" => e.value = e.sent
      /\ e.status = "read" => e.value = r.value
  BY <1>1, <1>3, TraceMoves DEF Statuses
<1>5. \/ e.status = "script" /\ Moved(e, e', r, "read")
      \/ e.status = "read" /\ Moved(e, e', w, "done")
  <2>1. CASE Reads
    <3>1. e.status = "script"
      BY <1>4, <2>1 DEF Reads, Statuses
    <3>2. e' = [e EXCEPT !.status = IF r.status = "ok" THEN "read" ELSE r.status, !.value = r.value]
      BY <1>1, <1>2, <1>4, <2>1, <3>1 DEF Reads, Converted
    <3> QED BY <3>1, <3>2, ExchangeMoved
  <2>2. CASE Writes
    <3>1. e.status = "read"
      BY <1>4, <2>2 DEF Writes, Statuses
    <3>2. e' = [e EXCEPT !.status = IF w.status = "ok" THEN "done" ELSE w.status, !.value = w.value]
      BY <1>1, <1>2, <1>4, <2>2, <3>1 DEF Writes, Converted
    <3> QED BY <3>1, <3>2, ExchangeMoved
  <2> QED BY <2>1, <2>2
<1>6. Traced(e', "script", "read", r, w)
  BY <1>1, <1>3, <1>5, TraceMoves DEF Statuses
<1>7. e'.way = e.way /\ e'.type = e.type /\ e'.sent = e.sent
  BY <1>5 DEF Moved
<1>8. r = ReadFirst(e') /\ w = WrittenBack(e')
  BY <1>7 DEF r, w, ReadFirst, WrittenBack
<1> QED BY <1>1, <1>6, <1>7, <1>8 DEF ScriptTrace

LEMMA HostMoves ==
  ASSUME HostTrace(exchange), IsExchange(exchange), Reads \/ Writes
  PROVE  HostTrace(exchange')
<1> DEFINE e == exchange
           w == WrittenFirst(e)
           r == ReadBack(e)
<1>1. /\ e.way = "host" /\ HostSent(e.type, e.sent)
      /\ Traced(e, "host", "written", w, r)
  BY DEF HostTrace
<1>2. w = ToOwned(e.type, e.sent) /\ r = TryFrom(e.type, w.value)
  BY DEF WrittenFirst, ReadBack
<1>3. w.status \in Statuses /\ (w.status = "ok" => r.status \in Statuses)
  BY <1>1, <1>2, HostConversions, StatusOf DEF WritesWell, Statuses
<1> HIDE DEF r, w
<1>4. /\ e.status \in {"host", "written", "done"} \cup (Statuses \ {"ok"})
      /\ e.status = "host" => e.value = e.sent
      /\ e.status = "written" => e.value = w.value
  BY <1>1, <1>3, TraceMoves DEF Statuses
<1>5. \/ e.status = "host" /\ Moved(e, e', w, "written")
      \/ e.status = "written" /\ Moved(e, e', r, "done")
  <2>1. CASE Writes
    <3>1. e.status = "host"
      BY <1>4, <2>1 DEF Writes, Statuses
    <3>2. e' = [e EXCEPT !.status = IF w.status = "ok" THEN "written" ELSE w.status, !.value = w.value]
      BY <1>1, <1>2, <1>4, <2>1, <3>1 DEF Writes, Converted
    <3> QED BY <3>1, <3>2, ExchangeMoved
  <2>2. CASE Reads
    <3>1. e.status = "written"
      BY <1>4, <2>2 DEF Reads, Statuses
    <3>2. e' = [e EXCEPT !.status = IF r.status = "ok" THEN "done" ELSE r.status, !.value = r.value]
      BY <1>1, <1>2, <1>4, <2>2, <3>1 DEF Reads, Converted
    <3> QED BY <3>1, <3>2, ExchangeMoved
  <2> QED BY <2>1, <2>2
<1>6. Traced(e', "host", "written", w, r)
  BY <1>1, <1>3, <1>5, TraceMoves DEF Statuses
<1>7. e'.way = e.way /\ e'.type = e.type /\ e'.sent = e.sent
  BY <1>5 DEF Moved
<1>8. w = WrittenFirst(e') /\ r = ReadBack(e')
  BY <1>7 DEF r, w, WrittenFirst, ReadBack
<1> QED BY <1>1, <1>6, <1>7, <1>8 DEF HostTrace

LEMMA ExchangeBegins ==
  ASSUME NEW way, NEW x, ExchangeStarts(way, x),
         \/ way = "script" /\ x \in FromScript
         \/ \E shape \in DOMAIN FromHost : way = "host" /\ x \in FromHost[shape]
  PROVE  ExchangeInv'
<1>1. exchange' = [status |-> way, way |-> way, type |-> x.type, sent |-> x.value, value |-> x.value]
  BY DEF ExchangeStarts
<1>2. IsExchange(exchange)'
  BY <1>1 DEF IsExchange
<1>3. CASE way = "script" /\ x \in FromScript
  <2>1. ScriptSent(x.type, x.value)
    BY <1>3, ExchangesFromScript DEF ScriptSent, Shapes, ScriptContainers
  <2> QED BY <1>1, <1>2, <1>3, <2>1 DEF ExchangeInv, ScriptTrace, Traced
<1>4. CASE \E shape \in DOMAIN FromHost : way = "host" /\ x \in FromHost[shape]
  <2>1. HostSent(x.type, x.value)
    BY <1>4, ExchangesFromHost DEF HostSent, Shapes
  <2> QED BY <1>1, <1>2, <1>4, <2>1 DEF ExchangeInv, HostTrace, Traced
<1> QED BY <1>3, <1>4

LEMMA NextExchanges == ExchangeInv /\ [Next]_vars => ExchangeInv'
<1> SUFFICES ASSUME ExchangeInv, [Next]_vars PROVE ExchangeInv'
  OBVIOUS
<1>1. CASE UNCHANGED exchange
  BY <1>1 DEF ExchangeInv
<1>2. ASSUME NEW x \in FromScript, ExchangeStarts("script", x) PROVE ExchangeInv'
  BY <1>2, ExchangeBegins
<1>3. ASSUME NEW shape \in DOMAIN FromHost, NEW x \in FromHost[shape], ExchangeStarts("host", x)
      PROVE  ExchangeInv'
  BY <1>3, ExchangeBegins
<1>4. CASE Reads \/ Writes
  <2>1. IsExchange(exchange) /\ exchange.status # "none"
    BY <1>4 DEF ExchangeInv, Reads, Writes
  <2>2. PICK c, next : Converted(c, next)
    BY <1>4 DEF Reads, Writes
  <2>3. exchange' = [exchange EXCEPT !.status = IF c.status = "ok" THEN next ELSE c.status, !.value = c.value]
    BY <2>2 DEF Converted
  <2>4. IsExchange(exchange')
    BY <2>1, <2>3, ExchangeMoved
  <2> QED BY <1>4, <2>1, <2>4, ScriptMoves, HostMoves DEF ExchangeInv
<1>5. UNCHANGED vars => UNCHANGED exchange
  BY DEF vars
<1>6. \/ UNCHANGED exchange
      \/ \E x \in FromScript : ExchangeStarts("script", x)
      \/ \E shape \in DOMAIN FromHost : \E x \in FromHost[shape] : ExchangeStarts("host", x)
      \/ Reads \/ Writes
  BY <1>5 DEF Next
<1> QED BY <1>1, <1>2, <1>3, <1>4, <1>6

LEMMA InitExchange == Init => ExchangeInv
BY DEF Init, NoExchange, ExchangeInv, IsExchange

(* The inductive invariant: what an exchange holds is what the conversions *)
(* of its type gave, one after the other (TryFrom<OwnedJsValue> and        *)
(* ToOwnedJsValue in src/value/value.rs).                                  *)
THEOREM ExchangesAreTraced == Spec => []ExchangeInv
<1>1. Init => ExchangeInv
  BY InitExchange
<1>2. ExchangeInv /\ [Next]_vars => ExchangeInv'
  BY NextExchanges
<1> QED BY <1>1, <1>2, PTL DEF Spec

LEMMA ScriptPanics ==
  ASSUME ScriptTrace(exchange)
  PROVE  PanicsAreKnown
<1> DEFINE t == exchange.type
           s == exchange.sent
           r == ReadFirst(exchange)
           w == WrittenBack(exchange)
<1>1. /\ exchange.way = "script" /\ ScriptSent(t, s)
      /\ Traced(exchange, "script", "read", r, w)
  BY DEF ScriptTrace
<1>2. ReadsWell(t, s, r) /\ (r.status = "ok" => EchoesWell(t, s, w))
  BY <1>1, ScriptConversions DEF ReadFirst, WrittenBack
<1> HIDE DEF t, s, r, w
<1>3. exchange.status = "panic" =>
        \/ t.item \in BigTypes \ {"i64"} /\ Integral(Inside(t, s)) \cap RangeOf.i32 # {}
        \/ \E v \in Inside(t, s) : v.tag = "throws"
  BY <1>1, <1>2 DEF Traced, ReadsWell, EchoesWell
<1>4. exchange.status = "abort" =>
        \/ \E v \in Inside(t, s) : v.tag \notin Numeric
        \/ t.shape = "map" /\ \E i \in DOMAIN s.entries : s.entries[i].key = NulText
  BY <1>1, <1>2 DEF Traced, ReadsWell, EchoesWell
<1> QED BY <1>1, <1>3, <1>4 DEF PanicsAreKnown, Integral, Inside, t, s

LEMMA HostPanics ==
  ASSUME HostTrace(exchange)
  PROVE  PanicsAreKnown
<1> DEFINE t == exchange.type
           s == exchange.sent
           w == WrittenFirst(exchange)
           r == ReadBack(exchange)
<1>1. /\ exchange.way = "host" /\ HostSent(t, s)
      /\ Traced(exchange, "host", "written", w, r)
  BY DEF HostTrace
<1>2. WritesWell(t, s, w) /\ (w.status = "ok" => r = Ok(Expected(t, s)))
  BY <1>1, HostConversions DEF WrittenFirst, ReadBack
<1> HIDE DEF t, s, r, w
<1>3. w.status = "ok" => r.status = "ok"
  BY <1>2, StatusOf
<1>4. exchange.status # "abort" /\
      (exchange.status = "panic" =>
         \/ t.item \in BigTypes \ {"i64"} /\ HostNumbers(t, s) \cap RangeOf.i32 # {}
         \/ t.shape = "map" /\ \E p \in s : p[1] = NulText)
  BY <1>1, <1>2, <1>3 DEF Traced, WritesWell
<1> QED BY <1>1, <1>4 DEF PanicsAreKnown, HostNumbers, t, s

(* A conversion panics only for a BigInt in the range of i32 of another    *)
(* type than i64, for a key with a NUL in it or where a getter throws, and *)
(* aborts only for what is no number or for a key with a NUL               *)
(* (create_bigint and to_bigint in src/utils.rs, add_object_property).     *)
THEOREM PanicsOfConversions == Spec => []PanicsAreKnown
<1>1. ExchangeInv => PanicsAreKnown
  <2>1. exchange.status = "none" => PanicsAreKnown
    BY DEF PanicsAreKnown
  <2> QED BY <2>1, ScriptPanics, HostPanics DEF ExchangeInv
<1> QED BY <1>1, ExchangesAreTraced, PTL

-----------------------------------------------------------------------------
(* What a script gets back for what it sent.                               *)

KeptBy(item, v, w) ==
  \/ Same(v, w)
  \/ v.tag = "float" /\ item \in BigTypes /\ v.data \notin RangeOf.i64
  \/ v = Value("string", NulText) /\ w = Value("string", Text)

LEMMA ScriptValueIs ==
  ASSUME NEW v \in ScriptValues
  PROVE  /\ v = Value(v.tag, v.data) /\ "entries" \notin DOMAIN v
         /\ v.tag \in {"bool", "int", "shortbig", "bigint", "node"} => v.data \in Int
         /\ v.tag = "float" => v.data \in Int \cup Floats
         /\ v.tag = "string" => v.data \in Strings
BY DEF ScriptValues, Value

LEMMA CutToI64 ==
  ASSUME NEW f \in Int \cup Floats
  PROVE  FloatAsI64(f) \in Int /\ (f \in RangeOf.i64 => FloatAsI64(f) = f)
<1>1. MaxI64 \in Nat /\ {Half, NaN, Infinity} \cap Int = {}
  BY ConversionWidths
<1>2. RangeOf.i64 = -(MaxI64 + 1)..MaxI64
  BY DEF RangeOf
<1>3. CASE f \in Int
  <2>1. f \notin {NaN, Half, Infinity}
    BY <1>1, <1>3
  <2> QED BY <1>1, <1>2, <1>3, <2>1 DEF FloatAsI64
<1>4. CASE f \notin Int
  <2>1. f \in {NaN, Half, Infinity} /\ f \notin RangeOf.i64
    BY <1>1, <1>2, <1>4 DEF Floats
  <2> QED BY <1>1, <1>4, <2>1 DEF FloatAsI64
<1> QED BY <1>3, <1>4

(* What a value is read as: never None, and what it held.                  *)
LEMMA PlainValue ==
  ASSUME NEW item \in Items, NEW v \in ScriptValues, NEW r, r = TryPlain(item, v), r.status = "ok"
  PROVE  /\ r.value # None
         /\ item = "bool" => v.tag = "bool" /\ r.value = v.data
         /\ item \in {"i32", "f64"} => v.tag \in {"int", "float"} /\ r.value = v.data
         /\ item = "String" => v.tag = "string" /\ r.value = to_string(v.data)
         /\ item \in BigTypes =>
              /\ v.tag \in Numeric
              /\ r.value = v.data \/ (v.tag = "float" /\ v.data \notin RangeOf.i64)
<1>2. None \notin Int /\ None \notin Floats /\ None \notin Strings
  BY NoneIsNoData, StringsDiffer
<1>3. CASE item = "bool"
  <2>1. v.tag = "bool" /\ r = Ok(v.data)
    <3>1. r = IF v.tag = "bool" THEN Ok(v.data) ELSE Err
      BY <1>3 DEF TryPlain, BigTypes
    <3> QED BY <3>1, StatusOf
  <2> QED BY <1>2, <1>3, <2>1, ScriptValueIs, StatusOf DEF BigTypes
<1>4. CASE item = "i32"
  <2>1. r = ToI32(v)
    BY <1>4 DEF TryPlain, BigTypes
  <2>2. v.tag \in {"int", "float"} /\ r = Ok(v.data)
    BY <2>1, StatusOf DEF ToI32
  <2> QED BY <1>2, <1>4, <2>2, ScriptValueIs, StatusOf DEF BigTypes
<1>5. CASE item = "f64"
  <2>1. r = to_float(v)
    BY <1>5 DEF TryPlain, BigTypes
  <2>2. v.tag \in {"int", "float"} /\ r = Ok(v.data)
    BY <2>1, StatusOf DEF to_float
  <2> QED BY <1>2, <1>5, <2>2, ScriptValueIs, StatusOf DEF BigTypes
<1>6. CASE item = "String"
  <2>1. v.tag = "string" /\ r = Ok(to_string(v.data))
    <3>1. r = IF v.tag = "string" THEN Ok(to_string(v.data)) ELSE Err
      BY <1>6 DEF TryPlain, BigTypes
    <3> QED BY <3>1, StatusOf
  <2>2. to_string(v.data) \in Strings
    BY <2>1, ScriptValueIs DEF to_string, Strings
  <2> QED BY <1>2, <1>6, <2>1, <2>2, StatusOf DEF BigTypes
<1>7. CASE item \in BigTypes
  <2>1. v.tag \in Numeric /\ r.value = Number(v)
    BY <1>7, PlainRead
  <2>2. CASE v.tag = "float"
    <3>1. r.value = FloatAsI64(v.data) /\ v.data \in Int \cup Floats
      BY <2>1, <2>2, ScriptValueIs DEF Number
    <3> QED BY <1>2, <1>7, <2>1, <2>2, <3>1, CutToI64 DEF BigTypes
  <2>3. CASE v.tag # "float"
    <3>1. r.value = v.data /\ v.data \in Int
      BY <2>1, <2>3, ScriptValueIs DEF Number, Numeric
    <3> QED BY <1>2, <1>7, <2>1, <3>1 DEF BigTypes
  <2> QED BY <2>2, <2>3
<1> QED BY <1>3, <1>4, <1>5, <1>6, <1>7 DEF Items

LEMMA PlainKept ==
  ASSUME NEW item \in Items, NEW v \in ScriptValues, NEW r, r = TryPlain(item, v), r.status = "ok",
         NEW w, w = ToPlain(item, r.value), w.status = "ok"
  PROVE  KeptBy(item, v, w.value)
<1> DEFINE x == r.value
           tag == TagOf(item, x)
<1>1. w.value = Value(tag, x)
  BY PlainWritten, StatusOf
<1>2. v = Value(v.tag, v.data) /\ Value(tag, x).tag = tag /\ Value(tag, x).data = x
  BY ScriptValueIs DEF Value
<1>3. CASE item = "bool"
  <2>1. v.tag = tag /\ v.data = x
    BY <1>3, PlainValue, TagsOf
  <2> QED BY <1>1, <1>2, <2>1 DEF KeptBy, Same
<1>4. CASE item \in {"i32", "f64"}
  <2>1. v.tag \in Numeric /\ v.data = x /\ tag \in Numeric
    BY <1>4, PlainValue, TagsOf DEF Numeric
  <2> QED BY <1>1, <1>2, <2>1 DEF KeptBy, Same
<1>5. CASE item = "String"
  <2>1. v.tag = "string" /\ tag = "string" /\ x = to_string(v.data)
    BY <1>5, PlainValue, TagsOf
  <2>2. CASE v.data = NulText
    BY <1>1, <1>2, <2>1, <2>2 DEF KeptBy, to_string
  <2>3. CASE v.data # NulText
    BY <1>1, <1>2, <2>1, <2>3 DEF KeptBy, to_string, Same
  <2> QED BY <2>2, <2>3
<1>6. CASE item \in BigTypes
  <2>1. v.tag \in Numeric /\ tag \in Numeric /\ (x = v.data \/ (v.tag = "float" /\ v.data \notin RangeOf.i64))
    BY <1>6, PlainValue, TagsOf DEF Numeric
  <2> QED BY <1>1, <1>2, <1>6, <2>1 DEF KeptBy, Same
<1> QED BY <1>3, <1>4, <1>5, <1>6 DEF Items

(* No plain type is read of a container.                                   *)
LEMMA NodeRead ==
  ASSUME NEW item \in Items
  PROVE  TryPlain(item, Ref(1)).status # "ok" /\ Ref(1) # Null
<1>1. Ref(1).tag = "node" /\ Null.tag = "null"
  BY DEF Ref, Null, Value
<1>2. CASE item \in BigTypes
  BY <1>1, <1>2, PlainRead DEF Numeric
<1>3. CASE item \notin BigTypes
  BY <1>1, <1>3, StatusOf DEF Items, TryPlain, ToI32, to_float
<1> QED BY <1>1, <1>2, <1>3

LEMMA PlainEchoKept ==
  ASSUME NEW t, NEW s, ScriptSent(t, s), t.shape \in {"plain", "option"},
         NEW r, r = TryFrom(t, s), r.status = "ok", NEW w, w = ToOwned(t, r.value), w.status = "ok"
  PROVE  "entries" \notin DOMAIN s /\ KeptBy(t.item, s, w.value)
<1> DEFINE p == TryPlain(t.item, Plainly(s))
<1>1. t.item \in Items
  BY ScriptShapes
<1>2. CASE t.shape = "option" /\ Plainly(s) = Null
  <2>1. r = Ok(None)
    BY <1>2, FromByShape
  <2>2. w = Ok(Null)
    BY <1>2, <2>1, StatusOf, ToByShape
  <2>3. "entries" \notin DOMAIN s /\ s = Null
    BY <1>1, <1>2, NodeRead, ScriptShapes
  <2> QED BY <2>2, <2>3, StatusOf DEF KeptBy, Same
<1>3. CASE ~(t.shape = "option" /\ Plainly(s) = Null)
  <2>1. r = p
    BY <1>3, FromByShape
  <2>2. "entries" \notin DOMAIN s /\ s \in ScriptValues /\ Plainly(s) = s
    BY <1>1, <2>1, NodeRead, ScriptShapes
  <2>3. r.value # None
    BY <1>1, <2>1, <2>2, PlainValue
  <2>4. w = ToPlain(t.item, r.value)
    BY <2>3, ToByShape
  <2> QED BY <1>1, <2>1, <2>2, <2>4, PlainKept
<1> QED BY <1>2, <1>3

LEMMA ElementIn ==
  ASSUME NEW S, NEW es \in Seq(S), NEW i \in DOMAIN es
  PROVE  es[i] \in S
OBVIOUS

LEMMA EntryIs ==
  ASSUME NEW es \in Seq([key : Strings \cup {None}, value : ScriptValues]), NEW i \in DOMAIN es
  PROVE  es[i].value \in ScriptValues
<1>1. es[i] \in [key : Strings \cup {None}, value : ScriptValues]
  BY ElementIn
<1> QED BY <1>1

LEMMA VecEchoKept ==
  ASSUME NEW t, NEW s, ScriptSent(t, s), t.shape = "vec",
         NEW r, r = TryFrom(t, s), r.status = "ok", NEW w, w = ToOwned(t, r.value), w.status = "ok",
         NEW there, there = Present(s.entries), NEW b, b = w.value.entries
  PROVE  /\ "entries" \in DOMAIN s /\ Len(b) = Len(there)
         /\ \A i \in DOMAIN there : KeptBy(t.item, there[i].value, b[i].value)
<1> DEFINE xs == r.value
           X == {ElementRead(t.item, there[i]).value : i \in DOMAIN there}
           results == [i \in DOMAIN xs |-> ToPlain(t.item, xs[i])]
           made == [Node("array") EXCEPT !.entries = Elements(t.item, xs)]
<1>1. /\ "entries" \in DOMAIN s /\ t.item \in Items
      /\ xs = [i \in DOMAIN there |-> ElementRead(t.item, there[i]).value]
      /\ \A i \in DOMAIN there : ElementRead(t.item, there[i]).status = "ok"
  <2>1. ElementsRead(t, s, xs)
    BY VecReadsWell
  <2> QED BY <2>1, ScriptShapes DEF ElementsRead
<1>2. there \in Seq([key : Strings \cup {None}, value : ScriptValues])
  BY <1>1, PresentInside
<1>3. Len(there) \in Nat /\ DOMAIN there = 1..Len(there)
  BY <1>2
<1>4. xs \in Seq(X)
  <2>1. xs \in [1..Len(there) -> X]
    BY <1>1, <1>3
  <2> HIDE DEF X, xs
  <2> QED BY <1>3, <2>1, IsASeq
<1> HIDE DEF X
<1>5. Decided(results, w, Ok(made))
  <2>1. w = ToVec(t.item, xs)
    BY ToByShape
  <2> QED BY <1>4, <2>1, VecWritten
<1>6. DOMAIN xs = DOMAIN there /\ DOMAIN results = DOMAIN there
  BY <1>1
<1>7. ASSUME NEW i \in DOMAIN there
      PROVE  /\ ToPlain(t.item, xs[i]).status \in Statuses
             /\ ToPlain(t.item, xs[i]).status = "ok" =>
                  KeptBy(t.item, there[i].value, ToPlain(t.item, xs[i]).value)
  <2> DEFINE e == ElementRead(t.item, there[i])
             v == there[i].value
  <2>1. e = IF v.tag = "throws" THEN Panic ELSE TryPlain(t.item, v)
    BY DEF ElementRead
  <2>2. e.status = "ok" /\ xs[i] = e.value
    BY <1>1
  <2>3. v \in ScriptValues
    BY <1>2, EntryIs
  <2> HIDE DEF e, v, xs
  <2>4. e = TryPlain(t.item, v)
    BY <1>1, <2>1, <2>2, ElementReads
  <2>5. ToPlain(t.item, xs[i]).status \in Statuses
    BY <1>1, PlainWritten, StatusOf DEF Statuses
  <2> QED BY <1>1, <2>2, <2>3, <2>4, <2>5, PlainKept DEF v
<1>8. \A i \in DOMAIN results : results[i] = ToPlain(t.item, xs[i])
  OBVIOUS
<1>9. w.value = made /\ \A i \in DOMAIN results : results[i].status = "ok"
  <2> HIDE DEF results, made
  <2> QED BY <1>5, <1>6, <1>7, <1>8, DecidedStatus
<1>10. b = [i \in DOMAIN xs |-> Entry(None, ToPlain(t.item, xs[i]).value)]
  BY <1>9 DEF Node, Elements
<1>11. \A i \in DOMAIN there : KeptBy(t.item, there[i].value, ToPlain(t.item, xs[i]).value)
  BY <1>6, <1>7, <1>8, <1>9
<1> HIDE DEF xs, results, made
<1>12. Len(b) = Len(there)
  <2>1. DOMAIN b = 1..Len(there)
    BY <1>3, <1>6, <1>10
  <2>2. b = [i \in 1..Len(there) |-> b[i]]
    BY <1>3, <1>6, <1>10
  <2>3. b \in Seq({b[i] : i \in DOMAIN b})
    BY <1>3, <2>1, <2>2, IsASeq
  <2> QED BY <1>3, <2>1, <2>3
<1>13. \A i \in DOMAIN there : b[i].value = ToPlain(t.item, xs[i]).value
  BY <1>6, <1>10 DEF Entry
<1> QED BY <1>1, <1>11, <1>12, <1>13

LEMMA MemberIs ==
  ASSUME NEW es, NamesDiffer(es), NEW i \in DOMAIN es
  PROVE  Member(es, es[i].key) = es[i].value
<1> DEFINE named == {j \in DOMAIN es : es[j].key = es[i].key}
<1>1. named = {i}
  BY DEF NamesDiffer
<1>2. Member(es, es[i].key) = IF named = {} THEN Undefined ELSE es[CHOOSE j \in named : TRUE].value
  BY DEF Member
<1>3. (CHOOSE j \in {i} : TRUE) = i
  OBVIOUS
<1> HIDE DEF named
<1> QED BY <1>1, <1>2, <1>3

(* A member with an ordinary name is among what is read, even where the    *)
(* iteration ends before it.                                               *)
LEMMA NameSeen ==
  ASSUME NEW t, NEW s, ScriptSent(t, s), t.shape = "map", NEW x, MembersRead(t, s, x),
         NEW i \in DOMAIN s.entries, s.entries[i].key \notin {NulText, ProtoKey}
  PROVE  \E k \in Seen(s.entries) : to_string(s.entries[k].key) = s.entries[i].key
<1> DEFINE es == s.entries
           bad == {j \in DOMAIN es : es[j].value.tag = "throws"}
<1>1. /\ NamesDiffer(es) /\ es \in Seq([key : Strings \cup {None}, value : ScriptValues])
      /\ "entries" \in DOMAIN s
  BY ScriptShapes DEF ScriptSent, MembersRead
<1>2. es[i].key = Text /\ to_string(Text) = Text /\ to_string(NulText) = Text
  BY <1>1, StringsDiffer DEF NamesDiffer, Strings, to_string
<1>3. CASE i \in Seen(es)
  BY <1>2, <1>3
<1>4. CASE i \notin Seen(es)
  <2>1. bad \subseteq Nat /\ \E j \in bad : j < i
    BY <1>1, <1>4 DEF Seen
  <2>2. PICK k \in bad : \A j \in bad : k <= j
    BY <2>1, Least
  <2>3. k \in Seen(es) /\ k # i
    BY <1>1, <2>1, <2>2 DEF Seen
  <2>4. es[k].key \in Strings /\ es[k].key # Text
    BY <1>1, <1>2, <2>2, <2>3 DEF NamesDiffer
  <2>5. es[k].key # ProtoKey
    <3> SUFFICES ASSUME es[k].key = ProtoKey PROVE FALSE
      OBVIOUS
    <3>1. to_string(es[k].key) = es[k].key
      BY StringsDiffer DEF to_string
    <3>2. Member(es, to_string(es[k].key)) = es[k].value
      BY <1>1, <2>2, <3>1, MemberIs
    <3>3. MemberRead(t.item, es, k) = Panic
      BY <2>2, <3>2 DEF MemberRead
    <3> QED BY <2>3, <3>3, StatusOf DEF MembersRead
  <2>6. es[k].key = NulText
    BY <2>4, <2>5 DEF Strings
  <2> QED BY <1>2, <2>3, <2>6
<1> QED BY <1>3, <1>4

LEMMA NameRead ==
  ASSUME NEW t, NEW s, ScriptSent(t, s), t.shape = "map", NEW x, MembersRead(t, s, x),
         NEW i \in DOMAIN s.entries, s.entries[i].key \notin {NulText, ProtoKey},
         NEW v, v = s.entries[i].value
  PROVE  /\ v \in ScriptValues /\ TryPlain(t.item, v).status = "ok"
         /\ <<s.entries[i].key, TryPlain(t.item, v).value>> \in x
<1> DEFINE es == s.entries
<1>1. /\ NamesDiffer(es) /\ es \in Seq([key : Strings \cup {None}, value : ScriptValues])
      /\ "entries" \in DOMAIN s /\ t.item \in Items
  BY ScriptShapes DEF ScriptSent, MembersRead
<1>2. v \in ScriptValues
  BY <1>1, EntryIs
<1>3. PICK k \in Seen(es) : to_string(es[k].key) = es[i].key
  BY NameSeen
<1> DEFINE e == MemberRead(t.item, es, k)
<1>4. Member(es, to_string(es[k].key)) = v
  BY <1>1, <1>3, MemberIs
<1>5. e = IF v.tag = "throws" THEN Panic ELSE TryPlain(t.item, v)
  BY <1>4 DEF MemberRead
<1>6. e.status = "ok" /\ <<to_string(es[k].key), e.value>> \in x
  BY DEF MembersRead
<1> HIDE DEF e
<1>7. e = TryPlain(t.item, v)
  BY <1>1, <1>5, <1>6, ElementReads
<1> QED BY <1>2, <1>3, <1>6, <1>7

LEMMA MapEchoKept ==
  ASSUME NEW t, NEW s, ScriptSent(t, s), t.shape = "map",
         NEW r, r = TryFrom(t, s), r.status = "ok", NEW w, w = ToOwned(t, r.value), w.status = "ok",
         NEW i \in DOMAIN s.entries, s.entries[i].key \notin {NulText, ProtoKey}
  PROVE  \E j \in DOMAIN w.value.entries :
           /\ w.value.entries[j].key = s.entries[i].key
           /\ KeptBy(t.item, s.entries[i].value, w.value.entries[j].value)
<1> DEFINE key == s.entries[i].key
           v == s.entries[i].value
           x == TryPlain(t.item, v).value
           pairs == r.value
           ms == InSomeOrder(pairs)
           results == [j \in DOMAIN ms |-> MemberWrite(t.item, ms[j])]
           vs == [j \in DOMAIN ms |-> MemberWrite(t.item, ms[j]).value]
           made == MapNode(ms, vs)
<1>1. MembersRead(t, s, pairs) /\ t.item \in Items
  BY MapReadsWell, ScriptShapes
<1>2. ms \in Seq(pairs) /\ \A p \in pairs : \E j \in DOMAIN ms : ms[j] = p
  <2>1. IsFiniteSet(pairs)
    BY <1>1, PairsFinite
  <2> HIDE DEF pairs
  <2> QED BY <2>1, SomeOrder
<1>3. v \in ScriptValues /\ TryPlain(t.item, v).status = "ok" /\ <<key, x>> \in pairs
  BY <1>1, NameRead
<1>4. Decided(results, w, Ok(made))
  <2>1. w = ToMap(t.item, pairs)
    BY ToByShape
  <2> HIDE DEF pairs
  <2> QED BY <1>2, <2>1, MapWritten DEF MemberWrite
<1>5. \A j \in DOMAIN ms : MemberWrite(t.item, ms[j]).status \in Statuses
  BY <1>1, MemberStatus DEF Statuses
<1>6. w.value = made /\ \A j \in DOMAIN ms : MemberWrite(t.item, ms[j]).status = "ok"
  <2>1. DOMAIN results = DOMAIN ms /\ \A j \in DOMAIN ms : results[j] = MemberWrite(t.item, ms[j])
    OBVIOUS
  <2> HIDE DEF results, made, ms
  <2> QED BY <1>4, <1>5, <2>1, DecidedStatus
<1> HIDE DEF ms, made, pairs
<1>7. ASSUME NEW j \in DOMAIN ms
      PROVE  /\ vs[j] = ToPlain(t.item, ms[j][2]).value /\ ToPlain(t.item, ms[j][2]).status = "ok"
             /\ ~IsNode(vs[j])
  <2>1. vs[j] = MemberWrite(t.item, ms[j]).value
    OBVIOUS
  <2> HIDE DEF vs
  <2>2. vs[j] = ToPlain(t.item, ms[j][2]).value /\ ToPlain(t.item, ms[j][2]).status = "ok"
    BY <1>1, <1>6, <2>1, MemberStatus
  <2>3. vs[j] = Value(TagOf(t.item, ms[j][2]), ms[j][2])
    BY <1>1, <2>2, PlainWritten, StatusOf
  <2> QED BY <1>1, <2>2, <2>3, TagsOf DEF IsNode, Value
<1>8. PICK j \in DOMAIN ms : ms[j] = <<key, x>>
  BY <1>2, <1>3
<1>9. vs[j] = ToPlain(t.item, x).value /\ ToPlain(t.item, x).status = "ok"
  BY <1>7, <1>8
<1> HIDE DEF vs
<1>10. Entry(key, vs[j]) \in Members(ms, vs)
  BY <1>8 DEF Members
<1>11. PICK k \in DOMAIN made.entries : made.entries[k] = Entry(key, vs[j])
  BY <1>2, <1>7, <1>10, MapNodeIs DEF made
<1>12. KeptBy(t.item, v, vs[j])
  BY <1>1, <1>3, <1>9, PlainKept
<1> QED BY <1>6, <1>11, <1>12 DEF Entry

LEMMA KeptByType == \A v, w : KeptBy(exchange.type.item, v, w) => Kept(v, w)
BY DEF KeptBy, Kept

(* What a script gets back.                                                *)
LEMMA ScriptEchoes ==
  ASSUME ScriptTrace(exchange)
  PROVE  EchoKeepsValues
<1> SUFFICES ASSUME exchange.status = "done" PROVE EchoKeepsValues
  BY DEF EchoKeepsValues
<1> DEFINE t == exchange.type
           s == exchange.sent
           r == ReadFirst(exchange)
           w == WrittenBack(exchange)
<1>1. /\ exchange.way = "script" /\ ScriptSent(t, s)
      /\ Traced(exchange, "script", "read", r, w)
  BY DEF ScriptTrace
<1>2. ReadsWell(t, s, r) /\ (r.status = "ok" => EchoesWell(t, s, w))
  BY <1>1, ScriptConversions DEF ReadFirst, WrittenBack
<1>3. /\ r = TryFrom(t, s) /\ r.status = "ok"
      /\ w = ToOwned(t, r.value) /\ w.status = "ok" /\ exchange.value = w.value
  <2>1. r = TryFrom(t, s) /\ w = ToOwned(t, r.value)
    BY DEF ReadFirst, WrittenBack
  <2> HIDE DEF r, w
  <2> QED BY <1>1, <1>2, <2>1 DEF Traced, ReadsWell, EchoesWell
<1> HIDE DEF t, s, r, w
<1>4. t.shape \in Shapes
  BY <1>1, ScriptShapes
<1>5. CASE t.shape \in {"plain", "option"}
  <2>1. "entries" \notin DOMAIN s /\ KeptBy(t.item, s, w.value)
    BY <1>1, <1>3, <1>5, PlainEchoKept
  <2>2. Kept(s, w.value)
    BY <2>1, KeptByType DEF t
  <2>3. /\ exchange.way = "script" /\ exchange.type.shape \in {"plain", "option"}
        /\ "entries" \notin DOMAIN exchange.sent /\ Kept(exchange.sent, exchange.value)
    BY <1>1, <1>3, <1>5, <2>1, <2>2 DEF t, s
  <2> QED BY ONLY <2>3 DEF EchoKeepsValues, Kept
<1>6. CASE t.shape = "vec"
  <2> DEFINE there == Present(s.entries)
             b == w.value.entries
  <2>1. /\ "entries" \in DOMAIN s /\ Len(b) = Len(there)
        /\ \A i \in DOMAIN there : KeptBy(t.item, there[i].value, b[i].value)
    BY <1>1, <1>3, <1>6, VecEchoKept
  <2> HIDE DEF there, b
  <2>2. \A i \in DOMAIN there : Kept(there[i].value, b[i].value)
    BY <2>1, KeptByType DEF t
  <2>3. exchange.sent = s /\ exchange.value = w.value /\ exchange.type.shape = "vec"
    BY <1>1, <1>3, <1>6 DEF t, s
  <2>4. /\ Len(exchange.value.entries) = Len(Present(exchange.sent.entries))
        /\ \A i \in DOMAIN Present(exchange.sent.entries) :
             Kept(Present(exchange.sent.entries)[i].value, exchange.value.entries[i].value)
    BY ONLY <2>1, <2>2, <2>3 DEF there, b
  <2>5. exchange.way = "script" /\ exchange.type.shape = "vec" /\ "entries" \in DOMAIN exchange.sent
    BY <1>1, <2>1, <2>3
  <2> QED BY ONLY <2>4, <2>5 DEF EchoKeepsValues
<1>7. CASE t.shape = "map"
  <2>1. "entries" \in DOMAIN s
    BY <1>1, <1>3, <1>7, MapReadsWell DEF MembersRead
  <2>2. \A i \in DOMAIN s.entries : s.entries[i].key \notin {NulText, ProtoKey} =>
          \E j \in DOMAIN w.value.entries :
            /\ w.value.entries[j].key = s.entries[i].key
            /\ KeptBy(t.item, s.entries[i].value, w.value.entries[j].value)
    BY <1>1, <1>3, <1>7, MapEchoKept
  <2>3. \A i \in DOMAIN s.entries : s.entries[i].key \notin {NulText, ProtoKey} =>
          \E j \in DOMAIN w.value.entries :
            /\ w.value.entries[j].key = s.entries[i].key
            /\ Kept(s.entries[i].value, w.value.entries[j].value)
    BY <2>2, KeptByType DEF t
  <2>4. /\ exchange.way = "script" /\ exchange.type.shape = "map" /\ "entries" \in DOMAIN exchange.sent
        /\ exchange.sent = s /\ exchange.value = w.value
    BY <1>1, <1>3, <1>7, <2>1 DEF t, s
  <2>5. \A i \in DOMAIN exchange.sent.entries : exchange.sent.entries[i].key \notin {NulText, ProtoKey} =>
          \E j \in DOMAIN exchange.value.entries :
            /\ exchange.value.entries[j].key = exchange.sent.entries[i].key
            /\ Kept(exchange.sent.entries[i].value, exchange.value.entries[j].value)
    BY ONLY <2>3, <2>4
  <2>6. exchange.way = "script" /\ exchange.type.shape = "map" /\ "entries" \in DOMAIN exchange.sent
    BY <2>4
  <2> QED BY ONLY <2>5, <2>6 DEF EchoKeepsValues
<1> QED BY <1>4, <1>5, <1>6, <1>7 DEF Shapes

LEMMA HostEchoes ==
  ASSUME HostTrace(exchange)
  PROVE  EchoKeepsValues
<1> SUFFICES ASSUME exchange.status = "done" PROVE EchoKeepsValues
  BY DEF EchoKeepsValues
<1> DEFINE t == exchange.type
           s == exchange.sent
           w == WrittenFirst(exchange)
           r == ReadBack(exchange)
<1>1. /\ exchange.way = "host" /\ HostSent(t, s)
      /\ Traced(exchange, "host", "written", w, r)
  BY DEF HostTrace
<1>2. WritesWell(t, s, w) /\ (w.status = "ok" => r = Ok(Expected(t, s)))
  BY <1>1, HostConversions DEF WrittenFirst, ReadBack
<1> HIDE DEF t, s, r, w
<1>3. exchange.value = Expected(t, s)
  BY <1>1, <1>2, StatusOf DEF Traced, WritesWell
<1> QED BY <1>1, <1>3 DEF EchoKeepsValues, Expected, t, s

(* What comes back through a type is what was sent, but for a float that is*)
(* no i64, a string after its first NUL, undefined elements of an array and*)
(* the member __proto__ (the conversions of src/value/value.rs).           *)
THEOREM ConversionsKeepValues == Spec => []EchoKeepsValues
<1>1. ExchangeInv => EchoKeepsValues
  <2>1. exchange.status = "none" => EchoKeepsValues
    BY DEF EchoKeepsValues
  <2> QED BY <2>1, ScriptEchoes, HostEchoes DEF ExchangeInv
<1> QED BY <1>1, ExchangesAreTraced, PTL

(* Every handle, entry and argument names a container there is, iterators  *)
(* stay within their names, and calls and exchanges are in a state they    *)
(* may be in (OwnedJsValue, its iterators and exec_callback).              *)
THEOREM HostTypes == Spec => []HostTypeOK
<1>1. Inv => OwnTypeOK
  <2> SUFFICES ASSUME Inv PROVE OwnTypeOK
    OBVIOUS
  <2>1. /\ Sane(heap) /\ HostFits(host, Len(heap), tables) /\ DOMAIN heap = 1..Len(heap)
        /\ CountsFit(raws, Len(heap)) /\ CountsFit(over, Len(heap)) /\ frozen \subseteq DOMAIN heap
        /\ \A n \in 1..MaxNodes : raws[n] <= MaxRaw
    BY AccountParts DEF Inv, Accounted
  <2>2. ASSUME NEW n \in DOMAIN heap
        PROVE  /\ heap[n].kind \in {"object", "array", "freed"}
               /\ \A i \in DOMAIN heap[n].entries : heap[n].entries[i].value.data \in DOMAIN heap
    <3>1. heap[n] \in Nodes(Refs) /\ heap[n].kind # "proxy"
      BY <2>1, SaneNodes DEF Sane
    <3> QED BY <2>1, <3>1 DEF Nodes, Sane
  <2>3. ASSUME NEW h \in Handles
        PROVE  /\ host[h].kind \in {"none", "value", "iter"}
               /\ host[h].value # Undefined => NodeOf(h) \in DOMAIN heap
               /\ Iterates(h) => host[h].index <= 2 * Len(tables[host[h].table].names)
    <3>1. SlotFits(host[h], Len(heap), tables)
      BY <2>1 DEF HostFits
    <3>2. host[h].kind \in {"none", "value", "iter"}
      BY <3>1 DEF SlotFits, Slots
    <3>3. host[h].value # Undefined => host[h].kind # "none"
      BY <3>1 DEF SlotFits
    <3>4. Iterates(h) => host[h].index <= 2 * Len(tables[host[h].table].names)
      BY <3>1 DEF SlotFits, Iterates, Owns
    <3> QED BY <3>2, <3>3, <3>4, HandleNames
  <2>4. raws \in [1..MaxNodes -> 0..MaxRaw] /\ over \in [1..MaxNodes -> Nat]
    <3>1. raws \in [1..MaxNodes -> Nat] /\ over \in [1..MaxNodes -> Nat]
      BY <2>1 DEF CountsFit, Counts
    <3>2. \A n \in 1..MaxNodes : raws[n] \in 0..MaxRaw
      BY <2>1, <3>1, OwnedBounds
    <3> QED BY <3>1, <3>2
  <2> QED BY <2>1, <2>2, <2>3, <2>4 DEF OwnTypeOK
<1>2. Inv => call.status \in {"none", "converting", "running"} /\ Len(call.args) <= Len(call.argv)
  BY DEF Inv, Accounted, CallFits
<1>3. ExchangeInv =>
        exchange.status \in {"none", "script", "host", "read", "written", "done", "error", "panic", "abort"}
  <2> SUFFICES ASSUME ExchangeInv
               PROVE  exchange.status \in {"none", "script", "host", "read", "written", "done"}
                        \cup (Statuses \ {"ok"})
    BY DEF Statuses
  <2>1. CASE ScriptTrace(exchange)
    <3> DEFINE r == ReadFirst(exchange)
               w == WrittenBack(exchange)
    <3>1. /\ ReadsWell(exchange.type, exchange.sent, r)
          /\ r.status = "ok" => EchoesWell(exchange.type, exchange.sent, w)
      BY <2>1, ScriptConversions DEF ScriptTrace, ReadFirst, WrittenBack
    <3> HIDE DEF r, w
    <3>2. r.status \in Statuses /\ (r.status = "ok" => w.status \in Statuses)
      BY <3>1 DEF ReadsWell, EchoesWell, Statuses
    <3> QED BY <2>1, <3>2 DEF ScriptTrace, Traced, r, w
  <2>2. CASE HostTrace(exchange)
    <3> DEFINE w == WrittenFirst(exchange)
               r == ReadBack(exchange)
    <3>1. /\ WritesWell(exchange.type, exchange.sent, w)
          /\ w.status = "ok" => r = Ok(Expected(exchange.type, exchange.sent))
      BY <2>2, HostConversions DEF HostTrace, WrittenFirst, ReadBack
    <3> HIDE DEF r, w
    <3>2. w.status \in Statuses /\ (w.status = "ok" => r.status \in Statuses)
      BY <3>1, StatusOf DEF WritesWell, Statuses
    <3> QED BY <2>2, <3>2 DEF HostTrace, Traced, r, w
  <2> QED BY <2>1, <2>2 DEF ExchangeInv
<1> QED BY <1>1, <1>2, <1>3, ReferencesAreAccounted, ExchangesAreTraced, PTL DEF HostTypeOK
=============================================================================
