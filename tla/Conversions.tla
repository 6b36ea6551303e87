---------------------------- MODULE Conversions ----------------------------
(***************************************************************************)
(* ToOwnedJsValue and TryFrom<OwnedJsValue> of src/value/value.rs, with    *)
(* what src/utils.rs builds for them.  A conversion succeeds, returns an   *)
(* error, panics, or aborts in the engine.  Widths are scaled; the engine  *)
(* keeps BigInts in the range of i32 inside the value (short ones).        *)
(***************************************************************************)
EXTENDS JSHeap

CONSTANTS
  MaxI32, MaxI64, MaxU64, MaxI128, MaxU128,
  Half, NaN, Infinity   (* Floats that are no integers.                      *)

ASSUME ConversionWidths ==
  /\ {MaxI32, MaxI64, MaxU64, MaxI128, MaxU128} \subseteq Nat
  /\ MaxI32 < MaxI64 /\ MaxI64 < MaxU64 /\ MaxU64 < MaxI128 /\ MaxI128 < MaxU128
  /\ {Half, NaN, Infinity} \cap Int = {}

RangeOf ==
  [i32 |-> -(MaxI32 + 1)..MaxI32, i64 |-> -(MaxI64 + 1)..MaxI64, u64 |-> 0..MaxU64,
   i128 |-> -(MaxI128 + 1)..MaxI128, u128 |-> 0..MaxU128]
BigTypes == {"i64", "u64", "i128", "u128"}

(* A type: T, Option<T>, Vec<T> or HashMap<String, T> for a plain T.       *)
Type(shape, item) == [shape |-> shape, item |-> item]

Result(status, x) == [status |-> status, value |-> x]
Ok(x) == Result("ok", x)
Err == Result("error", None)
Panic == Result("panic", None)
Abort == Result("abort", None)

(* The first failure decides, else all are kept.                           *)
AllOk(results, Build(_)) ==
  LET bad == {i \in DOMAIN results : results[i].status # "ok"} IN
  IF bad = {} THEN Build([i \in DOMAIN results |-> results[i].value])
  ELSE results[CHOOSE i \in bad : \A j \in bad : i <= j]

-----------------------------------------------------------------------------
(* TryFrom<OwnedJsValue>.                                                  *)

(* f as i64: toward zero, and to the nearest bound.                        *)
FloatAsI64(f) ==
  CASE f \in {NaN, Half} -> 0
    [] f = Infinity -> MaxI64
    [] f \in Int /\ f > MaxI64 -> MaxI64
    [] f \in Int /\ f < -(MaxI64 + 1) -> -(MaxI64 + 1)
    [] OTHER -> f

(* Mutant: a float in the range of i32 is cut, however it is.              *)
ToI32_Cut(v) ==
  CASE v.tag = "int" -> Ok(v.data)
    [] v.tag = "float" -> Ok(FloatAsI64(v.data))
    [] OTHER -> Err

ToI32(v) ==
  CASE v.tag = "int" -> Ok(v.data)
    [] v.tag = "float" /\ v.data \in RangeOf.i32 -> Ok(v.data)
    [] OTHER -> Err

to_float(v) == IF v.tag \in {"float", "int"} THEN Ok(v.data) ELSE Err

(* The engine asserts that what it prints is a BigInt.                     *)
to_bigint(v) ==
  CASE v.tag = "float" -> Ok(FloatAsI64(v.data))
    [] v.tag \in {"int", "shortbig", "bigint"} -> Ok(v.data)
    [] OTHER -> Abort

(* as_i64, to_u64, to_i128, to_u128: BigIntOverflow.                       *)
ToBig(item, v) ==
  LET r == to_bigint(v) IN
  IF r.status = "ok" /\ r.value \notin RangeOf[item] THEN Err ELSE r

TryPlain(item, v) ==
  CASE item = "bool" -> IF v.tag = "bool" THEN Ok(v.data) ELSE Err
    [] item = "i32" -> ToI32(v)
    [] item = "f64" -> to_float(v)
    [] item = "String" -> IF v.tag = "string" THEN Ok(to_string(v.data)) ELSE Err
    [] item \in BigTypes -> ToBig(item, v)

(* The elements get_index finds: undefined ones are left out.              *)
Present(entries) ==
  LET Some[k \in 0..Len(entries)] ==
        IF k = 0 THEN <<>>
        ELSE IF entries[k].value = Undefined THEN Some[k - 1] ELSE Append(Some[k - 1], entries[k])
  IN Some[Len(entries)]

(* What a getter throws is unwrapped.                                      *)
TryVec(item, entries) ==
  LET there == Present(entries) IN
  AllOk([i \in DOMAIN there |->
           IF there[i].value.tag = "throws" THEN Panic ELSE TryPlain(item, there[i].value)], Ok)

(* property(name), of the members of a plain object.                       *)
Member(entries, name) ==
  LET named == {i \in DOMAIN entries : entries[i].key = name} IN
  IF named = {} THEN Undefined ELSE entries[CHOOSE i \in named : TRUE].value

(* Each key is read as a String first, and the member of that name taken.  *)
(* The iterator reads the key's own value too: if that throws it yields    *)
(* errors from then on, which ends the loop as no more keys would.         *)
TryMap(item, entries) ==
  LET seen == {i \in DOMAIN entries :
                 \A j \in DOMAIN entries : j < i => entries[j].value.tag # "throws"}
      names == [i \in seen |-> to_string(entries[i].key)]
      Build(values) == Ok({<<names[i], values[i]>> : i \in DOMAIN names})
  IN AllOk([i \in DOMAIN names |->
              LET v == Member(entries, names[i]) IN
              IF v.tag = "throws" THEN Panic ELSE TryPlain(item, v)], Build)

(* A container is given as its node, any other value as itself.            *)
TryFrom(type, v) ==
  LET node == "entries" \in DOMAIN v
      plain == IF node THEN Ref(1) ELSE v
  IN CASE type.shape = "plain" -> TryPlain(type.item, plain)
       [] type.shape = "option" -> IF plain = Null THEN Ok(None) ELSE TryPlain(type.item, plain)
       [] type.shape = "vec" -> IF node /\ v.kind = "array" THEN TryVec(type.item, v.entries) ELSE Err
       [] type.shape = "map" -> IF node THEN TryMap(type.item, v.entries) ELSE Err

-----------------------------------------------------------------------------
(* ToOwnedJsValue.                                                         *)

(* JS_NewBigInt64, and BigInt of the engine.                               *)
NewBigInt(x) == Value(IF x \in RangeOf.i32 THEN "shortbig" ELSE "bigint", x)

(* Mutant: i64 takes the same way.                                         *)
create_bigint_Long(item, x) == IF NewBigInt(x).tag # "bigint" THEN Panic ELSE Ok(NewBigInt(x))

(* The BigInt of a num_bigint has to be a long one; unwrap.                *)
create_bigint(item, x) ==
  IF item # "i64" /\ NewBigInt(x).tag # "bigint" THEN Panic ELSE Ok(NewBigInt(x))

ToPlain(item, x) ==
  CASE item = "bool" -> Ok(Value("bool", x))
    [] item = "i32" -> Ok(Value("int", x))
    [] item \in {"u32", "f64"} -> Ok(Value("float", x))
    [] item = "String" -> Ok(Value("string", x))
    [] item \in BigTypes -> create_bigint(item, x)

(* Values of a HashMap come in any order; one of them is taken here.       *)
InSomeOrder(pairs) ==
  CHOOSE s \in [1..Cardinality(pairs) -> pairs] : \A p \in pairs : \E i \in DOMAIN s : s[i] = p

(* add_object_property: a key with a NUL is no C string; unwrap.           *)
ToMap(item, pairs) ==
  LET members == InSomeOrder(pairs)
      Build(values) ==
        LET empty == [n \in {1} |-> Node("object")]
            Set[i \in 0..Len(members)] ==
              IF i = 0 THEN empty ELSE SetMember(Set[i - 1], 1, members[i][1], values[i])
        IN Ok(Set[Len(members)][1])
  IN AllOk([i \in DOMAIN members |->
              IF members[i][1] = NulText THEN Panic ELSE ToPlain(item, members[i][2])], Build)

ToVec(item, items) ==
  LET Build(values) ==
        Ok([Node("array") EXCEPT !.entries = [i \in DOMAIN values |-> Entry(None, values[i])]])
  IN AllOk([i \in DOMAIN items |-> ToPlain(item, items[i])], Build)

ToOwned(type, x) ==
  CASE type.shape = "plain" -> ToPlain(type.item, x)
    [] type.shape = "option" -> IF x = None THEN Ok(Null) ELSE ToPlain(type.item, x)
    [] type.shape = "vec" -> ToVec(type.item, x)
    [] type.shape = "map" -> ToMap(type.item, x)
=============================================================================
