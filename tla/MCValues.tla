------------------------------ MODULE MCValues ------------------------------
(* Exchanges of values on both sides of every bound the code compares with,*)
(* alone, in Options, and in arrays and objects of up to two.              *)
EXTENDS HostCallback, TLC

Plain == {"bool", "i32", "f64", "String", "i64", "u64", "i128", "u128"}
SomeFloats == {-2, 0, 1, 2, 3, 4} \cup Floats

ScriptScalars ==
  {Value("int", k) : k \in {-2, 1}} \cup {Value("float", f) : f \in SomeFloats}
    \cup {Value("shortbig", k) : k \in {-2, 1}} \cup {Value("bigint", k) : k \in {2, 3, 4, 7, 8, -5, -9}}
    \cup {Value("string", x) : x \in {Text, NulText}}
    \cup {Value("bool", 1), Undefined, Null}

Few == {Value("int", 1), Value("float", Half), Value("bigint", 4), Value("string", Text),
        Value("throws", None), Undefined}
Arrays == {[Node("array") EXCEPT !.entries = <<Entry(None, v), Entry(None, w)>>] : v \in Few, w \in Few}
Objects == {[Node("object") EXCEPT !.entries = <<Entry(k[1], v), Entry(k[2], w)>>] :
              v \in Few, w \in Few, k \in {<<Text, NulText>>, <<NulText, Text>>, <<Text, ProtoKey>>}}
             \cup {[Node("object") EXCEPT !.entries = <<Entry(k, v)>>] : v \in Few, k \in {Text, NulText}}

InRange(item) ==
  CASE item = "bool" -> {0, 1}
    [] item = "String" -> {Text, NulText}
    [] item = "f64" -> SomeFloats
    [] OTHER -> {-9, -2, -1, 0, 1, 2, 3, 4, 7, 8, 15, 16, 31} \cap RangeOf[item]

MCFromScript ==
  {[type |-> Type(shape, item), value |-> v] :
     shape \in {"plain", "option"}, item \in Plain, v \in ScriptScalars \cup {Node("object")}}
    \cup {[type |-> Type("vec", item), value |-> v] : item \in Plain, v \in Arrays}
    \cup {[type |-> Type("map", item), value |-> v] : item \in Plain, v \in Objects}

Of(shape, item, values) == {[type |-> Type(shape, item), value |-> x] : x \in values}
Keys == {<<Text>>, <<NulText>>, <<ProtoKey>>, <<Text, NulText>>, <<Text, ProtoKey>>}
Maps(items) == UNION {{{<<keys[i], s[i]>> : i \in DOMAIN keys} : s \in [DOMAIN keys -> items]} : keys \in Keys}

MCFromHost ==
  [plain |-> UNION {Of("plain", item, InRange(item)) : item \in Plain},
   option |-> UNION {Of("option", item, InRange(item) \cup {None}) : item \in Plain},
   vec |-> UNION {Of("vec", item, InRange(item) \X InRange(item)) : item \in Plain},
   map |-> UNION {Of("map", item, Maps(InRange(item))) : item \in Plain}]

(* Handles are interchangeable.                                            *)
HandleSymmetry == Permutations(Handles)
=============================================================================
