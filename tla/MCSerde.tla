------------------------------ MODULE MCSerde ------------------------------
(* Numbers on both sides of every bound the code compares with; graphs of  *)
(* two containers of up to two elements.                                   *)
EXTENDS Serde

MCNumbers ==
  {<<"i32", 1>>, <<"i64", -3>>, <<"i64", -2>>, <<"i64", 2>>, <<"i64", 3>>, <<"i64", 4>>,
   <<"u32", 1>>, <<"u32", 3>>, <<"u64", 3>>, <<"u64", 4>>, <<"u64", 8>>, <<"f64", 1>>}

Elements == {Undefined, Value("int", 0), Value("throws", None), Ref(1), Ref(2)}
Pairs == {<<>>} \cup {<<v>> : v \in Elements} \cup {<<v, w>> : v \in Elements, w \in Elements}
ArrayOf(vs) == [Node("array") EXCEPT !.entries = [i \in DOMAIN vs |-> Entry(None, vs[i])]]
ObjectOf(vs) ==
  [Node("object") EXCEPT !.entries =
     [i \in DOMAIN vs |-> Entry(IF i = 1 THEN Text ELSE NulText, vs[i])]]
Containers == {ArrayOf(vs) : vs \in Pairs} \cup {ObjectOf(vs) : vs \in Pairs}
ProxyOf(n) == [Node("proxy") EXCEPT !.entries = <<Entry(None, Ref(n))>>]

MCGraphs ==
  {<<c, d>> : c \in Containers \cup {ProxyOf(2)}, d \in Containers}
    \cup {<<c, ProxyOf(1)>> : c \in Containers}
=============================================================================
