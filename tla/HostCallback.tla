---------------------------- MODULE HostCallback ----------------------------
(***************************************************************************)
(* exec_callback of src/callback.rs: a script calls a Rust closure, which  *)
(* may do what OwnedValues allows before it returns, fails or panics.  And *)
(* the conversions of typed callbacks: a value goes through a type and     *)
(* back, from the script through a closure |x: T| x, or from Rust through  *)
(* a script function that returns its argument.                            *)
(***************************************************************************)
EXTENDS OwnedValues, Conversions

CONSTANTS
  FromScript,         (* Types, and the script's values that go through them.*)
  FromHost            (* By shape, types and the Rust values that do.        *)

(* Values of a script: none of them is a Rust value's None.                *)
Floats == {Half, NaN, Infinity}
ScriptValues ==
  [tag : {"undefined", "null", "throws"}, data : {None}]
    \cup [tag : {"bool", "int", "shortbig", "bigint", "node"}, data : Int]
    \cup [tag : {"float"}, data : Int \cup Floats] \cup [tag : {"string"}, data : Strings]

(* The types of a shape that convert both ways, and their Rust values.     *)
Items == {"bool", "i32", "f64", "String"} \cup BigTypes
InType(item) ==
  CASE item = "bool" -> {0, 1}
    [] item = "f64" -> Int \cup Floats
    [] item = "String" -> Strings
    [] OTHER -> RangeOf[item]
IsHashMap(pairs, item) ==
  /\ pairs \in SUBSET (Strings \X InType(item)) /\ IsFiniteSet(pairs)
  /\ \A p, q \in pairs : p[1] = q[1] => p = q

(* The names of an object's members differ.                                *)
NamesDiffer(entries) ==
  \A i, j \in DOMAIN entries :
    entries[i].key \in Strings /\ (entries[i].key = entries[j].key => i = j)

ASSUME NoneIsNoData == {None, NulText} \cap (Int \cup Floats) = {}

ASSUME ExchangesFromScript ==
  \A x \in FromScript :
    /\ x.type \in [shape : {"plain", "option", "vec", "map"}, item : Items]
    /\ \/ x.value \in ScriptValues
       \/ x.value \in [kind : {"array", "object"}, proto : {None}, refs : {1},
                       entries : Seq([key : Strings \cup {None}, value : ScriptValues])]
    /\ x.type.shape = "map" /\ "entries" \in DOMAIN x.value => NamesDiffer(x.value.entries)

ASSUME ExchangesFromHost ==
  \A shape \in DOMAIN FromHost : \A x \in FromHost[shape] :
    /\ x.type \in [shape : {shape} \cap {"plain", "option", "vec", "map"}, item : Items]
    /\ CASE shape = "plain" -> x.value \in InType(x.type.item)
         [] shape = "option" -> x.value \in InType(x.type.item) \cup {None}
         [] shape = "vec" -> x.value \in Seq(InType(x.type.item))
         [] shape = "map" -> IsHashMap(x.value, x.type.item)

VARIABLES
  call,               (* The call of a closure a script waits for.           *)
  exchange            (* The value that goes through a type and back.        *)

vars == <<ownVars, call, exchange>>

(* argv is the engine's; args are the OwnedJsValues not converted yet.     *)
NoCall == [status |-> "none", argv |-> <<>>, args |-> <<>>]
Calling == call.status # "none"
Running == call.status = "running"

FreeAll(h, vs) ==
  LET Some[k \in 0..Len(vs)] == IF k = 0 THEN h ELSE FreeValue(Some[k - 1], vs[k])
  IN Some[Len(vs)]
DupAll(h, vs) ==
  LET Some[k \in 0..Len(vs)] == IF k = 0 THEN h ELSE Dup(Some[k - 1], vs[k])
  IN Some[Len(vs)]

Times(v, vs) == Cardinality({i \in DOMAIN vs : vs[i] = v})
HeldByCall(n) == Times(Ref(n), call.argv) + Times(Ref(n), call.args)

-----------------------------------------------------------------------------
(* exec_callback.                                                          *)

(* Mutant: the arguments are taken over from the engine.                   *)
OwnArguments_New(h, argv) == DupAll(h, argv)

(* The engine holds argv; each argument is owned once more.                *)
OwnArguments(h, argv) == DupAll(DupAll(h, argv), argv)

(* A script calls the closure with containers it holds.                    *)
CallbackEnters(argv) ==
  /\ ~Calling
  /\ \A i \in DOMAIN argv : Alive(argv[i].data)
  /\ heap' = OwnArguments(heap, argv)
  /\ call' = [status |-> "converting", argv |-> argv, args |-> argv]
  /\ UNCHANGED <<host, raws, tables, frozen, over>>

(* An argument of type OwnedJsValue: the closure has it.                   *)
TakeArgument(h) ==
  /\ call.status = "converting" /\ call.args # <<>> /\ IsFree(h)
  /\ host' = [host EXCEPT ![h] = Owned(Head(call.args))]
  /\ call' = [call EXCEPT !.args = Tail(@)]
  /\ UNCHANGED <<heap, raws, tables, frozen, over>>

(* A parameter of a type the argument does not convert to, or a wrong      *)
(* number of arguments: what was taken, and what was not, is dropped.      *)
ConversionFails(taken) ==
  /\ call.status = "converting"
  /\ \A h \in Handles : h \in taken => Owns(h, "value")
  /\ Cardinality(taken) = Len(call.argv) - Len(call.args)
  /\ \A n \in DOMAIN heap :
       Cardinality({h \in taken : host[h].value = Ref(n)})
         = Times(Ref(n), call.argv) - Times(Ref(n), call.args)
  /\ heap' = FreeAll(FreeAll(heap, call.argv), call.argv)
  /\ host' = [h \in Handles |-> IF h \in taken THEN Empty ELSE host[h]]
  /\ call' = NoCall
  /\ UNCHANGED <<raws, tables, frozen, over>>

ClosureRuns ==
  /\ call.status = "converting" /\ call.args = <<>>
  /\ call' = [call EXCEPT !.status = "running"]
  /\ UNCHANGED ownVars

(* The closure returns a value: it is extracted, and the script, which     *)
(* gets the reference, stores it or drops it.                              *)
CallbackReturns(h, n) ==
  /\ Running /\ Owns(h, "value")
  /\ LET v == host[h].value
         stored == n \in DOMAIN heap /\ Alive(n) /\ n \notin frozen
                     /\ Len(heap[n].entries) < MaxEntries /\ heap[n].kind = "array"
         kept == IF stored THEN Put(n, Len(heap[n].entries) + 1, None, v) ELSE FreeValue(heap, v)
     IN heap' = FreeAll(kept, call.argv)
  /\ host' = [host EXCEPT ![h] = Empty]
  /\ call' = NoCall
  /\ UNCHANGED <<raws, tables, frozen, over>>

(* It returns an error, or panics and exec_callback catches it.            *)
CallbackThrows ==
  /\ Running
  /\ heap' = FreeAll(heap, call.argv)
  /\ call' = NoCall
  /\ UNCHANGED <<host, raws, tables, frozen, over>>

-----------------------------------------------------------------------------
(* A value through a type and back.                                        *)

NoExchange == [status |-> "none", way |-> None, type |-> None, sent |-> None, value |-> None]

(* In a program that does nothing else.                                    *)
ExchangeStarts(way, x) ==
  /\ heap = <<>> /\ ~Calling /\ exchange.status = "none"
  /\ exchange' = [status |-> way, way |-> way, type |-> x.type, sent |-> x.value, value |-> x.value]
  /\ UNCHANGED <<ownVars, call>>

Converted(r, next) ==
  /\ exchange' = [exchange EXCEPT !.status = IF r.status = "ok" THEN next ELSE r.status,
                                  !.value = r.value]
  /\ UNCHANGED <<ownVars, call>>

(* A script's value becomes a T for a closure; what Rust got back becomes  *)
(* the T that is read.                                                     *)
Reads ==
  /\ exchange.status \in {"script", "written"}
  /\ Converted(TryFrom(exchange.type, exchange.value),
               IF exchange.way = "script" THEN "read" ELSE "done")

(* The T of a closure becomes its result; a T becomes an argument.         *)
Writes ==
  /\ exchange.status \in {"host", "read"}
  /\ Converted(ToOwned(exchange.type, exchange.value),
               IF exchange.way = "host" THEN "written" ELSE "done")

-----------------------------------------------------------------------------
Init == OwnInit /\ call = NoCall /\ exchange = NoExchange

MaySay == Sound /\ exchange.status = "none"

Callback ==
  \/ \E n \in DOMAIN heap : \E m \in DOMAIN heap \cup {None} :
       CallbackEnters(IF m = None THEN <<Ref(n)>> ELSE <<Ref(n), Ref(m)>>)
  \/ \E h \in Handles : TakeArgument(h) \/ \E n \in DOMAIN heap \cup {None} : CallbackReturns(h, n)
  \/ \E taken \in SUBSET Handles : ConversionFails(taken)
  \/ ClosureRuns \/ CallbackThrows

Next ==
  \/ /\ MaySay /\ UNCHANGED exchange
     /\ \/ /\ call.status \in {"none", "running"} /\ UNCHANGED call
           /\ \/ \E h \in Handles : OneHandle(h) \/ \E g \in Handles : TwoHandles(h, g)
              \/ Script
        \/ Callback
  \/ \E x \in FromScript : ExchangeStarts("script", x)
  \/ \E shape \in DOMAIN FromHost : \E x \in FromHost[shape] : ExchangeStarts("host", x)
  \/ Reads \/ Writes

Spec == Init /\ [][Next]_vars

-----------------------------------------------------------------------------
(* Properties.                                                             *)

HostTypeOK ==
  /\ OwnTypeOK
  /\ call.status \in {"none", "converting", "running"}
  /\ Len(call.args) <= Len(call.argv)
  /\ exchange.status \in {"none", "script", "host", "read", "written", "done", "error", "panic", "abort"}

(* The count of a container is the number of references that are held, by  *)
(* Rust variables, raw values, containers and the call a script waits for; *)
(* none that is held is freed.  object.rs:86-90 and array.rs:50-54 and     *)
(* 76-80 claim it for an assignment that fails as well, whose value is     *)
(* "still managed": the engine has freed it (run RefusedAssignment).       *)
CountsExact ==
  \A n \in DOMAIN heap :
    IF Alive(n) THEN heap[n].refs = Holders(n) + HeldByCall(n)
    ELSE Holders(n) + HeldByCall(n) = 0 /\ heap[n].refs = 0

(* Where no script has frozen a container, so that none refuses a value,   *)
(* the count is exact.                                                     *)
CountsExactUnfrozen == frozen = {} => CountsExact

Numeric == {"int", "float", "shortbig", "bigint"}
Same(v, w) == v = w \/ (v.tag \in Numeric /\ w.tag \in Numeric /\ v.data = w.data)

(* A value and what came back for it, where the type is not too small: a   *)
(* float that is no i64 is cut to one by BigInts, and a string ends at its *)
(* first NUL.                                                              *)
Kept(v, w) ==
  \/ Same(v, w)
  \/ (v.tag = "float" /\ exchange.type.item \in BigTypes /\ v.data \notin RangeOf.i64)
  \/ (v = Value("string", NulText) /\ w = Value("string", Text))

(* What comes back through a type is what was sent: of an array the        *)
(* elements that are not undefined in their order, of an object the members*)
(* whose names have no NUL, except __proto__, which a HashMap that becomes *)
(* an object loses.                                                        *)
EchoKeepsValues ==
  LET sent == exchange.sent
      back == exchange.value
      there == Present(sent.entries)
  IN exchange.status = "done" =>
     CASE exchange.way = "script" /\ "entries" \notin DOMAIN sent -> Kept(sent, back)
       [] exchange.way = "script" /\ exchange.type.shape = "vec" ->
            /\ Len(back.entries) = Len(there)
            /\ \A i \in DOMAIN there : Kept(there[i].value, back.entries[i].value)
       [] exchange.way = "script" /\ exchange.type.shape = "map" ->
            \A i \in DOMAIN sent.entries : sent.entries[i].key \notin {NulText, ProtoKey} =>
              \E j \in DOMAIN back.entries :
                /\ back.entries[j].key = sent.entries[i].key
                /\ Kept(sent.entries[i].value, back.entries[j].value)
       [] exchange.way = "host" /\ exchange.type.shape = "map" ->
            back = {<<p[1], to_string(p[2])>> : p \in {q \in sent : q[1] # ProtoKey}}
       [] exchange.way = "host" /\ exchange.type.shape = "vec" ->
            back = [i \in DOMAIN sent |-> to_string(sent[i])]
       [] OTHER -> back = to_string(sent)

(* A conversion panics only where a BigInt in the range of i32 is made of  *)
(* another type than i64, a HashMap has a key with a NUL in it or a getter *)
(* throws; it aborts only for what is no number, and for a key with a NUL, *)
(* under which a HashMap finds another member or none.                     *)
PanicsAreKnown ==
  LET sent == exchange.sent
      shape == exchange.type.shape
      script == exchange.way = "script"
      values == IF "entries" \notin DOMAIN sent THEN {sent}
                ELSE IF shape \in {"plain", "option"} THEN {Ref(1)}
                ELSE {sent.entries[i].value : i \in DOMAIN sent.entries}
      inside == IF script THEN values ELSE {}
      numbers == CASE script -> {FloatAsI64(v.data) : v \in {w \in inside : w.tag \in Numeric}}
                   [] ~script /\ shape = "vec" -> {sent[i] : i \in DOMAIN sent}
                   [] ~script /\ shape = "map" -> {p[2] : p \in sent}
                   [] OTHER -> {sent}
  IN /\ exchange.status = "panic" =>
          \/ exchange.type.item \in BigTypes \ {"i64"} /\ numbers \cap RangeOf.i32 # {}
          \/ \E v \in inside : v.tag = "throws"
          \/ ~script /\ shape = "map" /\ \E p \in sent : p[1] = NulText
     /\ exchange.status = "abort" =>
          \/ \E v \in inside : v.tag \notin Numeric
          \/ script /\ shape = "map" /\ \E i \in DOMAIN sent.entries : sent.entries[i].key = NulText
=============================================================================
