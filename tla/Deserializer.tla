---------------------------- MODULE Deserializer ----------------------------
(***************************************************************************)
(* from_js of src/serde/de.rs.  The Rust type asks for one value after     *)
(* another; each request is one action.  The type is the one whose value   *)
(* the tokens describe, or, when there are no tokens, a type that takes    *)
(* any value, which asks by deserialize_any.                               *)
(***************************************************************************)
EXTENDS Serializer

VARIABLE de           (* The Deserializer, what is open, and how it went.    *)

vars == <<serVars, de>>

(* paths: a container, the index of the next item, whether there is a      *)
(* property iterator.  open: what the type is in the middle of.  ready:    *)
(* current is a value nobody has taken yet.  at: the next token.           *)
NewDeserializer(root) ==
  [paths |-> <<>>, current |-> root, open |-> <<>>, ready |-> TRUE, at |-> 1,
   status |-> "reading"]

Ends(d, status) == [d EXCEPT !.status = status]
Reading(d) == d.status = "reading"
heap == ser.heap

-----------------------------------------------------------------------------
(* Deserializer::next, enter_array, enter_object, leave.                   *)

Item(p) ==
  LET entries == heap[p.node].entries IN
  IF heap[p.node].kind = "array"
    THEN IF p.index < Len(entries) THEN entries[p.index + 1].value ELSE Undefined
    ELSE IF p.index >= 2 * Len(entries) THEN None
         ELSE IF p.index % 2 = 0 THEN Value("string", entries[p.index \div 2 + 1].key)
         ELSE entries[p.index \div 2 + 1].value

(* Mutant: the length of an array is its end.                              *)
AtEnd_Length(d) ==
  LET p == d.paths[Len(d.paths)]
      count == Len(heap[p.node].entries)
  IN p.index >= IF heap[p.node].kind = "array" THEN count ELSE 2 * count

(* An array ends at its first undefined element.                           *)
AtEnd(d) ==
  LET p == d.paths[Len(d.paths)] IN
  Item(p) = IF heap[p.node].kind = "array" THEN Undefined ELSE None

(* Mutant: the index is not moved on.                                      *)
next_Stuck(d) ==
  IF AtEnd(d) THEN d ELSE [d EXCEPT !.current = Item(d.paths[Len(d.paths)])]

(* A getter throws.                                                        *)
next(d) ==
  LET item == Item(d.paths[Len(d.paths)]) IN
  IF AtEnd(d) THEN d
  ELSE IF item = Value("throws", None) THEN Ends(d, "exception")
  ELSE [d EXCEPT !.current = item, !.paths[Len(d.paths)].index = @ + 1]

(* guard_circular_reference.                                               *)
Circular(d, v) == \E i \in DOMAIN d.paths : d.paths[i].node = v.data

enter(d, fits, error) ==
  LET v == ProxyTarget(heap, d.current) IN
  IF ~fits THEN Ends(d, error)
  ELSE IF Circular(d, v) THEN Ends(d, "circular")
  ELSE [d EXCEPT !.paths = Append(@, [node |-> v.data, index |-> 0])]

enter_array(d) == enter(d, is_array(heap, ProxyTarget(heap, d.current)), "expected array")
enter_object(d) == enter(d, is_object(heap, d.current), "expected object")

leave(d) ==
  [d EXCEPT !.current = Ref(d.paths[Len(d.paths)].node),
            !.paths = SubSeq(@, 1, Len(@) - 1)]

(* The type is done with a value, or goes into a compound one.             *)
Done(d) == [d EXCEPT !.ready = FALSE, !.at = IF Started THEN @ + 1 ELSE @]
Opens(d, kind) == IF Reading(d) THEN Done([d EXCEPT !.open = Append(@, kind)]) ELSE d

-----------------------------------------------------------------------------
(* deserialize_any on a value that is not a container, for a visitor that  *)
(* takes some kinds of values: what the type reads, or an error.           *)

Ranges ==
  [i32 |-> MinI32..MaxI32, i64 |-> MinI64..MaxI64, u32 |-> 0..2 * MaxI32 + 1, u64 |-> 0..MaxU64]
Integer == DOMAIN Ranges

(* A visitor of integers takes no float, however whole.                    *)
VisitNumber(kind, v) ==
  IF v.tag = "bigint" /\ v.data \notin MinI64..MaxI64 THEN "bigint overflow"
  ELSE IF \/ kind = "f64" /\ v.tag \in {"int", "float", "bigint"}
          \/ kind \in Integer /\ v.tag \in {"int", "bigint"} /\ v.data \in Ranges[kind]
    THEN "same" ELSE "invalid type"

(* How reading v as the type of token t goes.                              *)
Visit(t, v) ==
  CASE t.kind \in Integer \cup {"f64"} /\ v.tag # "string" ->
         LET r == VisitNumber(t.kind, v) IN
         IF r = "same" /\ v.data # t.data THEN "changed" ELSE r
    [] t.kind = "str" /\ v.tag = "string" -> IF to_string(v.data) = t.data THEN "same" ELSE "changed"
    [] t.kind = "unit" /\ v.tag \in {"null", "undefined"} -> "same"
    [] t.kind = "unit_variant" /\ v.tag = "string" ->
         IF to_string(v.data) = t.data THEN "same" ELSE "changed"
    [] OTHER -> "invalid type"

-----------------------------------------------------------------------------
(* The requests of the type the tokens describe.                           *)

Typed == Started /\ Reading(de)
Asked == tokens[de.at]
Open == de.open[Len(de.open)]
ValueAsked == Typed /\ de.ready /\ de.at <= Len(tokens)

(* next_element_seed: a Vec asks until there is none.                      *)
NextElement ==
  /\ Typed /\ ~de.ready /\ de.open # <<>> /\ Open \in Listed
  /\ Asked.kind # "end"
  /\ de' = IF AtEnd(de) THEN Ends(de, "changed")
           ELSE LET d == next(de) IN IF Reading(d) THEN [d EXCEPT !.ready = TRUE] ELSE d

(* next_key_seed and the next of next_value_seed.                          *)
NextKey ==
  /\ Typed /\ ~de.ready /\ de.open # <<>> /\ Open \in Keyed
  /\ Asked.kind = "key"
  /\ \E d \in {next(de)} : \E v \in {IF Reading(d) THEN next(d) ELSE d} :
       de' = IF AtEnd(de) THEN Ends(de, "changed")
             ELSE IF Reading(d) /\ to_string(d.current.data) # Asked.data THEN Ends(d, "changed")
             ELSE IF Reading(v) THEN [v EXCEPT !.ready = TRUE, !.at = @ + 1] ELSE v

(* The end of a compound: a Vec or a map finds no more.                    *)
LeaveCompound ==
  /\ Typed /\ ~de.ready /\ de.open # <<>>
  /\ Asked.kind = "end"
  /\ de' = IF Open # "newtype_variant" /\ ~AtEnd(de) THEN Ends(de, "changed")
           ELSE LET d == [(IF Open \in TwoDeep THEN leave(leave(de)) ELSE leave(de))
                            EXCEPT !.at = @ + 1, !.open = SubSeq(@, 1, Len(@) - 1)]
                IN d

(* bool, numbers, strings, unit, unit variants.                            *)
DeserializeScalar ==
  /\ ValueAsked
  /\ Asked.kind \in Integer \cup {"f64", "str", "unit", "unit_variant"}
  /\ LET r == Visit(Asked, ProxyTarget(heap, de.current)) IN
     de' = IF r = "same" THEN Done(de) ELSE Ends(de, r)

(* deserialize_option: null is None, whatever the type inside.             *)
DeserializeOption ==
  /\ ValueAsked /\ Asked.kind \in {"some", "none"}
  /\ LET none == de.current \in {Null, Undefined} IN
     de' = CASE none /\ Asked.kind = "none" -> Done(de)
             [] ~none /\ Asked.kind = "some" -> [de EXCEPT !.at = @ + 1]
             [] OTHER -> Ends(de, "changed")

DeserializeNewtypeStruct ==
  /\ ValueAsked /\ Asked.kind = "newtype_struct"
  /\ de' = [de EXCEPT !.at = @ + 1]

(* deserialize_byte_buf is not implemented.                                *)
DeserializeBytes ==
  /\ ValueAsked /\ Asked.kind = "bytes"
  /\ de' = Ends(de, "panic")

DeserializeSeq ==
  /\ ValueAsked /\ Asked.kind = "seq"
  /\ de' = Opens(enter_array(de), "seq")

DeserializeMap ==
  /\ ValueAsked /\ Asked.kind \in {"map", "struct"}
  /\ de' = Opens(enter_object(de), Asked.kind)

(* deserialize_enum, variant_seed, then the content of the variant.        *)
DeserializeVariant ==
  /\ ValueAsked /\ Asked.kind \in TwoDeep \cup {"newtype_variant"}
  /\ \E d \in {enter_object(de)} : \E name \in {IF Reading(d) THEN next(d) ELSE d} :
     \E value \in {IF Reading(name) THEN next(name) ELSE name} :
       de' = IF ~Reading(value) THEN value
             ELSE IF to_string(name.current.data) # Asked.data THEN Ends(value, "changed")
             ELSE CASE Asked.kind = "newtype_variant" -> [Opens(value, Asked.kind) EXCEPT !.ready = TRUE]
                    [] Asked.kind = "tuple_variant" -> Opens(enter_array(value), Asked.kind)
                    [] Asked.kind = "struct_variant" -> Opens(enter_object(value), Asked.kind)

FromJsReturns ==
  /\ Typed /\ de.at > Len(tokens)
  /\ de' = Ends(de, "same")

-----------------------------------------------------------------------------
(* A type that takes any value.                                            *)

Untyped == ~Started /\ Reading(de)

(* deserialize_any.                                                        *)
DeserializeAny ==
  /\ Untyped /\ de.ready
  /\ LET v == ProxyTarget(heap, de.current) IN
     de' = CASE ~IsNode(v) ->
                  IF v.tag = "bigint" /\ v.data \notin MinI64..MaxI64
                    THEN Ends(de, "bigint overflow") ELSE Done(de)
             [] IsNode(v) /\ is_array(heap, v) -> Opens(enter_array(de), "seq")
             [] OTHER -> Opens(enter_object(de), "map")

AnyNext ==
  /\ Untyped /\ ~de.ready /\ de.open # <<>> /\ ~AtEnd(de)
  /\ LET d == next(de)
         v == IF Reading(d) /\ Open = "map" THEN next(d) ELSE d
     IN de' = IF Reading(v) THEN [v EXCEPT !.ready = TRUE] ELSE v

AnyLeaves ==
  /\ Untyped /\ ~de.ready /\ de.open # <<>> /\ AtEnd(de)
  /\ de' = [leave(de) EXCEPT !.open = SubSeq(@, 1, Len(@) - 1)]

AnyReturns ==
  /\ Untyped /\ ~de.ready /\ de.open = <<>>
  /\ de' = Ends(de, "same")

Deserialize ==
  /\ \/ NextElement \/ NextKey \/ LeaveCompound
     \/ DeserializeScalar \/ DeserializeOption \/ DeserializeNewtypeStruct \/ DeserializeBytes
     \/ DeserializeSeq \/ DeserializeMap \/ DeserializeVariant \/ FromJsReturns
     \/ DeserializeAny \/ AnyNext \/ AnyLeaves \/ AnyReturns
  /\ UNCHANGED serVars
=============================================================================
