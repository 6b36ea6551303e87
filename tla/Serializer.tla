----------------------------- MODULE Serializer -----------------------------
(***************************************************************************)
(* to_js of src/serde/ser.rs.  A Rust value describes itself by a sequence *)
(* of calls; each is one token and one action.  The calls of a value are   *)
(* well nested, which frames keeps track of: that part stands for the      *)
(* Serialize of the value.  Numbers have scaled widths.                    *)
(***************************************************************************)
EXTENDS JSHeap

CONSTANTS
  MaxI32, MaxSafe, MaxI64, MaxU64,  (* Scaled widths.                        *)
  Numbers,            (* Of each kind, the numbers a value may contain.      *)
  MaxValues,          (* Bound: values, nested ones included.                *)
  DebugAssertions     (* cfg(debug_assertions).                              *)

ASSUME WidthsAssumption ==
  /\ {MaxI32, MaxSafe, MaxI64, MaxU64} \subseteq Nat
  /\ MaxI32 < MaxSafe /\ MaxSafe < MaxI64 /\ MaxU64 = 2 * MaxI64 + 1
  /\ DebugAssertions \in BOOLEAN

MinI32 == -(MaxI32 + 1)
MinI64 == -(MaxI64 + 1)

ASSUME NumbersAssumption ==
  Numbers \subseteq ({"i32"} \X (MinI32..MaxI32)) \cup ({"i64"} \X (MinI64..MaxI64))
    \cup ({"u32"} \X (0..2 * MaxI32 + 1)) \cup ({"u64"} \X (0..MaxU64))
    \cup ({"f64"} \X (MinI64..MaxU64))

VARIABLES
  ser,                (* The Serializer, the heap it builds in, how it went. *)
  tokens,             (* The calls so far.                                   *)
  frames              (* The compounds that were begun and not ended.        *)

serVars == <<ser, tokens, frames>>

-----------------------------------------------------------------------------
(* The Serializer.                                                         *)

NewSerializer ==
  [heap |-> <<>>, root |-> Undefined, paths |-> <<>>, current |-> None,
   current_is_key |-> FALSE, current_key |-> None,
   status |-> "running", leaked |-> {}]

Fails(s) == [s EXCEPT !.status = "error"]
Failed(s) == s.status = "error"

(* A value that finds no place is forgotten.                               *)
Forget(s, v) == Fails([s EXCEPT !.leaked = @ \cup (IF IsNode(v) THEN {v.data} ELSE {})])

(* If only a key is missing, a debug build looks at it and drops it.       *)
Refuse(s, v) == IF DebugAssertions THEN Fails([s EXCEPT !.heap = Free(@, v)]) ELSE Forget(s, v)

(* A key with a NUL in it is no C string.                                  *)
SetProperty(s, v) ==
  IF s.current_key = NulText
    THEN Fails([s EXCEPT !.heap = Free(@, v), !.current_key = None])
    ELSE [s EXCEPT !.heap = SetMember(@, s.current.data, s.current_key, v),
                   !.current_key = None]

set_node_value(s, v) ==
  CASE s.current = None ->
         [s EXCEPT !.heap = Dup(Free(@, s.root), v), !.root = v, !.current = v]
    [] s.current = Undefined -> [s EXCEPT !.current = v]
    [] s.current # None /\ is_array(s.heap, s.current) ->
         [s EXCEPT !.heap = PushElement(@, s.current.data, v)]
    [] s.current # None /\ is_object(s.heap, s.current) /\ ~is_array(s.heap, s.current) ->
         IF s.current_key = None THEN Refuse(s, v) ELSE SetProperty(s, v)
    [] OTHER -> Forget(s, v)

(* Mutant: the serializer does not count its reference to the container.   *)
push_NoOwn(s, kind) ==
  LET v == Ref(Len(s.heap) + 1)
      t == set_node_value([s EXCEPT !.heap = Append(@, Node(kind))], v)
  IN IF Failed(t) THEN t ELSE [t EXCEPT !.paths = Append(@, t.current), !.current = v]

(* push_object, push_array.                                                *)
push(s, kind) ==
  LET v == Ref(Len(s.heap) + 1)
      t == set_node_value([s EXCEPT !.heap = Append(@, Node(kind))], v)
  IN IF Failed(t) THEN t
     ELSE [t EXCEPT !.paths = Append(@, t.current), !.current = v, !.heap = Dup(@, v)]

pop(s) ==
  IF s.paths = <<>> THEN [s EXCEPT !.heap = Free(@, s.current), !.current = None]
  ELSE [s EXCEPT !.heap = Free(@, s.current), !.current = s.paths[Len(s.paths)],
                 !.paths = SubSeq(@, 1, Len(s.paths) - 1)]

serialize_str(s, text) ==
  IF s.current_is_key THEN [s EXCEPT !.current_key = text, !.current_is_key = FALSE]
  ELSE set_node_value(s, Value("string", text))

(* current_is_key is set before the name of a variant, a field or a key.   *)
serialize_name(s, text) == serialize_str([s EXCEPT !.current_is_key = TRUE], text)

-----------------------------------------------------------------------------
(* Numbers.                                                                *)

(* as i32.                                                                 *)
AsI32(v) == ((v - MinI32) % (MaxI32 - MinI32 + 1)) + MinI32

serialize_i32(v) == Value("int", v)

(* Mutant: the sign is not looked at.                                      *)
serialize_i64_Truncating(v) ==
  IF v > MaxSafe THEN Value("bigint", v) ELSE Value("int", AsI32(v))

serialize_i64(v) ==
  CASE v > MaxSafe -> Value("bigint", v)
    [] v > MaxI32 /\ v <= MaxSafe -> Value("float", v)
    [] OTHER -> Value("int", AsI32(v))

(* Mutants: out of the range of the integers of the engine; always a float.*)
serialize_u32_Int(v) == Value("int", v)
serialize_u32_Float(v) == Value("float", v)

serialize_u32(v) == IF v > MaxI32 THEN Value("float", v) ELSE Value("int", v)

serialize_u64(v) ==
  CASE v > MaxSafe -> Value("bigint", v)
    [] v > MaxI32 /\ v <= MaxSafe -> Value("float", v)
    [] OTHER -> Value("int", v)

Token(kind, data) == [kind |-> kind, data |-> data]

Scalars ==
  {Token(t[1], t[2]) : t \in Numbers} \cup {Token("str", x) : x \in {Text, NulText}}
    \cup {Token("none", None), Token("unit", None), Token("unit_variant", Text)}

ScalarOf(t) ==
  CASE t.kind = "i32" -> serialize_i32(t.data)
    [] t.kind = "i64" -> serialize_i64(t.data)
    [] t.kind = "u32" -> serialize_u32(t.data)
    [] t.kind = "u64" -> serialize_u64(t.data)
    [] t.kind = "f64" -> Value("float", t.data)
    [] OTHER -> Null

-----------------------------------------------------------------------------
(* The calls of a value.                                                   *)

Wrappers == {"some", "newtype_struct"}
Listed == {"seq", "tuple_variant"}
Keyed == {"map", "struct", "struct_variant"}
TwoDeep == {"tuple_variant", "struct_variant"}

Frame(kind) ==
  [kind |-> kind, due |-> IF kind \in Keyed THEN "key" ELSE "value", keys |-> {}]
Top == frames[Len(frames)]

(* What is due in the compound around a value that was begun.              *)
AfterValue(fs) ==
  IF fs = <<>> THEN fs
  ELSE LET last == Len(fs) IN
       [fs EXCEPT ![last].due =
          CASE fs[last].kind \in Keyed -> "key" [] fs[last].kind = "newtype_variant" -> "end"
            [] OTHER -> "value"]

Started == tokens # <<>>
Running == ser.status = "running"
LastToken == tokens[Len(tokens)].kind
ValueDue ==
  /\ Running
  /\ IF frames = <<>> THEN Started => LastToken \in Wrappers ELSE Top.due = "value"
Values == Cardinality({i \in DOMAIN tokens : tokens[i].kind \notin {"end", "key"}})
Room(k) == Values + k <= MaxValues

Says(t) == tokens' = Append(tokens, t)

SerializeScalar(t) ==
  /\ ValueDue /\ Room(1)
  /\ Says(t)
  /\ ser' = IF t.kind \in {"str", "unit_variant"} THEN serialize_str(ser, t.data)
            ELSE set_node_value(ser, ScalarOf(t))
  /\ frames' = AfterValue(frames)

(* serialize_some, serialize_newtype_struct: nothing is written.           *)
SerializeWrapper(kind) ==
  /\ ValueDue /\ Room(2)
  /\ Says(Token(kind, None))
  /\ UNCHANGED <<ser, frames>>

(* serialize_bytes: an array of one byte.                                  *)
SerializeBytes ==
  /\ ValueDue /\ Room(1)
  /\ Says(Token("bytes", None))
  /\ LET s == push(ser, "array")
     IN ser' = IF Failed(s) THEN s ELSE pop(set_node_value(s, serialize_i32(0)))
  /\ frames' = AfterValue(frames)

(* serialize_seq, tuple, tuple_struct, map, struct.                        *)
SerializeCompound(kind) ==
  /\ ValueDue /\ Room(1)
  /\ Says(Token(kind, None))
  /\ ser' = push(ser, IF kind = "seq" THEN "array" ELSE "object")
  /\ frames' = Append(AfterValue(frames), Frame(kind))

(* serialize_newtype_variant, tuple_variant, struct_variant: an object     *)
(* whose only member has the name of the variant.                          *)
SerializeVariant(kind) ==
  /\ ValueDue /\ Room(IF kind = "newtype_variant" THEN 2 ELSE 1)
  /\ Says(Token(kind, Text))
  /\ LET s == push(ser, "object")
         named == IF Failed(s) THEN s ELSE serialize_name(s, Text)
     IN ser' = IF Failed(s) \/ kind = "newtype_variant" THEN named
               ELSE push(named, IF kind = "tuple_variant" THEN "array" ELSE "object")
  /\ frames' = Append(AfterValue(frames), Frame(kind))

(* serialize_key with a string, and the key of serialize_field.            *)
SerializeKey(text) ==
  /\ Running /\ frames # <<>> /\ Top.due = "key" /\ Room(1)
  /\ text \notin Top.keys
  /\ Says(Token("key", text))
  /\ ser' = IF ser.current_key # None THEN Fails(ser) ELSE serialize_name(ser, text)
  /\ frames' = [frames EXCEPT ![Len(frames)].due = "value", ![Len(frames)].keys = @ \cup {text}]

(* serialize_key with a number, or with a sequence.                        *)
SerializeOtherKey(container) ==
  /\ Running /\ frames # <<>> /\ Top.kind = "map" /\ Top.due = "key" /\ Room(1)
  /\ Says(Token("other_key", None))
  /\ LET s == [ser EXCEPT !.current_is_key = TRUE]
     IN ser' = IF container THEN push(s, "array") ELSE set_node_value(s, serialize_i32(0))
  /\ UNCHANGED frames

(* Mutant: a variant leaves its object open.                               *)
Close_One(s, kind) == pop(s)

(* Tuple and struct variants close two containers.                         *)
Close(s, kind) == IF kind \in TwoDeep THEN pop(pop(s)) ELSE pop(s)

SerializeEnd ==
  /\ Running /\ frames # <<>>
  /\ \/ Top.due = "end"
     \/ Top.kind \in Keyed /\ Top.due = "key"
     \/ Top.kind \in Listed /\ LastToken \notin Wrappers
  /\ Says(Token("end", None))
  /\ ser' = Close(ser, Top.kind)
  /\ frames' = SubSeq(frames, 1, Len(frames) - 1)

-----------------------------------------------------------------------------
(* to_js.                                                                  *)

HeldByHost(s, n) ==
  Cardinality({i \in DOMAIN s.paths : s.paths[i] = Ref(n)})
    + (IF s.current = Ref(n) THEN 1 ELSE 0) + (IF s.root = Ref(n) THEN 1 ELSE 0)

(* The Serializer goes; its root is returned, or goes as well.             *)
DropSerializer(s, root, status) ==
  [s EXCEPT !.heap = [n \in DOMAIN s.heap |-> [s.heap[n] EXCEPT !.refs =
                        s.heap[n].refs - HeldByHost(s, n) + (IF root = Ref(n) THEN 1 ELSE 0)]],
            !.root = root, !.paths = <<>>, !.current = None, !.status = status]

ToJsReturns ==
  /\ Started /\ frames = <<>> /\ ~ValueDue /\ Running
  /\ ser' = DropSerializer(ser, ser.root, "done")
  /\ UNCHANGED <<tokens, frames>>

ToJsFails ==
  /\ ser.status = "error"
  /\ ser' = DropSerializer(ser, Undefined, "failed")
  /\ UNCHANGED <<tokens, frames>>

SerInit == ser = NewSerializer /\ tokens = <<>> /\ frames = <<>>

Serialize ==
  \/ \E t \in Scalars : SerializeScalar(t)
  \/ \E kind \in Wrappers : SerializeWrapper(kind)
  \/ SerializeBytes
  \/ \E kind \in {"seq", "map", "struct"} : SerializeCompound(kind)
  \/ \E kind \in TwoDeep \cup {"newtype_variant"} : SerializeVariant(kind)
  \/ \E text \in Strings : SerializeKey(text)
  \/ \E container \in BOOLEAN : SerializeOtherKey(container)
  \/ SerializeEnd \/ ToJsReturns \/ ToJsFails

-----------------------------------------------------------------------------
(* Properties.                                                             *)

(* The count of every container is the number of references that are held: *)
(* by its Serializer, by its parent, by what the host got back; one that   *)
(* was refused in a release build is never given back.                     *)
ReferencesExact ==
  \A n \in DOMAIN ser.heap :
    ser.heap[n].refs = HeldByHost(ser, n) + HeldInHeap(ser.heap, n)
                         + (IF n \in ser.leaked THEN 1 ELSE 0)

(* The containers begun and not ended, from the root to the current one:   *)
(* each is the last element of the one before.                             *)
SpineIsAPath ==
  LET spine == Append(ser.paths, ser.current)
      Holds(v, w) ==
        /\ IsNode(v) /\ IsNode(w)
        /\ LET node == ser.heap[v.data] IN
           \/ node.entries # <<>> /\ node.entries[Len(node.entries)].value = w
           \/ node.proto = w.data
  IN (Running /\ frames # <<>>) =>
       /\ Len(ser.paths) = Len(frames) + Cardinality({i \in DOMAIN frames : frames[i].kind \in TwoDeep})
       /\ spine[1] = ser.root /\ spine[2] = ser.root
       /\ \A i \in 2..Len(spine) - 1 : Holds(spine[i], spine[i + 1])

(* to_js fails only for a key that is not a string, or has a NUL in it.    *)
FailsOnlyForKeys ==
  ser.status \in {"error", "failed"} =>
    tokens[Len(tokens)].kind = "other_key"
      \/ \E i \in DOMAIN tokens : tokens[i] = Token("key", NulText)
=============================================================================
