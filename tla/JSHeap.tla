------------------------------- MODULE JSHeap -------------------------------
(***************************************************************************)
(* Values of the engine as src/serde sees them, and its containers: arrays *)
(* and objects with their elements in order and a reference count, and     *)
(* proxies.  A value is a tag with data; a container is a value that names *)
(* a node of the heap.                                                     *)
(***************************************************************************)
EXTENDS Integers, Sequences, FiniteSets

CONSTANTS
  Text, NulText,      (* Two strings; NulText is Text, a NUL and more.       *)
  ProtoKey,           (* The key __proto__.                                  *)
  None                (* Nothing.                                            *)

ASSUME NoneIsNoNumber == None \notin Nat

Strings == {Text, NulText, ProtoKey}

ASSUME StringsDiffer == Text # NulText /\ ProtoKey \notin {Text, NulText} /\ None \notin Strings
ASSUME TextIsNoNumber == Strings \cap Int = {}

(* OwnedJsValue::to_string: a C string, up to the first NUL.               *)
to_string(text) == IF text = NulText THEN Text ELSE text

Value(tag, data) == [tag |-> tag, data |-> data]
Tags ==
  {"undefined", "null", "bool", "int", "float", "shortbig", "bigint", "string", "node", "throws"}
JSValue == [tag : Tags, data : Int \cup Strings \cup {None}]
Undefined == Value("undefined", None)
Null == Value("null", None)

ASSUME NoneIsNoValue == None \notin JSValue

Ref(n) == Value("node", n)

IsNode(v) == v.tag = "node"
Node(kind) == [kind |-> kind, entries |-> <<>>, proto |-> None, refs |-> 1]
Entry(key, v) == [key |-> key, value |-> v]

is_array(heap, v) == IsNode(v) /\ heap[v.data].kind = "array"
is_object(heap, v) == IsNode(v)
is_proxy(heap, v) == IsNode(v) /\ heap[v.data].kind = "proxy"

(* JS_DupValue and JS_FreeValue on the count of a container.               *)
AddRefs(heap, v, k) == IF IsNode(v) THEN [heap EXCEPT ![v.data].refs = @ + k] ELSE heap
Dup(heap, v) == AddRefs(heap, v, 1)
Free(heap, v) == AddRefs(heap, v, -1)

(* JS_SetPropertyInt64 at the length of an array.                          *)
PushElement(heap, n, v) == [heap EXCEPT ![n].entries = Append(@, Entry(None, v))]

(* JS_SetPropertyStr on an ordinary object.  __proto__ is a setter: a      *)
(* container becomes the prototype, other values are dropped.              *)
SetMember(heap, n, key, v) ==
  IF key = ProtoKey
    THEN IF IsNode(v) THEN [heap EXCEPT ![n].proto = v.data] ELSE heap
    ELSE [heap EXCEPT ![n].entries = Append(@, Entry(key, v))]

(* The references containers hold on node n.                               *)
HeldInHeap(heap, n) ==
  Cardinality(UNION {{<<m, i>> : i \in {j \in DOMAIN heap[m].entries :
                                        heap[m].entries[j].value = Ref(n)}} : m \in DOMAIN heap})
    + Cardinality({m \in DOMAIN heap : heap[m].proto = n})

(* get_proxy_target(true): what a chain of proxies leads to.  The target   *)
(* of a proxy is its only entry.                                           *)
ProxyTarget(heap, v) ==
  LET target[n \in DOMAIN heap] ==
        IF heap[n].kind = "proxy" THEN target[heap[n].entries[1].value.data] ELSE Ref(n)
  IN IF is_proxy(heap, v) THEN target[v.data] ELSE v
=============================================================================
