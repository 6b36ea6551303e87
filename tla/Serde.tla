------------------------------- MODULE Serde -------------------------------
(***************************************************************************)
(* to_js and from_js of src/serde together.  Either a Rust value is        *)
(* serialized and then deserialized as its own type, or a value that a     *)
(* script made, cycles, proxies, holes and throwing getters included, is   *)
(* deserialized as a type that takes any value.                            *)
(***************************************************************************)
EXTENDS Deserializer

CONSTANT Graphs       (* The heaps scripts made: sequences of containers.    *)

(* Nodes is a set of containers v may be one of.                           *)
ValueIn(v, nodes) ==
  \/ v.tag = "int" /\ v.data \in MinI32..MaxI32
  \/ v.tag \in {"float", "bigint"} /\ v.data \in MinI64..MaxU64
  \/ v.tag = "string" /\ v.data \in Strings
  \/ v.tag \in {"undefined", "null", "throws"} /\ v.data = None
  \/ v.tag = "node" /\ v.data \in nodes

(* They hold values of the engine, members have names, and a proxy is made *)
(* of a container there was before.                                        *)
ASSUME GraphsAssumption ==
  \A graph \in Graphs :
    /\ graph # <<>>
    /\ graph \in Seq([kind : {"array", "object", "proxy"},
                      entries : Seq([key : Strings \cup {None}, value : JSValue]),
                      proto : Nat \cup {None}, refs : Int])
    /\ \A n \in DOMAIN graph :
         /\ graph[n].proto \in DOMAIN graph \cup {None}
         /\ \A i \in DOMAIN graph[n].entries :
              /\ ValueIn(graph[n].entries[i].value, DOMAIN graph)
              /\ graph[n].kind = "object" => graph[n].entries[i].key \in Strings
         /\ graph[n].kind = "proxy" => graph[n].entries # <<>> /\ IsNode(graph[n].entries[1].value)
    /\ \E age \in [DOMAIN graph -> 1..Len(graph)] :
         \A n \in DOMAIN graph :
           graph[n].kind = "proxy" => age[graph[n].entries[1].value.data] < age[n]

Counted(graph) ==
  [n \in DOMAIN graph |->
     [graph[n] EXCEPT !.refs = HeldInHeap(graph, n) + IF n = 1 THEN 1 ELSE 0]]

Init ==
  /\ \/ SerInit
     \/ \E graph \in Graphs :
          /\ ser = [NewSerializer EXCEPT !.heap = Counted(graph), !.root = Ref(1),
                                         !.status = "done"]
          /\ tokens = <<>> /\ frames = <<>>
  /\ de = Ends(NewDeserializer(Undefined), "none")

FromJs ==
  /\ ser.status = "done" /\ de.status = "none"
  /\ de' = NewDeserializer(ser.root)
  /\ UNCHANGED serVars

Next == (Serialize /\ UNCHANGED de) \/ FromJs \/ Deserialize

(* from_js runs to its end in the thread of its caller.                    *)
Spec == Init /\ [][Next]_vars /\ WF_vars(Deserialize)

-----------------------------------------------------------------------------
(* Properties.                                                             *)

ValueOK(v) == ValueIn(v, DOMAIN heap)

(* Every value the engine holds is one it can hold, integers in the range  *)
(* of its small integers, and the two stacks name containers there are.    *)
SerdeTypeOK ==
  /\ \A n \in DOMAIN heap :
       /\ heap[n].kind \in {"array", "object", "proxy"} /\ heap[n].refs \in Nat
       /\ \A i \in DOMAIN heap[n].entries : ValueOK(heap[n].entries[i].value)
       /\ heap[n].proto \in DOMAIN heap \cup {None}
  /\ ValueOK(ser.root) /\ ValueOK(de.current)
  /\ ser.current # None => ValueOK(ser.current)
  /\ \A i \in DOMAIN ser.paths : IsNode(ser.paths[i]) /\ ValueOK(ser.paths[i])
  /\ ser.current_key \in Strings \cup {None} /\ ser.current_is_key \in BOOLEAN
  /\ \A i \in DOMAIN de.paths : de.paths[i].node \in DOMAIN heap /\ de.paths[i].index \in Nat
  /\ Len(de.paths) >= Len(de.open)

HasToken(P(_)) == \E i \in DOMAIN tokens : P(i)
IsInteger(i) == tokens[i].kind \in Integer

(* The value at token i is written as null, through Some and newtypes.     *)
WrittenAsNull(i) ==
  \E j \in i..Len(tokens) :
    tokens[j].kind \in {"none", "unit"} /\ \A k \in i..j - 1 : tokens[k].kind \in Wrappers

(* A value that to_js took and from_js gives back is the same value, save  *)
(* where the two do not agree: an i64 below the range of i32 loses its high*)
(* bits, a string ends at its first NUL, Some of a value written as null   *)
(* is read as None, and a member called __proto__ is not a member.         *)
ChangesAreKnown ==
  (Started /\ de.status = "changed") =>
    \/ HasToken(LAMBDA i : tokens[i].kind = "i64" /\ tokens[i].data < MinI32)
    \/ HasToken(LAMBDA i : tokens[i] = Token("str", NulText))
    \/ HasToken(LAMBDA i : tokens[i].kind = "some" /\ WrittenAsNull(i))
    \/ HasToken(LAMBDA i : tokens[i] = Token("key", ProtoKey))

(* to_js fails only for a key that is not a string, or has a NUL in it.    *)
(* from_js refuses what to_js wrote only for integers that to_js writes as *)
(* floats or as integers too large, and for bytes; it meets no container   *)
(* of the wrong kind, no cycle and no exception.                           *)
RefusalsAreKnown ==
  /\ FailsOnlyForKeys
  /\ (Started /\ ~Reading(de)) =>
       CASE de.status = "invalid type" ->
              HasToken(LAMBDA i : IsInteger(i) /\ tokens[i].data > MaxI32 /\ tokens[i].data <= MaxSafe)
         [] de.status = "bigint overflow" ->
              HasToken(LAMBDA i : IsInteger(i) /\ tokens[i].data > MaxI64)
         [] de.status = "panic" -> HasToken(LAMBDA i : tokens[i].kind = "bytes")
         [] OTHER -> de.status \in {"none", "same", "changed"}

(* What from_js reads of container n: an array up to its first undefined   *)
(* element, through proxies.                                               *)
Readable(n) ==
  LET entries == heap[n].entries IN
  {ProxyTarget(heap, entries[i].value).data :
     i \in {j \in DOMAIN entries :
              IsNode(entries[j].value) /\
              (heap[n].kind = "array" => \A k \in 1..j : entries[k].value # Undefined)}}

Reach(S) == LET R[k \in 0..Len(heap)] ==
                  IF k = 0 THEN S ELSE R[k - 1] \cup UNION {Readable(n) : n \in R[k - 1]}
            IN R[Len(heap)]

(* from_js reports a circular reference exactly when it would read a       *)
(* container inside itself: a container that is merely reached twice is    *)
(* read twice, and no cycle is walked for ever.                            *)
CircularIffCycle ==
  LET start == IF IsNode(ser.root) THEN {ProxyTarget(heap, ser.root).data} ELSE {}
      cyclic == \E n \in Reach(start) : n \in Reach(Readable(n))
  IN /\ de.status = "circular" => cyclic
     /\ de.status = "same" => ~cyclic

(* from_js ends, whatever value it is given.                               *)
FromJsEnds == (de.status = "reading") ~> (de.status # "reading")
=============================================================================
