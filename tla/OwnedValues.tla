---------------------------- MODULE OwnedValues ----------------------------
(***************************************************************************)
(* OwnedJsValue and its containers: src/value/value.rs, object.rs and      *)
(* array.rs.  Every handle of the host owns one reference of the container *)
(* it names; the engine frees a container when its count is zero.  What    *)
(* has no count (numbers) or is counted in the same way (strings) is left  *)
(* out.                                                                    *)
(***************************************************************************)
EXTENDS JSHeap

CONSTANTS
  Handles,            (* Rust variables.                                     *)
  MaxNodes,           (* Bound: containers ever made.                        *)
  MaxEntries,         (* Bound: entries of a container.                      *)
  MaxTables,          (* Bound: property iterators ever made.                *)
  MaxRaw,             (* Bound: raw JSValues to one container.               *)
  MaxAtOnce           (* Bound: iterators, frozen containers and containers  *)
                      (* with raw JSValues that there are together.          *)

ASSUME OwnedBounds == {MaxNodes, MaxEntries, MaxTables, MaxRaw, MaxAtOnce} \subseteq Nat
ASSUME FiniteHandles == IsFiniteSet(Handles)

VARIABLES
  heap,               (* The engine's containers, freed ones included.       *)
  host,               (* What each Rust variable owns.                       *)
  raws,               (* Raw JSValues that own a reference, by container.    *)
  tables,             (* The property tables of iterators.                   *)
  frozen,             (* Containers a script froze: assignments are refused. *)
  over                (* History: references given back once too often.      *)

ownVars == <<heap, host, raws, tables, frozen, over>>

Slot(kind, v, table, index) == [kind |-> kind, value |-> v, table |-> table, index |-> index]
Empty == Slot("none", Undefined, None, 0)
Owned(v) == Slot("value", v, None, 0)
Owns(h, kind) == host[h].kind = kind
NodeOf(h) == host[h].value.data
IsFree(h) == Owns(h, "none")

Alive(n) == heap[n].kind # "freed"

AtOnce == Len(tables) + Cardinality(frozen) + Cardinality({n \in DOMAIN raws : raws[n] > 0})

-----------------------------------------------------------------------------
(* JS_FreeValue: a container whose count is zero goes, and gives back the  *)
(* references it held.                                                     *)

Dead(h) == {n \in DOMAIN h : h[n].kind # "freed" /\ h[n].refs <= 0}

Collect(h, n) ==
  [m \in DOMAIN h |->
     IF m = n THEN [h[n] EXCEPT !.kind = "freed", !.entries = <<>>]
     ELSE [h[m] EXCEPT !.refs = @ - Cardinality({i \in DOMAIN h[n].entries :
                                                   h[n].entries[i].value = Ref(m)})]]

FreeValue(h, v) ==
  LET Sweep[k \in 0..Len(h)] ==
        IF k = 0 THEN Free(h, v)
        ELSE LET g == Sweep[k - 1] IN
             IF Dead(g) = {} THEN g ELSE Collect(g, CHOOSE n \in Dead(g) : TRUE)
  IN Sweep[Len(h)]

(* Who holds a reference of container n.                                   *)
HeldByHandles(n) == Cardinality({h \in Handles : host[h].value = Ref(n)})
Holders(n) == HeldByHandles(n) + raws[n] + HeldInHeap(heap, n)

Users(t) == Cardinality({h \in Handles : Owns(h, "iter") /\ host[h].table = t})

(* Nothing is claimed of a program after a freed container or table was    *)
(* used: it stops here.                                                    *)
Sound ==
  /\ \A n \in DOMAIN heap : ~Alive(n) => Holders(n) = 0 /\ heap[n].refs = 0
  /\ \A t \in DOMAIN tables : tables[t].frees = (IF Users(t) > 0 THEN 0 ELSE 1)

-----------------------------------------------------------------------------
(* Handles: new, own, clone, drop, extract, replace.                       *)

Create(h, kind) ==
  /\ IsFree(h) /\ Len(heap) < MaxNodes
  /\ heap' = Append(heap, Node(kind))
  /\ host' = [host EXCEPT ![h] = Owned(Ref(Len(heap) + 1))]
  /\ UNCHANGED <<raws, tables, frozen, over>>

(* clone and own.                                                          *)
Clone(h, g) ==
  /\ Owns(h, "value") /\ IsFree(g)
  /\ heap' = Dup(heap, host[h].value)
  /\ host' = [host EXCEPT ![g] = host[h]]
  /\ UNCHANGED <<raws, tables, frozen, over>>

Drop(h) ==
  /\ Owns(h, "value")
  /\ heap' = FreeValue(heap, host[h].value)
  /\ host' = [host EXCEPT ![h] = Empty]
  /\ UNCHANGED <<raws, tables, frozen, over>>

Extract(h) ==
  /\ Owns(h, "value") /\ raws[NodeOf(h)] < MaxRaw /\ AtOnce < MaxAtOnce
  /\ raws' = [raws EXCEPT ![NodeOf(h)] = @ + 1]
  /\ host' = [host EXCEPT ![h] = Empty]
  /\ UNCHANGED <<heap, tables, frozen, over>>

(* OwnedJsValue::new.                                                      *)
Wrap(n, h) ==
  /\ raws[n] > 0 /\ IsFree(h)
  /\ raws' = [raws EXCEPT ![n] = @ - 1]
  /\ host' = [host EXCEPT ![h] = Owned(Ref(n))]
  /\ UNCHANGED <<heap, tables, frozen, over>>

Replace(h, n) ==
  /\ Owns(h, "value") /\ raws[n] > 0
  /\ heap' = FreeValue(heap, host[h].value)
  /\ raws' = [raws EXCEPT ![n] = @ - 1]
  /\ host' = [host EXCEPT ![h] = Owned(Ref(n))]
  /\ UNCHANGED <<tables, frozen, over>>

-----------------------------------------------------------------------------
(* Containers.  An entry of an array has no key.                           *)

NameOf(n, i) == IF heap[n].kind = "array" THEN i ELSE heap[n].entries[i].key
Positions(n, name) == {i \in DOMAIN heap[n].entries : NameOf(n, i) = name}

(* JS_SetPropertyStr, JS_SetPropertyUint32, JS_SetPropertyInt64: position  *)
(* i of container n takes the reference, what was there is freed.          *)
Put(n, i, key, v) ==
  LET entries == heap[n].entries IN
  IF i \in DOMAIN entries
    THEN FreeValue([heap EXCEPT ![n].entries[i].value = v], entries[i].value)
    ELSE [heap EXCEPT ![n].entries = Append(@, Entry(key, v))]

(* The engine frees a value it refuses, and so does its OwnedJsValue.      *)
Refused(h, v) == FreeValue(FreeValue(h, v), v)

Assign(n, i, key, g) ==
  LET v == host[g].value IN
  /\ i \in DOMAIN heap[n].entries \/ Len(heap[n].entries) < MaxEntries
  /\ IF n \in frozen
       THEN heap' = Refused(heap, v) /\ over' = [over EXCEPT ![v.data] = @ + 1]
       ELSE heap' = Put(n, i, key, v) /\ UNCHANGED over
  /\ host' = [host EXCEPT ![g] = Empty]
  /\ UNCHANGED <<raws, tables, frozen>>

(* set_property.  A name with a NUL in it is refused before the engine is  *)
(* asked.                                                                  *)
SetProperty(h, key, g) ==
  /\ h # g /\ Owns(h, "value") /\ Owns(g, "value") /\ heap[NodeOf(h)].kind = "object"
  /\ IF key = NulText
       THEN /\ heap' = FreeValue(heap, host[g].value)
            /\ host' = [host EXCEPT ![g] = Empty]
            /\ UNCHANGED <<raws, tables, frozen, over>>
       ELSE Assign(NodeOf(h), IF Positions(NodeOf(h), key) = {} THEN Len(heap[NodeOf(h)].entries) + 1
                              ELSE CHOOSE i \in Positions(NodeOf(h), key) : TRUE, key, g)

(* set_index, and push, which sets the index after the last.               *)
SetIndex(h, i, g) ==
  /\ h # g /\ Owns(h, "value") /\ Owns(g, "value") /\ heap[NodeOf(h)].kind = "array"
  /\ i <= Len(heap[NodeOf(h)].entries) + 1
  /\ Assign(NodeOf(h), i, None, g)

Push(h, g) == Owns(h, "value") /\ SetIndex(h, Len(heap[NodeOf(h)].entries) + 1, g)

(* property, get_index: the engine returns a reference of its own.         *)
Get(h, i, g) ==
  /\ Owns(h, "value") /\ IsFree(g) /\ i \in DOMAIN heap[NodeOf(h)].entries
  /\ LET v == heap[NodeOf(h)].entries[i].value IN
     /\ heap' = Dup(heap, v)
     /\ host' = [host EXCEPT ![g] = Owned(v)]
  /\ UNCHANGED <<raws, tables, frozen, over>>

(* raw_elements: a reference for each element, that the caller has to free.*)
RawElements(h) ==
  /\ Owns(h, "value") /\ heap[NodeOf(h)].kind = "array" /\ AtOnce < MaxAtOnce
  /\ LET entries == heap[NodeOf(h)].entries
         Times(n) == Cardinality({i \in DOMAIN entries : entries[i].value = Ref(n)})
     IN /\ \A n \in DOMAIN heap : raws[n] + Times(n) <= MaxRaw
        /\ raws' = [n \in DOMAIN raws |-> IF n \in DOMAIN heap THEN raws[n] + Times(n) ELSE raws[n]]
        /\ heap' = [n \in DOMAIN heap |-> [heap[n] EXCEPT !.refs = @ + Times(n)]]
  /\ UNCHANGED <<host, tables, frozen, over>>

-----------------------------------------------------------------------------
(* Property iterators.                                                     *)

Iterates(h) == Owns(h, "iter")

(* properties_iter: the iterator has a handle of its own on the object,    *)
(* and a table of the names there are now.                                 *)
PropertiesIter(h, g) ==
  /\ Owns(h, "value") /\ IsFree(g) /\ Len(tables) < MaxTables /\ AtOnce < MaxAtOnce
  /\ LET n == NodeOf(h)
     IN tables' = Append(tables, [names |-> [i \in DOMAIN heap[n].entries |-> NameOf(n, i)],
                                  frees |-> 0, clones |-> 0])
  /\ heap' = Dup(heap, host[h].value)
  /\ host' = [host EXCEPT ![g] = Slot("iter", host[h].value, Len(tables) + 1, 0)]
  /\ UNCHANGED <<raws, frozen, over>>

(* derive(Clone): the table is shared.                                     *)
IterClone(h, g) ==
  /\ Iterates(h) /\ IsFree(g)
  /\ heap' = Dup(heap, host[h].value)
  /\ host' = [host EXCEPT ![g] = host[h]]
  /\ tables' = [tables EXCEPT ![host[h].table].clones = @ + 1]
  /\ UNCHANGED <<raws, frozen, over>>

(* Mutant: past the last name.                                             *)
HasNext_Late(h) == host[h].index \div 2 <= Len(tables[host[h].table].names)

HasNext(h) == host[h].index \div 2 < Len(tables[host[h].table].names)

(* next: a name, then the value that has it now, if it still has one.      *)
IterNext(h, g) ==
  LET names == tables[host[h].table].names
      place == host[h].index \div 2 + 1
      there == Positions(NodeOf(h), names[place])
  IN /\ Iterates(h) /\ IsFree(g) /\ HasNext(h)
     /\ IF host[h].index % 2 = 1 /\ there # {}
          THEN LET v == heap[NodeOf(h)].entries[CHOOSE i \in there : TRUE].value
               IN /\ heap' = Dup(heap, v)
                  /\ host' = [host EXCEPT ![h].index = @ + 1, ![g] = Owned(v)]
          ELSE host' = [host EXCEPT ![h].index = @ + 1] /\ UNCHANGED heap
     /\ UNCHANGED <<raws, tables, frozen, over>>

(* Mutant: an iterator that came to its end has nothing more to free.      *)
FreePropertyEnum_Unfinished(h) ==
  IF host[h].index >= 2 * Len(tables[host[h].table].names) THEN tables
  ELSE [tables EXCEPT ![host[h].table].frees = @ + 1]

FreePropertyEnum(h) == [tables EXCEPT ![host[h].table].frees = @ + 1]

IterDrop(h) ==
  /\ Iterates(h)
  /\ tables' = FreePropertyEnum(h)
  /\ heap' = FreeValue(heap, host[h].value)
  /\ host' = [host EXCEPT ![h] = Empty]
  /\ UNCHANGED <<raws, frozen, over>>

-----------------------------------------------------------------------------
(* What a script does between two calls of the host.                       *)

ScriptFreezes(n) ==
  /\ Alive(n) /\ n \notin frozen /\ AtOnce < MaxAtOnce
  /\ frozen' = frozen \cup {n}
  /\ UNCHANGED <<heap, host, raws, tables, over>>

ScriptDeletes(n, i) ==
  /\ Alive(n) /\ n \notin frozen /\ heap[n].kind = "object" /\ i \in DOMAIN heap[n].entries
  /\ LET entries == heap[n].entries
         rest == [j \in 1..Len(entries) - 1 |-> entries[IF j < i THEN j ELSE j + 1]]
     IN heap' = FreeValue([heap EXCEPT ![n].entries = rest], entries[i].value)
  /\ UNCHANGED <<host, raws, tables, frozen, over>>

-----------------------------------------------------------------------------
OwnInit ==
  /\ heap = <<>> /\ host = [h \in Handles |-> Empty] /\ raws = [n \in 1..MaxNodes |-> 0]
  /\ tables = <<>> /\ frozen = {} /\ over = [n \in 1..MaxNodes |-> 0]

OneHandle(h) ==
  \/ \E kind \in {"object", "array"} : Create(h, kind)
  \/ Drop(h) \/ Extract(h) \/ RawElements(h) \/ IterDrop(h)
  \/ \E n \in DOMAIN heap : Wrap(n, h) \/ Replace(h, n)

TwoHandles(h, g) ==
  \/ Clone(h, g) \/ Push(h, g) \/ PropertiesIter(h, g) \/ IterClone(h, g) \/ IterNext(h, g)
  \/ \E key \in {Text, NulText} : SetProperty(h, key, g)
  \/ \E i \in 1..MaxEntries : SetIndex(h, i, g) \/ Get(h, i, g)

Script ==
  \E n \in DOMAIN heap : ScriptFreezes(n) \/ \E i \in 1..MaxEntries : ScriptDeletes(n, i)

-----------------------------------------------------------------------------
(* Properties.                                                             *)

(* Every handle and every entry names a container, and no iterator is past *)
(* the last of its names.                                                  *)
OwnTypeOK ==
  /\ \A n \in DOMAIN heap :
       /\ heap[n].kind \in {"object", "array", "freed"}
       /\ \A i \in DOMAIN heap[n].entries : heap[n].entries[i].value.data \in DOMAIN heap
  /\ \A h \in Handles :
       /\ host[h].kind \in {"none", "value", "iter"}
       /\ host[h].value # Undefined => NodeOf(h) \in DOMAIN heap
       /\ Iterates(h) => host[h].index <= 2 * Len(tables[host[h].table].names)
  /\ raws \in [1..MaxNodes -> 0..MaxRaw] /\ over \in [1..MaxNodes -> Nat]
  /\ frozen \subseteq DOMAIN heap

(* A property table is freed when the last iterator over it goes, and not  *)
(* before, unless an iterator was cloned.                                  *)
TablesFreedOnce ==
  \A t \in DOMAIN tables :
    tables[t].clones = 0 => tables[t].frees = IF Users(t) > 0 THEN 0 ELSE 1
=============================================================================
