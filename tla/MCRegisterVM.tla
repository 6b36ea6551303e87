---------------------------- MODULE MCRegisterVM ----------------------------
(***************************************************************************)
(* The sample functions on the register VM, and the functions on which it  *)
(* departs from the stack machine.                                         *)
(***************************************************************************)
EXTENDS RegisterVMRefinement, SampleFunctions

(* Operand stacks around the sixteen registers.                            *)
DeepStacks ==
  LET pushes(n) == [k \in 1 .. n |-> Push(k % 8)]
      uses == {Op("add"), Op("drop"), Op("dup"), Op("lt"), Put(1), Set(1), Inc(0), AddTo(0),
               Op("get_loc0_loc1")}
  IN  {<<Push(1), Put(0)>> \o pushes(n) \o u \o <<Op("return")>> :
         n \in U8 - 4 .. U8 + 2, u \in Sequences(uses, 0 .. 2)}

(* Heap values in registers and locals: duplicated, dropped, stored away,  *)
(* overwritten and compared.  Objects 0 and 1 have the same content.       *)
MCPool == [i \in {0, 1, 2} |-> IF i = 0 THEN MkFloat(3) ELSE MkRef(i - 1)]
HeapUses == {PushConstant8(1), Op("dup"), Op("drop"), Set(0), Set(1), Put(0), Get(0), Get(1), Push(1),
             Op("add"), Op("lt"), Op("strict_eq"), Op("return"), Op("return_undef")}
HeapFunctions == {p \in Sequences(HeapUses, 1 .. 4) : WellFormed(p)}

MCBytecodes == {Assemble(p) : p \in StraightLine \cup Structured \cup DeepStacks \cup HeapFunctions}

-----------------------------------------------------------------------------
(***************************************************************************)
(* Functions on which the VM departs from the stack machine, or its        *)
(* references from their count (README, section 3).                        *)
(***************************************************************************)
(* Functions that drop or compare a heap value.                            *)
DropBytecodes == {Assemble(<<PushConstant8(1), Op("drop")>> \o p \o <<Op("return_undef")>>) :
                    p \in Sequences({Push(1), Op("drop"), PushConstant8(1)}, 0 .. 2)}
CompareBytecodes == {Assemble(<<PushConstant8(1), p, Op("strict_eq"), Op("return")>>) :
                       p \in {Push(1), PushConstant8(1)}}

(* Two objects of one content.                                             *)
EqualBytecodes ==
  {Assemble(<<PushConstant8(a), PushConstant8(b), Op("strict_eq"), Op("return")>>) :
     a \in {1, 2}, b \in {1, 2}}

(* More locals than a u8 can number (NumLocals = U8 + 1).                  *)
ManyLocalsBytecodes ==
  {Assemble(<<Push(k), Put(k), Push(1), Put(0), Get(k), Op("return")>>) : k \in U8 - 1 .. U8}

(* A value-producing conditional, `c ? a : b`, stored by one instruction.  *)
TernaryBytecodes ==
  {Assemble(IfElse(<<Push(a), Push(2), Op("lt")>>, <<Push(6)>>, <<Push(7)>>)
              \o <<Put(0), Get(0), Op("return")>>) : a \in 0 .. 3}

(* a % b on small ints of both signs.                                      *)
ModBytecodes ==
  {Assemble(<<Push(a), Push(b), Op("mod"), Op("return")>>) :
     a \in {MinInt32, -4, 3}, b \in {-1, 2}}
=============================================================================
