------------------------ MODULE RegisterVMRefinement ------------------------
(***************************************************************************)
(* The compiled code on the register VM does what the stack bytecode       *)
(* means: the slot at height h of the operand stack is register h          *)
(* (CHANGES.md, 2.B), and the registers at and above the simulated height  *)
(* are scratch.  A bytecode instruction is one step of the stack machine   *)
(* when the last instruction of its expansion runs.                        *)
(***************************************************************************)
EXTENDS RegisterVM

Mapped(p) == pc_to_inst_idx[p] # None

(* stack_height when the first pass reached an offset of the code: what    *)
(* the instructions before it, those with an index, have added.            *)
Heights(code, index) ==
  LET height[p \in 0 .. Len(code)] ==
        IF p = 0 THEN 0
        ELSE height[p-1] + IF index[p-1] # None THEN StackEffect(code[p]) ELSE 0
  IN  height
HeightAt == Heights(bytecode, pc_to_inst_idx)

(* The bytecode instruction whose expansion is running.                    *)
SourcePc ==
  IF result # "ok" THEN 0
  ELSE CHOOSE p \in 0 .. Len(bytecode) :
         /\ Mapped(p) /\ pc_to_inst_idx[p] <= vpc
         /\ \A q \in 0 .. Len(bytecode) : Mapped(q) /\ pc_to_inst_idx[q] <= vpc => q <= p

SourceStack == [h \in 1 .. HeightAt[SourcePc] |-> regs[h - 1]]

Machine == INSTANCE StackMachine WITH
  spc <- SourcePc, stack <- SourceStack, locals <- var_buf, outcome <- vm

(* The registers an expansion uses above the height it starts at.          *)
Scratch(cell) ==
  CASE cell.op \in {"inc_loc", "dec_loc", "get_loc0_loc1"} -> 2
    [] cell.op = "add_loc"                                 -> 1
    [] OTHER                                               -> 0

(* No slot and no scratch register is numbered beyond the last register.   *)
FitsRegisters ==
  \A p \in 0 .. Len(bytecode) :
    Mapped(p) =>
      HeightAt[p] + (IF p < Len(bytecode) THEN Scratch(bytecode[p + 1]) ELSE 0) <= U8

-----------------------------------------------------------------------------
(* Up to the very last register every step of the VM is a step of the      *)
(* stack machine or invisible to it, and the VM gives up only at an        *)
(* instruction that has operands it may give up on.  Only a function that  *)
(* needs more registers than there are can see another slot's value.       *)
ImplementsStackMachine ==
  /\ Machine!Start
  /\ [][FitsRegisters => Machine!Step \/ Machine!HandOver]_(Machine!machine_vars)

(* What code must be for that: numbers that fit the fields of a register   *)
(* instruction, the same height of the stack along every path to an        *)
(* instruction, which the linear pass does not see to (TernaryVM), no      *)
(* operation of two ints whose result is -0, which the VM has as the int 0 *)
(* or, for MinInt32 % -1, as NaN (ModBytecodes), and no comparison of two  *)
(* heap values of one content, not the same pointer (EqualBytecodes).      *)
JumpsKeepHeight ==
  \A p \in 0 .. Len(bytecode) - 1 :
    (Mapped(p) /\ bytecode[p + 1].op \in BranchOpcodes \cup {"goto"}) =>
      LET target == JumpTarget(p, bytecode[p + 1])
      IN  /\ target \in 0 .. Len(bytecode)
          /\ HeightAt[target] = HeightAt[p] + StackEffect(bytecode[p + 1])
NegativeZeroDue(op, x, y) == op \in ArithOps /\ BothInt(x, y) /\ F64Op(op, x, y) = NegZero
EqualApart(op, x, y) == op = "STRICT_EQ" /\ x # y /\ SameContent(x, y) /\ ~BothNumbers(x, y)

InScope ==
  /\ NumLocals <= U8
  /\ DOMAIN cpool \subseteq 0 .. U16 - 1
  /\ result = "ok" => Len(reg_instructions) < U16 /\ JumpsKeepHeight
  /\ (AtInstruction /\ InRange(Inst) /\ Inst.op \in BinaryOps) =>
       /\ ~NegativeZeroDue(Inst.op, regs[Inst.src1], regs[Inst.src2])
       /\ ~EqualApart(Inst.op, regs[Inst.src1], regs[Inst.src2])

(* The index panic, which would unwind into C, is out of reach of every    *)
(* function whose simulated stack fits the registers.                      *)
PanicsOnlyBeyondRegisters == vm.kind = "panicked" => ~FitsRegisters
=============================================================================
