-------------------------- MODULE RegisterVMProofs --------------------------
(***************************************************************************)
(* What holds of the compiler and of the register VM for every bytecode,   *)
(* constant pool, number of registers and width.                           *)
(*                                                                         *)
(* Of compile_bytecode: the type invariant, that the expansions are laid   *)
(* out in order and that no jump leaves the code, all three from the       *)
(* inductive invariant CompilerInv; then, that jumps reach the             *)
(* instructions the bytecode names.                                        *)
(*                                                                         *)
(* Of run_register_vm on the code compile_bytecode makes: the type         *)
(* invariant, that an index panic needs more registers than there are, and *)
(* that the references balance on functions that keep their heap values    *)
(* in place.  The three rest on CodeInv, which says what the VM may count  *)
(* on in the instructions it is given, and the first two on the arithmetic *)
(* of JSValues giving values for all operands.                             *)
(***************************************************************************)
EXTENDS RegisterVMRefinement, SequenceTheorems, FiniteSetTheorems, TLAPS

(* An index recorded for an offset is that of an instruction emitted, or   *)
(* the end of the code for the offset the first pass stopped at.           *)
IndicesInCode ==
  \A p \in DOMAIN pc_to_inst_idx :
    pc_to_inst_idx[p] # None =>
      /\ p <= pc
      /\ pc_to_inst_idx[p] <= Len(reg_instructions)
      /\ p < pc => pc_to_inst_idx[p] < Len(reg_instructions)

JumpsPendingInCode ==
  \A j \in 1 .. Len(jumps_to_patch) : jumps_to_patch[j].inst_idx < Len(reg_instructions)

(* Before it is patched, a jump goes to index 0.                           *)
EveryJumpInside ==
  \A i \in 1 .. Len(reg_instructions) :
    reg_instructions[i].op \in JumpOps =>
      reg_instructions[i].src1 <= Len(reg_instructions)

CompilerInv ==
  /\ CompilerTypeOK
  /\ IndicesInCode
  /\ ExpansionsInOrder
  /\ JumpsPendingInCode
  /\ EveryJumpInside

-----------------------------------------------------------------------------
(* Arithmetic of the widths.                                               *)

(* A cast to an unsigned width is in its range and never larger than a     *)
(* natural number it is made from.                                         *)
LEMMA CastRange ==
  ASSUME NEW d \in Nat \ {0}, NEW n \in Int
  PROVE  /\ n % d \in 0 .. d - 1
         /\ n \in Nat => n % d <= n
         /\ n \div d \in Int
  OBVIOUS

(* The number of values of a u8 and of a u16 are positive.                 *)
LEMMA WidthsPositive == U8 \in Nat \ {0} /\ U16 \in Nat \ {0}
  <1>1. U8 \in Nat /\ U8 >= 2
    BY WidthAssumption
  <1>2. \A n \in Nat : n >= 2 => n * n \in Nat /\ n * n >= 1
    BY SMT
  <1> QED
    BY <1>1, <1>2 DEF U16

(* What the compiler's constructors of instructions build is a             *)
(* RegInstruction, whatever the numbers it cuts to the widths of the       *)
(* fields; a source of 0 stays 0.                                          *)
LEMMA RegType ==
  ASSUME NEW op \in RegOps, NEW dst \in Int, NEW src1 \in Int, NEW src2 \in Int
  PROVE  /\ Reg(op, dst, src1, src2) \in RegInstruction
         /\ Reg(op, dst, src1, src2).op = op
         /\ src1 = 0 => Reg(op, dst, src1, src2).src1 = 0
  BY WidthsPositive, CastRange DEF Reg, RegInstruction, AsU8, AsU16

LEMMA PushIntType ==
  ASSUME NEW dst \in Int, NEW n \in Int
  PROVE  PushInt(dst, n) \in RegInstruction /\ PushInt(dst, n).op = "PUSH_I32"
  BY WidthsPositive, CastRange
     DEF PushInt, RegInstruction, RegOps, AsU8, LowHalf, HighHalf

-----------------------------------------------------------------------------
(* The instruction at pc, while there is one, is a cell.                   *)
LEMMA CurrentCell ==
  ASSUME CompilerTypeOK, Scanning
  PROVE  /\ Len(bytecode) \in Nat /\ pc \in Nat /\ pc < Len(bytecode)
         /\ pc \in DOMAIN pc_to_inst_idx
         /\ Cell0 \in Cell
         /\ Cell0.op \in Opcodes /\ Cell0.size \in 1 .. 5 /\ Cell0.arg \in Int
  <1>1. Len(bytecode) \in Nat /\ pc \in Nat /\ pc < Len(bytecode)
    BY LenProperties DEF CompilerTypeOK, Scanning
  <1>2. Cell0 \in Cell
    <2>1. bytecode \in Seq(Cell) /\ pc + 1 \in 1 .. Len(bytecode)
      BY <1>1 DEF CompilerTypeOK
    <2> QED
      BY <2>1, ElementOfSeq DEF Cell0
  <1>3. pc \in DOMAIN pc_to_inst_idx
    BY <1>1 DEF CompilerTypeOK
  <1> QED
    BY <1>1, <1>2, <1>3 DEF Cell

(* A list of instructions the first pass may emit: not empty, and its      *)
(* jumps have no target yet.                                               *)
Emittable(instructions) ==
  /\ instructions \in Seq(RegInstruction)
  /\ instructions # <<>>
  /\ \A i \in 1 .. Len(instructions) :
       instructions[i].op \in JumpOps => instructions[i].src1 = 0

(* Emitting such a list for an instruction that is whole preserves the     *)
(* invariant, whether or not the instruction is a jump to remember.        *)
LEMMA EmitPreserves ==
  ASSUME CompilerInv, Scanning, ~OperandMissing,
         NEW instructions, Emittable(instructions),
         NEW height \in Nat,
         NEW target \in Int,
         Emit(instructions, height),
         UNCHANGED jumps_to_patch \/ Remember(target)
  PROVE  CompilerInv'
  <1> DEFINE N == Len(reg_instructions)
  <1>1. /\ reg_instructions \in Seq(RegInstruction) /\ N \in Nat
        /\ instructions \in Seq(RegInstruction) /\ Len(instructions) \in Nat \ {0}
    BY EmptySeq, LenProperties DEF CompilerInv, CompilerTypeOK, Emittable
  <1>2. /\ reg_instructions' \in Seq(RegInstruction)
        /\ Len(reg_instructions') = N + Len(instructions)
        /\ Len(reg_instructions') \in Nat
        /\ N < Len(reg_instructions')
        /\ \A i \in 1 .. N + Len(instructions) : reg_instructions'[i] =
             IF i <= N THEN reg_instructions[i] ELSE instructions[i - N]
    BY <1>1, ConcatProperties DEF Emit
  <1>3. /\ pc \in Nat /\ pc < Len(bytecode) /\ Len(bytecode) \in Nat
        /\ pc' \in Nat /\ pc < pc' /\ pc' <= Len(bytecode)
    BY CurrentCell DEF CompilerInv, Emit, OperandMissing
  <1>4. /\ DOMAIN pc_to_inst_idx = 0 .. Len(bytecode)
        /\ pc_to_inst_idx' \in [0 .. Len(bytecode) -> Nat \cup {None}]
        /\ DOMAIN pc_to_inst_idx' = 0 .. Len(bytecode)
        /\ pc_to_inst_idx'[pc] = N
        /\ \A p \in 0 .. Len(bytecode) : p # pc => pc_to_inst_idx'[p] = pc_to_inst_idx[p]
    BY <1>1, <1>3 DEF CompilerInv, CompilerTypeOK, Emit
  <1>5. /\ jumps_to_patch' \in Seq(Patch)
        /\ \A j \in 1 .. Len(jumps_to_patch') :
             jumps_to_patch'[j].inst_idx < Len(reg_instructions')
    <2>1. /\ jumps_to_patch \in Seq(Patch) /\ Len(jumps_to_patch) \in Nat
          /\ \A j \in 1 .. Len(jumps_to_patch) :
               jumps_to_patch[j] \in Patch /\ jumps_to_patch[j].inst_idx < N
      BY LenProperties, ElementOfSeq DEF CompilerInv, CompilerTypeOK, JumpsPendingInCode
    <2>2. CASE UNCHANGED jumps_to_patch
      BY <1>1, <1>2, <2>1, <2>2 DEF Patch
    <2>3. CASE Remember(target)
      <3> DEFINE jump == [inst_idx |-> N, target_pc |-> target]
      <3>1. jump \in Patch /\ jumps_to_patch' = Append(jumps_to_patch, jump)
        BY <1>1, <2>3 DEF Patch, Remember
      <3> HIDE DEF jump
      <3>2. /\ jumps_to_patch' \in Seq(Patch)
            /\ Len(jumps_to_patch') = Len(jumps_to_patch) + 1
            /\ \A j \in 1 .. Len(jumps_to_patch) : jumps_to_patch'[j] = jumps_to_patch[j]
            /\ jumps_to_patch'[Len(jumps_to_patch) + 1] = jump
        BY <2>1, <3>1, AppendProperties
      <3>3. jump.inst_idx = N
        BY DEF jump
      <3>4. ASSUME NEW j \in 1 .. Len(jumps_to_patch')
            PROVE  jumps_to_patch'[j].inst_idx < Len(reg_instructions')
        <4>1. CASE j \in 1 .. Len(jumps_to_patch)
          <5>1. jumps_to_patch'[j] = jumps_to_patch[j]
            BY <3>2, <4>1
          <5>2. jumps_to_patch[j].inst_idx < N /\ jumps_to_patch[j].inst_idx \in Nat
            BY <2>1, <4>1 DEF Patch
          <5> QED
            BY <1>1, <1>2, <5>1, <5>2
        <4>2. CASE j = Len(jumps_to_patch) + 1
          BY <1>1, <1>2, <3>2, <3>3, <4>2
        <4> QED
          BY <2>1, <3>2, <4>1, <4>2
      <3> QED
        BY <3>2, <3>4
    <2> QED
      BY <2>2, <2>3
  <1>6. CompilerTypeOK'
    BY <1>2, <1>3, <1>4, <1>5 DEF CompilerInv, CompilerTypeOK, Emit
  <1>7. IndicesInCode'
    <2> SUFFICES ASSUME NEW p \in 0 .. Len(bytecode), pc_to_inst_idx'[p] # None
                 PROVE  /\ p <= pc'
                        /\ pc_to_inst_idx'[p] <= Len(reg_instructions')
                        /\ p < pc' => pc_to_inst_idx'[p] < Len(reg_instructions')
      BY <1>4 DEF IndicesInCode
    <2>1. CASE p = pc
      BY <1>1, <1>2, <1>3, <1>4, <2>1
    <2>2. CASE p # pc
      <3>1. /\ p < pc /\ pc_to_inst_idx'[p] = pc_to_inst_idx[p]
            /\ pc_to_inst_idx[p] < N /\ pc_to_inst_idx[p] \in Nat
        BY <1>3, <1>4, <2>2 DEF CompilerInv, CompilerTypeOK, IndicesInCode
      <3> QED
        BY <1>1, <1>2, <1>3, <3>1
    <2> QED
      BY <2>1, <2>2
  <1>8. ExpansionsInOrder'
    <2> SUFFICES ASSUME NEW p \in 0 .. Len(bytecode), NEW q \in 0 .. Len(bytecode),
                        p < q, pc_to_inst_idx'[p] # None, pc_to_inst_idx'[q] # None
                 PROVE  pc_to_inst_idx'[p] < pc_to_inst_idx'[q]
      BY <1>4 DEF ExpansionsInOrder
    <2>1. q <= pc
      BY <1>3, <1>4 DEF CompilerInv, IndicesInCode
    <2>2. p # pc /\ p < pc /\ pc_to_inst_idx'[p] = pc_to_inst_idx[p] /\ pc_to_inst_idx[p] < N
      BY <1>3, <1>4, <2>1 DEF CompilerInv, IndicesInCode
    <2>3. CASE q = pc
      BY <1>4, <2>2, <2>3
    <2>4. CASE q # pc
      BY <1>4, <2>2, <2>4 DEF CompilerInv, ExpansionsInOrder
    <2> QED
      BY <2>3, <2>4
  <1>9. JumpsPendingInCode'
    BY <1>5 DEF JumpsPendingInCode
  <1>10. EveryJumpInside'
    <2> SUFFICES ASSUME NEW i \in 1 .. Len(reg_instructions'),
                        reg_instructions'[i].op \in JumpOps
                 PROVE  reg_instructions'[i].src1 <= Len(reg_instructions')
      BY DEF EveryJumpInside
    <2>1. CASE i <= N
      <3>1. i \in 1 .. N /\ reg_instructions'[i] = reg_instructions[i]
        BY <1>1, <1>2, <2>1
      <3>2. reg_instructions[i].src1 <= N /\ reg_instructions[i] \in RegInstruction
        BY <1>1, <3>1, ElementOfSeq DEF CompilerInv, EveryJumpInside
      <3>3. reg_instructions[i].src1 \in Int
        BY <3>2, WidthsPositive DEF RegInstruction
      <3> QED
        BY <1>1, <1>2, <3>1, <3>2, <3>3
    <2>2. CASE ~(i <= N)
      <3>1. /\ i - N \in 1 .. Len(instructions)
            /\ reg_instructions'[i] = instructions[i - N]
        BY <1>1, <1>2, <2>2
      <3>2. instructions[i - N].src1 = 0
        BY <3>1 DEF Emittable
      <3> QED
        BY <1>2, <3>1, <3>2
    <2> QED
      BY <2>1, <2>2
  <1> QED
    BY <1>6, <1>7, <1>8, <1>9, <1>10 DEF CompilerInv

-----------------------------------------------------------------------------
(* Lists of one to four instructions.                                      *)
LEMMA EmittableOne ==
  ASSUME NEW a \in RegInstruction, a.op \in JumpOps => a.src1 = 0
  PROVE  Emittable(<<a>>)
  BY DEF Emittable

LEMMA EmittableTwo ==
  ASSUME NEW a \in RegInstruction, a.op \notin JumpOps,
         NEW b \in RegInstruction, b.op \notin JumpOps
  PROVE  Emittable(<<a, b>>)
  BY DEF Emittable

LEMMA EmittableThree ==
  ASSUME NEW a \in RegInstruction, a.op \notin JumpOps,
         NEW b \in RegInstruction, b.op \notin JumpOps,
         NEW c \in RegInstruction, c.op \notin JumpOps
  PROVE  Emittable(<<a, b, c>>)
  BY DEF Emittable

LEMMA EmittableFour ==
  ASSUME NEW a \in RegInstruction, a.op \notin JumpOps,
         NEW b \in RegInstruction, b.op \notin JumpOps,
         NEW c \in RegInstruction, c.op \notin JumpOps,
         NEW d \in RegInstruction, d.op \notin JumpOps
  PROVE  Emittable(<<a, b, c, d>>)
  BY DEF Emittable

(* Most instructions are translated to a single one.                       *)
LEMMA EmittableReg ==
  ASSUME NEW op \in RegOps, NEW dst \in Int, NEW src1 \in Int, NEW src2 \in Int,
         op \in JumpOps => src1 = 0
  PROVE  Emittable(<<Reg(op, dst, src1, src2)>>)
  BY RegType, EmittableOne

(* Every instruction of the first pass preserves the invariant.            *)
LEMMA FirstPassPreserves ==
  ASSUME CompilerInv,
         \/ PushI32 \/ PushConst \/ PushPrimitive \/ Drop \/ Dup
         \/ GetLoc \/ GetLoc0Loc1 \/ PutLoc \/ SetLoc \/ AddLoc \/ IncDecLoc
         \/ BinaryOp \/ ReturnTop \/ ReturnUndef \/ Goto \/ IfJump
  PROVE  CompilerInv'
  <1> DEFINE h == stack_height
  <1>1. Scanning /\ ~OperandMissing /\ ~Underflow
    BY DEF PushI32, PushConst, PushPrimitive, Drop, Dup, GetLoc, GetLoc0Loc1, PutLoc,
           SetLoc, AddLoc, IncDecLoc, BinaryOp, ReturnTop, ReturnUndef, Goto, IfJump, Decode
  <1>2. /\ h \in Nat /\ h + 1 \in Int /\ h - 1 \in Int /\ h - 2 \in Int
        /\ Cell0.arg \in Int
        /\ JumpTarget(pc, Cell0) \in Int
        /\ Cell0.op \in NeedsOne => h >= 1
        /\ Cell0.op \in NeedsTwo => h >= 2
    BY <1>1, CurrentCell DEF CompilerInv, CompilerTypeOK, Underflow, JumpTarget
  <1>0. {"PUSH_I32", "PUSH_CONST", "DROP", "MOV", "LOAD_LOC", "STORE_LOC", "SET_LOC", "ADD",
          "RETURN", "RETURN_UNDEF"} \subseteq RegOps \ JumpOps
    BY DEF RegOps, JumpOps, BinaryOps, ArithOps
  <1>3. PushI32 => CompilerInv'
    <2> SUFFICES ASSUME PushI32 PROVE CompilerInv'
      OBVIOUS
    <2>1. Emittable(<<PushInt(h, Cell0.arg)>>)
      BY <1>2, PushIntType, EmittableOne DEF JumpOps
    <2> QED
      BY <1>1, <1>2, <2>1, EmitPreserves DEF PushI32
  <1>4. PushConst => CompilerInv'
    <2>1. Emittable(<<Reg("PUSH_CONST", h, Cell0.arg, 0)>>)
      BY <1>2, <1>0, EmittableReg
    <2> QED
      BY <1>1, <1>2, <2>1, EmitPreserves DEF PushConst
  <1>5. PushPrimitive => CompilerInv'
    <2> SUFFICES ASSUME PushPrimitive PROVE CompilerInv'
      OBVIOUS
    <2>1. RegOpOf[Cell0.op] \in RegOps \ JumpOps
      BY DEF PushPrimitive, Decode, PrimitiveOpcodes, RegOpOf, RegOps, JumpOps
    <2>2. Emittable(<<Reg(RegOpOf[Cell0.op], h, 0, 0)>>)
      BY <1>2, <2>1, EmittableReg
    <2> QED
      BY <1>1, <1>2, <2>2, EmitPreserves DEF PushPrimitive
  <1>6. Drop => CompilerInv'
    <2> SUFFICES ASSUME Drop PROVE CompilerInv'
      OBVIOUS
    <2>1. h - 1 \in Nat
      BY <1>2 DEF Drop, Decode, NeedsOne
    <2>2. Emittable(<<Reg("DROP", h - 1, 0, 0)>>)
      BY <1>2, <1>0, EmittableReg
    <2> QED
      BY <1>1, <1>2, <2>1, <2>2, EmitPreserves DEF Drop
  <1>7. Dup => CompilerInv'
    <2>1. Emittable(<<Reg("MOV", h, h - 1, 0)>>)
      BY <1>2, <1>0, EmittableReg
    <2> QED
      BY <1>1, <1>2, <2>1, EmitPreserves DEF Dup
  <1>8. GetLoc => CompilerInv'
    <2>1. Emittable(<<Reg("LOAD_LOC", h, Cell0.arg, 0)>>)
      BY <1>2, <1>0, EmittableReg
    <2> QED
      BY <1>1, <1>2, <2>1, EmitPreserves DEF GetLoc
  <1>9. GetLoc0Loc1 => CompilerInv'
    <2>1. Emittable(<<Reg("LOAD_LOC", h, 0, 0), Reg("LOAD_LOC", h + 1, 1, 0)>>)
      <3>1. ASSUME NEW r \in Int, NEW loc \in Int
            PROVE  /\ Reg("LOAD_LOC", r, loc, 0) \in RegInstruction
                   /\ Reg("LOAD_LOC", r, loc, 0).op \notin JumpOps
        BY <1>0, RegType
      <3> QED
        BY <1>2, <3>1, EmittableTwo
    <2> QED
      BY <1>1, <1>2, <2>1, EmitPreserves DEF GetLoc0Loc1
  <1>10. PutLoc => CompilerInv'
    <2> SUFFICES ASSUME PutLoc PROVE CompilerInv'
      OBVIOUS
    <2>1. h - 1 \in Nat
      BY <1>2 DEF PutLoc, Decode, NeedsOne
    <2>2. Emittable(<<Reg("STORE_LOC", Cell0.arg, h - 1, 0)>>)
      BY <1>2, <1>0, EmittableReg
    <2> QED
      BY <1>1, <1>2, <2>1, <2>2, EmitPreserves DEF PutLoc
  <1>11. SetLoc => CompilerInv'
    <2>1. Emittable(<<Reg("SET_LOC", Cell0.arg, h - 1, 0)>>)
      BY <1>2, <1>0, EmittableReg
    <2> QED
      BY <1>1, <1>2, <2>1, EmitPreserves DEF SetLoc
  <1>12. AddLoc => CompilerInv'
    <2> SUFFICES ASSUME AddLoc PROVE CompilerInv'
      OBVIOUS
    <2>1. h - 1 \in Nat /\ AsU8(h) \in Int
      BY <1>2, WidthsPositive, CastRange DEF AddLoc, Decode, NeedsOne, AsU8
    <2>2. Emittable(<<Reg("LOAD_LOC", AsU8(h), Cell0.arg, 0),
                      Reg("ADD", AsU8(h), AsU8(h), h - 1),
                      Reg("STORE_LOC", Cell0.arg, AsU8(h), 0)>>)
      <3>1. ASSUME NEW op \in {"LOAD_LOC", "ADD", "STORE_LOC"},
                   NEW dst \in Int, NEW src1 \in Int
            PROVE  /\ Reg(op, dst, src1, 0) \in RegInstruction
                   /\ Reg(op, dst, src1, 0).op \notin JumpOps
        BY <1>0, RegType
      <3> DEFINE a == Reg("LOAD_LOC", AsU8(h), Cell0.arg, 0)
                 b == Reg("ADD", AsU8(h), AsU8(h), h - 1)
                 c == Reg("STORE_LOC", Cell0.arg, AsU8(h), 0)
      <3>2. a \in RegInstruction /\ a.op \notin JumpOps
        BY <1>2, <2>1, <3>1
      <3>3. b \in RegInstruction /\ b.op \notin JumpOps
        BY <1>0, <1>2, <2>1, RegType
      <3>4. c \in RegInstruction /\ c.op \notin JumpOps
        BY <1>2, <2>1, <3>1
      <3> HIDE DEF a, b, c
      <3>5. Emittable(<<a, b, c>>)
        BY <3>2, <3>3, <3>4, EmittableThree
      <3> QED
        BY <3>5 DEF a, b, c
    <2> QED
      BY <1>1, <1>2, <2>1, <2>2, EmitPreserves DEF AddLoc
  <1>13. IncDecLoc => CompilerInv'
    <2> SUFFICES ASSUME IncDecLoc PROVE CompilerInv'
      OBVIOUS
    <2> DEFINE val == IF Cell0.op = "inc_loc" THEN 1 ELSE -1
    <2>1. AsU8(h) \in Int /\ AsU8(h + 1) \in Int /\ val \in Int
      BY <1>2, WidthsPositive, CastRange DEF AsU8
    <2>2. Emittable(<<PushInt(AsU8(h), val),
                      Reg("LOAD_LOC", AsU8(h + 1), Cell0.arg, 0),
                      Reg("ADD", AsU8(h + 1), AsU8(h + 1), AsU8(h)),
                      Reg("STORE_LOC", Cell0.arg, AsU8(h + 1), 0)>>)
      <3> HIDE DEF val
      <3>1. ASSUME NEW op \in {"LOAD_LOC", "ADD", "STORE_LOC"},
                   NEW dst \in Int, NEW src1 \in Int
            PROVE  /\ Reg(op, dst, src1, 0) \in RegInstruction
                   /\ Reg(op, dst, src1, 0).op \notin JumpOps
        BY <1>0, RegType
      <3>2. PushInt(AsU8(h), val) \in RegInstruction /\ PushInt(AsU8(h), val).op \notin JumpOps
        BY <1>0, <2>1, PushIntType
      <3> DEFINE a == PushInt(AsU8(h), val)
                 b == Reg("LOAD_LOC", AsU8(h + 1), Cell0.arg, 0)
                 c == Reg("ADD", AsU8(h + 1), AsU8(h + 1), AsU8(h))
                 d == Reg("STORE_LOC", Cell0.arg, AsU8(h + 1), 0)
      <3>3. b \in RegInstruction /\ b.op \notin JumpOps
        BY <1>2, <2>1, <3>1
      <3>4. c \in RegInstruction /\ c.op \notin JumpOps
        BY <1>0, <1>2, <2>1, RegType
      <3>5. d \in RegInstruction /\ d.op \notin JumpOps
        BY <1>2, <2>1, <3>1
      <3> HIDE DEF a, b, c, d
      <3>6. Emittable(<<a, b, c, d>>)
        BY <3>2, <3>3, <3>4, <3>5, EmittableFour DEF a
      <3> QED
        BY <3>6 DEF a, b, c, d
    <2> QED
      BY <1>1, <1>2, <2>1, <2>2, EmitPreserves DEF IncDecLoc
  <1>14. BinaryOp => CompilerInv'
    <2> SUFFICES ASSUME BinaryOp PROVE CompilerInv'
      OBVIOUS
    <2>1. h - 1 \in Nat
      BY <1>2 DEF BinaryOp, Decode, NeedsTwo
    <2>2. RegOpOf[Cell0.op] \in RegOps \ JumpOps
      BY DEF BinaryOp, Decode, BinaryOpcodes, ComparisonOpcodes, RegOpOf, RegOps, JumpOps,
             BinaryOps, ArithOps, BitOps, CompareOps
    <2>3. Emittable(<<Reg(RegOpOf[Cell0.op], h - 2, h - 2, h - 1)>>)
      BY <1>2, <2>2, EmittableReg
    <2> QED
      BY <1>1, <1>2, <2>1, <2>3, EmitPreserves DEF BinaryOp
  <1>15. ReturnTop => CompilerInv'
    <2> SUFFICES ASSUME ReturnTop PROVE CompilerInv'
      OBVIOUS
    <2>1. h - 1 \in Nat
      BY <1>2 DEF ReturnTop, Decode, NeedsOne
    <2>2. Emittable(<<Reg("RETURN", h - 1, 0, 0)>>)
      BY <1>2, <1>0, EmittableReg
    <2> QED
      BY <1>1, <1>2, <2>1, <2>2, EmitPreserves DEF ReturnTop
  <1>16. ReturnUndef => CompilerInv'
    <2>1. Emittable(<<Reg("RETURN_UNDEF", 0, 0, 0)>>)
      BY <1>0, EmittableReg
    <2> QED
      BY <1>1, <1>2, <2>1, EmitPreserves DEF ReturnUndef
  <1>17. Goto => CompilerInv'
    <2>1. Emittable(<<Reg("JMP", 0, 0, 0)>>)
      BY EmittableReg DEF RegOps
    <2> QED
      BY <1>1, <1>2, <2>1, EmitPreserves DEF Goto
  <1>18. IfJump => CompilerInv'
    <2> SUFFICES ASSUME IfJump PROVE CompilerInv'
      OBVIOUS
    <2>1. h - 1 \in Nat /\ RegOpOf[Cell0.op] \in RegOps
      BY <1>2 DEF IfJump, Decode, NeedsOne, BranchOpcodes, RegOpOf, RegOps
    <2>2. h - 1 \in Int /\ 0 \in Int
      BY <2>1
    <2>3. Emittable(<<Reg(RegOpOf[Cell0.op], h - 1, 0, 0)>>)
      BY ONLY <2>1, <2>2, EmittableReg
    <2> QED
      BY <1>1, <1>2, <2>1, <2>3, EmitPreserves DEF IfJump
  <1> QED
    BY <1>3, <1>4, <1>5, <1>6, <1>7, <1>8, <1>9, <1>10, <1>11, <1>12, <1>13, <1>14,
       <1>15, <1>16, <1>17, <1>18

-----------------------------------------------------------------------------
(* Giving up, and the end of the first pass.                               *)
LEMMA EndOfFirstPassPreserves ==
  ASSUME CompilerInv, Reject \/ EndScan
  PROVE  CompilerInv'
  <1> DEFINE N == Len(reg_instructions)
  <1>1. /\ N \in Nat /\ reg_instructions' = reg_instructions
        /\ pc \in 0 .. Len(bytecode) /\ pc' = pc /\ bytecode' = bytecode
        /\ Len(bytecode) \in Nat
    BY LenProperties DEF CompilerInv, CompilerTypeOK, Reject, EndScan
  <1>2. /\ DOMAIN pc_to_inst_idx = 0 .. Len(bytecode)
        /\ pc_to_inst_idx' \in [0 .. Len(bytecode) -> Nat \cup {None}]
        /\ DOMAIN pc_to_inst_idx' = 0 .. Len(bytecode)
        /\ pc_to_inst_idx'[pc] = N
        /\ \A p \in 0 .. Len(bytecode) : p # pc => pc_to_inst_idx'[p] = pc_to_inst_idx[p]
    BY <1>1 DEF CompilerInv, CompilerTypeOK, Reject, EndScan
  <1>3. CompilerTypeOK'
    BY <1>1, <1>2 DEF CompilerInv, CompilerTypeOK, Reject, EndScan
  <1>4. \A p \in 0 .. Len(bytecode) : (p # pc /\ pc_to_inst_idx[p] # None) =>
          p < pc /\ pc_to_inst_idx[p] < N /\ pc_to_inst_idx[p] \in Nat
    BY <1>1, <1>2 DEF CompilerInv, CompilerTypeOK, IndicesInCode
  <1>5. IndicesInCode'
    BY <1>1, <1>2, <1>4 DEF IndicesInCode
  <1>6. ExpansionsInOrder'
    <2> SUFFICES ASSUME NEW p \in 0 .. Len(bytecode), NEW q \in 0 .. Len(bytecode),
                        p < q, pc_to_inst_idx'[p] # None, pc_to_inst_idx'[q] # None
                 PROVE  pc_to_inst_idx'[p] < pc_to_inst_idx'[q]
      BY <1>2 DEF ExpansionsInOrder
    <2>1. p # pc
      BY <1>1, <1>2, <1>4
    <2>2. CASE q = pc
      BY <1>2, <1>4, <2>1, <2>2
    <2>3. CASE q # pc
      BY <1>2, <2>1, <2>3 DEF CompilerInv, ExpansionsInOrder
    <2> QED
      BY <2>2, <2>3
  <1>7. JumpsPendingInCode' /\ EveryJumpInside'
    BY DEF CompilerInv, JumpsPendingInCode, EveryJumpInside, Reject, EndScan
  <1> QED
    BY <1>3, <1>5, <1>6, <1>7 DEF CompilerInv

(* Patching a jump with an index that is in the code, or is its end.       *)
LEMMA PatchPreserves ==
  ASSUME CompilerInv, jumps_to_patch # <<>>,
         NEW index \in Nat, index <= Len(reg_instructions),
         PatchWith(Head(jumps_to_patch), index)
  PROVE  CompilerInv'
  <1> DEFINE N == Len(reg_instructions)
             jump == Head(jumps_to_patch)
             k == jump.inst_idx + 1
             patched == [reg_instructions[k] EXCEPT !.src1 = AsU16(index)]
  <1>1. /\ reg_instructions \in Seq(RegInstruction) /\ N \in Nat
        /\ jumps_to_patch \in Seq(Patch) /\ Len(jumps_to_patch) \in Nat \ {0}
    BY LenProperties, EmptySeq DEF CompilerInv, CompilerTypeOK
  <1>2. /\ jump \in Patch /\ jump = jumps_to_patch[1]
        /\ Tail(jumps_to_patch) \in Seq(Patch)
        /\ Len(Tail(jumps_to_patch)) = Len(jumps_to_patch) - 1
        /\ \A j \in 1 .. Len(Tail(jumps_to_patch)) :
             Tail(jumps_to_patch)[j] = jumps_to_patch[j + 1]
    BY <1>1, HeadTailProperties
  <1>3. k \in 1 .. N
    <2>1. jump.inst_idx < N /\ jump.inst_idx \in Nat
      BY <1>1, <1>2 DEF CompilerInv, JumpsPendingInCode, Patch
    <2> QED
      BY <1>1, <2>1
  <1>4. AsU16(index) \in 0 .. U16 - 1 /\ AsU16(index) <= index
    <2>1. index \in Int /\ U16 \in Nat \ {0}
      BY WidthsPositive
    <2>2. index % U16 \in 0 .. U16 - 1 /\ index % U16 <= index
      BY <2>1, CastRange
    <2> QED
      BY <2>2 DEF AsU16
  <1>5. /\ patched \in RegInstruction /\ patched.op = reg_instructions[k].op
        /\ patched.src1 = AsU16(index)
    <2>1. reg_instructions[k] \in RegInstruction
      BY <1>1, <1>3, ElementOfSeq
    <2> QED
      BY <1>4, <2>1 DEF RegInstruction
  <1>6. /\ reg_instructions' = [reg_instructions EXCEPT ![k] = patched]
        /\ jumps_to_patch' = Tail(jumps_to_patch)
        /\ UNCHANGED <<bytecode, pc, stack_height, pc_to_inst_idx, result>>
    BY DEF PatchWith
  <1> HIDE DEF patched, k, jump
  <1>7. /\ reg_instructions' \in Seq(RegInstruction)
        /\ Len(reg_instructions') = N
        /\ \A i \in 1 .. N : reg_instructions'[i] = IF i = k THEN patched ELSE reg_instructions[i]
    BY <1>1, <1>3, <1>5, <1>6, ExceptSeq
  <1>8. CompilerTypeOK'
    BY <1>2, <1>6, <1>7 DEF CompilerInv, CompilerTypeOK
  <1>9. IndicesInCode' /\ ExpansionsInOrder'
    BY <1>6, <1>7 DEF CompilerInv, IndicesInCode, ExpansionsInOrder
  <1>10. JumpsPendingInCode'
    <2> SUFFICES ASSUME NEW j \in 1 .. Len(jumps_to_patch')
                 PROVE  jumps_to_patch'[j].inst_idx < Len(reg_instructions')
      BY DEF JumpsPendingInCode
    <2>1. j + 1 \in 1 .. Len(jumps_to_patch) /\ jumps_to_patch'[j] = jumps_to_patch[j + 1]
      BY <1>1, <1>2, <1>6
    <2> QED
      BY <1>7, <2>1 DEF CompilerInv, JumpsPendingInCode
  <1>11. EveryJumpInside'
    <2> SUFFICES ASSUME NEW i \in 1 .. N, reg_instructions'[i].op \in JumpOps
                 PROVE  reg_instructions'[i].src1 <= N
      BY <1>7 DEF EveryJumpInside
    <2>1. CASE i = k
      BY <1>1, <1>4, <1>5, <1>7, <2>1
    <2>2. CASE i # k
      BY <1>7, <2>2 DEF CompilerInv, EveryJumpInside
    <2> QED
      BY <2>1, <2>2
  <1> QED
    BY <1>8, <1>9, <1>10, <1>11 DEF CompilerInv

-----------------------------------------------------------------------------
(* The proofs need no fairness: they hold of the compiler wherever it runs.*)
CompilerSafety == CompilerInit /\ [][CompilerNext]_compiler_vars

LEMMA SpecIsSafe == CompilerSpec => CompilerSafety
  BY PTL DEF CompilerSpec, CompilerSafety

LEMMA CompilerInvHolds == CompilerSafety => []CompilerInv
  <1>1. CompilerInit => CompilerInv
    <2> SUFFICES ASSUME CompilerInit PROVE CompilerInv
      OBVIOUS
    <2>1. bytecode \in Seq(Cell) /\ Len(bytecode) \in Nat
      BY BytecodesAssumption, LenProperties DEF CompilerInit
    <2>2. CompilerTypeOK
      BY <2>1, EmptySeq DEF CompilerInit, CompilerTypeOK
    <2>3. \A p \in DOMAIN pc_to_inst_idx : pc_to_inst_idx[p] = None
      BY DEF CompilerInit
    <2>4. Len(jumps_to_patch) = 0 /\ Len(reg_instructions) = 0
      BY EmptySeq DEF CompilerInit
    <2> QED
      BY <2>2, <2>3, <2>4
         DEF CompilerInv, IndicesInCode, ExpansionsInOrder, JumpsPendingInCode, EveryJumpInside
  <1>2. CompilerInv /\ [CompilerNext]_compiler_vars => CompilerInv'
    <2> SUFFICES ASSUME CompilerInv, [CompilerNext]_compiler_vars PROVE CompilerInv'
      OBVIOUS
    <2>1. CASE \/ PushI32 \/ PushConst \/ PushPrimitive \/ Drop \/ Dup
               \/ GetLoc \/ GetLoc0Loc1 \/ PutLoc \/ SetLoc \/ AddLoc \/ IncDecLoc
               \/ BinaryOp \/ ReturnTop \/ ReturnUndef \/ Goto \/ IfJump
      BY <2>1, FirstPassPreserves
    <2>2. CASE Reject \/ EndScan
      BY <2>2, EndOfFirstPassPreserves
    <2>3. CASE PatchBeyondEnd
      <3>1. Len(reg_instructions) \in Nat
        BY LenProperties DEF CompilerInv, CompilerTypeOK
      <3> QED
        BY <2>3, <3>1, PatchPreserves DEF PatchBeyondEnd
    <2>4. CASE PatchJump
      <3> DEFINE target == Head(jumps_to_patch).target_pc
      <3>1. /\ jumps_to_patch # <<>> /\ target \in DOMAIN pc_to_inst_idx
            /\ pc_to_inst_idx[target] # None
            /\ PatchWith(Head(jumps_to_patch), pc_to_inst_idx[target])
        BY <2>4 DEF PatchJump, OutsideMap, CompilerInv, CompilerTypeOK
      <3>2. /\ pc_to_inst_idx[target] \in Nat
            /\ pc_to_inst_idx[target] <= Len(reg_instructions)
        BY <3>1 DEF CompilerInv, CompilerTypeOK, IndicesInCode
      <3> QED
        BY <3>1, <3>2, PatchPreserves
    <2>5. CASE PatchFails \/ Finish \/ UNCHANGED compiler_vars
      BY <2>5 DEF PatchFails, Finish, compiler_vars, CompilerInv, CompilerTypeOK, IndicesInCode,
                  ExpansionsInOrder, JumpsPendingInCode, EveryJumpInside
    <2> QED
      BY <2>1, <2>2, <2>3, <2>4, <2>5 DEF CompilerNext
  <1> QED
    BY <1>1, <1>2, PTL DEF CompilerSafety

(* Compiling any bytecode, every variable keeps its type: the first pass   *)
(* never runs past the slice and never pops an empty simulated stack.      *)
THEOREM CompilerTypeCorrect == CompilerSpec => []CompilerTypeOK
  <1>1. CompilerInv => CompilerTypeOK
    BY DEF CompilerInv
  <1> QED
    BY <1>1, SpecIsSafe, CompilerInvHolds, PTL

(* No bytecode makes the compiler emit a jump that leaves the code.        *)
THEOREM CompilerJumpsStayInside == CompilerSpec => []JumpsStayInside
  <1>1. CompilerInv => JumpsStayInside
    BY DEF CompilerInv, EveryJumpInside, JumpsStayInside
  <1> QED
    BY <1>1, SpecIsSafe, CompilerInvHolds, PTL

(* The map from offsets to instruction indices is strictly increasing.     *)
THEOREM CompilerKeepsOrder == CompilerSpec => []ExpansionsInOrder
  <1>1. CompilerInv => ExpansionsInOrder
    BY DEF CompilerInv
  <1> QED
    BY <1>1, SpecIsSafe, CompilerInvHolds, PTL

-----------------------------------------------------------------------------
(* The jumps reach the instructions the bytecode names:                    *)
(* JumpsReachTheirTargets.  The second pass finds a jump's instruction by  *)
(* its index only.  So the invariant says where each jump still to be      *)
(* patched comes from: from one offset, whose index nothing else has,      *)
(* because indices are in order.                                           *)

Jumping == BranchOpcodes \cup {"goto"}

(* The offsets of the jumps the first pass has translated.                 *)
JumpOffsets ==
  {p \in 0 .. Len(bytecode) - 1 :
     p < pc /\ pc_to_inst_idx[p] # None /\ bytecode[p + 1].op \in Jumping}

Target(p) == JumpTarget(p, bytecode[p + 1])
JumpAt(p) == [inst_idx |-> pc_to_inst_idx[p], target_pc |-> Target(p)]
Pending(p) == \E j \in 1 .. Len(jumps_to_patch) : jumps_to_patch[j] = JumpAt(p)

(* The index a jump to offset t is patched with.                           *)
IndexOf(t) == IF OutsideMap(t) THEN Len(reg_instructions) ELSE pc_to_inst_idx[t]
Patched(p) ==
  /\ ~OutsideMap(Target(p)) => pc_to_inst_idx[Target(p)] # None
  /\ reg_instructions[pc_to_inst_idx[p] + 1].src1 = AsU16(IndexOf(Target(p)))

JumpsInv ==
  result # "err" =>
    /\ result # "scanning" => pc = Len(bytecode)
    /\ result = "ok" => jumps_to_patch = <<>>
    /\ \A p \in JumpOffsets :
         /\ reg_instructions[pc_to_inst_idx[p] + 1].op \in JumpOps
         /\ Pending(p) \/ (result # "scanning" /\ Patched(p))
    /\ \A j \in 1 .. Len(jumps_to_patch) : \E p \in JumpOffsets : jumps_to_patch[j] = JumpAt(p)

-----------------------------------------------------------------------------
(* The first pass.                                                         *)

(* Instructions that are appended leave the ones before them in place.     *)
LEMMA EmitExtends ==
  ASSUME CompilerInv, NEW T, NEW code \in Seq(T), NEW height, Emit(code, height)
  PROVE  /\ Len(reg_instructions) \in Nat
         /\ \A i \in 1 .. Len(reg_instructions) : reg_instructions'[i] = reg_instructions[i]
         /\ \A i \in 1 .. Len(code) : reg_instructions'[Len(reg_instructions) + i] = code[i]
  <1> DEFINE S == RegInstruction \cup T
  <1>1. reg_instructions \in Seq(S) /\ code \in Seq(S)
    BY SeqMonotonic DEF CompilerInv, CompilerTypeOK
  <1>2. reg_instructions' = reg_instructions \o code
    BY DEF Emit
  <1> HIDE DEF S
  <1> QED
    BY <1>1, <1>2, ConcatProperties, LenProperties

(* The first pass goes on past the instruction at pc, keeping what it      *)
(* knows of the offsets before.                                            *)
LEMMA EmitKeepsJumps ==
  ASSUME CompilerInv, JumpsInv, Scanning, ~OperandMissing,
         NEW T, NEW code \in Seq(T), NEW height, Emit(code, height),
         \/ Cell0.op \notin Jumping /\ UNCHANGED jumps_to_patch
         \/ /\ Cell0.op \in Jumping /\ Len(code) = 1 /\ code[1].op \in JumpOps
            /\ Remember(JumpTarget(pc, Cell0))
  PROVE  JumpsInv'
  <1> DEFINE N == Len(reg_instructions)
  <1>1. /\ N \in Nat
        /\ \A i \in 1 .. N : reg_instructions'[i] = reg_instructions[i]
        /\ \A i \in 1 .. Len(code) : reg_instructions'[N + i] = code[i]
    BY EmitExtends
  <1>2. /\ pc \in Nat /\ pc < Len(bytecode) /\ Len(bytecode) \in Nat /\ pc' \in Nat /\ pc < pc'
        /\ bytecode' = bytecode /\ result' = "scanning" /\ result = "scanning"
    BY CurrentCell DEF Emit, Scanning, CompilerInv
  <1>3. /\ pc_to_inst_idx'[pc] = N
        /\ \A p \in 0 .. Len(bytecode) : p # pc => pc_to_inst_idx'[p] = pc_to_inst_idx[p]
    BY <1>1, <1>2 DEF CompilerInv, CompilerTypeOK, Emit
  <1>4. ASSUME NEW p \in JumpOffsets
        PROVE  /\ p \in JumpOffsets' /\ JumpAt(p)' = JumpAt(p) /\ p \in Nat
               /\ reg_instructions'[pc_to_inst_idx'[p] + 1] = reg_instructions[pc_to_inst_idx[p] + 1]
    <2>1. p \in 0 .. Len(bytecode) - 1 /\ p < pc /\ pc_to_inst_idx[p] # None
          /\ bytecode[p + 1].op \in Jumping /\ p \in 0 .. Len(bytecode)
      BY <1>2 DEF JumpOffsets
    <2>2. pc_to_inst_idx'[p] = pc_to_inst_idx[p]
      BY <1>2, <1>3, <2>1
    <2>3. pc_to_inst_idx[p] \in Nat /\ pc_to_inst_idx[p] < N
      BY <2>1 DEF CompilerInv, CompilerTypeOK, IndicesInCode
    <2>4. p \in JumpOffsets'
      BY <1>2, <2>1, <2>2 DEF JumpOffsets
    <2>5. JumpAt(p)' = JumpAt(p)
      BY <1>2, <2>2 DEF JumpAt, Target
    <2> QED
      BY <1>1, <2>1, <2>2, <2>3, <2>4, <2>5
  <1>5. ASSUME NEW p \in JumpOffsets'
        PROVE  p \in JumpOffsets \/ (p = pc /\ Cell0.op \in Jumping)
    <2>1. p \in 0 .. Len(bytecode) - 1 /\ pc_to_inst_idx'[p] # None
          /\ bytecode[p + 1].op \in Jumping /\ p \in 0 .. Len(bytecode)
      BY <1>2, <1>5 DEF JumpOffsets
    <2>2. CASE p = pc
      BY <2>1, <2>2 DEF Cell0
    <2>3. CASE p # pc
      <3>1. pc_to_inst_idx[p] # None
        BY <1>3, <2>1, <2>3
      <3>2. p <= pc
        BY <2>1, <3>1 DEF CompilerInv, CompilerTypeOK, IndicesInCode
      <3>3. p < pc
        BY <1>2, <2>1, <2>3, <3>2
      <3> QED
        BY <2>1, <3>1, <3>3 DEF JumpOffsets
    <2> QED
      BY <2>2, <2>3
  <1>6. /\ jumps_to_patch \in Seq(Patch) /\ Len(jumps_to_patch) \in Nat
    BY LenProperties DEF CompilerInv, CompilerTypeOK
  <1>7. CASE Cell0.op \notin Jumping /\ UNCHANGED jumps_to_patch
    <2>1. ASSUME NEW p \in JumpOffsets'
          PROVE  reg_instructions'[pc_to_inst_idx'[p] + 1].op \in JumpOps /\ Pending(p)'
      <3>1. p \in JumpOffsets
        BY <1>5, <1>7
      <3>2. reg_instructions[pc_to_inst_idx[p] + 1].op \in JumpOps /\ Pending(p)
        BY <1>2, <3>1 DEF JumpsInv
      <3> QED
        BY <1>4, <1>7, <3>1, <3>2 DEF Pending
    <2>2. \A j \in 1 .. Len(jumps_to_patch') : \E p \in JumpOffsets' : jumps_to_patch'[j] = JumpAt(p)'
      BY <1>2, <1>4, <1>7 DEF JumpsInv
    <2> QED
      BY <1>2, <2>1, <2>2 DEF JumpsInv
  <1>8. CASE /\ Cell0.op \in Jumping /\ Len(code) = 1 /\ code[1].op \in JumpOps
             /\ Remember(JumpTarget(pc, Cell0))
    <2> DEFINE jump == [inst_idx |-> N, target_pc |-> JumpTarget(pc, Cell0)]
    <2>1. jump \in Patch /\ jumps_to_patch' = Append(jumps_to_patch, jump)
      BY <1>1, <1>2, <1>8, CurrentCell DEF Patch, Remember, JumpTarget, CompilerInv
    <2>2. ASSUME NEW p, p = pc
          PROVE  JumpAt(p)' = jump
      BY <1>2, <1>3, <2>2 DEF JumpAt, Target, Cell0
    <2> HIDE DEF jump
    <2>3. /\ Len(jumps_to_patch') = Len(jumps_to_patch) + 1
          /\ \A j \in 1 .. Len(jumps_to_patch) : jumps_to_patch'[j] = jumps_to_patch[j]
          /\ jumps_to_patch'[Len(jumps_to_patch) + 1] = jump
      BY <1>6, <2>1, AppendProperties
    <2>4. ASSUME NEW p \in JumpOffsets'
          PROVE  reg_instructions'[pc_to_inst_idx'[p] + 1].op \in JumpOps /\ Pending(p)'
      <3>1. CASE p \in JumpOffsets
        <4>1. reg_instructions[pc_to_inst_idx[p] + 1].op \in JumpOps /\ Pending(p)
          BY <1>2, <3>1 DEF JumpsInv
        <4>2. PICK j \in 1 .. Len(jumps_to_patch) : jumps_to_patch[j] = JumpAt(p)
          BY <4>1 DEF Pending
        <4>3. j \in 1 .. Len(jumps_to_patch') /\ jumps_to_patch'[j] = JumpAt(p)'
          BY <1>4, <1>6, <2>3, <3>1, <4>2
        <4> QED
          BY <1>4, <3>1, <4>1, <4>3 DEF Pending
      <3>2. CASE p = pc
        <4>1. reg_instructions'[N + 1].op \in JumpOps
          BY <1>1, <1>8
        <4>2. Len(jumps_to_patch) + 1 \in 1 .. Len(jumps_to_patch')
          BY <1>6, <2>3
        <4> QED
          BY <1>3, <2>2, <2>3, <3>2, <4>1, <4>2 DEF Pending
      <3> QED
        BY <1>5, <3>1, <3>2
    <2>5. ASSUME NEW j \in 1 .. Len(jumps_to_patch')
          PROVE  \E p \in JumpOffsets' : jumps_to_patch'[j] = JumpAt(p)'
      <3>1. CASE j \in 1 .. Len(jumps_to_patch)
        BY <1>2, <1>4, <2>3, <3>1 DEF JumpsInv
      <3>2. CASE j = Len(jumps_to_patch) + 1
        <4>1. PICK p \in 0 .. Len(bytecode) - 1 : p = pc
          BY <1>2
        <4>2. p \in JumpOffsets'
          BY <1>1, <1>2, <1>3, <1>8, <4>1 DEF JumpOffsets, Cell0, None
        <4> QED
          BY <2>2, <2>3, <3>2, <4>1, <4>2
      <3> QED
        BY <1>6, <2>3, <3>1, <3>2
    <2> QED
      BY <1>2, <2>4, <2>5 DEF JumpsInv
  <1> QED
    BY <1>7, <1>8

LEMMA ShortSeqs ==
  ASSUME NEW a, NEW b, NEW c, NEW d
  PROVE  /\ <<a>> \in Seq({a}) /\ Len(<<a>>) = 1 /\ <<a>>[1] = a
         /\ <<a, b>> \in Seq({a, b})
         /\ <<a, b, c>> \in Seq({a, b, c})
         /\ <<a, b, c, d>> \in Seq({a, b, c, d})
  OBVIOUS

(* The opcodes that are not jumps leave the list of jumps alone.           *)
LEMMA FirstPassKeepsJumps ==
  ASSUME CompilerInv, JumpsInv,
         \/ PushI32 \/ PushConst \/ PushPrimitive \/ Drop \/ Dup
         \/ GetLoc \/ GetLoc0Loc1 \/ PutLoc \/ SetLoc \/ AddLoc \/ IncDecLoc
         \/ BinaryOp \/ ReturnTop \/ ReturnUndef \/ Goto \/ IfJump
  PROVE  JumpsInv'
  <1>1. Scanning /\ ~OperandMissing
    BY DEF PushI32, PushConst, PushPrimitive, Drop, Dup, GetLoc, GetLoc0Loc1, PutLoc,
           SetLoc, AddLoc, IncDecLoc, BinaryOp, ReturnTop, ReturnUndef, Goto, IfJump, Decode
  <1>2. ASSUME Cell0.op \notin Jumping, UNCHANGED jumps_to_patch,
               NEW T, NEW code \in Seq(T), NEW height, Emit(code, height)
        PROVE  JumpsInv'
    BY <1>1, <1>2, EmitKeepsJumps
  <1>3. CASE \/ PushI32 \/ PushConst \/ PushPrimitive \/ Drop \/ Dup \/ GetLoc \/ PutLoc \/ SetLoc
             \/ BinaryOp \/ ReturnTop \/ ReturnUndef
    <2>1. Cell0.op \notin Jumping /\ UNCHANGED jumps_to_patch
      BY <1>3 DEF PushI32, PushConst, PushPrimitive, Drop, Dup, GetLoc, PutLoc, SetLoc, BinaryOp,
         ReturnTop, ReturnUndef, Decode, Jumping, BranchOpcodes, PrimitiveOpcodes, BinaryOpcodes,
         ComparisonOpcodes
    <2>2. \E a, height : Emit(<<a>>, height)
      BY <1>3 DEF PushI32, PushConst, PushPrimitive, Drop, Dup, GetLoc, PutLoc, SetLoc, BinaryOp,
         ReturnTop, ReturnUndef
    <2> QED
      BY <1>2, <2>1, <2>2, ShortSeqs
  <1>4. CASE GetLoc0Loc1 \/ AddLoc \/ IncDecLoc
    <2>1. Cell0.op \notin Jumping /\ UNCHANGED jumps_to_patch
      BY <1>4 DEF GetLoc0Loc1, AddLoc, IncDecLoc, Decode, Jumping, BranchOpcodes
    <2>2. \/ \E a, b, height : Emit(<<a, b>>, height)
          \/ \E a, b, c, height : Emit(<<a, b, c>>, height)
          \/ \E a, b, c, d, height : Emit(<<a, b, c, d>>, height)
      BY <1>4 DEF GetLoc0Loc1, AddLoc, IncDecLoc
    <2>3. CASE \E a, b, height : Emit(<<a, b>>, height)
      <3>1. PICK a, b, height : Emit(<<a, b>>, height)
        BY <2>3
      <3>2. <<a, b>> \in Seq({a, b})
        BY ShortSeqs
      <3> QED
        BY <1>2, <2>1, <3>1, <3>2
    <2>4. CASE \E a, b, c, height : Emit(<<a, b, c>>, height)
      <3>1. PICK a, b, c, height : Emit(<<a, b, c>>, height)
        BY <2>4
      <3>2. <<a, b, c>> \in Seq({a, b, c})
        BY ShortSeqs
      <3> QED
        BY <1>2, <2>1, <3>1, <3>2
    <2>5. CASE \E a, b, c, d, height : Emit(<<a, b, c, d>>, height)
      <3>1. PICK a, b, c, d, height : Emit(<<a, b, c, d>>, height)
        BY <2>5
      <3>2. <<a, b, c, d>> \in Seq({a, b, c, d})
        BY ShortSeqs
      <3> QED
        BY <1>2, <2>1, <3>1, <3>2
    <2> QED
      BY <2>2, <2>3, <2>4, <2>5
  <1>5. ASSUME Cell0.op \in Jumping, Remember(JumpTarget(pc, Cell0)),
               NEW a, a.op \in JumpOps, NEW height, Emit(<<a>>, height)
        PROVE  JumpsInv'
    <2>1. <<a>> \in Seq({a}) /\ Len(<<a>>) = 1 /\ <<a>>[1] = a
      BY ShortSeqs
    <2> QED
      BY <1>1, <1>5, <2>1, EmitKeepsJumps
  <1>6. CASE Goto
    <2>1. Reg("JMP", 0, 0, 0).op \in JumpOps
      BY DEF Reg, JumpOps
    <2> QED
      BY <1>5, <1>6, <2>1 DEF Goto, Decode, Jumping
  <1>7. CASE IfJump
    <2>1. Cell0.op \in BranchOpcodes
      BY <1>7 DEF IfJump, Decode
    <2>2. Reg(RegOpOf[Cell0.op], stack_height - 1, 0, 0).op \in JumpOps
      BY <2>1 DEF Reg, JumpOps, RegOpOf, BranchOpcodes
    <2> QED
      BY <1>5, <1>7, <2>1, <2>2 DEF IfJump, Jumping
  <1> QED
    BY <1>3, <1>4, <1>6, <1>7

(* At the end of the slice only the index of its end is recorded.          *)
LEMMA EndScanKeepsJumps ==
  ASSUME CompilerInv, JumpsInv, EndScan
  PROVE  JumpsInv'
  <1>1. /\ result = "scanning" /\ result' = "patching" /\ pc' = pc /\ pc = Len(bytecode)
        /\ Len(bytecode) \in Nat
        /\ UNCHANGED <<bytecode, reg_instructions, jumps_to_patch>>
    BY LenProperties DEF EndScan, CompilerInv, CompilerTypeOK
  <1>2. \A p \in 0 .. Len(bytecode) - 1 : pc_to_inst_idx'[p] = pc_to_inst_idx[p]
    BY <1>1 DEF EndScan, CompilerInv, CompilerTypeOK
  <1>3. JumpOffsets' = JumpOffsets
    BY <1>1, <1>2 DEF JumpOffsets
  <1>4. \A p \in JumpOffsets : JumpAt(p)' = JumpAt(p) /\ pc_to_inst_idx'[p] = pc_to_inst_idx[p]
    BY <1>1, <1>2 DEF JumpAt, Target, JumpOffsets
  <1>5. \A p \in JumpOffsets : Pending(p) => Pending(p)'
    BY <1>1, <1>4 DEF Pending
  <1> QED
    BY <1>1, <1>3, <1>4, <1>5 DEF JumpsInv

-----------------------------------------------------------------------------
(* The second pass.                                                        *)

(* No two jumps have one index.                                            *)
LEMMA IndicesDiffer ==
  ASSUME CompilerInv, NEW p \in JumpOffsets, NEW q \in JumpOffsets,
         pc_to_inst_idx[p] = pc_to_inst_idx[q]
  PROVE  p = q
  <1>1. /\ p \in DOMAIN pc_to_inst_idx /\ q \in DOMAIN pc_to_inst_idx /\ p \in Int /\ q \in Int
        /\ pc_to_inst_idx[p] \in Nat /\ pc_to_inst_idx[q] \in Nat
        /\ pc_to_inst_idx[p] # None /\ pc_to_inst_idx[q] # None
    BY LenProperties DEF JumpOffsets, CompilerInv, CompilerTypeOK
  <1> QED
    BY <1>1 DEF CompilerInv, ExpansionsInOrder

LEMMA PatchKeepsJumps ==
  ASSUME CompilerInv, JumpsInv, result = "patching", jumps_to_patch # <<>>,
         LET t == Head(jumps_to_patch).target_pc
         IN  /\ ~OutsideMap(t) => pc_to_inst_idx[t] # None
             /\ PatchWith(Head(jumps_to_patch), IndexOf(t))
  PROVE  JumpsInv'
  <1> DEFINE N == Len(reg_instructions)
             jump == Head(jumps_to_patch)
             k == jump.inst_idx + 1
             value == AsU16(IndexOf(jump.target_pc))
             new == [reg_instructions EXCEPT ![k].src1 = value]
  <1>1. /\ jumps_to_patch \in Seq(Patch) /\ Len(jumps_to_patch) \in Nat \ {0}
        /\ jump = jumps_to_patch[1]
        /\ Len(Tail(jumps_to_patch)) = Len(jumps_to_patch) - 1
        /\ \A j \in 1 .. Len(Tail(jumps_to_patch)) :
             Tail(jumps_to_patch)[j] = jumps_to_patch[j + 1]
    BY EmptySeq, LenProperties, HeadTailProperties DEF CompilerInv, CompilerTypeOK
  <1>2. /\ reg_instructions' = new /\ jumps_to_patch' = Tail(jumps_to_patch)
        /\ UNCHANGED <<bytecode, pc, stack_height, pc_to_inst_idx, result>>
    BY DEF PatchWith
  <1>3. PICK q \in JumpOffsets : jump = JumpAt(q)
    BY <1>1 DEF JumpsInv
  <1>4. /\ reg_instructions \in Seq(RegInstruction) /\ N \in Nat
        /\ DOMAIN reg_instructions = 1 .. N
        /\ \A i \in 1 .. N : reg_instructions[i] \in RegInstruction
    BY LenProperties, ElementOfSeq DEF CompilerInv, CompilerTypeOK
  <1>5. /\ Len(new) = N
        /\ \A i \in 1 .. N : /\ new[i].op = reg_instructions[i].op
                             /\ i # k => new[i] = reg_instructions[i]
                             /\ i = k => new[i].src1 = value
    <2>1. DOMAIN new = 1 .. N
      BY <1>4
    <2>2. \A i \in 1 .. N : /\ new[i].op = reg_instructions[i].op
                            /\ i # k => new[i] = reg_instructions[i]
                            /\ i = k => new[i].src1 = value
      BY <1>4 DEF RegInstruction
    <2>3. new \in [1 .. N -> RegInstruction \cup {new[i] : i \in 1 .. N}]
      BY <2>1
    <2>4. Len(new) = N
      BY <1>4, <2>1, <2>3, LenProperties, SeqDef
    <2> QED
      BY <2>2, <2>4
  <1> HIDE DEF new, k, value, jump
  <1>6. JumpOffsets' = JumpOffsets /\ \A p \in JumpOffsets : JumpAt(p)' = JumpAt(p)
    BY <1>2 DEF JumpOffsets, JumpAt, Target
  <1>7. ASSUME NEW p \in JumpOffsets
        PROVE  /\ pc_to_inst_idx[p] \in Nat /\ pc_to_inst_idx[p] + 1 \in 1 .. N
    <2>1. /\ p \in 0 .. Len(bytecode) /\ pc_to_inst_idx[p] # None /\ p < pc
      BY LenProperties DEF JumpOffsets, CompilerInv, CompilerTypeOK
    <2>2. pc_to_inst_idx[p] \in Nat /\ pc_to_inst_idx[p] < N
      BY <2>1 DEF CompilerInv, CompilerTypeOK, IndicesInCode
    <2> QED
      BY <1>4, <2>2
  <1>8. \A t : IndexOf(t)' = IndexOf(t) /\ OutsideMap(t)' = OutsideMap(t)
    BY <1>2, <1>2, <1>5 DEF IndexOf, OutsideMap
  <1>9. /\ Target(q) = jump.target_pc /\ k = pc_to_inst_idx[q] + 1
    BY <1>3 DEF JumpAt, k
  <1>10. ASSUME NEW p \in JumpOffsets, p # q
         PROVE  /\ reg_instructions'[pc_to_inst_idx[p] + 1] = reg_instructions[pc_to_inst_idx[p] + 1]
    <2> DEFINE i == pc_to_inst_idx[p] + 1
    <2>1. pc_to_inst_idx[p] # pc_to_inst_idx[q]
      BY <1>10, IndicesDiffer
    <2>2. i \in 1 .. N /\ i # k
      BY <1>7, <1>9, <2>1
    <2> HIDE DEF i
    <2>3. reg_instructions'[i] = reg_instructions[i]
      BY <1>2, <1>5, <2>2
    <2> QED
      BY <2>3 DEF i
  <1>11. Patched(q)'
    <2>1. ~OutsideMap(Target(q)) => pc_to_inst_idx[Target(q)] # None
      BY <1>9 DEF jump
    <2>2. reg_instructions'[pc_to_inst_idx[q] + 1].src1 = AsU16(IndexOf(Target(q)))
      <3>1. k \in 1 .. N
        BY <1>7, <1>9
      <3>2. reg_instructions'[k].src1 = value
        BY <1>2, <1>5, <3>1
      <3> QED
        BY <1>9, <3>2 DEF value
    <2>3. Target(q)' = Target(q)
      BY <1>2 DEF Target
    <2> QED
      BY <1>2, <1>8, <2>1, <2>2, <2>3 DEF Patched
  <1>12. ASSUME NEW p \in JumpOffsets
         PROVE  /\ reg_instructions'[pc_to_inst_idx'[p] + 1].op \in JumpOps
                /\ Pending(p)' \/ Patched(p)'
    <2>1. reg_instructions'[pc_to_inst_idx'[p] + 1].op \in JumpOps
      <3> DEFINE i == pc_to_inst_idx[p] + 1
      <3>1. i \in 1 .. N /\ reg_instructions[i].op \in JumpOps /\ pc_to_inst_idx'[p] + 1 = i
        BY <1>2, <1>7 DEF JumpsInv
      <3> HIDE DEF i
      <3>2. reg_instructions'[i].op = reg_instructions[i].op
        BY <1>2, <1>5, <3>1
      <3> QED
        BY <3>1, <3>2
    <2>2. CASE p = q
      BY <1>11, <2>1, <2>2
    <2>3. CASE p # q /\ Pending(p)
      <3>1. PICK j \in 1 .. Len(jumps_to_patch) : jumps_to_patch[j] = JumpAt(p)
        BY <2>3 DEF Pending
      <3>2. j # 1
        <4>1. JumpAt(p) # JumpAt(q)
          BY <2>3, IndicesDiffer DEF JumpAt
        <4> QED
          BY <1>1, <1>3, <3>1, <4>1
      <3>3. j - 1 \in 1 .. Len(jumps_to_patch') /\ jumps_to_patch'[j - 1] = JumpAt(p)'
        BY <1>1, <1>2, <1>6, <3>1, <3>2
      <3> QED
        BY <2>1, <3>3 DEF Pending
    <2>4. CASE p # q /\ Patched(p)
      <3>1. Target(p)' = Target(p)
        BY <1>2 DEF Target
      <3> QED
        BY <1>2, <1>8, <1>10, <2>1, <2>4, <3>1 DEF Patched
    <2> QED
      BY <2>1, <2>2, <2>3, <2>4 DEF JumpsInv
  <1>13. \A j \in 1 .. Len(jumps_to_patch') : \E p \in JumpOffsets : jumps_to_patch'[j] = JumpAt(p)
    <2> SUFFICES ASSUME NEW j \in 1 .. Len(jumps_to_patch')
                 PROVE  \E p \in JumpOffsets : jumps_to_patch'[j] = JumpAt(p)
      OBVIOUS
    <2>1. j + 1 \in 1 .. Len(jumps_to_patch) /\ jumps_to_patch'[j] = jumps_to_patch[j + 1]
      BY <1>1, <1>2
    <2> QED
      BY <2>1 DEF JumpsInv
  <1>14. pc' = Len(bytecode') /\ result' = "patching"
    BY <1>2 DEF JumpsInv
  <1> QED
    BY <1>6, <1>12, <1>13, <1>14 DEF JumpsInv

LEMMA JumpsInvHolds == CompilerSafety => []JumpsInv
  <1>1. CompilerInit => JumpsInv
    <2> SUFFICES ASSUME CompilerInit PROVE JumpsInv
      OBVIOUS
    <2>1. JumpOffsets = {} /\ Len(jumps_to_patch) = 0
      BY EmptySeq DEF CompilerInit, JumpOffsets
    <2> QED
      BY <2>1 DEF CompilerInit, JumpsInv
  <1>2. CompilerInv /\ JumpsInv /\ [CompilerNext]_compiler_vars => JumpsInv'
    <2> SUFFICES ASSUME CompilerInv, JumpsInv, [CompilerNext]_compiler_vars PROVE JumpsInv'
      OBVIOUS
    <2>1. CASE \/ PushI32 \/ PushConst \/ PushPrimitive \/ Drop \/ Dup
               \/ GetLoc \/ GetLoc0Loc1 \/ PutLoc \/ SetLoc \/ AddLoc \/ IncDecLoc
               \/ BinaryOp \/ ReturnTop \/ ReturnUndef \/ Goto \/ IfJump
      BY <2>1, FirstPassKeepsJumps
    <2>2. CASE Reject \/ PatchFails
      BY <2>2 DEF Reject, PatchFails, JumpsInv
    <2>3. CASE EndScan
      BY <2>3, EndScanKeepsJumps
    <2>4. CASE PatchBeyondEnd
      BY <2>4, PatchKeepsJumps DEF PatchBeyondEnd, IndexOf
    <2>5. CASE PatchJump
      BY <2>5, PatchKeepsJumps DEF PatchJump, IndexOf
    <2>6. CASE Finish
      BY <2>6 DEF Finish, JumpsInv, JumpOffsets, JumpAt, Target, Pending, Patched, IndexOf, OutsideMap
    <2>7. CASE UNCHANGED compiler_vars
      BY <2>7 DEF compiler_vars, JumpsInv, JumpOffsets, JumpAt, Target, Pending, Patched, IndexOf,
         OutsideMap
    <2> QED
      BY <2>1, <2>2, <2>3, <2>4, <2>5, <2>6, <2>7 DEF CompilerNext
  <1> QED
    BY <1>1, <1>2, CompilerInvHolds, PTL DEF CompilerSafety

(* The jumps, once they are all patched.                                   *)
LEMMA JumpsFound == CompilerInv /\ JumpsInv => JumpsReachTheirTargets
  <1> SUFFICES ASSUME CompilerInv, JumpsInv, result = "ok", Len(reg_instructions) < U16,
                      NEW p \in 0 .. Len(bytecode) - 1, pc_to_inst_idx[p] # None,
                      bytecode[p + 1].op \in BranchOpcodes \cup {"goto"}
               PROVE  LET inst == reg_instructions[pc_to_inst_idx[p] + 1]
                      IN  /\ inst.op \in JumpOps
                          /\ inst.src1 = IndexOf(Target(p))
    BY DEF JumpsReachTheirTargets, IndexOf, Target
  <1>1. p \in JumpOffsets
    BY LenProperties DEF JumpOffsets, Jumping, JumpsInv, CompilerInv, CompilerTypeOK
  <1>2. ~Pending(p)
    BY EmptySeq DEF Pending, JumpsInv
  <1>3. reg_instructions[pc_to_inst_idx[p] + 1].op \in JumpOps /\ Patched(p)
    BY <1>1, <1>2 DEF JumpsInv
  <1>4. IndexOf(Target(p)) \in Nat /\ IndexOf(Target(p)) < U16
    <2>1. Len(reg_instructions) \in Nat /\ U16 \in Nat
      BY LenProperties, WidthsPositive DEF CompilerInv, CompilerTypeOK
    <2>2. CASE OutsideMap(Target(p))
      BY <2>1, <2>2 DEF IndexOf
    <2>3. CASE ~OutsideMap(Target(p))
      <3> DEFINE t == Target(p)
      <3>1. t \in 0 .. Len(bytecode) /\ pc_to_inst_idx[t] # None
        BY <1>3, <2>3 DEF OutsideMap, Patched
      <3> HIDE DEF t
      <3>2. pc_to_inst_idx[t] \in Nat /\ pc_to_inst_idx[t] <= Len(reg_instructions)
        BY <3>1 DEF CompilerInv, CompilerTypeOK, IndicesInCode
      <3>3. pc_to_inst_idx[t] < U16
        BY <2>1, <3>2
      <3> QED
        BY <2>3, <3>2, <3>3 DEF IndexOf, t
    <2> QED
      BY <2>2, <2>3
  <1>5. \A n \in Nat, w \in Nat : n < w => n % w = n
    OBVIOUS
  <1> QED
    BY <1>3, <1>4, <1>5, WidthsPositive DEF Patched, AsU16

(* Each jump of the bytecode becomes one jump instruction, which goes to   *)
(* the expansion of the instruction the bytecode names.                    *)
THEOREM CompilerJumpsReachTheirTargets == CompilerSpec => []JumpsReachTheirTargets
  BY JumpsFound, SpecIsSafe, CompilerInvHolds, JumpsInvHolds, PTL


-----------------------------------------------------------------------------
(* Numbers.  tlapm has no induction rule without an operator parameter, so *)
(* what the proofs need of it is derived from well-founded sets: least     *)
(* elements, induction up to a bound, that a recursive definition names a  *)
(* function, and that powers of two multiply.                              *)

(* Every set of numbers has a least one; with it, induction.               *)
LEMMA Least ==
  ASSUME NEW T, T \subseteq Nat, T # {}
  PROVE  \E x \in T : \A y \in T : x <= y
<1> DEFINE Below == {0..x : x \in T}
<1>1. Below \subseteq FiniteSubsetsOf(Nat)
  <2> SUFFICES ASSUME NEW x \in T
               PROVE  0..x \in SUBSET Nat /\ IsFiniteSet(0..x)
    BY DEF FiniteSubsetsOf
  <2>1. x \in Int /\ 0 \in Int
    OBVIOUS
  <2> QED BY <2>1, FS_Interval
<1>2. PICK U \in Below : \A V \in Below : ~ (<<V, U>> \in StrictSubsetOrdering(Nat))
  <2>1. Below # {}
    OBVIOUS
  <2> HIDE DEF Below
  <2> QED BY <1>1, <2>1, WFMin, FS_StrictSubsetOrderingWellFounded
<1>3. PICK x \in T : U = 0..x
  OBVIOUS
<1>4. ASSUME NEW y \in T, y < x
      PROVE  FALSE
  <2>1. 0..y \in Below /\ 0..y \subseteq 0..x /\ 0..y # 0..x
    <3>1. x \in 0..x /\ x \notin 0..y
      BY <1>4
    <3> QED BY <1>4, <3>1
  <2>2. <<0..y, 0..x>> \in StrictSubsetOrdering(Nat)
    BY <2>1 DEF StrictSubsetOrdering
  <2> QED BY <1>2, <1>3, <2>1, <2>2
<1> QED BY <1>4

LEMMA Induction ==
  ASSUME NEW N \in Nat, NEW S, 0 \in S,
         \A k \in 1..N : k - 1 \in S => k \in S
  PROVE  0..N \subseteq S
<1> DEFINE T == (0..N) \ S
<1>1. SUFFICES ASSUME T # {} PROVE FALSE
  OBVIOUS
<1>2. PICK x \in T : \A y \in T : x <= y
  <2>1. T \subseteq Nat
    OBVIOUS
  <2> HIDE DEF T
  <2> QED BY <1>1, <2>1, Least
<1>3. x \in 1..N /\ x - 1 \in 0..N
  OBVIOUS
<1> QED BY <1>2, <1>3

(* f starts at a and goes on by G.                                         *)
IsStep(G, X, N) == G \in [X \X (1..N) -> X]
Repeats(f, X, a, N, G) ==
  f \in [0..N -> X] /\ f[0] = a /\ \A k \in 1..N : f[k] = G[<<f[k-1], k>>]

(* Such a function exists: what a recursive definition names.              *)
LEMMA Recursion ==
  ASSUME NEW X, NEW a \in X, NEW N \in Nat, NEW G, IsStep(G, X, N)
  PROVE  \E f : Repeats(f, X, a, N, G)
<1> USE DEF IsStep, Repeats
<1> DEFINE Eq(f, n) == f[0] = a /\ \A k \in 1..n : f[k] = G[<<f[k-1], k>>]
<1> DEFINE S == {n \in 0..N : \E f \in [0..N -> X] : Eq(f, n)}
<1>1. 0 \in S
  <2> DEFINE g == [k \in 0..N |-> a]
  <2>1. g \in [0..N -> X]
    OBVIOUS
  <2>2. g[0] = a /\ 0 \in 0..N
    OBVIOUS
  <2> HIDE DEF g
  <2> QED BY <2>1, <2>2
<1>2. ASSUME NEW k \in 1..N, k - 1 \in S
      PROVE  k \in S
  <2>1. PICK f \in [0..N -> X] : Eq(f, k - 1)
    BY <1>2
  <2> DEFINE g == [f EXCEPT ![k] = G[<<f[k-1], k>>]]
  <2>2. g \in [0..N -> X]
    OBVIOUS
  <2>3. g[0] = a
    BY <2>1
  <2>4. ASSUME NEW j \in 1..k
        PROVE  g[j] = G[<<g[j-1], j>>]
    <3>1. g[j-1] = f[j-1]
      OBVIOUS
    <3>2. CASE j = k
      BY <3>1, <3>2
    <3>3. CASE j # k
      <4> j \in 1..k-1
        BY <3>3
      <4> g[j] = f[j]
        BY <3>3
      <4> QED BY <3>1, <2>1
    <3> QED BY <3>2, <3>3
  <2> HIDE DEF g
  <2> QED BY <2>2, <2>3, <2>4
<1>3. 0..N \subseteq S
  <2> HIDE DEF S
  <2> QED BY <1>1, <1>2, Induction
<1>4. PICK f \in [0..N -> X] : Eq(f, N)
  <2>1. N \in 0..N
    OBVIOUS
  <2> QED BY <1>3, <2>1
<1> QED BY <1>4

(* A set of n + 1 elements has twice as many subsets as one of n.          *)
LEMMA PowersDouble ==
  ASSUME NEW n \in Nat
  PROVE  2^n \in Nat /\ 2^(n + 1) = 2 * 2^n
<1> DEFINE A == SUBSET (1..n)
           B == {X \cup {n + 1} : X \in A}
           f == [X \in A |-> X \cup {n + 1}]
<1>1. IsFiniteSet(A) /\ Cardinality(A) = 2^n /\ Cardinality(A) \in Nat
  <2>1. IsFiniteSet(1..n) /\ Cardinality(1..n) = n
    BY FS_Interval
  <2> QED BY <2>1, FS_SUBSET, FS_CardinalityType
<1>2. Cardinality(SUBSET (1..n + 1)) = 2^(n + 1)
  <2>1. IsFiniteSet(1..n + 1) /\ Cardinality(1..n + 1) = n + 1
    BY FS_Interval
  <2> QED BY <2>1, FS_SUBSET
<1>3. SUBSET (1..n + 1) = A \cup B
  <2>1. ASSUME NEW Y \in SUBSET (1..n + 1)
        PROVE  Y \in A \cup B
    <3>1. CASE n + 1 \in Y
      <4>1. Y \ {n + 1} \in A /\ Y = (Y \ {n + 1}) \cup {n + 1}
        BY <3>1
      <4> QED BY <4>1
    <3>2. CASE n + 1 \notin Y
      BY <3>2
    <3> QED BY <3>1, <3>2
  <2>2. A \subseteq SUBSET (1..n + 1)
    OBVIOUS
  <2>3. ASSUME NEW Y \in B PROVE Y \in SUBSET (1..n + 1)
    <3>1. PICK X \in A : Y = X \cup {n + 1}
      OBVIOUS
    <3>2. n + 1 \in 1..n + 1 /\ X \subseteq 1..n + 1
      OBVIOUS
    <3> QED BY <3>1, <3>2
  <2>4. B \subseteq SUBSET (1..n + 1)
    BY <2>3
  <2> HIDE DEF A, B
  <2> QED BY <2>1, <2>2, <2>4
<1>4. A \cap B = {}
  OBVIOUS
<1>5. IsFiniteSet(B) /\ Cardinality(B) = Cardinality(A)
  <2>1. \A X, Y \in A : f[X] = f[Y] => X = Y
    <3> SUFFICES ASSUME NEW X \in A, NEW Y \in A, X \cup {n + 1} = Y \cup {n + 1}
                 PROVE  X = Y
      OBVIOUS
    <3>1. n + 1 \notin X /\ n + 1 \notin Y
      OBVIOUS
    <3> QED BY <3>1
  <2>2. f \in [A -> B] /\ \A Y \in B : \E X \in A : f[X] = Y
    OBVIOUS
  <2> HIDE DEF f, A, B
  <2>3. f \in Bijection(A, B)
    BY <2>1, <2>2 DEF Bijection, Injection, Surjection, IsInjective
  <2>4. ExistsBijection(A, B)
    BY <2>3 DEF ExistsBijection
  <2> QED BY <1>1, <2>4, FS_Bijection
<1>6. Cardinality(A \cup B) = Cardinality(A) + Cardinality(B)
  <2> HIDE DEF A, B
  <2> QED BY <1>1, <1>4, <1>5, FS_Union, FS_EmptySet
<1> HIDE DEF A, B
<1>7. 2^(n + 1) = 2^n + 2^n
  BY <1>1, <1>2, <1>3, <1>5, <1>6
<1>8. \A p \in Nat : p + p = 2 * p
  OBVIOUS
<1> QED BY <1>1, <1>7, <1>8

LEMMA PowersOfTwo ==
  ASSUME NEW m \in Nat
  PROVE  \A n \in 0..m : /\ 2^n \in Nat \ {0} /\ n < 2^n
                         /\ \A k \in Nat : 2^(k + n) = 2^k * 2^n
<1> DEFINE S == {n \in 0..m : /\ 2^n \in Nat \ {0} /\ n < 2^n
                              /\ \A k \in Nat : 2^(k + n) = 2^k * 2^n}
<1>1. 0 \in S
  <2>1. 2^0 = 1
    OBVIOUS
  <2>2. \A k \in Nat : 2^(k + 0) = 2^k * 2^0
    BY <2>1, PowersDouble
  <2> QED BY <2>1, <2>2
<1>2. ASSUME NEW n \in 1..m, n - 1 \in S
      PROVE  n \in S
  <2>1. 2^n = 2 * 2^(n - 1)
    <3>1. n - 1 \in Nat /\ (n - 1) + 1 = n
      OBVIOUS
    <3> QED BY <3>1, PowersDouble
  <2>2. 2^(n - 1) \in Nat \ {0} /\ n - 1 < 2^(n - 1)
    BY <1>2
  <2>3. 2^n \in Nat \ {0} /\ n < 2^n
    BY <2>1, <2>2
  <2>4. ASSUME NEW k \in Nat
        PROVE  2^(k + n) = 2^k * 2^n
    <3>1. k + n - 1 \in Nat /\ (k + n - 1) + 1 = k + n /\ k + (n - 1) = k + n - 1
      OBVIOUS
    <3>2. 2^(k + n) = 2 * 2^(k + n - 1)
      BY <3>1, PowersDouble
    <3>3. 2^(k + n - 1) = 2^k * 2^(n - 1) /\ 2^k \in Nat
      BY <1>2, <3>1, PowersDouble
    <3>4. \A a, b \in Nat : 2 * (a * b) = a * (2 * b)
      OBVIOUS
    <3> QED BY <2>1, <2>2, <3>2, <3>3, <3>4
  <2> QED BY <2>3, <2>4
<1>3. 0..m \subseteq S
  <2> HIDE DEF S
  <2> QED BY <1>1, <1>2, Induction
<1> QED BY <1>3

LEMMA Powers == \A n \in Nat : /\ 2^n \in Nat \ {0} /\ n < 2^n
                               /\ \A k \in Nat : 2^(k + n) = 2^k * 2^n
<1> SUFFICES ASSUME NEW n \in Nat
             PROVE  /\ 2^n \in Nat \ {0} /\ n < 2^n
                    /\ \A k \in Nat : 2^(k + n) = 2^k * 2^n
  OBVIOUS
<1>1. n \in 0..n
  OBVIOUS
<1> QED BY <1>1, PowersOfTwo

(* A quotient lies between two multiples of the divisor.                   *)
LEMMA QuotientBounds ==
  ASSUME NEW n \in Nat, NEW d \in Nat \ {0}, NEW a \in Nat, NEW b \in Nat,
         a * d <= n, n < b * d
  PROVE  n \div d \in a..b - 1
OBVIOUS

LEMMA QuotientAtLeast ==
  ASSUME NEW n \in Nat, NEW d \in Nat \ {0}, NEW k \in Nat, NEW p \in Nat, k < p, p * d <= n
  PROVE  k <= n \div d
<1>1. n < (n + 1) * d /\ n + 1 \in Nat
  OBVIOUS
<1>2. n \div d \in p..n + 1 - 1
  BY <1>1, QuotientBounds
<1> QED BY <1>2

-----------------------------------------------------------------------------
(* A number too long for the significand has an exponent: the shift that   *)
(* leaves as many bits as there are.                                       *)
LEMMA ExponentExists ==
  ASSUME NEW n \in Nat, n > 2^MantissaBits
  PROVE  \E k \in 1..n \div 2^(MantissaBits - 1) :
           n \div 2^k \in 2^(MantissaBits - 1)..2^MantissaBits - 1
<1> DEFINE M == MantissaBits
           T == {j \in Nat : n < 2^(M + j)}
<1>1. M \in Nat /\ M >= 2 /\ M - 1 \in Nat
  BY WidthAssumption
<1> HIDE DEF M
<1>2. n \in T
  <2>1. n < 2^n /\ 2^n \in Nat \ {0} /\ 2^(M + n) = 2^M * 2^n /\ 2^M \in Nat \ {0}
    BY <1>1, Powers
  <2>2. \A p, q \in Nat \ {0} : p * q >= q /\ p * q \in Nat
    OBVIOUS
  <2>3. 2^M * 2^n >= 2^n /\ 2^M * 2^n \in Nat
    BY <2>1, <2>2
  <2>4. n < 2^(M + n)
    BY <2>1, <2>3
  <2> QED BY <2>4
<1>3. PICK k \in T : \A j \in T : k <= j
  <2>1. T \subseteq Nat /\ T # {}
    BY <1>2
  <2> HIDE DEF T
  <2> QED BY <2>1, Least
<1>4. k # 0
  <2>1. 2^(M + 0) = 2^M /\ 2^M \in Nat
    BY <1>1, Powers
  <2> QED BY <1>3, <2>1 DEF M
<1>5. k - 1 \in Nat /\ k \in Nat
  BY <1>3, <1>4
<1>6. 2^(M + (k - 1)) <= n
  <2>1. k - 1 \notin T
    BY <1>3, <1>5
  <2>2. 2^(M + (k - 1)) \in Nat
    BY <1>1, <1>5, Powers
  <2> QED BY <1>5, <2>1, <2>2
<1>7. 2^(M - 1) * 2^k <= n
  <2>1. M + (k - 1) = (M - 1) + k
    BY <1>1, <1>5
  <2> QED BY <1>1, <1>5, <1>6, <2>1, Powers
<1>8. n < 2^M * 2^k
  BY <1>1, <1>3, <1>5, Powers
<1>9. 2^k \in Nat \ {0} /\ 2^M \in Nat \ {0} /\ 2^(M - 1) \in Nat \ {0} /\ k < 2^k
  BY <1>1, <1>5, Powers
<1>10. n \div 2^k \in 2^(M - 1)..2^M - 1
  BY <1>7, <1>8, <1>9, QuotientBounds
<1>11. k <= n \div 2^(M - 1) /\ n \div 2^(M - 1) \in Int
  <2>1. 2^k * 2^(M - 1) <= n
    <3>1. \A p, q \in Nat : p * q = q * p
      OBVIOUS
    <3> QED BY <1>7, <1>9, <3>1
  <2> QED BY <1>5, <1>9, <2>1, QuotientAtLeast
<1>12. k \in 1..n \div 2^(M - 1)
  BY <1>4, <1>5, <1>11
<1> QED BY <1>10, <1>12 DEF M

LEMMA AbsIsNat == \A n \in Int : AbsVal(n) \in Nat /\ (n # 0 => AbsVal(n) # 0)
BY DEF AbsVal

(* Rounding gives a number.                                                *)
LEMMA RoundType ==
  ASSUME NEW n \in Int
  PROVE  RoundF64(n) \in Int
<1> DEFINE a == AbsVal(n)
           least == 2^(MantissaBits - 1)
           Fits(k) == a \div 2^k \in least..2^MantissaBits - 1
           e == CHOOSE k \in 1..a \div least : Fits(k)
           quotient == a \div 2^e
           twice == 2 * (a % 2^e)
           up == twice > 2^e \/ (twice = 2^e /\ quotient % 2 = 1)
           rounded == (IF up THEN quotient + 1 ELSE quotient) * 2^e
<1>1. a \in Nat
  BY AbsIsNat
<1>2. 2^MantissaBits \in Nat
  BY WidthAssumption, Powers
<1>3. CASE a <= 2^MantissaBits
  BY <1>3 DEF RoundF64
<1>4. CASE ~(a <= 2^MantissaBits)
  <2>1. \E k \in 1..a \div least : Fits(k)
    <3>1. a > 2^MantissaBits
      BY <1>1, <1>2, <1>4
    <3> HIDE DEF a
    <3> QED BY <1>1, <3>1, ExponentExists
  <2>2. e \in 1..a \div least
    <3> HIDE DEF Fits
    <3> QED BY <2>1
  <2>3. a \div least \in Int
    <3>1. least \in Nat \ {0}
      <4>1. MantissaBits - 1 \in Nat
        BY WidthAssumption
      <4> QED BY <4>1, Powers
    <3> HIDE DEF a, least
    <3> QED BY <1>1, <3>1
  <2>4. e \in Nat
    <3> HIDE DEF e, a, least
    <3> QED BY <2>2, <2>3
  <2>5. 2^e \in Nat \ {0}
    <3> HIDE DEF e
    <3> QED BY <2>4, Powers
  <2>6. quotient \in Int /\ rounded \in Int
    <3> DEFINE p == 2^e
    <3>1. p \in Nat \ {0}
      BY <2>5
    <3> HIDE DEF p, a
    <3>2. a \div p \in Int
      BY <1>1, <3>1
    <3>3. \A q \in Int : q * p \in Int /\ (q + 1) * p \in Int
      BY <3>1
    <3> HIDE DEF up, e
    <3> QED BY <3>2, <3>3 DEF p
  <2>7. RoundF64(n) = IF n < 0 THEN -rounded ELSE rounded
    BY <1>4 DEF RoundF64
  <2> HIDE DEF rounded
  <2> QED BY <2>6, <2>7
<1> QED BY <1>3, <1>4

-----------------------------------------------------------------------------
(* What the operators of a value give is a value.                          *)
LEMMA RemainderType ==
  ASSUME NEW a \in Int, NEW b \in Int, b # 0
  PROVE  TruncRem(a, b) \in Int
<1>1. /\ AbsVal(a) \in Nat /\ AbsVal(b) \in Nat \ {0}
  BY AbsIsNat
<1>2. \A p \in Nat : \A q \in Nat \ {0} : p % q \in Int /\ -(p % q) \in Int
  OBVIOUS
<1> QED BY <1>1, <1>2 DEF TruncRem

(* The values that are not on the heap.                                    *)
Primitive == {x \in Value : ~IsRef(x)}

LEMMA MadeValues ==
  /\ \A n \in Int : MkInt(n) \in Primitive /\ MkFloat(n) \in Primitive
  /\ \A b : MkBool(b) \in Primitive
  /\ {NaN, NegZero, Null, Undefined, Uninitialized} \subseteq Primitive
BY DEF MkInt, MkFloat, MkBool, NaN, NegZero, Null, Undefined, Uninitialized, Value, Tags,
       Primitive, IsRef

LEMMA F64Type ==
  ASSUME NEW n \in Int, NEW negative
  PROVE  F64(n, negative) \in Primitive
BY RoundType, MadeValues DEF F64

LEMMA F64OpType ==
  ASSUME NEW op \in ArithOps, NEW x \in Value, NEW y \in Value
  PROVE  F64Op(op, x, y) \in Primitive
<1>1. x.v \in Int /\ y.v \in Int
  BY DEF Value
<1>2. x.v + y.v \in Int /\ x.v - y.v \in Int /\ x.v * y.v \in Int
  BY <1>1
<1>3. \A n \in Int : \A negative : F64(n, negative) \in Primitive
  BY F64Type
<1>4. NaN \in Primitive
  BY MadeValues
<1>5. op = "MOD" /\ y.v # 0 => TruncRem(x.v, y.v) \in Int
  BY <1>1, RemainderType
<1>6. /\ F64(x.v + y.v, x.tag = "neg_zero" /\ y.tag = "neg_zero") \in Primitive
      /\ F64(x.v - y.v, x.tag = "neg_zero" /\ y.tag # "neg_zero" /\ y.v = 0) \in Primitive
      /\ F64(x.v * y.v, Negative(x) # Negative(y)) \in Primitive
      /\ op = "MOD" /\ y.v # 0 => F64(TruncRem(x.v, y.v), Negative(x)) \in Primitive
  BY <1>2, <1>3, <1>5
<1> QED BY <1>4, <1>6 DEF F64Op, ArithOps

(* The bits of two numbers combined one by one are a number.               *)
LEMMA BitwiseType ==
  ASSUME NEW op, NEW a \in Int, NEW b \in Int
  PROVE  BitwiseOp(op, a, b) \in Int
<1> DEFINE N == IntBits
           bit(x, i) == (x \div 2^i) % 2
           combine(p, q) == CASE op = "BIT_AND" -> p * q
                              [] op = "BIT_XOR" -> (p + q) % 2
                              [] OTHER          -> p + q - p * q
           low[n \in 0..N] ==
             IF n = 0 THEN 0 ELSE low[n-1] + 2^(n-1) * combine(bit(a, n-1), bit(b, n-1))
           W(n) == 2^(n-1) * combine(bit(a, n-1), bit(b, n-1))
           G == [p \in Int \X (1..N) |-> p[1] + W(p[2])]
<1>1. N \in Nat
  BY WidthAssumption
<1>2. \A n \in 1..N : W(n) \in Int
  <2> TAKE n \in 1..N
  <2>1. 2^(n-1) \in Nat \ {0}
    <3>1. n - 1 \in Nat
      BY <1>1
    <3> QED BY <3>1, Powers
  <2>2. \A x \in Int : bit(x, n-1) \in Int
    <3> DEFINE q == 2^(n-1)
    <3>1. q \in Nat \ {0}
      BY <2>1
    <3> HIDE DEF q
    <3>2. \A x \in Int : (x \div q) \in Int
      BY <3>1
    <3>3. \A y \in Int : y % 2 \in Int
      OBVIOUS
    <3>4. \A x \in Int : (x \div q) % 2 \in Int
      BY <3>2, <3>3
    <3> QED BY <3>4 DEF q
  <2>3. \A p, q \in Int : combine(p, q) \in Int
    <3>1. \A p, q \in Int : p * q \in Int /\ (p + q) % 2 \in Int /\ p + q - p * q \in Int
      OBVIOUS
    <3> QED BY <3>1
  <2>4. bit(a, n-1) \in Int /\ bit(b, n-1) \in Int
    BY <2>2
  <2> HIDE DEF bit
  <2>5. combine(bit(a, n-1), bit(b, n-1)) \in Int
    <3> HIDE DEF combine
    <3> QED BY <2>3, <2>4
  <2> HIDE DEF combine
  <2> DEFINE q == 2^(n-1)
             c == combine(bit(a, n-1), bit(b, n-1))
  <2>6. q \in Int /\ c \in Int
    BY <2>1, <2>5
  <2> HIDE DEF q, c
  <2>7. q * c \in Int
    BY <2>6
  <2> QED BY <2>7 DEF q, c
<1> HIDE DEF W, N
<1>3. IsStep(G, Int, N)
  BY <1>2 DEF IsStep
<1>4. PICK f : Repeats(f, Int, 0, N, G)
  <2> HIDE DEF G
  <2> QED BY <1>1, <1>3, Recursion
<1>5. \A n \in 1..N : f[n-1] \in Int /\ f[n] = f[n-1] + W(n)
  <2> TAKE n \in 1..N
  <2>1. f[n-1] \in Int
    <3>1. n - 1 \in 0..N
      BY <1>1
    <3> QED BY <1>4, <3>1 DEF Repeats
  <2> QED BY <1>4, <2>1 DEF Repeats
<1>6. f = [n \in 0..N |-> IF n = 0 THEN 0 ELSE f[n-1] + W(n)]
  BY <1>1, <1>4, <1>5 DEF Repeats
<1>7. low = [n \in 0..N |-> IF n = 0 THEN 0 ELSE low[n-1] + W(n)]
  BY <1>6 DEF W
<1> HIDE DEF low
<1>8. 0..N \subseteq {n \in 0..N : low[n] \in Int}
  <2> DEFINE S == {n \in 0..N : low[n] \in Int}
  <2>1. 0 \in S
    BY <1>1, <1>7
  <2>2. ASSUME NEW n \in 1..N, n - 1 \in S
        PROVE  n \in S
    BY <1>2, <1>7, <2>2
  <2> HIDE DEF S
  <2> QED BY <1>1, <2>1, <2>2, Induction DEF S
<1>9. low[N] \in Int
  BY <1>1, <1>8
<1> QED BY <1>9 DEF low, N, BitwiseOp

LEMMA WrapIsInt ==
  ASSUME NEW n \in Int
  PROVE  WrapInt32(n) \in Int /\ n % U32 \in Int
<1>1. U32 \in Nat \ {0}
  <2>1. \A p \in Nat \ {0} : p * p \in Nat \ {0}
    OBVIOUS
  <2> QED BY <2>1, WidthsPositive DEF U32
<1>2. U32 \div 2 \in Int
  BY <1>1
<1>3. \A a, b \in Int : a + b \in Int /\ a - b \in Int
  OBVIOUS
<1>4. \A a \in Int : a % U32 \in Int
  BY <1>1
<1> QED BY <1>2, <1>3, <1>4 DEF WrapInt32

LEMMA Int32OpType ==
  ASSUME NEW op \in BitOps, NEW x \in Value, NEW y \in Value
  PROVE  Int32Op(op, x, y) \in Primitive
<1> DEFINE lhs == js_to_int32(x)
           rhs == js_to_int32(y)
           shift == js_to_uint32(y) % IntBits
           p == 2^shift
<1>1. lhs \in Int /\ rhs \in Int /\ js_to_uint32(y) \in Int
  BY WrapIsInt DEF Value, js_to_int32, js_to_uint32
<1>2. shift \in Nat
  BY <1>1, WidthAssumption
<1>3. p \in Nat \ {0}
  <2> HIDE DEF shift
  <2> QED BY <1>2, Powers
<1> HIDE DEF p, lhs, rhs
<1>4. /\ WrapInt32(lhs * p) \in Int
      /\ lhs \div p \in Int
      /\ (lhs % U32) \div p \in Int
      /\ WrapInt32(BitwiseOp(op, lhs, rhs)) \in Int
  <2>1. lhs * p \in Int /\ BitwiseOp(op, lhs, rhs) \in Int /\ lhs % U32 \in Int
    BY <1>1, <1>3, WrapIsInt, BitwiseType
  <2>2. \A a \in Int : a \div p \in Int
    BY <1>3
  <2> QED BY <1>1, <2>1, <2>2, WrapIsInt
<1>5. \A n \in Int : Uint32ToValue(n) \in Primitive
  BY MadeValues DEF Uint32ToValue
<1> HIDE DEF shift
<1>6. /\ MkInt(WrapInt32(lhs * p)) \in Primitive
      /\ MkInt(lhs \div p) \in Primitive
      /\ Uint32ToValue((lhs % U32) \div p) \in Primitive
      /\ MkInt(WrapInt32(BitwiseOp(op, lhs, rhs))) \in Primitive
  BY <1>4, <1>5, MadeValues
<1> QED BY <1>6 DEF Int32Op, p, lhs, rhs, shift

(* The VM's operators give values, of the operands they take.              *)
LEMMA vm_binaryType ==
  ASSUME NEW op \in BinaryOps, NEW x \in Value, NEW y \in Value
  PROVE  vm_binary(op, x, y) \in Primitive
<1>1. x.v \in Int /\ y.v \in Int
  BY DEF Value
<1>2. op \in BitOps => Int32Op(op, x, y) \in Primitive
  BY Int32OpType
<1>3. op \in ArithOps => F64Op(op, x, y) \in Primitive
  BY F64OpType
<1>4. \A b : MkBool(b) \in Primitive
  BY MadeValues
<1>5. vm_int_mod(x.v, y.v) \in Primitive
  <2>1. y.v # 0 => TruncRem(x.v, y.v) \in Int
    BY <1>1, RemainderType
  <2> QED BY <2>1, MadeValues DEF vm_int_mod
<1>6. vm_int_arith(op, x.v, y.v) \in Primitive
  <2>1. \A r \in Int : (IF r \in Int32 THEN MkInt(r) ELSE MkFloat(RoundF64(r))) \in Primitive
    BY RoundType, MadeValues
  <2>2. x.v + y.v \in Int /\ x.v - y.v \in Int /\ x.v * y.v \in Int
    BY <1>1
  <2>3. (CASE op = "ADD" -> x.v + y.v [] op = "SUB" -> x.v - y.v [] OTHER -> x.v * y.v) \in Int
    BY <2>2
  <2> DEFINE r == CASE op = "ADD" -> x.v + y.v [] op = "SUB" -> x.v - y.v [] OTHER -> x.v * y.v
  <2> HIDE DEF r
  <2>4. (IF r \in Int32 THEN MkInt(r) ELSE MkFloat(RoundF64(r))) \in Primitive
    BY <2>1, <2>3 DEF r
  <2> QED BY <2>4 DEF vm_int_arith, r
<1>7. op \in CompareOps \/ op = "STRICT_EQ" \/ op \in BitOps \/ op \in ArithOps
  BY DEF BinaryOps
<1> QED BY <1>2, <1>3, <1>4, <1>5, <1>6, <1>7, Zenon DEF vm_binary

-----------------------------------------------------------------------------
(* What an instruction of the compiled code says of the frame and of the   *)
(* registers: the constant and the local it names exist, and it reads      *)
(* slots of the simulated stack and scratch registers only.                *)
InFrame(inst) ==
  /\ inst.op = "PUSH_CONST" => inst.src1 \in DOMAIN cpool
  /\ inst.op = "LOAD_LOC" => inst.src1 \in 0 .. NumLocals - 1
  /\ inst.op \in {"STORE_LOC", "SET_LOC"} => inst.dst \in 0 .. NumLocals - 1
ReadsBelow(inst, n) == SourceRegisters(inst) \subseteq 0 .. n - 1

(* inst belongs to the expansion of a bytecode instruction already seen.   *)
FromOffset(inst, p) ==
  /\ p < pc /\ Mapped(p)
  /\ ReadsBelow(inst, HeightAt[p] + Scratch(bytecode[p + 1]))

CodeInv ==
  /\ bytecode \in Bytecodes
  /\ HeightAt[pc] = stack_height
  /\ \A i \in 1 .. Len(reg_instructions) :
       /\ InFrame(reg_instructions[i])
       /\ \E p \in 0 .. Len(bytecode) - 1 : FromOffset(reg_instructions[i], p)

-----------------------------------------------------------------------------
(* The simulated heights.                                                  *)

(* What the instruction at p - 1 adds, when it has an index.               *)
Added(code, index, p) == IF index[p-1] # None THEN StackEffect(code[p]) ELSE 0

(* The recursive definition of the heights names a function.               *)
LEMMA HeightsEquation ==
  ASSUME NEW code \in Seq(Cell), NEW index
  PROVE  /\ Heights(code, index) \in [0..Len(code) -> Int]
         /\ Heights(code, index)[0] = 0
         /\ \A p \in 1..Len(code) :
              Heights(code, index)[p] = Heights(code, index)[p-1] + Added(code, index, p)
<1> DEFINE N == Len(code)
           W(p) == Added(code, index, p)
           height[p \in 0..N] ==
             IF p = 0 THEN 0
             ELSE height[p-1] + IF index[p-1] # None THEN StackEffect(code[p]) ELSE 0
           G == [x \in Int \X (1..N) |-> x[1] + W(x[2])]
<1>1. N \in Nat
  BY LenProperties
<1>2. \A p \in 1..N : W(p) \in Int
  BY DEF Added, StackEffect
<1> HIDE DEF N, W
<1>3. IsStep(G, Int, N)
  BY <1>2 DEF IsStep
<1>4. PICK f : Repeats(f, Int, 0, N, G)
  <2> HIDE DEF G
  <2> QED BY <1>1, <1>3, Recursion
<1>5. \A p \in 1..N : f[p-1] \in Int /\ f[p] = f[p-1] + W(p)
  <2> TAKE p \in 1..N
  <2>1. f[p-1] \in Int
    <3>1. p - 1 \in 0..N
      BY <1>1
    <3> QED BY <1>4, <3>1 DEF Repeats
  <2> QED BY <1>4, <2>1 DEF Repeats
<1>6. f = [p \in 0..N |-> IF p = 0 THEN 0 ELSE f[p-1] + W(p)]
  BY <1>1, <1>4, <1>5 DEF Repeats
<1>7. height = [p \in 0..N |-> IF p = 0 THEN 0 ELSE height[p-1] + W(p)]
  BY <1>6 DEF W, Added
<1> HIDE DEF height
<1>8. height[0] = 0 /\ \A p \in 1..N : height[p] = height[p-1] + W(p)
  BY <1>1, <1>7
<1>9. 0..N \subseteq {p \in 0..N : height[p] \in Int}
  <2> DEFINE S == {p \in 0..N : height[p] \in Int}
  <2>1. 0 \in S
    BY <1>1, <1>8
  <2>2. ASSUME NEW p \in 1..N, p - 1 \in S
        PROVE  p \in S
    BY <1>2, <1>8, <2>2
  <2> HIDE DEF S
  <2> QED BY <1>1, <2>1, <2>2, Induction DEF S
<1>10. height \in [0..N -> Int]
  BY <1>7, <1>9
<1>11. Heights(code, index) = height
  BY DEF Heights, height, N
<1> QED BY <1>8, <1>10, <1>11 DEF N, W

(* The height at an offset depends on the indices before it only.          *)
LEMMA HeightsAgree ==
  ASSUME NEW code \in Seq(Cell), NEW index, NEW other, NEW q \in 0..Len(code),
         \A p \in 0..q - 1 : index[p] = other[p]
  PROVE  \A p \in 0..q : Heights(code, index)[p] = Heights(code, other)[p]
<1> DEFINE H == Heights(code, index)
           K == Heights(code, other)
           S == {p \in 0..q : H[p] = K[p]}
<1>1. Len(code) \in Nat /\ q \in Nat
  BY LenProperties
<1>2. /\ H[0] = 0 /\ \A p \in 1..Len(code) : H[p] = H[p-1] + Added(code, index, p)
      /\ K[0] = 0 /\ \A p \in 1..Len(code) : K[p] = K[p-1] + Added(code, other, p)
  BY HeightsEquation
<1> HIDE DEF H, K
<1>3. 0 \in S
  BY <1>1, <1>2
<1>4. ASSUME NEW p \in 1..q, p - 1 \in S
      PROVE  p \in S
  <2>1. p \in 1..Len(code) /\ p - 1 \in 0..q - 1
    BY <1>1
  <2>2. Added(code, index, p) = Added(code, other, p)
    BY <2>1 DEF Added
  <2>3. H[p-1] = K[p-1]
    BY <1>4
  <2> QED BY <1>2, <2>1, <2>2, <2>3
<1>5. 0..q \subseteq S
  <2> HIDE DEF S
  <2> QED BY <1>1, <1>3, <1>4, Induction
<1> QED BY <1>5 DEF H, K

(* It stays as it is over offsets that have no index.                      *)
LEMMA HeightsStay ==
  ASSUME NEW code \in Seq(Cell), NEW index, NEW a \in 0..Len(code), NEW b \in a..Len(code),
         \A p \in a..b - 1 : index[p] = None
  PROVE  Heights(code, index)[b] = Heights(code, index)[a]
<1> DEFINE H == Heights(code, index)
           S == {n \in 0..b - a : H[a + n] = H[a]}
<1>1. Len(code) \in Nat /\ a \in Nat /\ b \in Nat /\ b - a \in Nat
  BY LenProperties
<1>2. H \in [0..Len(code) -> Int] /\ \A p \in 1..Len(code) : H[p] = H[p-1] + Added(code, index, p)
  BY HeightsEquation
<1> HIDE DEF H
<1>3. 0 \in S
  BY <1>1
<1>4. ASSUME NEW n \in 1..b - a, n - 1 \in S
      PROVE  n \in S
  <2>1. a + n \in 1..Len(code) /\ (a + n) - 1 \in a..b - 1 /\ (a + n) - 1 = a + (n - 1)
        /\ (a + n) - 1 \in 0..Len(code) /\ a \in 0..Len(code)
    BY <1>1
  <2>2. Added(code, index, a + n) = 0
    BY <2>1 DEF Added
  <2>3. H[(a + n) - 1] = H[a] /\ H[a] \in Int
    BY <1>2, <1>4, <2>1
  <2>4. H[a + n] = H[(a + n) - 1] + 0
    BY <1>2, <2>1, <2>2
  <2> QED BY <2>3, <2>4
<1>5. 0..b - a \subseteq S
  <2> HIDE DEF S
  <2> QED BY <1>1, <1>3, <1>4, Induction
<1>6. b - a \in 0..b - a /\ a + (b - a) = b
  BY <1>1
<1> QED BY <1>5, <1>6 DEF H

-----------------------------------------------------------------------------
(* The compiler keeps CodeInv.                                             *)

(* An instruction fit for the expansion of the cell at pc.                 *)
Fit(inst) == InFrame(inst) /\ ReadsBelow(inst, stack_height + Scratch(Cell0))

LEMMA HeightsKept ==
  ASSUME CompilerInv, CodeInv, bytecode' = bytecode,
         \A p \in 0..pc - 1 : pc_to_inst_idx'[p] = pc_to_inst_idx[p]
  PROVE  \A p \in 0..pc : HeightAt'[p] = HeightAt[p]
<1>1. bytecode \in Seq(Cell) /\ pc \in 0..Len(bytecode)
  BY DEF CompilerInv, CompilerTypeOK
<1> QED BY <1>1, HeightsAgree DEF HeightAt

(* The first pass goes on past the instruction at pc, which it expanded by *)
(* instructions that are fit, leaving the height its effect says.          *)
LEMMA EmitKeepsCode ==
  ASSUME CompilerInv, CodeInv, Scanning, ~OperandMissing,
         NEW T, NEW code \in Seq(T), \A i \in 1..Len(code) : Fit(code[i]),
         Emit(code, stack_height + StackEffect(Cell0))
  PROVE  CodeInv'
<1> DEFINE N == Len(reg_instructions)
           h == stack_height + StackEffect(Cell0)
<1>1. /\ N \in Nat
      /\ \A i \in 1 .. N : reg_instructions'[i] = reg_instructions[i]
      /\ \A i \in 1 .. Len(code) : reg_instructions'[N + i] = code[i]
  BY EmitExtends
<1>2. Len(reg_instructions') = N + Len(code) /\ Len(code) \in Nat
  <2> DEFINE S == RegInstruction \cup T
  <2>1. reg_instructions \in Seq(S) /\ code \in Seq(S)
    BY SeqMonotonic DEF CompilerInv, CompilerTypeOK
  <2>2. reg_instructions' = reg_instructions \o code
    BY DEF Emit
  <2> HIDE DEF S
  <2> QED BY <2>1, <2>2, ConcatProperties, LenProperties
<1>3. /\ pc \in Nat /\ pc < Len(bytecode) /\ Len(bytecode) \in Nat
      /\ pc' \in Nat /\ pc < pc' /\ pc' <= Len(bytecode)
      /\ bytecode' = bytecode /\ bytecode \in Seq(Cell)
  <2>1. /\ pc \in Nat /\ pc < Len(bytecode) /\ Len(bytecode) \in Nat
        /\ pc' \in Nat /\ pc < pc' /\ pc' <= Len(bytecode)
    <3>1. /\ pc \in Nat /\ pc < Len(bytecode) /\ Len(bytecode) \in Nat
          /\ Cell0.size \in 1 .. 5
      BY CurrentCell DEF CompilerInv
    <3>2. pc' = pc + Cell0.size
      BY DEF Emit
    <3>3. pc + Cell0.size <= Len(bytecode)
      BY <3>1 DEF OperandMissing
    <3> QED BY <3>1, <3>2, <3>3
  <2>2. bytecode' = bytecode /\ bytecode \in Seq(Cell)
    BY DEF CompilerInv, CompilerTypeOK, Emit
  <2> QED BY <2>1, <2>2
<1>4. /\ pc_to_inst_idx'[pc] = N
      /\ \A p \in 0 .. Len(bytecode) : p # pc => pc_to_inst_idx'[p] = pc_to_inst_idx[p]
  BY <1>1, <1>3 DEF CompilerInv, CompilerTypeOK, Emit
<1>5. \A p \in 0 .. pc - 1 : pc_to_inst_idx'[p] = pc_to_inst_idx[p]
  BY <1>3, <1>4
<1>6. \A p \in 0 .. pc : HeightAt'[p] = HeightAt[p]
  BY <1>3, <1>5, HeightsKept
<1>7. HeightAt[pc] = stack_height /\ HeightAt'[pc] = stack_height
  BY <1>3, <1>6 DEF CodeInv
<1>8. HeightAt'[pc'] = stack_height'
  <2>1. stack_height' = h
    BY DEF Emit
  <2>2. HeightAt'[pc + 1] = HeightAt'[pc] + Added(bytecode, pc_to_inst_idx', pc + 1)
    <3>1. pc + 1 \in 1..Len(bytecode) /\ (pc + 1) - 1 = pc
      BY <1>3
    <3> QED BY <1>3, <3>1, HeightsEquation DEF HeightAt
  <2>3. Added(bytecode, pc_to_inst_idx', pc + 1) = StackEffect(Cell0)
    <3>1. (pc + 1) - 1 = pc /\ N # None
      BY <1>1, <1>3 DEF None
    <3> QED BY <1>4, <3>1 DEF Added, Cell0
  <2>4. HeightAt'[pc'] = HeightAt'[pc + 1]
    <3>1. ASSUME NEW p \in pc + 1 .. pc' - 1
          PROVE  pc_to_inst_idx'[p] = None
      <4>1. \A a, b, n \in Nat : b <= n =>
              \A x \in a + 1 .. b - 1 : x \in 0 .. n /\ x # a /\ ~(x <= a)
        OBVIOUS
      <4>2. p \in 0 .. Len(bytecode) /\ p # pc /\ ~(p <= pc)
        BY <1>3, <4>1
      <4> QED BY <1>4, <4>2 DEF CompilerInv, CompilerTypeOK, IndicesInCode
    <3>2. pc + 1 \in 0..Len(bytecode) /\ pc' \in pc + 1 .. Len(bytecode)
      BY <1>3
    <3> QED BY <1>3, <3>1, <3>2, HeightsStay DEF HeightAt
  <2> QED BY <1>7, <2>1, <2>2, <2>3, <2>4
<1>9. ASSUME NEW i \in 1 .. Len(reg_instructions')
      PROVE  /\ InFrame(reg_instructions'[i])
             /\ \E p \in 0 .. Len(bytecode) - 1 : FromOffset(reg_instructions[i], p)'
  <2> DEFINE inst == reg_instructions'[i]
  <2>1. ASSUME NEW p
        PROVE  FromOffset(reg_instructions[i], p)' <=>
                 /\ p < pc' /\ pc_to_inst_idx'[p] # None
                 /\ ReadsBelow(inst, HeightAt'[p] + Scratch(bytecode[p + 1]))
    BY <1>3 DEF FromOffset, Mapped, ReadsBelow
  <2>2. CASE i \in 1 .. N
    <3>1. inst = reg_instructions[i]
      BY <1>1, <2>2
    <3> HIDE DEF inst
    <3>2. InFrame(inst)
      BY <2>2, <3>1 DEF CodeInv
    <3>3. PICK p \in 0 .. Len(bytecode) - 1 : FromOffset(inst, p)
      BY <2>2, <3>1 DEF CodeInv
    <3>4. p < pc /\ Mapped(p) /\ ReadsBelow(inst, HeightAt[p] + Scratch(bytecode[p + 1]))
      BY <3>3 DEF FromOffset
    <3>5. p \in 0..pc - 1 /\ p \in 0..pc /\ p < pc'
      BY <1>3, <3>4
    <3>6. HeightAt'[p] = HeightAt[p] /\ pc_to_inst_idx'[p] # None
      BY <1>5, <1>6, <3>4, <3>5 DEF Mapped
    <3>7. FromOffset(reg_instructions[i], p)'
      BY <2>1, <3>4, <3>5, <3>6
    <3> QED BY <3>2, <3>7 DEF inst
  <2>3. CASE i \notin 1 .. N
    <3>1. i - N \in 1 .. Len(code) /\ i = N + (i - N)
      BY <1>1, <1>2, <2>3
    <3>2. inst = code[i - N]
      BY <1>1, <3>1
    <3>3. Fit(inst)
      BY <3>1, <3>2
    <3>4. PICK p \in 0 .. Len(bytecode) - 1 : p = pc
      BY <1>3
    <3>5. p < pc' /\ pc_to_inst_idx'[p] # None /\ HeightAt'[p] = stack_height
      BY <1>1, <1>3, <1>4, <1>7, <3>4 DEF None
    <3>6. ReadsBelow(inst, HeightAt'[p] + Scratch(bytecode[p + 1]))
      BY <3>3, <3>4, <3>5 DEF Fit, Cell0
    <3>7. FromOffset(reg_instructions[i], p)'
      BY <2>1, <3>5, <3>6
    <3> QED BY <3>3, <3>7 DEF Fit
  <2> QED BY <2>2, <2>3
<1> QED BY <1>3, <1>8, <1>9 DEF CodeInv, InFrame

-----------------------------------------------------------------------------
(* The casts never enlarge a natural number.                               *)
LEMMA Casts ==
  ASSUME NEW n \in Nat
  PROVE  /\ AsU8(n) \in Nat /\ AsU8(n) <= n
         /\ AsU16(n) \in Nat /\ AsU16(n) <= n
<1>1. \A d \in Nat \ {0} : n % d \in Nat /\ n % d <= n
  OBVIOUS
<1> QED BY <1>1, WidthsPositive DEF AsU8, AsU16

(* The instructions the first pass emits, kind by kind.                    *)
LEMMA FitPlain ==
  ASSUME NEW inst,
         inst.op \notin BinaryOps \cup {"MOV", "STORE_LOC", "SET_LOC", "PUSH_CONST", "LOAD_LOC"}
  PROVE  Fit(inst)
<1>1. SourceRegisters(inst) = {}
  BY DEF SourceRegisters
<1> QED BY <1>1 DEF Fit, InFrame, ReadsBelow

LEMMA FitConst ==
  ASSUME NEW dst, NEW i \in DOMAIN cpool
  PROVE  Fit(Reg("PUSH_CONST", dst, i, 0))
<1>1. AsU16(i) \in DOMAIN cpool
  <2>1. i \in Nat /\ 0..i \subseteq DOMAIN cpool
    BY FrameAssumption
  <2> QED BY <2>1, Casts
<1>2. SourceRegisters(Reg("PUSH_CONST", dst, i, 0)) = {}
  BY DEF SourceRegisters, Reg, BinaryOps, ArithOps, BitOps, CompareOps
<1> QED BY <1>1, <1>2 DEF Fit, InFrame, ReadsBelow, Reg

LEMMA FitLoad ==
  ASSUME NEW dst, NEW i \in 0..NumLocals - 1
  PROVE  Fit(Reg("LOAD_LOC", dst, i, 0))
<1>1. AsU16(i) \in 0..NumLocals - 1
  <2>1. i \in Nat /\ NumLocals \in Nat
    BY FrameAssumption
  <2> QED BY <2>1, Casts
<1>2. SourceRegisters(Reg("LOAD_LOC", dst, i, 0)) = {}
  BY DEF SourceRegisters, Reg, BinaryOps, ArithOps, BitOps, CompareOps
<1> QED BY <1>1, <1>2 DEF Fit, InFrame, ReadsBelow, Reg

LEMMA FitStore ==
  ASSUME NEW op \in {"STORE_LOC", "SET_LOC"}, NEW i \in 0..NumLocals - 1,
         NEW src \in Nat, NEW n \in Nat, n = stack_height + Scratch(Cell0), src < n
  PROVE  Fit(Reg(op, i, src, 0))
<1>1. AsU8(i) \in 0..NumLocals - 1
  <2>1. i \in Nat /\ NumLocals \in Nat
    BY FrameAssumption
  <2> QED BY <2>1, Casts
<1>2. AsU16(src) \in 0..n - 1
  BY Casts
<1>3. SourceRegisters(Reg(op, i, src, 0)) = {AsU16(src)}
  BY DEF SourceRegisters, Reg, BinaryOps, ArithOps, BitOps, CompareOps
<1> QED BY <1>1, <1>2, <1>3 DEF Fit, InFrame, ReadsBelow, Reg

LEMMA FitMov ==
  ASSUME NEW dst, NEW src \in Nat, NEW n \in Nat, n = stack_height + Scratch(Cell0), src < n
  PROVE  Fit(Reg("MOV", dst, src, 0))
<1>1. AsU16(src) \in 0..n - 1
  BY Casts
<1>2. SourceRegisters(Reg("MOV", dst, src, 0)) = {AsU16(src)}
  BY DEF SourceRegisters, Reg, BinaryOps, ArithOps, BitOps, CompareOps
<1> QED BY <1>1, <1>2 DEF Fit, InFrame, ReadsBelow, Reg

LEMMA FitBinary ==
  ASSUME NEW op \in BinaryOps, NEW dst, NEW src1 \in Nat, NEW src2 \in Nat,
         NEW n \in Nat, n = stack_height + Scratch(Cell0), src1 < n, src2 < n
  PROVE  Fit(Reg(op, dst, src1, src2))
<1>1. AsU16(src1) \in 0..n - 1 /\ AsU16(src2) \in 0..n - 1
  BY Casts
<1>2. SourceRegisters(Reg(op, dst, src1, src2)) = {AsU16(src1), AsU16(src2)}
  BY DEF SourceRegisters, Reg, BinaryOps, ArithOps, BitOps, CompareOps
<1>3. op \notin {"PUSH_CONST", "LOAD_LOC", "STORE_LOC", "SET_LOC"}
  BY DEF BinaryOps, ArithOps, BitOps, CompareOps
<1> QED BY <1>1, <1>2, <1>3 DEF Fit, InFrame, ReadsBelow, Reg

(* A list of one, two, three or four fit instructions.                     *)
FitCode(code) == /\ \E T : code \in Seq(T)
                 /\ \A i \in 1..Len(code) : Fit(code[i])

LEMMA FitCodes ==
  ASSUME NEW a, Fit(a)
  PROVE  /\ FitCode(<<a>>)
         /\ \A b : Fit(b) =>
              /\ FitCode(<<a, b>>)
              /\ \A c : Fit(c) =>
                   /\ FitCode(<<a, b, c>>)
                   /\ \A d : Fit(d) => FitCode(<<a, b, c, d>>)
<1>1. FitCode(<<a>>)
  <2>1. <<a>> \in Seq({a})
    BY ShortSeqs
  <2>2. \A i \in 1..Len(<<a>>) : Fit(<<a>>[i])
    OBVIOUS
  <2> QED BY <2>1, <2>2 DEF FitCode
<1> SUFFICES ASSUME NEW b, Fit(b), NEW c, Fit(c), NEW d, Fit(d)
             PROVE  FitCode(<<a, b>>) /\ FitCode(<<a, b, c>>) /\ FitCode(<<a, b, c, d>>)
  <2>1. FitCode(<<a>>)
    BY <1>1
  <2> QED BY <2>1
<1>2. FitCode(<<a, b>>)
  <2>1. <<a, b>> \in Seq({a, b})
    BY ShortSeqs
  <2>2. \A i \in 1..Len(<<a, b>>) : Fit(<<a, b>>[i])
    OBVIOUS
  <2> QED BY <2>1, <2>2 DEF FitCode
<1>3. FitCode(<<a, b, c>>)
  <2>1. <<a, b, c>> \in Seq({a, b, c})
    BY ShortSeqs
  <2>2. \A i \in 1..Len(<<a, b, c>>) : Fit(<<a, b, c>>[i])
    OBVIOUS
  <2> QED BY <2>1, <2>2 DEF FitCode
<1>4. FitCode(<<a, b, c, d>>)
  <2>1. <<a, b, c, d>> \in Seq({a, b, c, d})
    BY ShortSeqs
  <2>2. \A i \in 1..Len(<<a, b, c, d>>) : Fit(<<a, b, c, d>>[i])
    OBVIOUS
  <2> QED BY <2>1, <2>2 DEF FitCode
<1> QED BY <1>2, <1>3, <1>4

(* The first pass keeps CodeInv.                                           *)
LEMMA FirstPassKeepsCode ==
  ASSUME CompilerInv, CodeInv,
         \/ PushI32 \/ PushConst \/ PushPrimitive \/ Drop \/ Dup
         \/ GetLoc \/ GetLoc0Loc1 \/ PutLoc \/ SetLoc \/ AddLoc \/ IncDecLoc
         \/ BinaryOp \/ ReturnTop \/ ReturnUndef \/ Goto \/ IfJump
  PROVE  CodeInv'
<1> DEFINE h == stack_height
           n == h + Scratch(Cell0)
<1>1. Scanning /\ ~OperandMissing /\ ~Underflow
  BY DEF PushI32, PushConst, PushPrimitive, Drop, Dup, GetLoc, GetLoc0Loc1, PutLoc,
         SetLoc, AddLoc, IncDecLoc, BinaryOp, ReturnTop, ReturnUndef, Goto, IfJump, Decode
<1>2. /\ h \in Nat /\ Cell0.arg \in Int
      /\ Cell0.op \in NeedsOne => h >= 1
      /\ Cell0.op \in NeedsTwo => h >= 2
  BY <1>1, CurrentCell DEF CompilerInv, CompilerTypeOK, Underflow
<1>3. n \in Nat /\ h <= n
  BY <1>2 DEF Scratch
<1>4. NamesInFrame(Cell0)
  <2>1. pc + 1 \in DOMAIN bytecode
    <3>1. pc + 1 \in 1..Len(bytecode) /\ bytecode \in Seq(Cell)
      BY <1>1, CurrentCell DEF CompilerInv, CompilerTypeOK
    <3> QED BY <3>1, LenProperties
  <2> QED BY <2>1, OperandsAssumption DEF CodeInv, Cell0
<1>5. ASSUME NEW code, FitCode(code), NEW height, height = h + StackEffect(Cell0),
             Emit(code, height)
      PROVE  CodeInv'
  BY <1>1, <1>5, EmitKeepsCode DEF FitCode
<1> USE DEF Decode
<1>6. CASE PushI32
  <2>1. Fit(PushInt(h, Cell0.arg))
    BY FitPlain DEF PushInt, BinaryOps, ArithOps, BitOps, CompareOps
  <2>2. h + 1 = h + StackEffect(Cell0)
    BY <1>6 DEF PushI32, StackEffect
  <2> QED BY <1>5, <1>6, <2>1, <2>2, FitCodes DEF PushI32
<1>7. CASE PushConst
  <2>1. Cell0.arg \in DOMAIN cpool
    BY <1>4, <1>7 DEF NamesInFrame, PushConst
  <2>2. Fit(Reg("PUSH_CONST", h, Cell0.arg, 0))
    BY <2>1, FitConst
  <2>3. h + 1 = h + StackEffect(Cell0)
    BY <1>7 DEF PushConst, StackEffect
  <2> QED BY <1>5, <1>7, <2>2, <2>3, FitCodes DEF PushConst
<1>8. CASE PushPrimitive
  <2>1. RegOpOf[Cell0.op] \in {"UNDEFINED", "NULL", "PUSH_FALSE", "PUSH_TRUE"}
    BY <1>8 DEF PushPrimitive, PrimitiveOpcodes, RegOpOf
  <2>2. Fit(Reg(RegOpOf[Cell0.op], h, 0, 0))
    BY <2>1, FitPlain DEF Reg, BinaryOps, ArithOps, BitOps, CompareOps
  <2>3. h + 1 = h + StackEffect(Cell0)
    BY <1>8 DEF PushPrimitive, StackEffect, PrimitiveOpcodes
  <2> QED BY <1>5, <1>8, <2>2, <2>3, FitCodes DEF PushPrimitive
<1>9. CASE Drop
  <2>1. Fit(Reg("DROP", h - 1, 0, 0))
    BY FitPlain DEF Reg, BinaryOps, ArithOps, BitOps, CompareOps
  <2>2. h - 1 = h + StackEffect(Cell0)
    BY <1>2, <1>9 DEF Drop, StackEffect, PrimitiveOpcodes
  <2> QED BY <1>5, <1>9, <2>1, <2>2, FitCodes DEF Drop
<1>10. CASE Dup
  <2>1. h - 1 \in Nat /\ h - 1 < n
    BY <1>2, <1>3, <1>10 DEF Dup, NeedsOne
  <2>2. Fit(Reg("MOV", h, h - 1, 0))
    BY <1>3, <2>1, FitMov
  <2>3. h + 1 = h + StackEffect(Cell0)
    BY <1>10 DEF Dup, StackEffect
  <2> QED BY <1>5, <1>10, <2>2, <2>3, FitCodes DEF Dup
<1>11. CASE GetLoc
  <2>1. Cell0.arg \in 0..NumLocals - 1
    BY <1>4, <1>11 DEF NamesInFrame, GetLoc, LocalOpcodes
  <2>2. Fit(Reg("LOAD_LOC", h, Cell0.arg, 0))
    BY <2>1, FitLoad
  <2>3. h + 1 = h + StackEffect(Cell0)
    BY <1>11 DEF GetLoc, StackEffect
  <2> QED BY <1>5, <1>11, <2>2, <2>3, FitCodes DEF GetLoc
<1>12. CASE GetLoc0Loc1
  <2>1. 0 \in 0..NumLocals - 1 /\ 1 \in 0..NumLocals - 1
    BY <1>4, <1>12, FrameAssumption DEF NamesInFrame, GetLoc0Loc1
  <2>2. Fit(Reg("LOAD_LOC", h, 0, 0)) /\ Fit(Reg("LOAD_LOC", h + 1, 1, 0))
    BY <2>1, FitLoad
  <2>3. h + 2 = h + StackEffect(Cell0)
    BY <1>2, <1>12 DEF GetLoc0Loc1, StackEffect, PrimitiveOpcodes
  <2>4. FitCode(<<Reg("LOAD_LOC", h, 0, 0), Reg("LOAD_LOC", h + 1, 1, 0)>>)
    BY <2>2, FitCodes
  <2> QED BY <1>5, <1>12, <2>3, <2>4 DEF GetLoc0Loc1
<1>13. CASE PutLoc
  <2>1. Cell0.arg \in 0..NumLocals - 1
    BY <1>4, <1>13 DEF NamesInFrame, PutLoc, LocalOpcodes
  <2>2. h - 1 \in Nat /\ h - 1 < n
    BY <1>2, <1>3, <1>13 DEF PutLoc, NeedsOne
  <2>3. Fit(Reg("STORE_LOC", Cell0.arg, h - 1, 0))
    BY <1>3, <2>1, <2>2, FitStore
  <2>4. h - 1 = h + StackEffect(Cell0)
    BY <1>2, <1>13 DEF PutLoc, StackEffect, PrimitiveOpcodes
  <2> QED BY <1>5, <1>13, <2>3, <2>4, FitCodes DEF PutLoc
<1>14. CASE SetLoc
  <2>1. Cell0.arg \in 0..NumLocals - 1
    BY <1>4, <1>14 DEF NamesInFrame, SetLoc, LocalOpcodes
  <2>2. h - 1 \in Nat /\ h - 1 < n
    BY <1>2, <1>3, <1>14 DEF SetLoc, NeedsOne
  <2>3. Fit(Reg("SET_LOC", Cell0.arg, h - 1, 0))
    BY <1>3, <2>1, <2>2, FitStore
  <2>4. h = h + StackEffect(Cell0)
    BY <1>2, <1>14 DEF SetLoc, StackEffect, PrimitiveOpcodes
  <2> QED BY <1>5, <1>14, <2>3, <2>4, FitCodes DEF SetLoc
<1>15. CASE AddLoc
  <2> DEFINE temp == AsU8(h)
  <2>1. Cell0.arg \in 0..NumLocals - 1
    BY <1>4, <1>15 DEF NamesInFrame, AddLoc, LocalOpcodes
  <2>2. h - 1 \in Nat /\ h - 1 < n /\ h + 1 = n
    BY <1>2, <1>3, <1>15 DEF AddLoc, NeedsOne, Scratch
  <2>3. temp \in Nat /\ temp < n
    BY <1>2, <1>3, <2>2, Casts
  <2> HIDE DEF temp
  <2>4. /\ Fit(Reg("LOAD_LOC", temp, Cell0.arg, 0))
        /\ Fit(Reg("ADD", temp, temp, h - 1))
        /\ Fit(Reg("STORE_LOC", Cell0.arg, temp, 0))
    <3>1. "ADD" \in BinaryOps
      BY DEF BinaryOps, ArithOps
    <3> QED BY <1>3, <2>1, <2>2, <2>3, <3>1, FitLoad, FitBinary, FitStore
  <2>5. FitCode(<<Reg("LOAD_LOC", temp, Cell0.arg, 0), Reg("ADD", temp, temp, h - 1),
                  Reg("STORE_LOC", Cell0.arg, temp, 0)>>)
    BY <2>4, FitCodes
  <2>6. h - 1 = h + StackEffect(Cell0)
    BY <1>2, <1>15 DEF AddLoc, StackEffect, PrimitiveOpcodes
  <2> QED BY <1>5, <1>15, <2>5, <2>6 DEF AddLoc, temp
<1>16. CASE IncDecLoc
  <2> DEFINE temp == AsU8(h)
             temp2 == AsU8(h + 1)
             val == IF Cell0.op = "inc_loc" THEN 1 ELSE -1
  <2>1. Cell0.arg \in 0..NumLocals - 1
    BY <1>4, <1>16 DEF NamesInFrame, IncDecLoc, LocalOpcodes
  <2>2. h + 2 = n
    BY <1>2, <1>3, <1>16 DEF IncDecLoc, Scratch
  <2>3. temp \in Nat /\ temp < n /\ temp2 \in Nat /\ temp2 < n
    BY <1>2, <1>3, <2>2, Casts
  <2> HIDE DEF temp, temp2, val
  <2>4. /\ Fit(PushInt(temp, val))
        /\ Fit(Reg("LOAD_LOC", temp2, Cell0.arg, 0))
        /\ Fit(Reg("ADD", temp2, temp2, temp))
        /\ Fit(Reg("STORE_LOC", Cell0.arg, temp2, 0))
    <3>1. "ADD" \in BinaryOps
      BY DEF BinaryOps, ArithOps
    <3>2. Fit(PushInt(temp, val))
      BY FitPlain DEF PushInt, BinaryOps, ArithOps, BitOps, CompareOps
    <3> QED BY <1>3, <2>1, <2>2, <2>3, <3>1, <3>2, FitLoad, FitBinary, FitStore
  <2>5. FitCode(<<PushInt(temp, val), Reg("LOAD_LOC", temp2, Cell0.arg, 0),
                  Reg("ADD", temp2, temp2, temp), Reg("STORE_LOC", Cell0.arg, temp2, 0)>>)
    BY <2>4, FitCodes
  <2>6. h = h + StackEffect(Cell0)
    BY <1>2, <1>16 DEF IncDecLoc, StackEffect, PrimitiveOpcodes
  <2> QED BY <1>5, <1>16, <2>5, <2>6 DEF IncDecLoc, temp, temp2, val
<1>17. CASE BinaryOp
  <2>1. RegOpOf[Cell0.op] \in BinaryOps
    BY <1>17 DEF BinaryOp, RegOpOf, BinaryOpcodes, ComparisonOpcodes, BinaryOps, ArithOps,
                 BitOps, CompareOps
  <2>2. h - 2 \in Nat /\ h - 2 < n /\ h - 1 \in Nat /\ h - 1 < n
    BY <1>2, <1>3, <1>17 DEF BinaryOp, NeedsTwo
  <2>3. Fit(Reg(RegOpOf[Cell0.op], h - 2, h - 2, h - 1))
    BY <1>3, <2>1, <2>2, FitBinary
  <2>4. h - 1 = h + StackEffect(Cell0)
    BY <1>2, <1>17 DEF BinaryOp, StackEffect, PrimitiveOpcodes, BinaryOpcodes, ComparisonOpcodes
  <2> QED BY <1>5, <1>17, <2>3, <2>4, FitCodes DEF BinaryOp
<1>18. CASE ReturnTop
  <2>1. Fit(Reg("RETURN", h - 1, 0, 0))
    BY FitPlain DEF Reg, BinaryOps, ArithOps, BitOps, CompareOps
  <2>2. h - 1 = h + StackEffect(Cell0)
    BY <1>2, <1>18 DEF ReturnTop, StackEffect, PrimitiveOpcodes
  <2> QED BY <1>5, <1>18, <2>1, <2>2, FitCodes DEF ReturnTop
<1>19. CASE ReturnUndef
  <2>1. Fit(Reg("RETURN_UNDEF", 0, 0, 0))
    BY FitPlain DEF Reg, BinaryOps, ArithOps, BitOps, CompareOps
  <2>2. h = h + StackEffect(Cell0)
    BY <1>2, <1>19 DEF ReturnUndef, StackEffect, PrimitiveOpcodes
  <2> QED BY <1>5, <1>19, <2>1, <2>2, FitCodes DEF ReturnUndef
<1>20. CASE Goto
  <2>1. Fit(Reg("JMP", 0, 0, 0))
    BY FitPlain DEF Reg, BinaryOps, ArithOps, BitOps, CompareOps
  <2>2. h = h + StackEffect(Cell0)
    BY <1>2, <1>20 DEF Goto, StackEffect, PrimitiveOpcodes
  <2> QED BY <1>5, <1>20, <2>1, <2>2, FitCodes DEF Goto
<1>21. CASE IfJump
  <2>1. RegOpOf[Cell0.op] \in {"IF_FALSE", "IF_TRUE"}
    BY <1>21 DEF IfJump, RegOpOf, BranchOpcodes
  <2>2. Fit(Reg(RegOpOf[Cell0.op], h - 1, 0, 0))
    BY <2>1, FitPlain DEF Reg, BinaryOps, ArithOps, BitOps, CompareOps
  <2>3. h - 1 = h + StackEffect(Cell0)
    BY <1>2, <1>21 DEF IfJump, StackEffect, PrimitiveOpcodes, BranchOpcodes
  <2> QED BY <1>5, <1>21, <2>2, <2>3, FitCodes DEF IfJump
<1> QED
  BY <1>6, <1>7, <1>8, <1>9, <1>10, <1>11, <1>12, <1>13, <1>14, <1>15, <1>16, <1>17,
     <1>18, <1>19, <1>20, <1>21

(* Patching changes the target of a jump, which reads no slot.             *)
LEMMA PatchKeepsCode ==
  ASSUME CompilerInv, JumpsInv, CodeInv, result = "patching", jumps_to_patch # <<>>,
         NEW index, PatchWith(Head(jumps_to_patch), index)
  PROVE  CodeInv'
<1> DEFINE N == Len(reg_instructions)
           k == Head(jumps_to_patch).inst_idx + 1
           new == [reg_instructions EXCEPT ![k].src1 = AsU16(index)]
<1>1. /\ reg_instructions \in Seq(RegInstruction) /\ N \in Nat
      /\ DOMAIN reg_instructions = 1 .. N
      /\ \A i \in 1 .. N : reg_instructions[i] \in RegInstruction
  BY LenProperties, ElementOfSeq DEF CompilerInv, CompilerTypeOK
<1>2. /\ reg_instructions' = new
      /\ UNCHANGED <<bytecode, pc, stack_height, pc_to_inst_idx, result>>
  BY DEF PatchWith
<1>3. /\ Len(new) = N
      /\ \A i \in 1 .. N : /\ new[i].op = reg_instructions[i].op
                           /\ i # k => new[i] = reg_instructions[i]
  <2>1. DOMAIN new = 1 .. N
    BY <1>1
  <2>2. \A i \in 1 .. N : /\ new[i].op = reg_instructions[i].op
                          /\ i # k => new[i] = reg_instructions[i]
    BY <1>1 DEF RegInstruction
  <2>3. new \in [1 .. N -> {new[i] : i \in 1 .. N}]
    BY <2>1
  <2>4. Len(new) = N
    BY <1>1, <2>1, <2>3, LenProperties, SeqDef
  <2> QED BY <2>2, <2>4
<1>4. reg_instructions[k].op \in JumpOps
  <2>1. jumps_to_patch \in Seq(Patch) /\ Len(jumps_to_patch) \in Nat \ {0}
        /\ Head(jumps_to_patch) = jumps_to_patch[1]
    BY EmptySeq, LenProperties, HeadTailProperties DEF CompilerInv, CompilerTypeOK
  <2>2. PICK q \in JumpOffsets : jumps_to_patch[1] = JumpAt(q)
    BY <2>1 DEF JumpsInv
  <2>3. k = pc_to_inst_idx[q] + 1
    BY <2>1, <2>2 DEF JumpAt
  <2> QED BY <2>2, <2>3 DEF JumpsInv
<1> HIDE DEF new, k
<1>5. ASSUME NEW inst, inst.op \in JumpOps
      PROVE  InFrame(inst) /\ SourceRegisters(inst) = {}
  BY <1>5 DEF JumpOps, InFrame, SourceRegisters, BinaryOps, ArithOps, BitOps, CompareOps
<1>6. ASSUME NEW i \in 1 .. N
      PROVE  /\ InFrame(new[i])
             /\ SourceRegisters(new[i]) \subseteq SourceRegisters(reg_instructions[i])
  <2>1. CASE i = k
    <3>1. new[i].op \in JumpOps
      BY <1>3, <1>4, <2>1
    <3> QED BY <1>5, <3>1
  <2>2. CASE i # k
    BY <1>3, <2>2 DEF CodeInv
  <2> QED BY <2>1, <2>2
<1>7. \A p : HeightAt'[p] = HeightAt[p] /\ (Mapped(p)' <=> Mapped(p))
  BY <1>2 DEF HeightAt, Mapped
<1>8. ASSUME NEW i \in 1 .. N
      PROVE  /\ InFrame(reg_instructions'[i])
             /\ \E p \in 0 .. Len(bytecode) - 1 : FromOffset(reg_instructions[i], p)'
  <2>1. PICK p \in 0 .. Len(bytecode) - 1 : FromOffset(reg_instructions[i], p)
    BY DEF CodeInv
  <2>2. FromOffset(reg_instructions[i], p)'
    BY <1>2, <1>6, <1>7, <2>1 DEF FromOffset, ReadsBelow
  <2> QED BY <1>2, <1>6, <2>2
<1> QED BY <1>2, <1>3, <1>7, <1>8 DEF CodeInv, InFrame

(* Only the last offset the first pass saw gets an index when it ends.     *)
LEMMA EndOfFirstPassKeepsCode ==
  ASSUME CompilerInv, CodeInv, Reject \/ EndScan
  PROVE  CodeInv'
<1>1. /\ UNCHANGED <<bytecode, pc, stack_height, reg_instructions>>
      /\ pc \in Nat /\ Len(bytecode) \in Nat /\ pc <= Len(bytecode)
  BY LenProperties DEF Reject, EndScan, CompilerInv, CompilerTypeOK
<1>2. \A p \in 0 .. pc - 1 : pc_to_inst_idx'[p] = pc_to_inst_idx[p]
  BY <1>1 DEF Reject, EndScan, CompilerInv, CompilerTypeOK
<1>3. \A p \in 0 .. pc : HeightAt'[p] = HeightAt[p]
  BY <1>1, <1>2, HeightsKept
<1>4. ASSUME NEW i \in 1 .. Len(reg_instructions)
      PROVE  \E p \in 0 .. Len(bytecode) - 1 : FromOffset(reg_instructions[i], p)'
  <2>1. PICK p \in 0 .. Len(bytecode) - 1 : FromOffset(reg_instructions[i], p)
    BY DEF CodeInv
  <2>2. p \in 0 .. pc - 1 /\ p \in 0 .. pc
    BY <1>1, <2>1 DEF FromOffset
  <2>3. FromOffset(reg_instructions[i], p)'
    BY <1>1, <1>2, <1>3, <2>1, <2>2 DEF FromOffset, ReadsBelow, Mapped
  <2> QED BY <2>3
<1>5. pc \in 0 .. pc
  BY <1>1
<1> QED BY <1>1, <1>3, <1>4, <1>5 DEF CodeInv, InFrame

LEMMA CodeInvHolds == CompilerSafety => []CodeInv
<1>1. CompilerInit => CodeInv
  <2> SUFFICES ASSUME CompilerInit PROVE CodeInv
    OBVIOUS
  <2>1. bytecode \in Seq(Cell) /\ bytecode \in Bytecodes /\ pc = 0 /\ stack_height = 0
    BY BytecodesAssumption DEF CompilerInit
  <2>2. HeightAt[0] = 0
    BY <2>1, HeightsEquation DEF HeightAt
  <2>3. Len(reg_instructions) = 0
    BY EmptySeq DEF CompilerInit
  <2> QED BY <2>1, <2>2, <2>3 DEF CodeInv
<1>2. CompilerInv /\ JumpsInv /\ CodeInv /\ [CompilerNext]_compiler_vars => CodeInv'
  <2> SUFFICES ASSUME CompilerInv, JumpsInv, CodeInv, [CompilerNext]_compiler_vars
               PROVE  CodeInv'
    OBVIOUS
  <2>1. CASE \/ PushI32 \/ PushConst \/ PushPrimitive \/ Drop \/ Dup
             \/ GetLoc \/ GetLoc0Loc1 \/ PutLoc \/ SetLoc \/ AddLoc \/ IncDecLoc
             \/ BinaryOp \/ ReturnTop \/ ReturnUndef \/ Goto \/ IfJump
    BY <2>1, FirstPassKeepsCode
  <2>2. CASE Reject \/ EndScan
    BY <2>2, EndOfFirstPassKeepsCode
  <2>3. CASE PatchBeyondEnd
    BY <2>3, PatchKeepsCode DEF PatchBeyondEnd
  <2>4. CASE PatchJump
    BY <2>4, PatchKeepsCode DEF PatchJump
  <2>5. CASE PatchFails \/ Finish \/ UNCHANGED compiler_vars
    BY <2>5 DEF PatchFails, Finish, compiler_vars, CodeInv, FromOffset, HeightAt, Mapped, InFrame,
                ReadsBelow
  <2> QED BY <2>1, <2>2, <2>3, <2>4, <2>5 DEF CompilerNext
<1> QED BY <1>1, <1>2, CompilerInvHolds, JumpsInvHolds, PTL DEF CompilerSafety

-----------------------------------------------------------------------------
(* A run of the compiled code.                                             *)

(* The VM leaves the compiler's variables alone.                           *)
LEMMA CompilerInside == Spec => CompilerSafety
<1>1. Init => CompilerInit
  BY DEF Init
<1>2. [Next]_vm_vars => [CompilerNext]_compiler_vars
  BY DEF Next, vm_vars
<1> QED BY <1>1, <1>2, PTL DEF Spec, CompilerSafety

(* The types of the run's variables.                                       *)
RunTypeOK ==
  /\ vpc \in Nat
  /\ regs \in [0 .. U8 - 1 -> Value]
  /\ var_buf \in [0 .. NumLocals - 1 -> Value]
  /\ refs \in Int
  /\ vm.kind \in {"running", "returned", "handed_over", "panicked"}
  /\ vm.value \in Value

LEMMA RefChanges ==
  ASSUME NEW x
  PROVE  js_dup(x) \in Int /\ js_free(x) \in Int /\ js_free(x) = -js_dup(x)
BY DEF js_dup, js_free

LEMMA FreeAllIsInt ==
  ASSUME RunTypeOK, NEW rs, rs \subseteq DOMAIN regs
  PROVE  FreeAll(rs) \in Int
<1> DEFINE S == {r \in rs : IsRef(regs[r])}
<1>1. U8 \in Nat /\ S \subseteq 0 .. U8 - 1
  BY WidthsPositive DEF RunTypeOK
<1>2. IsFiniteSet(S)
  <2>1. IsFiniteSet(0 .. U8 - 1)
    BY <1>1, FS_Interval
  <2> HIDE DEF S
  <2> QED BY <1>1, <2>1, FS_Subset
<1>3. Cardinality(S) \in Nat
  BY <1>2, FS_CardinalityType
<1> QED BY <1>3 DEF FreeAll

(* The instruction the VM is at, and what it may count on.                 *)
LEMMA CurrentInstruction ==
  ASSUME CompilerInv, CodeInv, RunTypeOK, AtInstruction
  PROVE  /\ Inst \in RegInstruction
         /\ Inst.dst \in 0 .. U8 - 1
         /\ Inst.src1 \in Nat
         /\ vpc + 1 \in 1 .. Len(reg_instructions)
         /\ InFrame(Inst)
<1>1. vpc + 1 \in 1 .. Len(reg_instructions) /\ reg_instructions \in Seq(RegInstruction)
  BY LenProperties DEF CompilerInv, CompilerTypeOK, RunTypeOK, AtInstruction
<1>2. Inst \in RegInstruction
  BY <1>1, ElementOfSeq DEF Inst
<1>3. Inst.dst \in 0 .. U8 - 1 /\ Inst.src1 \in 0 .. U16 - 1
  BY <1>2 DEF RegInstruction
<1>4. Inst.src1 \in Nat
  BY <1>3, WidthsPositive
<1> QED BY <1>1, <1>2, <1>3, <1>4 DEF CodeInv, Inst

LEMMA WriteRegType ==
  ASSUME RunTypeOK, NEW x \in Value, WriteReg(x)
  PROVE  /\ vpc' \in Nat
         /\ regs' \in [0 .. U8 - 1 -> Value]
         /\ var_buf' \in [0 .. NumLocals - 1 -> Value]
         /\ vm'.kind \in {"running", "returned", "handed_over", "panicked"}
         /\ vm'.value \in Value
<1>1. vpc' = vpc + 1 /\ var_buf' = var_buf /\ vm' = vm /\ regs' = [regs EXCEPT ![Inst.dst] = x]
  BY DEF WriteReg
<1>2. regs' \in [0 .. U8 - 1 -> Value]
  BY <1>1 DEF RunTypeOK
<1> QED BY <1>1, <1>2 DEF RunTypeOK

LEMMA VMStepType ==
  ASSUME CompilerInv, CodeInv, RunTypeOK, VMStep
  PROVE  RunTypeOK'
<1>1. ASSUME NEW ops, Executing(ops)
      PROVE  /\ AtInstruction /\ Inst.op \in ops
             /\ Inst.dst \in DOMAIN regs /\ regs[Inst.dst] \in Value
             /\ Inst.src1 \in Nat
             /\ \A r \in SourceRegisters(Inst) : r \in DOMAIN regs /\ regs[r] \in Value
             /\ InFrame(Inst)
  <2>1. AtInstruction /\ Inst.op \in ops /\ InRange(Inst)
    BY <1>1 DEF Executing
  <2> QED BY <2>1, CurrentInstruction DEF InRange, RunTypeOK
<1>2. ASSUME NEW x \in Value, WriteReg(x), refs' \in Int
      PROVE  RunTypeOK'
  BY <1>2, WriteRegType DEF RunTypeOK
<1>3. refs \in Int /\ vpc \in Nat /\ vpc + 1 \in Nat
  BY DEF RunTypeOK
<1>4. CASE VMPushImmediate
  <2>1. ImmediateValue(Inst) \in Value
    <3>1. Inst \in RegInstruction
      BY <1>1, <1>4, CurrentInstruction DEF VMPushImmediate
    <3>2. reg_i32(Inst) \in Int
      <4>1. Inst.src1 \in Int /\ Inst.src2 \in Int /\ U16 \in Int
        BY <3>1, WidthsPositive DEF RegInstruction
      <4>2. Inst.src1 + Inst.src2 * U16 \in Int
        BY <4>1
      <4> QED BY <4>2, WrapIsInt DEF reg_i32
    <3>3. MkInt(reg_i32(Inst)) \in Value /\ Undefined \in Value /\ Null \in Value
          /\ MkBool(Inst.op = "PUSH_TRUE") \in Value
      BY <3>2, MadeValues DEF Primitive
    <3> QED BY <3>3 DEF ImmediateValue
  <2> QED BY <1>2, <1>3, <1>4, <2>1 DEF VMPushImmediate
<1>5. CASE VMPushConst
  <2>1. cpool[Inst.src1] \in Value
    BY <1>1, <1>5, FrameAssumption DEF VMPushConst, InFrame
  <2> QED BY <1>2, <1>3, <1>5, <2>1, RefChanges DEF VMPushConst
<1>6. CASE VMDrop
  BY <1>3, <1>6, RefChanges DEF VMDrop, RunTypeOK
<1>7. CASE VMMov
  <2>1. regs[Inst.src1] \in Value
    <3>1. SourceRegisters(Inst) = {Inst.src1}
      BY <1>1, <1>7 DEF VMMov, SourceRegisters, BinaryOps, ArithOps, BitOps, CompareOps
    <3> QED BY <1>1, <1>7, <3>1 DEF VMMov
  <2> QED BY <1>2, <1>3, <1>7, <2>1, RefChanges DEF VMMov
<1>8. CASE VMLoadLoc
  <2>1. var_buf[Inst.src1] \in Value
    BY <1>1, <1>8 DEF VMLoadLoc, InFrame, RunTypeOK
  <2> QED BY <1>2, <1>3, <1>8, <2>1, RefChanges DEF VMLoadLoc
<1>9. CASE VMStoreLoc
  <2> DEFINE val == regs[Inst.src1]
  <2>1. val \in Value
    <3>1. SourceRegisters(Inst) = {Inst.src1}
      BY <1>1, <1>9 DEF VMStoreLoc, SourceRegisters, BinaryOps, ArithOps, BitOps, CompareOps
    <3> QED BY <1>1, <1>9, <3>1 DEF VMStoreLoc
  <2>2. /\ var_buf' = [var_buf EXCEPT ![Inst.dst] = val]
        /\ refs' = refs + js_free(var_buf[Inst.dst])
                        + IF Inst.op = "SET_LOC" THEN js_dup(val) ELSE 0
        /\ vpc' = vpc + 1 /\ regs' = regs /\ vm' = vm
    BY <1>9 DEF VMStoreLoc
  <2> HIDE DEF val
  <2>3. refs' \in Int
    BY <1>3, <2>2, RefChanges
  <2>4. var_buf' \in [0 .. NumLocals - 1 -> Value]
    BY <2>1, <2>2 DEF RunTypeOK
  <2> QED BY <1>3, <2>2, <2>3, <2>4 DEF RunTypeOK
<1>10. CASE VMBinary
  <2>1. vm_binary(Inst.op, regs[Inst.src1], regs[Inst.src2]) \in Value
    <3>1. Inst.op \in BinaryOps /\ SourceRegisters(Inst) = {Inst.src1, Inst.src2}
      BY <1>1, <1>10 DEF VMBinary, SourceRegisters, BinaryOps, ArithOps, BitOps, CompareOps
    <3>2. regs[Inst.src1] \in Value /\ regs[Inst.src2] \in Value
      BY <1>1, <1>10, <3>1 DEF VMBinary
    <3> QED BY <3>1, <3>2, vm_binaryType DEF Primitive
  <2> QED BY <1>2, <1>3, <1>10, <2>1 DEF VMBinary
<1>11. CASE VMJump
  <2>1. vpc' \in Nat
    BY <1>1, <1>11 DEF VMJump
  <2> QED BY <1>11, <2>1 DEF VMJump, RunTypeOK
<1>12. CASE VMBranch
  <2>1. vpc' \in Nat
    BY <1>1, <1>3, <1>12 DEF VMBranch
  <2> QED BY <1>12, <2>1 DEF VMBranch, RunTypeOK
<1>13. CASE VMReturn
  <2>1. vm'.kind = "returned" /\ vm'.value \in Value
    BY <1>1, <1>13 DEF VMReturn, VMReturned
  <2>2. refs' \in Int
    BY <1>3, <1>13, FreeAllIsInt DEF VMReturn
  <2> QED BY <1>13, <2>1, <2>2 DEF VMReturn, RunTypeOK
<1>14. CASE VMReturnUndef
  <2>1. vm'.kind = "returned" /\ vm'.value \in Value
    BY <1>14, MadeValues DEF VMReturnUndef, VMReturned, Primitive
  <2>2. refs' \in Int
    BY <1>3, <1>14, FreeAllIsInt DEF VMReturnUndef
  <2> QED BY <1>14, <2>1, <2>2 DEF VMReturnUndef, RunTypeOK
<1>15. CASE VMBail
  <2>1. vm'.kind = "handed_over" /\ vm'.value \in Value
    BY <1>15, MadeValues DEF VMBail, VMBailed, Primitive
  <2>2. refs' \in Int
    BY <1>3, <1>15, FreeAllIsInt DEF VMBail
  <2> QED BY <1>15, <2>1, <2>2 DEF VMBail, RunTypeOK
<1>16. CASE VMPanic
  <2>1. vm'.kind = "panicked" /\ vm'.value \in Value
    BY <1>16, MadeValues DEF VMPanic, VMPanicked, Primitive
  <2> QED BY <1>16, <2>1 DEF VMPanic, RunTypeOK
<1> QED
  BY <1>4, <1>5, <1>6, <1>7, <1>8, <1>9, <1>10, <1>11, <1>12, <1>13, <1>14, <1>15, <1>16
     DEF VMStep

LEMMA RunTypeHolds == Spec => []RunTypeOK
<1>1. Init => RunTypeOK
  <2> SUFFICES ASSUME Init PROVE RunTypeOK
    OBVIOUS
  <2>1. Undefined \in Value
    BY MadeValues DEF Primitive
  <2> QED BY <2>1 DEF Init, VMInit, FreshRegisters, VMRunning, RunTypeOK
<1>2. CompilerInv /\ CodeInv /\ RunTypeOK /\ [Next]_vm_vars => RunTypeOK'
  <2>1. (CompilerInv /\ CodeInv /\ RunTypeOK /\ VMStep) => RunTypeOK'
    BY VMStepType
  <2>2. (RunTypeOK /\ UNCHANGED run_vars) => RunTypeOK'
    BY DEF RunTypeOK, run_vars
  <2> QED BY <2>1, <2>2 DEF Next, vm_vars
<1> QED BY <1>1, <1>2, CompilerInside, CompilerInvHolds, CodeInvHolds, PTL DEF Spec

(* Whatever bytecode QuickJS's compiler makes, every variable of the       *)
(* compiler and of the VM keeps its type: compile_bytecode emits no        *)
(* instruction that names a constant or a local the frame has not, and     *)
(* run_register_vm computes values only.                                   *)
THEOREM VMTypeCorrect == Spec => []VMTypeOK
<1>1. CompilerInv /\ RunTypeOK => VMTypeOK
  BY DEF CompilerInv, RunTypeOK, VMTypeOK
<1> QED BY <1>1, CompilerInside, CompilerInvHolds, RunTypeHolds, PTL

-----------------------------------------------------------------------------
(* The index panic.                                                        *)

(* A run starts when the code is compiled, and stays where it ended; when  *)
(* it panicked, the function needs more registers than there are.          *)
RunInv ==
  /\ vm # VMRunning => result = "ok"
  /\ vm.kind = "panicked" => ~FitsRegisters

(* The instruction that is out of range reads a slot beyond the registers. *)
LEMMA PanicBeyondRegisters ==
  ASSUME CompilerInv, CodeInv, RunTypeOK, VMPanic
  PROVE  ~FitsRegisters
<1>1. AtInstruction /\ ~InRange(Inst) /\ DOMAIN regs = 0 .. U8 - 1
  BY DEF VMPanic, RunTypeOK
<1>2. vpc + 1 \in 1 .. Len(reg_instructions)
  BY <1>1, CurrentInstruction
<1>3. PICK p \in 0 .. Len(bytecode) - 1 : FromOffset(Inst, p)
  BY <1>2 DEF CodeInv, Inst
<1> DEFINE n == HeightAt[p] + Scratch(bytecode[p + 1])
<1>4. p < pc /\ Mapped(p) /\ SourceRegisters(Inst) \subseteq 0 .. n - 1
  BY <1>3 DEF FromOffset, ReadsBelow
<1>5. n \in Int
  <2>1. HeightAt[p] \in Int
    <3>1. bytecode \in Seq(Cell) /\ p \in 0 .. Len(bytecode)
      BY LenProperties DEF CompilerInv, CompilerTypeOK
    <3> QED BY <3>1, HeightsEquation DEF HeightAt
  <2>2. Scratch(bytecode[p + 1]) \in Int
    BY DEF Scratch
  <2> QED BY <2>1, <2>2
<1>6. ~(n <= U8)
  <2> SUFFICES ASSUME n <= U8 PROVE FALSE
    OBVIOUS
  <2> HIDE DEF n
  <2>1. 0 .. n - 1 \subseteq 0 .. U8 - 1
    BY <1>5, WidthsPositive
  <2> QED BY <1>1, <1>4, <2>1 DEF InRange
<1>7. p \in 0 .. Len(bytecode) /\ p < Len(bytecode)
  BY LenProperties DEF CompilerInv, CompilerTypeOK
<1> HIDE DEF n
<1>8. n = HeightAt[p] + (IF p < Len(bytecode) THEN Scratch(bytecode[p + 1]) ELSE 0)
  BY <1>7 DEF n
<1> QED BY <1>4, <1>6, <1>7, <1>8 DEF FitsRegisters

LEMMA RunInvHolds == Spec => []RunInv
<1>1. Init => RunInv
  BY DEF Init, VMInit, VMRunning, RunInv
<1>2. CompilerInv /\ CodeInv /\ RunTypeOK /\ RunInv /\ [Next]_vm_vars => RunInv'
  <2> SUFFICES ASSUME CompilerInv, CodeInv, RunTypeOK, RunInv, [Next]_vm_vars PROVE RunInv'
    OBVIOUS
  <2>1. CASE CompilerNext /\ UNCHANGED run_vars
    <3>1. vm' = vm
      BY <2>1 DEF run_vars
    <3>2. CASE vm = VMRunning
      BY <3>1, <3>2 DEF RunInv, VMRunning
    <3>3. CASE vm # VMRunning
      <4>1. result = "ok"
        BY <3>3 DEF RunInv
      <4>2. ~CompilerNext
        BY <4>1 DEF CompilerNext, Scanning, Decode, PushI32, PushConst, PushPrimitive, Drop, Dup,
           GetLoc, GetLoc0Loc1, PutLoc, SetLoc, AddLoc, IncDecLoc, BinaryOp, ReturnTop,
           ReturnUndef, Goto, IfJump, Reject, EndScan, PatchBeyondEnd, PatchJump, PatchFails, Finish
      <4> QED BY <2>1, <4>2
    <3> QED BY <3>2, <3>3
  <2>2. CASE VMStep /\ UNCHANGED compiler_vars
    <3>1. /\ result' = result /\ (FitsRegisters' <=> FitsRegisters) /\ vm = VMRunning
          /\ result = "ok"
      <4>1. UNCHANGED <<bytecode, pc_to_inst_idx, result>>
        BY <2>2 DEF compiler_vars
      <4>2. FitsRegisters' <=> FitsRegisters
        BY <4>1 DEF FitsRegisters, Mapped, HeightAt
      <4>3. vm = VMRunning /\ result = "ok"
        BY <2>2 DEF VMStep, VMPushImmediate, VMPushConst, VMDrop, VMMov, VMLoadLoc, VMStoreLoc,
           VMBinary, VMJump, VMBranch, VMReturn, VMReturnUndef, VMBail, VMPanic, Unhandled,
           Executing, AtInstruction
      <4> QED BY <4>1, <4>2, <4>3
    <3>2. CASE VMPanic
      BY <3>1, <3>2, PanicBeyondRegisters DEF RunInv
    <3>3. CASE ~VMPanic
      <4>1. vm'.kind # "panicked"
        BY <2>2, <3>1, <3>3 DEF VMStep, VMPushImmediate, VMPushConst, VMDrop, VMMov, VMLoadLoc,
           VMStoreLoc, VMBinary, VMJump, VMBranch, VMReturn, VMReturnUndef, VMBail, WriteReg,
           VMRunning, VMReturned, VMBailed
      <4> QED BY <3>1, <4>1 DEF RunInv
    <3> QED BY <3>2, <3>3
  <2>3. CASE UNCHANGED vm_vars
    BY <2>3 DEF vm_vars, compiler_vars, run_vars, RunInv, FitsRegisters, Mapped, HeightAt
  <2> QED BY <2>1, <2>2, <2>3 DEF Next
<1> QED BY <1>1, <1>2, CompilerInside, CompilerInvHolds, CodeInvHolds, RunTypeHolds, PTL DEF Spec

(* For every bytecode and every number of registers, the VM panics on a    *)
(* register index only when the simulated stack of the function and its    *)
(* scratch registers need more registers than there are.                   *)
THEOREM VMPanicsOnlyBeyondRegisters == Spec => []PanicsOnlyBeyondRegisters
<1>1. RunInv => PanicsOnlyBeyondRegisters
  BY DEF RunInv, PanicsOnlyBeyondRegisters
<1> QED BY <1>1, RunInvHolds, PTL

-----------------------------------------------------------------------------
(* The references.                                                         *)

(* One place counted apart from the others.                                *)
Others(f, i) == Cardinality({k \in DOMAIN f \ {i} : IsRef(f[k])})

LEMMA CountAt ==
  ASSUME NEW n \in Nat, NEW f, DOMAIN f = 0 .. n - 1, NEW i \in 0 .. n - 1
  PROVE  /\ Others(f, i) \in Nat
         /\ RefsIn(f) = Others(f, i) + js_dup(f[i])
<1> DEFINE A == {k \in DOMAIN f \ {i} : IsRef(f[k])}
           B == {k \in DOMAIN f : IsRef(f[k])}
<1>1. IsFiniteSet(A)
  <2>1. IsFiniteSet(0 .. n - 1) /\ A \subseteq 0 .. n - 1
    BY FS_Interval
  <2> HIDE DEF A
  <2> QED BY <2>1, FS_Subset
<1>2. Cardinality(A) \in Nat /\ i \notin A
  BY <1>1, FS_CardinalityType
<1>3. CASE IsRef(f[i])
  <2>1. B = A \cup {i}
    BY <1>3
  <2> HIDE DEF A, B
  <2>2. Cardinality(B) = Cardinality(A) + 1
    BY <1>1, <1>2, <2>1, FS_AddElement
  <2> QED BY <1>2, <1>3, <2>2 DEF RefsIn, Others, js_dup, A, B
<1>4. CASE ~IsRef(f[i])
  <2>1. B = A
    BY <1>4
  <2> HIDE DEF A, B
  <2>2. Cardinality(B) = Cardinality(A) + 0
    BY <1>2, <2>1
  <2> QED BY <1>2, <1>4, <2>2 DEF RefsIn, Others, js_dup, A, B
<1> QED BY <1>3, <1>4

(* Changing what one of n places holds.                                    *)
Differ(n, f, g, i) ==
  /\ DOMAIN f = 0 .. n - 1 /\ DOMAIN g = 0 .. n - 1
  /\ \A k \in 0 .. n - 1 : k # i => g[k] = f[k]

LEMMA CountChange ==
  ASSUME NEW n \in Nat, NEW f, NEW g, NEW i \in 0 .. n - 1, Differ(n, f, g, i)
  PROVE  /\ RefsIn(f) \in Int
         /\ RefsIn(g) = RefsIn(f) - js_dup(f[i]) + js_dup(g[i])
<1>1. DOMAIN f = 0 .. n - 1 /\ DOMAIN g = 0 .. n - 1
      /\ \A k \in 0 .. n - 1 : k # i => g[k] = f[k]
  BY DEF Differ
<1>2. Others(g, i) = Others(f, i)
  <2>1. {k \in DOMAIN g \ {i} : IsRef(g[k])} = {k \in DOMAIN f \ {i} : IsRef(f[k])}
    BY <1>1
  <2> QED BY <2>1 DEF Others
<1>3. /\ Others(f, i) \in Nat /\ RefsIn(f) = Others(f, i) + js_dup(f[i])
      /\ RefsIn(g) = Others(g, i) + js_dup(g[i])
  BY <1>1, CountAt
<1>4. js_dup(f[i]) \in Int /\ js_dup(g[i]) \in Int
  BY RefChanges
<1> QED BY <1>2, <1>3, <1>4

(* The registers' references, and those a run that ends gives back.        *)
LEMMA RegistersCounted ==
  ASSUME RunTypeOK
  PROVE  /\ RefsIn(regs) \in Int /\ RefsIn(var_buf) \in Int
         /\ FreeAll(DOMAIN regs) = -RefsIn(regs)
         /\ \A i \in 0 .. U8 - 1 : FreeAll(DOMAIN regs \ {i}) = js_dup(regs[i]) - RefsIn(regs)
<1>1. U8 \in Nat /\ 0 \in 0 .. U8 - 1 /\ NumLocals \in Nat
  BY WidthAssumption, FrameAssumption
<1>2. /\ DOMAIN regs = 0 .. U8 - 1 /\ regs \in [0 .. U8 - 1 -> Value]
      /\ DOMAIN var_buf = 0 .. NumLocals - 1 /\ var_buf \in [0 .. NumLocals - 1 -> Value]
  BY DEF RunTypeOK
<1>3. ASSUME NEW i \in 0 .. U8 - 1
      PROVE  /\ Others(regs, i) \in Nat /\ RefsIn(regs) = Others(regs, i) + js_dup(regs[i])
             /\ js_dup(regs[i]) \in Int
             /\ FreeAll(DOMAIN regs \ {i}) = -Others(regs, i)
  BY <1>1, <1>2, CountAt, RefChanges DEF FreeAll, Others
<1>4. RefsIn(regs) \in Int
  <2>1. Others(regs, 0) \in Nat /\ RefsIn(regs) = Others(regs, 0) + js_dup(regs[0])
        /\ js_dup(regs[0]) \in Int
    BY <1>1, <1>3
  <2> QED BY <2>1
<1>5. \A i \in 0 .. U8 - 1 : FreeAll(DOMAIN regs \ {i}) = js_dup(regs[i]) - RefsIn(regs)
  BY <1>3
<1>6. RefsIn(var_buf) \in Int
  <2>1. CASE NumLocals = 0
    <3>1. {i \in DOMAIN var_buf : IsRef(var_buf[i])} = {}
      BY <1>2, <2>1
    <3> QED BY <3>1, FS_EmptySet DEF RefsIn
  <2>2. CASE NumLocals # 0
    <3>1. 0 \in 0 .. NumLocals - 1
      BY <1>1, <2>2
    <3>2. Others(var_buf, 0) \in Nat /\ RefsIn(var_buf) = Others(var_buf, 0) + js_dup(var_buf[0])
      BY <1>1, <1>2, <3>1, CountAt
    <3> QED BY <3>2, RefChanges
  <2> QED BY <2>1, <2>2
<1>7. FreeAll(DOMAIN regs) = -RefsIn(regs)
  BY DEF FreeAll, RefsIn
<1> QED BY <1>4, <1>5, <1>6, <1>7

(* Writing a register.                                                     *)
LEMMA WriteCounted ==
  ASSUME RunTypeOK, NEW x, WriteReg(x), Inst.dst \in 0 .. U8 - 1
  PROVE  /\ RefsIn(regs') = RefsIn(regs) - js_dup(regs[Inst.dst]) + js_dup(x)
         /\ RefsIn(var_buf') = RefsIn(var_buf)
         /\ vm' = vm
<1>0. U8 \in Nat
  BY WidthAssumption
<1>1. /\ regs \in [0 .. U8 - 1 -> Value]
      /\ regs' = [regs EXCEPT ![Inst.dst] = x] /\ var_buf' = var_buf /\ vm' = vm
  BY DEF RunTypeOK, WriteReg
<1>2. Differ(U8, regs, regs', Inst.dst) /\ regs'[Inst.dst] = x
  BY <1>1 DEF Differ
<1>3. RefsIn(regs') = RefsIn(regs) - js_dup(regs[Inst.dst]) + js_dup(regs'[Inst.dst])
  BY <1>0, <1>2, CountChange
<1> QED BY <1>1, <1>2, <1>3

(* What a step does to the balance of a run that goes on, and of one that  *)
(* ends.                                                                   *)
LEMMA BalanceCounted ==
  ASSUME RunTypeOK, vm = VMRunning
  PROVE  /\ refs \in Int /\ RefsIn(regs) \in Int /\ RefsIn(var_buf) \in Int
         /\ Balance = refs - (1 + RefsIn(var_buf) + RefsIn(regs))
         /\ Balance \in Int
<1>1. /\ refs \in Int /\ RefsIn(regs) \in Int /\ RefsIn(var_buf) \in Int /\ ~Ended
  BY RegistersCounted DEF RunTypeOK, Ended, VMRunning
<1> QED BY <1>1 DEF Balance, Owned

(* What the run has too many, and too few, references by the next step.    *)
Leaks == IF Overwrites THEN 1 ELSE 0
Thefts == IF GivesAway THEN 1 ELSE 0
DriftsRight == Balance' = Balance + Leaks - Thefts

(* An instruction that writes its register, with a reference of its own.   *)
LEMMA WritingDrifts ==
  ASSUME CompilerInv, CodeInv, RunTypeOK, vm = VMRunning, NEW ops, Executing(ops),
         ops \subseteq WritingOps, ~Unhandled, NEW x, WriteReg(x), refs' = refs + js_dup(x)
  PROVE  DriftsRight
<1>1. AtInstruction /\ Inst.op \in ops /\ InRange(Inst) /\ Inst.op \in WritingOps
  BY DEF Executing
<1>2. Inst.dst \in 0 .. U8 - 1
  BY <1>1, CurrentInstruction
<1>3. Executing(WritingOps)
  BY <1>1 DEF Executing
<1>4. Leaks = js_dup(regs[Inst.dst])
  BY <1>3 DEF Leaks, Overwrites, js_dup
<1>5. Thefts = 0
  BY <1>1 DEF Thefts, GivesAway, Executing, WritingOps, BinaryOps, ArithOps, BitOps, CompareOps
<1>6. /\ RefsIn(regs') = RefsIn(regs) - js_dup(regs[Inst.dst]) + js_dup(x)
      /\ RefsIn(var_buf') = RefsIn(var_buf) /\ vm' = VMRunning
  BY <1>2, WriteCounted
<1>7. Balance' = refs' - (1 + RefsIn(var_buf') + RefsIn(regs'))
  BY <1>6 DEF Balance, Owned, Ended, VMRunning, RefsIn
<1>8. js_dup(regs[Inst.dst]) \in Int /\ js_dup(x) \in Int
  BY RefChanges
<1> QED BY <1>4, <1>5, <1>6, <1>7, <1>8, BalanceCounted DEF DriftsRight

(* The end of a run, with what it returns.                                 *)
LEMMA EndingDrifts ==
  ASSUME RunTypeOK, vm = VMRunning, UNCHANGED <<regs, var_buf>>, vm'.kind \in {"returned", "handed_over"},
         refs' = refs + (js_dup(vm'.value) - RefsIn(regs)), ~Overwrites, ~GivesAway
  PROVE  DriftsRight
<1>1. Balance' = refs' - (1 + RefsIn(var_buf) + js_dup(vm'.value))
  BY DEF Balance, Owned, Ended, RefsIn
<1>2. js_dup(vm'.value) \in Int /\ Leaks = 0 /\ Thefts = 0
  BY RefChanges DEF Leaks, Thefts
<1> QED BY <1>1, <1>2, BalanceCounted DEF DriftsRight

LEMMA StepDrifts ==
  ASSUME CompilerInv, CodeInv, RunTypeOK, VMStep
  PROVE  DriftsRight
<1>1. vm = VMRunning /\ result = "ok"
  BY DEF VMStep, VMPushImmediate, VMPushConst, VMDrop, VMMov, VMLoadLoc, VMStoreLoc,
     VMBinary, VMJump, VMBranch, VMReturn, VMReturnUndef, VMBail, VMPanic, Unhandled,
     Executing, AtInstruction
<1>2. /\ refs \in Int /\ RefsIn(regs) \in Int /\ RefsIn(var_buf) \in Int /\ Balance \in Int
      /\ Balance = refs - (1 + RefsIn(var_buf) + RefsIn(regs))
  BY <1>1, BalanceCounted
<1>3. ASSUME NEW ops, Executing(ops)
      PROVE  /\ AtInstruction /\ Inst.op \in ops /\ InRange(Inst)
             /\ Inst.dst \in 0 .. U8 - 1 /\ InFrame(Inst)
  <2>1. AtInstruction /\ Inst.op \in ops /\ InRange(Inst)
    BY <1>3 DEF Executing
  <2> QED BY <2>1, CurrentInstruction
<1>4. ASSUME NEW ops, Executing(ops), ops \cap {"IF_FALSE", "IF_TRUE"} = {},
             Inst.op \in BinaryOps => vm_handles(Inst.op, regs[Inst.src1], regs[Inst.src2])
      PROVE  ~Unhandled
  <2>1. AtInstruction /\ Inst.op \in ops
    BY <1>4, <1>3
  <2>2. ~(vpc >= Len(reg_instructions))
    <3>1. vpc < Len(reg_instructions) /\ vpc \in Nat /\ Len(reg_instructions) \in Nat
      BY <2>1, LenProperties DEF AtInstruction, RunTypeOK, CompilerInv, CompilerTypeOK
    <3> QED BY <3>1
  <2> QED BY <1>4, <2>1, <2>2 DEF Unhandled, Executing
<1> USE DEF WritingOps, BinaryOps, ArithOps, BitOps, CompareOps
<1>5. ASSUME NEW ops, Executing(ops), ops \cap WritingOps = {}
      PROVE  ~Overwrites
  BY <1>5 DEF Overwrites, Executing
<1>6. ASSUME NEW ops, Executing(ops), ops \cap {"DROP", "STORE_LOC"} = {}
      PROVE  ~GivesAway
  BY <1>6 DEF GivesAway, Executing
<1>7. CASE VMPushImmediate
  <2>1. js_dup(ImmediateValue(Inst)) = 0
    BY DEF js_dup, ImmediateValue, IsRef, MkInt, MkBool, Undefined, Null
  <2>2. refs' = refs + js_dup(ImmediateValue(Inst))
    BY <1>2, <1>7, <2>1 DEF VMPushImmediate
  <2>3. Executing({"PUSH_I32", "UNDEFINED", "NULL", "PUSH_FALSE", "PUSH_TRUE"})
        /\ WriteReg(ImmediateValue(Inst))
    BY <1>7 DEF VMPushImmediate
  <2>4. ~Unhandled
    BY <1>3, <1>4, <2>3
  <2> QED BY <1>1, <2>2, <2>3, <2>4, WritingDrifts
<1>8. CASE VMPushConst
  <2>1. Executing({"PUSH_CONST"}) /\ WriteReg(cpool[Inst.src1])
        /\ refs' = refs + js_dup(cpool[Inst.src1])
    BY <1>8 DEF VMPushConst
  <2>2. ~Unhandled
    BY <1>3, <1>4, <2>1
  <2> QED BY <1>1, <2>1, <2>2, WritingDrifts
<1>9. CASE VMMov
  <2>1. Executing({"MOV"}) /\ WriteReg(regs[Inst.src1]) /\ refs' = refs + js_dup(regs[Inst.src1])
    BY <1>9 DEF VMMov
  <2>2. ~Unhandled
    BY <1>3, <1>4, <2>1
  <2> QED BY <1>1, <2>1, <2>2, WritingDrifts
<1>10. CASE VMLoadLoc
  <2>1. Executing({"LOAD_LOC"}) /\ WriteReg(var_buf[Inst.src1])
        /\ refs' = refs + js_dup(var_buf[Inst.src1])
    BY <1>10 DEF VMLoadLoc
  <2>2. ~Unhandled
    BY <1>3, <1>4, <2>1
  <2> QED BY <1>1, <2>1, <2>2, WritingDrifts
<1>11. CASE VMBinary
  <2> DEFINE x == vm_binary(Inst.op, regs[Inst.src1], regs[Inst.src2])
  <2>1. /\ Executing(BinaryOps) /\ WriteReg(x) /\ refs' = refs
        /\ vm_handles(Inst.op, regs[Inst.src1], regs[Inst.src2])
    BY <1>11 DEF VMBinary
  <2>2. ~Unhandled
    BY <1>4, <2>1
  <2>3. js_dup(x) = 0
    <3>1. Inst.op \in BinaryOps /\ InRange(Inst)
      BY <1>3, <2>1
    <3>2. SourceRegisters(Inst) = {Inst.src1, Inst.src2} /\ DOMAIN regs = 0 .. U8 - 1
      BY <3>1 DEF SourceRegisters, RunTypeOK
    <3>3. regs[Inst.src1] \in Value /\ regs[Inst.src2] \in Value
      BY <3>1, <3>2 DEF InRange, RunTypeOK
    <3>4. x \in Primitive
      BY <2>1, <3>1, <3>3, vm_binaryType
    <3> HIDE DEF x
    <3> QED BY <3>4 DEF Primitive, js_dup
  <2> HIDE DEF x
  <2>4. refs' = refs + js_dup(x)
    BY <1>2, <2>1, <2>3
  <2>5. BinaryOps \subseteq WritingOps
    OBVIOUS
  <2> QED BY <1>1, <2>1, <2>2, <2>4, <2>5, WritingDrifts
<1>12. CASE VMDrop
  <2>1. Executing({"DROP"}) /\ refs' = refs + js_free(regs[Inst.dst]) /\ UNCHANGED <<regs, var_buf, vm>>
    BY <1>12 DEF VMDrop
  <2>2. Leaks = 0 /\ Thefts = js_dup(regs[Inst.dst])
    <3>1. ~Overwrites
      BY <1>5, <2>1
    <3>2. GivesAway <=> IsRef(regs[Inst.dst])
      BY <2>1 DEF GivesAway, Executing
    <3> QED BY <3>1, <3>2 DEF Leaks, Thefts, js_dup
  <2>3. js_dup(regs[Inst.dst]) \in Int /\ js_free(regs[Inst.dst]) = -js_dup(regs[Inst.dst])
    BY RefChanges
  <2>4. Balance' = refs' - (1 + RefsIn(var_buf) + RefsIn(regs))
    BY <1>1, <2>1 DEF Balance, Owned, Ended, VMRunning, RefsIn
  <2> QED BY <1>2, <2>1, <2>2, <2>3, <2>4 DEF DriftsRight
<1>13. CASE VMStoreLoc
  <2> DEFINE val == regs[Inst.src1]
             old == var_buf[Inst.dst]
  <2>1. /\ Executing({"STORE_LOC", "SET_LOC"})
        /\ var_buf' = [var_buf EXCEPT ![Inst.dst] = val]
        /\ refs' = refs + js_free(old) + IF Inst.op = "SET_LOC" THEN js_dup(val) ELSE 0
        /\ regs' = regs /\ vm' = vm
    BY <1>13 DEF VMStoreLoc
  <2>2. Inst.op \in {"STORE_LOC", "SET_LOC"} /\ Inst.dst \in 0 .. NumLocals - 1
    BY <1>3, <2>1 DEF InFrame
  <2>3. var_buf \in [0 .. NumLocals - 1 -> Value] /\ NumLocals \in Nat
    BY FrameAssumption DEF RunTypeOK
  <2>4. Leaks = 0 /\ Thefts = IF Inst.op = "STORE_LOC" THEN js_dup(val) ELSE 0
    <3>1. ~Overwrites
      BY <1>5, <2>1
    <3>2. GivesAway <=> Inst.op = "STORE_LOC" /\ IsRef(val)
      BY <2>1 DEF GivesAway, Executing
    <3> QED BY <3>1, <3>2 DEF Leaks, Thefts, js_dup
  <2> HIDE DEF val
  <2>5. RefsIn(var_buf') = RefsIn(var_buf) - js_dup(old) + js_dup(val)
    <3>1. Differ(NumLocals, var_buf, var_buf', Inst.dst) /\ var_buf'[Inst.dst] = val
      BY <2>1, <2>2, <2>3 DEF Differ
    <3>2. RefsIn(var_buf') = RefsIn(var_buf) - js_dup(old) + js_dup(var_buf'[Inst.dst])
      BY <2>2, <2>3, <3>1, CountChange
    <3> QED BY <3>1, <3>2
  <2>6. Balance' = refs' - (1 + RefsIn(var_buf') + RefsIn(regs))
    BY <1>1, <2>1 DEF Balance, Owned, Ended, VMRunning, RefsIn
  <2> HIDE DEF old
  <2>7. /\ js_dup(val) \in Int /\ js_free(old) = -js_dup(old) /\ js_dup(old) \in Int
    BY RefChanges
  <2>8. CASE Inst.op = "SET_LOC"
    BY <1>2, <2>1, <2>4, <2>5, <2>6, <2>7, <2>8 DEF DriftsRight
  <2>9. CASE Inst.op = "STORE_LOC"
    BY <1>2, <2>1, <2>4, <2>5, <2>6, <2>7, <2>9 DEF DriftsRight
  <2> QED BY <2>2, <2>8, <2>9
<1>14. ASSUME ~Overwrites, ~GivesAway, UNCHANGED <<regs, var_buf, refs>>, vm'.kind \in {"running", "panicked"}
       PROVE  DriftsRight
  <2>1. Balance' = Balance /\ Leaks = 0 /\ Thefts = 0
    BY <1>1, <1>14 DEF Balance, Owned, Ended, VMRunning, RefsIn, Leaks, Thefts
  <2> QED BY <1>2, <2>1 DEF DriftsRight
<1>15. CASE VMJump
  <2>1. ~Overwrites /\ ~GivesAway
    BY <1>5, <1>6, <1>15 DEF VMJump
  <2> QED BY <1>1, <1>14, <1>15, <2>1 DEF VMJump, VMRunning
<1>16. CASE VMBranch
  <2>1. ~Overwrites /\ ~GivesAway
    BY <1>5, <1>6, <1>16 DEF VMBranch
  <2> QED BY <1>1, <1>14, <1>16, <2>1 DEF VMBranch, VMRunning
<1>17. CASE VMPanic
  <2>1. ~Overwrites /\ ~GivesAway
    BY <1>17 DEF VMPanic, Overwrites, GivesAway, Executing
  <2> QED BY <1>14, <1>17, <2>1 DEF VMPanic, VMPanicked
<1>18. CASE VMReturn
  <2>1. Executing({"RETURN"}) /\ vm' = VMReturned(regs[Inst.dst]) /\ UNCHANGED <<regs, var_buf>>
        /\ refs' = refs + FreeAll(DOMAIN regs \ {Inst.dst})
    BY <1>18 DEF VMReturn
  <2>2. ~Overwrites /\ ~GivesAway
    BY <1>5, <1>6, <2>1
  <2>3. Inst.dst \in 0 .. U8 - 1
    BY <1>3, <2>1
  <2>4. FreeAll(DOMAIN regs \ {Inst.dst}) = js_dup(regs[Inst.dst]) - RefsIn(regs)
    BY <2>3, RegistersCounted
  <2>5. vm'.kind = "returned" /\ vm'.value = regs[Inst.dst]
    BY <2>1 DEF VMReturned
  <2> QED BY <1>1, <2>1, <2>2, <2>4, <2>5, EndingDrifts
<1>19. ASSUME refs' = refs + FreeAll(DOMAIN regs), UNCHANGED <<regs, var_buf>>, ~IsRef(vm'.value),
              vm'.kind \in {"returned", "handed_over"}, ~Overwrites, ~GivesAway
       PROVE  DriftsRight
  <2>1. js_dup(vm'.value) = 0 /\ FreeAll(DOMAIN regs) = -RefsIn(regs)
    BY <1>19, RegistersCounted DEF js_dup
  <2>2. refs' = refs + (js_dup(vm'.value) - RefsIn(regs))
    BY <1>2, <1>19, <2>1
  <2> QED BY <1>1, <1>19, <2>2, EndingDrifts
<1>20. CASE VMReturnUndef
  <2>1. ~Overwrites /\ ~GivesAway
    BY <1>5, <1>6, <1>20 DEF VMReturnUndef
  <2> QED BY <1>19, <1>20, <2>1 DEF VMReturnUndef, VMReturned, IsRef, Undefined
<1>21. CASE VMBail
  <2>1. ~Overwrites
    BY <1>21 DEF VMBail, Overwrites
  <2>2. ~GivesAway
    <3>1. CASE Executing(BinaryOps) \/ Executing({"IF_FALSE", "IF_TRUE"})
      BY <1>6, <3>1
    <3>2. CASE vpc >= Len(reg_instructions)
      <4>1. vpc \in Nat /\ Len(reg_instructions) \in Nat
        BY LenProperties DEF RunTypeOK, CompilerInv, CompilerTypeOK
      <4>2. ~(vpc < Len(reg_instructions))
        BY <3>2, <4>1
      <4> QED BY <4>2 DEF GivesAway, Executing, AtInstruction
    <3> QED BY <1>21, <3>1, <3>2 DEF VMBail, Unhandled
  <2> QED BY <1>19, <1>21, <2>1, <2>2 DEF VMBail, VMBailed, IsRef, Uninitialized
<1> QED
  BY <1>7, <1>8, <1>9, <1>10, <1>11, <1>12, <1>13, <1>15, <1>16, <1>17, <1>18, <1>20, <1>21 DEF VMStep

LEMMA CompilingDrifts ==
  ASSUME RunTypeOK, CompilerNext, UNCHANGED run_vars
  PROVE  DriftsRight
<1>1. result # "ok"
  BY DEF CompilerNext, Scanning, Decode, PushI32, PushConst, PushPrimitive, Drop, Dup,
     GetLoc, GetLoc0Loc1, PutLoc, SetLoc, AddLoc, IncDecLoc, BinaryOp, ReturnTop,
     ReturnUndef, Goto, IfJump, Reject, EndScan, PatchBeyondEnd, PatchJump, PatchFails, Finish
<1>2. Leaks = 0 /\ Thefts = 0
  BY <1>1 DEF Leaks, Thefts, Overwrites, GivesAway, Executing, AtInstruction
<1>3. Balance' = Balance /\ Balance \in Int
  <2>1. Balance' = Balance
    BY DEF Balance, Owned, Ended, RefsIn, run_vars
  <2>2. refs \in Int /\ RefsIn(var_buf) \in Int /\ RefsIn(regs) \in Int /\ js_dup(vm.value) \in Int
    BY RegistersCounted, RefChanges DEF RunTypeOK
  <2>3. Balance \in Int
    BY <2>2 DEF Balance, Owned
  <2> QED BY <2>1, <2>3
<1> QED BY <1>2, <1>3 DEF DriftsRight

(* For every bytecode and every constant pool, with no condition on what   *)
(* the code does with heap values: the number of references is off by one  *)
(* more after an instruction that overwrites a heap value and by one less  *)
(* after one that drops it or stores it away, and every other step, the    *)
(* ends of the run included, gives back what it took and no more.          *)
THEOREM VMReferencesDrift == Spec => ReferencesDrift
<1>1. CompilerInv /\ CodeInv /\ RunTypeOK /\ [Next]_vm_vars =>
        [Balance' = Balance + (IF Overwrites THEN 1 ELSE 0) - (IF GivesAway THEN 1 ELSE 0)]_vm_vars
  <2>1. CompilerInv /\ CodeInv /\ RunTypeOK /\ Next => DriftsRight
    BY StepDrifts, CompilingDrifts DEF Next
  <2> QED BY <2>1 DEF DriftsRight, Leaks, Thefts
<1> QED
  BY <1>1, CompilerInside, CompilerInvHolds, CodeInvHolds, RunTypeHolds, PTL DEF Spec, ReferencesDrift
=============================================================================
