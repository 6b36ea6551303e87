------------------------- MODULE StackMachineProofs -------------------------
(***************************************************************************)
(* That the tiers do what the stack bytecode means: the register VM        *)
(* implements StackMachine on code that InScope describes, and a call      *)
(* returns what the C interpreter alone would have returned, whichever     *)
(* tiers ran before, as long as none gave up with a local written.         *)
(*                                                                         *)
(* The refinement rests on ExpandInv, which says where the instructions    *)
(* made of one opcode lie, on the two arithmetics agreeing (SameResult),   *)
(* and on WhereInv, which says what the registers hold between two         *)
(* instructions.  What a step of the VM does to the machine is shown of    *)
(* Ran, what the VM and the native code have in common.                    *)
(***************************************************************************)
EXTENDS RegisterVMProofs, TieredCall

(* The code of a bytecode instruction, on an operand stack h high.         *)
Expansion(cell, h) ==
  LET top == AsU8(h)
      above == AsU8(h + 1)
  IN CASE cell.op = "push_i32"            -> <<PushInt(h, cell.arg)>>
       [] cell.op = "push_const"          -> <<Reg("PUSH_CONST", h, cell.arg, 0)>>
       [] cell.op \in PrimitiveOpcodes    -> <<Reg(RegOpOf[cell.op], h, 0, 0)>>
       [] cell.op = "drop"                -> <<Reg("DROP", h - 1, 0, 0)>>
       [] cell.op = "dup"                 -> <<Reg("MOV", h, h - 1, 0)>>
       [] cell.op = "get_loc"             -> <<Reg("LOAD_LOC", h, cell.arg, 0)>>
       [] cell.op = "get_loc0_loc1"       -> <<Reg("LOAD_LOC", h, 0, 0), Reg("LOAD_LOC", h + 1, 1, 0)>>
       [] cell.op = "put_loc"             -> <<Reg("STORE_LOC", cell.arg, h - 1, 0)>>
       [] cell.op = "set_loc"             -> <<Reg("SET_LOC", cell.arg, h - 1, 0)>>
       [] cell.op = "add_loc"             -> <<Reg("LOAD_LOC", top, cell.arg, 0), Reg("ADD", top, top, h - 1),
                                               Reg("STORE_LOC", cell.arg, top, 0)>>
       [] cell.op \in {"inc_loc", "dec_loc"} ->
            <<PushInt(top, IF cell.op = "inc_loc" THEN 1 ELSE -1), Reg("LOAD_LOC", above, cell.arg, 0),
              Reg("ADD", above, above, top), Reg("STORE_LOC", cell.arg, above, 0)>>
       [] cell.op \in NeedsTwo            -> <<Reg(RegOpOf[cell.op], h - 2, h - 2, h - 1)>>
       [] cell.op = "return"              -> <<Reg("RETURN", h - 1, 0, 0)>>
       [] cell.op = "return_undef"        -> <<Reg("RETURN_UNDEF", 0, 0, 0)>>
       [] cell.op = "goto"                -> <<Reg("JMP", 0, 0, 0)>>
       [] OTHER                           -> <<Reg(RegOpOf[cell.op], h - 1, 0, 0)>>

(* The opcodes the compiler translates, and what they find on the stack.   *)
Translated == Opcodes \ {"nop", "operand"}
FindsOperands(cell, h) ==
  /\ h \in Nat
  /\ cell.op \in Translated
  /\ cell.op \in NeedsOne => h >= 1
  /\ cell.op \in NeedsTwo => h >= 2

LEMMA ExpansionShape ==
  ASSUME NEW cell, NEW h
  PROVE  /\ \E T : Expansion(cell, h) \in Seq(T)
         /\ Len(Expansion(cell, h)) \in 1..4
<1> DEFINE Shaped(s) == (\E T : s \in Seq(T)) /\ Len(s) \in 1..4
<1>1. \A a : Shaped(<<a>>)
  <2> TAKE a
  <2>1. <<a>> \in Seq({a})
    BY ShortSeqs
  <2>2. \E T : <<a>> \in Seq(T)
    BY <2>1
  <2>3. Len(<<a>>) = 1 /\ 1 \in 1..4
    OBVIOUS
  <2> QED BY <2>2, <2>3
<1>2. \A a, b : Shaped(<<a, b>>)
  <2> TAKE a, b
  <2>1. <<a, b>> \in Seq({a, b})
    BY ShortSeqs
  <2>2. \E T : <<a, b>> \in Seq(T)
    BY <2>1
  <2>3. Len(<<a, b>>) = 2 /\ 2 \in 1..4
    OBVIOUS
  <2> QED BY <2>2, <2>3
<1>3. \A a, b, c : Shaped(<<a, b, c>>)
  <2> TAKE a, b, c
  <2>1. <<a, b, c>> \in Seq({a, b, c})
    BY ShortSeqs
  <2>2. \E T : <<a, b, c>> \in Seq(T)
    BY <2>1
  <2>3. Len(<<a, b, c>>) = 3 /\ 3 \in 1..4
    OBVIOUS
  <2> QED BY <2>2, <2>3
<1>4. \A a, b, c, d : Shaped(<<a, b, c, d>>)
  <2> TAKE a, b, c, d
  <2>1. <<a, b, c, d>> \in Seq({a, b, c, d})
    BY ShortSeqs
  <2>2. \E T : <<a, b, c, d>> \in Seq(T)
    BY <2>1
  <2>3. Len(<<a, b, c, d>>) = 4 /\ 4 \in 1..4
    OBVIOUS
  <2> QED BY <2>2, <2>3
<1> HIDE DEF Shaped
<1>5. Shaped(Expansion(cell, h))
  BY <1>1, <1>2, <1>3, <1>4, Zenon DEF Expansion
<1> QED BY <1>5 DEF Shaped

(* The first pass emits the expansion of the instruction it looks at.      *)
FirstPass ==
  \/ PushI32 \/ PushConst \/ PushPrimitive \/ Drop \/ Dup
  \/ GetLoc \/ GetLoc0Loc1 \/ PutLoc \/ SetLoc \/ AddLoc \/ IncDecLoc
  \/ BinaryOp \/ ReturnTop \/ ReturnUndef \/ Goto \/ IfJump

LEMMA FirstPassEmits ==
  ASSUME CompilerInv, FirstPass
  PROVE  /\ Scanning /\ ~OperandMissing /\ FindsOperands(Cell0, stack_height)
         /\ Emit(Expansion(Cell0, stack_height), stack_height + StackEffect(Cell0))
<1> DEFINE h == stack_height
<1>1. Scanning /\ ~OperandMissing /\ ~Underflow
  BY DEF FirstPass, PushI32, PushConst, PushPrimitive, Drop, Dup, GetLoc, GetLoc0Loc1, PutLoc,
         SetLoc, AddLoc, IncDecLoc, BinaryOp, ReturnTop, ReturnUndef, Goto, IfJump, Decode
<1>2. /\ h \in Nat /\ Cell0.op \in Opcodes
      /\ Cell0.op \in NeedsOne => h >= 1
      /\ Cell0.op \in NeedsTwo => h >= 2
  BY <1>1, CurrentCell DEF CompilerInv, CompilerTypeOK, Underflow
<1>3. ASSUME Cell0.op \in Translated
      PROVE  FindsOperands(Cell0, h)
  BY <1>2, <1>3 DEF FindsOperands
<1> USE DEF Translated, Opcodes, NeedsOne, NeedsTwo, BinaryOpcodes, ComparisonOpcodes, BranchOpcodes,
            PrimitiveOpcodes, Decode
<1>4. CASE PushI32
  <2>1. Expansion(Cell0, h) = <<PushInt(h, Cell0.arg)>> /\ h + StackEffect(Cell0) = h + 1
    BY <1>4 DEF PushI32, Expansion, StackEffect
  <2> QED BY <1>1, <1>2, <1>3, <1>4, <2>1 DEF PushI32
<1>5. CASE PushConst
  <2>1. Expansion(Cell0, h) = <<Reg("PUSH_CONST", h, Cell0.arg, 0)>> /\ h + StackEffect(Cell0) = h + 1
    BY <1>5 DEF PushConst, Expansion, StackEffect
  <2> QED BY <1>1, <1>2, <1>3, <1>5, <2>1 DEF PushConst
<1>6. CASE PushPrimitive
  <2>1. Expansion(Cell0, h) = <<Reg(RegOpOf[Cell0.op], h, 0, 0)>> /\ h + StackEffect(Cell0) = h + 1
    BY <1>6 DEF PushPrimitive, Expansion, StackEffect
  <2> QED BY <1>1, <1>2, <1>3, <1>6, <2>1 DEF PushPrimitive
<1>7. CASE Drop
  <2>1. Expansion(Cell0, h) = <<Reg("DROP", h - 1, 0, 0)>> /\ h + StackEffect(Cell0) = h - 1
    BY <1>2, <1>7 DEF Drop, Expansion, StackEffect
  <2> QED BY <1>1, <1>2, <1>3, <1>7, <2>1 DEF Drop
<1>8. CASE Dup
  <2>1. Expansion(Cell0, h) = <<Reg("MOV", h, h - 1, 0)>> /\ h + StackEffect(Cell0) = h + 1
    BY <1>8 DEF Dup, Expansion, StackEffect
  <2> QED BY <1>1, <1>2, <1>3, <1>8, <2>1 DEF Dup
<1>9. CASE GetLoc
  <2>1. Expansion(Cell0, h) = <<Reg("LOAD_LOC", h, Cell0.arg, 0)>> /\ h + StackEffect(Cell0) = h + 1
    BY <1>9 DEF GetLoc, Expansion, StackEffect
  <2> QED BY <1>1, <1>2, <1>3, <1>9, <2>1 DEF GetLoc
<1>10. CASE GetLoc0Loc1
  <2>1. /\ Expansion(Cell0, h) = <<Reg("LOAD_LOC", h, 0, 0), Reg("LOAD_LOC", h + 1, 1, 0)>>
        /\ h + StackEffect(Cell0) = h + 2
    BY <1>10 DEF GetLoc0Loc1, Expansion, StackEffect
  <2> QED BY <1>1, <1>2, <1>3, <1>10, <2>1 DEF GetLoc0Loc1
<1>11. CASE PutLoc
  <2>1. Expansion(Cell0, h) = <<Reg("STORE_LOC", Cell0.arg, h - 1, 0)>> /\ h + StackEffect(Cell0) = h - 1
    BY <1>2, <1>11 DEF PutLoc, Expansion, StackEffect
  <2> QED BY <1>1, <1>2, <1>3, <1>11, <2>1 DEF PutLoc
<1>12. CASE SetLoc
  <2>1. Expansion(Cell0, h) = <<Reg("SET_LOC", Cell0.arg, h - 1, 0)>> /\ h + StackEffect(Cell0) = h
    BY <1>2, <1>12 DEF SetLoc, Expansion, StackEffect
  <2> QED BY <1>1, <1>2, <1>3, <1>12, <2>1 DEF SetLoc
<1>13. CASE AddLoc
  <2>1. /\ Expansion(Cell0, h) = <<Reg("LOAD_LOC", AsU8(h), Cell0.arg, 0), Reg("ADD", AsU8(h), AsU8(h), h - 1),
                                   Reg("STORE_LOC", Cell0.arg, AsU8(h), 0)>>
        /\ h + StackEffect(Cell0) = h - 1
    BY <1>2, <1>13 DEF AddLoc, Expansion, StackEffect
  <2> QED BY <1>1, <1>2, <1>3, <1>13, <2>1 DEF AddLoc
<1>14. CASE IncDecLoc
  <2>1. /\ Expansion(Cell0, h) =
             <<PushInt(AsU8(h), IF Cell0.op = "inc_loc" THEN 1 ELSE -1), Reg("LOAD_LOC", AsU8(h + 1), Cell0.arg, 0),
               Reg("ADD", AsU8(h + 1), AsU8(h + 1), AsU8(h)), Reg("STORE_LOC", Cell0.arg, AsU8(h + 1), 0)>>
        /\ h + StackEffect(Cell0) = h
    BY <1>2, <1>14 DEF IncDecLoc, Expansion, StackEffect
  <2> QED BY <1>1, <1>2, <1>3, <1>14, <2>1 DEF IncDecLoc
<1>15. CASE BinaryOp
  <2>1. /\ Expansion(Cell0, h) = <<Reg(RegOpOf[Cell0.op], h - 2, h - 2, h - 1)>>
        /\ h + StackEffect(Cell0) = h - 1
    BY <1>2, <1>15 DEF BinaryOp, Expansion, StackEffect
  <2> QED BY <1>1, <1>2, <1>3, <1>15, <2>1 DEF BinaryOp
<1>16. CASE ReturnTop
  <2>1. Expansion(Cell0, h) = <<Reg("RETURN", h - 1, 0, 0)>> /\ h + StackEffect(Cell0) = h - 1
    BY <1>2, <1>16 DEF ReturnTop, Expansion, StackEffect
  <2> QED BY <1>1, <1>2, <1>3, <1>16, <2>1 DEF ReturnTop
<1>17. CASE ReturnUndef
  <2>1. Expansion(Cell0, h) = <<Reg("RETURN_UNDEF", 0, 0, 0)>> /\ h + StackEffect(Cell0) = h
    BY <1>2, <1>17 DEF ReturnUndef, Expansion, StackEffect
  <2> QED BY <1>1, <1>2, <1>3, <1>17, <2>1 DEF ReturnUndef
<1>18. CASE Goto
  <2>1. Expansion(Cell0, h) = <<Reg("JMP", 0, 0, 0)>> /\ h + StackEffect(Cell0) = h
    BY <1>2, <1>18 DEF Goto, Expansion, StackEffect
  <2> QED BY <1>1, <1>2, <1>3, <1>18, <2>1 DEF Goto
<1>19. CASE IfJump
  <2>1. /\ Expansion(Cell0, h) = <<Reg(RegOpOf[Cell0.op], h - 1, 0, 0)>>
        /\ h + StackEffect(Cell0) = h - 1
    BY <1>2, <1>19 DEF IfJump, Expansion, StackEffect
  <2> QED BY <1>1, <1>2, <1>3, <1>19, <2>1 DEF IfJump
<1> QED BY <1>4, <1>5, <1>6, <1>7, <1>8, <1>9, <1>10, <1>11, <1>12, <1>13, <1>14, <1>15, <1>16, <1>17, <1>18,
           <1>19 DEF FirstPass

-----------------------------------------------------------------------------
(* Where the code of each instruction is.                                  *)

(* An instruction is where it was emitted; a jump has its target by now.   *)
Copies(inst, orig) ==
  /\ inst.op = orig.op /\ inst.dst = orig.dst /\ inst.src2 = orig.src2
  /\ orig.op \notin JumpOps => inst.src1 = orig.src1

(* The index of the expansion at q, or of the one to come.                 *)
NextIndex(q) == IF q = pc THEN Len(reg_instructions) ELSE pc_to_inst_idx[q]

CodeOf(p) == Expansion(bytecode[p + 1], HeightAt[p])

(* The expansion at p is followed by that of the next instruction.         *)
Expanded(p) ==
  /\ FindsOperands(bytecode[p + 1], HeightAt[p]) /\ bytecode[p + 1].size \in 1..5
  /\ p + bytecode[p + 1].size <= pc
  /\ \A q \in p + 1 .. p + bytecode[p + 1].size - 1 : ~Mapped(q)
  /\ NextIndex(p + bytecode[p + 1].size) = pc_to_inst_idx[p] + Len(CodeOf(p))
  /\ \A i \in 1..Len(CodeOf(p)) : Copies(reg_instructions[pc_to_inst_idx[p] + i], CodeOf(p)[i])

ExpandInv ==
  /\ NextIndex(0) = 0
  /\ result \in {"patching", "ok"} => pc_to_inst_idx[pc] = Len(reg_instructions)
  /\ \A p \in 0..Len(bytecode) - 1 : p < pc /\ Mapped(p) => Expanded(p)

(* The numbers of an expansion.                                            *)
LEMMA ExpandedInside ==
  ASSUME CompilerInv, NEW p \in 0..Len(bytecode) - 1, p < pc, Mapped(p), Expanded(p)
  PROVE  /\ p \in Nat /\ pc \in Nat /\ pc <= Len(bytecode) /\ Len(bytecode) \in Nat
         /\ bytecode[p + 1].size \in 1..5 /\ p + bytecode[p + 1].size \in p + 1 .. pc
         /\ pc_to_inst_idx[p] \in Nat /\ Len(CodeOf(p)) \in 1..4 /\ Len(reg_instructions) \in Nat
         /\ pc_to_inst_idx[p] + Len(CodeOf(p)) <= Len(reg_instructions)
<1>1. /\ p \in Nat /\ pc \in Nat /\ pc <= Len(bytecode) /\ Len(bytecode) \in Nat
      /\ Len(reg_instructions) \in Nat /\ pc_to_inst_idx \in [0 .. Len(bytecode) -> Nat \cup {None}]
  BY LenProperties DEF CompilerInv, CompilerTypeOK
<1>2. pc_to_inst_idx[p] \in Nat
  BY <1>1 DEF Mapped
<1>3. Len(CodeOf(p)) \in 1..4
  BY ExpansionShape DEF CodeOf
<1> DEFINE q == p + bytecode[p + 1].size
<1>4. bytecode[p + 1].size \in 1..5 /\ q \in p + 1 .. pc
  BY <1>1 DEF Expanded
<1>5. NextIndex(q) = pc_to_inst_idx[p] + Len(CodeOf(p))
  BY DEF Expanded
<1> HIDE DEF q
<1>6. NextIndex(q) <= Len(reg_instructions)
  <2>1. CASE q = pc
    BY <1>1, <2>1 DEF NextIndex
  <2>2. CASE q # pc
    <3>1. NextIndex(q) = pc_to_inst_idx[q] /\ q \in DOMAIN pc_to_inst_idx
      BY <1>1, <1>4, <2>2 DEF NextIndex
    <3>2. pc_to_inst_idx[q] # None
      BY <1>2, <1>3, <1>5, <3>1 DEF None
    <3> QED BY <3>1, <3>2 DEF CompilerInv, IndicesInCode
  <2> QED BY <2>1, <2>2
<1> QED BY <1>1, <1>2, <1>3, <1>4, <1>5, <1>6 DEF q

(* What the first pass emits at pc is the expansion of the instruction.    *)
LEMMA FirstPassExpands ==
  ASSUME CompilerInv, CodeInv, ExpandInv, FirstPass
  PROVE  ExpandInv'
<1> DEFINE N == Len(reg_instructions)
           code == Expansion(Cell0, stack_height)
<1>1. /\ Scanning /\ ~OperandMissing /\ FindsOperands(Cell0, stack_height)
      /\ Emit(code, stack_height + StackEffect(Cell0))
  BY FirstPassEmits
<1>2. PICK T : code \in Seq(T)
  BY ExpansionShape
<1>3. Len(code) \in 1..4
  BY ExpansionShape
<1> HIDE DEF code
<1>4. /\ N \in Nat
      /\ \A i \in 1 .. N : reg_instructions'[i] = reg_instructions[i]
      /\ \A i \in 1 .. Len(code) : reg_instructions'[N + i] = code[i]
  BY <1>1, <1>2, EmitExtends
<1>5. Len(reg_instructions') = N + Len(code)
  <2> DEFINE S == RegInstruction \cup T
  <2>1. reg_instructions \in Seq(S) /\ code \in Seq(S)
    BY <1>2, SeqMonotonic DEF CompilerInv, CompilerTypeOK
  <2>2. reg_instructions' = reg_instructions \o code
    BY <1>1 DEF Emit
  <2> HIDE DEF S
  <2> QED BY <2>1, <2>2, ConcatProperties, LenProperties
<1>6. /\ pc \in Nat /\ pc < Len(bytecode) /\ Len(bytecode) \in Nat /\ Cell0.size \in 1..5
      /\ pc' \in Nat /\ pc' = pc + Cell0.size /\ pc' <= Len(bytecode)
      /\ bytecode' = bytecode /\ bytecode \in Seq(Cell) /\ result' = result
  <2>1. pc \in Nat /\ pc < Len(bytecode) /\ Len(bytecode) \in Nat /\ Cell0.size \in 1 .. 5
    BY <1>1, CurrentCell DEF CompilerInv
  <2>2. pc' = pc + Cell0.size /\ bytecode' = bytecode /\ result' = result
    BY <1>1 DEF Emit
  <2>3. pc + Cell0.size <= Len(bytecode)
    BY <1>1, <2>1 DEF OperandMissing
  <2> QED BY <2>1, <2>2, <2>3 DEF CompilerInv, CompilerTypeOK
<1>7. /\ pc_to_inst_idx'[pc] = N
      /\ \A p \in 0 .. Len(bytecode) : p # pc => pc_to_inst_idx'[p] = pc_to_inst_idx[p]
  BY <1>1, <1>4, <1>6 DEF CompilerInv, CompilerTypeOK, Emit
<1>8. \A p \in 0 .. pc : HeightAt'[p] = HeightAt[p]
  <2>1. \A p \in 0 .. pc - 1 : pc_to_inst_idx'[p] = pc_to_inst_idx[p]
    BY <1>6, <1>7
  <2> QED BY <1>6, <2>1, HeightsKept
<1>9. \A q \in 0..Len(bytecode) : q > pc => ~Mapped(q) /\ ~Mapped(q)'
  BY <1>6, <1>7 DEF Mapped, CompilerInv, CompilerTypeOK, IndicesInCode
<1>10. result = "scanning"
  BY <1>1 DEF Scanning
<1>11. NextIndex(0)' = 0
  <2>1. pc' # 0
    BY <1>6
  <2>2. NextIndex(0)' = pc_to_inst_idx'[0]
    BY <2>1 DEF NextIndex
  <2>3. CASE pc = 0
    BY <1>7, <2>2, <2>3 DEF ExpandInv, NextIndex
  <2>4. CASE pc # 0
    BY <1>6, <1>7, <2>2, <2>4 DEF ExpandInv, NextIndex
  <2> QED BY <2>3, <2>4
<1>12. ASSUME NEW p \in 0..Len(bytecode) - 1, p < pc', Mapped(p)'
       PROVE  Expanded(p)'
  <2>1. CASE p < pc
    <3> DEFINE b == bytecode[p + 1]
               first == pc_to_inst_idx[p]
    <3>0. PICK q : q = p + b.size
      OBVIOUS
    <3>1. p \in 0..pc /\ p \in 0..Len(bytecode) /\ p # pc
      BY <1>6, <2>1
    <3>2. Mapped(p) /\ Expanded(p)
      BY <1>7, <1>12, <2>1, <3>1 DEF Mapped, ExpandInv
    <3>3. /\ b.size \in 1..5 /\ q \in p + 1 .. pc /\ first \in Nat /\ Len(CodeOf(p)) \in 1..4
          /\ first + Len(CodeOf(p)) <= N
      BY <2>1, <3>0, <3>2, ExpandedInside
    <3>4. CodeOf(p)' = CodeOf(p) /\ pc_to_inst_idx'[p] = first /\ bytecode'[p + 1] = b
          /\ HeightAt'[p] = HeightAt[p]
      BY <1>6, <1>7, <1>8, <3>1 DEF CodeOf
    <3>5. NextIndex(q)' = NextIndex(q)
      <4>1. q # pc' /\ q \in 0..Len(bytecode)
        <5>1. p \in Nat /\ q \in p + 1 .. pc
          BY <3>3
        <5> QED BY <1>6, <5>1
      <4>2. NextIndex(q)' = pc_to_inst_idx'[q]
        BY <3>4, <4>1 DEF NextIndex
      <4> QED BY <1>7, <4>1, <4>2 DEF NextIndex
    <3>6. \A r \in p + 1 .. q - 1 : ~Mapped(r)'
      <4> TAKE r \in p + 1 .. q - 1
      <4>1. r \in 0..Len(bytecode) /\ r # pc
        BY <1>6, <3>3
      <4>2. ~Mapped(r)
        BY <3>0, <3>2 DEF Expanded
      <4> QED BY <1>7, <4>1, <4>2 DEF Mapped
    <3>7. \A i \in 1..Len(CodeOf(p)) : Copies(reg_instructions'[first + i], CodeOf(p)[i])
      <4> TAKE i \in 1..Len(CodeOf(p))
      <4>1. first + i \in 1..N
        BY <1>4, <3>3
      <4> QED BY <1>4, <3>2, <4>1 DEF Expanded
    <3>8. q <= pc'
      <4>1. q \in Int /\ q <= pc
        BY <1>6, <3>1, <3>3
      <4> QED BY <1>6, <4>1
    <3>9. FindsOperands(b, HeightAt[p]) /\ NextIndex(q) = first + Len(CodeOf(p))
      BY <3>0, <3>2 DEF Expanded
    <3>10. NextIndex(q)' = pc_to_inst_idx'[p] + Len(CodeOf(p)')
      BY <3>4, <3>5, <3>9
    <3>11. \A i \in 1..Len(CodeOf(p)') : Copies(reg_instructions'[pc_to_inst_idx'[p] + i], CodeOf(p)'[i])
      BY <3>4, <3>7
    <3>12. q = p + bytecode'[p + 1].size
      BY <3>0, <3>4
    <3>13. FindsOperands(bytecode[p + 1], HeightAt[p])'
      BY <3>4, <3>9 DEF FindsOperands
    <3>14. (bytecode[p + 1].size \in 1..5 /\ p + bytecode[p + 1].size <= pc)'
      BY <3>3, <3>4, <3>8, <3>12
    <3>15. (\A r \in p + 1 .. p + bytecode[p + 1].size - 1 : ~Mapped(r))'
      <4>1. p + bytecode'[p + 1].size - 1 = q - 1
        <5>1. bytecode'[p + 1].size \in Int /\ p \in Int
          BY <3>1, <3>3, <3>4
        <5> QED BY <3>12, <5>1
      <4>2. \A r \in p + 1 .. q - 1 : pc_to_inst_idx'[r] = None
        BY <3>6 DEF Mapped
      <4> QED BY <4>1, <4>2 DEF Mapped
    <3>16. (NextIndex(p + bytecode[p + 1].size) = pc_to_inst_idx[p] + Len(CodeOf(p)))'
      BY <3>10, <3>12 DEF NextIndex
    <3> QED BY <3>11, <3>13, <3>14, <3>15, <3>16 DEF Expanded
  <2>2. CASE p = pc
    <3>1. pc \in 0..pc /\ HeightAt'[p] = stack_height
      BY <1>6, <1>8, <2>2 DEF CodeInv
    <3>2. bytecode'[p + 1] = Cell0 /\ CodeOf(p)' = code /\ pc_to_inst_idx'[p] = N
      BY <1>6, <1>7, <2>2, <3>1 DEF CodeOf, Cell0, code
    <3>3. \A q : q = pc' => NextIndex(q)' = N + Len(code)
      BY <1>5 DEF NextIndex
    <3>4. \A r \in p + 1 .. p + Cell0.size - 1 : ~Mapped(r)'
      <4> TAKE r \in p + 1 .. p + Cell0.size - 1
      <4>1. r \in 0..Len(bytecode) /\ r > pc
        BY <1>6, <2>2
      <4> QED BY <1>9, <4>1
    <3>5. \A i \in 1..Len(code) : Copies(reg_instructions'[N + i], code[i])
      BY <1>4 DEF Copies
    <3>6. p + Cell0.size = pc'
      BY <1>6, <2>2
    <3> QED BY <1>1, <1>6, <3>1, <3>2, <3>3, <3>4, <3>5, <3>6 DEF Expanded, FindsOperands
  <2>3. CASE p > pc
    BY <1>6, <1>9, <1>12, <2>3
  <2> QED BY <1>6, <2>1, <2>2, <2>3
<1> QED BY <1>6, <1>10, <1>11, <1>12 DEF ExpandInv

(* The end of the code closes the last expansion.                          *)
LEMMA EndExpands ==
  ASSUME CompilerInv, CodeInv, ExpandInv, Reject \/ EndScan
  PROVE  ExpandInv'
<1> DEFINE N == Len(reg_instructions)
<1>1. /\ UNCHANGED <<bytecode, pc, stack_height, reg_instructions>>
      /\ pc \in Nat /\ Len(bytecode) \in Nat /\ pc <= Len(bytecode) /\ N \in Nat
  BY LenProperties DEF Reject, EndScan, CompilerInv, CompilerTypeOK
<1>2. /\ pc_to_inst_idx'[pc] = N
      /\ \A p \in 0 .. Len(bytecode) : p # pc => pc_to_inst_idx'[p] = pc_to_inst_idx[p]
  BY <1>1 DEF Reject, EndScan, CompilerInv, CompilerTypeOK
<1>3. \A p \in 0 .. pc : HeightAt'[p] = HeightAt[p]
  <2>1. \A p \in 0 .. pc - 1 : pc_to_inst_idx'[p] = pc_to_inst_idx[p]
    BY <1>1, <1>2
  <2> QED BY <1>1, <2>1, HeightsKept
<1>4. \A q \in 0..Len(bytecode) : NextIndex(q)' = NextIndex(q)
  BY <1>1, <1>2 DEF NextIndex
<1>5. ASSUME NEW p \in 0..Len(bytecode) - 1, p < pc', Mapped(p)'
      PROVE  Expanded(p)'
  <2> DEFINE b == bytecode[p + 1]
             q == p + b.size
  <2>1. p \in 0..pc /\ p \in 0..Len(bytecode) /\ p # pc /\ p < pc
    BY <1>1, <1>5
  <2>2. Mapped(p) /\ Expanded(p)
    BY <1>2, <1>5, <2>1 DEF Mapped, ExpandInv
  <2>3. b.size \in 1..5 /\ q \in p + 1 .. pc
    BY <2>1, <2>2, ExpandedInside
  <2>4. CodeOf(p)' = CodeOf(p) /\ pc_to_inst_idx'[p] = pc_to_inst_idx[p] /\ HeightAt'[p] = HeightAt[p]
    BY <1>1, <1>2, <1>3, <2>1 DEF CodeOf
  <2>5. \A r \in p + 1 .. q - 1 : ~Mapped(r)'
    <3> TAKE r \in p + 1 .. q - 1
    <3>1. r \in 0..Len(bytecode) /\ r # pc
      BY <1>1, <2>3
    <3>2. ~Mapped(r)
      BY <2>2 DEF Expanded
    <3> QED BY <1>2, <3>1, <3>2 DEF Mapped
  <2>6. NextIndex(q)' = NextIndex(q)
    BY <1>1, <1>4, <2>3
  <2>7. FindsOperands(b, HeightAt[p])'
    BY <1>1, <2>2, <2>4 DEF Expanded, FindsOperands
  <2>8. (q <= pc)' /\ b.size' \in 1..5
    BY <1>1, <2>2 DEF Expanded
  <2>9. NextIndex(q)' = (pc_to_inst_idx[p] + Len(CodeOf(p)))'
    BY <2>2, <2>4, <2>6 DEF Expanded
  <2>10. (\A i \in 1..Len(CodeOf(p)) : Copies(reg_instructions[pc_to_inst_idx[p] + i], CodeOf(p)[i]))'
    BY <1>1, <2>2, <2>4 DEF Expanded
  <2>11. (bytecode[p + 1])' = b /\ q' = q
    BY <1>1
  <2> QED BY <2>5, <2>7, <2>8, <2>9, <2>10, <2>11 DEF Expanded
<1>6. NextIndex(0)' = 0
  BY <1>1, <1>4 DEF ExpandInv
<1> QED BY <1>1, <1>2, <1>5, <1>6 DEF ExpandInv

(* A patched jump stays where it is.                                       *)
LEMMA PatchExpands ==
  ASSUME CompilerInv, JumpsInv, CodeInv, ExpandInv, result = "patching", jumps_to_patch # <<>>,
         NEW index, PatchWith(Head(jumps_to_patch), index)
  PROVE  ExpandInv'
<1> DEFINE N == Len(reg_instructions)
           k == Head(jumps_to_patch).inst_idx + 1
           new == [reg_instructions EXCEPT ![k].src1 = AsU16(index)]
<1>1. /\ reg_instructions \in Seq(RegInstruction) /\ N \in Nat
      /\ DOMAIN reg_instructions = 1 .. N
      /\ \A i \in 1 .. N : reg_instructions[i] \in RegInstruction
  BY LenProperties, ElementOfSeq DEF CompilerInv, CompilerTypeOK
<1>2. /\ reg_instructions' = new
      /\ UNCHANGED <<bytecode, pc, stack_height, pc_to_inst_idx, result>>
  BY DEF PatchWith
<1>3. /\ Len(new) = N
      /\ \A i \in 1 .. N : /\ new[i].op = reg_instructions[i].op /\ new[i].dst = reg_instructions[i].dst
                           /\ new[i].src2 = reg_instructions[i].src2
                           /\ i # k => new[i] = reg_instructions[i]
  <2>1. DOMAIN new = 1 .. N
    BY <1>1
  <2>2. \A i \in 1 .. N : /\ new[i].op = reg_instructions[i].op /\ new[i].dst = reg_instructions[i].dst
                          /\ new[i].src2 = reg_instructions[i].src2
                          /\ i # k => new[i] = reg_instructions[i]
    BY <1>1 DEF RegInstruction
  <2>3. new \in [1 .. N -> {new[i] : i \in 1 .. N}]
    BY <2>1
  <2>4. Len(new) = N
    BY <1>1, <2>1, <2>3, LenProperties, SeqDef
  <2> QED BY <2>2, <2>4
<1>4. reg_instructions[k].op \in JumpOps
  <2>1. jumps_to_patch \in Seq(Patch) /\ Len(jumps_to_patch) \in Nat \ {0}
        /\ Head(jumps_to_patch) = jumps_to_patch[1]
    BY EmptySeq, LenProperties, HeadTailProperties DEF CompilerInv, CompilerTypeOK
  <2>2. PICK q \in JumpOffsets : jumps_to_patch[1] = JumpAt(q)
    BY <2>1 DEF JumpsInv
  <2>3. k = pc_to_inst_idx[q] + 1
    BY <2>1, <2>2 DEF JumpAt
  <2> QED BY <2>2, <2>3 DEF JumpsInv
<1> HIDE DEF new, k
<1>5. \A p : HeightAt'[p] = HeightAt[p] /\ (Mapped(p)' <=> Mapped(p)) /\ NextIndex(p)' = NextIndex(p)
             /\ CodeOf(p)' = CodeOf(p)
  BY <1>2, <1>3 DEF HeightAt, Mapped, NextIndex, CodeOf
<1>6. ASSUME NEW p \in 0..Len(bytecode) - 1, p < pc, Mapped(p)
      PROVE  Expanded(p)'
  <2> DEFINE first == pc_to_inst_idx[p]
  <2>1. Expanded(p)
    BY <1>6 DEF ExpandInv
  <2>2. first \in Nat /\ Len(CodeOf(p)) \in 1..4 /\ first + Len(CodeOf(p)) <= N
    BY <1>6, <2>1, ExpandedInside
  <2>3. ASSUME NEW i \in 1..Len(CodeOf(p))
        PROVE  Copies(new[first + i], CodeOf(p)[i])
    <3>1. first + i \in 1..N
      BY <1>1, <2>2
    <3>2. Copies(reg_instructions[first + i], CodeOf(p)[i])
      BY <2>1 DEF Expanded
    <3>3. CASE first + i = k
      BY <1>3, <1>4, <3>1, <3>2, <3>3 DEF Copies
    <3>4. CASE first + i # k
      BY <1>3, <3>1, <3>2, <3>4
    <3> QED BY <3>3, <3>4
  <2> QED BY <1>2, <1>5, <2>1, <2>3 DEF Expanded, FindsOperands
<1> QED BY <1>2, <1>3, <1>5, <1>6 DEF ExpandInv

LEMMA ExpandInvHolds == CompilerSafety => []ExpandInv
<1>1. CompilerInit => ExpandInv
  <2> SUFFICES ASSUME CompilerInit PROVE ExpandInv
    OBVIOUS
  <2>1. pc = 0 /\ Len(reg_instructions) = 0 /\ result = "scanning"
    BY EmptySeq DEF CompilerInit
  <2> QED BY <2>1 DEF ExpandInv, NextIndex
<1>2. CompilerInv /\ JumpsInv /\ CodeInv /\ ExpandInv /\ [CompilerNext]_compiler_vars => ExpandInv'
  <2> SUFFICES ASSUME CompilerInv, JumpsInv, CodeInv, ExpandInv, [CompilerNext]_compiler_vars
               PROVE  ExpandInv'
    OBVIOUS
  <2>1. CASE FirstPass
    BY <2>1, FirstPassExpands
  <2>2. CASE Reject \/ EndScan
    BY <2>2, EndExpands
  <2>3. CASE PatchBeyondEnd
    BY <2>3, PatchExpands DEF PatchBeyondEnd
  <2>4. CASE PatchJump
    BY <2>4, PatchExpands DEF PatchJump
  <2>5. CASE PatchFails \/ Finish \/ UNCHANGED compiler_vars
    <3>1. /\ UNCHANGED <<bytecode, pc, reg_instructions, pc_to_inst_idx>>
          /\ result' = result \/ (result = "patching" /\ result' \in {"ok", "err"})
      BY <2>5 DEF PatchFails, Finish, compiler_vars
    <3> QED BY <3>1 DEF ExpandInv, Expanded, FindsOperands, CodeOf, NextIndex, HeightAt, Mapped
  <2> QED BY <2>1, <2>2, <2>3, <2>4, <2>5 DEF CompilerNext, FirstPass
<1> QED BY <1>1, <1>2, CompilerInvHolds, JumpsInvHolds, CodeInvHolds, PTL DEF CompilerSafety

-----------------------------------------------------------------------------
(* The widths.                                                             *)
LEMMA Widths ==
  /\ U32 \in Nat \ {0} /\ U16 \in Nat \ {0} /\ U8 \in Nat \ {0}
  /\ U32 = 2^IntBits /\ 2 * (U32 \div 2) = U32 /\ U32 <= 2^(MantissaBits - 1)
  /\ 2^MantissaBits = 2 * 2^(MantissaBits - 1) /\ 2^MantissaBits \in Nat
  /\ U8 <= U16
<1> DEFINE I == IntBits
           M == MantissaBits
<1>1. I \in Nat /\ I >= 1 /\ M \in Nat /\ M > I /\ M - 1 \in Nat /\ I - 1 \in Nat /\ M - 1 - I \in Nat
  BY WidthAssumption
<1>2. U16 \in Nat \ {0} /\ U8 \in Nat \ {0} /\ U8 <= U16
  <2>1. \A u \in Nat \ {0} : u <= u * u
    OBVIOUS
  <2> QED BY <2>1, WidthsPositive DEF U16
<1>3. U32 = 2^I
  <2>1. \A u \in Nat : u * u * u * u = (u * u) * (u * u)
    OBVIOUS
  <2> QED BY <1>2, <2>1, BitsAssumption DEF U32, U16
<1> HIDE DEF I, M
<1>4. 2^1 = 2
  <2>1. 2^(0 + 1) = 2^0 * 2^1 /\ 2^0 \in Nat \ {0} /\ 2^1 \in Nat \ {0}
    BY Powers
  <2> QED BY SMT
<1>5. 2^I \in Nat \ {0} /\ 2^(I - 1) \in Nat \ {0} /\ 2^(M - 1) \in Nat \ {0} /\ 2^(M - 1 - I) \in Nat \ {0}
  BY <1>1, Powers
<1>6. 2^I = 2^(I - 1) * 2
  <2>1. 2^((I - 1) + 1) = 2^(I - 1) * 2^1
    BY <1>1, Powers
  <2>2. (I - 1) + 1 = I
    BY <1>1
  <2> QED BY <1>4, <2>1, <2>2
<1>7. 2^M = 2^(M - 1) * 2
  <2>1. 2^((M - 1) + 1) = 2^(M - 1) * 2^1
    BY <1>1, Powers
  <2>2. (M - 1) + 1 = M
    BY <1>1
  <2> QED BY <1>4, <2>1, <2>2
<1>8. 2^(M - 1) = 2^(M - 1 - I) * 2^I
  <2>1. 2^((M - 1 - I) + I) = 2^(M - 1 - I) * 2^I
    BY <1>1, Powers
  <2>2. (M - 1 - I) + I = M - 1
    BY <1>1
  <2> QED BY <2>1, <2>2
<1>9. 2^I <= 2^(M - 1)
  <2>1. \A p, q \in Nat \ {0} : q <= p * q
    OBVIOUS
  <2> QED BY <1>5, <1>8, <2>1
<1>10. 2 * (U32 \div 2) = U32
  <2>1. \A p \in Nat : (p * 2) \div 2 = p
    OBVIOUS
  <2> QED BY <1>3, <1>5, <1>6, <2>1
<1>11. U32 \in Nat \ {0} /\ U32 <= 2^(M - 1)
  BY <1>3, <1>5, <1>9
<1>12. 2^M = 2 * 2^(M - 1) /\ 2^M \in Nat
  BY <1>5, <1>7
<1> QED BY <1>2, <1>3, <1>10, <1>11, <1>12 DEF I, M

(* An int is short of the significand.                                     *)
LEMMA IntIsShort ==
  ASSUME NEW n \in Int, AbsVal(n) <= U32
  PROVE  RoundF64(n) = n
<1>1. AbsVal(n) <= 2^MantissaBits
  <2>1. 2^(MantissaBits - 1) \in Nat
    BY WidthAssumption, Powers
  <2>2. AbsVal(n) \in Nat
    BY AbsIsNat
  <2> DEFINE q == 2^(MantissaBits - 1)
             p == 2^MantissaBits
  <2>3. U32 <= q /\ p = 2 * q /\ q \in Nat /\ U32 \in Nat
    BY <2>1, Widths
  <2> HIDE DEF p, q
  <2> QED BY <2>2, <2>3 DEF p
<1> QED BY <1>1 DEF RoundF64

(* A number that is rounded stays far from the ints.                       *)
LEMMA RoundsFar ==
  ASSUME NEW n \in Int, ~(AbsVal(n) <= 2^MantissaBits)
  PROVE  RoundF64(n) \notin Int32
<1> DEFINE a == AbsVal(n)
           least == 2^(MantissaBits - 1)
           Fits(k) == a \div 2^k \in least..2^MantissaBits - 1
           e == CHOOSE k \in 1..a \div least : Fits(k)
           quotient == a \div 2^e
           twice == 2 * (a % 2^e)
           up == twice > 2^e \/ (twice = 2^e /\ quotient % 2 = 1)
           rounded == (IF up THEN quotient + 1 ELSE quotient) * 2^e
<1>1. a \in Nat
  BY AbsIsNat
<1>2. 2^MantissaBits \in Nat
  BY WidthAssumption, Powers
<1>3. \E k \in 1..a \div least : Fits(k)
  <2>1. a > 2^MantissaBits
    BY <1>1, <1>2
  <2> HIDE DEF a
  <2> QED BY <1>1, <2>1, ExponentExists
<1>4. e \in 1..a \div least /\ Fits(e)
  <2> HIDE DEF Fits
  <2> QED BY <1>3
<1>5. least \in Nat \ {0}
  <2>1. MantissaBits - 1 \in Nat
    BY WidthAssumption
  <2> QED BY <2>1, Powers
<1>6. a \div least \in Int
  <2> HIDE DEF a, least
  <2> QED BY <1>1, <1>5
<1>7. e \in Nat /\ e >= 1
  <2> HIDE DEF e, a, least
  <2> QED BY <1>4, <1>6
<1>8. 2^e \in Nat /\ 2^e >= 2
  <2> HIDE DEF e
  <2>1. 2^e \in Nat \ {0} /\ e < 2^e
    BY <1>7, Powers
  <2> QED BY <1>7, <2>1
<1>9. quotient \in Int /\ quotient >= least
  <2> DEFINE q == quotient
  <2>1. q \in least..2^MantissaBits - 1
    BY <1>4
  <2>2. least \in Int /\ 2^MantissaBits - 1 \in Int
    BY <1>2, <1>5
  <2> HIDE DEF q, least
  <2>3. q \in Int /\ q >= least
    BY <2>1, <2>2
  <2> QED BY <2>3 DEF q
<1>10. RoundF64(n) = IF n < 0 THEN -rounded ELSE rounded
  BY DEF RoundF64
<1>11. rounded \in Int /\ rounded >= U32
  <2> DEFINE p == 2^e
             q == quotient
             w == IF up THEN q + 1 ELSE q
  <2>1. p \in Nat /\ p >= 2 /\ q \in Int /\ q >= least /\ least \in Nat /\ U32 <= least /\ U32 \in Nat
    BY <1>5, <1>8, <1>9, Widths
  <2> HIDE DEF p, up, least, q
  <2>2. w \in Int /\ w >= U32
    BY <2>1
  <2> HIDE DEF w
  <2>3. w * p \in Int /\ w * p >= w
    BY <2>1, <2>2
  <2>4. rounded = w * p
    BY DEF w, p, q
  <2> HIDE DEF rounded
  <2> QED BY <2>1, <2>2, <2>3, <2>4
<1> HIDE DEF rounded
<1> DEFINE h == U32 \div 2
<1>12. h \in Int /\ U32 = 2 * h /\ U32 \in Nat \ {0}
  BY Widths
<1> HIDE DEF h
<1>13. MinInt32 = -h /\ MaxInt32 = h - 1
  BY DEF MinInt32, MaxInt32, h
<1> QED BY <1>10, <1>11, <1>12, <1>13 DEF Int32

(* Ints, and what rounding to float64 does to integers.                    *)
LEMMA IntsAreShort ==
  ASSUME NEW n \in Int32
  PROVE  n \in Int /\ AbsVal(n) <= U32
<1> DEFINE h == U32 \div 2
<1>1. h \in Int /\ U32 = 2 * h /\ U32 \in Nat \ {0}
  BY Widths
<1> HIDE DEF h
<1>2. MinInt32 = -h /\ MaxInt32 = h - 1
  BY DEF MinInt32, MaxInt32, h
<1> QED BY <1>1, <1>2 DEF Int32, AbsVal

LEMMA RoundOfInt ==
  ASSUME NEW n \in Int
  PROVE  /\ RoundF64(n) \in Int32 <=> n \in Int32
         /\ n \in Int32 => RoundF64(n) = n
<1>1. n \in Int32 => RoundF64(n) = n
  BY IntsAreShort, IntIsShort
<1>2. CASE AbsVal(n) <= 2^MantissaBits
  BY <1>1, <1>2 DEF RoundF64
<1>3. CASE ~(AbsVal(n) <= 2^MantissaBits)
  BY <1>1, <1>3, RoundsFar
<1> QED BY <1>1, <1>2, <1>3

LEMMA TagsDiffer ==
  /\ \A n : MkFloat(n).tag = "float64" /\ MkFloat(n).v = n /\ MkFloat(n) # NegZero /\ MkFloat(n) # NaN
  /\ NegZero.tag = "neg_zero" /\ NaN.tag = "nan" /\ NegZero # NaN
BY DEF MkFloat, NegZero, NaN

LEMMA NumberIs ==
  ASSUME NEW x, is_number(x)
  PROVE  ToNumber(x) = x
BY DEF ToNumber, is_number

(* What a remainder of ints is.                                            *)
LEMMA RemainderFits ==
  ASSUME NEW a \in Int32, NEW b \in Int32, b # 0
  PROVE  TruncRem(a, b) \in Int32
<1> DEFINE h == U32 \div 2
<1>1. h \in Int /\ U32 = 2 * h /\ U32 \in Nat \ {0}
  BY Widths
<1> HIDE DEF h
<1>2. MinInt32 = -h /\ MaxInt32 = h - 1
  BY DEF MinInt32, MaxInt32, h
<1>3. a \in Int /\ b \in Int /\ -h <= b /\ b <= h - 1
  BY <1>1, <1>2 DEF Int32
<1>4. AbsVal(a) \in Nat /\ AbsVal(b) \in Nat \ {0} /\ AbsVal(b) <= h
  BY <1>1, <1>3, AbsIsNat DEF AbsVal
<1> DEFINE r == AbsVal(a) % AbsVal(b)
<1>5. r \in Nat /\ r <= h - 1
  <2>1. \A p \in Nat, q \in Nat \ {0} : p % q \in Nat /\ p % q <= q - 1
    OBVIOUS
  <2>2. r \in Nat /\ r <= AbsVal(b) - 1
    BY <1>4, <2>1
  <2> HIDE DEF r
  <2> QED BY <1>1, <1>4, <2>2
<1>6. TruncRem(a, b) = IF a < 0 THEN -r ELSE r
  <2>1. CASE a < 0
    BY <2>1 DEF TruncRem
  <2>2. CASE ~(a < 0)
    BY <2>2 DEF TruncRem, AbsVal
  <2> QED BY <2>1, <2>2
<1> HIDE DEF r
<1> QED BY <1>1, <1>2, <1>5, <1>6 DEF Int32

(* js_binary, for numbers that are not the two ints of an arithmetic op.   *)
LEMMA SameOfOthers ==
  ASSUME NEW op \in BinaryOps, NEW x \in Value, NEW y \in Value, vm_handles(op, x, y),
         ~(op \in ArithOps /\ BothInt(x, y)), ~EqualApart(op, x, y)
  PROVE  vm_binary(op, x, y) = js_binary(op, x, y)
<1>1. CASE op \in CompareOps
  <2>1. BothInt(x, y) /\ op # "STRICT_EQ" /\ op \notin ArithOps /\ op \notin BitOps
    BY <1>1 DEF vm_handles, CompareOps, ArithOps, BitOps
  <2>2. ToNumber(x) = x /\ ToNumber(y) = y /\ x.tag # "nan" /\ y.tag # "nan"
    BY <2>1, NumberIs DEF BothInt, is_number
  <2>3. vm_binary(op, x, y) = MkBool(Compare(op, x.v, y.v))
    BY <1>1 DEF vm_binary, MkBool, Compare, CompareOps, BitOps, ArithOps
  <2>4. js_binary(op, x, y) = MkBool(Compare(op, x.v, y.v))
    BY <1>1, <2>1, <2>2 DEF js_binary, MkBool
  <2> QED BY <2>3, <2>4
<1>2. CASE op = "STRICT_EQ"
  <2>1. vm_binary(op, x, y) = MkBool(vm_strict_eq(x, y))
    BY <1>2 DEF vm_binary, MkBool, CompareOps, BitOps, ArithOps
  <2>2. CASE BothNumbers(x, y)
    <3>1. ToNumber(x) = x /\ ToNumber(y) = y
      BY <2>2, NumberIs DEF BothNumbers
    <3>2. js_binary(op, x, y) = MkBool(~(x.tag = "nan" \/ y.tag = "nan") /\ x.v = y.v)
      BY <1>2, <2>2, <3>1 DEF js_binary, MkBool, CompareOps, BitOps
    <3>4. MkBool(vm_strict_eq(x, y)) = MkBool(x.tag # "nan" /\ y.tag # "nan" /\ x.v = y.v)
      BY <2>2 DEF vm_strict_eq, MkBool
    <3>5. MkBool(~(x.tag = "nan" \/ y.tag = "nan") /\ x.v = y.v)
            = MkBool(x.tag # "nan" /\ y.tag # "nan" /\ x.v = y.v)
      BY DEF MkBool
    <3> QED BY <2>1, <3>2, <3>4, <3>5
  <2>3. CASE ~BothNumbers(x, y)
    <3>1. (x.tag = y.tag /\ x.v = y.v) <=> x = y
      BY DEF Value
    <3>2. js_binary(op, x, y) = MkBool(SameContent(x, y))
      BY <1>2, <2>3 DEF js_binary, MkBool, CompareOps, BitOps
    <3>3. SameContent(x, y) <=> x = y
      BY <1>2, <2>3 DEF EqualApart, SameContent
    <3> QED BY <2>1, <2>3, <3>1, <3>2, <3>3 DEF vm_strict_eq, MkBool
  <2> QED BY <2>2, <2>3
<1>3. CASE op \in BitOps
  <2>1. BothNumbers(x, y) /\ op # "STRICT_EQ" /\ op \notin CompareOps
    BY <1>3 DEF vm_handles, CompareOps, BitOps
  <2>2. ToNumber(x) = x /\ ToNumber(y) = y
    BY <2>1, NumberIs DEF BothNumbers
  <2>3. vm_binary(op, x, y) = Int32Op(op, x, y)
    BY <1>3 DEF vm_binary, CompareOps, BitOps, ArithOps
  <2>4. js_binary(op, x, y) = Int32Op(op, x, y)
    BY <1>3, <2>2 DEF js_binary, CompareOps, BitOps, ArithOps
  <2> QED BY <2>3, <2>4
<1>4. CASE op \in ArithOps
  <2>1. BothNumbers(x, y) /\ op # "STRICT_EQ" /\ op \notin CompareOps /\ op \notin BitOps
    BY <1>4 DEF vm_handles, CompareOps, BitOps, ArithOps
  <2>2. ToNumber(x) = x /\ ToNumber(y) = y
    BY <2>1, NumberIs DEF BothNumbers
  <2>3. ~BothInt(x, y)
    BY <1>4
  <2>4. vm_binary(op, x, y) = F64Op(op, x, y)
    BY <2>1, <2>3 DEF vm_binary
  <2>5. js_binary(op, x, y) = F64Op(op, x, y)
    BY <2>1, <2>2, <2>3, Zenon DEF js_binary
  <2> QED BY <2>4, <2>5
<1> QED BY <1>1, <1>2, <1>3, <1>4 DEF BinaryOps

(* Of two ints the result is an int where that is exact.                   *)
LEMMA SameOfInts ==
  ASSUME NEW op \in ArithOps, NEW x \in Value, NEW y \in Value, BothInt(x, y),
         IntFits(x), IntFits(y), ~NegativeZeroDue(op, x, y)
  PROVE  vm_binary(op, x, y) = js_binary(op, x, y)
<1> DEFINE r == F64Op(op, x, y)
<1>1. /\ x.v \in Int32 /\ y.v \in Int32 /\ x.tag = "int" /\ y.tag = "int"
      /\ x.v \in Int /\ y.v \in Int /\ r # NegZero
  BY IntsAreShort DEF BothInt, IntFits, NegativeZeroDue
<1>2. ToNumber(x) = x /\ ToNumber(y) = y
  BY <1>1, NumberIs DEF is_number
<1>3. op # "STRICT_EQ" /\ op \notin CompareOps /\ op \notin BitOps
  BY DEF CompareOps, BitOps, ArithOps
<1>4. js_binary(op, x, y) = IF r.tag = "float64" /\ r.v \in Int32 THEN MkInt(r.v) ELSE r
  <2> HIDE DEF r
  <2> QED BY <1>2, <1>3, Zenon DEF js_binary, r
<1>5. ASSUME NEW n \in Int, r = MkFloat(RoundF64(n))
      PROVE  js_binary(op, x, y) = IF n \in Int32 THEN MkInt(n) ELSE MkFloat(RoundF64(n))
  <2>1. r.tag = "float64" /\ r.v = RoundF64(n)
    BY <1>5, TagsDiffer
  <2>2. CASE n \in Int32
    BY <1>4, <2>1, <2>2, RoundOfInt
  <2>3. CASE n \notin Int32
    BY <1>4, <1>5, <2>1, <2>3, RoundOfInt
  <2> QED BY <2>2, <2>3
<1>6. \A n, negative : F64(n, negative) # NegZero => F64(n, negative) = MkFloat(RoundF64(n))
  BY DEF F64
<1> HIDE DEF r
<1>7. CASE op \in {"ADD", "SUB", "MUL"}
  <2> DEFINE n == CASE op = "ADD" -> x.v + y.v [] op = "SUB" -> x.v - y.v [] OTHER -> x.v * y.v
  <2>1. n \in Int
    BY <1>1
  <2>2. r = MkFloat(RoundF64(n))
    <3>1. \E negative : r = F64(n, negative)
      BY <1>1, <1>7 DEF r, F64Op
    <3> QED BY <1>1, <1>6, <3>1
  <2>3. vm_binary(op, x, y) = vm_int_arith(op, x.v, y.v)
    BY <1>1, <1>3, <1>7 DEF vm_binary, BothInt, ArithOps
  <2>4. vm_int_arith(op, x.v, y.v) = IF n \in Int32 THEN MkInt(n) ELSE MkFloat(RoundF64(n))
    BY DEF vm_int_arith
  <2> HIDE DEF n
  <2> QED BY <1>5, <2>1, <2>2, <2>3, <2>4
<1>8. CASE op = "MOD"
  <2>1. vm_binary(op, x, y) = vm_int_mod(x.v, y.v)
    BY <1>1, <1>3, <1>8 DEF vm_binary, BothInt
  <2>2. CASE y.v = 0
    <3>1. r = NaN
      BY <1>8, <2>2 DEF r, F64Op
    <3> QED BY <1>4, <2>1, <2>2, <3>1, TagsDiffer DEF vm_int_mod
  <2>3. CASE y.v # 0
    <3> DEFINE n == TruncRem(x.v, y.v)
    <3>1. n \in Int32
      BY <1>1, <2>3, RemainderFits
    <3>2. r = F64(n, Negative(x))
      BY <1>1, <1>8, <2>3 DEF r, F64Op
    <3>3. r = MkFloat(RoundF64(n))
      BY <1>1, <1>6, <3>2
    <3>4. ~(x.v = MinInt32 /\ y.v = -1)
      <4> SUFFICES ASSUME x.v = MinInt32, y.v = -1 PROVE FALSE
        OBVIOUS
      <4>1. x.v < 0
        <5> DEFINE h == U32 \div 2
        <5>1. h \in Int /\ U32 = 2 * h /\ U32 \in Nat \ {0}
          BY Widths
        <5> HIDE DEF h
        <5>2. MinInt32 = -h
          BY DEF MinInt32, h
        <5> QED BY <5>1, <5>2
      <4>2. n = 0
        <5>1. AbsVal(-1) = 1 /\ AbsVal(x.v) \in Nat
          <6>1. \A k \in Int : -k = 0 - k /\ (k = -1 => k < 0 /\ 0 - k = 1)
            OBVIOUS
          <6> QED BY <1>1, <6>1, AbsIsNat DEF AbsVal
        <5>2. AbsVal(x.v) % 1 = 0
          BY <5>1
        <5> QED BY <4>1, <5>1, <5>2 DEF TruncRem
      <4>3. Negative(x)
        BY <4>1 DEF Negative
      <4> QED BY <1>1, <3>2, <4>2, <4>3 DEF F64
    <3>5. vm_int_mod(x.v, y.v) = MkInt(n)
      BY <2>3, <3>4 DEF vm_int_mod
    <3>6. n \in Int
      BY <3>1, IntsAreShort
    <3> HIDE DEF n
    <3> QED BY <1>5, <2>1, <3>1, <3>3, <3>5, <3>6
  <2> QED BY <2>2, <2>3
<1> QED BY <1>7, <1>8 DEF ArithOps

(* The VM computes what the reference does, but for the sign of zero and   *)
(* for heap values that are equal and not the same.                        *)
LEMMA SameResult ==
  ASSUME NEW op \in BinaryOps, NEW x \in Value, NEW y \in Value, vm_handles(op, x, y),
         IntFits(x), IntFits(y), ~NegativeZeroDue(op, x, y), ~EqualApart(op, x, y)
  PROVE  vm_binary(op, x, y) = js_binary(op, x, y)
BY SameOfOthers, SameOfInts

-----------------------------------------------------------------------------
(* Ints stay ints of the machine.                                          *)
IntsFit ==
  /\ \A r \in DOMAIN regs : IntFits(regs[r])
  /\ \A i \in DOMAIN var_buf : IntFits(var_buf[i])

LEMMA HalfWidth ==
  /\ MinInt32 = -(U32 \div 2) /\ MaxInt32 = U32 \div 2 - 1
  /\ U32 \div 2 \in Nat /\ U32 = 2 * (U32 \div 2)
BY Widths DEF MinInt32, MaxInt32

(* Wrapping leaves an int, and an int as it is.                            *)
LEMMA WrapFits ==
  ASSUME NEW n \in Int
  PROVE  WrapInt32(n) \in Int32 /\ (n \in Int32 => WrapInt32(n) = n)
<1> DEFINE h == U32 \div 2
           d == U32
           m == (n + h) % d
<1>1. h \in Nat /\ d = 2 * h /\ d \in Nat \ {0} /\ MinInt32 = -h /\ MaxInt32 = h - 1
  BY Widths, HalfWidth
<1>2. WrapInt32(n) = m - h
  BY DEF WrapInt32
<1> HIDE DEF h, d
<1>3. m \in 0..d - 1
  BY <1>1
<1>4. n + h \in 0..d - 1 => m = n + h
  BY <1>1
<1> HIDE DEF m
<1> QED BY <1>1, <1>2, <1>3, <1>4 DEF Int32

(* A multiple of the modulus does not change the remainder.                *)
LEMMA Multiples ==
  ASSUME NEW d \in Nat \ {0}, NEW a \in Int, NEW t \in Int
  PROVE  (a - d * t) % d = a % d
<1> DEFINE q == a \div d
           r == a % d
           s == d * t
           b == a - s
           u == b \div d
           v == b % d
<1>1. q \in Int /\ r \in 0..d - 1 /\ a = d * q + r
  OBVIOUS
<1>2. s \in Int
  OBVIOUS
<1>3. b \in Int
  BY <1>2
<1>4. u \in Int /\ v \in 0..d - 1 /\ b = d * u + v
  <2> HIDE DEF b
  <2> QED BY <1>3
<1> HIDE DEF q, r, u, v
<1>5. d * u + v = d * q + r - d * t
  BY <1>1, <1>4
<1>6. d * (u - q + t) = r - v
  <2>1. d * (u - q + t) = d * u - d * q + d * t
    BY <1>1, <1>4
  <2> QED BY <1>1, <1>2, <1>4, <1>5, <2>1
<1>7. u - q + t = 0
  <2> DEFINE w == u - q + t
  <2>1. w \in Int /\ d * w = r - v /\ r - v < d /\ r - v > -d
    BY <1>1, <1>4, <1>6
  <2> HIDE DEF w
  <2>2. w >= 1 => d * w >= d
    BY <2>1
  <2>3. w <= -1 => d * w <= -d
    BY <2>1
  <2> QED BY <1>1, <1>4, <2>1, <2>2, <2>3 DEF w
<1>8. d * 0 = 0
  OBVIOUS
<1>9. v = r
  BY <1>1, <1>4, <1>6, <1>7, <1>8
<1> QED BY <1>9 DEF v, r

(* An immediate arrives as it was sent.                                    *)
LEMMA PushIntIs ==
  ASSUME NEW dst, NEW n \in Int32
  PROVE  reg_i32(PushInt(dst, n)) = n
<1> DEFINE w == U16
           q == n \div w
           r == n % w
           t == q \div w
           h == U32 \div 2
           d == U32
<1>1. n \in Int /\ w \in Nat \ {0} /\ d = w * w /\ d \in Nat \ {0} /\ h \in Nat
  BY IntsAreShort, Widths, HalfWidth DEF U32
<1>2. reg_i32(PushInt(dst, n)) = WrapInt32(r + (q % w) * w)
  BY DEF reg_i32, PushInt, LowHalf, HighHalf
<1> HIDE DEF w, d, h
<1>3. n = w * q + r /\ q \in Int /\ r \in Int
  BY <1>1
<1> HIDE DEF q, r
<1>4. q = w * t + (q % w) /\ t \in Int /\ q % w \in Int
  BY <1>1, <1>3
<1> HIDE DEF t
<1>5. r + (q % w) * w = n - d * t
  <2> DEFINE p == q % w
  <2>1. q = w * t + p /\ p \in Int
    BY <1>4
  <2> HIDE DEF p
  <2>2. w * q = w * (w * t) + w * p
    BY <1>1, <1>4, <2>1
  <2>3. w * (w * t) = d * t
    <3>1. \A x, y, z \in Int : x * (y * z) = (x * y) * z
      OBVIOUS
    <3> QED BY <1>1, <1>4, <3>1
  <2>4. w * p = p * w
    BY <1>1, <2>1
  <2>5. d * t \in Int /\ p * w \in Int /\ w * q \in Int
    BY <1>1, <1>3, <1>4, <2>1
  <2>6. r + p * w = n - d * t
    BY <1>1, <1>3, <2>2, <2>3, <2>4, <2>5
  <2> QED BY <2>6 DEF p
<1>6. WrapInt32(n - d * t) = WrapInt32(n)
  <2>1. (n - d * t) + h = (n + h) - d * t
    <3>1. d * t \in Int
      BY <1>1, <1>4
    <3> QED BY <1>1, <3>1
  <2>2. ((n + h) - d * t) % d = (n + h) % d
    <3>1. n + h \in Int
      BY <1>1
    <3> QED BY <1>1, <1>4, <3>1, Multiples
  <2> QED BY <2>1, <2>2 DEF WrapInt32, d, h
<1> QED BY <1>1, <1>2, <1>5, <1>6, WrapFits

LEMMA MadeFit ==
  /\ \A n \in Int32 : IntFits(MkInt(n))
  /\ \A n : IntFits(MkFloat(n))
  /\ \A b : IntFits(MkBool(b))
  /\ \A x \in {NaN, NegZero, Null, Undefined, Uninitialized} : IntFits(x)
BY DEF IntFits, MkInt, MkFloat, MkBool, NaN, NegZero, Null, Undefined, Uninitialized

LEMMA Int32OpFits ==
  ASSUME NEW op \in BitOps, NEW x \in Value, NEW y \in Value
  PROVE  IntFits(Int32Op(op, x, y))
<1> DEFINE lhs == js_to_int32(x)
           rhs == js_to_int32(y)
           shift == js_to_uint32(y) % IntBits
           p == 2^shift
<1>1. lhs \in Int32 /\ lhs \in Int /\ rhs \in Int /\ js_to_uint32(y) \in Int
  BY WrapFits, IntsAreShort, WrapIsInt DEF Value, js_to_int32, js_to_uint32
<1>2. shift \in Nat
  BY <1>1, WidthAssumption
<1>3. p \in Nat \ {0}
  <2> HIDE DEF shift
  <2> QED BY <1>2, Powers
<1> HIDE DEF p, lhs, rhs
<1>4. WrapInt32(lhs * p) \in Int32 /\ WrapInt32(BitwiseOp(op, lhs, rhs)) \in Int32
  <2>1. lhs * p \in Int /\ BitwiseOp(op, lhs, rhs) \in Int
    BY <1>1, <1>3, BitwiseType
  <2> QED BY <2>1, WrapFits
<1>5. lhs \div p \in Int32
  <2> DEFINE h == U32 \div 2
  <2>1. h \in Nat /\ MinInt32 = -h /\ MaxInt32 = h - 1
    BY HalfWidth
  <2> HIDE DEF h
  <2>2. lhs \in -h..h - 1
    BY <1>1, <2>1 DEF Int32
  <2> DEFINE q == lhs \div p
  <2>3. q \in Int /\ q * p <= lhs /\ lhs < (q + 1) * p
    BY <1>1, <1>3
  <2> HIDE DEF q
  <2>4. q >= -h
    <3> SUFFICES ASSUME q + 1 <= -h PROVE FALSE
      BY <2>1, <2>3
    <3>1. \A a \in Int, b \in Nat : a <= -b => a * p <= -b
      BY <1>3
    <3>2. (q + 1) * p <= -h /\ (q + 1) * p \in Int
      BY <1>3, <2>1, <2>3, <3>1
    <3> QED BY <1>1, <2>1, <2>2, <2>3, <3>2
  <2>5. q <= h - 1
    <3> SUFFICES ASSUME q >= h PROVE FALSE
      BY <2>1, <2>3
    <3>1. \A a, b \in Nat : a >= b => a * p >= b
      BY <1>3
    <3>2. q * p >= h /\ q * p \in Int
      BY <1>3, <2>1, <2>3, <3>1
    <3> QED BY <1>1, <2>1, <2>2, <2>3, <3>2
  <2> QED BY <2>1, <2>3, <2>4, <2>5 DEF Int32, q
<1>6. IntFits(Uint32ToValue((lhs % U32) \div p))
  <2> DEFINE d == U32
             q == (lhs % d) \div p
  <2>1. d \in Nat \ {0}
    BY Widths
  <2> HIDE DEF d
  <2>2. lhs % d \in Nat
    BY <1>1, <2>1
  <2>3. q \in Nat
    BY <1>3, <2>2
  <2> HIDE DEF q
  <2>4. q <= MaxInt32 => q \in Int32
    BY <2>3, HalfWidth DEF Int32
  <2>5. IntFits(Uint32ToValue(q))
    BY <2>4, MadeFit DEF Uint32ToValue
  <2> QED BY <2>5 DEF q, d
<1> HIDE DEF shift
<1>7. /\ IntFits(MkInt(WrapInt32(lhs * p)))
      /\ IntFits(MkInt(lhs \div p))
      /\ IntFits(MkInt(WrapInt32(BitwiseOp(op, lhs, rhs))))
  BY <1>4, <1>5, MadeFit
<1> QED BY <1>6, <1>7 DEF Int32Op, p, lhs, rhs, shift

LEMMA F64OpFits ==
  ASSUME NEW op \in ArithOps, NEW x, NEW y
  PROVE  IntFits(F64Op(op, x, y))
<1>1. \A n, negative : IntFits(F64(n, negative))
  BY MadeFit DEF F64
<1>2. IntFits(NaN)
  BY MadeFit
<1>3. CASE x.tag = "nan" \/ y.tag = "nan" \/ (op = "MOD" /\ y.v = 0)
  BY <1>2, <1>3, Zenon DEF F64Op
<1>4. CASE ~(x.tag = "nan" \/ y.tag = "nan" \/ (op = "MOD" /\ y.v = 0))
  <2>1. \E n, negative : F64Op(op, x, y) = F64(n, negative)
    BY <1>4 DEF F64Op, ArithOps
  <2> QED BY <1>1, <2>1
<1> QED BY <1>3, <1>4

(* The VM's operators give ints of the machine, of the operands they take. *)
LEMMA ResultFits ==
  ASSUME NEW op \in BinaryOps, NEW x \in Value, NEW y \in Value, IntFits(x), IntFits(y)
  PROVE  IntFits(vm_binary(op, x, y))
<1>1. op \in BitOps => IntFits(Int32Op(op, x, y))
  BY Int32OpFits
<1>2. op \in ArithOps => IntFits(F64Op(op, x, y))
  BY F64OpFits
<1>3. BothInt(x, y) => IntFits(vm_int_mod(x.v, y.v))
  <2> SUFFICES ASSUME BothInt(x, y) PROVE IntFits(vm_int_mod(x.v, y.v))
    OBVIOUS
  <2>1. x.v \in Int32 /\ y.v \in Int32
    BY DEF BothInt, IntFits
  <2>2. y.v # 0 => TruncRem(x.v, y.v) \in Int32
    BY <2>1, RemainderFits
  <2> QED BY <2>2, MadeFit DEF vm_int_mod
<1>4. IntFits(vm_int_arith(op, x.v, y.v))
  <2> DEFINE r == CASE op = "ADD" -> x.v + y.v [] op = "SUB" -> x.v - y.v [] OTHER -> x.v * y.v
  <2> HIDE DEF r
  <2>1. IntFits(IF r \in Int32 THEN MkInt(r) ELSE MkFloat(RoundF64(r)))
    BY MadeFit
  <2> QED BY <2>1 DEF vm_int_arith, r
<1>5. \A b : IntFits(MkBool(b))
  BY MadeFit
<1>6. op \in CompareOps \/ op = "STRICT_EQ" \/ op \in BitOps \/ op \in ArithOps
  BY DEF BinaryOps
<1> QED BY <1>1, <1>2, <1>3, <1>4, <1>5, <1>6, Zenon DEF vm_binary

LEMMA WriteFits ==
  ASSUME RunTypeOK, IntsFit, NEW x, IntFits(x), WriteReg(x)
  PROVE  IntsFit'
<1>1. var_buf' = var_buf /\ regs' = [regs EXCEPT ![Inst.dst] = x]
  BY DEF WriteReg
<1>2. DOMAIN regs' = DOMAIN regs
  BY <1>1
<1>3. \A r \in DOMAIN regs : IntFits(regs'[r])
  BY <1>1 DEF IntsFit
<1> QED BY <1>1, <1>2, <1>3 DEF IntsFit, IntFits

(* No step does either.                                                    *)
LEMMA StepKeepsInts ==
  ASSUME CompilerInv, CodeInv, RunTypeOK, IntsFit, VMStep
  PROVE  IntsFit'
<1>1. ASSUME NEW ops, Executing(ops)
      PROVE  /\ AtInstruction /\ Inst.op \in ops
             /\ Inst.src1 \in Int /\ Inst.src2 \in Int
             /\ \A r \in SourceRegisters(Inst) : r \in DOMAIN regs /\ regs[r] \in Value /\ IntFits(regs[r])
             /\ InFrame(Inst)
  <2>1. AtInstruction /\ Inst.op \in ops /\ InRange(Inst)
    BY <1>1 DEF Executing
  <2>2. Inst \in RegInstruction /\ InFrame(Inst)
    BY <2>1, CurrentInstruction
  <2>3. Inst.src1 \in Int /\ Inst.src2 \in Int
    BY <2>2, WidthsPositive DEF RegInstruction
  <2> QED BY <2>1, <2>2, <2>3 DEF InRange, RunTypeOK, IntsFit
<1>2. CASE VMPushImmediate
  <2>1. IntFits(ImmediateValue(Inst))
    <3>1. reg_i32(Inst) \in Int32
      <4>1. Inst.src1 \in Int /\ Inst.src2 \in Int /\ U16 \in Int
        BY <1>1, <1>2, WidthsPositive DEF VMPushImmediate
      <4>2. Inst.src1 + Inst.src2 * U16 \in Int
        BY <4>1
      <4> QED BY <4>2, WrapFits DEF reg_i32
    <3>2. IntFits(MkInt(reg_i32(Inst))) /\ IntFits(Undefined) /\ IntFits(Null)
          /\ IntFits(MkBool(Inst.op = "PUSH_TRUE"))
      BY <3>1, MadeFit
    <3> QED BY <3>2 DEF ImmediateValue
  <2> QED BY <1>2, <2>1, WriteFits DEF VMPushImmediate
<1>3. CASE VMPushConst
  <2>1. IntFits(cpool[Inst.src1])
    BY <1>1, <1>3, FrameAssumption DEF VMPushConst, InFrame
  <2> QED BY <1>3, <2>1, WriteFits DEF VMPushConst
<1>4. CASE VMMov
  <2>1. IntFits(regs[Inst.src1])
    <3>1. SourceRegisters(Inst) = {Inst.src1}
      BY <1>1, <1>4 DEF VMMov, SourceRegisters, BinaryOps, ArithOps, BitOps, CompareOps
    <3> QED BY <1>1, <1>4, <3>1 DEF VMMov
  <2> QED BY <1>4, <2>1, WriteFits DEF VMMov
<1>5. CASE VMLoadLoc
  <2>1. IntFits(var_buf[Inst.src1])
    BY <1>1, <1>5 DEF VMLoadLoc, InFrame, RunTypeOK, IntsFit
  <2> QED BY <1>5, <2>1, WriteFits DEF VMLoadLoc
<1>6. CASE VMStoreLoc
  <2> DEFINE val == regs[Inst.src1]
  <2>1. IntFits(val)
    <3>1. SourceRegisters(Inst) = {Inst.src1}
      BY <1>1, <1>6 DEF VMStoreLoc, SourceRegisters, BinaryOps, ArithOps, BitOps, CompareOps
    <3> QED BY <1>1, <1>6, <3>1 DEF VMStoreLoc
  <2>2. var_buf' = [var_buf EXCEPT ![Inst.dst] = val] /\ regs' = regs
    BY <1>6 DEF VMStoreLoc
  <2> HIDE DEF val
  <2>3. DOMAIN var_buf' = DOMAIN var_buf /\ \A i \in DOMAIN var_buf : IntFits(var_buf'[i])
    BY <2>1, <2>2 DEF IntsFit
  <2> QED BY <2>2, <2>3 DEF IntsFit, IntFits
<1>7. CASE VMBinary
  <2>1. IntFits(vm_binary(Inst.op, regs[Inst.src1], regs[Inst.src2]))
    <3>1. Inst.op \in BinaryOps /\ SourceRegisters(Inst) = {Inst.src1, Inst.src2}
      BY <1>1, <1>7 DEF VMBinary, SourceRegisters, BinaryOps, ArithOps, BitOps, CompareOps
    <3>2. /\ regs[Inst.src1] \in Value /\ regs[Inst.src2] \in Value
          /\ IntFits(regs[Inst.src1]) /\ IntFits(regs[Inst.src2])
      BY <1>1, <1>7, <3>1 DEF VMBinary
    <3> QED BY <3>1, <3>2, ResultFits
  <2> QED BY <1>7, <2>1, WriteFits DEF VMBinary
<1>8. CASE VMDrop \/ VMJump \/ VMBranch \/ VMReturn \/ VMReturnUndef \/ VMBail \/ VMPanic
  <2>1. UNCHANGED <<regs, var_buf>>
    BY <1>8 DEF VMDrop, VMJump, VMBranch, VMReturn, VMReturnUndef, VMBail, VMPanic
  <2> QED BY <2>1 DEF IntsFit, IntFits
<1> QED BY <1>2, <1>3, <1>4, <1>5, <1>6, <1>7, <1>8 DEF VMStep

LEMMA IntsFitHolds == Spec => []IntsFit
<1>1. Init => IntsFit
  <2> SUFFICES ASSUME Init PROVE IntsFit
    OBVIOUS
  <2>1. IntFits(Undefined)
    BY MadeFit
  <2> QED BY <2>1 DEF Init, VMInit, FreshRegisters, IntsFit
<1>2. CompilerInv /\ CodeInv /\ RunTypeOK /\ IntsFit /\ [Next]_vm_vars => IntsFit'
  <2>1. (CompilerInv /\ CodeInv /\ RunTypeOK /\ IntsFit /\ VMStep) => IntsFit'
    BY StepKeepsInts
  <2>2. (IntsFit /\ UNCHANGED run_vars) => IntsFit'
    BY DEF IntsFit, IntFits, run_vars
  <2> QED BY <2>1, <2>2 DEF Next, vm_vars
<1> QED BY <1>1, <1>2, CompilerInside, CompilerInvHolds, CodeInvHolds, RunTypeHolds, PTL DEF Spec

-----------------------------------------------------------------------------
(* The operators of the stack machine are the VM's own.                    *)
LEMMA SameConstants ==
  /\ Machine!U16 = U16 /\ Machine!U32 = U32 /\ Machine!Int32 = Int32 /\ Machine!MaxInt32 = MaxInt32
  /\ Machine!RegOpOf = RegOpOf /\ Machine!NeedsTwo = NeedsTwo /\ Machine!BranchOpcodes = BranchOpcodes
  /\ Machine!PrimitiveOpcodes = PrimitiveOpcodes
  /\ Machine!ArithOps = ArithOps /\ Machine!BitOps = BitOps /\ Machine!CompareOps = CompareOps
  /\ Machine!Undefined = Undefined /\ Machine!Null = Null /\ Machine!NaN = NaN
  /\ Machine!NegZero = NegZero /\ Machine!Uninitialized = Uninitialized
<1>1. Machine!U16 = U16
  BY DEF U16, Machine!U16
<1>2. Machine!U32 = U32
  BY <1>1 DEF U32, Machine!U32
<1>3. Machine!MaxInt32 = MaxInt32 /\ Machine!MinInt32 = MinInt32
  BY <1>2 DEF MaxInt32, Machine!MaxInt32, MinInt32, Machine!MinInt32
<1>4. Machine!Int32 = Int32
  BY <1>3 DEF Int32, Machine!Int32
<1>5. Machine!RegOpOf = RegOpOf
  BY Zenon DEF RegOpOf, Machine!RegOpOf
<1>6. /\ Machine!NeedsTwo = NeedsTwo /\ Machine!BranchOpcodes = BranchOpcodes
      /\ Machine!PrimitiveOpcodes = PrimitiveOpcodes
  BY DEF NeedsTwo, Machine!NeedsTwo, BranchOpcodes, Machine!BranchOpcodes, PrimitiveOpcodes,
         Machine!PrimitiveOpcodes, BinaryOpcodes, Machine!BinaryOpcodes, ComparisonOpcodes,
         Machine!ComparisonOpcodes
<1>7. Machine!ArithOps = ArithOps /\ Machine!BitOps = BitOps /\ Machine!CompareOps = CompareOps
  BY DEF ArithOps, Machine!ArithOps, BitOps, Machine!BitOps, CompareOps, Machine!CompareOps
<1>8. /\ Machine!Undefined = Undefined /\ Machine!Null = Null /\ Machine!NaN = NaN
      /\ Machine!NegZero = NegZero /\ Machine!Uninitialized = Uninitialized
  BY DEF Undefined, Machine!Undefined, Null, Machine!Null, NaN, Machine!NaN, NegZero, Machine!NegZero,
         Uninitialized, Machine!Uninitialized
<1> QED BY <1>1, <1>2, <1>3, <1>4, <1>5, <1>6, <1>7, <1>8

LEMMA SameMakers ==
  /\ \A n : Machine!MkInt(n) = MkInt(n) /\ Machine!MkFloat(n) = MkFloat(n)
  /\ \A x : /\ Machine!is_number(x) <=> is_number(x)
            /\ Machine!Negative(x) <=> Negative(x)
            /\ Machine!js_to_int32(x) = js_to_int32(x) /\ Machine!js_to_uint32(x) = js_to_uint32(x)
  /\ \A x, y : /\ Machine!BothInt(x, y) <=> BothInt(x, y)
               /\ Machine!BothNumbers(x, y) <=> BothNumbers(x, y)
  /\ \A n : Machine!AbsVal(n) = AbsVal(n) /\ Machine!WrapInt32(n) = WrapInt32(n)
  /\ \A a, b : Machine!TruncRem(a, b) = TruncRem(a, b)
  /\ \A n : Machine!RoundF64(n) = RoundF64(n)
  /\ \A op, a, b : Machine!BitwiseOp(op, a, b) = BitwiseOp(op, a, b)
<1>1. \A n : Machine!MkInt(n) = MkInt(n) /\ Machine!MkFloat(n) = MkFloat(n)
  BY DEF MkInt, Machine!MkInt, MkFloat, Machine!MkFloat
<1>2. \A x : Machine!is_number(x) <=> is_number(x)
  BY DEF is_number, Machine!is_number
<1>3. \A x : Machine!Negative(x) <=> Negative(x)
  BY DEF Negative, Machine!Negative
<1>4. \A n : Machine!WrapInt32(n) = WrapInt32(n)
  BY SameConstants DEF WrapInt32, Machine!WrapInt32
<1>5. \A x : Machine!js_to_int32(x) = js_to_int32(x) /\ Machine!js_to_uint32(x) = js_to_uint32(x)
  BY <1>4, SameConstants DEF js_to_int32, Machine!js_to_int32, js_to_uint32, Machine!js_to_uint32
<1>6. \A x, y : Machine!BothInt(x, y) <=> BothInt(x, y)
  BY DEF BothInt, Machine!BothInt
<1>7. \A x, y : Machine!BothNumbers(x, y) <=> BothNumbers(x, y)
  BY <1>2 DEF BothNumbers, Machine!BothNumbers
<1>8. \A n : Machine!AbsVal(n) = AbsVal(n)
  BY Zenon DEF AbsVal, Machine!AbsVal
<1>9. \A a, b : Machine!TruncRem(a, b) = TruncRem(a, b)
  BY <1>8, Zenon DEF TruncRem, Machine!TruncRem
<1>10. \A n : Machine!RoundF64(n) = RoundF64(n)
  BY Zenon DEF RoundF64, Machine!RoundF64, AbsVal, Machine!AbsVal
<1>11. \A op, a, b : Machine!BitwiseOp(op, a, b) = BitwiseOp(op, a, b)
  BY Zenon DEF BitwiseOp, Machine!BitwiseOp
<1> QED BY <1>1, <1>2, <1>3, <1>4, <1>5, <1>6, <1>7, <1>8, <1>9, <1>10, <1>11

LEMMA SameArithmetic ==
  /\ \A op, x, y : Machine!F64Op(op, x, y) = F64Op(op, x, y)
  /\ \A op, x, y : Machine!Int32Op(op, x, y) = Int32Op(op, x, y)
<1>1. \A n, negative : Machine!F64(n, negative) = F64(n, negative)
  BY SameMakers, SameConstants, Zenon DEF F64, Machine!F64
<1>2. ASSUME NEW op, NEW x, NEW y
      PROVE  Machine!F64Op(op, x, y) = F64Op(op, x, y)
  <2>1. Machine!Negative(x) = Negative(x) /\ Machine!Negative(y) = Negative(y)
    BY SameMakers DEF Negative, Machine!Negative
  <2> QED BY <1>1, <2>1, SameMakers, SameConstants, Zenon DEF F64Op, Machine!F64Op
<1>3. \A n : Machine!Uint32ToValue(n) = Uint32ToValue(n)
  BY SameMakers, SameConstants, Zenon DEF Uint32ToValue, Machine!Uint32ToValue
<1>4. ASSUME NEW op, NEW x, NEW y
      PROVE  Machine!Int32Op(op, x, y) = Int32Op(op, x, y)
  BY <1>3, SameMakers, SameConstants, Zenon DEF Int32Op, Machine!Int32Op
<1> QED BY <1>2, <1>4

LEMMA SameOperators ==
  /\ \A op, x, y : Machine!vm_handles(op, x, y) <=> vm_handles(op, x, y)
  /\ \A op, x, y : Machine!js_binary(op, x, y) = js_binary(op, x, y)
<1>1. ASSUME NEW op, NEW x, NEW y
      PROVE  Machine!vm_handles(op, x, y) <=> vm_handles(op, x, y)
  BY SameMakers, SameConstants DEF vm_handles, Machine!vm_handles
<1>2. ASSUME NEW op, NEW x, NEW y
      PROVE  Machine!js_binary(op, x, y) = js_binary(op, x, y)
  <2> DEFINE a == ToNumber(x)
             b == ToNumber(y)
             r == F64Op(op, a, b)
  <2>1. /\ Machine!ToNumber(x) = a /\ Machine!ToNumber(y) = b
        /\ Machine!F64Op(op, a, b) = r /\ Machine!Int32Op(op, a, b) = Int32Op(op, a, b)
    BY SameMakers, SameConstants, SameArithmetic, Zenon
       DEF ToNumber, Machine!ToNumber, is_number, Machine!is_number
  <2> HIDE DEF a, b, r
  <2>2. Machine!SameContent(x, y) = SameContent(x, y)
    BY Zenon DEF SameContent, Machine!SameContent
  <2>3. Machine!js_binary(op, x, y)
          = CASE op = "STRICT_EQ"   -> Machine!MkBool(IF BothNumbers(x, y)
                                         THEN ~(a.tag = "nan" \/ b.tag = "nan") /\ x.v = y.v
                                         ELSE SameContent(x, y))
              [] op \in CompareOps  -> Machine!MkBool(~(a.tag = "nan" \/ b.tag = "nan")
                                                       /\ Machine!Compare(op, a.v, b.v))
              [] op \in BitOps      -> Int32Op(op, a, b)
              [] OTHER              -> IF BothInt(a, b) /\ r.tag = "float64" /\ r.v \in Int32
                                         THEN MkInt(r.v) ELSE r
    BY <2>1, <2>2, SameMakers, SameConstants, Zenon
       DEF Machine!js_binary, BothNumbers, Machine!BothNumbers, is_number, Machine!is_number,
           BothInt, Machine!BothInt
  <2>4. js_binary(op, x, y)
          = CASE op = "STRICT_EQ"   -> MkBool(IF BothNumbers(x, y)
                                         THEN ~(a.tag = "nan" \/ b.tag = "nan") /\ x.v = y.v
                                         ELSE SameContent(x, y))
              [] op \in CompareOps  -> MkBool(~(a.tag = "nan" \/ b.tag = "nan") /\ Compare(op, a.v, b.v))
              [] op \in BitOps      -> Int32Op(op, a, b)
              [] OTHER              -> IF BothInt(a, b) /\ r.tag = "float64" /\ r.v \in Int32
                                         THEN MkInt(r.v) ELSE r
    BY Zenon DEF js_binary, a, b, r
  <2> QED BY <2>3, <2>4, Zenon DEF MkBool, Machine!MkBool, Compare, Machine!Compare
<1> QED BY <1>1, <1>2

-----------------------------------------------------------------------------
(* Where the VM is.                                                        *)
Compiled == CompilerInv /\ JumpsInv /\ CodeInv /\ ExpandInv /\ result = "ok"

(* The instruction at p is in the code, and n is the one after it.         *)
Follows(p, n) ==
  /\ p \in 0..Len(bytecode) - 1 /\ Mapped(p)
  /\ n = p + bytecode[p + 1].size

(* The compiled code, whole.                                               *)
LEMMA Layout ==
  ASSUME Compiled
  PROVE  /\ Len(bytecode) \in Nat /\ pc = Len(bytecode) /\ bytecode \in Seq(Cell)
         /\ pc_to_inst_idx \in [0 .. Len(bytecode) -> Nat \cup {None}]
         /\ Len(reg_instructions) \in Nat
         /\ Mapped(Len(bytecode)) /\ pc_to_inst_idx[Len(bytecode)] = Len(reg_instructions)
         /\ HeightAt \in [0 .. Len(bytecode) -> Int] /\ HeightAt[0] = 0
         /\ HeightAt[Len(bytecode)] \in Nat
<1>1. /\ Len(bytecode) \in Nat /\ pc = Len(bytecode) /\ bytecode \in Seq(Cell)
      /\ pc_to_inst_idx \in [0 .. Len(bytecode) -> Nat \cup {None}]
      /\ Len(reg_instructions) \in Nat
  BY LenProperties DEF Compiled, JumpsInv, CompilerInv, CompilerTypeOK
<1>2. pc_to_inst_idx[Len(bytecode)] = Len(reg_instructions)
  BY <1>1 DEF Compiled, ExpandInv
<1>3. Mapped(Len(bytecode))
  BY <1>1, <1>2 DEF Mapped, None
<1>4. HeightAt \in [0 .. Len(bytecode) -> Int] /\ HeightAt[0] = 0
  BY <1>1, HeightsEquation DEF HeightAt
<1>5. HeightAt[Len(bytecode)] \in Nat
  BY <1>1 DEF Compiled, CodeInv, CompilerInv, CompilerTypeOK
<1> QED BY <1>1, <1>2, <1>3, <1>4, <1>5

(* The instruction at p, its expansion and its neighbour.                  *)
LEMMA NextInstruction ==
  ASSUME Compiled, NEW p, NEW n, Follows(p, n)
  PROVE  /\ p \in Nat /\ n \in Nat /\ p < n /\ n \in 0..Len(bytecode) /\ Mapped(n)
         /\ bytecode[p + 1] \in Cell
         /\ pc_to_inst_idx[p] \in Nat /\ Len(CodeOf(p)) \in 1..4
         /\ pc_to_inst_idx[n] = pc_to_inst_idx[p] + Len(CodeOf(p))
         /\ pc_to_inst_idx[n] <= Len(reg_instructions)
         /\ HeightAt[n] = HeightAt[p] + StackEffect(bytecode[p + 1])
         /\ HeightAt[p] \in Nat /\ FindsOperands(bytecode[p + 1], HeightAt[p])
         /\ \A q \in 0..Len(bytecode) : Mapped(q) /\ q > p => q >= n
         /\ \A i \in 1..Len(CodeOf(p)) : Copies(reg_instructions[pc_to_inst_idx[p] + i], CodeOf(p)[i])
<1> DEFINE b == bytecode[p + 1]
           L == Len(bytecode)
<1>1. L \in Nat /\ pc = L /\ p \in 0..L - 1 /\ Mapped(p) /\ n = p + b.size /\ CompilerInv /\ ExpandInv
  BY Layout DEF Follows, Compiled
<1>2. Expanded(p)
  BY <1>1 DEF ExpandInv
<1>3. /\ p \in Nat /\ b.size \in 1..5 /\ n \in p + 1..pc
      /\ pc_to_inst_idx[p] \in Nat /\ Len(CodeOf(p)) \in 1..4 /\ Len(reg_instructions) \in Nat
      /\ pc_to_inst_idx[p] + Len(CodeOf(p)) <= Len(reg_instructions)
  <2>1. p \in 0..Len(bytecode) - 1 /\ p < pc /\ Mapped(p) /\ CompilerInv
    BY <1>1
  <2> HIDE DEF b, L
  <2>2. /\ p \in Nat /\ bytecode[p + 1].size \in 1..5 /\ p + bytecode[p + 1].size \in p + 1 .. pc
        /\ pc_to_inst_idx[p] \in Nat /\ Len(CodeOf(p)) \in 1..4 /\ Len(reg_instructions) \in Nat
        /\ pc_to_inst_idx[p] + Len(CodeOf(p)) <= Len(reg_instructions)
    BY <1>2, <2>1, ExpandedInside
  <2> QED BY <1>1, <2>2 DEF b
<1>4. n \in Nat /\ p < n /\ n \in 0..L
  BY <1>1, <1>3
<1>5. pc_to_inst_idx[n] = pc_to_inst_idx[p] + Len(CodeOf(p))
  BY <1>1, <1>2, Layout DEF Expanded, NextIndex
<1>6. Mapped(n)
  BY <1>3, <1>5 DEF Mapped, None
<1>7. \A r \in p + 1..n - 1 : ~Mapped(r)
  BY <1>1, <1>2, SMTT(30) DEF Expanded
<1>8. b \in Cell
  <2>1. p + 1 \in 1..L /\ bytecode \in Seq(Cell)
    BY <1>1, Layout
  <2> QED BY <2>1, ElementOfSeq
<1>9. HeightAt[n] = HeightAt[p] + StackEffect(b)
  <2>1. p + 1 \in 1..L /\ p + 1 \in 0..L /\ n \in p + 1..L /\ (p + 1) - 1 = p /\ bytecode \in Seq(Cell)
    BY <1>1, <1>3, Layout
  <2>2. HeightAt[p + 1] = HeightAt[p] + StackEffect(b)
    <3>1. Added(bytecode, pc_to_inst_idx, p + 1) = StackEffect(b)
      BY <1>1, <2>1 DEF Added, Mapped
    <3> QED BY <2>1, <3>1, HeightsEquation DEF HeightAt
  <2>3. HeightAt[n] = HeightAt[p + 1]
    <3>1. \A r \in p + 1..n - 1 : pc_to_inst_idx[r] = None
      BY <1>7 DEF Mapped
    <3> HIDE DEF L
    <3>2. p + 1 \in 0..Len(bytecode) /\ n \in p + 1..Len(bytecode)
      BY <2>1 DEF L
    <3> QED BY <2>1, <3>1, <3>2, HeightsStay DEF HeightAt
  <2> QED BY <2>2, <2>3
<1>10. HeightAt[p] \in Nat /\ FindsOperands(b, HeightAt[p])
  BY <1>2 DEF Expanded, FindsOperands
<1>11. \A q \in 0..L : Mapped(q) /\ q > p => q >= n
  BY <1>3, <1>7
<1>12. \A i \in 1..Len(CodeOf(p)) : Copies(reg_instructions[pc_to_inst_idx[p] + i], CodeOf(p)[i])
  BY <1>2 DEF Expanded
<1> QED BY <1>3, <1>4, <1>5, <1>6, <1>8, <1>9, <1>10, <1>11, <1>12

(* The expansion of p has the index v, or v is the end of the code.        *)
Holds(p, v) ==
  /\ p \in 0..Len(bytecode) /\ Mapped(p) /\ pc_to_inst_idx[p] <= v
  /\ p < Len(bytecode) => v < pc_to_inst_idx[p] + Len(CodeOf(p))

(* The instruction whose expansion has the index v.                        *)
SourceOf(v) ==
  CHOOSE p \in 0 .. Len(bytecode) :
    /\ Mapped(p) /\ pc_to_inst_idx[p] <= v
    /\ \A q \in 0 .. Len(bytecode) : Mapped(q) /\ pc_to_inst_idx[q] <= v => q <= p

(* There is one such instruction.                                          *)
LEMMA SourceIs ==
  ASSUME Compiled, NEW p, NEW v \in Nat, Holds(p, v)
  PROVE  SourceOf(v) = p
<1> DEFINE L == Len(bytecode)
           Is(r) == /\ Mapped(r) /\ pc_to_inst_idx[r] <= v
                    /\ \A q \in 0..L : Mapped(q) /\ pc_to_inst_idx[q] <= v => q <= r
<1>1. L \in Nat /\ p \in 0..L /\ Mapped(p) /\ pc_to_inst_idx[p] <= v
  BY Layout DEF Holds
<1>2. ASSUME NEW q \in 0..L, Mapped(q), pc_to_inst_idx[q] <= v, q > p
      PROVE  FALSE
  <2> DEFINE n == p + bytecode[p + 1].size
  <2>1. p \in 0..L - 1 /\ p < L
    BY <1>1, <1>2
  <2>2. Follows(p, n)
    BY <1>1, <2>1 DEF Follows
  <2>3. n \in 0..L /\ Mapped(n) /\ q >= n /\ pc_to_inst_idx[n] = pc_to_inst_idx[p] + Len(CodeOf(p))
    BY <1>2, <2>2, NextInstruction
  <2>4. v < pc_to_inst_idx[n]
    BY <2>1, <2>3 DEF Holds
  <2> HIDE DEF n
  <2>5. pc_to_inst_idx[n] \in Nat /\ pc_to_inst_idx[q] \in Nat /\ n \in DOMAIN pc_to_inst_idx /\ q \in DOMAIN pc_to_inst_idx
    BY <1>2, <2>3, Layout DEF Mapped
  <2>6. CASE n = q
    BY <1>2, <2>4, <2>5, <2>6
  <2>7. CASE n # q
    <3>1. n < q
      BY <1>1, <1>2, <2>3, <2>7
    <3>2. pc_to_inst_idx[n] < pc_to_inst_idx[q]
      BY <1>2, <2>3, <2>5, <3>1 DEF Compiled, CompilerInv, ExpansionsInOrder, Mapped
    <3> QED BY <1>2, <2>4, <2>5, <3>2
  <2> QED BY <2>6, <2>7
<1>3. Is(p)
  BY <1>1, <1>2
<1>4. \A r \in 0..L : Is(r) => r = p
  BY <1>1, <1>3
<1>5. SourceOf(v) = CHOOSE r \in 0..L : Is(r)
  BY DEF SourceOf
<1> HIDE DEF Is, L
<1>6. p \in 0..L
  BY <1>1
<1> QED BY <1>3, <1>4, <1>5, <1>6

LEMMA HoldsFirst ==
  ASSUME Compiled, NEW n \in 0..Len(bytecode), Mapped(n)
  PROVE  Holds(n, pc_to_inst_idx[n]) /\ pc_to_inst_idx[n] \in Nat
<1>1. pc_to_inst_idx[n] \in Nat
  BY Layout DEF Mapped
<1>2. n < Len(bytecode) => Len(CodeOf(n)) \in 1..4
  BY ExpansionShape DEF CodeOf
<1> QED BY <1>1, <1>2 DEF Holds

-----------------------------------------------------------------------------
(* The slots of an operand stack n high.                                   *)
Slots(r, n) == [h \in 1..n |-> r[h - 1]]

LEMMA SlotsAre ==
  ASSUME NEW n \in Nat, NEW r, \A h \in 0..n - 1 : r[h] \in Value
  PROVE  /\ Slots(r, n) \in Seq(Value) /\ Len(Slots(r, n)) = n
         /\ \A h \in 1..n : Slots(r, n)[h] = r[h - 1]
<1>1. \A h \in 1..n : h - 1 \in 0..n - 1
  OBVIOUS
<1>2. Slots(r, n) \in [1..n -> Value]
  BY <1>1 DEF Slots
<1>3. Slots(r, n) \in Seq(Value)
  BY <1>2, SeqDef
<1>4. Len(Slots(r, n)) = n
  BY <1>2, <1>3, LenProperties
<1> QED BY <1>3, <1>4 DEF Slots

LEMMA SlotsAgree ==
  ASSUME NEW n \in Nat, NEW r, NEW s, \A h \in 0..n - 1 : r[h] = s[h]
  PROVE  Slots(r, n) = Slots(s, n)
<1>1. \A h \in 1..n : h - 1 \in 0..n - 1
  OBVIOUS
<1> QED BY <1>1 DEF Slots

(* One slot more, and some less.                                           *)
LEMMA SlotsPush ==
  ASSUME NEW n \in Nat, NEW r, NEW s, \A h \in 0..n - 1 : s[h] = r[h] /\ r[h] \in Value,
         s[n] \in Value
  PROVE  Slots(s, n + 1) = Append(Slots(r, n), s[n])
<1> DEFINE a == Slots(s, n + 1)
           b == Append(Slots(r, n), s[n])
<1>1. Slots(r, n) \in Seq(Value) /\ Len(Slots(r, n)) = n /\ \A h \in 1..n : Slots(r, n)[h] = r[h - 1]
  BY SlotsAre
<1>2. a \in Seq(Value) /\ Len(a) = n + 1 /\ \A h \in 1..n + 1 : a[h] = s[h - 1]
  <2>1. \A h \in 0..(n + 1) - 1 : s[h] \in Value
    OBVIOUS
  <2> QED BY <2>1, SlotsAre
<1>3. b \in Seq(Value) /\ Len(b) = n + 1 /\ b[n + 1] = s[n] /\ \A h \in 1..n : b[h] = Slots(r, n)[h]
  BY <1>1, AppendProperties
<1>4. \A h \in 1..n + 1 : a[h] = b[h]
  <2> TAKE h \in 1..n + 1
  <2>1. CASE h = n + 1
    BY <1>2, <1>3, <2>1
  <2>2. CASE h # n + 1
    <3>1. h \in 1..n /\ h - 1 \in 0..n - 1
      BY <2>2
    <3> QED BY <1>1, <1>2, <1>3, <3>1
  <2> QED BY <2>1, <2>2
<1> HIDE DEF a, b
<1>5. a = b
  BY <1>2, <1>3, <1>4, SeqEqual
<1> QED BY <1>5 DEF a, b

LEMMA SlotsPop ==
  ASSUME NEW n \in Nat, NEW k \in 0..n, NEW r, NEW s, \A h \in 0..n - 1 : r[h] \in Value,
         \A h \in 0..(n - k) - 1 : s[h] = r[h]
  PROVE  Slots(s, n - k) = SubSeq(Slots(r, n), 1, n - k)
<1> DEFINE m == n - k
           a == Slots(s, m)
           b == SubSeq(Slots(r, n), 1, m)
<1>1. m \in Nat /\ m <= n
  OBVIOUS
<1>2. Slots(r, n) \in Seq(Value) /\ Len(Slots(r, n)) = n /\ \A h \in 1..n : Slots(r, n)[h] = r[h - 1]
  BY SlotsAre
<1> HIDE DEF m
<1>3. \A h \in 0..m - 1 : s[h] = r[h] /\ r[h] \in Value
  BY <1>1 DEF m
<1>4. a \in Seq(Value) /\ Len(a) = m /\ \A h \in 1..m : a[h] = s[h - 1]
  <2>1. \A h \in 0..m - 1 : s[h] \in Value
    BY <1>3
  <2> QED BY <1>1, <2>1, SlotsAre
<1>5. b \in Seq(Value) /\ Len(b) = m /\ \A h \in 1..m : b[h] = Slots(r, n)[h]
  BY <1>1, <1>2, SubSeqProperties
<1>6. \A h \in 1..m : a[h] = b[h]
  <2> TAKE h \in 1..m
  <2>1. h \in 1..n /\ h - 1 \in 0..m - 1
    BY <1>1
  <2>2. a[h] = s[h - 1] /\ b[h] = Slots(r, n)[h] /\ Slots(r, n)[h] = r[h - 1] /\ s[h - 1] = r[h - 1]
    BY <1>2, <1>3, <1>4, <1>5, <2>1
  <2> QED BY <2>2
<1> HIDE DEF a, b
<1>7. a = b
  BY <1>4, <1>5, <1>6, SeqEqual
<1> QED BY <1>7 DEF a, b, m

-----------------------------------------------------------------------------
(* The state of the stack machine.                                         *)
LEMMA SourceNow ==
  ASSUME Compiled, vpc \in Nat, NEW p, Holds(p, vpc)
  PROVE  SourcePc = p /\ SourceStack = Slots(regs, HeightAt[p])
<1>1. SourcePc = SourceOf(vpc)
  BY DEF Compiled, SourcePc, SourceOf
<1>2. SourcePc = p
  BY <1>1, SourceIs
<1> QED BY <1>2 DEF SourceStack, Slots

LEMMA SourceThen ==
  ASSUME Compiled, UNCHANGED compiler_vars, vpc' \in Nat, NEW p, Holds(p, vpc')
  PROVE  SourcePc' = p /\ SourceStack' = Slots(regs', HeightAt[p])
<1>0. result = "ok" /\ UNCHANGED <<bytecode, pc_to_inst_idx, result>>
  BY DEF Compiled, compiler_vars
<1>1. SourcePc' = SourceOf(vpc')
  BY <1>0 DEF SourcePc, SourceOf, Mapped
<1>2. SourcePc' = p
  BY <1>1, SourceIs
<1>3. HeightAt' = HeightAt
  BY <1>0 DEF HeightAt
<1> QED BY <1>2, <1>3 DEF SourceStack, Slots

-----------------------------------------------------------------------------
(* What a step does to the registers and the locals, whichever tier takes  *)
(* it; the references it counts are the VM's own affair.                   *)
RunPushImmediate == WriteReg(ImmediateValue(Inst))
RunPushConst == WriteReg(cpool[Inst.src1])
RunDrop == vpc' = vpc + 1 /\ UNCHANGED <<regs, var_buf, vm>>
RunMov == WriteReg(regs[Inst.src1])
RunLoadLoc == WriteReg(var_buf[Inst.src1])
RunStoreLoc ==
  /\ var_buf' = [var_buf EXCEPT ![Inst.dst] = regs[Inst.src1]]
  /\ vpc' = vpc + 1
  /\ UNCHANGED <<regs, vm>>
RunBinary ==
  /\ vm_handles(Inst.op, regs[Inst.src1], regs[Inst.src2])
  /\ WriteReg(vm_binary(Inst.op, regs[Inst.src1], regs[Inst.src2]))
RunJump == vpc' = Inst.src1 /\ UNCHANGED <<regs, var_buf, vm>>
RunBranch ==
  /\ regs[Inst.dst].tag = "bool"
  /\ vpc' = IF (regs[Inst.dst].v # 0) = (Inst.op = "IF_TRUE") THEN Inst.src1 ELSE vpc + 1
  /\ UNCHANGED <<regs, var_buf, vm>>
RunReturn == vm' = VMReturned(regs[Inst.dst]) /\ UNCHANGED <<vpc, regs, var_buf>>
RunReturnUndef == vm' = VMReturned(Undefined) /\ UNCHANGED <<vpc, regs, var_buf>>
GiveUp == vm' = VMBailed /\ UNCHANGED <<vpc, regs, var_buf>>

Ran ==
  /\ Inst.op \in {"PUSH_I32", "UNDEFINED", "NULL", "PUSH_FALSE", "PUSH_TRUE"} => RunPushImmediate
  /\ Inst.op = "PUSH_CONST" => RunPushConst
  /\ Inst.op = "DROP" => RunDrop
  /\ Inst.op = "MOV" => RunMov
  /\ Inst.op = "LOAD_LOC" => RunLoadLoc
  /\ Inst.op \in {"STORE_LOC", "SET_LOC"} => RunStoreLoc
  /\ Inst.op \in BinaryOps =>
       RunBinary \/ (GiveUp /\ ~vm_handles(Inst.op, regs[Inst.src1], regs[Inst.src2]))
  /\ Inst.op = "JMP" => RunJump
  /\ Inst.op \in {"IF_FALSE", "IF_TRUE"} => RunBranch \/ (GiveUp /\ regs[Inst.dst].tag # "bool")
  /\ Inst.op = "RETURN" => RunReturn
  /\ Inst.op = "RETURN_UNDEF" => RunReturnUndef

(* The action of the VM that an instruction of the code is for.            *)
LEMMA Dispatch ==
  ASSUME CompilerInv, CodeInv, RunTypeOK, FitsRegisters, VMStep, AtInstruction
  PROVE  /\ Inst.op \in {"PUSH_I32", "UNDEFINED", "NULL", "PUSH_FALSE", "PUSH_TRUE"} => VMPushImmediate
         /\ Inst.op = "PUSH_CONST" => VMPushConst
         /\ Inst.op = "DROP" => VMDrop
         /\ Inst.op = "MOV" => VMMov
         /\ Inst.op = "LOAD_LOC" => VMLoadLoc
         /\ Inst.op \in {"STORE_LOC", "SET_LOC"} => VMStoreLoc
         /\ Inst.op \in BinaryOps =>
              VMBinary \/ (VMBail /\ ~vm_handles(Inst.op, regs[Inst.src1], regs[Inst.src2]))
         /\ Inst.op = "JMP" => VMJump
         /\ Inst.op \in {"IF_FALSE", "IF_TRUE"} => VMBranch \/ (VMBail /\ regs[Inst.dst].tag # "bool")
         /\ Inst.op = "RETURN" => VMReturn
         /\ Inst.op = "RETURN_UNDEF" => VMReturnUndef
<1>1. ~VMPanic
  BY PanicBeyondRegisters
<1>2. VMBail => \/ Inst.op \in BinaryOps /\ ~vm_handles(Inst.op, regs[Inst.src1], regs[Inst.src2])
                \/ Inst.op \in {"IF_FALSE", "IF_TRUE"} /\ regs[Inst.dst].tag # "bool"
  <2>1. ~(vpc >= Len(reg_instructions))
    <3>1. vpc < Len(reg_instructions) /\ vpc \in Nat /\ Len(reg_instructions) \in Nat
      BY LenProperties DEF AtInstruction, RunTypeOK, CompilerInv, CompilerTypeOK
    <3> QED BY <3>1
  <2> QED BY <2>1 DEF VMBail, Unhandled, Executing
<1>3. /\ VMPushImmediate => Inst.op \in {"PUSH_I32", "UNDEFINED", "NULL", "PUSH_FALSE", "PUSH_TRUE"}
      /\ VMPushConst => Inst.op = "PUSH_CONST"
      /\ VMDrop => Inst.op = "DROP"
      /\ VMMov => Inst.op = "MOV"
      /\ VMLoadLoc => Inst.op = "LOAD_LOC"
      /\ VMStoreLoc => Inst.op \in {"STORE_LOC", "SET_LOC"}
      /\ VMBinary => Inst.op \in BinaryOps
      /\ VMJump => Inst.op = "JMP"
      /\ VMBranch => Inst.op \in {"IF_FALSE", "IF_TRUE"}
      /\ VMReturn => Inst.op = "RETURN"
      /\ VMReturnUndef => Inst.op = "RETURN_UNDEF"
  BY DEF VMPushImmediate, VMPushConst, VMDrop, VMMov, VMLoadLoc, VMStoreLoc, VMBinary, VMJump, VMBranch,
         VMReturn, VMReturnUndef, Executing
<1>4. \/ VMPushImmediate \/ VMPushConst \/ VMDrop \/ VMMov \/ VMLoadLoc \/ VMStoreLoc
      \/ VMBinary \/ VMJump \/ VMBranch \/ VMReturn \/ VMReturnUndef \/ VMBail
  BY <1>1 DEF VMStep
<1> DEFINE o == Inst.op
<1>5. BinaryOps = {"ADD", "SUB", "MUL", "MOD", "SHL", "SAR", "SHR", "BIT_AND", "BIT_XOR", "BIT_OR",
                   "LT", "LTE", "GT", "GTE", "STRICT_EQ"}
  BY DEF BinaryOps, ArithOps, BitOps, CompareOps
<1> HIDE DEF o
<1> QED BY <1>2, <1>3, <1>4, <1>5 DEF o

LEMMA VMRan ==
  ASSUME CompilerInv, CodeInv, RunTypeOK, FitsRegisters, VMStep, AtInstruction
  PROVE  Ran
<1>1. /\ VMPushImmediate => RunPushImmediate
      /\ VMPushConst => RunPushConst
      /\ VMDrop => RunDrop
      /\ VMMov => RunMov
      /\ VMLoadLoc => RunLoadLoc
  BY DEF VMPushImmediate, VMPushConst, VMDrop, VMMov, VMLoadLoc, RunPushImmediate, RunPushConst, RunDrop,
         RunMov, RunLoadLoc
<1>2. VMStoreLoc => RunStoreLoc
  BY DEF VMStoreLoc, RunStoreLoc
<1>3. VMBinary => RunBinary
  BY DEF VMBinary, RunBinary
<1>4. (VMJump => RunJump) /\ (VMBranch => RunBranch)
  BY DEF VMJump, VMBranch, RunJump, RunBranch
<1>5. (VMReturn => RunReturn) /\ (VMReturnUndef => RunReturnUndef) /\ (VMBail => GiveUp)
  BY DEF VMReturn, VMReturnUndef, VMBail, RunReturn, RunReturnUndef, GiveUp
<1> QED BY <1>1, <1>2, <1>3, <1>4, <1>5, Dispatch DEF Ran

-----------------------------------------------------------------------------
(* The code of an instruction, opcode by opcode.                           *)
LEMMA ExpansionIs ==
  ASSUME NEW c, NEW h, NEW code, code = Expansion(c, h)
  PROVE  /\ c.op = "push_i32" => code = <<PushInt(h, c.arg)>>
         /\ c.op = "push_const" => code = <<Reg("PUSH_CONST", h, c.arg, 0)>>
         /\ c.op \in PrimitiveOpcodes => code = <<Reg(RegOpOf[c.op], h, 0, 0)>>
         /\ c.op = "drop" => code = <<Reg("DROP", h - 1, 0, 0)>>
         /\ c.op = "dup" => code = <<Reg("MOV", h, h - 1, 0)>>
         /\ c.op = "get_loc" => code = <<Reg("LOAD_LOC", h, c.arg, 0)>>
         /\ c.op = "get_loc0_loc1" => code = <<Reg("LOAD_LOC", h, 0, 0), Reg("LOAD_LOC", h + 1, 1, 0)>>
         /\ c.op = "put_loc" => code = <<Reg("STORE_LOC", c.arg, h - 1, 0)>>
         /\ c.op = "set_loc" => code = <<Reg("SET_LOC", c.arg, h - 1, 0)>>
         /\ c.op = "add_loc" => code = <<Reg("LOAD_LOC", AsU8(h), c.arg, 0),
                                         Reg("ADD", AsU8(h), AsU8(h), h - 1),
                                         Reg("STORE_LOC", c.arg, AsU8(h), 0)>>
         /\ c.op \in {"inc_loc", "dec_loc"} =>
              code = <<PushInt(AsU8(h), IF c.op = "inc_loc" THEN 1 ELSE -1),
                       Reg("LOAD_LOC", AsU8(h + 1), c.arg, 0),
                       Reg("ADD", AsU8(h + 1), AsU8(h + 1), AsU8(h)),
                       Reg("STORE_LOC", c.arg, AsU8(h + 1), 0)>>
         /\ c.op \in NeedsTwo => code = <<Reg(RegOpOf[c.op], h - 2, h - 2, h - 1)>>
         /\ c.op = "return" => code = <<Reg("RETURN", h - 1, 0, 0)>>
         /\ c.op = "return_undef" => code = <<Reg("RETURN_UNDEF", 0, 0, 0)>>
         /\ c.op = "goto" => code = <<Reg("JMP", 0, 0, 0)>>
         /\ c.op \in BranchOpcodes => code = <<Reg(RegOpOf[c.op], h - 1, 0, 0)>>
<1> USE DEF PrimitiveOpcodes, NeedsTwo, BinaryOpcodes, ComparisonOpcodes, BranchOpcodes
<1>1. c.op = "push_i32" => code = <<PushInt(h, c.arg)>>
  BY DEF Expansion
<1>2. c.op = "push_const" => code = <<Reg("PUSH_CONST", h, c.arg, 0)>>
  BY DEF Expansion
<1>3. c.op \in PrimitiveOpcodes => code = <<Reg(RegOpOf[c.op], h, 0, 0)>>
  BY DEF Expansion
<1>4. c.op = "drop" => code = <<Reg("DROP", h - 1, 0, 0)>>
  BY DEF Expansion
<1>5. c.op = "dup" => code = <<Reg("MOV", h, h - 1, 0)>>
  BY DEF Expansion
<1>6. c.op = "get_loc" => code = <<Reg("LOAD_LOC", h, c.arg, 0)>>
  BY DEF Expansion
<1>7. c.op = "get_loc0_loc1" => code = <<Reg("LOAD_LOC", h, 0, 0), Reg("LOAD_LOC", h + 1, 1, 0)>>
  BY DEF Expansion
<1>8. c.op = "put_loc" => code = <<Reg("STORE_LOC", c.arg, h - 1, 0)>>
  BY DEF Expansion
<1>9. c.op = "set_loc" => code = <<Reg("SET_LOC", c.arg, h - 1, 0)>>
  BY DEF Expansion
<1>10. c.op = "add_loc" => code = <<Reg("LOAD_LOC", AsU8(h), c.arg, 0), Reg("ADD", AsU8(h), AsU8(h), h - 1),
                                    Reg("STORE_LOC", c.arg, AsU8(h), 0)>>
  BY DEF Expansion
<1>11. c.op \in {"inc_loc", "dec_loc"} =>
              code = <<PushInt(AsU8(h), IF c.op = "inc_loc" THEN 1 ELSE -1),
                       Reg("LOAD_LOC", AsU8(h + 1), c.arg, 0),
                       Reg("ADD", AsU8(h + 1), AsU8(h + 1), AsU8(h)),
                       Reg("STORE_LOC", c.arg, AsU8(h + 1), 0)>>
  BY DEF Expansion
<1>12. c.op \in NeedsTwo => code = <<Reg(RegOpOf[c.op], h - 2, h - 2, h - 1)>>
  BY DEF Expansion
<1>13. c.op = "return" => code = <<Reg("RETURN", h - 1, 0, 0)>>
  BY DEF Expansion
<1>14. c.op = "return_undef" => code = <<Reg("RETURN_UNDEF", 0, 0, 0)>>
  BY DEF Expansion
<1>15. c.op = "goto" => code = <<Reg("JMP", 0, 0, 0)>>
  BY DEF Expansion
<1>16. c.op \in BranchOpcodes => code = <<Reg(RegOpOf[c.op], h - 1, 0, 0)>>
  BY DEF Expansion
<1> QED BY ONLY <1>1, <1>2, <1>3, <1>4, <1>5, <1>6, <1>7, <1>8, <1>9, <1>10, <1>11, <1>12, <1>13, <1>14, <1>15,
           <1>16

(* The casts of a number that is short enough.                             *)
LEMMA ShortCasts ==
  /\ \A m \in 0..U8 - 1 : AsU8(m) = m /\ AsU16(m) = m
  /\ \A m \in 0..U16 - 1 : AsU16(m) = m
<1>1. \A d \in Nat \ {0} : \A m \in 0..d - 1 : m % d = m
  OBVIOUS
<1>2. \A m \in 0..U8 - 1 : m \in 0..U16 - 1
  BY Widths
<1> QED BY <1>1, <1>2, Widths DEF AsU8, AsU16

-----------------------------------------------------------------------------
(* What the registers hold after k instructions of the expansion at p.     *)
StepOf(c) == MkInt(IF c.op = "inc_loc" THEN 1 ELSE -1)
Mid(p, k, r, l) ==
  LET c == bytecode[p + 1]
      h == HeightAt[p]
  IN  /\ c.op = "get_loc0_loc1" /\ k = 1 => r[h] = l[0]
      /\ c.op = "add_loc" /\ k = 1 => r[h] = l[c.arg]
      /\ c.op = "add_loc" /\ k = 2 => r[h] = js_binary("ADD", l[c.arg], r[h - 1])
      /\ c.op \in {"inc_loc", "dec_loc"} =>
           /\ k \in {1, 2} => r[h] = StepOf(c)
           /\ k = 2 => r[h + 1] = l[c.arg]
           /\ k = 3 => r[h + 1] = js_binary("ADD", l[c.arg], StepOf(c))

(* The VM is in the expansion of an instruction, which is on its way.      *)
There(v, r, l) ==
  \E q : Holds(q, v) /\ (q < Len(bytecode) => Mid(q, v - pc_to_inst_idx[q], r, l))

Ready(p, n, k) ==
  /\ Compiled /\ RunTypeOK /\ IntsFit /\ InScope /\ FitsRegisters /\ vm = VMRunning
  /\ Follows(p, n) /\ k \in 0..Len(CodeOf(p)) - 1 /\ vpc = pc_to_inst_idx[p] + k
  /\ Mid(p, k, regs, var_buf)

(* What is to be shown of a step.                                          *)
Explained ==
  /\ Machine!Step \/ Machine!HandOver \/ UNCHANGED Machine!machine_vars
  /\ vm' = VMRunning => There(vpc', regs', var_buf')

(* What an instruction finds.                                              *)
LEMMA Finds ==
  ASSUME NEW p, NEW n, NEW k, Ready(p, n, k)
  PROVE  /\ AtInstruction /\ vpc \in Nat /\ Copies(Inst, CodeOf(p)[k + 1])
         /\ SourcePc = p /\ SourceStack = Slots(regs, HeightAt[p])
         /\ HeightAt[p] \in Nat /\ HeightAt[p] + Scratch(bytecode[p + 1]) <= U8
         /\ HeightAt[n] \in Int /\ HeightAt[n] <= U8 /\ HeightAt[n] = HeightAt[p] + StackEffect(bytecode[p + 1])
         /\ FindsOperands(bytecode[p + 1], HeightAt[p]) /\ NamesInFrame(bytecode[p + 1])
         /\ p \in Nat /\ p < Len(bytecode) /\ Len(bytecode) \in Nat /\ bytecode[p + 1] \in Cell
<1>1. /\ Compiled /\ RunTypeOK /\ FitsRegisters /\ vm = VMRunning /\ Follows(p, n)
      /\ k \in 0..Len(CodeOf(p)) - 1 /\ vpc = pc_to_inst_idx[p] + k
  BY DEF Ready
<1>2. /\ p \in Nat /\ n \in 0..Len(bytecode) /\ Mapped(n) /\ bytecode[p + 1] \in Cell
      /\ pc_to_inst_idx[p] \in Nat /\ Len(CodeOf(p)) \in 1..4
      /\ pc_to_inst_idx[n] = pc_to_inst_idx[p] + Len(CodeOf(p))
      /\ pc_to_inst_idx[n] <= Len(reg_instructions)
      /\ HeightAt[n] = HeightAt[p] + StackEffect(bytecode[p + 1])
      /\ HeightAt[p] \in Nat /\ FindsOperands(bytecode[p + 1], HeightAt[p])
      /\ \A i \in 1..Len(CodeOf(p)) : Copies(reg_instructions[pc_to_inst_idx[p] + i], CodeOf(p)[i])
  BY <1>1, NextInstruction
<1>3. Len(bytecode) \in Nat /\ Len(reg_instructions) \in Nat /\ HeightAt \in [0 .. Len(bytecode) -> Int]
      /\ bytecode \in Seq(Cell)
  BY <1>1, Layout
<1>4. p \in 0..Len(bytecode) - 1 /\ p \in 0..Len(bytecode) /\ p < Len(bytecode) /\ Mapped(p)
  BY <1>1, <1>3 DEF Follows
<1>5. k \in Nat /\ k + 1 \in 1..Len(CodeOf(p)) /\ vpc \in Nat /\ vpc < pc_to_inst_idx[p] + Len(CodeOf(p))
      /\ vpc + 1 = pc_to_inst_idx[p] + (k + 1)
  <2> DEFINE i == pc_to_inst_idx[p]
             m == Len(CodeOf(p))
  <2>1. i \in Nat /\ m \in 1..4 /\ k \in 0..m - 1 /\ vpc = i + k
    BY <1>1, <1>2
  <2> HIDE DEF i, m
  <2>2. k \in Nat /\ k + 1 \in 1..m /\ vpc \in Nat /\ vpc < i + m /\ vpc + 1 = i + (k + 1)
    BY <2>1
  <2> QED BY <2>2 DEF i, m
<1>6. AtInstruction
  <2>1. result = "ok" /\ vm = VMRunning
    BY <1>1 DEF Compiled
  <2>2. vpc < Len(reg_instructions)
    <3> DEFINE i == pc_to_inst_idx[p]
               j == pc_to_inst_idx[n]
               m == Len(CodeOf(p))
               N == Len(reg_instructions)
    <3>1. i \in Nat /\ m \in 1..4 /\ j = i + m /\ j <= N
      BY <1>2
    <3>2. vpc < i + m /\ N \in Nat /\ vpc \in Nat
      BY <1>3, <1>5
    <3> HIDE DEF i, j, m, N
    <3>3. vpc < N
      BY <3>1, <3>2
    <3> QED BY <3>3 DEF N
  <2> QED BY <2>1, <2>2 DEF AtInstruction
<1>7. Copies(Inst, CodeOf(p)[k + 1])
  BY <1>2, <1>5 DEF Inst
<1>8. Holds(p, vpc)
  <2>1. pc_to_inst_idx[p] <= vpc
    <3> DEFINE i == pc_to_inst_idx[p]
    <3>1. i \in Nat
      BY <1>2
    <3>2. k \in Nat /\ vpc = i + k
      BY <1>1, <1>5
    <3> HIDE DEF i
    <3>3. i <= vpc
      BY <3>1, <3>2
    <3> QED BY <3>3 DEF i
  <2> QED BY <1>4, <1>5, <2>1 DEF Holds
<1>9. SourcePc = p /\ SourceStack = Slots(regs, HeightAt[p])
  BY <1>1, <1>5, <1>8, SourceNow
<1>10. HeightAt[p] + Scratch(bytecode[p + 1]) <= U8
  BY <1>1, <1>4 DEF FitsRegisters
<1>11. HeightAt[n] \in Int /\ HeightAt[n] <= U8
  <2>1. HeightAt[n] \in Int
    BY <1>2, <1>3
  <2>2. HeightAt[n] + (IF n < Len(bytecode) THEN Scratch(bytecode[n + 1]) ELSE 0) <= U8
    BY <1>1, <1>2 DEF FitsRegisters
  <2>3. Scratch(bytecode[n + 1]) \in Nat
    BY DEF Scratch
  <2> QED BY <2>1, <2>2, <2>3, Widths
<1>12. NamesInFrame(bytecode[p + 1])
  <2>1. bytecode \in Bytecodes
    BY <1>1 DEF Compiled, CodeInv
  <2>2. p + 1 \in DOMAIN bytecode
    BY <1>3, <1>4, LenProperties
  <2> QED BY <2>1, <2>2, OperandsAssumption
<1> QED BY <1>2, <1>3, <1>4, <1>5, <1>6, <1>7, <1>9, <1>10, <1>11, <1>12

(* An instruction that is not the last of its expansion.                   *)
LEMMA Pauses ==
  ASSUME NEW p, NEW n, NEW k, Ready(p, n, k), UNCHANGED compiler_vars,
         k + 1 < Len(CodeOf(p)), vpc' = vpc + 1, var_buf' = var_buf, vm' = vm,
         \A h \in 0..HeightAt[p] - 1 : regs'[h] = regs[h],
         Mid(p, k + 1, regs', var_buf')
  PROVE  Explained
<1>1. Compiled /\ Follows(p, n) /\ k \in 0..Len(CodeOf(p)) - 1 /\ vpc = pc_to_inst_idx[p] + k /\ vm = VMRunning
  BY DEF Ready
<1>2. /\ SourcePc = p /\ SourceStack = Slots(regs, HeightAt[p]) /\ HeightAt[p] \in Nat /\ vpc \in Nat
      /\ p \in Nat /\ p < Len(bytecode) /\ Len(bytecode) \in Nat
  BY Finds
<1>3. pc_to_inst_idx[p] \in Nat /\ Len(CodeOf(p)) \in 1..4 /\ Mapped(p)
  BY <1>1, NextInstruction DEF Follows
<1>4. vpc' \in Nat /\ vpc' = pc_to_inst_idx[p] + (k + 1) /\ vpc' - pc_to_inst_idx[p] = k + 1
      /\ vpc' < pc_to_inst_idx[p] + Len(CodeOf(p)) /\ pc_to_inst_idx[p] <= vpc'
  <2> DEFINE i == pc_to_inst_idx[p]
             m == Len(CodeOf(p))
  <2>1. i \in Nat /\ m \in 1..4 /\ k \in 0..m - 1 /\ k + 1 < m /\ vpc = i + k /\ vpc' = vpc + 1
    BY <1>1, <1>3
  <2> HIDE DEF i, m
  <2>2. vpc' \in Nat /\ vpc' = i + (k + 1) /\ vpc' - i = k + 1 /\ vpc' < i + m /\ i <= vpc'
    BY <2>1
  <2> QED BY <2>2 DEF i, m
<1>5. Holds(p, vpc')
  BY <1>2, <1>3, <1>4 DEF Holds
<1>6. SourcePc' = p /\ SourceStack' = Slots(regs', HeightAt[p])
  BY <1>1, <1>4, <1>5, SourceThen
<1>7. SourceStack' = SourceStack
  <2>1. Slots(regs', HeightAt[p]) = Slots(regs, HeightAt[p])
    BY <1>2, SlotsAgree
  <2> QED BY <1>2, <1>6, <2>1
<1>8. UNCHANGED Machine!machine_vars
  BY <1>2, <1>6, <1>7 DEF Machine!machine_vars, compiler_vars
<1>9. There(vpc', regs', var_buf')
  BY <1>4, <1>5 DEF There
<1> QED BY <1>8, <1>9 DEF Explained

(* The VM arrives at the expansion of the instruction at q.                *)
LEMMA Arrives ==
  ASSUME Compiled, UNCHANGED compiler_vars, NEW q \in 0..Len(bytecode), Mapped(q), vpc' = pc_to_inst_idx[q]
  PROVE  /\ SourcePc' = q /\ SourceStack' = Slots(regs', HeightAt[q])
         /\ There(vpc', regs', var_buf')
<1>1. Holds(q, vpc') /\ vpc' \in Nat
  BY HoldsFirst
<1>2. SourcePc' = q /\ SourceStack' = Slots(regs', HeightAt[q])
  BY <1>1, SourceThen
<1>3. vpc' - pc_to_inst_idx[q] = 0
  BY <1>1
<1>4. Mid(q, 0, regs', var_buf')
  BY DEF Mid
<1> QED BY <1>1, <1>2, <1>3, <1>4 DEF There

(* The last instruction of an expansion leads to the next one.             *)
LEMMA Advances ==
  ASSUME NEW p, NEW n, NEW k, Ready(p, n, k), UNCHANGED compiler_vars,
         k + 1 = Len(CodeOf(p)), vpc' = vpc + 1
  PROVE  /\ SourcePc' = p + bytecode[p + 1].size /\ SourceStack' = Slots(regs', HeightAt[n])
         /\ There(vpc', regs', var_buf')
<1>1. Compiled /\ Follows(p, n) /\ vpc = pc_to_inst_idx[p] + k /\ k \in 0..Len(CodeOf(p)) - 1
  BY DEF Ready
<1>2. /\ n \in 0..Len(bytecode) /\ Mapped(n) /\ pc_to_inst_idx[p] \in Nat /\ Len(CodeOf(p)) \in 1..4
      /\ pc_to_inst_idx[n] = pc_to_inst_idx[p] + Len(CodeOf(p)) /\ n = p + bytecode[p + 1].size
  BY <1>1, NextInstruction DEF Follows
<1>3. vpc' = pc_to_inst_idx[n]
  <2> DEFINE i == pc_to_inst_idx[p]
             j == pc_to_inst_idx[n]
             m == Len(CodeOf(p))
  <2>1. i \in Nat /\ m \in 1..4 /\ k \in 0..m - 1 /\ vpc = i + k /\ j = i + m /\ k + 1 = m /\ vpc' = vpc + 1
    BY <1>1, <1>2
  <2> HIDE DEF i, j, m
  <2>2. vpc' = j
    BY <2>1
  <2> QED BY <2>2 DEF j
<1> QED BY <1>1, <1>2, <1>3, Arrives

(* The fields of an instruction.                                           *)
LEMMA Fields ==
  /\ \A op, d, a, b : /\ Reg(op, d, a, b).op = op /\ Reg(op, d, a, b).dst = AsU8(d)
                      /\ Reg(op, d, a, b).src1 = AsU16(a) /\ Reg(op, d, a, b).src2 = AsU16(b)
  /\ \A d, m : /\ PushInt(d, m).op = "PUSH_I32" /\ PushInt(d, m).dst = AsU8(d)
               /\ PushInt(d, m).src1 = LowHalf(m) /\ PushInt(d, m).src2 = HighHalf(m)
BY DEF Reg, PushInt

(* The stack machine is at the instruction the VM is in.                   *)
LEMMA MachineAt ==
  ASSUME NEW p, NEW n, NEW k, Ready(p, n, k)
  PROVE  /\ Machine!Cur = bytecode[p + 1]
         /\ \A ops : bytecode[p + 1].op \in ops => Machine!At(ops)
         /\ vm = Machine!Running
         /\ Len(SourceStack) = HeightAt[p]
         /\ \A h \in 1..HeightAt[p] : SourceStack[h] = regs[h - 1] /\ regs[h - 1] \in Value
         /\ HeightAt[p] <= U8 /\ HeightAt[p] \in Nat /\ U8 \in Nat
<1>1. SourcePc = p /\ SourceStack = Slots(regs, HeightAt[p]) /\ p < Len(bytecode)
      /\ HeightAt[p] \in Nat /\ HeightAt[p] + Scratch(bytecode[p + 1]) <= U8
  BY Finds
<1>2. vm = VMRunning /\ RunTypeOK
  BY DEF Ready
<1>3. vm = Machine!Running
  BY <1>2, SameConstants DEF VMRunning, Machine!Running
<1>4. Machine!Cur = bytecode[p + 1]
  BY <1>1 DEF Machine!Cur
<1>5. \A ops : bytecode[p + 1].op \in ops => Machine!At(ops)
  BY <1>1, <1>3 DEF Machine!At
<1>6. HeightAt[p] <= U8 /\ U8 \in Nat
  <2>1. Scratch(bytecode[p + 1]) \in Nat
    BY DEF Scratch
  <2> QED BY <1>1, <2>1, Widths
<1>7. \A h \in 0..HeightAt[p] - 1 : regs[h] \in Value
  <2> TAKE h \in 0..HeightAt[p] - 1
  <2>1. h \in 0..U8 - 1
    BY <1>1, <1>6
  <2> QED BY <1>2, <2>1 DEF RunTypeOK
<1>8. Len(SourceStack) = HeightAt[p] /\ \A h \in 1..HeightAt[p] : SourceStack[h] = regs[h - 1]
  BY <1>1, <1>7, SlotsAre
<1>9. \A h \in 1..HeightAt[p] : regs[h - 1] \in Value
  <2> TAKE h \in 1..HeightAt[p]
  <2>1. h - 1 \in 0..HeightAt[p] - 1
    BY <1>1
  <2> QED BY <1>7, <2>1
<1> QED BY <1>1, <1>3, <1>4, <1>5, <1>6, <1>8, <1>9

LEMMA Continues ==
  ASSUME NEW p, NEW n, NEW k, Ready(p, n, k), UNCHANGED compiler_vars, vm' = vm,
         SourcePc' = p + bytecode[p + 1].size, NEW s, SourceStack' = s
  PROVE  Machine!Continue(s)
<1>1. Machine!Cur = bytecode[p + 1] /\ SourcePc = p
  BY MachineAt, Finds
<1> QED BY <1>1 DEF Machine!Continue, compiler_vars

(* The register above the stack is written: the slot it becomes.           *)
LEMMA Pushes ==
  ASSUME NEW p, NEW n, NEW k, Ready(p, n, k), UNCHANGED compiler_vars,
         k + 1 = Len(CodeOf(p)), StackEffect(bytecode[p + 1]) = 1,
         Inst.dst = AsU8(HeightAt[p]), NEW x \in Value, WriteReg(x)
  PROVE  /\ Machine!Continue(Append(SourceStack, x)) /\ var_buf' = var_buf
         /\ There(vpc', regs', var_buf')
<1> DEFINE h == HeightAt[p]
<1>1. /\ SourceStack = Slots(regs, h) /\ h \in Nat
      /\ HeightAt[n] = h + 1 /\ HeightAt[n] <= U8
  BY Finds
<1>2. h \in 0..U8 - 1 /\ AsU8(h) = h
  <2>1. h \in 0..U8 - 1
    BY <1>1, Widths
  <2> QED BY <2>1, ShortCasts
<1>3. vpc' = vpc + 1 /\ var_buf' = var_buf /\ vm' = vm /\ regs' = [regs EXCEPT ![Inst.dst] = x]
  BY DEF WriteReg
<1>4. regs \in [0..U8 - 1 -> Value]
  BY DEF Ready, RunTypeOK
<1> HIDE DEF h
<1>5. \A j \in 0..h - 1 : j \in 0..U8 - 1 /\ j # h
  BY <1>1, <1>2, Widths
<1>6. Inst.dst = h
  BY <1>2 DEF h
<1>7. regs'[h] = x /\ \A j \in 0..h - 1 : regs'[j] = regs[j] /\ regs[j] \in Value
  <2>1. regs'[h] = x
    BY <1>2, <1>3, <1>4, <1>6
  <2>2. ASSUME NEW j \in 0..h - 1
        PROVE  regs'[j] = regs[j] /\ regs[j] \in Value
    BY <1>3, <1>4, <1>5, <1>6
  <2> QED BY <2>1, <2>2
<1>8. SourcePc' = p + bytecode[p + 1].size /\ SourceStack' = Slots(regs', HeightAt[n])
      /\ There(vpc', regs', var_buf')
  BY <1>3, Advances
<1>9. HeightAt[n] = h + 1
  BY <1>1
<1>10. Slots(regs', h + 1) = Append(Slots(regs, h), x)
  <2>1. regs'[h] \in Value
    BY <1>7
  <2>2. Slots(regs', h + 1) = Append(Slots(regs, h), regs'[h])
    BY <1>1, <1>7, <2>1, SlotsPush, Zenon
  <2> QED BY <1>7, <2>2
<1>11. SourceStack' = Append(SourceStack, x)
  BY <1>1, <1>8, <1>10
<1> QED BY <1>3, <1>8, <1>11, Continues

(* The slots above are left behind; the others stay.                       *)
LEMMA Pops ==
  ASSUME NEW p, NEW n, NEW k, Ready(p, n, k), UNCHANGED compiler_vars,
         k + 1 = Len(CodeOf(p)), NEW m \in Nat, m <= HeightAt[p], StackEffect(bytecode[p + 1]) = -m,
         vpc' = vpc + 1, vm' = vm, \A j \in 0..HeightAt[p] - m - 1 : regs'[j] = regs[j]
  PROVE  /\ Machine!Continue(SubSeq(SourceStack, 1, Len(SourceStack) - m))
         /\ There(vpc', regs', var_buf')
<1> DEFINE h == HeightAt[p]
<1>1. SourceStack = Slots(regs, h) /\ h \in Nat /\ HeightAt[n] = h - m /\ Len(SourceStack) = h /\ h <= U8
  <2>1. HeightAt[n] = h + StackEffect(bytecode[p + 1]) /\ h \in Nat /\ SourceStack = Slots(regs, h)
    BY Finds
  <2>2. Len(SourceStack) = h /\ h <= U8
    BY MachineAt
  <2> QED BY <2>1, <2>2
<1>2. SourcePc' = p + bytecode[p + 1].size /\ SourceStack' = Slots(regs', HeightAt[n])
      /\ There(vpc', regs', var_buf')
  BY Advances
<1> HIDE DEF h
<1>3. \A j \in 0..h - 1 : regs[j] \in Value
  <2>1. regs \in [0..U8 - 1 -> Value]
    BY DEF Ready, RunTypeOK
  <2>2. \A j \in 0..h - 1 : j \in 0..U8 - 1
    BY <1>1, Widths
  <2> QED BY <2>1, <2>2
<1>4. m \in 0..h /\ \A j \in 0..(h - m) - 1 : regs'[j] = regs[j]
  BY <1>1 DEF h
<1>5. Slots(regs', h - m) = SubSeq(Slots(regs, h), 1, h - m)
  BY <1>1, <1>3, <1>4, SlotsPop, Zenon
<1>6. SourceStack' = SubSeq(SourceStack, 1, Len(SourceStack) - m)
  BY <1>1, <1>2, <1>5
<1> QED BY <1>2, <1>6, Continues

(* The stack stays as it is.                                               *)
LEMMA Stays ==
  ASSUME NEW p, NEW n, NEW k, Ready(p, n, k), UNCHANGED compiler_vars,
         k + 1 = Len(CodeOf(p)), StackEffect(bytecode[p + 1]) = 0,
         vpc' = vpc + 1, vm' = vm, \A j \in 0..HeightAt[p] - 1 : regs'[j] = regs[j]
  PROVE  Machine!Continue(SourceStack) /\ There(vpc', regs', var_buf')
<1> DEFINE h == HeightAt[p]
<1>1. SourceStack = Slots(regs, h) /\ h \in Nat /\ HeightAt[n] = h
  BY Finds
<1>2. SourcePc' = p + bytecode[p + 1].size /\ SourceStack' = Slots(regs', HeightAt[n])
      /\ There(vpc', regs', var_buf')
  BY Advances
<1>3. Slots(regs', h) = Slots(regs, h)
  BY <1>1, SlotsAgree
<1>4. SourceStack' = SourceStack
  BY <1>1, <1>2, <1>3
<1> QED BY <1>2, <1>4, Continues

(* An instruction whose code is a single one.                              *)
LEMMA Single ==
  ASSUME NEW p, NEW n, NEW k, Ready(p, n, k), NEW i, CodeOf(p) = <<i>>
  PROVE  /\ k = 0 /\ k + 1 = Len(CodeOf(p)) /\ Copies(Inst, i)
<1>1. Len(CodeOf(p)) = 1 /\ CodeOf(p)[1] = i
  OBVIOUS
<1>2. k \in 0..Len(CodeOf(p)) - 1
  BY DEF Ready
<1>3. k = 0 /\ k + 1 = 1
  BY <1>1, <1>2
<1>4. Copies(Inst, CodeOf(p)[k + 1])
  BY Finds
<1> QED BY <1>1, <1>3, <1>4

(* One lemma for each group of opcodes.                                    *)
LEMMA OfPushImmediate ==
  ASSUME NEW p, NEW n, NEW k, Ready(p, n, k), Ran, UNCHANGED compiler_vars,
         bytecode[p + 1].op \in {"push_i32"} \cup PrimitiveOpcodes
  PROVE  Explained
<1> DEFINE c == bytecode[p + 1]
           x == IF c.op = "push_i32" THEN Machine!MkInt(c.arg) ELSE Machine!PrimitiveValue(c.op)
<1>1. CodeOf(p) = Expansion(c, HeightAt[p])
  BY DEF CodeOf
<1>2. StackEffect(c) = 1
  BY DEF StackEffect, PrimitiveOpcodes
<1>3. /\ k + 1 = Len(CodeOf(p)) /\ Inst.dst = AsU8(HeightAt[p])
      /\ Inst.op \in {"PUSH_I32", "UNDEFINED", "NULL", "PUSH_FALSE", "PUSH_TRUE"}
      /\ ImmediateValue(Inst) = x /\ x \in Value
  <2>1. CASE c.op = "push_i32"
    <3> DEFINE i == PushInt(HeightAt[p], c.arg)
    <3>1. CodeOf(p) = <<i>>
      BY <1>1, <2>1, ExpansionIs
    <3>2. k + 1 = Len(CodeOf(p)) /\ Copies(Inst, i)
      BY <3>1, Single
    <3>3. i.op = "PUSH_I32" /\ i.dst = AsU8(HeightAt[p])
      BY Fields
    <3>4. c.arg \in Int32
      BY <2>1, Finds DEF NamesInFrame
    <3>5. Inst.op = "PUSH_I32" /\ Inst.dst = AsU8(HeightAt[p]) /\ Inst.src1 = i.src1 /\ Inst.src2 = i.src2
      BY <3>2, <3>3 DEF Copies, JumpOps
    <3>6. reg_i32(Inst) = c.arg
      <4>1. reg_i32(Inst) = reg_i32(i)
        BY <3>5 DEF reg_i32
      <4> QED BY <3>4, <4>1, PushIntIs
    <3>7. ImmediateValue(Inst) = MkInt(c.arg)
      BY <3>5, <3>6 DEF ImmediateValue
    <3>8. MkInt(c.arg) \in Value
      BY <3>4 DEF MkInt, Value, Tags, Int32
    <3> QED BY <2>1, <3>2, <3>5, <3>7, <3>8, SameMakers
  <2>2. CASE c.op \in PrimitiveOpcodes
    <3> DEFINE i == Reg(RegOpOf[c.op], HeightAt[p], 0, 0)
    <3>1. CodeOf(p) = <<i>>
      BY <1>1, <2>2, ExpansionIs
    <3>2. k + 1 = Len(CodeOf(p)) /\ Copies(Inst, i)
      BY <3>1, Single
    <3>3. i.op = RegOpOf[c.op] /\ i.dst = AsU8(HeightAt[p])
      BY Fields
    <3>4. Inst.op = RegOpOf[c.op] /\ Inst.dst = AsU8(HeightAt[p])
      BY <3>2, <3>3 DEF Copies
    <3>5. /\ RegOpOf["undefined"] = "UNDEFINED" /\ RegOpOf["null"] = "NULL"
          /\ RegOpOf["push_false"] = "PUSH_FALSE" /\ RegOpOf["push_true"] = "PUSH_TRUE"
      BY DEF RegOpOf
    <3>6. c.op \in {"undefined", "null", "push_false", "push_true"}
      BY <2>2 DEF PrimitiveOpcodes
    <3>7. x = Machine!PrimitiveValue(c.op)
      BY <3>6
    <3> HIDE DEF x, c, i
    <3>8. ImmediateValue(Inst) = x /\ x \in Value
          /\ Inst.op \in {"UNDEFINED", "NULL", "PUSH_FALSE", "PUSH_TRUE"}
      <4>1. CASE c.op = "undefined"
        BY <3>4, <3>5, <3>7, <4>1 DEF ImmediateValue, Machine!PrimitiveValue, Undefined, Machine!Undefined, Value, Tags
      <4>2. CASE c.op = "null"
        BY <3>4, <3>5, <3>7, <4>2 DEF ImmediateValue, Machine!PrimitiveValue, Null, Machine!Null, Value, Tags
      <4>3. CASE c.op = "push_false"
        BY <3>4, <3>5, <3>7, <4>3 DEF ImmediateValue, Machine!PrimitiveValue, MkBool, Machine!MkBool, Value, Tags
      <4>4. CASE c.op = "push_true"
        BY <3>4, <3>5, <3>7, <4>4 DEF ImmediateValue, Machine!PrimitiveValue, MkBool, Machine!MkBool, Value, Tags
      <4> QED BY <3>6, <4>1, <4>2, <4>3, <4>4
    <3> QED BY <3>2, <3>4, <3>8
  <2> QED BY <2>1, <2>2
<1> HIDE DEF x
<1>4. RunPushImmediate
  BY <1>3 DEF Ran
<1>5. WriteReg(x)
  BY <1>3, <1>4 DEF RunPushImmediate
<1>6. /\ Machine!Continue(Append(SourceStack, x)) /\ var_buf' = var_buf
      /\ There(vpc', regs', var_buf')
  BY <1>2, <1>3, <1>5, Pushes
<1>7. Machine!PushImmediate
  BY <1>6, MachineAt, SameConstants DEF Machine!PushImmediate, x
<1> QED BY <1>6, <1>7 DEF Explained, Machine!Step

(* What the current instruction says.                                      *)
LEMMA Simple ==
  ASSUME NEW p, NEW n, NEW k, Ready(p, n, k), NEW op, NEW d, NEW a, NEW b,
         Copies(Inst, Reg(op, d, a, b))
  PROVE  /\ Inst.op = op /\ Inst.dst = AsU8(d) /\ Inst.src2 = AsU16(b)
         /\ op \notin JumpOps => Inst.src1 = AsU16(a)
BY Fields DEF Copies

(* The top of the stack, and the operands in the locals.                   *)
LEMMA TopIs ==
  ASSUME NEW p, NEW n, NEW k, Ready(p, n, k), HeightAt[p] >= 1
  PROVE  /\ HeightAt[p] - 1 \in 0..U8 - 1 /\ AsU8(HeightAt[p] - 1) = HeightAt[p] - 1
         /\ AsU16(HeightAt[p] - 1) = HeightAt[p] - 1
         /\ Machine!Top = regs[HeightAt[p] - 1] /\ regs[HeightAt[p] - 1] \in Value
         /\ Len(SourceStack) = HeightAt[p]
<1> DEFINE h == HeightAt[p]
<1>1. h \in Nat /\ h <= U8 /\ U8 \in Nat /\ Len(SourceStack) = h
      /\ \A j \in 1..h : SourceStack[j] = regs[j - 1] /\ regs[j - 1] \in Value
  BY MachineAt
<1> HIDE DEF h
<1>2. h >= 1
  BY DEF h
<1>3. h \in 1..h /\ h - 1 \in 0..U8 - 1
  BY <1>1, <1>2
<1>4. SourceStack[h] = regs[h - 1] /\ regs[h - 1] \in Value
  BY <1>1, <1>3
<1> QED BY <1>1, <1>3, <1>4, ShortCasts DEF h, Machine!Top

LEMMA LocalIs ==
  ASSUME NEW p, NEW n, NEW k, Ready(p, n, k), NEW i \in 0..NumLocals - 1
  PROVE  /\ AsU8(i) = i /\ AsU16(i) = i /\ i \in Nat
         /\ var_buf[i] \in Value /\ IntFits(var_buf[i]) /\ i \in DOMAIN var_buf
<1>1. var_buf \in [0..NumLocals - 1 -> Value] /\ IntsFit /\ NumLocals <= U8
  BY DEF Ready, RunTypeOK, InScope
<1>2. i \in 0..U8 - 1
  BY <1>1, Widths, FrameAssumption
<1> QED BY <1>1, <1>2, ShortCasts DEF IntsFit

LEMMA OfPushConst ==
  ASSUME NEW p, NEW n, NEW k, Ready(p, n, k), Ran, UNCHANGED compiler_vars,
         bytecode[p + 1].op = "push_const"
  PROVE  Explained
<1> DEFINE c == bytecode[p + 1]
           h == HeightAt[p]
           x == cpool[c.arg]
<1>1. CodeOf(p) = <<Reg("PUSH_CONST", h, c.arg, 0)>>
  BY ExpansionIs DEF CodeOf
<1>2. k + 1 = Len(CodeOf(p)) /\ Copies(Inst, Reg("PUSH_CONST", h, c.arg, 0))
  BY <1>1, Single
<1>3. c.arg \in DOMAIN cpool
  BY Finds DEF NamesInFrame
<1>4. x \in Value /\ AsU16(c.arg) = c.arg
  <2>1. DOMAIN cpool \subseteq 0..U16 - 1
    BY DEF Ready, InScope
  <2> QED BY <1>3, <2>1, ShortCasts, FrameAssumption
<1>5. Inst.op = "PUSH_CONST" /\ Inst.dst = AsU8(h) /\ Inst.src1 = c.arg
  BY <1>2, <1>4, Simple DEF JumpOps
<1>6. RunPushConst
  BY <1>5 DEF Ran
<1>7. WriteReg(x)
  BY <1>5, <1>6 DEF RunPushConst
<1>8. StackEffect(c) = 1
  BY DEF StackEffect
<1>9. /\ Machine!Continue(Append(SourceStack, x)) /\ var_buf' = var_buf
      /\ There(vpc', regs', var_buf')
  BY <1>2, <1>4, <1>5, <1>7, <1>8, Pushes
<1>10. Machine!PushConstant
  BY <1>9, MachineAt DEF Machine!PushConstant
<1> QED BY <1>9, <1>10 DEF Explained, Machine!Step

LEMMA OfDrop ==
  ASSUME NEW p, NEW n, NEW k, Ready(p, n, k), Ran, UNCHANGED compiler_vars,
         bytecode[p + 1].op = "drop"
  PROVE  Explained
<1> DEFINE c == bytecode[p + 1]
           h == HeightAt[p]
<1>1. CodeOf(p) = <<Reg("DROP", h - 1, 0, 0)>>
  BY ExpansionIs DEF CodeOf
<1>2. k + 1 = Len(CodeOf(p)) /\ Copies(Inst, Reg("DROP", h - 1, 0, 0))
  BY <1>1, Single
<1>3. Inst.op = "DROP"
  BY <1>2, Simple
<1>4. RunDrop
  BY <1>3 DEF Ran
<1>5. h >= 1 /\ StackEffect(c) = -1
  BY Finds DEF StackEffect, FindsOperands, NeedsOne, PrimitiveOpcodes
<1>6. vpc' = vpc + 1 /\ vm' = vm /\ regs' = regs /\ var_buf' = var_buf
  BY <1>4 DEF RunDrop
<1>7. /\ Machine!Continue(SubSeq(SourceStack, 1, Len(SourceStack) - 1))
      /\ There(vpc', regs', var_buf')
  BY <1>2, <1>5, <1>6, Pops
<1>8. Machine!DropTop
  BY <1>6, <1>7, MachineAt DEF Machine!DropTop, Machine!Popped
<1> QED BY <1>7, <1>8 DEF Explained, Machine!Step

LEMMA OfDup ==
  ASSUME NEW p, NEW n, NEW k, Ready(p, n, k), Ran, UNCHANGED compiler_vars,
         bytecode[p + 1].op = "dup"
  PROVE  Explained
<1> DEFINE c == bytecode[p + 1]
           h == HeightAt[p]
           x == regs[h - 1]
<1>1. CodeOf(p) = <<Reg("MOV", h, h - 1, 0)>>
  BY ExpansionIs DEF CodeOf
<1>2. k + 1 = Len(CodeOf(p)) /\ Copies(Inst, Reg("MOV", h, h - 1, 0))
  BY <1>1, Single
<1>3. h >= 1 /\ StackEffect(c) = 1
  BY Finds DEF StackEffect, FindsOperands, NeedsOne
<1>4. AsU16(h - 1) = h - 1 /\ Machine!Top = x /\ x \in Value
  BY <1>3, TopIs
<1>5. Inst.op = "MOV" /\ Inst.dst = AsU8(h) /\ Inst.src1 = h - 1
  BY <1>2, <1>4, Simple DEF JumpOps
<1>6. RunMov
  BY <1>5 DEF Ran
<1>7. WriteReg(x)
  BY <1>5, <1>6 DEF RunMov
<1>8. /\ Machine!Continue(Append(SourceStack, x)) /\ var_buf' = var_buf
      /\ There(vpc', regs', var_buf')
  BY <1>2, <1>3, <1>4, <1>5, <1>7, Pushes
<1>9. Machine!DupTop
  BY <1>4, <1>8, MachineAt DEF Machine!DupTop
<1> QED BY <1>8, <1>9 DEF Explained, Machine!Step

LEMMA OfGetLoc ==
  ASSUME NEW p, NEW n, NEW k, Ready(p, n, k), Ran, UNCHANGED compiler_vars,
         bytecode[p + 1].op = "get_loc"
  PROVE  Explained
<1> DEFINE c == bytecode[p + 1]
           h == HeightAt[p]
           x == var_buf[c.arg]
<1>1. CodeOf(p) = <<Reg("LOAD_LOC", h, c.arg, 0)>>
  BY ExpansionIs DEF CodeOf
<1>2. k + 1 = Len(CodeOf(p)) /\ Copies(Inst, Reg("LOAD_LOC", h, c.arg, 0))
  BY <1>1, Single
<1>3. c.arg \in 0..NumLocals - 1
  BY Finds DEF NamesInFrame, LocalOpcodes
<1>4. x \in Value /\ AsU16(c.arg) = c.arg
  BY <1>3, LocalIs
<1>5. Inst.op = "LOAD_LOC" /\ Inst.dst = AsU8(h) /\ Inst.src1 = c.arg
  BY <1>2, <1>4, Simple DEF JumpOps
<1>6. RunLoadLoc
  BY <1>5 DEF Ran
<1>7. WriteReg(x)
  BY <1>5, <1>6 DEF RunLoadLoc
<1>8. StackEffect(c) = 1
  BY DEF StackEffect
<1>9. /\ Machine!Continue(Append(SourceStack, x)) /\ var_buf' = var_buf
      /\ There(vpc', regs', var_buf')
  BY <1>2, <1>4, <1>5, <1>7, <1>8, Pushes
<1>10. Append(SourceStack, x) = SourceStack \o <<x>>
  <2>1. SourceStack \in Seq(Value)
    <3>1. SourceStack = Slots(regs, h) /\ h \in Nat
      BY Finds
    <3>2. \A j \in 0..h - 1 : regs[j] \in Value
      <4>1. regs \in [0..U8 - 1 -> Value] /\ h <= U8 /\ U8 \in Nat
        BY MachineAt DEF Ready, RunTypeOK
      <4>2. \A j \in 0..h - 1 : j \in 0..U8 - 1
        BY <3>1, <4>1
      <4> QED BY <4>1, <4>2
    <3> QED BY <3>1, <3>2, SlotsAre
  <2> QED BY <1>4, <2>1, AppendIsConcat
<1>11. Machine!GetLocal
  BY <1>9, <1>10, MachineAt DEF Machine!GetLocal
<1> QED BY <1>9, <1>11 DEF Explained, Machine!Step

LEMMA StackIs ==
  ASSUME NEW p, NEW n, NEW k, Ready(p, n, k)
  PROVE  /\ SourceStack \in Seq(Value) /\ Len(SourceStack) = HeightAt[p]
         /\ \A j \in 0..HeightAt[p] - 1 : j \in 0..U8 - 1 /\ regs[j] \in Value
<1> DEFINE h == HeightAt[p]
<1>1. SourceStack = Slots(regs, h) /\ h \in Nat /\ h <= U8 /\ U8 \in Nat /\ Len(SourceStack) = h
  BY Finds, MachineAt
<1>2. regs \in [0..U8 - 1 -> Value]
  BY DEF Ready, RunTypeOK
<1> HIDE DEF h
<1>3. \A j \in 0..h - 1 : j \in 0..U8 - 1 /\ regs[j] \in Value
  BY <1>1, <1>2
<1>4. SourceStack \in Seq(Value)
  BY <1>1, <1>3, SlotsAre
<1> QED BY <1>1, <1>3, <1>4 DEF h

(* A scratch register is written.                                          *)
LEMMA Scratches ==
  ASSUME NEW p, NEW n, NEW k, Ready(p, n, k), NEW j \in Nat, HeightAt[p] + j + 1 <= U8,
         Inst.dst = HeightAt[p] + j, NEW x, WriteReg(x)
  PROVE  /\ vpc' = vpc + 1 /\ var_buf' = var_buf /\ vm' = vm
         /\ regs'[HeightAt[p] + j] = x
         /\ \A i \in 0..U8 - 1 : i # HeightAt[p] + j => regs'[i] = regs[i]
         /\ \A i \in 0..HeightAt[p] - 1 : regs'[i] = regs[i]
<1> DEFINE h == HeightAt[p]
<1>1. /\ vpc' = vpc + 1 /\ var_buf' = var_buf /\ vm' = vm
      /\ regs' = [regs EXCEPT ![h + j] = x]
  BY DEF WriteReg
<1>2. regs \in [0..U8 - 1 -> Value] /\ h \in Nat /\ U8 \in Nat
  BY Finds, Widths DEF Ready, RunTypeOK
<1>3. h + j + 1 <= U8
  OBVIOUS
<1> HIDE DEF h
<1>4. h + j \in 0..U8 - 1 /\ \A i \in 0..h - 1 : i \in 0..U8 - 1 /\ i # h + j
  BY <1>2, <1>3
<1>5. regs'[h + j] = x /\ \A i \in 0..U8 - 1 : i # h + j => regs'[i] = regs[i]
  BY <1>1, <1>2, <1>4
<1> QED BY <1>1, <1>4, <1>5 DEF h

(* The scratch registers have numbers of their own.                        *)
LEMMA ScratchIs ==
  ASSUME NEW p, NEW n, NEW k, Ready(p, n, k), NEW j \in Nat, HeightAt[p] + j + 1 <= U8
  PROVE  /\ HeightAt[p] + j \in 0..U8 - 1
         /\ AsU8(HeightAt[p] + j) = HeightAt[p] + j /\ AsU16(HeightAt[p] + j) = HeightAt[p] + j
<1> DEFINE h == HeightAt[p]
<1>1. h \in Nat /\ U8 \in Nat /\ h + j + 1 <= U8
  BY Finds, Widths
<1> HIDE DEF h
<1>2. h + j \in 0..U8 - 1
  BY <1>1
<1> QED BY <1>2, ShortCasts DEF h

LEMMA OfGetLoc0Loc1 ==
  ASSUME NEW p, NEW n, NEW k, Ready(p, n, k), Ran, UNCHANGED compiler_vars,
         bytecode[p + 1].op = "get_loc0_loc1"
  PROVE  Explained
<1> DEFINE c == bytecode[p + 1]
           h == HeightAt[p]
           A == Reg("LOAD_LOC", h, 0, 0)
           B == Reg("LOAD_LOC", h + 1, 1, 0)
<1>1. CodeOf(p) = <<A, B>>
  BY ExpansionIs DEF CodeOf
<1>2. Len(CodeOf(p)) = 2 /\ CodeOf(p)[1] = A /\ CodeOf(p)[2] = B
  BY <1>1
<1>3. k \in 0..1 /\ Copies(Inst, CodeOf(p)[k + 1])
  <2>1. k \in 0..Len(CodeOf(p)) - 1
    BY DEF Ready
  <2>2. Copies(Inst, CodeOf(p)[k + 1])
    BY Finds
  <2> QED BY <1>2, <2>1, <2>2
<1>4. h \in Nat /\ h + 2 <= U8 /\ StackEffect(c) = 2
  <2>1. Scratch(c) = 2 /\ StackEffect(c) = 2
    BY DEF Scratch, StackEffect, PrimitiveOpcodes
  <2> QED BY <2>1, Finds
<1>5. NumLocals >= 2 /\ NumLocals \in Nat
  BY Finds, FrameAssumption DEF NamesInFrame
<1>6. /\ var_buf[0] \in Value /\ AsU16(0) = 0
      /\ var_buf[1] \in Value /\ AsU16(1) = 1
  <2>1. 0 \in 0..NumLocals - 1 /\ 1 \in 0..NumLocals - 1
    BY <1>5
  <2> QED BY <2>1, LocalIs
<1>7. AsU8(h) = h /\ AsU8(h + 1) = h + 1
  <2>1. h + 0 + 1 <= U8 /\ h + 1 + 1 <= U8 /\ h + 0 = h
    BY <1>4, Widths
  <2> HIDE DEF h
  <2>2. AsU8(h + 0) = h + 0 /\ AsU8(h + 1) = h + 1
    BY <2>1, ScratchIs DEF h
  <2> QED BY <2>1, <2>2
<1>8. CASE k = 0
  <2>1. Copies(Inst, A)
    BY <1>2, <1>3, <1>8
  <2>2. Inst.op = "LOAD_LOC" /\ Inst.dst = h /\ Inst.src1 = 0
    BY <1>6, <1>7, <2>1, Simple DEF JumpOps
  <2>3. WriteReg(var_buf[0])
    BY <2>2 DEF Ran, RunLoadLoc
  <2>4. /\ vpc' = vpc + 1 /\ var_buf' = var_buf /\ vm' = vm /\ regs'[h] = var_buf[0]
        /\ \A i \in 0..h - 1 : regs'[i] = regs[i]
    <3>1. h + 0 = h /\ h + 0 + 1 <= U8
      BY <1>4, Widths
    <3>2. Inst.dst = h + 0
      BY <2>2, <3>1
    <3> HIDE DEF h
    <3>3. vpc' = vpc + 1 /\ var_buf' = var_buf /\ vm' = vm /\ regs'[h + 0] = var_buf[0]
          /\ \A i \in 0..h - 1 : regs'[i] = regs[i]
      BY <2>3, <3>1, <3>2, Scratches DEF h
    <3> QED BY <3>1, <3>3
  <2>5. Mid(p, k + 1, regs', var_buf')
    BY <1>8, <2>4 DEF Mid
  <2>6. k + 1 < Len(CodeOf(p))
    BY <1>2, <1>8
  <2> QED BY <2>4, <2>5, <2>6, Pauses
<1>9. CASE k = 1
  <2>1. Copies(Inst, B)
    BY <1>2, <1>3, <1>9
  <2>2. Inst.op = "LOAD_LOC" /\ Inst.dst = h + 1 /\ Inst.src1 = 1
    BY <1>6, <1>7, <2>1, Simple DEF JumpOps
  <2>3. WriteReg(var_buf[1])
    BY <2>2 DEF Ran, RunLoadLoc
  <2>4. /\ vpc' = vpc + 1 /\ var_buf' = var_buf /\ vm' = vm /\ regs'[h + 1] = var_buf[1]
        /\ \A i \in 0..U8 - 1 : i # h + 1 => regs'[i] = regs[i]
        /\ \A i \in 0..h - 1 : regs'[i] = regs[i]
    <3>1. h + 1 + 1 <= U8
      BY <1>4, Widths
    <3> QED BY <2>2, <2>3, <3>1, Scratches
  <2>5. regs'[h] = var_buf[0]
    <3>1. regs[h] = var_buf[0]
      BY <1>9 DEF Ready, Mid
    <3>2. h \in 0..U8 - 1 /\ h # h + 1
      BY <1>4, Widths
    <3> QED BY <2>4, <3>1, <3>2
  <2>6. k + 1 = Len(CodeOf(p))
    BY <1>2, <1>9
  <2>7. SourcePc' = p + c.size /\ SourceStack' = Slots(regs', HeightAt[n]) /\ There(vpc', regs', var_buf')
    BY <2>4, <2>6, Advances
  <2>8. HeightAt[n] = (h + 1) + 1 /\ SourceStack = Slots(regs, h)
    BY <1>4, Finds
  <2> HIDE DEF h
  <2>9. Slots(regs', h + 1) = Append(SourceStack, var_buf[0])
    <3>1. \A i \in 0..h - 1 : regs'[i] = regs[i] /\ regs[i] \in Value
      BY <2>4, StackIs DEF h
    <3>2. regs'[h] \in Value
      BY <1>6, <2>5
    <3>3. Slots(regs', h + 1) = Append(Slots(regs, h), regs'[h])
      BY <1>4, <3>1, <3>2, SlotsPush, Zenon
    <3> QED BY <2>5, <2>8, <3>3
  <2>10. Slots(regs', (h + 1) + 1) = Append(Slots(regs', h + 1), var_buf[1])
    <3>1. \A i \in 0..(h + 1) - 1 : regs'[i] = regs'[i] /\ regs'[i] \in Value
      <4> TAKE i \in 0..(h + 1) - 1
      <4>1. CASE i = h
        BY <1>6, <2>5, <4>1
      <4>2. CASE i # h
        <5>1. i \in 0..h - 1
          BY <1>4, <4>2
        <5> QED BY <2>4, <5>1, StackIs DEF h
      <4> QED BY <4>1, <4>2
    <3>2. regs'[h + 1] \in Value /\ h + 1 \in Nat
      BY <1>4, <1>6, <2>4
    <3>3. Slots(regs', (h + 1) + 1) = Append(Slots(regs', h + 1), regs'[h + 1])
      BY <3>1, <3>2, SlotsPush, Zenon
    <3> QED BY <2>4, <3>3
  <2>11. SourceStack' = SourceStack \o <<var_buf[0], var_buf[1]>>
    <3>1. SourceStack' = Append(Append(SourceStack, var_buf[0]), var_buf[1])
      BY <2>7, <2>8, <2>9, <2>10
    <3>2. SourceStack \in Seq(Value)
      BY StackIs
    <3>3. \A s \in Seq(Value), x \in Value, y \in Value : Append(Append(s, x), y) = s \o <<x, y>>
      OBVIOUS
    <3> QED BY <1>6, <3>1, <3>2, <3>3
  <2>12. Machine!Continue(SourceStack \o <<var_buf[0], var_buf[1]>>)
    BY <2>4, <2>7, <2>11, Continues
  <2>13. Machine!GetLocal
    BY <2>4, <2>12, MachineAt DEF Machine!GetLocal
  <2> QED BY <2>7, <2>13 DEF Explained, Machine!Step
<1> QED BY <1>3, <1>8, <1>9

LEMMA OfPutLoc ==
  ASSUME NEW p, NEW n, NEW k, Ready(p, n, k), Ran, UNCHANGED compiler_vars,
         bytecode[p + 1].op = "put_loc"
  PROVE  Explained
<1> DEFINE c == bytecode[p + 1]
           h == HeightAt[p]
           x == regs[h - 1]
<1>1. CodeOf(p) = <<Reg("STORE_LOC", c.arg, h - 1, 0)>>
  BY ExpansionIs DEF CodeOf
<1>2. k + 1 = Len(CodeOf(p)) /\ Copies(Inst, Reg("STORE_LOC", c.arg, h - 1, 0))
  BY <1>1, Single
<1>3. c.arg \in 0..NumLocals - 1
  BY Finds DEF NamesInFrame, LocalOpcodes
<1>4. AsU8(c.arg) = c.arg
  BY <1>3, LocalIs
<1>5. h >= 1 /\ StackEffect(c) = -1
  BY Finds DEF StackEffect, FindsOperands, NeedsOne, PrimitiveOpcodes
<1>6. AsU16(h - 1) = h - 1 /\ Machine!Top = x
  BY <1>5, TopIs
<1>7. Inst.op = "STORE_LOC" /\ Inst.dst = c.arg /\ Inst.src1 = h - 1
  BY <1>2, <1>4, <1>6, Simple DEF JumpOps
<1>8. /\ vpc' = vpc + 1 /\ vm' = vm /\ regs' = regs
      /\ var_buf' = [var_buf EXCEPT ![c.arg] = x]
  BY <1>7 DEF Ran, RunStoreLoc
<1>9. /\ Machine!Continue(SubSeq(SourceStack, 1, Len(SourceStack) - 1))
      /\ There(vpc', regs', var_buf')
  BY <1>2, <1>5, <1>8, Pops
<1>10. Machine!PutLocal
  BY <1>6, <1>8, <1>9, MachineAt DEF Machine!PutLocal, Machine!Popped
<1> QED BY <1>9, <1>10 DEF Explained, Machine!Step

LEMMA OfSetLoc ==
  ASSUME NEW p, NEW n, NEW k, Ready(p, n, k), Ran, UNCHANGED compiler_vars,
         bytecode[p + 1].op = "set_loc"
  PROVE  Explained
<1> DEFINE c == bytecode[p + 1]
           h == HeightAt[p]
           x == regs[h - 1]
<1>1. CodeOf(p) = <<Reg("SET_LOC", c.arg, h - 1, 0)>>
  BY ExpansionIs DEF CodeOf
<1>2. k + 1 = Len(CodeOf(p)) /\ Copies(Inst, Reg("SET_LOC", c.arg, h - 1, 0))
  BY <1>1, Single
<1>3. c.arg \in 0..NumLocals - 1
  BY Finds DEF NamesInFrame, LocalOpcodes
<1>4. AsU8(c.arg) = c.arg
  BY <1>3, LocalIs
<1>5. h >= 1 /\ StackEffect(c) = 0
  BY Finds DEF StackEffect, FindsOperands, NeedsOne, PrimitiveOpcodes
<1>6. AsU16(h - 1) = h - 1 /\ Machine!Top = x
  BY <1>5, TopIs
<1>7. Inst.op = "SET_LOC" /\ Inst.dst = c.arg /\ Inst.src1 = h - 1
  BY <1>2, <1>4, <1>6, Simple DEF JumpOps
<1>8. /\ vpc' = vpc + 1 /\ vm' = vm /\ regs' = regs
      /\ var_buf' = [var_buf EXCEPT ![c.arg] = x]
  BY <1>7 DEF Ran, RunStoreLoc
<1>9. Machine!Continue(SourceStack) /\ There(vpc', regs', var_buf')
  BY <1>2, <1>5, <1>8, Stays
<1>10. Machine!SetLocal
  BY <1>6, <1>8, <1>9, MachineAt DEF Machine!SetLocal
<1> QED BY <1>9, <1>10 DEF Explained, Machine!Step

-----------------------------------------------------------------------------
(* Where the machine may hand the call over.                               *)
LEMMA FastPathIs ==
  ASSUME NEW p, NEW n, NEW k, Ready(p, n, k), Machine!FastPath
  PROVE  LET c == bytecode[p + 1] IN
         /\ c.op \in NeedsTwo => vm_handles(RegOpOf[c.op], Machine!Second, Machine!Top)
         /\ c.op = "add_loc" => vm_handles("ADD", var_buf[c.arg], Machine!Top)
         /\ c.op \in {"inc_loc", "dec_loc"} => vm_handles("ADD", var_buf[c.arg], MkInt(1))
         /\ c.op \in BranchOpcodes => Machine!Top.tag = "bool"
<1> DEFINE o == bytecode[p + 1].op
           a == bytecode[p + 1].arg
<1>1. Machine!Cur.op = o /\ Machine!Cur.arg = a
  BY MachineAt
<1> DEFINE Fast == CASE o \in Machine!NeedsTwo -> Machine!vm_handles(Machine!RegOpOf[o], Machine!Second, Machine!Top)
        [] o = "add_loc"          -> Machine!vm_handles("ADD", var_buf[a], Machine!Top)
        [] o \in {"inc_loc", "dec_loc"} -> Machine!vm_handles("ADD", var_buf[a], Machine!MkInt(1))
        [] o \in Machine!BranchOpcodes  -> Machine!Top.tag = "bool"
        [] OTHER                        -> o \notin {"nop", "operand"}
           Handled == CASE o \in NeedsTwo -> vm_handles(RegOpOf[o], Machine!Second, Machine!Top)
        [] o = "add_loc"          -> vm_handles("ADD", var_buf[a], Machine!Top)
        [] o \in {"inc_loc", "dec_loc"} -> vm_handles("ADD", var_buf[a], MkInt(1))
        [] o \in BranchOpcodes  -> Machine!Top.tag = "bool"
        [] OTHER                        -> o \notin {"nop", "operand"}
<1>2. Fast
  BY <1>1 DEF Machine!FastPath
<1> HIDE DEF o, a
<1>3. Handled
  BY <1>2, SameOperators, SameConstants, SameMakers
<1>4. /\ o \in NeedsTwo => vm_handles(RegOpOf[o], Machine!Second, Machine!Top)
      /\ o = "add_loc" => vm_handles("ADD", var_buf[a], Machine!Top)
      /\ o \in {"inc_loc", "dec_loc"} => vm_handles("ADD", var_buf[a], MkInt(1))
      /\ o \in BranchOpcodes => Machine!Top.tag = "bool"
  BY <1>3 DEF NeedsTwo, BinaryOpcodes, ComparisonOpcodes, BranchOpcodes
<1> QED BY <1>4 DEF o, a

(* The VM gives up.                                                        *)
LEMMA GivesUp ==
  ASSUME NEW p, Compiled, RunTypeOK, vm = VMRunning, Holds(p, vpc), GiveUp, UNCHANGED compiler_vars,
         ~Machine!FastPath
  PROVE  Explained
<1>1. /\ vm' = VMBailed /\ vpc' = vpc /\ regs' = regs /\ var_buf' = var_buf
  BY DEF GiveUp
<1>2. vpc \in Nat /\ vpc' \in Nat /\ Holds(p, vpc')
  BY <1>1 DEF RunTypeOK
<1>3. SourcePc = p /\ SourceStack = Slots(regs, HeightAt[p])
  BY <1>2, SourceNow
<1>4. SourcePc' = p /\ SourceStack' = Slots(regs', HeightAt[p])
  BY <1>2, SourceThen
<1>5. vm = Machine!Running /\ vm' = Machine!HandedOver
  BY <1>1, SameConstants DEF VMRunning, VMBailed, Machine!Running, Machine!HandedOver
<1>6. UNCHANGED <<bytecode, SourcePc, SourceStack, var_buf>>
  BY <1>1, <1>3, <1>4 DEF compiler_vars
<1>7. Machine!HandOver
  BY <1>5, <1>6 DEF Machine!HandOver
<1>8. vm' # VMRunning
  BY <1>1 DEF VMBailed, VMRunning
<1> QED BY <1>7, <1>8 DEF Explained

LEMMA Reached ==
  ASSUME NEW p, NEW n, NEW k, Ready(p, n, k)
  PROVE  Compiled /\ vpc \in Nat /\ Holds(p, vpc)
<1>1. Compiled /\ RunTypeOK /\ vm = VMRunning /\ k \in 0..Len(CodeOf(p)) - 1 /\ vpc = pc_to_inst_idx[p] + k
      /\ Follows(p, n)
  BY DEF Ready
<1>2. p \in 0..Len(bytecode) /\ Mapped(p) /\ pc_to_inst_idx[p] \in Nat /\ Len(CodeOf(p)) \in 1..4
  <2>1. p \in 0..Len(bytecode) - 1 /\ Mapped(p) /\ Len(bytecode) \in Nat
    BY <1>1, Layout DEF Follows
  <2>2. p \in 0..Len(bytecode)
    BY <2>1
  <2> QED BY <1>1, <2>1, <2>2, NextInstruction
<1>3. pc_to_inst_idx[p] <= vpc /\ vpc < pc_to_inst_idx[p] + Len(CodeOf(p))
  <2> DEFINE i == pc_to_inst_idx[p]
             m == Len(CodeOf(p))
  <2>1. i \in Nat /\ m \in 1..4 /\ k \in 0..m - 1 /\ vpc = i + k
    BY <1>1, <1>2
  <2> HIDE DEF i, m
  <2>2. i <= vpc /\ vpc < i + m
    BY <2>1
  <2> QED BY <2>2 DEF i, m
<1>4. Holds(p, vpc)
  BY <1>2, <1>3 DEF Holds
<1> QED BY <1>1, <1>4 DEF RunTypeOK

LEMMA GivesUpAt ==
  ASSUME NEW p, NEW n, NEW k, Ready(p, n, k), GiveUp, UNCHANGED compiler_vars, ~Machine!FastPath
  PROVE  Explained
<1>1. RunTypeOK /\ vm = VMRunning
  BY DEF Ready
<1>2. Compiled /\ Holds(p, vpc)
  BY Reached
<1> QED BY <1>1, <1>2, GivesUp

(* An operation the VM runs, or gives up on.                               *)
LEMMA Operates ==
  ASSUME NEW p, NEW n, NEW k, Ready(p, n, k), Ran, Inst.op \in BinaryOps,
         NEW x, NEW y, regs[Inst.src1] = x, regs[Inst.src2] = y,
         Inst.src1 \in 0..U8 - 1, Inst.src2 \in 0..U8 - 1
  PROVE  \/ vm_handles(Inst.op, x, y) /\ WriteReg(js_binary(Inst.op, x, y)) /\ js_binary(Inst.op, x, y) \in Value
         \/ GiveUp /\ ~vm_handles(Inst.op, x, y)
<1>1. regs \in [0..U8 - 1 -> Value] /\ IntsFit /\ InScope
  BY DEF Ready, RunTypeOK
<1>2. x \in Value /\ y \in Value /\ IntFits(x) /\ IntFits(y)
  BY <1>1 DEF IntsFit
<1>3. CASE RunBinary
  <2>1. vm_handles(Inst.op, x, y) /\ WriteReg(vm_binary(Inst.op, x, y)) /\ AtInstruction /\ InRange(Inst)
    <3>1. SourceRegisters(Inst) = {Inst.src1, Inst.src2}
      BY DEF SourceRegisters, BinaryOps, ArithOps, BitOps, CompareOps
    <3>2. InRange(Inst)
      <4>1. DOMAIN regs = 0..U8 - 1
        BY <1>1
      <4> QED BY <3>1, <4>1 DEF InRange
    <3>3. AtInstruction
      BY Finds
    <3> QED BY <1>3, <3>2, <3>3 DEF RunBinary
  <2>2. ~NegativeZeroDue(Inst.op, x, y) /\ ~EqualApart(Inst.op, x, y)
    BY <1>1, <2>1 DEF InScope
  <2>3. vm_binary(Inst.op, x, y) = js_binary(Inst.op, x, y)
    BY <1>2, <2>1, <2>2, SameResult
  <2>4. vm_binary(Inst.op, x, y) \in Value
    BY <1>2, vm_binaryType DEF Primitive
  <2> QED BY <2>1, <2>3, <2>4
<1>4. CASE GiveUp /\ ~vm_handles(Inst.op, x, y)
  BY <1>4
<1> QED BY <1>3, <1>4 DEF Ran

LEMMA OfAddLoc ==
  ASSUME NEW p, NEW n, NEW k, Ready(p, n, k), Ran, UNCHANGED compiler_vars,
         bytecode[p + 1].op = "add_loc"
  PROVE  Explained
<1> DEFINE c == bytecode[p + 1]
           h == HeightAt[p]
           A == Reg("LOAD_LOC", AsU8(h), c.arg, 0)
           B == Reg("ADD", AsU8(h), AsU8(h), h - 1)
           D == Reg("STORE_LOC", c.arg, AsU8(h), 0)
           x == var_buf[c.arg]
           y == regs[h - 1]
<1>1. CodeOf(p) = <<A, B, D>>
  BY ExpansionIs DEF CodeOf
<1>2. Len(CodeOf(p)) = 3 /\ CodeOf(p)[1] = A /\ CodeOf(p)[2] = B /\ CodeOf(p)[3] = D
  BY <1>1
<1>3. k \in 0..2 /\ Copies(Inst, CodeOf(p)[k + 1])
  <2>1. k \in 0..Len(CodeOf(p)) - 1
    BY DEF Ready
  <2>2. Copies(Inst, CodeOf(p)[k + 1])
    BY Finds
  <2> QED BY <1>2, <2>1, <2>2
<1>4. h \in Nat /\ h + 0 + 1 <= U8 /\ h >= 1 /\ StackEffect(c) = -1 /\ h + 0 = h
  <2>1. Scratch(c) = 1 /\ StackEffect(c) = -1
    BY DEF Scratch, StackEffect, PrimitiveOpcodes
  <2>2. h \in Nat /\ h + Scratch(c) <= U8 /\ FindsOperands(c, h)
    BY Finds
  <2>3. h >= 1
    BY <2>2 DEF FindsOperands, NeedsOne
  <2> HIDE DEF h
  <2> QED BY <2>1, <2>2, <2>3, Widths
<1>5. h \in 0..U8 - 1 /\ AsU8(h) = h /\ AsU8(AsU8(h)) = h /\ AsU16(h) = h
  <2>1. h + 0 \in 0..U8 - 1 /\ AsU8(h + 0) = h + 0 /\ AsU16(h + 0) = h + 0
    BY <1>4, ScratchIs
  <2> HIDE DEF h
  <2> QED BY <1>4, <2>1
<1>6. h - 1 \in 0..U8 - 1 /\ AsU16(h - 1) = h - 1 /\ Machine!Top = y /\ y \in Value
  BY <1>4, TopIs
<1>7. c.arg \in 0..NumLocals - 1
  BY Finds DEF NamesInFrame, LocalOpcodes
<1>8. AsU8(c.arg) = c.arg /\ AsU16(c.arg) = c.arg /\ c.arg \in DOMAIN var_buf
  BY <1>7, LocalIs
<1>9. ASSUME NEW z, WriteReg(z), Inst.dst = h
      PROVE  /\ vpc' = vpc + 1 /\ var_buf' = var_buf /\ vm' = vm /\ regs'[h] = z
             /\ \A i \in 0..h - 1 : regs'[i] = regs[i]
             /\ regs'[h - 1] = regs[h - 1]
  <2> DEFINE o == 0
  <2>1. o \in Nat /\ h + o = h /\ h + o + 1 <= U8
    BY <1>4
  <2> HIDE DEF o, h
  <2>2. vpc' = vpc + 1 /\ var_buf' = var_buf /\ vm' = vm /\ regs'[h + o] = z
        /\ \A i \in 0..h - 1 : regs'[i] = regs[i]
    BY <1>9, <2>1, Scratches DEF h
  <2>3. h - 1 \in 0..h - 1
    BY <1>4
  <2> QED BY <2>1, <2>2, <2>3
<1>10. CASE k = 0
  <2>1. Copies(Inst, A)
    BY <1>2, <1>3, <1>10
  <2>2. Inst.op = "LOAD_LOC" /\ Inst.dst = h /\ Inst.src1 = c.arg
    BY <1>5, <1>8, <2>1, Simple DEF JumpOps
  <2>3. WriteReg(x)
    BY <2>2 DEF Ran, RunLoadLoc
  <2>4. Mid(p, k + 1, regs', var_buf')
    BY <1>9, <1>10, <2>2, <2>3 DEF Mid
  <2>5. k + 1 < Len(CodeOf(p))
    BY <1>2, <1>10
  <2> QED BY <1>9, <2>2, <2>3, <2>4, <2>5, Pauses
<1>11. CASE k = 1
  <2>1. Copies(Inst, B)
    BY <1>2, <1>3, <1>11
  <2>2. Inst.op = "ADD" /\ Inst.dst = h /\ Inst.src1 = h /\ Inst.src2 = h - 1
    BY <1>5, <1>6, <2>1, Simple DEF JumpOps
  <2>3. regs[h] = x
    BY <1>11 DEF Ready, Mid
  <2>4. \/ vm_handles("ADD", x, y) /\ WriteReg(js_binary("ADD", x, y))
        \/ GiveUp /\ ~vm_handles("ADD", x, y)
    <3>1. Inst.op \in BinaryOps
      BY <2>2 DEF BinaryOps, ArithOps
    <3>2. regs[Inst.src1] = x /\ regs[Inst.src2] = y /\ Inst.src1 \in 0..U8 - 1 /\ Inst.src2 \in 0..U8 - 1
      BY <1>5, <1>6, <2>2, <2>3
    <3> HIDE DEF x, y
    <3> QED BY <2>2, <3>1, <3>2, Operates
  <2>5. CASE WriteReg(js_binary("ADD", x, y))
    <3>1. Mid(p, k + 1, regs', var_buf')
      BY <1>9, <1>11, <2>2, <2>5 DEF Mid
    <3>2. k + 1 < Len(CodeOf(p))
      BY <1>2, <1>11
    <3> QED BY <1>9, <2>2, <2>5, <3>1, <3>2, Pauses
  <2>6. CASE GiveUp /\ ~vm_handles("ADD", x, y)
    <3>1. ~Machine!FastPath
      BY <1>6, <2>6, FastPathIs
    <3> QED BY <2>6, <3>1, GivesUpAt
  <2> QED BY <2>4, <2>5, <2>6
<1>12. CASE k = 2
  <2>1. Copies(Inst, D)
    BY <1>2, <1>3, <1>12
  <2>2. Inst.op = "STORE_LOC" /\ Inst.dst = c.arg /\ Inst.src1 = h
    BY <1>5, <1>8, <2>1, Simple DEF JumpOps
  <2>3. regs[h] = js_binary("ADD", x, y)
    BY <1>12 DEF Ready, Mid
  <2>4. /\ vpc' = vpc + 1 /\ vm' = vm /\ regs' = regs
        /\ var_buf' = [var_buf EXCEPT ![c.arg] = js_binary("ADD", x, y)]
    BY <2>2, <2>3 DEF Ran, RunStoreLoc
  <2>5. k + 1 = Len(CodeOf(p))
    BY <1>2, <1>12
  <2>6. /\ Machine!Continue(SubSeq(SourceStack, 1, Len(SourceStack) - 1))
        /\ There(vpc', regs', var_buf')
    BY <1>4, <2>4, <2>5, Pops
  <2>7. Machine!AddToLocal
    <3>1. var_buf' = [var_buf EXCEPT ![c.arg] = Machine!js_binary("ADD", @, Machine!Top)]
      BY <1>6, <1>8, <2>4, SameOperators
    <3> QED BY <2>6, <3>1, MachineAt DEF Machine!AddToLocal, Machine!Popped
  <2> QED BY <2>6, <2>7 DEF Explained, Machine!Step
<1> QED BY <1>3, <1>10, <1>11, <1>12

LEMMA OfBinary ==
  ASSUME NEW p, NEW n, NEW k, Ready(p, n, k), Ran, UNCHANGED compiler_vars,
         bytecode[p + 1].op \in NeedsTwo
  PROVE  Explained
<1> DEFINE c == bytecode[p + 1]
           h == HeightAt[p]
           op == RegOpOf[c.op]
           x == regs[h - 2]
           y == regs[h - 1]
           z == js_binary(op, x, y)
<1>1. CodeOf(p) = <<Reg(op, h - 2, h - 2, h - 1)>>
  BY ExpansionIs DEF CodeOf
<1>2. k + 1 = Len(CodeOf(p)) /\ Copies(Inst, Reg(op, h - 2, h - 2, h - 1))
  BY <1>1, Single
<1>3. op \in BinaryOps /\ op \notin JumpOps /\ StackEffect(c) = -1
  <2>1. c.op \in {"mul", "mod", "add", "sub", "shl", "sar", "shr", "and", "xor", "or", "strict_eq",
                  "lt", "lte", "gt", "gte"}
    BY DEF NeedsTwo, BinaryOpcodes, ComparisonOpcodes
  <2>2. StackEffect(c) = -1
    BY <2>1 DEF StackEffect, PrimitiveOpcodes
  <2>3. /\ op \in {"ADD", "SUB", "MUL", "MOD", "SHL", "SAR", "SHR", "BIT_AND", "BIT_XOR", "BIT_OR",
                   "LT", "LTE", "GT", "GTE", "STRICT_EQ"}
    BY <2>1 DEF RegOpOf
  <2> HIDE DEF op
  <2>4. op \in BinaryOps /\ op \notin JumpOps
    BY <2>3 DEF BinaryOps, ArithOps, BitOps, CompareOps, JumpOps
  <2> QED BY <2>2, <2>4
<1>4. h \in Nat /\ h >= 2 /\ h >= 1 /\ h <= U8 /\ U8 \in Nat
      /\ \A j \in 1..h : SourceStack[j] = regs[j - 1] /\ regs[j - 1] \in Value
      /\ SourceStack \in Seq(Value) /\ Len(SourceStack) = h
      /\ SourceStack = Slots(regs, h) /\ HeightAt[n] = h - 1
  <2>1. h \in Nat /\ FindsOperands(c, h) /\ HeightAt[n] = h + StackEffect(c) /\ SourceStack = Slots(regs, h)
    BY Finds
  <2>2. h >= 2
    BY <2>1 DEF FindsOperands
  <2>3. h <= U8 /\ U8 \in Nat /\ Len(SourceStack) = h
        /\ \A j \in 1..h : SourceStack[j] = regs[j - 1] /\ regs[j - 1] \in Value
    BY MachineAt
  <2>4. SourceStack \in Seq(Value)
    BY StackIs
  <2>5. HeightAt[n] = h + -1
    BY <1>3, <2>1
  <2> HIDE DEF h, c
  <2>6. h >= 1 /\ HeightAt[n] = h - 1
    BY <2>1, <2>2, <2>5
  <2> QED BY <2>1, <2>2, <2>3, <2>4, <2>6
<1>5. Machine!Top = y /\ Machine!Second = x /\ x \in Value /\ y \in Value
  <2> HIDE DEF h
  <2>1. h \in 1..h /\ h - 1 \in 1..h /\ (h - 1) - 1 = h - 2
    BY <1>4
  <2> QED BY <1>4, <2>1 DEF Machine!Top, Machine!Second
<1>6. h - 2 \in 0..U8 - 1 /\ h - 1 \in 0..U8 - 1
  <2> HIDE DEF h
  <2> QED BY <1>4
<1>7. Inst.op = op /\ Inst.dst = h - 2 /\ Inst.src1 = h - 2 /\ Inst.src2 = h - 1
  <2>1. AsU8(h - 2) = h - 2 /\ AsU16(h - 2) = h - 2 /\ AsU16(h - 1) = h - 1
    BY <1>6, ShortCasts
  <2> HIDE DEF op, h
  <2> QED BY <1>2, <1>3, <2>1, Simple
<1>8. \/ vm_handles(op, x, y) /\ WriteReg(z) /\ z \in Value
      \/ GiveUp /\ ~vm_handles(op, x, y)
  <2>1. regs[Inst.src1] = x /\ regs[Inst.src2] = y /\ Inst.src1 \in 0..U8 - 1 /\ Inst.src2 \in 0..U8 - 1
        /\ Inst.op \in BinaryOps
    BY <1>3, <1>6, <1>7
  <2> HIDE DEF x, y
  <2> QED BY <1>7, <2>1, Operates
<1>9. CASE WriteReg(z) /\ z \in Value
  <2>1. vpc' = vpc + 1 /\ var_buf' = var_buf /\ vm' = vm /\ regs' = [regs EXCEPT ![h - 2] = z]
    BY <1>7, <1>9 DEF WriteReg
  <2>2. SourcePc' = p + c.size /\ SourceStack' = Slots(regs', HeightAt[n]) /\ There(vpc', regs', var_buf')
    BY <1>2, <2>1, Advances
  <2> HIDE DEF h, z
  <2>3. regs \in [0..U8 - 1 -> Value]
    BY DEF Ready, RunTypeOK
  <2>4. Slots(regs, h - 2) = SubSeq(SourceStack, 1, h - 2)
    <3>1. 2 \in 0..h /\ \A j \in 0..h - 1 : regs[j] \in Value
      BY <1>4, <2>3
    <3>2. \A j \in 0..(h - 2) - 1 : regs[j] = regs[j]
      OBVIOUS
    <3>3. Slots(regs, h - 2) = SubSeq(Slots(regs, h), 1, h - 2)
      <4>1. h \in Nat
        BY <1>4
      <4> QED BY <3>1, <3>2, <4>1, SlotsPop
    <3> QED BY <1>4, <3>3
  <2>5. Slots(regs', (h - 2) + 1) = Append(Slots(regs, h - 2), z)
    <3>1. regs'[h - 2] = z /\ h - 2 \in Nat
      BY <1>4, <1>6, <2>1, <2>3
    <3>2. \A j \in 0..(h - 2) - 1 : regs'[j] = regs[j] /\ regs[j] \in Value
      <4> TAKE j \in 0..(h - 2) - 1
      <4>1. j \in 0..U8 - 1 /\ j # h - 2
        BY <1>4
      <4> QED BY <2>1, <2>3, <4>1
    <3>3. Slots(regs', (h - 2) + 1) = Append(Slots(regs, h - 2), regs'[h - 2])
      BY <1>9, <3>1, <3>2, SlotsPush, Zenon
    <3> QED BY <3>1, <3>3
  <2>6. SourceStack' = Append(SubSeq(SourceStack, 1, Len(SourceStack) - 2), z)
    <3>1. HeightAt[n] = (h - 2) + 1
      BY <1>4
    <3>2. SourceStack' = Append(SubSeq(SourceStack, 1, h - 2), z)
      BY ONLY <2>2, <2>4, <2>5, <3>1
    <3> QED BY ONLY <1>4, <3>2
  <2>7. Machine!Continue(Append(SubSeq(SourceStack, 1, Len(SourceStack) - 2), z))
    BY <2>1, <2>2, <2>6, Continues
  <2>8. z = Machine!js_binary(Machine!RegOpOf[Machine!Cur.op], Machine!Second, Machine!Top)
    BY <1>5, SameOperators, SameConstants, MachineAt DEF z
  <2>9. Machine!Binary
    BY <2>1, <2>7, <2>8, MachineAt, SameConstants DEF Machine!Binary, Machine!Popped
  <2> QED BY <2>2, <2>9 DEF Explained, Machine!Step
<1>10. CASE GiveUp /\ ~vm_handles(op, x, y)
  <2>1. ~Machine!FastPath
    BY <1>5, <1>10, FastPathIs
  <2> QED BY <1>10, <2>1, GivesUpAt
<1> QED BY <1>8, <1>9, <1>10

LEMMA SmallInts == 1 \in Int32 /\ -1 \in Int32
<1>1. U16 >= 4 /\ U16 \in Nat
  <2>1. \A a \in Nat : a >= 2 => a * a >= 4
    <3> TAKE a \in Nat
    <3> HAVE a >= 2
    <3>1. a * a = 2 * a + (a - 2) * a
      OBVIOUS
    <3>2. (a - 2) * a >= 0
      BY SMTT(30)
    <3> QED BY <3>1, <3>2
  <2> QED BY <2>1, Widths, WidthAssumption DEF U16
<1>2. U32 >= 4
  <2>1. \A a \in Nat : a >= 4 => a * a >= 4
    <3> TAKE a \in Nat
    <3> HAVE a >= 4
    <3>1. a * a = 4 + (a * a - 4) /\ a * a = a + (a - 1) * a
      OBVIOUS
    <3>2. (a - 1) * a >= 0
      BY SMTT(30)
    <3> QED BY <3>1, <3>2
  <2> QED BY <1>1, <2>1 DEF U32
<1> DEFINE d == U32 \div 2
<1>3. d \in Int /\ U32 = 2 * d /\ MinInt32 = -d /\ MaxInt32 = d - 1
  BY HalfWidth
<1> HIDE DEF d
<1>4. d >= 2
  BY <1>2, <1>3
<1> QED BY <1>3, <1>4 DEF Int32

LEMMA OfStepLoc ==
  ASSUME NEW p, NEW n, NEW k, Ready(p, n, k), Ran, UNCHANGED compiler_vars,
         bytecode[p + 1].op \in {"inc_loc", "dec_loc"}
  PROVE  Explained
<1> DEFINE c == bytecode[p + 1]
           h == HeightAt[p]
           step == IF c.op = "inc_loc" THEN 1 ELSE -1
           A == PushInt(AsU8(h), step)
           B == Reg("LOAD_LOC", AsU8(h + 1), c.arg, 0)
           K == Reg("ADD", AsU8(h + 1), AsU8(h + 1), AsU8(h))
           D == Reg("STORE_LOC", c.arg, AsU8(h + 1), 0)
           x == var_buf[c.arg]
           y == StepOf(c)
<1>1. CodeOf(p) = <<A, B, K, D>>
  BY ExpansionIs DEF CodeOf
<1>2. Len(CodeOf(p)) = 4 /\ CodeOf(p)[1] = A /\ CodeOf(p)[2] = B /\ CodeOf(p)[3] = K /\ CodeOf(p)[4] = D
  BY <1>1
<1>3. k \in 0..3 /\ Copies(Inst, CodeOf(p)[k + 1])
  <2>1. k \in 0..Len(CodeOf(p)) - 1
    BY DEF Ready
  <2>2. Copies(Inst, CodeOf(p)[k + 1])
    BY Finds
  <2> QED BY <1>2, <2>1, <2>2
<1>4. h \in Nat /\ h + 0 + 1 <= U8 /\ h + 1 + 1 <= U8 /\ StackEffect(c) = 0
  <2>1. Scratch(c) = 2 /\ StackEffect(c) = 0
    BY DEF Scratch, StackEffect, PrimitiveOpcodes
  <2>2. h \in Nat /\ h + Scratch(c) <= U8
    BY Finds
  <2> HIDE DEF h
  <2> QED BY <2>1, <2>2, Widths
<1>5. /\ h \in 0..U8 - 1 /\ AsU8(h) = h /\ AsU8(AsU8(h)) = h /\ AsU16(AsU8(h)) = h
      /\ h + 1 \in 0..U8 - 1 /\ AsU8(h + 1) = h + 1 /\ AsU8(AsU8(h + 1)) = h + 1 /\ AsU16(AsU8(h + 1)) = h + 1
      /\ h # h + 1
  <2>1. h + 1 \in 0..U8 - 1 /\ AsU8(h + 1) = h + 1 /\ AsU16(h + 1) = h + 1
    BY <1>4, ScratchIs
  <2>2. h \in 0..U8 - 1 /\ h # h + 1
    <3> HIDE DEF h
    <3> QED BY <1>4, Widths
  <2>3. AsU8(h) = h /\ AsU16(h) = h
    BY <2>2, ShortCasts
  <2> HIDE DEF h
  <2> QED BY <2>1, <2>2, <2>3
<1>6. c.arg \in 0..NumLocals - 1
  BY Finds DEF NamesInFrame, LocalOpcodes
<1>7. AsU8(c.arg) = c.arg /\ AsU16(c.arg) = c.arg /\ c.arg \in DOMAIN var_buf
  BY <1>6, LocalIs
<1>8. ASSUME NEW j \in {0, 1}, NEW z, WriteReg(z), Inst.dst = h + j
      PROVE  /\ vpc' = vpc + 1 /\ var_buf' = var_buf /\ vm' = vm /\ regs'[h + j] = z
             /\ \A i \in 0..h - 1 : regs'[i] = regs[i]
             /\ \A i \in 0..U8 - 1 : i # h + j => regs'[i] = regs[i]
  <2>1. h + j + 1 <= U8 /\ j \in Nat
    BY <1>4, <1>8
  <2> HIDE DEF h
  <2> QED BY <1>8, <2>1, Scratches DEF h
<1>9. CASE k = 0
  <2>1. Copies(Inst, A)
    BY <1>2, <1>3, <1>9
  <2>2. Inst.op = "PUSH_I32" /\ Inst.dst = h /\ ImmediateValue(Inst) = y
    <3>1. A.op = "PUSH_I32" /\ A.dst = AsU8(AsU8(h))
      BY Fields
    <3> HIDE DEF A
    <3>2. Inst.op = "PUSH_I32" /\ Inst.dst = h /\ Inst.src1 = A.src1 /\ Inst.src2 = A.src2
      BY <1>5, <2>1, <3>1 DEF Copies, JumpOps
    <3>3. reg_i32(Inst) = step
      <4>1. reg_i32(Inst) = reg_i32(A)
        BY <3>2 DEF reg_i32
      <4>2. step \in Int32
        BY SmallInts
      <4> HIDE DEF step
      <4> QED BY <4>1, <4>2, PushIntIs DEF A
    <3> QED BY <3>2, <3>3 DEF ImmediateValue, StepOf
  <2>3. WriteReg(y)
    BY <2>2 DEF Ran, RunPushImmediate
  <2>4. /\ vpc' = vpc + 1 /\ var_buf' = var_buf /\ vm' = vm /\ regs'[h] = y
        /\ \A i \in 0..h - 1 : regs'[i] = regs[i]
    <3> DEFINE o == 0
    <3>1. o \in {0, 1} /\ h + o = h
      BY <1>4
    <3> HIDE DEF o, h, y
    <3>2. Inst.dst = h + o
      BY <2>2, <3>1
    <3>3. /\ vpc' = vpc + 1 /\ var_buf' = var_buf /\ vm' = vm /\ regs'[h + o] = y
          /\ \A i \in 0..h - 1 : regs'[i] = regs[i]
      BY <1>8, <2>3, <3>1, <3>2
    <3> QED BY <3>1, <3>3
  <2>5. Mid(p, k + 1, regs', var_buf')
    BY <1>9, <2>4 DEF Mid
  <2>6. k + 1 < Len(CodeOf(p))
    BY <1>2, <1>9
  <2> QED BY <2>4, <2>5, <2>6, Pauses
<1>10. ASSUME NEW z, WriteReg(z), Inst.dst = h + 1
       PROVE  /\ vpc' = vpc + 1 /\ var_buf' = var_buf /\ vm' = vm /\ regs'[h + 1] = z /\ regs'[h] = regs[h]
              /\ \A i \in 0..h - 1 : regs'[i] = regs[i]
  <2> DEFINE o == 1
  <2>1. o \in {0, 1} /\ Inst.dst = h + o
    BY <1>10
  <2> HIDE DEF o, h
  <2>2. /\ vpc' = vpc + 1 /\ var_buf' = var_buf /\ vm' = vm /\ regs'[h + o] = z
        /\ \A i \in 0..h - 1 : regs'[i] = regs[i]
        /\ \A i \in 0..U8 - 1 : i # h + o => regs'[i] = regs[i]
    BY <1>8, <1>10, <2>1
  <2> QED BY <1>5, <2>2 DEF o
<1>11. CASE k = 1
  <2>1. Copies(Inst, B)
    BY <1>2, <1>3, <1>11
  <2>2. Inst.op = "LOAD_LOC" /\ Inst.dst = h + 1 /\ Inst.src1 = c.arg
    BY <1>5, <1>7, <2>1, Simple DEF JumpOps
  <2>3. WriteReg(x)
    BY <2>2 DEF Ran, RunLoadLoc
  <2>4. regs[h] = y
    BY <1>11 DEF Ready, Mid
  <2>5. Mid(p, k + 1, regs', var_buf')
    BY <1>10, <1>11, <2>2, <2>3, <2>4 DEF Mid
  <2>6. k + 1 < Len(CodeOf(p))
    BY <1>2, <1>11
  <2> QED BY <1>10, <2>2, <2>3, <2>5, <2>6, Pauses
<1>12. CASE k = 2
  <2>1. Copies(Inst, K)
    BY <1>2, <1>3, <1>12
  <2>2. Inst.op = "ADD" /\ Inst.dst = h + 1 /\ Inst.src1 = h + 1 /\ Inst.src2 = h
    BY <1>5, <2>1, Simple DEF JumpOps
  <2>3. regs[h] = y /\ regs[h + 1] = x
    BY <1>12 DEF Ready, Mid
  <2>4. \/ vm_handles("ADD", x, y) /\ WriteReg(js_binary("ADD", x, y))
        \/ GiveUp /\ ~vm_handles("ADD", x, y)
    <3>1. Inst.op \in BinaryOps
      BY <2>2 DEF BinaryOps, ArithOps
    <3>2. regs[Inst.src1] = x /\ regs[Inst.src2] = y /\ Inst.src1 \in 0..U8 - 1 /\ Inst.src2 \in 0..U8 - 1
      BY <1>5, <2>2, <2>3
    <3> HIDE DEF x, y
    <3> QED BY <2>2, <3>1, <3>2, Operates
  <2>5. CASE WriteReg(js_binary("ADD", x, y))
    <3>1. Mid(p, k + 1, regs', var_buf')
      BY <1>10, <1>12, <2>2, <2>5 DEF Mid
    <3>2. k + 1 < Len(CodeOf(p))
      BY <1>2, <1>12
    <3> QED BY <1>10, <2>2, <2>5, <3>1, <3>2, Pauses
  <2>6. CASE GiveUp /\ ~vm_handles("ADD", x, y)
    <3>1. ~vm_handles("ADD", x, MkInt(1))
      <4> HIDE DEF x
      <4>1. y.tag = "int" /\ MkInt(1).tag = "int"
        BY DEF StepOf, MkInt
      <4> HIDE DEF y
      <4>2. \A z : vm_handles("ADD", x, z) <=> BothNumbers(x, z)
        BY DEF vm_handles, ArithOps, BitOps, CompareOps
      <4> QED BY <2>6, <4>1, <4>2 DEF BothNumbers, is_number
    <3>2. ~Machine!FastPath
      BY <3>1, FastPathIs
    <3> QED BY <2>6, <3>2, GivesUpAt
  <2> QED BY <2>4, <2>5, <2>6
<1>13. CASE k = 3
  <2>1. Copies(Inst, D)
    BY <1>2, <1>3, <1>13
  <2>2. Inst.op = "STORE_LOC" /\ Inst.dst = c.arg /\ Inst.src1 = h + 1
    BY <1>5, <1>7, <2>1, Simple DEF JumpOps
  <2>3. regs[h + 1] = js_binary("ADD", x, y)
    BY <1>13 DEF Ready, Mid
  <2>4. /\ vpc' = vpc + 1 /\ vm' = vm /\ regs' = regs
        /\ var_buf' = [var_buf EXCEPT ![c.arg] = js_binary("ADD", x, y)]
    BY <2>2, <2>3 DEF Ran, RunStoreLoc
  <2>5. k + 1 = Len(CodeOf(p))
    BY <1>2, <1>13
  <2>6. Machine!Continue(SourceStack) /\ There(vpc', regs', var_buf')
    BY <1>4, <2>4, <2>5, Stays
  <2>7. Machine!StepLocal
    <3>1. y = Machine!MkInt(IF Machine!Cur.op = "inc_loc" THEN 1 ELSE -1)
      BY SameMakers, MachineAt DEF StepOf
    <3> HIDE DEF y
    <3>2. var_buf' = [var_buf EXCEPT ![c.arg] = Machine!js_binary("ADD", @, y)]
      BY <1>7, <2>4, SameOperators
    <3> QED BY <2>6, <3>1, <3>2, MachineAt DEF Machine!StepLocal
  <2> QED BY <2>6, <2>7 DEF Explained, Machine!Step
<1> QED BY <1>3, <1>9, <1>11, <1>12, <1>13

(* The ends of a run.                                                      *)
LEMMA OfReturn ==
  ASSUME NEW p, NEW n, NEW k, Ready(p, n, k), Ran, UNCHANGED compiler_vars,
         bytecode[p + 1].op \in {"return", "return_undef"}
  PROVE  Explained
<1> DEFINE c == bytecode[p + 1]
           h == HeightAt[p]
           x == IF c.op = "return" THEN Machine!Top ELSE Machine!Undefined
<1>1. vm' = Machine!Returned(x) /\ vpc' = vpc /\ regs' = regs /\ var_buf' = var_buf
  <2>1. CASE c.op = "return"
    <3>1. CodeOf(p) = <<Reg("RETURN", h - 1, 0, 0)>>
      BY <2>1, ExpansionIs DEF CodeOf
    <3>2. Copies(Inst, Reg("RETURN", h - 1, 0, 0))
      BY <3>1, Single
    <3>3. h >= 1
      BY <2>1, Finds DEF FindsOperands, NeedsOne
    <3>4. AsU8(h - 1) = h - 1 /\ Machine!Top = regs[h - 1]
      BY <3>3, TopIs
    <3>5. Inst.op = "RETURN" /\ Inst.dst = h - 1
      BY <3>2, <3>4, Simple
    <3>6. RunReturn
      BY <3>5 DEF Ran
    <3> QED BY <2>1, <3>4, <3>5, <3>6 DEF RunReturn, VMReturned, Machine!Returned
  <2>2. CASE c.op = "return_undef"
    <3>1. CodeOf(p) = <<Reg("RETURN_UNDEF", 0, 0, 0)>>
      BY <2>2, ExpansionIs DEF CodeOf
    <3>2. Copies(Inst, Reg("RETURN_UNDEF", 0, 0, 0))
      BY <3>1, Single
    <3>3. Inst.op = "RETURN_UNDEF"
      BY <3>2, Simple
    <3>4. RunReturnUndef
      BY <3>3 DEF Ran
    <3> QED BY <2>2, <3>4, SameConstants DEF RunReturnUndef, VMReturned, Machine!Returned
  <2> QED BY <2>1, <2>2
<1> HIDE DEF x
<1>2. SourcePc' = p /\ SourceStack' = SourceStack /\ SourcePc = p
  <2>1. Compiled /\ vpc \in Nat /\ Holds(p, vpc)
    BY Reached
  <2>2. SourcePc = p /\ SourceStack = Slots(regs, HeightAt[p])
    BY <2>1, SourceNow
  <2>3. SourcePc' = p /\ SourceStack' = Slots(regs', HeightAt[p])
    BY <1>1, <2>1, SourceThen
  <2> QED BY <1>1, <2>2, <2>3
<1>3. Machine!Return
  BY <1>1, <1>2, MachineAt DEF Machine!Return, x, compiler_vars
<1>4. vm' # VMRunning
  BY <1>1 DEF Machine!Returned, VMRunning
<1> QED BY <1>3, <1>4 DEF Explained, Machine!Step

(* Where a jump goes.                                                      *)
LEMMA JumpGoes ==
  ASSUME NEW p, NEW n, NEW k, Ready(p, n, k), k = 0, bytecode[p + 1].op \in BranchOpcodes \cup {"goto"}
  PROVE  LET t == JumpTarget(p, bytecode[p + 1]) IN
         /\ t \in 0..Len(bytecode) /\ Mapped(t) /\ Inst.src1 = pc_to_inst_idx[t]
         /\ HeightAt[t] = HeightAt[p] + StackEffect(bytecode[p + 1])
         /\ Machine!JumpTarget(SourcePc, Machine!Cur) = t
<1> DEFINE t == JumpTarget(p, bytecode[p + 1])
<1>1. /\ CompilerInv /\ JumpsInv /\ CodeInv /\ RunTypeOK /\ result = "ok"
      /\ Len(reg_instructions) < U16 /\ JumpsKeepHeight
      /\ vpc = pc_to_inst_idx[p] + k
  BY DEF Ready, Compiled, InScope
<1>2. p \in 0..Len(bytecode) - 1 /\ Mapped(p) /\ pc_to_inst_idx[p] # None
  BY DEF Ready, Follows, Mapped
<1>3. vpc = pc_to_inst_idx[p]
  <2>1. pc_to_inst_idx[p] \in Nat
    BY NextInstruction DEF Ready
  <2> QED BY <1>1, <2>1
<1>4. t \in 0..Len(bytecode) /\ HeightAt[t] = HeightAt[p] + StackEffect(bytecode[p + 1])
  BY <1>1, <1>2 DEF JumpsKeepHeight
<1>5. Inst.src1 = pc_to_inst_idx[t]
  <2>1. JumpsReachTheirTargets
    BY <1>1, JumpsFound
  <2>2. reg_instructions[pc_to_inst_idx[p] + 1].src1
          = IF OutsideMap(t) THEN Len(reg_instructions) ELSE pc_to_inst_idx[t]
    BY <1>1, <1>2, <2>1 DEF JumpsReachTheirTargets
  <2>3. ~OutsideMap(t)
    BY <1>4 DEF OutsideMap
  <2> QED BY <1>3, <2>2, <2>3 DEF Inst
<1>6. Mapped(t)
  <2>1. AtInstruction
    BY Finds
  <2>2. Inst.src1 \in Nat
    BY <1>1, <2>1, CurrentInstruction
  <2> QED BY <1>5, <2>2 DEF Mapped, None
<1>7. Machine!JumpTarget(SourcePc, Machine!Cur) = t
  <2>1. Machine!Cur = bytecode[p + 1] /\ SourcePc = p
    BY MachineAt, Finds
  <2> QED BY <2>1 DEF Machine!JumpTarget, JumpTarget
<1> QED BY <1>4, <1>5, <1>6, <1>7

LEMMA OfGoto ==
  ASSUME NEW p, NEW n, NEW k, Ready(p, n, k), Ran, UNCHANGED compiler_vars,
         bytecode[p + 1].op = "goto"
  PROVE  Explained
<1> DEFINE c == bytecode[p + 1]
           h == HeightAt[p]
           t == JumpTarget(p, c)
<1>1. CodeOf(p) = <<Reg("JMP", 0, 0, 0)>>
  BY ExpansionIs DEF CodeOf
<1>2. k = 0 /\ Copies(Inst, Reg("JMP", 0, 0, 0))
  BY <1>1, Single
<1>3. Inst.op = "JMP"
  BY <1>2, Simple
<1>4. RunJump
  BY <1>3 DEF Ran
<1>5. t \in 0..Len(bytecode) /\ Mapped(t) /\ Inst.src1 = pc_to_inst_idx[t] /\ HeightAt[t] = h + StackEffect(c)
      /\ Machine!JumpTarget(SourcePc, Machine!Cur) = t
  BY <1>2, JumpGoes
<1>6. vpc' = pc_to_inst_idx[t] /\ regs' = regs /\ var_buf' = var_buf /\ vm' = vm
  BY <1>4, <1>5 DEF RunJump
<1>7. SourcePc' = t /\ SourceStack' = Slots(regs', HeightAt[t]) /\ There(vpc', regs', var_buf')
  <2>1. Compiled
    BY DEF Ready
  <2> HIDE DEF t
  <2> QED BY <1>5, <1>6, <2>1, Arrives
<1>8. HeightAt[t] = h /\ SourceStack = Slots(regs, h)
  <2>1. StackEffect(c) = 0
    BY DEF StackEffect, PrimitiveOpcodes
  <2>2. h \in Nat /\ SourceStack = Slots(regs, h)
    BY Finds
  <2> QED BY <1>5, <2>1, <2>2
<1>9. Machine!Jump
  BY <1>5, <1>6, <1>7, <1>8, MachineAt DEF Machine!Jump, compiler_vars
<1> QED BY <1>7, <1>9 DEF Explained, Machine!Step

LEMMA OfBranch ==
  ASSUME NEW p, NEW n, NEW k, Ready(p, n, k), Ran, UNCHANGED compiler_vars,
         bytecode[p + 1].op \in BranchOpcodes
  PROVE  Explained
<1> DEFINE c == bytecode[p + 1]
           h == HeightAt[p]
           t == JumpTarget(p, c)
           op == RegOpOf[c.op]
           x == regs[h - 1]
<1>1. CodeOf(p) = <<Reg(op, h - 1, 0, 0)>>
  BY ExpansionIs DEF CodeOf
<1>2. k = 0 /\ k + 1 = Len(CodeOf(p)) /\ Copies(Inst, Reg(op, h - 1, 0, 0))
  BY <1>1, Single
<1>3. op \in {"IF_FALSE", "IF_TRUE"} /\ (op = "IF_TRUE" <=> c.op = "if_true") /\ StackEffect(c) = -1
  <2>1. c.op \in {"if_false", "if_true"}
    BY DEF BranchOpcodes
  <2>2. StackEffect(c) = -1
    BY <2>1 DEF StackEffect, PrimitiveOpcodes
  <2>3. RegOpOf["if_false"] = "IF_FALSE" /\ RegOpOf["if_true"] = "IF_TRUE"
    BY DEF RegOpOf
  <2> QED BY <2>1, <2>2, <2>3
<1>4. h >= 1
  BY Finds DEF FindsOperands, NeedsOne
<1>5. h - 1 \in 0..U8 - 1 /\ AsU8(h - 1) = h - 1 /\ Machine!Top = x /\ x \in Value
  BY <1>4, TopIs
<1>6. Inst.op = op /\ Inst.dst = h - 1
  <2> HIDE DEF op, h
  <2> QED BY <1>2, <1>5, Simple
<1>7. t \in 0..Len(bytecode) /\ Mapped(t) /\ Inst.src1 = pc_to_inst_idx[t] /\ HeightAt[t] = h + StackEffect(c)
      /\ Machine!JumpTarget(SourcePc, Machine!Cur) = t
  BY <1>2, JumpGoes
<1>8. RunBranch \/ (GiveUp /\ x.tag # "bool")
  BY <1>3, <1>6 DEF Ran
<1>9. CASE GiveUp /\ x.tag # "bool"
  <2>1. ~Machine!FastPath
    BY <1>5, <1>9, FastPathIs
  <2> QED BY <1>9, <2>1, GivesUpAt
<1>10. CASE RunBranch
  <2> DEFINE Taken == (x.v # 0) = (c.op = "if_true")
  <2>1. /\ x.tag = "bool" /\ regs' = regs /\ var_buf' = var_buf /\ vm' = vm
        /\ Taken => vpc' = pc_to_inst_idx[t]
        /\ ~Taken => vpc' = vpc + 1
    <3>1. /\ regs[Inst.dst].tag = "bool" /\ regs' = regs /\ var_buf' = var_buf /\ vm' = vm
          /\ vpc' = IF (regs[Inst.dst].v # 0) = (Inst.op = "IF_TRUE") THEN Inst.src1 ELSE vpc + 1
      BY <1>10 DEF RunBranch
    <3> HIDE DEF op, t, x
    <3>2. regs[Inst.dst] = x /\ (Inst.op = "IF_TRUE") = (c.op = "if_true")
      BY <1>3, <1>6 DEF x
    <3> QED BY <1>7, <3>1, <3>2
  <2>2. Machine!ToBoolean(Machine!Top) <=> x.v # 0
    BY <1>5, <2>1 DEF Machine!ToBoolean
  <2>3. (Machine!ToBoolean(Machine!Top) = (Machine!Cur.op = "if_true")) <=> Taken
    <3>1. Machine!Cur.op = c.op
      BY MachineAt
    <3>2. Machine!ToBoolean(Machine!Top) \in BOOLEAN
      BY <1>5, <2>1 DEF Machine!ToBoolean
    <3> QED BY <2>2, <3>1, <3>2
  <2> HIDE DEF Taken
  <2>4. CASE ~Taken
    <3>1. 1 \in Nat /\ 1 <= h /\ StackEffect(c) = -1 /\ vpc' = vpc + 1
          /\ \A j \in 0..h - 1 - 1 : regs'[j] = regs[j]
      BY <1>3, <1>4, <2>1, <2>4
    <3>2. /\ Machine!Continue(SubSeq(SourceStack, 1, Len(SourceStack) - 1))
          /\ There(vpc', regs', var_buf')
      BY <1>2, <2>1, <3>1, Pops
    <3>3. Machine!Branch
      BY <2>1, <2>3, <2>4, <3>2, MachineAt, SameConstants
         DEF Machine!Branch, Machine!Continue, Machine!Popped
    <3> QED BY <3>2, <3>3 DEF Explained, Machine!Step
  <2>5. CASE Taken
    <3>1. SourcePc' = t /\ SourceStack' = Slots(regs', HeightAt[t]) /\ There(vpc', regs', var_buf')
      <4>1. Compiled
        BY DEF Ready
      <4> HIDE DEF t
      <4> QED BY <1>7, <2>1, <2>5, <4>1, Arrives
    <3>2. SourceStack' = SubSeq(SourceStack, 1, Len(SourceStack) - 1)
      <4>1. h \in Nat /\ SourceStack = Slots(regs, h)
        BY Finds
      <4>2. Len(SourceStack) = h /\ \A j \in 0..h - 1 : regs[j] \in Value
        BY StackIs
      <4>3. HeightAt[t] = h - 1
        <5>1. HeightAt[t] = h + -1
          BY <1>3, <1>7
        <5> HIDE DEF h, t
        <5> QED BY <4>1, <5>1
      <4> HIDE DEF h, t
      <4>4. 1 \in 0..h /\ \A j \in 0..(h - 1) - 1 : regs'[j] = regs[j]
        BY <1>4, <2>1, <4>1
      <4>5. Slots(regs', h - 1) = SubSeq(Slots(regs, h), 1, h - 1)
        BY <4>1, <4>2, <4>4, SlotsPop, Zenon
      <4> QED BY ONLY <3>1, <4>1, <4>2, <4>3, <4>5
    <3>3. Machine!Branch
      <4> HIDE DEF t
      <4> QED BY <1>7, <2>1, <2>3, <2>5, <3>1, <3>2, MachineAt, SameConstants
                 DEF Machine!Branch, Machine!Popped, compiler_vars
    <3> QED BY <3>1, <3>3 DEF Explained, Machine!Step
  <2> QED BY <2>4, <2>5
<1> QED BY <1>8, <1>9, <1>10

-----------------------------------------------------------------------------
(* Whatever the instruction.                                               *)
LEMMA OfAny ==
  ASSUME NEW p, NEW n, NEW k, Ready(p, n, k), Ran, UNCHANGED compiler_vars
  PROVE  Explained
<1> DEFINE o == bytecode[p + 1].op
<1>1. o \in Translated
  BY Finds DEF FindsOperands
<1>2. \/ o \in {"push_i32"} \cup PrimitiveOpcodes \/ o = "push_const" \/ o = "drop" \/ o = "dup"
      \/ o = "get_loc" \/ o = "get_loc0_loc1" \/ o = "put_loc" \/ o = "set_loc" \/ o = "add_loc"
      \/ o \in {"inc_loc", "dec_loc"} \/ o \in NeedsTwo \/ o \in {"return", "return_undef"}
      \/ o = "goto" \/ o \in BranchOpcodes
  <2> HIDE DEF o
  <2> QED BY <1>1 DEF Translated, Opcodes, NeedsOne
<1> QED BY <1>2, OfPushImmediate, OfPushConst, OfDrop, OfDup, OfGetLoc, OfGetLoc0Loc1, OfPutLoc, OfSetLoc,
           OfAddLoc, OfStepLoc, OfBinary, OfReturn, OfGoto, OfBranch

(* Every state the compiler leaves.                                        *)
CodeIsLaidOut == CompilerInv /\ JumpsInv /\ CodeInv /\ ExpandInv /\ RunTypeOK

(* A machine that has not begun.                                           *)
Begins ==
  vpc = 0 \/ result # "ok" =>
    /\ SourcePc = 0 /\ SourceStack = <<>>
    /\ result = "ok" => There(vpc, regs, var_buf)

(* It holds of every code that is laid out.                                *)
LEMMA BeginsHolds == CodeIsLaidOut => Begins
<1> SUFFICES ASSUME CodeIsLaidOut, vpc = 0 \/ result # "ok"
             PROVE  /\ SourcePc = 0 /\ SourceStack = <<>>
                    /\ result = "ok" => There(vpc, regs, var_buf)
  BY DEF Begins
<1>1. bytecode \in Seq(Cell) /\ Len(bytecode) \in Nat
  BY LenProperties DEF CodeIsLaidOut, CompilerInv, CompilerTypeOK
<1>2. HeightAt[0] = 0
  BY <1>1, HeightsEquation DEF HeightAt
<1>3. SourcePc = 0 /\ (result = "ok" => There(vpc, regs, var_buf))
  <2>1. CASE result # "ok"
    BY <2>1 DEF SourcePc
  <2>2. CASE result = "ok"
    <3>1. Compiled /\ vpc = 0
      BY <2>2 DEF CodeIsLaidOut, Compiled
    <3>2. pc_to_inst_idx[0] = 0
      <4>1. pc = Len(bytecode) /\ NextIndex(0) = 0 /\ pc_to_inst_idx[Len(bytecode)] = Len(reg_instructions)
        BY <3>1, Layout DEF Compiled, ExpandInv
      <4> QED BY <4>1 DEF NextIndex
    <3>3. 0 \in 0..Len(bytecode) /\ Mapped(0)
      BY <1>1, <3>2 DEF Mapped, None
    <3>4. Holds(0, vpc) /\ vpc \in Nat
      BY <3>1, <3>2, <3>3, HoldsFirst
    <3>5. SourcePc = 0
      BY <3>1, <3>4, SourceNow
    <3>6. vpc - pc_to_inst_idx[0] = 0
      BY <3>1, <3>2
    <3>7. Mid(0, 0, regs, var_buf)
      BY DEF Mid
    <3> QED BY <3>4, <3>5, <3>6, <3>7 DEF There
  <2> QED BY <2>1, <2>2
<1>4. SourceStack = <<>>
  BY <1>2, <1>3 DEF SourceStack
<1> QED BY <1>3, <1>4

(* Where the VM is, when its registers are enough.                         *)
WhereInv ==
  /\ result # "ok" => vpc = 0
  /\ result = "ok" /\ FitsRegisters /\ vm = VMRunning => There(vpc, regs, var_buf)

(* Code that stays as it is.                                               *)
LEMMA CodeStays ==
  ASSUME UNCHANGED compiler_vars
  PROVE  /\ FitsRegisters' = FitsRegisters /\ result' = result /\ bytecode' = bytecode
         /\ There(vpc, regs, var_buf)' <=> There(vpc', regs', var_buf')
<1>1. /\ bytecode' = bytecode /\ pc_to_inst_idx' = pc_to_inst_idx /\ result' = result
  BY DEF compiler_vars
<1>2. HeightAt' = HeightAt
  BY <1>1 DEF HeightAt
<1>3. FitsRegisters' = FitsRegisters
  BY <1>1, <1>2 DEF FitsRegisters, Mapped
<1>4. There(vpc, regs, var_buf)' <=> There(vpc', regs', var_buf')
  BY <1>1, <1>2 DEF There, Holds, Mid, Mapped, CodeOf
<1> QED BY <1>1, <1>3, <1>4

(* A step of any tier, in an expansion.                                    *)
LEMMA RanIsExplained ==
  ASSUME CodeIsLaidOut, IntsFit, InScope, FitsRegisters, WhereInv, Ran, UNCHANGED compiler_vars,
         AtInstruction
  PROVE  Explained
<1>1. result = "ok" /\ vm = VMRunning /\ vpc < Len(reg_instructions)
  BY DEF AtInstruction
<1>2. Compiled /\ RunTypeOK
  BY <1>1 DEF CodeIsLaidOut, Compiled
<1>3. PICK q : Holds(q, vpc) /\ (q < Len(bytecode) => Mid(q, vpc - pc_to_inst_idx[q], regs, var_buf))
  BY <1>1 DEF WhereInv, There
<1>4. q \in 0..Len(bytecode) /\ Mapped(q) /\ pc_to_inst_idx[q] <= vpc /\ Len(bytecode) \in Nat
      /\ vpc \in Nat
  BY <1>2, <1>3, Layout DEF Holds, RunTypeOK
<1>5. CASE q < Len(bytecode)
  <2> DEFINE n == q + bytecode[q + 1].size
             k == vpc - pc_to_inst_idx[q]
  <2>1. Follows(q, n)
    BY <1>4, <1>5 DEF Follows
  <2>2. k \in 0..Len(CodeOf(q)) - 1 /\ vpc = pc_to_inst_idx[q] + k
    <3> DEFINE i == pc_to_inst_idx[q]
               m == Len(CodeOf(q))
    <3>1. i \in Nat /\ m \in 1..4
      BY <1>2, <2>1, NextInstruction
    <3>2. i <= vpc /\ vpc < i + m
      BY <1>3, <1>4, <1>5 DEF Holds
    <3> HIDE DEF i, m
    <3>3. vpc - i \in 0..m - 1 /\ vpc = i + (vpc - i)
      BY <1>4, <3>1, <3>2
    <3> QED BY <3>3 DEF i, m
  <2>3. Mid(q, k, regs, var_buf)
    BY <1>3, <1>5
  <2> HIDE DEF n, k
  <2>4. Ready(q, n, k)
    BY <1>1, <1>2, <2>1, <2>2, <2>3 DEF Ready
  <2> QED BY <2>4, OfAny
<1>6. CASE ~(q < Len(bytecode))
  <2>1. Len(reg_instructions) <= vpc /\ Len(reg_instructions) \in Nat
    BY <1>2, <1>4, <1>6, Layout
  <2> QED BY <1>1, <1>4, <2>1
<1> QED BY <1>5, <1>6

(* A step of the VM, in an expansion or at the end of the code.            *)
LEMMA StepIsExplained ==
  ASSUME CodeIsLaidOut, IntsFit, InScope, FitsRegisters, WhereInv, VMStep, UNCHANGED compiler_vars
  PROVE  Explained
<1>1. result = "ok" /\ vm = VMRunning
  BY DEF VMStep, VMPushImmediate, VMPushConst, VMDrop, VMMov, VMLoadLoc, VMStoreLoc, VMBinary, VMJump,
         VMBranch, VMReturn, VMReturnUndef, VMBail, VMPanic, Unhandled, Executing, AtInstruction
<1>2. Compiled /\ RunTypeOK
  BY <1>1 DEF CodeIsLaidOut, Compiled
<1>3. PICK q : Holds(q, vpc) /\ (q < Len(bytecode) => Mid(q, vpc - pc_to_inst_idx[q], regs, var_buf))
  BY <1>1 DEF WhereInv, There
<1>4. q \in 0..Len(bytecode) /\ Mapped(q) /\ pc_to_inst_idx[q] <= vpc /\ Len(bytecode) \in Nat
      /\ vpc \in Nat
  BY <1>2, <1>3, Layout DEF Holds, RunTypeOK
<1>5. CASE AtInstruction
  <2>1. Ran
    BY <1>2, <1>5, VMRan DEF Compiled
  <2> QED BY <1>5, <2>1, RanIsExplained
<1>6. CASE ~AtInstruction
  <2>1. GiveUp /\ ~(vpc < Len(reg_instructions))
    BY <1>1, <1>6 DEF VMStep, VMPushImmediate, VMPushConst, VMDrop, VMMov, VMLoadLoc, VMStoreLoc, VMBinary, VMJump,
         VMBranch, VMReturn, VMReturnUndef, VMPanic, VMBail, GiveUp, Executing, AtInstruction
  <2>2. ~(q < Len(bytecode))
    <3> SUFFICES ASSUME q < Len(bytecode) PROVE FALSE
      OBVIOUS
    <3> DEFINE n == q + bytecode[q + 1].size
               i == pc_to_inst_idx[q]
               m == Len(CodeOf(q))
               N == Len(reg_instructions)
    <3>1. Follows(q, n)
      BY <1>4 DEF Follows
    <3>2. i \in Nat /\ m \in 1..4 /\ pc_to_inst_idx[n] = i + m /\ pc_to_inst_idx[n] <= N
      BY <1>2, <3>1, NextInstruction
    <3>3. vpc < i + m
      BY <1>3 DEF Holds
    <3>4. N \in Nat
      BY <1>2, Layout
    <3>5. i + m <= N
      BY <3>2
    <3> HIDE DEF i, m, N
    <3>6. vpc < N
      BY <1>4, <3>2, <3>3, <3>4, <3>5
    <3> QED BY <2>1, <3>6 DEF N
  <2>3. SourcePc = q /\ q = Len(bytecode)
    BY <1>2, <1>3, <1>4, <2>2, SourceNow
  <2>4. ~Machine!FastPath
    BY <1>4, <2>3 DEF Machine!FastPath
  <2> QED BY <1>1, <1>2, <1>3, <2>1, <2>4, GivesUp
<1> QED BY <1>5, <1>6

(* While the code is compiled the machine waits at its start.              *)
LEMMA CompilingWaits ==
  ASSUME CompilerNext
  PROVE  bytecode' = bytecode /\ result # "ok"
BY DEF CompilerNext, PushI32, PushConst, PushPrimitive, Drop, Dup, GetLoc, GetLoc0Loc1, PutLoc, SetLoc, AddLoc,
       IncDecLoc, BinaryOp, ReturnTop, ReturnUndef, Goto, IfJump, Reject, EndScan, PatchBeyondEnd, PatchJump,
       PatchFails, Finish, Emit, PatchWith, Decode, Scanning

Simulates == FitsRegisters => Machine!Step \/ Machine!HandOver

(* Every step.                                                             *)
LEMMA NextSimulates ==
  ASSUME CodeIsLaidOut, IntsFit, InScope, WhereInv, Begins, Begins', [Next]_vm_vars
  PROVE  WhereInv' /\ [Simulates]_(Machine!machine_vars)
<1>1. CASE CompilerNext /\ UNCHANGED run_vars
  <2>1. bytecode' = bytecode /\ result # "ok"
    BY <1>1, CompilingWaits
  <2>2. vpc = 0 /\ vpc' = 0 /\ UNCHANGED <<regs, var_buf, vm>>
    BY <1>1, <2>1 DEF WhereInv, run_vars
  <2>3. SourcePc = 0 /\ SourceStack = <<>>
    BY <2>2 DEF Begins
  <2>4. SourcePc' = 0 /\ SourceStack' = <<>> /\ (result' = "ok" => There(vpc, regs, var_buf)')
    BY <2>2 DEF Begins
  <2>5. UNCHANGED Machine!machine_vars
    BY <2>1, <2>2, <2>3, <2>4 DEF Machine!machine_vars
  <2>6. WhereInv'
    BY <2>2, <2>4 DEF WhereInv
  <2> QED BY <2>5, <2>6
<1>2. CASE VMStep /\ UNCHANGED compiler_vars
  <2>1. FitsRegisters' = FitsRegisters /\ result' = result
        /\ (There(vpc, regs, var_buf)' <=> There(vpc', regs', var_buf'))
    BY <1>2, CodeStays
  <2>2. result = "ok"
    BY <1>2 DEF VMStep, VMPushImmediate, VMPushConst, VMDrop, VMMov, VMLoadLoc, VMStoreLoc, VMBinary, VMJump,
         VMBranch, VMReturn, VMReturnUndef, VMBail, VMPanic, Unhandled, Executing, AtInstruction
  <2>3. CASE FitsRegisters
    <3>1. Explained
      BY <1>2, <2>3, StepIsExplained
    <3>2. vm' = VMRunning => There(vpc, regs, var_buf)'
      BY <2>1, <3>1 DEF Explained
    <3>3. WhereInv'
      BY <2>1, <2>2, <3>2 DEF WhereInv, VMRunning
    <3> QED BY <3>1, <3>3 DEF Explained, Simulates
  <2>4. CASE ~FitsRegisters
    BY <2>1, <2>2, <2>4 DEF WhereInv, Simulates
  <2> QED BY <2>3, <2>4
<1>3. CASE UNCHANGED vm_vars
  <2>1. UNCHANGED compiler_vars /\ UNCHANGED <<vpc, regs, var_buf, vm>>
    BY <1>3 DEF vm_vars, run_vars
  <2>2. FitsRegisters' = FitsRegisters /\ result' = result /\ bytecode' = bytecode
        /\ (There(vpc, regs, var_buf)' <=> There(vpc', regs', var_buf'))
    BY <2>1, CodeStays
  <2>3. WhereInv'
    BY <2>1, <2>2 DEF WhereInv, VMRunning
  <2>4. SourcePc' = SourcePc
    BY <2>1 DEF SourcePc, Mapped, compiler_vars
  <2>5. SourceStack' = SourceStack
    BY <2>1, <2>4 DEF SourceStack, HeightAt, compiler_vars
  <2> QED BY <2>1, <2>2, <2>3, <2>4, <2>5 DEF Machine!machine_vars
<1> QED BY <1>1, <1>2, <1>3 DEF Next

(* For every bytecode, constant pool and number of registers, as long as   *)
(* the code is in scope: each step of the VM is a step of the stack machine *)
(* or leaves it where it is, until the VM ends or hands the call over where *)
(* the machine may, unless the function needs more registers than there    *)
(* are.                                                                    *)
THEOREM VMImplementsStackMachine == Spec /\ []InScope => ImplementsStackMachine
<1>1. Init => WhereInv
  <2> SUFFICES ASSUME Init PROVE WhereInv
    OBVIOUS
  <2>1. result = "scanning" /\ vpc = 0
    BY DEF Init, CompilerInit, VMInit
  <2> QED BY <2>1 DEF WhereInv
<1>2. (Init /\ Begins) => Machine!Start
  <2> SUFFICES ASSUME Init, Begins PROVE Machine!Start
    OBVIOUS
  <2>1. vpc = 0 /\ vm = VMRunning
    BY DEF Init, VMInit
  <2>2. vm = Machine!Running
    BY <2>1, SameConstants DEF VMRunning, Machine!Running
  <2> QED BY <2>1, <2>2 DEF Begins, Machine!Start
<1>3. CodeIsLaidOut <=> CompilerInv /\ JumpsInv /\ CodeInv /\ ExpandInv /\ RunTypeOK
  BY DEF CodeIsLaidOut
<1>4. CodeIsLaidOut /\ IntsFit /\ InScope /\ WhereInv /\ Begins /\ Begins' /\ [Next]_vm_vars
        => WhereInv' /\ [Simulates]_(Machine!machine_vars)
  BY NextSimulates
<1>5. Simulates <=> (FitsRegisters => Machine!Step \/ Machine!HandOver)
  BY DEF Simulates
<1> QED
  BY <1>1, <1>2, <1>3, <1>4, <1>5, BeginsHolds, CompilerInside, CompilerInvHolds, JumpsInvHolds, CodeInvHolds,
     ExpandInvHolds, RunTypeHolds, IntsFitHolds, PTL DEF Spec, ImplementsStackMachine

-----------------------------------------------------------------------------
(* The same of the machines a call is made of: the comparison run ...      *)
LEMMA ReferenceSameConstants ==
  /\ Reference!U16 = U16 /\ Reference!U32 = U32 /\ Reference!Int32 = Int32 /\ Reference!MaxInt32 = MaxInt32
  /\ Reference!RegOpOf = RegOpOf /\ Reference!NeedsTwo = NeedsTwo /\ Reference!BranchOpcodes = BranchOpcodes
  /\ Reference!PrimitiveOpcodes = PrimitiveOpcodes
  /\ Reference!ArithOps = ArithOps /\ Reference!BitOps = BitOps /\ Reference!CompareOps = CompareOps
  /\ Reference!Undefined = Undefined /\ Reference!Null = Null /\ Reference!NaN = NaN
  /\ Reference!NegZero = NegZero /\ Reference!Uninitialized = Uninitialized
<1>1. Reference!U16 = U16
  BY DEF U16, Reference!U16
<1>2. Reference!U32 = U32
  BY <1>1 DEF U32, Reference!U32
<1>3. Reference!MaxInt32 = MaxInt32 /\ Reference!MinInt32 = MinInt32
  BY <1>2 DEF MaxInt32, Reference!MaxInt32, MinInt32, Reference!MinInt32
<1>4. Reference!Int32 = Int32
  BY <1>3 DEF Int32, Reference!Int32
<1>5. Reference!RegOpOf = RegOpOf
  BY Zenon DEF RegOpOf, Reference!RegOpOf
<1>6. /\ Reference!NeedsTwo = NeedsTwo /\ Reference!BranchOpcodes = BranchOpcodes
      /\ Reference!PrimitiveOpcodes = PrimitiveOpcodes
  BY DEF NeedsTwo, Reference!NeedsTwo, BranchOpcodes, Reference!BranchOpcodes, PrimitiveOpcodes,
         Reference!PrimitiveOpcodes, BinaryOpcodes, Reference!BinaryOpcodes, ComparisonOpcodes,
         Reference!ComparisonOpcodes
<1>7. Reference!ArithOps = ArithOps /\ Reference!BitOps = BitOps /\ Reference!CompareOps = CompareOps
  BY DEF ArithOps, Reference!ArithOps, BitOps, Reference!BitOps, CompareOps, Reference!CompareOps
<1>8. /\ Reference!Undefined = Undefined /\ Reference!Null = Null /\ Reference!NaN = NaN
      /\ Reference!NegZero = NegZero /\ Reference!Uninitialized = Uninitialized
  BY DEF Undefined, Reference!Undefined, Null, Reference!Null, NaN, Reference!NaN, NegZero, Reference!NegZero,
         Uninitialized, Reference!Uninitialized
<1> QED BY <1>1, <1>2, <1>3, <1>4, <1>5, <1>6, <1>7, <1>8

LEMMA ReferenceSameMakers ==
  /\ \A n : Reference!MkInt(n) = MkInt(n) /\ Reference!MkFloat(n) = MkFloat(n)
  /\ \A x : /\ Reference!is_number(x) <=> is_number(x)
            /\ Reference!Negative(x) <=> Negative(x)
            /\ Reference!js_to_int32(x) = js_to_int32(x) /\ Reference!js_to_uint32(x) = js_to_uint32(x)
  /\ \A x, y : /\ Reference!BothInt(x, y) <=> BothInt(x, y)
               /\ Reference!BothNumbers(x, y) <=> BothNumbers(x, y)
  /\ \A n : Reference!AbsVal(n) = AbsVal(n) /\ Reference!WrapInt32(n) = WrapInt32(n)
  /\ \A a, b : Reference!TruncRem(a, b) = TruncRem(a, b)
  /\ \A n : Reference!RoundF64(n) = RoundF64(n)
  /\ \A op, a, b : Reference!BitwiseOp(op, a, b) = BitwiseOp(op, a, b)
<1>1. \A n : Reference!MkInt(n) = MkInt(n) /\ Reference!MkFloat(n) = MkFloat(n)
  BY DEF MkInt, Reference!MkInt, MkFloat, Reference!MkFloat
<1>2. \A x : Reference!is_number(x) <=> is_number(x)
  BY DEF is_number, Reference!is_number
<1>3. \A x : Reference!Negative(x) <=> Negative(x)
  BY DEF Negative, Reference!Negative
<1>4. \A n : Reference!WrapInt32(n) = WrapInt32(n)
  BY ReferenceSameConstants DEF WrapInt32, Reference!WrapInt32
<1>5. \A x : Reference!js_to_int32(x) = js_to_int32(x) /\ Reference!js_to_uint32(x) = js_to_uint32(x)
  BY <1>4, ReferenceSameConstants DEF js_to_int32, Reference!js_to_int32, js_to_uint32, Reference!js_to_uint32
<1>6. \A x, y : Reference!BothInt(x, y) <=> BothInt(x, y)
  BY DEF BothInt, Reference!BothInt
<1>7. \A x, y : Reference!BothNumbers(x, y) <=> BothNumbers(x, y)
  BY <1>2 DEF BothNumbers, Reference!BothNumbers
<1>8. \A n : Reference!AbsVal(n) = AbsVal(n)
  BY Zenon DEF AbsVal, Reference!AbsVal
<1>9. \A a, b : Reference!TruncRem(a, b) = TruncRem(a, b)
  BY <1>8, Zenon DEF TruncRem, Reference!TruncRem
<1>10. \A n : Reference!RoundF64(n) = RoundF64(n)
  BY Zenon DEF RoundF64, Reference!RoundF64, AbsVal, Reference!AbsVal
<1>11. \A op, a, b : Reference!BitwiseOp(op, a, b) = BitwiseOp(op, a, b)
  BY Zenon DEF BitwiseOp, Reference!BitwiseOp
<1> QED BY <1>1, <1>2, <1>3, <1>4, <1>5, <1>6, <1>7, <1>8, <1>9, <1>10, <1>11

LEMMA ReferenceSameArithmetic ==
  /\ \A op, x, y : Reference!F64Op(op, x, y) = F64Op(op, x, y)
  /\ \A op, x, y : Reference!Int32Op(op, x, y) = Int32Op(op, x, y)
<1>1. \A n, negative : Reference!F64(n, negative) = F64(n, negative)
  BY ReferenceSameMakers, ReferenceSameConstants, Zenon DEF F64, Reference!F64
<1>2. ASSUME NEW op, NEW x, NEW y
      PROVE  Reference!F64Op(op, x, y) = F64Op(op, x, y)
  <2>1. Reference!Negative(x) = Negative(x) /\ Reference!Negative(y) = Negative(y)
    BY ReferenceSameMakers DEF Negative, Reference!Negative
  <2> QED BY <1>1, <2>1, ReferenceSameMakers, ReferenceSameConstants, Zenon DEF F64Op, Reference!F64Op
<1>3. \A n : Reference!Uint32ToValue(n) = Uint32ToValue(n)
  BY ReferenceSameMakers, ReferenceSameConstants, Zenon DEF Uint32ToValue, Reference!Uint32ToValue
<1>4. ASSUME NEW op, NEW x, NEW y
      PROVE  Reference!Int32Op(op, x, y) = Int32Op(op, x, y)
  BY <1>3, ReferenceSameMakers, ReferenceSameConstants, Zenon DEF Int32Op, Reference!Int32Op
<1> QED BY <1>2, <1>4

LEMMA ReferenceSameOperators ==
  /\ \A op, x, y : Reference!vm_handles(op, x, y) <=> vm_handles(op, x, y)
  /\ \A op, x, y : Reference!js_binary(op, x, y) = js_binary(op, x, y)
<1>1. ASSUME NEW op, NEW x, NEW y
      PROVE  Reference!vm_handles(op, x, y) <=> vm_handles(op, x, y)
  BY ReferenceSameMakers, ReferenceSameConstants DEF vm_handles, Reference!vm_handles
<1>2. ASSUME NEW op, NEW x, NEW y
      PROVE  Reference!js_binary(op, x, y) = js_binary(op, x, y)
  <2> DEFINE a == ToNumber(x)
             b == ToNumber(y)
             r == F64Op(op, a, b)
  <2>1. /\ Reference!ToNumber(x) = a /\ Reference!ToNumber(y) = b
        /\ Reference!F64Op(op, a, b) = r /\ Reference!Int32Op(op, a, b) = Int32Op(op, a, b)
    BY ReferenceSameMakers, ReferenceSameConstants, ReferenceSameArithmetic, Zenon
       DEF ToNumber, Reference!ToNumber, is_number, Reference!is_number
  <2> HIDE DEF a, b, r
  <2>2. Reference!SameContent(x, y) = SameContent(x, y)
    BY Zenon DEF SameContent, Reference!SameContent
  <2>3. Reference!js_binary(op, x, y)
          = CASE op = "STRICT_EQ"   -> Reference!MkBool(IF BothNumbers(x, y)
                                         THEN ~(a.tag = "nan" \/ b.tag = "nan") /\ x.v = y.v
                                         ELSE SameContent(x, y))
              [] op \in CompareOps  -> Reference!MkBool(~(a.tag = "nan" \/ b.tag = "nan")
                                                       /\ Reference!Compare(op, a.v, b.v))
              [] op \in BitOps      -> Int32Op(op, a, b)
              [] OTHER              -> IF BothInt(a, b) /\ r.tag = "float64" /\ r.v \in Int32
                                         THEN MkInt(r.v) ELSE r
    BY <2>1, <2>2, ReferenceSameMakers, ReferenceSameConstants, Zenon
       DEF Reference!js_binary, BothNumbers, Reference!BothNumbers, is_number, Reference!is_number,
           BothInt, Reference!BothInt
  <2>4. js_binary(op, x, y)
          = CASE op = "STRICT_EQ"   -> MkBool(IF BothNumbers(x, y)
                                         THEN ~(a.tag = "nan" \/ b.tag = "nan") /\ x.v = y.v
                                         ELSE SameContent(x, y))
              [] op \in CompareOps  -> MkBool(~(a.tag = "nan" \/ b.tag = "nan") /\ Compare(op, a.v, b.v))
              [] op \in BitOps      -> Int32Op(op, a, b)
              [] OTHER              -> IF BothInt(a, b) /\ r.tag = "float64" /\ r.v \in Int32
                                         THEN MkInt(r.v) ELSE r
    BY Zenon DEF js_binary, a, b, r
  <2> QED BY <2>3, <2>4, Zenon DEF MkBool, Reference!MkBool, Compare, Reference!Compare
<1> QED BY <1>1, <1>2

(* ... and the C interpreter after the tiers.                              *)
LEMMA CSameConstants ==
  /\ C!U16 = U16 /\ C!U32 = U32 /\ C!Int32 = Int32 /\ C!MaxInt32 = MaxInt32
  /\ C!RegOpOf = RegOpOf /\ C!NeedsTwo = NeedsTwo /\ C!BranchOpcodes = BranchOpcodes
  /\ C!PrimitiveOpcodes = PrimitiveOpcodes
  /\ C!ArithOps = ArithOps /\ C!BitOps = BitOps /\ C!CompareOps = CompareOps
  /\ C!Undefined = Undefined /\ C!Null = Null /\ C!NaN = NaN
  /\ C!NegZero = NegZero /\ C!Uninitialized = Uninitialized
<1>1. C!U16 = U16
  BY DEF U16, C!U16
<1>2. C!U32 = U32
  BY <1>1 DEF U32, C!U32
<1>3. C!MaxInt32 = MaxInt32 /\ C!MinInt32 = MinInt32
  BY <1>2 DEF MaxInt32, C!MaxInt32, MinInt32, C!MinInt32
<1>4. C!Int32 = Int32
  BY <1>3 DEF Int32, C!Int32
<1>5. C!RegOpOf = RegOpOf
  BY Zenon DEF RegOpOf, C!RegOpOf
<1>6. /\ C!NeedsTwo = NeedsTwo /\ C!BranchOpcodes = BranchOpcodes
      /\ C!PrimitiveOpcodes = PrimitiveOpcodes
  BY DEF NeedsTwo, C!NeedsTwo, BranchOpcodes, C!BranchOpcodes, PrimitiveOpcodes,
         C!PrimitiveOpcodes, BinaryOpcodes, C!BinaryOpcodes, ComparisonOpcodes,
         C!ComparisonOpcodes
<1>7. C!ArithOps = ArithOps /\ C!BitOps = BitOps /\ C!CompareOps = CompareOps
  BY DEF ArithOps, C!ArithOps, BitOps, C!BitOps, CompareOps, C!CompareOps
<1>8. /\ C!Undefined = Undefined /\ C!Null = Null /\ C!NaN = NaN
      /\ C!NegZero = NegZero /\ C!Uninitialized = Uninitialized
  BY DEF Undefined, C!Undefined, Null, C!Null, NaN, C!NaN, NegZero, C!NegZero,
         Uninitialized, C!Uninitialized
<1> QED BY <1>1, <1>2, <1>3, <1>4, <1>5, <1>6, <1>7, <1>8

LEMMA CSameMakers ==
  /\ \A n : C!MkInt(n) = MkInt(n) /\ C!MkFloat(n) = MkFloat(n)
  /\ \A x : /\ C!is_number(x) <=> is_number(x)
            /\ C!Negative(x) <=> Negative(x)
            /\ C!js_to_int32(x) = js_to_int32(x) /\ C!js_to_uint32(x) = js_to_uint32(x)
  /\ \A x, y : /\ C!BothInt(x, y) <=> BothInt(x, y)
               /\ C!BothNumbers(x, y) <=> BothNumbers(x, y)
  /\ \A n : C!AbsVal(n) = AbsVal(n) /\ C!WrapInt32(n) = WrapInt32(n)
  /\ \A a, b : C!TruncRem(a, b) = TruncRem(a, b)
  /\ \A n : C!RoundF64(n) = RoundF64(n)
  /\ \A op, a, b : C!BitwiseOp(op, a, b) = BitwiseOp(op, a, b)
<1>1. \A n : C!MkInt(n) = MkInt(n) /\ C!MkFloat(n) = MkFloat(n)
  BY DEF MkInt, C!MkInt, MkFloat, C!MkFloat
<1>2. \A x : C!is_number(x) <=> is_number(x)
  BY DEF is_number, C!is_number
<1>3. \A x : C!Negative(x) <=> Negative(x)
  BY DEF Negative, C!Negative
<1>4. \A n : C!WrapInt32(n) = WrapInt32(n)
  BY CSameConstants DEF WrapInt32, C!WrapInt32
<1>5. \A x : C!js_to_int32(x) = js_to_int32(x) /\ C!js_to_uint32(x) = js_to_uint32(x)
  BY <1>4, CSameConstants DEF js_to_int32, C!js_to_int32, js_to_uint32, C!js_to_uint32
<1>6. \A x, y : C!BothInt(x, y) <=> BothInt(x, y)
  BY DEF BothInt, C!BothInt
<1>7. \A x, y : C!BothNumbers(x, y) <=> BothNumbers(x, y)
  BY <1>2 DEF BothNumbers, C!BothNumbers
<1>8. \A n : C!AbsVal(n) = AbsVal(n)
  BY Zenon DEF AbsVal, C!AbsVal
<1>9. \A a, b : C!TruncRem(a, b) = TruncRem(a, b)
  BY <1>8, Zenon DEF TruncRem, C!TruncRem
<1>10. \A n : C!RoundF64(n) = RoundF64(n)
  BY Zenon DEF RoundF64, C!RoundF64, AbsVal, C!AbsVal
<1>11. \A op, a, b : C!BitwiseOp(op, a, b) = BitwiseOp(op, a, b)
  BY Zenon DEF BitwiseOp, C!BitwiseOp
<1> QED BY <1>1, <1>2, <1>3, <1>4, <1>5, <1>6, <1>7, <1>8, <1>9, <1>10, <1>11

LEMMA CSameArithmetic ==
  /\ \A op, x, y : C!F64Op(op, x, y) = F64Op(op, x, y)
  /\ \A op, x, y : C!Int32Op(op, x, y) = Int32Op(op, x, y)
<1>1. \A n, negative : C!F64(n, negative) = F64(n, negative)
  BY CSameMakers, CSameConstants, Zenon DEF F64, C!F64
<1>2. ASSUME NEW op, NEW x, NEW y
      PROVE  C!F64Op(op, x, y) = F64Op(op, x, y)
  <2>1. C!Negative(x) = Negative(x) /\ C!Negative(y) = Negative(y)
    BY CSameMakers DEF Negative, C!Negative
  <2> QED BY <1>1, <2>1, CSameMakers, CSameConstants, Zenon DEF F64Op, C!F64Op
<1>3. \A n : C!Uint32ToValue(n) = Uint32ToValue(n)
  BY CSameMakers, CSameConstants, Zenon DEF Uint32ToValue, C!Uint32ToValue
<1>4. ASSUME NEW op, NEW x, NEW y
      PROVE  C!Int32Op(op, x, y) = Int32Op(op, x, y)
  BY <1>3, CSameMakers, CSameConstants, Zenon DEF Int32Op, C!Int32Op
<1> QED BY <1>2, <1>4

LEMMA CSameOperators ==
  /\ \A op, x, y : C!vm_handles(op, x, y) <=> vm_handles(op, x, y)
  /\ \A op, x, y : C!js_binary(op, x, y) = js_binary(op, x, y)
<1>1. ASSUME NEW op, NEW x, NEW y
      PROVE  C!vm_handles(op, x, y) <=> vm_handles(op, x, y)
  BY CSameMakers, CSameConstants DEF vm_handles, C!vm_handles
<1>2. ASSUME NEW op, NEW x, NEW y
      PROVE  C!js_binary(op, x, y) = js_binary(op, x, y)
  <2> DEFINE a == ToNumber(x)
             b == ToNumber(y)
             r == F64Op(op, a, b)
  <2>1. /\ C!ToNumber(x) = a /\ C!ToNumber(y) = b
        /\ C!F64Op(op, a, b) = r /\ C!Int32Op(op, a, b) = Int32Op(op, a, b)
    BY CSameMakers, CSameConstants, CSameArithmetic, Zenon
       DEF ToNumber, C!ToNumber, is_number, C!is_number
  <2> HIDE DEF a, b, r
  <2>2. C!SameContent(x, y) = SameContent(x, y)
    BY Zenon DEF SameContent, C!SameContent
  <2>3. C!js_binary(op, x, y)
          = CASE op = "STRICT_EQ"   -> C!MkBool(IF BothNumbers(x, y)
                                         THEN ~(a.tag = "nan" \/ b.tag = "nan") /\ x.v = y.v
                                         ELSE SameContent(x, y))
              [] op \in CompareOps  -> C!MkBool(~(a.tag = "nan" \/ b.tag = "nan")
                                                       /\ C!Compare(op, a.v, b.v))
              [] op \in BitOps      -> Int32Op(op, a, b)
              [] OTHER              -> IF BothInt(a, b) /\ r.tag = "float64" /\ r.v \in Int32
                                         THEN MkInt(r.v) ELSE r
    BY <2>1, <2>2, CSameMakers, CSameConstants, Zenon
       DEF C!js_binary, BothNumbers, C!BothNumbers, is_number, C!is_number,
           BothInt, C!BothInt
  <2>4. js_binary(op, x, y)
          = CASE op = "STRICT_EQ"   -> MkBool(IF BothNumbers(x, y)
                                         THEN ~(a.tag = "nan" \/ b.tag = "nan") /\ x.v = y.v
                                         ELSE SameContent(x, y))
              [] op \in CompareOps  -> MkBool(~(a.tag = "nan" \/ b.tag = "nan") /\ Compare(op, a.v, b.v))
              [] op \in BitOps      -> Int32Op(op, a, b)
              [] OTHER              -> IF BothInt(a, b) /\ r.tag = "float64" /\ r.v \in Int32
                                         THEN MkInt(r.v) ELSE r
    BY Zenon DEF js_binary, a, b, r
  <2> QED BY <2>3, <2>4, Zenon DEF MkBool, C!MkBool, Compare, C!Compare
<1> QED BY <1>1, <1>2

-----------------------------------------------------------------------------
(* Runs of the stack machine.  The machine is deterministic: After is the  *)
(* only step there is from a state.                                        *)
MachineState(p, s, l, o) == [pc |-> p, stack |-> s, locals |-> l, outcome |-> o]

After(code, s) ==
  LET c == code[s.pc + 1]
      top == s.stack[Len(s.stack)]
      second == s.stack[Len(s.stack) - 1]
      Popped(n) == SubSeq(s.stack, 1, Len(s.stack) - n)
      Go(stk, loc) == MachineState(s.pc + c.size, stk, loc, s.outcome)
      Store(x) == [s.locals EXCEPT ![c.arg] = x]
  IN CASE c.op = "nop"           -> Go(s.stack, s.locals)
       [] c.op = "push_i32"      -> Go(Append(s.stack, MkInt(c.arg)), s.locals)
       [] c.op \in PrimitiveOpcodes -> Go(Append(s.stack, Machine!PrimitiveValue(c.op)), s.locals)
       [] c.op = "push_const"    -> Go(Append(s.stack, cpool[c.arg]), s.locals)
       [] c.op = "drop"          -> Go(Popped(1), s.locals)
       [] c.op = "dup"           -> Go(Append(s.stack, top), s.locals)
       [] c.op = "get_loc"       -> Go(s.stack \o <<s.locals[c.arg]>>, s.locals)
       [] c.op = "get_loc0_loc1" -> Go(s.stack \o <<s.locals[0], s.locals[1]>>, s.locals)
       [] c.op = "put_loc"       -> Go(Popped(1), Store(top))
       [] c.op = "set_loc"       -> Go(s.stack, Store(top))
       [] c.op = "add_loc"       -> Go(Popped(1), Store(js_binary("ADD", s.locals[c.arg], top)))
       [] c.op = "inc_loc"       -> Go(s.stack, Store(js_binary("ADD", s.locals[c.arg], MkInt(1))))
       [] c.op = "dec_loc"       -> Go(s.stack, Store(js_binary("ADD", s.locals[c.arg], MkInt(-1))))
       [] c.op \in NeedsTwo      -> Go(Append(Popped(2), js_binary(RegOpOf[c.op], second, top)), s.locals)
       [] c.op = "goto"          -> MachineState(JumpTarget(s.pc, c), s.stack, s.locals, s.outcome)
       [] c.op \in BranchOpcodes ->
            MachineState(IF Machine!ToBoolean(top) = (c.op = "if_true") THEN JumpTarget(s.pc, c) ELSE s.pc + c.size,
                         Popped(1), s.locals, s.outcome)
       [] c.op = "return"        -> MachineState(s.pc, s.stack, s.locals, VMReturned(top))
       [] c.op = "return_undef"  -> MachineState(s.pc, s.stack, s.locals, VMReturned(Undefined))

(* Opcode by opcode.                                                       *)
AfterGoes(code, p, s, l, o) ==
  LET c == code[p + 1]
      top == s[Len(s)]
      second == s[Len(s) - 1]
      Popped(n) == SubSeq(s, 1, Len(s) - n)
      Go(stk, loc) == MachineState(p + c.size, stk, loc, o)
      Store(x) == [l EXCEPT ![c.arg] = x]
      next == After(code, MachineState(p, s, l, o))
  IN  /\ c.op = "nop" => next = Go(s, l)
      /\ c.op = "push_i32" => next = Go(Append(s, MkInt(c.arg)), l)
      /\ c.op \in PrimitiveOpcodes => next = Go(Append(s, Machine!PrimitiveValue(c.op)), l)
      /\ c.op = "push_const" => next = Go(Append(s, cpool[c.arg]), l)
      /\ c.op = "drop" => next = Go(Popped(1), l)
      /\ c.op = "dup" => next = Go(Append(s, top), l)
      /\ c.op = "get_loc" => next = Go(s \o <<l[c.arg]>>, l)
      /\ c.op = "get_loc0_loc1" => next = Go(s \o <<l[0], l[1]>>, l)
      /\ c.op = "put_loc" => next = Go(Popped(1), Store(top))
      /\ c.op = "set_loc" => next = Go(s, Store(top))
      /\ c.op = "add_loc" => next = Go(Popped(1), Store(js_binary("ADD", l[c.arg], top)))
      /\ c.op = "inc_loc" => next = Go(s, Store(js_binary("ADD", l[c.arg], MkInt(1))))
      /\ c.op = "dec_loc" => next = Go(s, Store(js_binary("ADD", l[c.arg], MkInt(-1))))
      /\ c.op \in NeedsTwo => next = Go(Append(Popped(2), js_binary(RegOpOf[c.op], second, top)), l)
      /\ c.op = "goto" => next = MachineState(JumpTarget(p, c), s, l, o)
      /\ c.op \in BranchOpcodes =>
           next = MachineState(IF Machine!ToBoolean(top) = (c.op = "if_true") THEN JumpTarget(p, c)
                                                                              ELSE p + c.size,
                               Popped(1), l, o)
      /\ c.op = "return" => next = MachineState(p, s, l, VMReturned(top))
      /\ c.op = "return_undef" => next = MachineState(p, s, l, VMReturned(Undefined))

LEMMA AfterIs == \A code, p, s, l, o : AfterGoes(code, p, s, l, o)
<1> SUFFICES ASSUME NEW code, NEW p, NEW s, NEW l, NEW o PROVE AfterGoes(code, p, s, l, o)
  OBVIOUS
<1> DEFINE t == MachineState(p, s, l, o)
           op == code[p + 1].op
<1>1. t.pc = p /\ t.stack = s /\ t.locals = l /\ t.outcome = o
  BY DEF MachineState
<1>2. /\ PrimitiveOpcodes = {"undefined", "null", "push_false", "push_true"}
      /\ NeedsTwo = {"add", "sub", "mul", "mod", "shl", "sar", "shr", "and", "xor", "or",
                     "lt", "lte", "gt", "gte", "strict_eq"}
      /\ BranchOpcodes = {"if_false", "if_true"}
  BY DEF PrimitiveOpcodes, NeedsTwo, BinaryOpcodes, ComparisonOpcodes, BranchOpcodes
<1> HIDE DEF t
<1> QED
  BY <1>1, <1>2, ZenonT(60) DEF After, AfterGoes, t

-----------------------------------------------------------------------------
(* The three machines of a call, and that each takes that step.            *)
ReferenceState == MachineState(spc, stack, ref_locals, outcome)
TierState == MachineState(SourcePc, SourceStack, var_buf, vm)
CState == MachineState(spc, stack, var_buf, outcome)

(* The comparison run.                                                     *)
LEMMA ReferenceGoes ==
  ASSUME Reference!Step
  PROVE  /\ outcome = VMRunning /\ bytecode' = bytecode
         /\ ReferenceState' = After(bytecode, ReferenceState)
<1> DEFINE c == bytecode[spc + 1]
           next == After(bytecode, MachineState(spc, stack, ref_locals, outcome))
           then == MachineState(spc', stack', ref_locals', outcome')
           Popped(n) == SubSeq(stack, 1, Len(stack) - n)
           top == stack[Len(stack)]
           second == stack[Len(stack) - 1]
           Store(x) == [ref_locals EXCEPT ![c.arg] = x]
           Result == outcome = VMRunning /\ bytecode' = bytecode /\ then = next
<1>1. /\ Reference!Running = VMRunning /\ \A x : Reference!Returned(x) = VMReturned(x)
  BY ReferenceSameConstants DEF Reference!Running, VMRunning, Reference!Returned, VMReturned
<1>2. /\ \A op : Reference!PrimitiveValue(op) = Machine!PrimitiveValue(op)
      /\ \A x : Reference!ToBoolean(x) <=> Machine!ToBoolean(x)
      /\ \A p, i : Reference!JumpTarget(p, i) = JumpTarget(p, i)
  <2>1. \A op : Reference!PrimitiveValue(op) = Machine!PrimitiveValue(op)
    BY ReferenceSameConstants, SameConstants, Zenon
       DEF Reference!PrimitiveValue, Machine!PrimitiveValue, Reference!MkBool, Machine!MkBool
  <2>2. \A x : Reference!ToBoolean(x) <=> Machine!ToBoolean(x)
    BY DEF Reference!ToBoolean, Machine!ToBoolean
  <2>3. \A p, i : Reference!JumpTarget(p, i) = JumpTarget(p, i)
    BY DEF Reference!JumpTarget, JumpTarget
  <2> QED BY <2>1, <2>2, <2>3
<1>3. /\ Reference!Top = top /\ Reference!Second = second /\ Reference!Cur = c
      /\ \A n : Reference!Popped(n) = Popped(n)
  BY DEF Reference!Top, Reference!Second, Reference!Popped, Reference!Cur
<1>4. /\ \A op, x, y : Reference!js_binary(op, x, y) = js_binary(op, x, y)
      /\ \A n : Reference!MkInt(n) = MkInt(n)
      /\ Reference!Undefined = Undefined
  BY ReferenceSameOperators, ReferenceSameMakers, ReferenceSameConstants
<1>5. /\ Reference!PrimitiveOpcodes = PrimitiveOpcodes /\ Reference!NeedsTwo = NeedsTwo
      /\ Reference!BranchOpcodes = BranchOpcodes /\ Reference!RegOpOf = RegOpOf
  BY ReferenceSameConstants
<1>6. ASSUME NEW stk, Reference!Continue(stk)
      PROVE  spc' = spc + c.size /\ stack' = stk /\ bytecode' = bytecode /\ outcome' = outcome
  BY <1>3, <1>6 DEF Reference!Continue
<1>7. ASSUME NEW ops, Reference!At(ops) PROVE outcome = VMRunning /\ c.op \in ops
  BY <1>1, <1>7 DEF Reference!At
<1>8. AfterGoes(bytecode, spc, stack, ref_locals, outcome)
  BY AfterIs
<1>9. ASSUME Reference!Nop PROVE Result
  BY <1>9, <1>6, <1>7, <1>8 DEF Reference!Nop, AfterGoes
<1>10. ASSUME Reference!PushImmediate PROVE Result
  BY <1>10, <1>2, <1>3, <1>4, <1>5, <1>6, <1>7, <1>8 DEF Reference!PushImmediate, AfterGoes
<1>11. ASSUME Reference!PushConstant PROVE Result
  BY <1>11, <1>3, <1>6, <1>7, <1>8 DEF Reference!PushConstant, AfterGoes
<1>12. ASSUME Reference!DropTop PROVE Result
  <2>1. /\ Reference!At({"drop"}) /\ Reference!Continue(Reference!Popped(1))
        /\ ref_locals' = ref_locals
    BY <1>12 DEF Reference!DropTop
  <2>2. c.op \in {"drop"} /\ outcome = VMRunning
    BY <2>1, <1>7
  <2>3. spc' = spc + c.size /\ stack' = Popped(1) /\ bytecode' = bytecode /\ outcome' = outcome
    BY <2>1, <1>3, <1>6
  <2>4. ref_locals' = ref_locals
    BY <2>1, <1>3
  <2> QED BY <2>2, <2>3, <2>4, <1>8 DEF AfterGoes
<1>13. ASSUME Reference!DupTop PROVE Result
  BY <1>13, <1>3, <1>6, <1>7, <1>8 DEF Reference!DupTop, AfterGoes
<1>14. ASSUME Reference!GetLocal PROVE Result
  BY <1>14, <1>3, <1>6, <1>7, <1>8 DEF Reference!GetLocal, AfterGoes
<1>15. ASSUME Reference!PutLocal PROVE Result
  <2>1. /\ Reference!At({"put_loc"}) /\ Reference!Continue(Reference!Popped(1))
        /\ ref_locals' = [ref_locals EXCEPT ![Reference!Cur.arg] = Reference!Top]
    BY <1>15 DEF Reference!PutLocal
  <2>2. c.op \in {"put_loc"} /\ outcome = VMRunning
    BY <2>1, <1>7
  <2>3. spc' = spc + c.size /\ stack' = Popped(1) /\ bytecode' = bytecode /\ outcome' = outcome
    BY <2>1, <1>3, <1>6
  <2>4. ref_locals' = Store(top)
    BY <2>1, <1>3
  <2> QED BY <2>2, <2>3, <2>4, <1>8 DEF AfterGoes
<1>16. ASSUME Reference!SetLocal PROVE Result
  BY <1>16, <1>3, <1>6, <1>7, <1>8 DEF Reference!SetLocal, AfterGoes
<1>17. ASSUME Reference!AddToLocal PROVE Result
  <2>1. /\ Reference!At({"add_loc"}) /\ Reference!Continue(Reference!Popped(1))
        /\ ref_locals' = [ref_locals EXCEPT ![Reference!Cur.arg] =
                      Reference!js_binary("ADD", ref_locals[Reference!Cur.arg], Reference!Top)]
    BY <1>17 DEF Reference!AddToLocal
  <2>2. c.op = "add_loc" /\ outcome = VMRunning
    BY <2>1, <1>7
  <2>3. spc' = spc + c.size /\ stack' = Popped(1) /\ bytecode' = bytecode /\ outcome' = outcome
    BY <2>1, <1>3, <1>6
  <2>4. ref_locals' = Store(js_binary("ADD", ref_locals[c.arg], top))
    BY <2>1, <1>3, <1>4
  <2> QED BY <2>2, <2>3, <2>4, <1>8 DEF AfterGoes
<1>18. ASSUME Reference!StepLocal PROVE Result
  <2> DEFINE by == IF c.op = "inc_loc" THEN 1 ELSE -1
  <2>1. /\ Reference!At({"inc_loc", "dec_loc"}) /\ Reference!Continue(stack)
        /\ ref_locals' = [ref_locals EXCEPT ![Reference!Cur.arg] =
                      Reference!js_binary("ADD", ref_locals[Reference!Cur.arg],
                        Reference!MkInt(IF Reference!Cur.op = "inc_loc" THEN 1 ELSE -1))]
    BY <1>18 DEF Reference!StepLocal
  <2>2. c.op \in {"inc_loc", "dec_loc"} /\ outcome = VMRunning
    BY <2>1, <1>7
  <2>3. spc' = spc + c.size /\ stack' = stack /\ bytecode' = bytecode /\ outcome' = outcome
    BY <2>1, <1>6
  <2>4. ref_locals' = Store(js_binary("ADD", ref_locals[c.arg], MkInt(by)))
    BY <2>1, <1>3, <1>4
  <2>5. CASE c.op = "inc_loc"
    BY <2>2, <2>3, <2>4, <2>5, <1>8 DEF AfterGoes
  <2>6. CASE c.op = "dec_loc"
    BY <2>2, <2>3, <2>4, <2>6, <1>8 DEF AfterGoes
  <2> QED BY <2>2, <2>5, <2>6
<1>19. ASSUME Reference!Binary PROVE Result
  BY <1>19, <1>3, <1>4, <1>5, <1>6, <1>7, <1>8 DEF Reference!Binary, AfterGoes
<1>20. ASSUME Reference!Jump PROVE Result
  BY <1>20, <1>2, <1>3, <1>7, <1>8 DEF Reference!Jump, AfterGoes
<1>21. ASSUME Reference!Branch PROVE Result
  BY <1>21, <1>2, <1>3, <1>5, <1>7, <1>8 DEF Reference!Branch, AfterGoes
<1>22. ASSUME Reference!Return PROVE Result
  BY <1>22, <1>1, <1>3, <1>4, <1>7, <1>8 DEF Reference!Return, AfterGoes
<1> QED
  BY <1>9, <1>10, <1>11, <1>12, <1>13, <1>14, <1>15, <1>16, <1>17, <1>18, <1>19, <1>20, <1>21, <1>22
     DEF Reference!Step, ReferenceState

(* The C interpreter after the tiers.                                      *)
LEMMA CGoes ==
  ASSUME C!Step
  PROVE  /\ outcome = VMRunning /\ bytecode' = bytecode
         /\ CState' = After(bytecode, CState)
<1> DEFINE c == bytecode[spc + 1]
           next == After(bytecode, MachineState(spc, stack, var_buf, outcome))
           then == MachineState(spc', stack', var_buf', outcome')
           Popped(n) == SubSeq(stack, 1, Len(stack) - n)
           top == stack[Len(stack)]
           second == stack[Len(stack) - 1]
           Store(x) == [var_buf EXCEPT ![c.arg] = x]
           Result == outcome = VMRunning /\ bytecode' = bytecode /\ then = next
<1>1. /\ C!Running = VMRunning /\ \A x : C!Returned(x) = VMReturned(x)
  BY CSameConstants DEF C!Running, VMRunning, C!Returned, VMReturned
<1>2. /\ \A op : C!PrimitiveValue(op) = Machine!PrimitiveValue(op)
      /\ \A x : C!ToBoolean(x) <=> Machine!ToBoolean(x)
      /\ \A p, i : C!JumpTarget(p, i) = JumpTarget(p, i)
  <2>1. \A op : C!PrimitiveValue(op) = Machine!PrimitiveValue(op)
    BY CSameConstants, SameConstants, Zenon
       DEF C!PrimitiveValue, Machine!PrimitiveValue, C!MkBool, Machine!MkBool
  <2>2. \A x : C!ToBoolean(x) <=> Machine!ToBoolean(x)
    BY DEF C!ToBoolean, Machine!ToBoolean
  <2>3. \A p, i : C!JumpTarget(p, i) = JumpTarget(p, i)
    BY DEF C!JumpTarget, JumpTarget
  <2> QED BY <2>1, <2>2, <2>3
<1>3. /\ C!Top = top /\ C!Second = second /\ C!Cur = c
      /\ \A n : C!Popped(n) = Popped(n)
  BY DEF C!Top, C!Second, C!Popped, C!Cur
<1>4. /\ \A op, x, y : C!js_binary(op, x, y) = js_binary(op, x, y)
      /\ \A n : C!MkInt(n) = MkInt(n)
      /\ C!Undefined = Undefined
  BY CSameOperators, CSameMakers, CSameConstants
<1>5. /\ C!PrimitiveOpcodes = PrimitiveOpcodes /\ C!NeedsTwo = NeedsTwo
      /\ C!BranchOpcodes = BranchOpcodes /\ C!RegOpOf = RegOpOf
  BY CSameConstants
<1>6. ASSUME NEW stk, C!Continue(stk)
      PROVE  spc' = spc + c.size /\ stack' = stk /\ bytecode' = bytecode /\ outcome' = outcome
  BY <1>3, <1>6 DEF C!Continue
<1>7. ASSUME NEW ops, C!At(ops) PROVE outcome = VMRunning /\ c.op \in ops
  BY <1>1, <1>7 DEF C!At
<1>8. AfterGoes(bytecode, spc, stack, var_buf, outcome)
  BY AfterIs
<1>9. ASSUME C!Nop PROVE Result
  BY <1>9, <1>6, <1>7, <1>8 DEF C!Nop, AfterGoes
<1>10. ASSUME C!PushImmediate PROVE Result
  BY <1>10, <1>2, <1>3, <1>4, <1>5, <1>6, <1>7, <1>8 DEF C!PushImmediate, AfterGoes
<1>11. ASSUME C!PushConstant PROVE Result
  BY <1>11, <1>3, <1>6, <1>7, <1>8 DEF C!PushConstant, AfterGoes
<1>12. ASSUME C!DropTop PROVE Result
  <2>1. /\ C!At({"drop"}) /\ C!Continue(C!Popped(1))
        /\ var_buf' = var_buf
    BY <1>12 DEF C!DropTop
  <2>2. c.op \in {"drop"} /\ outcome = VMRunning
    BY <2>1, <1>7
  <2>3. spc' = spc + c.size /\ stack' = Popped(1) /\ bytecode' = bytecode /\ outcome' = outcome
    BY <2>1, <1>3, <1>6
  <2>4. var_buf' = var_buf
    BY <2>1, <1>3
  <2> QED BY <2>2, <2>3, <2>4, <1>8 DEF AfterGoes
<1>13. ASSUME C!DupTop PROVE Result
  BY <1>13, <1>3, <1>6, <1>7, <1>8 DEF C!DupTop, AfterGoes
<1>14. ASSUME C!GetLocal PROVE Result
  BY <1>14, <1>3, <1>6, <1>7, <1>8 DEF C!GetLocal, AfterGoes
<1>15. ASSUME C!PutLocal PROVE Result
  <2>1. /\ C!At({"put_loc"}) /\ C!Continue(C!Popped(1))
        /\ var_buf' = [var_buf EXCEPT ![C!Cur.arg] = C!Top]
    BY <1>15 DEF C!PutLocal
  <2>2. c.op \in {"put_loc"} /\ outcome = VMRunning
    BY <2>1, <1>7
  <2>3. spc' = spc + c.size /\ stack' = Popped(1) /\ bytecode' = bytecode /\ outcome' = outcome
    BY <2>1, <1>3, <1>6
  <2>4. var_buf' = Store(top)
    BY <2>1, <1>3
  <2> QED BY <2>2, <2>3, <2>4, <1>8 DEF AfterGoes
<1>16. ASSUME C!SetLocal PROVE Result
  BY <1>16, <1>3, <1>6, <1>7, <1>8 DEF C!SetLocal, AfterGoes
<1>17. ASSUME C!AddToLocal PROVE Result
  <2>1. /\ C!At({"add_loc"}) /\ C!Continue(C!Popped(1))
        /\ var_buf' = [var_buf EXCEPT ![C!Cur.arg] =
                      C!js_binary("ADD", var_buf[C!Cur.arg], C!Top)]
    BY <1>17 DEF C!AddToLocal
  <2>2. c.op = "add_loc" /\ outcome = VMRunning
    BY <2>1, <1>7
  <2>3. spc' = spc + c.size /\ stack' = Popped(1) /\ bytecode' = bytecode /\ outcome' = outcome
    BY <2>1, <1>3, <1>6
  <2>4. var_buf' = Store(js_binary("ADD", var_buf[c.arg], top))
    BY <2>1, <1>3, <1>4
  <2> QED BY <2>2, <2>3, <2>4, <1>8 DEF AfterGoes
<1>18. ASSUME C!StepLocal PROVE Result
  <2> DEFINE by == IF c.op = "inc_loc" THEN 1 ELSE -1
  <2>1. /\ C!At({"inc_loc", "dec_loc"}) /\ C!Continue(stack)
        /\ var_buf' = [var_buf EXCEPT ![C!Cur.arg] =
                      C!js_binary("ADD", var_buf[C!Cur.arg],
                        C!MkInt(IF C!Cur.op = "inc_loc" THEN 1 ELSE -1))]
    BY <1>18 DEF C!StepLocal
  <2>2. c.op \in {"inc_loc", "dec_loc"} /\ outcome = VMRunning
    BY <2>1, <1>7
  <2>3. spc' = spc + c.size /\ stack' = stack /\ bytecode' = bytecode /\ outcome' = outcome
    BY <2>1, <1>6
  <2>4. var_buf' = Store(js_binary("ADD", var_buf[c.arg], MkInt(by)))
    BY <2>1, <1>3, <1>4
  <2>5. CASE c.op = "inc_loc"
    BY <2>2, <2>3, <2>4, <2>5, <1>8 DEF AfterGoes
  <2>6. CASE c.op = "dec_loc"
    BY <2>2, <2>3, <2>4, <2>6, <1>8 DEF AfterGoes
  <2> QED BY <2>2, <2>5, <2>6
<1>19. ASSUME C!Binary PROVE Result
  BY <1>19, <1>3, <1>4, <1>5, <1>6, <1>7, <1>8 DEF C!Binary, AfterGoes
<1>20. ASSUME C!Jump PROVE Result
  BY <1>20, <1>2, <1>3, <1>7, <1>8 DEF C!Jump, AfterGoes
<1>21. ASSUME C!Branch PROVE Result
  BY <1>21, <1>2, <1>3, <1>5, <1>7, <1>8 DEF C!Branch, AfterGoes
<1>22. ASSUME C!Return PROVE Result
  BY <1>22, <1>1, <1>3, <1>4, <1>7, <1>8 DEF C!Return, AfterGoes
<1> QED
  BY <1>9, <1>10, <1>11, <1>12, <1>13, <1>14, <1>15, <1>16, <1>17, <1>18, <1>19, <1>20, <1>21, <1>22
     DEF C!Step, CState

(* The machine a tier implements.                                          *)
LEMMA MachineGoes ==
  ASSUME Machine!Step
  PROVE  /\ vm = VMRunning /\ bytecode' = bytecode
         /\ TierState' = After(bytecode, TierState)
<1> DEFINE c == bytecode[SourcePc + 1]
           next == After(bytecode, MachineState(SourcePc, SourceStack, var_buf, vm))
           then == MachineState(SourcePc', SourceStack', var_buf', vm')
           Popped(n) == SubSeq(SourceStack, 1, Len(SourceStack) - n)
           top == SourceStack[Len(SourceStack)]
           second == SourceStack[Len(SourceStack) - 1]
           Store(x) == [var_buf EXCEPT ![c.arg] = x]
           Result == vm = VMRunning /\ bytecode' = bytecode /\ then = next
<1>1. /\ Machine!Running = VMRunning /\ \A x : Machine!Returned(x) = VMReturned(x)
  BY SameConstants DEF Machine!Running, VMRunning, Machine!Returned, VMReturned
<1>2. /\ \A op : Machine!PrimitiveValue(op) = Machine!PrimitiveValue(op)
      /\ \A x : Machine!ToBoolean(x) <=> Machine!ToBoolean(x)
      /\ \A p, i : Machine!JumpTarget(p, i) = JumpTarget(p, i)
  <2>1. \A op : Machine!PrimitiveValue(op) = Machine!PrimitiveValue(op)
    BY SameConstants, SameConstants, Zenon
       DEF Machine!PrimitiveValue, Machine!PrimitiveValue, Machine!MkBool, Machine!MkBool
  <2>2. \A x : Machine!ToBoolean(x) <=> Machine!ToBoolean(x)
    BY DEF Machine!ToBoolean, Machine!ToBoolean
  <2>3. \A p, i : Machine!JumpTarget(p, i) = JumpTarget(p, i)
    BY DEF Machine!JumpTarget, JumpTarget
  <2> QED BY <2>1, <2>2, <2>3
<1>3. /\ Machine!Top = top /\ Machine!Second = second /\ Machine!Cur = c
      /\ \A n : Machine!Popped(n) = Popped(n)
  BY DEF Machine!Top, Machine!Second, Machine!Popped, Machine!Cur
<1>4. /\ \A op, x, y : Machine!js_binary(op, x, y) = js_binary(op, x, y)
      /\ \A n : Machine!MkInt(n) = MkInt(n)
      /\ Machine!Undefined = Undefined
  BY SameOperators, SameMakers, SameConstants
<1>5. /\ Machine!PrimitiveOpcodes = PrimitiveOpcodes /\ Machine!NeedsTwo = NeedsTwo
      /\ Machine!BranchOpcodes = BranchOpcodes /\ Machine!RegOpOf = RegOpOf
  BY SameConstants
<1>6. ASSUME NEW stk, Machine!Continue(stk)
      PROVE  SourcePc' = SourcePc + c.size /\ SourceStack' = stk /\ bytecode' = bytecode /\ vm' = vm
  BY <1>3, <1>6 DEF Machine!Continue
<1>7. ASSUME NEW ops, Machine!At(ops) PROVE vm = VMRunning /\ c.op \in ops
  BY <1>1, <1>7 DEF Machine!At
<1>8. AfterGoes(bytecode, SourcePc, SourceStack, var_buf, vm)
  BY AfterIs
<1>9. ASSUME Machine!Nop PROVE Result
  BY <1>9, <1>6, <1>7, <1>8 DEF Machine!Nop, AfterGoes
<1>10. ASSUME Machine!PushImmediate PROVE Result
  BY <1>10, <1>2, <1>3, <1>4, <1>5, <1>6, <1>7, <1>8 DEF Machine!PushImmediate, AfterGoes
<1>11. ASSUME Machine!PushConstant PROVE Result
  BY <1>11, <1>3, <1>6, <1>7, <1>8 DEF Machine!PushConstant, AfterGoes
<1>12. ASSUME Machine!DropTop PROVE Result
  <2>1. /\ Machine!At({"drop"}) /\ Machine!Continue(Machine!Popped(1))
        /\ var_buf' = var_buf
    BY <1>12 DEF Machine!DropTop
  <2>2. c.op \in {"drop"} /\ vm = VMRunning
    BY <2>1, <1>7
  <2>3. SourcePc' = SourcePc + c.size /\ SourceStack' = Popped(1) /\ bytecode' = bytecode /\ vm' = vm
    BY <2>1, <1>3, <1>6
  <2>4. var_buf' = var_buf
    BY <2>1, <1>3
  <2> QED BY <2>2, <2>3, <2>4, <1>8 DEF AfterGoes
<1>13. ASSUME Machine!DupTop PROVE Result
  BY <1>13, <1>3, <1>6, <1>7, <1>8 DEF Machine!DupTop, AfterGoes
<1>14. ASSUME Machine!GetLocal PROVE Result
  BY <1>14, <1>3, <1>6, <1>7, <1>8 DEF Machine!GetLocal, AfterGoes
<1>15. ASSUME Machine!PutLocal PROVE Result
  <2>1. /\ Machine!At({"put_loc"}) /\ Machine!Continue(Machine!Popped(1))
        /\ var_buf' = [var_buf EXCEPT ![Machine!Cur.arg] = Machine!Top]
    BY <1>15 DEF Machine!PutLocal
  <2>2. c.op \in {"put_loc"} /\ vm = VMRunning
    BY <2>1, <1>7
  <2>3. SourcePc' = SourcePc + c.size /\ SourceStack' = Popped(1) /\ bytecode' = bytecode /\ vm' = vm
    BY <2>1, <1>3, <1>6
  <2>4. var_buf' = Store(top)
    BY <2>1, <1>3
  <2> QED BY <2>2, <2>3, <2>4, <1>8 DEF AfterGoes
<1>16. ASSUME Machine!SetLocal PROVE Result
  BY <1>16, <1>3, <1>6, <1>7, <1>8 DEF Machine!SetLocal, AfterGoes
<1>17. ASSUME Machine!AddToLocal PROVE Result
  <2>1. /\ Machine!At({"add_loc"}) /\ Machine!Continue(Machine!Popped(1))
        /\ var_buf' = [var_buf EXCEPT ![Machine!Cur.arg] =
                      Machine!js_binary("ADD", var_buf[Machine!Cur.arg], Machine!Top)]
    BY <1>17 DEF Machine!AddToLocal
  <2>2. c.op = "add_loc" /\ vm = VMRunning
    BY <2>1, <1>7
  <2>3. SourcePc' = SourcePc + c.size /\ SourceStack' = Popped(1) /\ bytecode' = bytecode /\ vm' = vm
    BY <2>1, <1>3, <1>6
  <2>4. var_buf' = Store(js_binary("ADD", var_buf[c.arg], top))
    BY <2>1, <1>3, <1>4
  <2> QED BY <2>2, <2>3, <2>4, <1>8 DEF AfterGoes
<1>18. ASSUME Machine!StepLocal PROVE Result
  <2> DEFINE by == IF c.op = "inc_loc" THEN 1 ELSE -1
  <2>1. /\ Machine!At({"inc_loc", "dec_loc"}) /\ Machine!Continue(SourceStack)
        /\ var_buf' = [var_buf EXCEPT ![Machine!Cur.arg] =
                      Machine!js_binary("ADD", var_buf[Machine!Cur.arg],
                        Machine!MkInt(IF Machine!Cur.op = "inc_loc" THEN 1 ELSE -1))]
    BY <1>18 DEF Machine!StepLocal
  <2>2. c.op \in {"inc_loc", "dec_loc"} /\ vm = VMRunning
    BY <2>1, <1>7
  <2>3. SourcePc' = SourcePc + c.size /\ SourceStack' = SourceStack /\ bytecode' = bytecode /\ vm' = vm
    BY <2>1, <1>6
  <2>4. var_buf' = Store(js_binary("ADD", var_buf[c.arg], MkInt(by)))
    BY <2>1, <1>3, <1>4
  <2>5. CASE c.op = "inc_loc"
    BY <2>2, <2>3, <2>4, <2>5, <1>8 DEF AfterGoes
  <2>6. CASE c.op = "dec_loc"
    BY <2>2, <2>3, <2>4, <2>6, <1>8 DEF AfterGoes
  <2> QED BY <2>2, <2>5, <2>6
<1>19. ASSUME Machine!Binary PROVE Result
  BY <1>19, <1>3, <1>4, <1>5, <1>6, <1>7, <1>8 DEF Machine!Binary, AfterGoes
<1>20. ASSUME Machine!Jump PROVE Result
  BY <1>20, <1>2, <1>3, <1>7, <1>8 DEF Machine!Jump, AfterGoes
<1>21. ASSUME Machine!Branch PROVE Result
  BY <1>21, <1>2, <1>3, <1>5, <1>7, <1>8 DEF Machine!Branch, AfterGoes
<1>22. ASSUME Machine!Return PROVE Result
  BY <1>22, <1>1, <1>3, <1>4, <1>7, <1>8 DEF Machine!Return, AfterGoes
<1> QED
  BY <1>9, <1>10, <1>11, <1>12, <1>13, <1>14, <1>15, <1>16, <1>17, <1>18, <1>19, <1>20, <1>21, <1>22
     DEF Machine!Step, TierState

-----------------------------------------------------------------------------
(* A run of the code, from its first instruction on fresh locals: the      *)
(* states it goes through, numbered.                                       *)
FirstState == MachineState(0, <<>>, FreshLocals, VMRunning)

IsRun(code, f, n) ==
  /\ f[0] = FirstState
  /\ \A k \in 1..n : f[k-1].outcome = VMRunning /\ f[k] = After(code, f[k-1])

(* A state the machine comes to.                                           *)
ComesTo(code, s) == \E n \in Nat : \E f : IsRun(code, f, n) /\ f[n] = s

LEMMA RunStarts ==
  ASSUME NEW code
  PROVE  ComesTo(code, FirstState)
<1> DEFINE f == [k \in 0..0 |-> FirstState]
<1>1. f[0] = FirstState /\ 0 \in Nat /\ \A k \in 1..0 : FALSE
  OBVIOUS
<1> HIDE DEF f
<1>2. IsRun(code, f, 0)
  BY <1>1 DEF IsRun
<1> QED BY <1>1, <1>2 DEF ComesTo

LEMMA RunGoesOn ==
  ASSUME NEW code, NEW s, ComesTo(code, s), s.outcome = VMRunning
  PROVE  ComesTo(code, After(code, s))
<1>1. PICK n \in Nat : \E f : IsRun(code, f, n) /\ f[n] = s
  BY DEF ComesTo
<1>2. PICK f : IsRun(code, f, n) /\ f[n] = s
  BY <1>1
<1> DEFINE m == n + 1
           g == [k \in 0..m |-> IF k = m THEN After(code, s) ELSE f[k]]
<1>3. m \in Nat /\ m - 1 = n /\ g[m] = After(code, s) /\ \A k \in 0..n : g[k] = f[k]
  OBVIOUS
<1> HIDE DEF g
<1>4. g[0] = FirstState
  BY <1>2, <1>3 DEF IsRun
<1>5. ASSUME NEW k \in 1..m PROVE g[k-1].outcome = VMRunning /\ g[k] = After(code, g[k-1])
  <2>1. CASE k = m
    <3>1. g[k-1] = s
      BY <1>2, <1>3, <2>1
    <3> QED BY <1>3, <2>1, <3>1
  <2>2. CASE k # m
    <3>1. k \in 1..n /\ k \in 0..n /\ k - 1 \in 0..n
      BY <1>3, <2>2
    <3> QED BY <1>2, <1>3, <3>1 DEF IsRun
  <2> QED BY <2>1, <2>2
<1>6. IsRun(code, g, m)
  BY <1>4, <1>5 DEF IsRun
<1> QED BY <1>3, <1>6 DEF ComesTo

(* There is one run: where one of two has ended, so has the other.         *)
LEMMA RunsAgree ==
  ASSUME NEW code, NEW f, NEW g, NEW n \in Nat, NEW m \in Nat, n <= m, IsRun(code, f, n), IsRun(code, g, m)
  PROVE  f[n] = g[n]
<1> DEFINE S == {k \in 0..n : f[k] = g[k]}
<1>1. 0 \in S
  BY DEF IsRun
<1>2. ASSUME NEW k \in 1..n, k - 1 \in S PROVE k \in S
  <2>1. k \in 1..m /\ k \in 0..n
    OBVIOUS
  <2>2. f[k-1] = g[k-1]
    BY <1>2
  <2> QED BY <2>1, <2>2 DEF IsRun
<1> HIDE DEF S
<1>3. 0..n \subseteq S
  BY <1>1, <1>2, Induction
<1> QED BY <1>3 DEF S

LEMMA RunsEndOnce ==
  ASSUME NEW code, NEW f, NEW g, NEW n \in Nat, NEW m \in Nat, n <= m, IsRun(code, f, n), IsRun(code, g, m),
         f[n].outcome # VMRunning
  PROVE  f[n] = g[m]
<1>1. f[n] = g[n]
  BY RunsAgree
<1>2. n = m
  <2> SUFFICES ASSUME n # m PROVE FALSE
    OBVIOUS
  <2>1. n + 1 \in 1..m /\ (n + 1) - 1 = n
    OBVIOUS
  <2> QED BY <1>1, <2>1 DEF IsRun
<1> QED BY <1>1, <1>2

LEMMA OneEnd ==
  ASSUME NEW code, NEW s, NEW t, ComesTo(code, s), ComesTo(code, t),
         s.outcome # VMRunning, t.outcome # VMRunning
  PROVE  s = t
<1>1. PICK n \in Nat : \E f : IsRun(code, f, n) /\ f[n] = s
  BY DEF ComesTo
<1>2. PICK f : IsRun(code, f, n) /\ f[n] = s
  BY <1>1
<1>3. PICK m \in Nat : \E g : IsRun(code, g, m) /\ g[m] = t
  BY DEF ComesTo
<1>4. PICK g : IsRun(code, g, m) /\ g[m] = t
  BY <1>3
<1>5. CASE n <= m
  BY <1>2, <1>4, <1>5, RunsEndOnce
<1>6. CASE m <= n
  BY <1>2, <1>4, <1>6, RunsEndOnce
<1> QED BY <1>5, <1>6

-----------------------------------------------------------------------------
(* Native code from the templates: an instruction that it does not give up *)
(* on does what the VM's does.                                             *)
LEMMA NativeFinds ==
  ASSUME CompilerInv, CodeInv, RunTypeOK, IntsFit, NEW ops, Executing(ops)
  PROVE  /\ AtInstruction /\ Inst.op \in ops
         /\ Inst.src1 \in Nat /\ Inst.src2 \in Int
         /\ \A r \in SourceRegisters(Inst) : r \in DOMAIN regs /\ regs[r] \in Value /\ IntFits(regs[r])
         /\ Inst.dst \in DOMAIN regs /\ regs[Inst.dst] \in Value /\ IntFits(regs[Inst.dst])
         /\ Inst.op = "LOAD_LOC" =>
              var_buf[Inst.src1] \in Value /\ IntFits(var_buf[Inst.src1])
<1>1. AtInstruction /\ Inst.op \in ops /\ InRange(Inst)
  BY DEF Executing
<1>2. Inst \in RegInstruction /\ InFrame(Inst) /\ Inst.dst \in 0 .. U8 - 1 /\ Inst.src1 \in Nat
  BY <1>1, CurrentInstruction
<1>3. Inst.src2 \in Int
  BY <1>2, WidthsPositive DEF RegInstruction
<1>4. \A r \in SourceRegisters(Inst) : r \in DOMAIN regs /\ regs[r] \in Value /\ IntFits(regs[r])
  BY <1>1 DEF InRange, RunTypeOK, IntsFit
<1>5. Inst.dst \in DOMAIN regs /\ regs[Inst.dst] \in Value /\ IntFits(regs[Inst.dst])
  BY <1>2 DEF RunTypeOK, IntsFit
<1>6. Inst.op = "LOAD_LOC" => var_buf[Inst.src1] \in Value /\ IntFits(var_buf[Inst.src1])
  BY <1>2 DEF InFrame, RunTypeOK, IntsFit
<1> QED BY <1>1, <1>2, <1>3, <1>4, <1>5, <1>6

(* What its addition and its comparisons compute.                          *)
NativeResult ==
  LET a == regs[Inst.src1].v
      b == regs[Inst.src2].v
  IN  IF Inst.op = "ADD" THEN MkInt(WrapInt32(a + b)) ELSE MkBool(Compare(Inst.op, a, b))

LEMMA NativeOperates ==
  ASSUME CompilerInv, CodeInv, RunTypeOK, IntsFit, Executing(CompareOps \cup {"ADD"}), NativeOperandsOK
  PROVE  /\ Inst.op \in BinaryOps
         /\ vm_handles(Inst.op, regs[Inst.src1], regs[Inst.src2])
         /\ vm_binary(Inst.op, regs[Inst.src1], regs[Inst.src2]) = NativeResult
         /\ NativeResult \in Value /\ IntFits(NativeResult)
<1> DEFINE o == Inst.op
           x == regs[Inst.src1]
           y == regs[Inst.src2]
<1>1. o \in CompareOps \cup {"ADD"}
  BY NativeFinds
<1>2. o \in BinaryOps /\ SourceRegisters(Inst) = {Inst.src1, Inst.src2}
  <2>1. o \in BinaryOps
    BY <1>1 DEF BinaryOps, ArithOps
  <2> QED BY <2>1 DEF SourceRegisters, BinaryOps, ArithOps, BitOps, CompareOps
<1>3. x \in Value /\ y \in Value /\ IntFits(x) /\ IntFits(y)
  BY <1>2, NativeFinds
<1>4. x.tag = "int" /\ y.tag = "int" /\ (o = "ADD" => x.v + y.v \in Int32)
  BY DEF NativeOperandsOK, BothInt
<1>5. BothInt(x, y) /\ BothNumbers(x, y) /\ x.v \in Int /\ y.v \in Int
  BY <1>3, <1>4 DEF BothInt, BothNumbers, is_number, Value
<1>6. NativeResult = IF o = "ADD" THEN MkInt(WrapInt32(x.v + y.v)) ELSE MkBool(Compare(o, x.v, y.v))
  BY DEF NativeResult
<1> HIDE DEF o, x, y
<1>7. vm_handles(o, x, y)
  BY <1>1, <1>5 DEF vm_handles, ArithOps, BitOps, CompareOps
<1>8. CASE o = "ADD"
  <2>1. vm_binary(o, x, y) = vm_int_arith(o, x.v, y.v)
    BY <1>5, <1>8 DEF vm_binary, ArithOps, BitOps, CompareOps
  <2>2. vm_int_arith(o, x.v, y.v) = MkInt(x.v + y.v)
    BY <1>4, <1>8 DEF vm_int_arith
  <2>3. MkInt(x.v + y.v) \in Value /\ IntFits(MkInt(x.v + y.v))
    BY <1>4, <1>5, <1>8, MadeValues, MadeFit DEF Primitive
  <2>4. NativeResult = MkInt(x.v + y.v)
    <3>1. x.v + y.v \in Int /\ x.v + y.v \in Int32
      BY <1>4, <1>5, <1>8
    <3>2. WrapInt32(x.v + y.v) = x.v + y.v
      BY <3>1, WrapFits
    <3> QED BY <1>6, <1>8, <3>2
  <2> QED BY <1>2, <1>7, <2>1, <2>2, <2>3, <2>4 DEF o, x, y
<1>9. CASE o \in CompareOps
  <2>1. o # "ADD"
    BY <1>9 DEF CompareOps
  <2>2. vm_binary(o, x, y) = MkBool(Compare(o, x.v, y.v))
    BY <1>9 DEF vm_binary, MkBool, Compare, CompareOps, BitOps, ArithOps
  <2>3. MkBool(Compare(o, x.v, y.v)) \in Value /\ IntFits(MkBool(Compare(o, x.v, y.v)))
    BY MadeValues, MadeFit DEF Primitive
  <2>4. NativeResult = MkBool(Compare(o, x.v, y.v))
    BY <1>6, <2>1
  <2> QED BY <1>2, <1>7, <2>2, <2>3, <2>4 DEF o, x, y
<1> QED BY <1>1, <1>8, <1>9

LEMMA NativeBranches ==
  ASSUME NativeBranch
  PROVE  RunBranch /\ Inst.op \in {"IF_FALSE", "IF_TRUE"} /\ AtInstruction
<1>1. Inst.op \in {"IF_FALSE", "IF_TRUE"} /\ AtInstruction
  BY DEF NativeBranch, Executing
<1>2. ((regs[Inst.dst].v = 0) = (Inst.op = "IF_FALSE")) <=> ((regs[Inst.dst].v # 0) = (Inst.op = "IF_TRUE"))
  BY <1>1
<1> QED BY <1>1, <1>2 DEF NativeBranch, RunBranch

LEMMA NativeRan ==
  ASSUME CompilerInv, CodeInv, RunTypeOK, IntsFit, TemplateStep, ~NativeBail
  PROVE  Ran /\ AtInstruction
<1>1. BinaryOps = {"ADD", "SUB", "MUL", "MOD", "SHL", "SAR", "SHR", "BIT_AND", "BIT_XOR", "BIT_OR",
                   "LT", "LTE", "GT", "GTE", "STRICT_EQ"}
      /\ CompareOps = {"LT", "LTE", "GT", "GTE"}
  BY DEF BinaryOps, ArithOps, BitOps, CompareOps
<1>2. CASE NativePush
  <2>1. Inst.op = "PUSH_I32" /\ AtInstruction /\ WriteReg(MkInt(reg_i32(Inst)))
    BY <1>2 DEF NativePush, Executing
  <2>2. ImmediateValue(Inst) = MkInt(reg_i32(Inst))
    BY <2>1 DEF ImmediateValue
  <2> QED BY <1>1, <2>1, <2>2 DEF Ran, RunPushImmediate
<1>3. CASE NativeLoad
  BY <1>1, <1>3 DEF NativeLoad, Executing, Ran, RunLoadLoc
<1>4. CASE NativeMov
  BY <1>1, <1>4 DEF NativeMov, Executing, Ran, RunMov
<1>5. CASE NativeStore
  <2>1. Inst.op \in {"STORE_LOC", "SET_LOC"} /\ AtInstruction /\ RunStoreLoc
    BY <1>5 DEF NativeStore, Executing, RunStoreLoc
  <2> QED BY <1>1, <2>1 DEF Ran
<1>6. CASE NativeBinary
  <2>1. Executing(CompareOps \cup {"ADD"}) /\ NativeOperandsOK /\ WriteReg(NativeResult)
    BY <1>6 DEF NativeBinary, NativeResult
  <2>2. AtInstruction /\ Inst.op \in CompareOps \cup {"ADD"}
    BY <2>1 DEF Executing
  <2>3. RunBinary
    BY <2>1, NativeOperates DEF RunBinary
  <2> QED BY <1>1, <2>2, <2>3 DEF Ran
<1>7. CASE NativeJump
  BY <1>1, <1>7 DEF NativeJump, Executing, Ran, RunJump
<1>8. CASE NativeBranch
  BY <1>1, <1>8, NativeBranches DEF Ran
<1>9. CASE NativeReturn
  <2>1. Inst.op \in {"RETURN", "RETURN_UNDEF"} /\ AtInstruction /\ UNCHANGED <<vpc, regs, var_buf>>
        /\ vm' = VMReturned(IF Inst.op = "RETURN" THEN regs[Inst.dst] ELSE Undefined)
    BY <1>9 DEF NativeReturn, Executing
  <2> QED BY <1>1, <2>1 DEF Ran, RunReturn, RunReturnUndef
<1> QED BY <1>2, <1>3, <1>4, <1>5, <1>6, <1>7, <1>8, <1>9 DEF TemplateStep

(* Its registers and locals hold values, and its ints are the machine's.   *)
LEMMA NativeKeeps ==
  ASSUME CompilerInv, CodeInv, RunTypeOK, IntsFit, TemplateStep, UNCHANGED refs
  PROVE  RunTypeOK' /\ IntsFit'
<1>1. ASSUME NEW x \in Value, IntFits(x), WriteReg(x)
      PROVE  RunTypeOK' /\ IntsFit'
  <2>1. RunTypeOK'
    BY <1>1, WriteRegType DEF RunTypeOK
  <2> QED BY <1>1, <2>1, WriteFits
<1>2. ASSUME UNCHANGED <<regs, var_buf>>, vpc' \in Nat, vm'.value \in Value,
             vm'.kind \in {"running", "returned", "handed_over", "panicked"}
      PROVE  RunTypeOK' /\ IntsFit'
  BY <1>2 DEF RunTypeOK, IntsFit, IntFits
<1>3. CASE NativePush
  <2>1. Executing({"PUSH_I32"}) /\ WriteReg(MkInt(reg_i32(Inst)))
    BY <1>3 DEF NativePush
  <2>2. Inst.src1 \in Int /\ Inst.src2 \in Int /\ U16 \in Int
    BY <2>1, NativeFinds, WidthsPositive
  <2>3. Inst.src1 + Inst.src2 * U16 \in Int
    BY <2>2
  <2>4. reg_i32(Inst) \in Int32 /\ reg_i32(Inst) \in Int
    BY <2>3, WrapFits, WrapIsInt DEF reg_i32
  <2>5. MkInt(reg_i32(Inst)) \in Value /\ IntFits(MkInt(reg_i32(Inst)))
    BY <2>4, MadeValues, MadeFit DEF Primitive
  <2> QED BY <1>1, <2>1, <2>5
<1>4. CASE NativeLoad
  <2>1. Executing({"LOAD_LOC"}) /\ WriteReg(var_buf[Inst.src1])
    BY <1>4 DEF NativeLoad
  <2>2. Inst.op = "LOAD_LOC" /\ var_buf[Inst.src1] \in Value /\ IntFits(var_buf[Inst.src1])
    BY <2>1, NativeFinds
  <2> QED BY <1>1, <2>1, <2>2
<1>5. CASE NativeMov
  <2>1. Executing({"MOV"}) /\ WriteReg(regs[Inst.src1])
    BY <1>5 DEF NativeMov
  <2>2. SourceRegisters(Inst) = {Inst.src1}
    BY <2>1, NativeFinds DEF SourceRegisters, BinaryOps, ArithOps, BitOps, CompareOps
  <2>3. regs[Inst.src1] \in Value /\ IntFits(regs[Inst.src1])
    BY <2>1, <2>2, NativeFinds
  <2> QED BY <1>1, <2>1, <2>3
<1>6. CASE NativeStore
  <2> DEFINE val == regs[Inst.src1]
  <2>1. Executing({"STORE_LOC", "SET_LOC"})
    BY <1>6 DEF NativeStore
  <2>2. SourceRegisters(Inst) = {Inst.src1}
    BY <2>1, NativeFinds DEF SourceRegisters, BinaryOps, ArithOps, BitOps, CompareOps
  <2>3. val \in Value /\ IntFits(val)
    BY <2>1, <2>2, NativeFinds
  <2>4. var_buf' = [var_buf EXCEPT ![Inst.dst] = val] /\ vpc' = vpc + 1 /\ regs' = regs /\ vm' = vm
    BY <1>6 DEF NativeStore
  <2> HIDE DEF val
  <2>5. var_buf' \in [0 .. NumLocals - 1 -> Value]
    BY <2>3, <2>4 DEF RunTypeOK
  <2>8. vpc' \in Nat
    BY <2>4 DEF RunTypeOK
  <2>6. DOMAIN var_buf' = DOMAIN var_buf /\ \A i \in DOMAIN var_buf : IntFits(var_buf'[i])
    BY <2>3, <2>4 DEF IntsFit
  <2>7. IntsFit'
    BY <2>4, <2>6 DEF IntsFit, IntFits
  <2> QED BY <2>4, <2>5, <2>7, <2>8 DEF RunTypeOK
<1>7. CASE NativeBinary
  <2>1. Executing(CompareOps \cup {"ADD"}) /\ NativeOperandsOK /\ WriteReg(NativeResult)
    BY <1>7 DEF NativeBinary, NativeResult
  <2> QED BY <1>1, <2>1, NativeOperates
<1>8. CASE NativeJump
  <2>1. Executing({"JMP"}) /\ vpc' = Inst.src1 /\ UNCHANGED <<regs, var_buf, vm>>
    BY <1>8 DEF NativeJump
  <2>2. vpc' \in Nat
    BY <2>1, NativeFinds
  <2> QED BY <1>2, <2>1, <2>2 DEF RunTypeOK
<1>9. CASE NativeBranch
  <2>1. Executing({"IF_FALSE", "IF_TRUE"}) /\ vpc' \in {Inst.src1, vpc + 1} /\ UNCHANGED <<regs, var_buf, vm>>
    BY <1>9 DEF NativeBranch
  <2>2. vpc' \in Nat
    BY <2>1, NativeFinds DEF RunTypeOK
  <2> QED BY <1>2, <2>1, <2>2 DEF RunTypeOK
<1>10. CASE NativeReturn
  <2>1. Executing({"RETURN", "RETURN_UNDEF"}) /\ UNCHANGED <<vpc, regs, var_buf>>
        /\ vm' = VMReturned(IF Inst.op = "RETURN" THEN regs[Inst.dst] ELSE Undefined)
    BY <1>10 DEF NativeReturn
  <2>2. vm'.kind = "returned" /\ vm'.value \in Value
    BY <2>1, NativeFinds, MadeValues DEF VMReturned, Primitive
  <2> QED BY <1>2, <2>1, <2>2 DEF RunTypeOK
<1>11. CASE NativeBail
  <2>1. UNCHANGED <<vpc, regs, var_buf>> /\ vm'.kind = "handed_over" /\ vm'.value \in Value
    BY <1>11, MadeValues DEF NativeBail, VMBailed, Primitive
  <2> QED BY <1>2, <2>1 DEF RunTypeOK
<1> QED BY <1>3, <1>4, <1>5, <1>6, <1>7, <1>8, <1>9, <1>10, <1>11 DEF TemplateStep

-----------------------------------------------------------------------------
(* A call.                                                                 *)

(* The code returns o.                                                     *)
EndsWith(code, o) == o # VMRunning /\ \E s : ComesTo(code, s) /\ s.outcome = o

LEMMA OneOutcome ==
  ASSUME NEW code, NEW o, NEW u, EndsWith(code, o), EndsWith(code, u)
  PROVE  o = u
BY OneEnd DEF EndsWith

(* It returns o, or the same number represented as o is.                   *)
EndsLike(code, o) == \E u : EndsWith(code, u) /\ SameOutcome(o, u)

LEMMA EndsAsItIs == ASSUME NEW code, NEW o, EndsWith(code, o) PROVE EndsLike(code, o)
BY DEF EndsLike, SameOutcome, SameValue

CodeReady == CompilerInv /\ JumpsInv /\ CodeInv /\ ExpandInv
Registered == result = "ok" => FitsRegisters

FreshFrame == vpc = 0 /\ regs = FreshRegisters /\ var_buf = FreshLocals /\ vm = VMRunning /\ refs \in Int
FreshC == spc = 0 /\ stack = <<>> /\ outcome = VMRunning

(* The comparison run, the tiers and the C interpreter after them all go   *)
(* along the one run of the code, until a tier gives up with locals        *)
(* written; the code of a recognised loop goes to its end in one step, and *)
(* of the value it returns no type is known.                               *)
CallInv ==
  /\ tier \in {"reference", "compile", "c", "done"} \cup Tiers
  /\ tier \in {"reference", "compile"} => FreshFrame
  /\ tier = "reference" => ComesTo(bytecode, ReferenceState)
  /\ tier # "reference" => EndsWith(bytecode, expected)
  /\ tier \in {"compile"} \cup Tiers => FreshC
  /\ tier \in Tiers => result = "ok" /\ WhereInv /\ (vm.kind # "returned" => RunTypeOK /\ IntsFit)
  /\ tier \in Tiers /\ ~dirty /\ vm.kind = "running" => ComesTo(bytecode, TierState)
  /\ tier \in Tiers /\ ~dirty /\ vm.kind = "returned" => EndsLike(bytecode, vm)
  /\ tier = "c" /\ ~dirty => ComesTo(bytecode, CState)
  /\ tier = "done" /\ ~dirty => EndsLike(bytecode, outcome)

LEMMA FreshTypes ==
  /\ FreshRegisters \in [0 .. U8 - 1 -> Value]
  /\ \A r \in DOMAIN FreshRegisters : IntFits(FreshRegisters[r])
  /\ FreshLocals \in [0 .. NumLocals - 1 -> Value]
  /\ \A i \in DOMAIN FreshLocals : IntFits(FreshLocals[i])
  /\ VMRunning.kind = "running" /\ VMRunning.value \in Value
<1>1. Undefined \in Value /\ IntFits(Undefined)
  BY MadeValues, MadeFit DEF Primitive
<1> QED BY <1>1 DEF FreshRegisters, FreshLocals, VMRunning

LEMMA CallInside == CallSpec => CompilerSafety
<1>1. CallInit => CompilerInit
  BY DEF CallInit
<1>2. [CallNext]_call_vars => [CompilerNext]_compiler_vars
  <2> SUFFICES ASSUME [CallNext]_call_vars PROVE [CompilerNext]_compiler_vars
    OBVIOUS
  <2>1. CASE Compile
    BY <2>1 DEF Compile
  <2>2. CASE RunReference \/ BeginCall \/ EnterFirstTier \/ RunTier \/ TierReturns \/ TierGivesUp \/ CReturns
    BY <2>2 DEF RunReference, BeginCall, EnterFirstTier, RunTier, TierReturns, TierGivesUp, CReturns, vm_vars
  <2>3. CASE RunC
    <3>1. bytecode' = bytecode
      BY <2>3, CGoes DEF RunC
    <3> QED BY <2>3, <3>1 DEF RunC, compiler_vars
  <2>4. CASE UNCHANGED call_vars
    BY <2>4 DEF call_vars, vm_vars
  <2> QED BY <2>1, <2>2, <2>3, <2>4 DEF CallNext
<1> QED BY <1>1, <1>2, PTL DEF CallSpec, CompilerSafety

LEMMA CallStarts == CallInit => CallInv
<1> SUFFICES ASSUME CallInit PROVE CallInv
  OBVIOUS
<1>1. /\ tier = "reference" /\ spc = 0 /\ stack = <<>> /\ ref_locals = FreshLocals
      /\ outcome = VMRunning /\ FreshFrame
  BY ReferenceSameConstants
     DEF CallInit, Reference!Start, Reference!Running, VMRunning, VMInit, FreshFrame, FreshLocals
<1>2. ComesTo(bytecode, ReferenceState)
  BY <1>1, RunStarts DEF ReferenceState, FirstState
<1> QED BY <1>1, <1>2 DEF CallInv, Tiers

(* The comparison run.                                                     *)
LEMMA ReferenceKeeps ==
  ASSUME CallInv, RunReference \/ BeginCall
  PROVE  CallInv'
<1>1. tier = "reference" /\ FreshFrame /\ ComesTo(bytecode, ReferenceState)
  BY DEF CallInv, RunReference, BeginCall
<1>2. CASE RunReference
  <2>1. outcome = VMRunning /\ bytecode' = bytecode /\ ReferenceState' = After(bytecode, ReferenceState)
    BY <1>2, ReferenceGoes DEF RunReference, ReferenceState
  <2>2. ReferenceState.outcome = VMRunning
    BY <2>1 DEF ReferenceState, MachineState
  <2>3. ComesTo(bytecode, ReferenceState')
    BY <1>1, <2>1, <2>2, RunGoesOn
  <2>4. ComesTo(bytecode', ReferenceState')
    BY <2>1, <2>3
  <2>5. tier' = "reference" /\ FreshFrame'
    BY <1>1, <1>2 DEF RunReference, FreshFrame, run_vars
  <2> QED BY <2>4, <2>5 DEF CallInv, Tiers
<1>3. CASE BeginCall
  <2>1. outcome # VMRunning
    BY <1>3, ReferenceSameConstants DEF BeginCall, Reference!Running, VMRunning
  <2>2. ReferenceState.outcome = outcome
    BY DEF ReferenceState, MachineState
  <2>3. EndsWith(bytecode, outcome)
    BY <1>1, <2>1, <2>2 DEF EndsWith
  <2>4. bytecode' = bytecode /\ expected' = outcome /\ tier' = "compile" /\ FreshFrame'
    BY <1>1, <1>3 DEF BeginCall, FreshFrame, run_vars, compiler_vars
  <2>5. FreshC'
    BY <1>3, ReferenceSameConstants DEF BeginCall, FreshC, Reference!Running, VMRunning
  <2>6. EndsWith(bytecode', expected')
    BY <2>3, <2>4
  <2> QED BY <2>4, <2>5, <2>6 DEF CallInv, Tiers
<1> QED BY <1>2, <1>3

(* A tier starts: at the first instruction, with fresh registers.          *)
LEMMA BeginsThen == CodeIsLaidOut' => Begins'
BY BeginsHolds, PTL

LEMMA TierStarts ==
  ASSUME CodeReady', result' = "ok", vpc' = 0, regs' = FreshRegisters, vm' = VMRunning, refs' \in Int,
         var_buf' \in [0 .. NumLocals - 1 -> Value], \A i \in DOMAIN var_buf' : IntFits(var_buf'[i])
  PROVE  /\ RunTypeOK' /\ IntsFit' /\ WhereInv'
         /\ var_buf' = FreshLocals => TierState' = FirstState
<1>1. RunTypeOK'
  BY FreshTypes DEF RunTypeOK
<1>2. IntsFit'
  BY FreshTypes DEF IntsFit, IntFits
<1>3. CodeIsLaidOut'
  BY <1>1 DEF CodeReady, CodeIsLaidOut
<1>4. SourcePc' = 0 /\ SourceStack' = <<>> /\ There(vpc, regs, var_buf)'
  BY <1>3, BeginsThen DEF Begins
<1>5. WhereInv'
  BY <1>4 DEF WhereInv
<1> QED BY <1>1, <1>2, <1>4, <1>5 DEF TierState, FirstState

LEMMA EntryKeeps ==
  ASSUME CallInv, CodeReady', Compile \/ EnterFirstTier
  PROVE  CallInv'
<1>1. tier = "compile" /\ FreshFrame /\ FreshC /\ EndsWith(bytecode, expected)
  BY DEF CallInv, Compile, EnterFirstTier, Tiers
<1>2. CASE Compile
  <2>1. bytecode' = bytecode
    BY <1>2, CompilingWaits DEF Compile
  <2>2. EndsWith(bytecode', expected')
    BY <1>1, <1>2, <2>1 DEF Compile
  <2>3. tier' = "compile" /\ FreshFrame' /\ FreshC'
    BY <1>1, <1>2 DEF Compile, FreshFrame, FreshC, run_vars, c_vars
  <2> QED BY <2>2, <2>3 DEF CallInv, Tiers
<1>3. CASE EnterFirstTier
  <2>1. /\ UNCHANGED <<compiler_vars, run_vars, spc, stack, outcome, expected, dirty>>
        /\ tier' \in FirstTiers /\ result \in {"ok", "err"}
    BY <1>3 DEF EnterFirstTier, vm_vars, c_vars
  <2>2. bytecode' = bytecode /\ result' = result
    BY <2>1 DEF compiler_vars
  <2>3. FreshFrame' /\ FreshC' /\ EndsWith(bytecode', expected')
    BY <1>1, <2>1, <2>2 DEF FreshFrame, FreshC, run_vars
  <2>4. (tier' \in Tiers /\ result = "ok") \/ tier' = "c"
    BY <2>1 DEF FirstTiers, FreshCode, AfterMiss, Tiers
  <2>5. CASE tier' \in Tiers /\ result = "ok"
    <3>1. RunTypeOK' /\ IntsFit' /\ WhereInv' /\ TierState' = FirstState
      BY <2>2, <2>3, <2>5, TierStarts, FreshTypes DEF FreshFrame
    <3>2. ComesTo(bytecode', TierState')
      BY <3>1, RunStarts
    <3>3. vm'.kind = "running"
      BY <2>3 DEF FreshFrame, VMRunning
    <3> QED BY <2>2, <2>3, <2>5, <3>1, <3>2, <3>3 DEF CallInv, Tiers
  <2>6. CASE tier' = "c"
    <3>1. CState' = FirstState
      BY <2>3 DEF FreshFrame, FreshC, CState, FirstState
    <3>2. ComesTo(bytecode', CState')
      BY <3>1, RunStarts
    <3> QED BY <2>3, <2>6, <3>2 DEF CallInv, Tiers
  <2> QED BY <2>4, <2>5, <2>6
<1> QED BY <1>2, <1>3

(* A step of a tier.                                                       *)
LEMMA TierRuns ==
  ASSUME NativeStep \/ VMStep
  PROVE  vm = VMRunning
<1>1. CASE NativeStep
  BY <1>1 DEF NativeStep, NativeFolded, TemplateStep, NativePush, NativeLoad, NativeMov, NativeStore, NativeBinary,
       NativeJump, NativeBranch, NativeReturn, NativeBail, Executing, AtInstruction
<1>2. CASE VMStep
  BY <1>2 DEF VMStep, VMPushImmediate, VMPushConst, VMDrop, VMMov, VMLoadLoc, VMStoreLoc, VMBinary, VMJump,
       VMBranch, VMReturn, VMReturnUndef, VMBail, VMPanic, Unhandled, Executing, AtInstruction
<1> QED BY <1>1, <1>2

LEMMA TierMoves ==
  ASSUME CodeIsLaidOut, IntsFit, InScope, FitsRegisters, WhereInv, result = "ok",
         \/ TemplateStep /\ UNCHANGED refs
         \/ VMStep,
         UNCHANGED compiler_vars
  PROVE  RunTypeOK' /\ IntsFit' /\ (vm' = VMBailed \/ Explained)
<1>1. CompilerInv /\ CodeInv /\ RunTypeOK
  BY DEF CodeIsLaidOut
<1>2. CASE TemplateStep /\ UNCHANGED refs
  <2>1. RunTypeOK' /\ IntsFit'
    BY <1>1, <1>2, NativeKeeps
  <2>2. CASE NativeBail
    BY <2>1, <2>2 DEF NativeBail
  <2>3. CASE ~NativeBail
    <3>1. Ran /\ AtInstruction
      BY <1>1, <1>2, <2>3, NativeRan
    <3> QED BY <2>1, <3>1, RanIsExplained
  <2> QED BY <2>2, <2>3
<1>3. CASE VMStep
  <2>1. RunTypeOK' /\ IntsFit'
    BY <1>1, <1>3, VMStepType, StepKeepsInts
  <2> QED BY <1>3, <2>1, StepIsExplained
<1> QED BY <1>2, <1>3

LEMMA TierFollows ==
  ASSUME UNCHANGED compiler_vars, ComesTo(bytecode, TierState), vm = VMRunning, Explained,
         vm'.kind \in {"running", "returned"}
  PROVE  ComesTo(bytecode', TierState')
<1>1. bytecode' = bytecode
  BY DEF compiler_vars
<1>2. TierState.outcome = VMRunning
  BY DEF TierState, MachineState
<1>3. CASE Machine!Step
  <2>1. TierState' = After(bytecode, TierState)
    BY <1>3, MachineGoes DEF TierState
  <2>2. ComesTo(bytecode, TierState')
    BY <1>2, <2>1, RunGoesOn
  <2> QED BY <1>1, <2>2
<1>4. CASE Machine!HandOver
  BY <1>4 DEF Machine!HandOver, Machine!HandedOver
<1>5. CASE UNCHANGED Machine!machine_vars
  <2>1. TierState' = TierState
    BY <1>5 DEF Machine!machine_vars, TierState
  <2> QED BY <1>1, <2>1
<1> QED BY <1>3, <1>4, <1>5 DEF Explained

LEMMA TierKeeps ==
  ASSUME CallInv, CodeReady, InScope, Registered, FoldsAreExact, RunTier
  PROVE  CallInv'
<1>1. tier \in Tiers /\ UNCHANGED compiler_vars
  BY DEF RunTier, Tiers
<1>2. /\ UNCHANGED <<tier, spc, stack, outcome, expected, dirty>>
      /\ (NativeStep /\ UNCHANGED refs) \/ VMStep
  BY DEF RunTier, c_vars
<1>3. vm = VMRunning
  BY <1>2, TierRuns
<1>4. /\ result = "ok" /\ RunTypeOK /\ IntsFit /\ WhereInv /\ FreshC /\ EndsWith(bytecode, expected)
      /\ FitsRegisters /\ (~dirty => ComesTo(bytecode, TierState))
  BY <1>1, <1>3 DEF CallInv, Registered, Tiers, VMRunning
<1>5. CodeIsLaidOut
  BY <1>4 DEF CodeReady, CodeIsLaidOut
<1>6. /\ result' = result /\ bytecode' = bytecode
      /\ There(vpc, regs, var_buf)' <=> There(vpc', regs', var_buf')
  BY <1>1, CodeStays
<1>7. FreshC' /\ EndsWith(bytecode', expected') /\ result' = "ok"
  BY <1>2, <1>4, <1>6 DEF FreshC
<1>8. CASE NativeFolded
  <2>1. PICK x \in Recognised(reg_instructions) : vm' = VMReturned(x)
    BY <1>8 DEF NativeFolded
  <2>2. SameOutcome(vm', expected)
    BY <1>4, <2>1 DEF FoldsAreExact
  <2>3. EndsLike(bytecode', vm')
    BY <1>4, <1>6, <2>2 DEF EndsLike
  <2>4. vm'.kind = "returned" /\ vm' # VMRunning
    BY <2>1 DEF VMReturned, VMRunning
  <2>5. WhereInv'
    BY <1>7, <2>4 DEF WhereInv
  <2> QED BY <1>1, <1>2, <1>7, <2>3, <2>4, <2>5 DEF CallInv, Tiers
<1>9. CASE ~NativeFolded
  <2>1. RunTypeOK' /\ IntsFit' /\ (vm' = VMBailed \/ Explained)
    BY <1>1, <1>2, <1>4, <1>5, <1>9, TierMoves DEF NativeStep
  <2>2. WhereInv'
    <3>1. vm' = VMRunning => There(vpc, regs, var_buf)'
      BY <1>6, <2>1 DEF Explained, VMRunning, VMBailed
    <3> QED BY <1>4, <1>6, <3>1 DEF WhereInv, VMRunning
  <2>3. ASSUME ~dirty', vm'.kind \in {"running", "returned"} PROVE ComesTo(bytecode', TierState')
    <3>1. Explained
      BY <2>1, <2>3 DEF VMBailed
    <3>2. ComesTo(bytecode, TierState)
      BY <1>2, <1>4, <2>3
    <3> QED BY <1>1, <1>3, <2>3, <3>1, <3>2, TierFollows
  <2>4. ASSUME ~dirty', vm'.kind = "returned" PROVE EndsLike(bytecode', vm')
    <3>1. ComesTo(bytecode', TierState') /\ TierState'.outcome = vm'
      BY <2>3, <2>4 DEF TierState, MachineState
    <3>2. EndsWith(bytecode', vm')
      BY <2>4, <3>1 DEF EndsWith, VMRunning
    <3> QED BY <3>2, EndsAsItIs
  <2> QED BY <1>1, <1>2, <1>7, <2>1, <2>2, <2>3, <2>4 DEF CallInv, Tiers
<1> QED BY <1>8, <1>9

(* A tier gives up or returns.                                             *)
LEMMA GivingUpKeeps ==
  ASSUME CallInv, CodeReady', TierGivesUp
  PROVE  CallInv'
<1>1. /\ tier \in Tiers /\ vm.kind = "handed_over" /\ tier' \in NextTier[tier]
      /\ vpc' = 0 /\ regs' = FreshRegisters /\ vm' = VMRunning
      /\ dirty' = (dirty \/ var_buf # FreshLocals)
      /\ UNCHANGED <<compiler_vars, var_buf, refs, spc, stack, outcome, expected>>
  BY DEF TierGivesUp, c_vars
<1>2. result = "ok" /\ RunTypeOK /\ IntsFit /\ FreshC /\ EndsWith(bytecode, expected)
  BY <1>1 DEF CallInv, Tiers
<1>3. result' = "ok" /\ bytecode' = bytecode
  BY <1>1, <1>2 DEF compiler_vars
<1>4. /\ refs' \in Int /\ var_buf' \in [0 .. NumLocals - 1 -> Value]
      /\ \A i \in DOMAIN var_buf' : IntFits(var_buf'[i])
  BY <1>1, <1>2 DEF RunTypeOK, IntsFit
<1>5. RunTypeOK' /\ IntsFit' /\ WhereInv' /\ (var_buf' = FreshLocals => TierState' = FirstState)
  BY <1>1, <1>3, <1>4, TierStarts
<1>6. FreshC' /\ EndsWith(bytecode', expected')
  BY <1>1, <1>2, <1>3 DEF FreshC
<1>7. tier' \in Tiers \cup {"c"}
  BY <1>1 DEF NextTier, FreshCode, AfterMiss, Tiers
<1>8. ~dirty' => ComesTo(bytecode', TierState') /\ ComesTo(bytecode', CState')
  <2> SUFFICES ASSUME ~dirty' PROVE ComesTo(bytecode', TierState') /\ ComesTo(bytecode', CState')
    OBVIOUS
  <2>1. var_buf' = FreshLocals
    BY <1>1
  <2>2. TierState' = FirstState
    BY <1>5, <2>1
  <2>3. CState' = FirstState
    BY <1>6, <2>1 DEF FreshC, CState, FirstState
  <2> QED BY <2>2, <2>3, RunStarts
<1>9. vm'.kind = "running"
  BY <1>1 DEF VMRunning
<1> QED BY <1>3, <1>5, <1>6, <1>7, <1>8, <1>9 DEF CallInv, Tiers

LEMMA ReturningKeeps ==
  ASSUME CallInv, TierReturns \/ CReturns
  PROVE  CallInv'
<1>1. /\ tier' = "done" /\ UNCHANGED <<compiler_vars, expected, dirty>> /\ bytecode' = bytecode
      /\ tier \in Tiers \cup {"c"}
  BY DEF TierReturns, CReturns, vm_vars, compiler_vars
<1>2. EndsWith(bytecode', expected')
  <2>1. tier # "reference"
    BY <1>1 DEF Tiers
  <2> QED BY <1>1, <2>1 DEF CallInv
<1>3. ~dirty => EndsLike(bytecode', outcome')
  <2> SUFFICES ASSUME ~dirty PROVE EndsLike(bytecode', outcome')
    OBVIOUS
  <2>1. CASE TierReturns
    BY <1>1, <2>1 DEF TierReturns, CallInv
  <2>2. CASE CReturns
    <3>1. tier = "c" /\ outcome.kind = "returned" /\ outcome' = outcome
      BY <2>2 DEF CReturns, c_vars
    <3>2. ComesTo(bytecode, CState) /\ CState.outcome = outcome
      BY <3>1 DEF CallInv, CState, MachineState
    <3>3. EndsWith(bytecode, outcome)
      BY <3>1, <3>2 DEF EndsWith, VMRunning
    <3> QED BY <1>1, <3>1, <3>3, EndsAsItIs
  <2> QED BY <1>1, <2>1, <2>2
<1> QED BY <1>1, <1>2, <1>3 DEF CallInv, Tiers

(* The C interpreter goes on where it is.                                  *)
LEMMA CKeeps ==
  ASSUME CallInv, RunC
  PROVE  CallInv'
<1>1. /\ tier = "c" /\ tier' = "c" /\ expected' = expected /\ dirty' = dirty
      /\ outcome = VMRunning /\ bytecode' = bytecode /\ CState' = After(bytecode, CState)
  BY CGoes DEF RunC, CState
<1>2. EndsWith(bytecode', expected')
  BY <1>1 DEF CallInv
<1>3. ~dirty' => ComesTo(bytecode', CState')
  <2> SUFFICES ASSUME ~dirty' PROVE ComesTo(bytecode', CState')
    OBVIOUS
  <2>1. ComesTo(bytecode, CState) /\ CState.outcome = VMRunning
    BY <1>1 DEF CallInv, CState, MachineState
  <2>2. ComesTo(bytecode, CState')
    BY <1>1, <2>1, RunGoesOn
  <2> QED BY <1>1, <2>2
<1> QED BY <1>1, <1>2, <1>3 DEF CallInv, Tiers

LEMMA CallKeeps ==
  ASSUME CallInv, CodeReady, CodeReady', InScope, Registered, FoldsAreExact, [CallNext]_call_vars
  PROVE  CallInv'
<1>1. CASE RunReference \/ BeginCall
  BY <1>1, ReferenceKeeps
<1>2. CASE Compile \/ EnterFirstTier
  BY <1>2, EntryKeeps
<1>3. CASE RunTier
  BY <1>3, TierKeeps
<1>4. CASE TierGivesUp
  BY <1>4, GivingUpKeeps
<1>5. CASE TierReturns \/ CReturns
  BY <1>5, ReturningKeeps
<1>6. CASE RunC
  BY <1>6, CKeeps
<1>7. CASE UNCHANGED call_vars
  <2>1. /\ UNCHANGED <<compiler_vars, vpc, regs, var_buf, refs, vm>>
        /\ UNCHANGED <<tier, spc, stack, outcome, ref_locals, expected, dirty>>
    BY <1>7 DEF call_vars, vm_vars, run_vars, c_vars
  <2>2. UNCHANGED <<bytecode, pc_to_inst_idx, result>>
    BY <2>1 DEF compiler_vars
  <2>3. SourcePc' = SourcePc
    BY <2>1, <2>2 DEF SourcePc, Mapped
  <2>4. SourceStack' = SourceStack
    BY <2>1, <2>2, <2>3 DEF SourceStack, HeightAt
  <2>5. ReferenceState' = ReferenceState /\ CState' = CState /\ TierState' = TierState
    BY <2>1, <2>3, <2>4 DEF ReferenceState, CState, TierState
  <2>6. RunTypeOK' = RunTypeOK /\ (IntsFit => IntsFit')
    BY <2>1 DEF RunTypeOK, IntsFit, IntFits
  <2>7. WhereInv => WhereInv'
    BY <2>1, CodeStays DEF WhereInv, VMRunning
  <2>8. FreshFrame' = FreshFrame /\ FreshC' = FreshC
    BY <2>1 DEF FreshFrame, FreshC
  <2> QED BY <2>1, <2>2, <2>5, <2>6, <2>7, <2>8 DEF CallInv
<1> QED BY <1>1, <1>2, <1>3, <1>4, <1>5, <1>6, <1>7 DEF CallNext

(* Whatever tiers a call goes through, native code, cached or not, the VM  *)
(* and the C interpreter, and wherever they give up: as long as none gave  *)
(* up with locals written, the caller gets the value the C interpreter     *)
(* alone returns, a number perhaps in its other representation.  For every *)
(* bytecode in scope that has the registers it needs (without them the VM  *)
(* itself is wrong), and, where it is one of the recognised loops, is      *)
(* folded to the number it computes: which rounded sums, hash operands and *)
(* a local in two roles are not.                                           *)
THEOREM CallFallbackIsInvisible ==
  CallSpec /\ []InScope /\ [](result = "ok" => FitsRegisters) /\ []FoldsAreExact
    => []CleanFallbackIsInvisible
<1>1. CodeReady <=> CompilerInv /\ JumpsInv /\ CodeInv /\ ExpandInv
  BY DEF CodeReady
<1>2. Registered <=> (result = "ok" => FitsRegisters)
  BY DEF Registered
<1>3. CallInv /\ CodeReady /\ CodeReady' /\ InScope /\ Registered /\ FoldsAreExact /\ [CallNext]_call_vars
        => CallInv'
  BY CallKeeps
<1>4. CallInv => CleanFallbackIsInvisible
  <2> SUFFICES ASSUME CallInv, tier = "done", ~dirty PROVE SameOutcome(outcome, expected)
    BY DEF CleanFallbackIsInvisible
  <2>1. EndsLike(bytecode, outcome) /\ EndsWith(bytecode, expected)
    BY DEF CallInv
  <2>2. PICK u : EndsWith(bytecode, u) /\ SameOutcome(outcome, u)
    BY <2>1 DEF EndsLike
  <2> QED BY <2>1, <2>2, OneOutcome
<1> QED
  BY <1>1, <1>2, <1>3, <1>4, CallStarts, CallInside, CompilerInvHolds, JumpsInvHolds, CodeInvHolds,
     ExpandInvHolds, PTL DEF CallSpec
=============================================================================
