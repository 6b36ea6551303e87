----------------------------- MODULE RegCompiler -----------------------------
(***************************************************************************)
(* compile_bytecode of libquickjs-sys/src/compiler.rs: one pass over the   *)
(* stack bytecode that simulates the height of the operand stack and       *)
(* replaces the slot at height h by virtual register h, then a second pass *)
(* that turns the offsets of the jumps into instruction indices.           *)
(*                                                                         *)
(* One action per group of opcodes the first pass translates alike, one    *)
(* per way it gives up, and one per jump of the second pass.               *)
(***************************************************************************)
EXTENDS Bytecode

CONSTANT Bytecodes    (* The bytecodes the compiler may be given.            *)

ASSUME BytecodesAssumption == Bytecodes \subseteq Seq(Cell)

VARIABLES
  bytecode,           (* The slice being compiled.                           *)
  pc,                 (* Offset of the instruction the first pass looks at.  *)
  stack_height,       (* Simulated height, carried linearly over the code.   *)
  reg_instructions,   (* The register code emitted so far.                   *)
  pc_to_inst_idx,     (* Index of the first instruction emitted for a pc.    *)
  jumps_to_patch,     (* Jumps whose target is still a bytecode offset.      *)
  result              (* "scanning", "patching", "ok" or "err".              *)

compiler_vars == <<bytecode, pc, stack_height, reg_instructions, pc_to_inst_idx,
                   jumps_to_patch, result>>

None == -1

Reg(op, dst, src1, src2) ==
  [op |-> op, dst |-> AsU8(dst), src1 |-> AsU16(src1), src2 |-> AsU16(src2)]

CompilerInit ==
  /\ bytecode \in Bytecodes
  /\ pc = 0
  /\ stack_height = 0
  /\ reg_instructions = <<>>
  /\ pc_to_inst_idx = [p \in 0 .. Len(bytecode) |-> None]
  /\ jumps_to_patch = <<>>
  /\ result = "scanning"

-----------------------------------------------------------------------------
(* The first pass.                                                         *)

Cell0 == bytecode[pc + 1]
(* Mutant: an operand that ends one byte past the slice is accepted.       *)
OperandMissing_OffByOne == pc + Cell0.size > Len(bytecode) + 1

OperandMissing == pc + Cell0.size > Len(bytecode)
Underflow == \/ Cell0.op \in NeedsOne /\ stack_height = 0
             \/ Cell0.op \in NeedsTwo /\ stack_height < 2

Scanning == result = "scanning" /\ pc < Len(bytecode)

Decode(opcodes) ==
  /\ Scanning
  /\ Cell0.op \in opcodes
  /\ ~OperandMissing
  /\ ~Underflow

(* Mutant: the index recorded is that of the next expansion.               *)
Emit_IndexAfter(code, height) ==
  /\ pc_to_inst_idx' = [pc_to_inst_idx EXCEPT ![pc] = Len(reg_instructions) + Len(code)]
  /\ reg_instructions' = reg_instructions \o code
  /\ stack_height' = height
  /\ pc' = pc + Cell0.size
  /\ UNCHANGED <<bytecode, result>>

(* Emit `code` for the instruction at pc and go on at the next one with    *)
(* the stack `height` high.                                                *)
Emit(code, height) ==
  /\ pc_to_inst_idx' = [pc_to_inst_idx EXCEPT ![pc] = Len(reg_instructions)]
  /\ reg_instructions' = reg_instructions \o code
  /\ stack_height' = height
  /\ pc' = pc + Cell0.size
  /\ UNCHANGED <<bytecode, result>>

PushInt(dst, n) == [op |-> "PUSH_I32", dst |-> AsU8(dst),
                    src1 |-> LowHalf(n), src2 |-> HighHalf(n)]

PushI32 ==
  /\ Decode({"push_i32"})
  /\ Emit(<<PushInt(stack_height, Cell0.arg)>>, stack_height + 1)
  /\ UNCHANGED jumps_to_patch

PushConst ==
  /\ Decode({"push_const"})
  /\ Emit(<<Reg("PUSH_CONST", stack_height, Cell0.arg, 0)>>, stack_height + 1)
  /\ UNCHANGED jumps_to_patch

PushPrimitive ==
  /\ Decode(PrimitiveOpcodes)
  /\ Emit(<<Reg(RegOpOf[Cell0.op], stack_height, 0, 0)>>, stack_height + 1)
  /\ UNCHANGED jumps_to_patch

Drop ==
  /\ Decode({"drop"})
  /\ Emit(<<Reg("DROP", stack_height - 1, 0, 0)>>, stack_height - 1)
  /\ UNCHANGED jumps_to_patch

(* Mutant: the slot below the top is copied.                               *)
Dup_SlotBelow ==
  /\ Decode({"dup"})
  /\ Emit(<<Reg("MOV", stack_height, stack_height - 2, 0)>>, stack_height + 1)
  /\ UNCHANGED jumps_to_patch

Dup ==
  /\ Decode({"dup"})
  /\ Emit(<<Reg("MOV", stack_height, stack_height - 1, 0)>>, stack_height + 1)
  /\ UNCHANGED jumps_to_patch

GetLoc ==
  /\ Decode({"get_loc"})
  /\ Emit(<<Reg("LOAD_LOC", stack_height, Cell0.arg, 0)>>, stack_height + 1)
  /\ UNCHANGED jumps_to_patch

GetLoc0Loc1 ==
  /\ Decode({"get_loc0_loc1"})
  /\ Emit(<<Reg("LOAD_LOC", stack_height, 0, 0), Reg("LOAD_LOC", stack_height + 1, 1, 0)>>,
          stack_height + 2)
  /\ UNCHANGED jumps_to_patch

(* The local's number, a u16 operand of put_loc, is cut to the u8 dst.     *)
PutLoc ==
  /\ Decode({"put_loc"})
  /\ Emit(<<Reg("STORE_LOC", Cell0.arg, stack_height - 1, 0)>>, stack_height - 1)
  /\ UNCHANGED jumps_to_patch

SetLoc ==
  /\ Decode({"set_loc"})
  /\ Emit(<<Reg("SET_LOC", Cell0.arg, stack_height - 1, 0)>>, stack_height)
  /\ UNCHANGED jumps_to_patch

AddLoc ==
  /\ Decode({"add_loc"})
  /\ LET temp_reg == AsU8(stack_height)
     IN  Emit(<<Reg("LOAD_LOC", temp_reg, Cell0.arg, 0),
                Reg("ADD", temp_reg, temp_reg, stack_height - 1),
                Reg("STORE_LOC", Cell0.arg, temp_reg, 0)>>, stack_height - 1)
  /\ UNCHANGED jumps_to_patch

(* Mutant: the operand of the addition is taken from the slot below.       *)
IncDecLoc_SlotBelow ==
  /\ Decode({"inc_loc", "dec_loc"})
  /\ LET temp_reg == AsU8(stack_height)
         temp_reg2 == AsU8(stack_height - 1)
         val == IF Cell0.op = "inc_loc" THEN 1 ELSE -1
     IN  Emit(<<PushInt(temp_reg, val),
                Reg("LOAD_LOC", temp_reg2, Cell0.arg, 0),
                Reg("ADD", temp_reg2, temp_reg2, temp_reg),
                Reg("STORE_LOC", Cell0.arg, temp_reg2, 0)>>, stack_height)
  /\ UNCHANGED jumps_to_patch

IncDecLoc ==
  /\ Decode({"inc_loc", "dec_loc"})
  /\ LET temp_reg == AsU8(stack_height)
         temp_reg2 == AsU8(stack_height + 1)
         val == IF Cell0.op = "inc_loc" THEN 1 ELSE -1
     IN  Emit(<<PushInt(temp_reg, val),
                Reg("LOAD_LOC", temp_reg2, Cell0.arg, 0),
                Reg("ADD", temp_reg2, temp_reg2, temp_reg),
                Reg("STORE_LOC", Cell0.arg, temp_reg2, 0)>>, stack_height)
  /\ UNCHANGED jumps_to_patch

BinaryOp ==
  /\ Decode(BinaryOpcodes \cup ComparisonOpcodes)
  /\ Emit(<<Reg(RegOpOf[Cell0.op], stack_height - 2, stack_height - 2, stack_height - 1)>>,
          stack_height - 1)
  /\ UNCHANGED jumps_to_patch

ReturnTop ==
  /\ Decode({"return"})
  /\ Emit(<<Reg("RETURN", stack_height - 1, 0, 0)>>, stack_height - 1)
  /\ UNCHANGED jumps_to_patch

ReturnUndef ==
  /\ Decode({"return_undef"})
  /\ Emit(<<Reg("RETURN_UNDEF", 0, 0, 0)>>, stack_height)
  /\ UNCHANGED jumps_to_patch

(* Mutant: the index is taken after the jump is pushed.                    *)
Remember_AfterPush(target_pc) ==
  jumps_to_patch' =
    Append(jumps_to_patch, [inst_idx |-> Len(reg_instructions) + 1, target_pc |-> target_pc])

(* Jumps are emitted without a target and remembered for the second pass.  *)
Remember(target_pc) ==
  jumps_to_patch' =
    Append(jumps_to_patch, [inst_idx |-> Len(reg_instructions), target_pc |-> target_pc])

Goto ==
  /\ Decode({"goto"})
  /\ Remember(JumpTarget(pc, Cell0))
  /\ Emit(<<Reg("JMP", 0, 0, 0)>>, stack_height)

IfJump ==
  /\ Decode(BranchOpcodes)
  /\ Remember(JumpTarget(pc, Cell0))
  /\ Emit(<<Reg(RegOpOf[Cell0.op], stack_height - 1, 0, 0)>>, stack_height - 1)

(* "Malformed bytecode", "Stack underflow" and "Unsupported opcode": the   *)
(* call goes to the C interpreter.                                         *)
Reject ==
  /\ Scanning
  /\ OperandMissing \/ Underflow \/ Cell0.op \in {"nop", "operand"}
  /\ pc_to_inst_idx' = [pc_to_inst_idx EXCEPT ![pc] = Len(reg_instructions)]
  /\ result' = "err"
  /\ UNCHANGED <<bytecode, pc, stack_height, reg_instructions, jumps_to_patch>>

EndScan ==
  /\ result = "scanning"
  /\ pc >= Len(bytecode)
  /\ pc_to_inst_idx' = [pc_to_inst_idx EXCEPT ![pc] = Len(reg_instructions)]
  /\ result' = "patching"
  /\ UNCHANGED <<bytecode, pc, stack_height, reg_instructions, jumps_to_patch>>

-----------------------------------------------------------------------------
(* The second pass.                                                        *)

(* A negative target is a huge usize: it is beyond the map as well.        *)
OutsideMap(target_pc) == target_pc \notin 0 .. Len(bytecode)

(* Mutants: the bytecode offset is stored for the index; the jump is never *)
(* taken off the list.                                                     *)
PatchWith_Offset(jump, inst_idx) ==
  /\ reg_instructions' =
       [reg_instructions EXCEPT ![jump.inst_idx + 1].src1 = AsU16(jump.target_pc)]
  /\ jumps_to_patch' = Tail(jumps_to_patch)
  /\ UNCHANGED <<bytecode, pc, stack_height, pc_to_inst_idx, result>>
PatchWith_Peek(jump, inst_idx) ==
  /\ reg_instructions' =
       [reg_instructions EXCEPT ![jump.inst_idx + 1].src1 = AsU16(inst_idx)]
  /\ UNCHANGED <<bytecode, pc, stack_height, pc_to_inst_idx, result, jumps_to_patch>>

PatchWith(jump, inst_idx) ==
  /\ reg_instructions' =
       [reg_instructions EXCEPT ![jump.inst_idx + 1].src1 = AsU16(inst_idx)]
  /\ jumps_to_patch' = Tail(jumps_to_patch)
  /\ UNCHANGED <<bytecode, pc, stack_height, pc_to_inst_idx, result>>

PatchBeyondEnd ==
  /\ result = "patching" /\ jumps_to_patch # <<>>
  /\ OutsideMap(Head(jumps_to_patch).target_pc)
  /\ PatchWith(Head(jumps_to_patch), Len(reg_instructions))

PatchJump ==
  /\ result = "patching" /\ jumps_to_patch # <<>>
  /\ LET jump == Head(jumps_to_patch)
     IN  /\ ~OutsideMap(jump.target_pc)
         /\ pc_to_inst_idx[jump.target_pc] # None
         /\ PatchWith(jump, pc_to_inst_idx[jump.target_pc])

(* "Jump target points to invalid instruction boundary".                   *)
PatchFails ==
  /\ result = "patching" /\ jumps_to_patch # <<>>
  /\ LET jump == Head(jumps_to_patch)
     IN  ~OutsideMap(jump.target_pc) /\ pc_to_inst_idx[jump.target_pc] = None
  /\ result' = "err"
  /\ UNCHANGED <<bytecode, pc, stack_height, reg_instructions, pc_to_inst_idx,
                 jumps_to_patch>>

Finish ==
  /\ result = "patching" /\ jumps_to_patch = <<>>
  /\ result' = "ok"
  /\ UNCHANGED <<bytecode, pc, stack_height, reg_instructions, pc_to_inst_idx,
                 jumps_to_patch>>

CompilerNext ==
  \/ PushI32 \/ PushConst \/ PushPrimitive \/ Drop \/ Dup
  \/ GetLoc \/ GetLoc0Loc1 \/ PutLoc \/ SetLoc \/ AddLoc \/ IncDecLoc
  \/ BinaryOp \/ ReturnTop \/ ReturnUndef \/ Goto \/ IfJump
  \/ Reject \/ EndScan
  \/ PatchBeyondEnd \/ PatchJump \/ PatchFails \/ Finish

CompilerSpec == CompilerInit /\ [][CompilerNext]_compiler_vars /\ WF_compiler_vars(CompilerNext)

-----------------------------------------------------------------------------
RegOps == BinaryOps \cup
  {"PUSH_I32", "PUSH_CONST", "UNDEFINED", "NULL", "PUSH_FALSE", "PUSH_TRUE", "DROP",
   "MOV", "LOAD_LOC", "STORE_LOC", "SET_LOC", "RETURN", "RETURN_UNDEF", "JMP",
   "IF_FALSE", "IF_TRUE"}
RegInstruction == [op : RegOps, dst : 0 .. U8 - 1, src1 : 0 .. U16 - 1, src2 : 0 .. U16 - 1]
JumpOps == {"JMP", "IF_FALSE", "IF_TRUE"}
Patch == [inst_idx : Nat, target_pc : Int]

(* Every variable holds a value of its type; the first pass never leaves   *)
(* the slice it was given.                                                 *)
CompilerTypeOK ==
  /\ bytecode \in Seq(Cell)
  /\ pc \in 0 .. Len(bytecode)
  /\ stack_height \in Nat
  /\ reg_instructions \in Seq(RegInstruction)
  /\ pc_to_inst_idx \in [0 .. Len(bytecode) -> Nat \cup {None}]
  /\ jumps_to_patch \in Seq(Patch)
  /\ result \in {"scanning", "patching", "ok", "err"}

(* A jump the compiler hands to the VM or to the JIT goes to an            *)
(* instruction of the code or to its end, where both give up: no bytecode, *)
(* however malformed, makes them leave the code (the VM indexes it, the    *)
(* JIT computes a displacement from it).                                   *)
JumpsStayInside ==
  result = "ok" =>
    \A i \in 1 .. Len(reg_instructions) :
      reg_instructions[i].op \in JumpOps =>
        reg_instructions[i].src1 <= Len(reg_instructions)

(* The expansions of the instructions are laid out in their order and none *)
(* is empty, so an index stands for at most one bytecode offset.           *)
ExpansionsInOrder ==
  \A p, q \in DOMAIN pc_to_inst_idx :
    (p < q /\ pc_to_inst_idx[p] # None /\ pc_to_inst_idx[q] # None)
      => pc_to_inst_idx[p] < pc_to_inst_idx[q]

(* Once compiled, each jump of the bytecode is one jump instruction, at    *)
(* the index recorded for its offset, and it goes to the expansion of the  *)
(* instruction the bytecode names: target_pc = pc + 1 + offset.  The code  *)
(* is short enough for a u16 here; a longer one loses the high bits.       *)
JumpsReachTheirTargets ==
  (result = "ok" /\ Len(reg_instructions) < U16) =>
    \A p \in 0 .. Len(bytecode) - 1 :
      (pc_to_inst_idx[p] # None /\ bytecode[p + 1].op \in BranchOpcodes \cup {"goto"}) =>
        LET inst == reg_instructions[pc_to_inst_idx[p] + 1]
            target == JumpTarget(p, bytecode[p + 1])
        IN  /\ inst.op \in JumpOps
            /\ inst.src1 = IF OutsideMap(target) THEN Len(reg_instructions)
                                                 ELSE pc_to_inst_idx[target]

(* The compiler always ends: every pass moves forward.                     *)
CompilerEnds == <>(result \in {"ok", "err"})
=============================================================================
