----------------------------- MODULE RegisterVM -----------------------------
(***************************************************************************)
(* run_register_vm of libquickjs-sys/src/register_interpreter.rs: runs the *)
(* code RegCompiler emitted on 256 virtual registers and the local         *)
(* variables of the C frame, until it returns a value or gives up with     *)
(* JS_UNINITIALIZED.                                                       *)
(*                                                                         *)
(* refs counts the references JS_DupValue and JS_FreeValue have left on    *)
(* the heap object of the constant pool: the pool owns one.  Below zero    *)
(* would be a use after free, so the count is an Int.                      *)
(***************************************************************************)
EXTENDS RegCompiler, FiniteSets

CONSTANTS
  cpool,              (* The constant pool.                                  *)
  NumLocals           (* The number of local variables of the frame.         *)

(* An int is one of the machine's.                                         *)
IntFits(x) == x.tag = "int" => x.v \in Int32

(* The constant pool is numbered from 0.                                   *)
ASSUME FrameAssumption ==
  /\ NumLocals \in Nat
  /\ \A i \in DOMAIN cpool :
       cpool[i] \in Value /\ IntFits(cpool[i]) /\ i \in Nat /\ 0 .. i \subseteq DOMAIN cpool

(* Bytecode names constants and locals there are: QuickJS's compiler       *)
(* numbers them, and the VM indexes both through raw pointers, unchecked.  *)
(* An immediate operand is an i32.                                         *)
LocalOpcodes == {"get_loc", "put_loc", "set_loc", "add_loc", "inc_loc", "dec_loc"}
NamesInFrame(cell) ==
  /\ cell.op = "push_i32" => cell.arg \in Int32
  /\ cell.op = "push_const" => cell.arg \in DOMAIN cpool
  /\ cell.op \in LocalOpcodes => cell.arg \in 0 .. NumLocals - 1
  /\ cell.op = "get_loc0_loc1" => NumLocals >= 2
ASSUME OperandsAssumption ==
  \A code \in Bytecodes : \A i \in DOMAIN code : NamesInFrame(code[i])

VARIABLES
  vpc,                (* Index of the next instruction.                      *)
  regs,               (* The virtual registers.                              *)
  var_buf,            (* The locals: shared with the C interpreter.          *)
  refs,               (* References to the heap object.                      *)
  vm                  (* "running", then how the run ended and its value.    *)

run_vars == <<vpc, regs, var_buf, refs, vm>>

VMRunning == [kind |-> "running", value |-> Undefined]
VMReturned(x) == [kind |-> "returned", value |-> x]
VMBailed == [kind |-> "handed_over", value |-> Uninitialized]
VMPanicked == [kind |-> "panicked", value |-> Uninitialized]

FreshRegisters == [r \in 0 .. U8 - 1 |-> Undefined]

VMInit ==
  /\ vpc = 0
  /\ regs = FreshRegisters
  /\ var_buf = [i \in 0 .. NumLocals - 1 |-> Undefined]
  /\ refs = 1
  /\ vm = VMRunning

-----------------------------------------------------------------------------
IsRef(x) == x.tag = "ref"
js_dup(x) == IF IsRef(x) THEN 1 ELSE 0
js_free(x) == IF IsRef(x) THEN -1 ELSE 0
FreeAll(rs) == -Cardinality({r \in rs : IsRef(regs[r])})

Inst == reg_instructions[vpc + 1]

SourceRegisters(inst) ==
  CASE inst.op \in BinaryOps                        -> {inst.src1, inst.src2}
    [] inst.op \in {"MOV", "STORE_LOC", "SET_LOC"}  -> {inst.src1}
    [] OTHER                                        -> {}
InRange(inst) == SourceRegisters(inst) \subseteq DOMAIN regs

AtInstruction == result = "ok" /\ vm = VMRunning /\ vpc < Len(reg_instructions)
Executing(ops) == AtInstruction /\ Inst.op \in ops /\ InRange(Inst)

(* regs[dst] = x: what the register held is overwritten, not freed.        *)
WriteReg(x) ==
  /\ regs' = [regs EXCEPT ![Inst.dst] = x]
  /\ vpc' = vpc + 1
  /\ UNCHANGED <<var_buf, vm>>

ImmediateValue(inst) ==
  CASE inst.op = "PUSH_I32"   -> MkInt(reg_i32(inst))
    [] inst.op = "UNDEFINED"  -> Undefined
    [] inst.op = "NULL"       -> Null
    [] OTHER                  -> MkBool(inst.op = "PUSH_TRUE")

VMPushImmediate ==
  /\ Executing({"PUSH_I32", "UNDEFINED", "NULL", "PUSH_FALSE", "PUSH_TRUE"})
  /\ WriteReg(ImmediateValue(Inst))
  /\ UNCHANGED refs

VMPushConst ==
  /\ Executing({"PUSH_CONST"})
  /\ WriteReg(cpool[Inst.src1])
  /\ refs' = refs + js_dup(cpool[Inst.src1])

(* The register keeps the value it has freed.                              *)
VMDrop ==
  /\ Executing({"DROP"})
  /\ refs' = refs + js_free(regs[Inst.dst])
  /\ vpc' = vpc + 1
  /\ UNCHANGED <<regs, var_buf, vm>>

VMMov ==
  /\ Executing({"MOV"})
  /\ WriteReg(regs[Inst.src1])
  /\ refs' = refs + js_dup(regs[Inst.src1])

VMLoadLoc ==
  /\ Executing({"LOAD_LOC"})
  /\ WriteReg(var_buf[Inst.src1])
  /\ refs' = refs + js_dup(var_buf[Inst.src1])

(* Mutant: SET_LOC does not duplicate.                                     *)
VMStoreLoc_NoDup ==
  /\ Executing({"STORE_LOC", "SET_LOC"})
  /\ var_buf' = [var_buf EXCEPT ![Inst.dst] = regs[Inst.src1]]
  /\ refs' = refs + js_free(var_buf[Inst.dst])
  /\ vpc' = vpc + 1
  /\ UNCHANGED <<regs, vm>>

(* STORE_LOC moves the reference into the local but leaves a copy in the   *)
(* register; SET_LOC duplicates it.                                        *)
VMStoreLoc ==
  /\ Executing({"STORE_LOC", "SET_LOC"})
  /\ LET val == regs[Inst.src1]
     IN  /\ var_buf' = [var_buf EXCEPT ![Inst.dst] = val]
         /\ refs' = refs + js_free(var_buf[Inst.dst])
                         + IF Inst.op = "SET_LOC" THEN js_dup(val) ELSE 0
  /\ vpc' = vpc + 1
  /\ UNCHANGED <<regs, vm>>

VMBinary ==
  /\ Executing(BinaryOps)
  /\ LET op1 == regs[Inst.src1]
         op2 == regs[Inst.src2]
     IN  /\ vm_handles(Inst.op, op1, op2)
         /\ WriteReg(vm_binary(Inst.op, op1, op2))
  /\ UNCHANGED refs

VMJump ==
  /\ Executing({"JMP"})
  /\ vpc' = Inst.src1
  /\ UNCHANGED <<regs, var_buf, refs, vm>>

VMBranch ==
  /\ Executing({"IF_FALSE", "IF_TRUE"})
  /\ regs[Inst.dst].tag = "bool"
  /\ vpc' = IF (regs[Inst.dst].v # 0) = (Inst.op = "IF_TRUE") THEN Inst.src1 ELSE vpc + 1
  /\ UNCHANGED <<regs, var_buf, refs, vm>>

VMReturn ==
  /\ Executing({"RETURN"})
  /\ vm' = VMReturned(regs[Inst.dst])
  /\ refs' = refs + FreeAll(DOMAIN regs \ {Inst.dst})
  /\ UNCHANGED <<vpc, regs, var_buf>>

VMReturnUndef ==
  /\ Executing({"RETURN_UNDEF"})
  /\ vm' = VMReturned(Undefined)
  /\ refs' = refs + FreeAll(DOMAIN regs)
  /\ UNCHANGED <<vpc, regs, var_buf>>

(* Operands of types the VM has no path for, a condition that is not a     *)
(* boolean, or the end of the code: all registers are freed and the call   *)
(* goes to the C interpreter.                                              *)
Unhandled ==
  \/ /\ Executing(BinaryOps)
     /\ ~vm_handles(Inst.op, regs[Inst.src1], regs[Inst.src2])
  \/ Executing({"IF_FALSE", "IF_TRUE"}) /\ regs[Inst.dst].tag # "bool"
  \/ result = "ok" /\ vm = VMRunning /\ vpc >= Len(reg_instructions)

VMBail ==
  /\ Unhandled
  /\ vm' = VMBailed
  /\ refs' = refs + FreeAll(DOMAIN regs)
  /\ UNCHANGED <<vpc, regs, var_buf>>

(* An instruction that names a register beyond the 256 panics on the index.*)
VMPanic ==
  /\ AtInstruction
  /\ ~InRange(Inst)
  /\ vm' = VMPanicked
  /\ UNCHANGED <<vpc, regs, var_buf, refs>>

VMStep ==
  \/ VMPushImmediate \/ VMPushConst \/ VMDrop \/ VMMov \/ VMLoadLoc \/ VMStoreLoc
  \/ VMBinary \/ VMJump \/ VMBranch \/ VMReturn \/ VMReturnUndef \/ VMBail \/ VMPanic

-----------------------------------------------------------------------------
(* The code is compiled, then run: a call of js_register_interpreter for a *)
(* function the JIT has no native code for.                                *)
vm_vars == <<compiler_vars, run_vars>>

Init == CompilerInit /\ VMInit
Next ==
  \/ CompilerNext /\ UNCHANGED run_vars
  \/ VMStep /\ UNCHANGED compiler_vars
Spec == Init /\ [][Next]_vm_vars

VMTypeOK ==
  /\ CompilerTypeOK
  /\ vpc \in Nat
  /\ regs \in [0 .. U8 - 1 -> Value]
  /\ var_buf \in [0 .. NumLocals - 1 -> Value]
  /\ refs \in Int
  /\ vm.kind \in {"running", "returned", "handed_over", "panicked"}
  /\ vm.value \in Value

(* References to the heap object that somebody holds: the pool, the locals  *)
(* and the registers; once the run is over, the value it returned instead  *)
(* of the registers.                                                       *)
Ended == vm.kind \in {"returned", "handed_over"}
RefsIn(f) == Cardinality({i \in DOMAIN f : IsRef(f[i])})
Owned == 1 + RefsIn(var_buf) + IF Ended THEN js_dup(vm.value) ELSE RefsIn(regs)

(* What the object's count is off by: a leak above zero, below it a heap   *)
(* value that is freed under its owners.                                   *)
Balance == refs - Owned

(* Instructions that write their register, as WriteReg does: what it held  *)
(* is forgotten.  DROP and STORE_LOC leave in it what it no longer owns.   *)
WritingOps == {"PUSH_I32", "PUSH_CONST", "UNDEFINED", "NULL", "PUSH_FALSE", "PUSH_TRUE", "MOV",
               "LOAD_LOC"} \cup BinaryOps
Overwrites == Executing(WritingOps) /\ ~Unhandled /\ IsRef(regs[Inst.dst])
GivesAway ==
  \/ Executing({"DROP"}) /\ IsRef(regs[Inst.dst])
  \/ Executing({"STORE_LOC"}) /\ IsRef(regs[Inst.src1])

(* The count goes wrong by one where a heap value is overwritten, where it *)
(* is dropped and where it is stored away, and nowhere else: no other      *)
(* instruction, and none of the ways a run ends, loses a reference or      *)
(* gives back one the VM does not own.                                     *)
ReferencesDrift ==
  [][Balance' = Balance + (IF Overwrites THEN 1 ELSE 0) - (IF GivesAway THEN 1 ELSE 0)]_vm_vars

(* However the run ends, the registers have given back every reference     *)
(* they took: nothing leaks.                                               *)
NoReferenceLost == Ended => Balance <= 0

(* ... and none they did not own: no heap value is freed under an owner.   *)
NoReferenceStolen == Ended => Balance >= 0
=============================================================================
