----------------------------- MODULE NativeCode -----------------------------
(***************************************************************************)
(* The x86-64 code compile_to_native of libquickjs-sys/src/jit.rs emits:   *)
(* for a loop it recognises, code that returns the value the loop is folded*)
(* to (LoopRecognisers); for other code one template per instruction, run  *)
(* on the same kind of registers and on the same locals as the register    *)
(* VM.  The templates are for ints and booleans only and neither duplicate *)
(* nor free a value: no instruction they support creates a heap value.     *)
(***************************************************************************)
EXTENDS RegisterVM

NativeOps == {"PUSH_I32", "LOAD_LOC", "STORE_LOC", "SET_LOC", "MOV", "ADD", "JMP",
              "IF_FALSE", "IF_TRUE", "RETURN", "RETURN_UNDEF"} \cup CompareOps

(* The templates cover the code.                                           *)
NativeSupports(code) == \A i \in 1 .. Len(code) : code[i].op \in NativeOps

(* The recognisers are tried first.                                        *)
Folder == INSTANCE LoopRecognisers
Recognised(code) == Folder!RecognisedResult(code)

(* compile_to_native succeeds if there is memory for the code.             *)
NativeCompiles(code) == Recognised(code) # {} \/ NativeSupports(code)

native_vars == <<vpc, regs, var_buf, vm>>

NativePush ==
  /\ Executing({"PUSH_I32"})
  /\ WriteReg(MkInt(reg_i32(Inst)))

NativeLoad == Executing({"LOAD_LOC"}) /\ WriteReg(var_buf[Inst.src1])

NativeMov == Executing({"MOV"}) /\ WriteReg(regs[Inst.src1])

NativeStore ==
  /\ Executing({"STORE_LOC", "SET_LOC"})
  /\ var_buf' = [var_buf EXCEPT ![Inst.dst] = regs[Inst.src1]]
  /\ vpc' = vpc + 1
  /\ UNCHANGED <<regs, vm>>

(* Mutant: no `jo` after the addition.                                     *)
NativeOperandsOK_NoOverflowGuard == BothInt(regs[Inst.src1], regs[Inst.src2])

(* The tag guards and, after `add eax, ecx`, the overflow guard.           *)
NativeOperandsOK ==
  LET op1 == regs[Inst.src1]
      op2 == regs[Inst.src2]
  IN  BothInt(op1, op2) /\ (Inst.op = "ADD" => op1.v + op2.v \in Int32)

NativeBinary ==
  /\ Executing(CompareOps \cup {"ADD"})
  /\ NativeOperandsOK
  /\ LET a == regs[Inst.src1].v
         b == regs[Inst.src2].v
     IN  WriteReg(IF Inst.op = "ADD" THEN MkInt(WrapInt32(a + b)) ELSE MkBool(Compare(Inst.op, a, b)))

NativeJump ==
  /\ Executing({"JMP"})
  /\ vpc' = Inst.src1
  /\ UNCHANGED <<regs, var_buf, vm>>

NativeBranch ==
  /\ Executing({"IF_FALSE", "IF_TRUE"})
  /\ regs[Inst.dst].tag = "bool"
  /\ vpc' = IF (regs[Inst.dst].v = 0) = (Inst.op = "IF_FALSE") THEN Inst.src1 ELSE vpc + 1
  /\ UNCHANGED <<regs, var_buf, vm>>

NativeReturn ==
  /\ Executing({"RETURN", "RETURN_UNDEF"})
  /\ vm' = VMReturned(IF Inst.op = "RETURN" THEN regs[Inst.dst] ELSE Undefined)
  /\ UNCHANGED <<vpc, regs, var_buf>>

(* The bailout block, which is also what follows the last instruction and  *)
(* where a jump to the end of the code is patched to.                      *)
NativeBail ==
  /\ \/ Executing(CompareOps \cup {"ADD"}) /\ ~NativeOperandsOK
     \/ Executing({"IF_FALSE", "IF_TRUE"}) /\ regs[Inst.dst].tag # "bool"
     \/ result = "ok" /\ vm = VMRunning /\ vpc >= Len(reg_instructions)
  /\ vm' = VMBailed
  /\ UNCHANGED <<vpc, regs, var_buf>>

TemplateStep ==
  \/ NativePush \/ NativeLoad \/ NativeMov \/ NativeStore \/ NativeBinary
  \/ NativeJump \/ NativeBranch \/ NativeReturn \/ NativeBail

(* The code of a recognised loop: it touches no local.                     *)
NativeFolded ==
  /\ result = "ok" /\ vm = VMRunning
  /\ \E x \in Recognised(reg_instructions) : vm' = VMReturned(x)
  /\ UNCHANGED <<vpc, regs, var_buf>>

NativeStep == NativeFolded \/ (Recognised(reg_instructions) = {} /\ TemplateStep)
=============================================================================
