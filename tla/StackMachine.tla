---------------------------- MODULE StackMachine ----------------------------
(***************************************************************************)
(* What a function's stack bytecode means: the C interpreter of QuickJS,   *)
(* seen as a machine with an operand stack and local variables.  It is the *)
(* reference for the register VM and for the JIT; for the opcodes it       *)
(* shares with libquickjs-sys/src/interpreter.rs the two agree.            *)
(*                                                                         *)
(* The machine may hand the call over (JS_UNINITIALIZED in the program)    *)
(* only where FastPath is false: where the next instruction has operands   *)
(* of types, or an opcode, that only the C interpreter runs.               *)
(***************************************************************************)
EXTENDS Bytecode

CONSTANT cpool        (* The constant pool of the function.                 *)

VARIABLES
  bytecode,           (* The function's bytecode.                            *)
  spc,                (* Offset of the next instruction.                     *)
  stack,              (* The operand stack, its top last.                    *)
  locals,             (* The local variables, from 0.                        *)
  outcome             (* Whether and how the call has ended, and its value.  *)

machine_vars == <<bytecode, spc, stack, locals, outcome>>

Running == [kind |-> "running", value |-> Undefined]
Returned(x) == [kind |-> "returned", value |-> x]
HandedOver == [kind |-> "handed_over", value |-> Uninitialized]

Top == stack[Len(stack)]
Second == stack[Len(stack) - 1]
Popped(n) == SubSeq(stack, 1, Len(stack) - n)

At(opcodes) ==
  /\ outcome = Running
  /\ spc < Len(bytecode)
  /\ bytecode[spc + 1].op \in opcodes
Cur == bytecode[spc + 1]

Continue(next_stack) ==
  /\ stack' = next_stack
  /\ spc' = spc + Cur.size
  /\ UNCHANGED <<bytecode, outcome>>

-----------------------------------------------------------------------------
PrimitiveValue(op) ==
  CASE op = "undefined"  -> Undefined
    [] op = "null"       -> Null
    [] op = "push_false" -> MkBool(FALSE)
    [] OTHER             -> MkBool(TRUE)

PushImmediate ==
  /\ At({"push_i32"} \cup PrimitiveOpcodes)
  /\ Continue(Append(stack, IF Cur.op = "push_i32" THEN MkInt(Cur.arg)
                                                   ELSE PrimitiveValue(Cur.op)))
  /\ UNCHANGED locals

PushConstant ==
  /\ At({"push_const"})
  /\ Continue(Append(stack, cpool[Cur.arg]))
  /\ UNCHANGED locals

DropTop == At({"drop"}) /\ Continue(Popped(1)) /\ UNCHANGED locals

DupTop == At({"dup"}) /\ Continue(Append(stack, Top)) /\ UNCHANGED locals

GetLocal ==
  /\ At({"get_loc", "get_loc0_loc1"})
  /\ Continue(stack \o IF Cur.op = "get_loc" THEN <<locals[Cur.arg]>>
                                             ELSE <<locals[0], locals[1]>>)
  /\ UNCHANGED locals

PutLocal ==
  /\ At({"put_loc"})
  /\ Continue(Popped(1))
  /\ locals' = [locals EXCEPT ![Cur.arg] = Top]

SetLocal ==
  /\ At({"set_loc"})
  /\ Continue(stack)
  /\ locals' = [locals EXCEPT ![Cur.arg] = Top]

AddToLocal ==
  /\ At({"add_loc"})
  /\ Continue(Popped(1))
  /\ locals' = [locals EXCEPT ![Cur.arg] = js_binary("ADD", @, Top)]

StepLocal ==
  /\ At({"inc_loc", "dec_loc"})
  /\ Continue(stack)
  /\ locals' = [locals EXCEPT ![Cur.arg] =
       js_binary("ADD", @, MkInt(IF Cur.op = "inc_loc" THEN 1 ELSE -1))]

Binary ==
  /\ At(NeedsTwo)
  /\ Continue(Append(Popped(2), js_binary(RegOpOf[Cur.op], Second, Top)))
  /\ UNCHANGED locals

Jump ==
  /\ At({"goto"})
  /\ spc' = JumpTarget(spc, Cur)
  /\ UNCHANGED <<bytecode, stack, locals, outcome>>

Branch ==
  /\ At(BranchOpcodes)
  /\ stack' = Popped(1)
  /\ spc' = IF ToBoolean(Top) = (Cur.op = "if_true") THEN JumpTarget(spc, Cur)
                                                     ELSE spc + Cur.size
  /\ UNCHANGED <<bytecode, locals, outcome>>

Return ==
  /\ At({"return", "return_undef"})
  /\ outcome' = Returned(IF Cur.op = "return" THEN Top ELSE Undefined)
  /\ UNCHANGED <<bytecode, spc, stack, locals>>

Nop == At({"nop"}) /\ Continue(stack) /\ UNCHANGED locals

Step ==
  \/ Nop \/ PushImmediate \/ PushConstant \/ DropTop \/ DupTop \/ GetLocal
  \/ PutLocal \/ SetLocal \/ AddToLocal \/ StepLocal \/ Binary
  \/ Jump \/ Branch \/ Return

-----------------------------------------------------------------------------
FastPath ==
  /\ spc \in 0 .. Len(bytecode) - 1
  /\ LET op == Cur.op IN
       CASE op \in NeedsTwo             -> vm_handles(RegOpOf[op], Second, Top)
         [] op = "add_loc"              -> vm_handles("ADD", locals[Cur.arg], Top)
         [] op \in {"inc_loc", "dec_loc"} -> vm_handles("ADD", locals[Cur.arg], MkInt(1))
         [] op \in BranchOpcodes        -> Top.tag = "bool"
         [] OTHER                       -> op \notin {"nop", "operand"}

HandOver ==
  /\ outcome = Running
  /\ ~FastPath
  /\ outcome' = HandedOver
  /\ UNCHANGED <<bytecode, spc, stack, locals>>

(* A call starts at offset 0 with an empty stack.                          *)
Start ==
  /\ spc = 0
  /\ stack = <<>>
  /\ outcome = Running

Promise == Start /\ [][Step \/ HandOver]_machine_vars
=============================================================================
