------------------------------ MODULE Bytecode ------------------------------
(***************************************************************************)
(* The stack bytecode of QuickJS that reaches js_register_interpreter, as  *)
(* libquickjs-sys/src/compiler.rs decodes it.                              *)
(*                                                                         *)
(* A bytecode is a sequence of cells, one per byte; the byte at offset pc  *)
(* of the program is cell pc + 1.  The first cell of an instruction holds  *)
(* its opcode, its size in bytes and its decoded operand; the cells of its *)
(* operand bytes have the opcode "operand".  Opcodes that differ only in   *)
(* the width of the operand (push_i32, push_i8, push_0 ...) are one opcode *)
(* with several sizes.  "nop" stands for the opcodes compiler.rs has no    *)
(* translation for.                                                        *)
(***************************************************************************)
EXTENDS JSValues, Sequences

RegOpOf ==
  [mul |-> "MUL", mod |-> "MOD", add |-> "ADD", sub |-> "SUB", shl |-> "SHL",
   sar |-> "SAR", shr |-> "SHR", and |-> "BIT_AND", xor |-> "BIT_XOR",
   or |-> "BIT_OR", strict_eq |-> "STRICT_EQ",
   lt |-> "LT", lte |-> "LTE", gt |-> "GT", gte |-> "GTE",
   undefined |-> "UNDEFINED", null |-> "NULL",
   push_false |-> "PUSH_FALSE", push_true |-> "PUSH_TRUE",
   if_false |-> "IF_FALSE", if_true |-> "IF_TRUE"]

BinaryOpcodes == {"mul", "mod", "add", "sub", "shl", "sar", "shr", "and", "xor",
                  "or", "strict_eq"}
ComparisonOpcodes == {"lt", "lte", "gt", "gte"}
PrimitiveOpcodes == {"undefined", "null", "push_false", "push_true"}
BranchOpcodes == {"if_false", "if_true"}

(* Opcodes that fail to compile on a stack of less than one, or two.       *)
NeedsTwo == BinaryOpcodes \cup ComparisonOpcodes
NeedsOne == {"drop", "dup", "put_loc", "set_loc", "add_loc", "return"} \cup BranchOpcodes

Opcodes == NeedsTwo \cup NeedsOne \cup PrimitiveOpcodes \cup
           {"push_i32", "push_const", "get_loc", "get_loc0_loc1", "inc_loc", "dec_loc",
            "return_undef", "goto", "nop", "operand"}

Cell == [op : Opcodes, size : 1..5, arg : Int]

(* Where a jump at offset pc goes: the offset counts from the operand.     *)
JumpTarget(pc, cell) == pc + 1 + cell.arg

(* How many slots an instruction adds to the operand stack.                *)
StackEffect(cell) ==
  CASE cell.op = "get_loc0_loc1" -> 2
    [] cell.op \in {"push_i32", "push_const", "get_loc", "dup"} \cup PrimitiveOpcodes -> 1
    [] cell.op \in {"set_loc", "inc_loc", "dec_loc", "return_undef", "goto"} -> 0
    [] OTHER -> -1
=============================================================================
