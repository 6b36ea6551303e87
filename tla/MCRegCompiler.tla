---------------------------- MODULE MCRegCompiler ----------------------------
(***************************************************************************)
(* Bytecodes for RegCompiler: every sequence of up to MaxInstructions      *)
(* instructions of a small alphabet, whole and cut short by some bytes, so *)
(* that missing operands, underflows and jumps to every offset, inside an  *)
(* operand and outside the code included, all occur.                       *)
(***************************************************************************)
EXTENDS RegCompiler, SequencesExt

CONSTANT MaxInstructions

Ins(op, size, arg) == [op |-> op, size |-> size, arg |-> arg]

(* The cells of an instruction: the opcode and its operand bytes.          *)
Cells(i) == <<i>> \o [n \in 1 .. i.size - 1 |-> Ins("operand", 1, 0)]
Assemble(program) == FlattenSeq([n \in 1 .. Len(program) |-> Cells(program[n])])

Alphabet ==
  {Ins("push_i32", 1, 3), Ins("push_i32", 2, -1), Ins("push_const", 2, 1),
   Ins("undefined", 1, 0), Ins("drop", 1, 0), Ins("dup", 1, 0), Ins("get_loc", 3, 5),
   Ins("get_loc0_loc1", 1, 0), Ins("put_loc", 1, 0), Ins("set_loc", 2, 5),
   Ins("add_loc", 2, 0), Ins("inc_loc", 2, 1), Ins("sub", 1, 0), Ins("lt", 1, 0),
   Ins("return", 1, 0), Ins("return_undef", 1, 0), Ins("nop", 1, 0)}
  \cup {Ins("goto", 2, off) : off \in {-4, -2, -1, 1, 2, 3, 9}}
  \cup {Ins("if_false", 2, off) : off \in {-3, 1, 2}}

Programs == UNION {[1 .. n -> Alphabet] : n \in 0 .. MaxInstructions}

MCBytecodes ==
  LET whole == {Assemble(p) : p \in Programs}
  IN  whole \cup {SubSeq(b, 1, Len(b) - 1) : b \in whole \ {<<>>}}
=============================================================================
