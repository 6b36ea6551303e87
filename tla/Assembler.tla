------------------------------ MODULE Assembler ------------------------------
(***************************************************************************)
(* Bytecodes for the model checker, put together from instructions the way *)
(* QuickJS's compiler lays out statements and expressions.                 *)
(***************************************************************************)
EXTENDS Bytecode, SequencesExt

Ins(op, size, arg) == [op |-> op, size |-> size, arg |-> arg]

(* The cells of an instruction: the opcode and its operand bytes.          *)
Cells(i) == <<i>> \o [n \in 1 .. i.size - 1 |-> Ins("operand", 1, 0)]
Assemble(program) == FlattenSeq([n \in 1 .. Len(program) |-> Cells(program[n])])
Size(program) == Len(Assemble(program))

Push(n) == Ins("push_i32", IF n \in -1 .. 7 THEN 1 ELSE 5, n)
PushConstant8(i) == Ins("push_const", 2, i)
Get(i) == Ins("get_loc", IF i \in 0 .. 3 THEN 1 ELSE 3, i)
Put(i) == Ins("put_loc", IF i \in 0 .. 3 THEN 1 ELSE 3, i)
Set(i) == Ins("set_loc", IF i \in 0 .. 3 THEN 1 ELSE 2, i)
Inc(i) == Ins("inc_loc", 2, i)
AddTo(i) == Ins("add_loc", 2, i)
Op(op) == Ins(op, 1, 0)

(* if (cond) A else B: also cond ? A : B when A and B leave a value.       *)
IfElse(cond, A, B) ==
  cond \o <<Ins("if_false", 2, Size(A) + 3)>> \o A \o <<Ins("goto", 2, Size(B) + 1)>> \o B

(* while (cond) body                                                       *)
While(cond, body) ==
  cond \o <<Ins("if_false", 2, Size(body) + 3)>> \o body
       \o <<Ins("goto", 2, -(Size(cond) + Size(body) + 3))>>

(* A && B                                                                  *)
AndAlso(A, B) == A \o <<Op("dup"), Ins("if_false", 2, Size(B) + 2), Op("drop")>> \o B

Sequences(instructions, lengths) == UNION {[1 .. n -> instructions] : n \in lengths}
=============================================================================
