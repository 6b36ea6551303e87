--------------------------- MODULE SampleFunctions ---------------------------
(***************************************************************************)
(* Functions for the engines to run, on two locals and a constant pool of  *)
(* a float: straight-line code over the whole instruction set, conditions, *)
(* loops and short-circuit expressions, laid out as QuickJS lays them out. *)
(* At every join the operand stack is as high along each path.             *)
(***************************************************************************)
EXTENDS Assembler

FloatPool == [i \in {0} |-> MkFloat(3)]

(* Straight-line code on locals 0 and 1, the first an int.                 *)
Simple ==
  {Push(2), Push(MaxInt32), Push(MinInt32), PushConstant8(0), Op("undefined"), Op("null"),
   Op("push_false"), Op("push_true"), Op("dup"), Op("drop"), Get(0), Get(1),
   Op("get_loc0_loc1"), Put(0), Put(1), Set(1), AddTo(0), AddTo(1), Inc(0), Inc(1),
   Ins("dec_loc", 2, 0), Op("return"), Op("return_undef"), Op("nop")}
Operators == {Op(o) : o \in (BinaryOpcodes \ {"mul", "mod"}) \cup ComparisonOpcodes}

StraightLine ==
  {<<Push(5), Put(0)>> \o p \o <<Op("return")>> : p \in Sequences(Simple, {1, 2})}
  \cup {<<Push(5), Put(0)>> \o p \o <<o, Op("return")>> :
          p \in Sequences(Simple, {2}), o \in Operators}
  \cup {<<Push(a), Push(b), Op(o), Put(0), Get(0), Op("return")>> :
          a \in {0, 1, 6, MaxInt32}, b \in {2, 3, MaxInt32}, o \in {"mul", "mod"}}

(* Statements and conditions, over a counter in local 0.                   *)
Conditions ==
  {<<Get(0), Push(k), Op(o)>> : k \in {2, 5}, o \in ComparisonOpcodes}
  \cup {AndAlso(<<Get(0), Push(2), Op("gt")>>, <<Get(1), Push(3), Op("strict_eq")>>),
        <<Get(1)>>, <<Op("push_true")>>}
Reset == <<Push(1), Set(1), Put(0)>>
Rising == {<<Inc(0)>>, <<Inc(0), Get(0), AddTo(1)>>, Reset, <<Get(0), Op("return")>>}
Falling == {<<Inc(1), Get(0), Push(1), Op("sub"), Put(0)>>, <<Ins("dec_loc", 2, 0)>>, Reset}

Setup == <<Push(4), Put(0), Push(0), Put(1)>>
Finally == <<Get(1), Op("return")>>
Loops(cond, statements) ==
  {Setup \o While(cond, IfElse(d, A, B)) \o Finally :
     d \in Conditions, A \in statements, B \in statements}
Conditionals ==
  {Setup \o IfElse(c, A, B) \o Finally : c \in Conditions, A \in Rising, B \in Rising}

Structured ==
  Conditionals \cup Loops(<<Get(0), Push(6), Op("lt")>>, Rising)
               \cup Loops(<<Get(0), Push(2), Op("gte")>>, Falling)

(* Those of the functions that return, and never miss an operand.          *)
WellFormed(p) ==
  LET height[n \in 0 .. Len(p)] == IF n = 0 THEN 0 ELSE height[n-1] + StackEffect(p[n])
  IN  \A n \in 1 .. Len(p) : /\ p[n].op \in NeedsOne => height[n-1] >= 1
                             /\ p[n].op \in NeedsTwo => height[n-1] >= 2
Terminating ==
  {p \in StraightLine : WellFormed(p)} \cup Conditionals
    \cup Loops(<<Get(0), Push(6), Op("lt")>>, Rising \ {Reset})
    \cup Loops(<<Get(0), Push(2), Op("gte")>>, Falling \ {Reset})
=============================================================================
