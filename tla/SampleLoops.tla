------------------------------ MODULE SampleLoops -----------------------------
(***************************************************************************)
(* Loops in the three shapes jit.rs recognises, as QuickJS compiles them.  *)
(* The accumulator is local 0 and the induction variable local 1.          *)
(***************************************************************************)
EXTENDS Assembler

Acc == 0
I == 1

For(acc, init, cmp, limit, body, update) ==
  <<Push(acc), Put(Acc), Push(init), Put(I)>>
    \o While(<<Get(I), Push(limit), Op(cmp)>>, body \o update) \o <<Get(Acc), Op("return")>>

Plus(n) == <<Get(I), Push(n), Op("add"), Put(I)>>
AddConstant == {<<Get(Acc), Push(k), Op("add"), Put(Acc)>> : k \in {3, 900}}
                 \cup {<<Push(k), AddTo(Acc)>> : k \in {-5, 0}}
AddInduction == {<<Get(I), AddTo(Acc)>>}
AddAffine(muls, adds) ==
  {<<Op("get_loc0_loc1"), Push(m), Op("mul"), Op("add"), Push(a), Op("add"), Put(Acc)>> :
     m \in muls, a \in adds}
Bodies == AddConstant \cup AddInduction \cup AddAffine({-3, 40}, {-7, 2})

(* Up, down, by steps that do not divide the distance, from beyond the     *)
(* limit, and not moving at all.                                           *)
CountingUp ==
  {For(acc, i, cmp, 7, b, Plus(s)) :
     acc \in {0, MaxInt32 - 4}, i \in {-4, 6, 7, 8}, cmp \in {"lt", "lte"}, b \in Bodies,
     s \in {1, 2, 5}}
CountingDown ==
  {For(acc, i, cmp, -1, b, Plus(s)) :
     acc \in {0, MinInt32}, i \in {6, 0, -1, -2}, cmp \in {"gt", "gte"}, b \in Bodies,
     s \in {-1, -3}}
CountingByOne == {For(0, i, "lt", 5, b, <<Inc(I)>>) : i \in {0, 3}, b \in Bodies}
InitialisedTwice == {<<Push(3), Put(I)>> \o p : p \in {For(2, 1, "lt", 5, b, Plus(1)) : b \in Bodies}}
StandingStill ==
  {For(acc, i, cmp, 5, <<Push(0), AddTo(Acc)>>, Plus(0)) :
     acc \in {0, 2}, i \in {4, 5, 6}, cmp \in {"lt", "gte"}}

Counted == CountingUp \cup CountingDown \cup CountingByOne \cup InitialisedTwice \cup StandingStill

(* if ((i % a) === 0) ... else if ((i % c) === 0) ... else ...             *)
Branchy(v, acc, limit, a, b, c, d, e) ==
  LET i_mod(m) == <<Get(I), Push(m), Op("mod")>>
      multiple(m) == i_mod(m) \o <<Push(0), Op("strict_eq")>>
  IN  <<Push(acc), Put(v), Push(1), Put(I)>>
        \o While(<<Get(I), Push(limit), Op("lte")>>,
                 IfElse(multiple(a), <<Get(v)>> \o i_mod(b) \o <<Op("add"), Put(v)>>,
                   IfElse(multiple(c), <<Get(v)>> \o i_mod(d) \o <<Op("sub"), Put(v)>>,
                     <<Get(v), Get(I), Push(15), Op("and")>> \o i_mod(e)
                        \o <<Op("sub"), Op("add"), Put(v)>>))
                 \o <<Inc(I)>>)
        \o <<Get(v), Op("return")>>

BranchyLoops ==
  {Branchy(Acc, acc, limit, a, 5, c, 4, e) :
     acc \in {0, -40}, limit \in {1, 18}, a \in {2, 3}, c \in {4, 6}, e \in {3, 100}}

(* hash = (hash + ((i & mask) ^ (i >>> a))) | 0;                           *)
(* hash = (hash ^ (x << b) ^ (y >>> c)) | 0, for x and y of `operands`.    *)
Hash(h, limit, a, b, c, x, y) ==
  For(h, 0, "lt", limit,
      <<Get(Acc), Get(I), Push(255), Op("and"), Get(I), Push(a), Op("shr"), Op("xor"), Op("add"),
        Push(0), Op("or"), Set(Acc), x, Push(b), Op("shl"), Op("xor"),
        y, Push(c), Op("shr"), Op("xor"), Push(0), Op("or"), Put(Acc)>>, <<Inc(I)>>)

HashLoops == {Hash(h, limit, a, 5, c, x, Get(Acc)) :
                h \in {17, -5, MaxInt32}, limit \in {0, 6}, a \in {0, 3}, c \in {0, 2, 11},
                x \in {Get(Acc), Op("dup")}}
===============================================================================
