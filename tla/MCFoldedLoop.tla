----------------------------- MODULE MCFoldedLoop -----------------------------
(***************************************************************************)
(* The loops jit.rs recognises, and those it takes for one of them.        *)
(***************************************************************************)
EXTENDS FoldedLoop, SampleLoops

AllLoops == {Assemble(p) : p \in Counted \cup BranchyLoops \cup HashLoops}

-----------------------------------------------------------------------------
(* Products and sums beyond the significand.                               *)
RoundedLoops == {Assemble(For(0, i, "lt", 1000, b, Plus(1000))) :
                   i \in {-1001, -1003}, b \in AddAffine({2047}, {1})}

(* hash ^ (i << b) ^ (i >>> c).                                            *)
HashOperandLoops == {Assemble(Hash(17, 6, 3, 5, 2, Get(I), Get(I)))}

(* The accumulator is the induction variable: i += i % 1.                  *)
AliasedLoops == {Assemble(Branchy(I, 0, limit, 1, 1, 2, 3, 4)) : limit \in {3, 30}}
=============================================================================
