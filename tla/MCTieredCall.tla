---------------------------- MODULE MCTieredCall ----------------------------
(***************************************************************************)
(* Calls of the sample functions that terminate, of loops that native code *)
(* is folded for, and of functions that make a tier give up after it has   *)
(* written a local.                                                        *)
(***************************************************************************)
EXTENDS TieredCall, SampleFunctions, SampleLoops

(* Code the templates support, that gives up on an overflow, on undefined  *)
(* or on a condition that is not a boolean, before or after a local is     *)
(* written.                                                                *)
NativeFunctions ==
  LET simple == {Push(MaxInt32), Push(2), Get(0), Get(1), Put(0), Set(1), Op("add"), Op("gt")}
  IN  {p \in {<<Push(1)>> \o q \o <<Op("return")>> : q \in Sequences(simple, 1 .. 4)} :
         WellFormed(p)}

FoldedFunctions ==
  CountingByOne \cup InitialisedTwice
    \cup {For(acc, 6, "gte", -1, b, Plus(-3)) : acc \in {0, MinInt32}, b \in Bodies}
    \cup {Branchy(Acc, 0, 18, a, 5, 4, 4, 3) : a \in {2, 3}}
    \cup {Hash(h, 6, 3, 5, c, Get(Acc), Get(Acc)) : h \in {17, MaxInt32}, c \in {0, 11}}

MCBytecodes == {Assemble(p) : p \in Terminating \cup NativeFunctions \cup FoldedFunctions}

(* var a, b; b = a; a = 5; if (a) {} return b;                             *)
DirtyBytecodes ==
  {Assemble(<<Get(0), Put(1), Push(k), Put(0)>> \o IfElse(<<Get(0)>>, <<>>, <<>>)
              \o <<Get(1), Op("return")>>) : k \in 0 .. 2}
=============================================================================
