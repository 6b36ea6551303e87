---------------------------- MODULE MCNativeCache ----------------------------
(* Small instances of NativeCache.                                         *)
EXTENDS NativeCache

(* One function whose code never gives up and two whose code may, of which *)
(* one is for the C interpreter when it has none.                          *)
CONSTANTS steady, flaky, twin
MCFunctions == {steady, flaky, twin}

(* The hash takes flaky and twin for the same bytecode, or nothing.        *)
TwinsCollide == [f \in MCFunctions |-> IF f = twin THEN flaky ELSE f]
AllDiffer == [f \in MCFunctions |-> f]
=============================================================================
