------------------------------ MODULE FoldedLoop ------------------------------
(***************************************************************************)
(* A function whose loop compile_to_native replaces by its result is       *)
(* compiled, the result is computed as jit.rs computes it, and then the    *)
(* C interpreter runs the loop for comparison.                             *)
(***************************************************************************)
EXTENDS LoopRecognisers

CONSTANT NumLocals

VARIABLES
  spc, stack, locals, outcome,   (* The C interpreter's.                     *)
  native                         (* What the native code returns: none for   *)
                                 (* a loop that is not recognised.           *)

run_vars == <<spc, stack, locals, outcome>>
loop_vars == <<compiler_vars, run_vars, native>>

C == INSTANCE StackMachine WITH cpool <- <<>>

NotCompiled == {Undefined}

LoopInit ==
  /\ CompilerInit
  /\ C!Start
  /\ locals = [i \in 0 .. NumLocals - 1 |-> Undefined]
  /\ native = NotCompiled

Compile ==
  /\ CompilerNext
  /\ UNCHANGED <<run_vars, native>>

(* compile_to_native, up to its templates.                                 *)
Recognise ==
  /\ result = "ok" /\ native = NotCompiled
  /\ native' = RecognisedResult(reg_instructions)
  /\ UNCHANGED <<compiler_vars, run_vars>>

RunC ==
  /\ native # NotCompiled
  /\ C!Step
  /\ UNCHANGED <<pc, stack_height, reg_instructions, pc_to_inst_idx, jumps_to_patch, result,
                 native>>

LoopNext == Compile \/ Recognise \/ RunC

LoopSpec == LoopInit /\ [][LoopNext]_loop_vars /\ WF_loop_vars(LoopNext)

-----------------------------------------------------------------------------
Returned == outcome.kind = "returned"

(* The number the native code returns is the one the loop computes, for    *)
(* every shape and every constant the recognisers accept: iteration counts *)
(* that do not divide evenly, empty loops, accumulators that leave int32.  *)
FoldIsResult == Returned => \A r \in native : SameValue(r, outcome.value)

(* No infinite loop is replaced by a number: what is recognised ends.      *)
Recognised == native \notin {NotCompiled, {}}
RecognisedLoopsEnd == Recognised ~> Returned
=============================================================================
