----------------------------- MODULE TieredCall -----------------------------
(***************************************************************************)
(* One call of a JavaScript function, from the hook in JS_CallInternal     *)
(* that calls js_register_interpreter to the value the caller sees.  The   *)
(* tiers run in turn on the same frame: cached native code, native code    *)
(* compiled now, the register VM, and at last the C interpreter.  Each     *)
(* starts the function from its first instruction, with fresh registers    *)
(* but with the locals as the tier before left them.                       *)
(*                                                                         *)
(* Before the call the same function is run by the C interpreter alone, on *)
(* a frame of its own: that is the result the call is compared with.       *)
(***************************************************************************)
EXTENDS NativeCode

VARIABLES
  tier,               (* Which tier runs, or a phase before or after them.   *)
  spc, stack, outcome,(* The C interpreter's.                                *)
  ref_locals,         (* Locals of the comparison run.                       *)
  expected,           (* Its outcome.                                        *)
  dirty               (* A tier has given up after it had written a local.   *)

c_vars == <<spc, stack, outcome>>
call_vars == <<vm_vars, tier, c_vars, ref_locals, expected, dirty>>

Reference == INSTANCE StackMachine WITH locals <- ref_locals
C == INSTANCE StackMachine WITH locals <- var_buf

FreshLocals == [i \in 0 .. NumLocals - 1 |-> Undefined]
Tiers == {"cached", "native", "vm"}

CallInit ==
  /\ CompilerInit
  /\ VMInit
  /\ Reference!Start
  /\ ref_locals = FreshLocals
  /\ tier = "reference"
  /\ expected = Reference!Running
  /\ dirty = FALSE

RunReference ==
  /\ tier = "reference"
  /\ Reference!Step
  /\ UNCHANGED <<compiler_vars, run_vars, tier, expected, dirty>>

(* The C interpreter is done with the comparison run: the call begins.     *)
BeginCall ==
  /\ tier = "reference" /\ outcome # Reference!Running
  /\ expected' = outcome
  /\ tier' = "compile"
  /\ spc' = 0 /\ stack' = <<>> /\ outcome' = Reference!Running
  /\ UNCHANGED <<compiler_vars, run_vars, ref_locals, dirty>>

(* Compilation is a function of the bytecode; a cached entry is the code   *)
(* an earlier call compiled from it.                                       *)
Compile ==
  /\ tier = "compile"
  /\ CompilerNext
  /\ UNCHANGED <<run_vars, tier, c_vars, ref_locals, expected, dirty>>

(* should_fallback_to_c_after_native_miss                                  *)
AdvancedArithmetic == {"MUL", "SUB", "MOD", "STRICT_EQ"} \cup BitOps
FallbackToC(code) ==
  /\ \E i \in 1 .. Len(code) : code[i].op = "JMP" /\ code[i].src1 < Len(code)
  /\ \E i \in 1 .. Len(code) : code[i].op \in AdvancedArithmetic

AfterMiss(code) == IF FallbackToC(code) THEN "c" ELSE "vm"

(* compile_to_native fails for code it does not know, and for any code     *)
(* when there is no memory for it (JitBuffer::new).                        *)
FreshCode ==
  {AfterMiss(reg_instructions)}
    \cup (IF NativeCompiles(reg_instructions) THEN {"native"} ELSE {})

FirstTiers ==
  IF result = "err" THEN {"c"}
  ELSE FreshCode \cup (IF NativeCompiles(reg_instructions) THEN {"cached"} ELSE {})

EnterFirstTier ==
  /\ tier = "compile" /\ result \in {"ok", "err"}
  /\ tier' \in FirstTiers
  /\ UNCHANGED <<vm_vars, c_vars, ref_locals, expected, dirty>>

RunTier ==
  /\ \/ tier \in {"cached", "native"} /\ NativeStep /\ UNCHANGED refs
     \/ tier = "vm" /\ VMStep
  /\ UNCHANGED <<compiler_vars, tier, c_vars, ref_locals, expected, dirty>>

TierReturns ==
  /\ tier \in Tiers /\ vm.kind = "returned"
  /\ tier' = "done"
  /\ outcome' = vm
  /\ UNCHANGED <<vm_vars, spc, stack, ref_locals, expected, dirty>>

(* JS_UNINITIALIZED: on to the next tier, from the start of the function.  *)
(* Mutants: the sentinel reaches the caller; native code is tried again.   *)
NextTier_ToCaller == [cached |-> FreshCode, native |-> {"vm"}, vm |-> {"uninitialized"}]
NextTier_Again == [cached |-> FreshCode, native |-> {"native"}, vm |-> {"c"}]

NextTier == [cached |-> FreshCode, native |-> {"vm"}, vm |-> {"c"}]

TierGivesUp ==
  /\ tier \in Tiers /\ vm.kind = "handed_over"
  /\ tier' \in NextTier[tier]
  /\ vpc' = 0 /\ regs' = FreshRegisters /\ vm' = VMRunning
  /\ dirty' = (dirty \/ var_buf # FreshLocals)
  /\ UNCHANGED <<compiler_vars, var_buf, refs, c_vars, ref_locals, expected>>

RunC ==
  /\ tier = "c"
  /\ C!Step
  /\ UNCHANGED <<pc, stack_height, reg_instructions, pc_to_inst_idx, jumps_to_patch,
                 result, vpc, regs, refs, vm, tier, ref_locals, expected, dirty>>

CReturns ==
  /\ tier = "c" /\ outcome.kind = "returned"
  /\ tier' = "done"
  /\ UNCHANGED <<vm_vars, c_vars, ref_locals, expected, dirty>>

CallNext ==
  \/ RunReference \/ BeginCall \/ Compile \/ EnterFirstTier \/ RunTier
  \/ TierReturns \/ TierGivesUp \/ RunC \/ CReturns

CallSpec == CallInit /\ [][CallNext]_call_vars /\ WF_call_vars(CallNext)

-----------------------------------------------------------------------------
CallTypeOK ==
  /\ VMTypeOK
  /\ tier \in Tiers \cup {"reference", "compile", "c", "done"}
  /\ spc \in Nat
  /\ stack \in Seq(Value)
  /\ ref_locals \in [0 .. NumLocals - 1 -> Value]
  /\ dirty \in BOOLEAN

(* What the JIT promises the caller: the value is the one the C            *)
(* interpreter alone would have returned, whichever tiers ran before it.   *)
SameOutcome(o, p) == o.kind = p.kind /\ SameValue(o.value, p.value)
FallbackIsInvisible == tier = "done" => SameOutcome(outcome, expected)

(* It keeps the promise as long as no tier gave up with locals written.    *)
CleanFallbackIsInvisible == (tier = "done" /\ ~dirty) => SameOutcome(outcome, expected)

(* A recognised loop is folded to the number it computes: so it is in the  *)
(* runs MCTieredCall and MCFoldedLoop, but not RoundedLoops,               *)
(* HashOperandLoops and AliasedLoops of MCFoldedLoop.                      *)
FoldsAreExact ==
  result = "ok" =>
    \A x \in Recognised(reg_instructions) : SameOutcome(VMReturned(x), expected)

(* Every call of a function that terminates ends, whatever the tiers do.   *)
CallEnds == <>(tier = "done")
=============================================================================
