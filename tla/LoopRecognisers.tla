--------------------------- MODULE LoopRecognisers ---------------------------
(***************************************************************************)
(* The three loops compile_to_native of libquickjs-sys/src/jit.rs          *)
(* recognises in the register code of a function before it tries the       *)
(* templates.  Two are folded to the constant the loop returns, the third  *)
(* is replaced by a native loop.  An Option is a set of at most one        *)
(* element, and code[k] of the program is At(code, k).                     *)
(*                                                                         *)
(* The i64 and i128 arithmetic of the folds is exact here: their operands  *)
(* are i32s, of which they add, and multiply in pairs, too few for one of  *)
(* their checked_ operations to fail before the final range check does.    *)
(***************************************************************************)
EXTENDS RegCompiler, FiniteSetsExt

At(code, k) == code[k + 1]
Imm(code, k) == reg_i32(At(code, k))
IsOp(code, k, op) == At(code, k).op = op
LoadsFrom(code, k, loc) == IsOp(code, k, "LOAD_LOC") /\ AsU8(At(code, k).src1) = loc
StoresTo(code, k, loc) == IsOp(code, k, "STORE_LOC") /\ At(code, k).dst = loc
JumpsTo(code, k, op, target) == IsOp(code, k, op) /\ At(code, k).src1 = target

MaxSafe == 2^MantissaBits - 1       \* MAX_SAFE_JS_INTEGER

emit_return_js_number(n) ==
  IF n \in Int32 THEN {MkInt(n)}
  ELSE IF n \in -MaxSafe .. MaxSafe THEN {MkFloat(n)} ELSE {}

-----------------------------------------------------------------------------
(* for (i = init; i cmp limit; i += step): how often the body runs.        *)
(* Mutants: rounded down; a loop that does not approach its limit is taken *)
(* for one that is never entered.                                          *)
checked_counted_iterations_Floor(init, limit, step, cmp) ==
  CASE cmp = "LT" /\ step > 0  -> {IF init >= limit THEN 0 ELSE (limit - init) \div step}
    [] cmp = "LTE" /\ step > 0 -> {IF init > limit THEN 0 ELSE (limit - init + step) \div step}
    [] cmp = "GT" /\ step < 0  -> {IF init <= limit THEN 0 ELSE (init - limit) \div (-step)}
    [] cmp = "GTE" /\ step < 0 -> {IF init < limit THEN 0 ELSE (init - limit - step) \div (-step)}
    [] OTHER                   -> {}
checked_counted_iterations_NoSign(init, limit, step, cmp) ==
  CASE cmp \in {"LT", "LTE"} /\ step > 0 -> {IF init > limit THEN 0 ELSE (limit - init) \div step}
    [] OTHER                             -> {0}

checked_counted_iterations(init, limit, step, cmp) ==
  CASE cmp = "LT" /\ step > 0  -> {IF init >= limit THEN 0 ELSE (limit - init + step - 1) \div step}
    [] cmp = "LTE" /\ step > 0 -> {IF init > limit THEN 0 ELSE (limit - init + step) \div step}
    [] cmp = "GT" /\ step < 0  -> {IF init <= limit THEN 0 ELSE (init - limit - step - 1) \div (-step)}
    [] cmp = "GTE" /\ step < 0 -> {IF init < limit THEN 0 ELSE (init - limit - step) \div (-step)}
    [] OTHER                   -> {}

(* compile_constant_counted_loop.  count += mul * i + add stands for the   *)
(* three updates of the accumulator: mul is 0 for a constant and 1, with   *)
(* add 0, for the induction variable.                                      *)
FinalCount(loop, n) ==
  LET induction_sum == loop.i_init * n + loop.i_step * ((n * (n - 1)) \div 2)
  IN  loop.count_init + loop.mul * induction_sum + loop.add * n

fold_counted_loop(loop) ==
  UNION {IF loop.i_init + loop.i_step * n \in Int32 THEN emit_return_js_number(FinalCount(loop, n))
                                                    ELSE {} :
           n \in checked_counted_iterations(loop.i_init, loop.limit, loop.i_step, loop.cmp)}

(* count_update, at the first instruction of the body.                     *)
ShortUpdates(code, b, count_loc, i_loc) ==
  LET first == At(code, b)
      second == At(code, b + 1)
      add == At(code, b + 2)
  IN  IF ~(add.op = "ADD" /\ StoresTo(code, b + 3, count_loc) /\ AsU8(At(code, b + 3).src1) = add.dst)
      THEN {}
      ELSE IF LoadsFrom(code, b, count_loc) /\ second.op = "PUSH_I32" /\ add.dst = first.dst
      THEN {[mul |-> 0, add |-> reg_i32(second)]}
      ELSE IF first.op = "PUSH_I32" /\ LoadsFrom(code, b + 1, count_loc) /\ add.dst = second.dst
      THEN {[mul |-> 0, add |-> reg_i32(first)]}
      ELSE IF /\ LoadsFrom(code, b, i_loc) /\ LoadsFrom(code, b + 1, count_loc)
              /\ add.dst = second.dst
      THEN {[mul |-> 1, add |-> 0]}
      ELSE {}

On(code, k, op, dst, src1, src2) ==
  /\ IsOp(code, k, op) /\ At(code, k).dst = dst
  /\ AsU8(At(code, k).src1) = src1 /\ AsU8(At(code, k).src2) = src2

AffineUpdates(code, b, count_loc, i_loc) ==
  LET dst(k) == At(code, b + k).dst
  IN  IF /\ LoadsFrom(code, b, count_loc) /\ LoadsFrom(code, b + 1, i_loc)
         /\ IsOp(code, b + 2, "PUSH_I32") /\ On(code, b + 3, "MUL", dst(1), dst(1), dst(2))
         /\ On(code, b + 4, "ADD", dst(0), dst(0), dst(3))
         /\ IsOp(code, b + 5, "PUSH_I32") /\ On(code, b + 6, "ADD", dst(0), dst(0), dst(5))
         /\ StoresTo(code, b + 7, count_loc) /\ AsU8(At(code, b + 7).src1) = dst(6)
      THEN {[mul |-> Imm(code, b + 2), add |-> Imm(code, b + 5)]}
      ELSE {}

InductionSteps(code, k, i_loc) ==
  IF ~(/\ IsOp(code, k + 2, "ADD") /\ StoresTo(code, k + 3, i_loc)
       /\ AsU8(At(code, k + 3).src1) = At(code, k + 2).dst)
  THEN {}
  ELSE IF IsOp(code, k, "PUSH_I32") /\ LoadsFrom(code, k + 1, i_loc) THEN {Imm(code, k)}
  ELSE IF LoadsFrom(code, k, i_loc) /\ IsOp(code, k + 1, "PUSH_I32") THEN {Imm(code, k + 1)}
  ELSE {}

Backedges(code) == {k \in 0 .. Len(code) - 1 : IsOp(code, k, "JMP") /\ At(code, k).src1 < Len(code)}

(* The loop whose closing jump, the first jump of the code, is at index e. *)
CountedLoopAt(code, e) ==
  LET s == At(code, e).src1                 \* loop_start
      i_loc == AsU8(At(code, s).src1)
      exit == At(code, s + 3).src1
      body == s + 4
      stores == {k \in 0 .. s - 1 : k % 2 = 1}
      counts == {k \in stores : At(code, k).dst # i_loc}
      count_loc == At(code, CHOOSE k \in counts : TRUE).dst
      update == IF body + 8 = e THEN ShortUpdates(code, body, count_loc, i_loc)
                ELSE IF body + 12 = e THEN AffineUpdates(code, body, count_loc, i_loc) ELSE {}
      last_init == CHOOSE k \in stores \ counts : \A j \in stores \ counts : j <= k
  IN  IF ~(/\ s + 3 < Len(code) /\ s + 4 <= e
           /\ IsOp(code, s, "LOAD_LOC") /\ IsOp(code, s + 1, "PUSH_I32")
           /\ At(code, s + 2).op \in CompareOps
           /\ IsOp(code, s + 3, "IF_FALSE") /\ At(code, s + 3).dst = At(code, s + 2).dst
           /\ exit + 1 < Len(code) /\ exit > e
           /\ s % 2 = 0
           /\ \A k \in stores : /\ IsOp(code, k - 1, "PUSH_I32") /\ IsOp(code, k, "STORE_LOC")
                                /\ AsU8(At(code, k).src1) = At(code, k - 1).dst
           /\ stores \ counts # {} /\ \E k \in counts : counts = {k}
           /\ LoadsFrom(code, exit, count_loc)
           /\ IsOp(code, exit + 1, "RETURN") /\ At(code, exit + 1).dst = At(code, exit).dst)
      THEN {}
      ELSE {[i_init |-> Imm(code, last_init - 1),
             count_init |-> Imm(code, (CHOOSE k \in counts : TRUE) - 1),
             limit |-> Imm(code, s + 1), cmp |-> At(code, s + 2).op,
             mul |-> u.mul, add |-> u.add, i_step |-> i_step] :
               u \in update, i_step \in InductionSteps(code, e - 4, i_loc)}

compile_constant_counted_loop(code) ==
  IF Len(code) < 19 \/ Backedges(code) = {} THEN {}
  ELSE LET first == CHOOSE e \in Backedges(code) : \A k \in Backedges(code) : e <= k
       IN  UNION {fold_counted_loop(loop) : loop \in CountedLoopAt(code, first)}

-----------------------------------------------------------------------------
(* The two other shapes fix every opcode: Shape(code) is compared with it. *)
Shape(code) == [k \in 1 .. Len(code) |-> code[k].op]

InitPairs == <<"PUSH_I32", "STORE_LOC", "PUSH_I32", "STORE_LOC">>
LoopHead(cmp) == <<"LOAD_LOC", "PUSH_I32", cmp, "IF_FALSE">>
LoopTail == <<"PUSH_I32", "LOAD_LOC", "ADD", "STORE_LOC", "JMP", "LOAD_LOC", "RETURN">>

(* compile_branchy_modulo_loop.                                            *)
TestMultiple == <<"LOAD_LOC", "PUSH_I32", "MOD", "PUSH_I32", "STRICT_EQ", "IF_FALSE">>
Accumulate(op) == <<"LOAD_LOC", "LOAD_LOC", "PUSH_I32", "MOD", op, "STORE_LOC">>
BranchyShape ==
  InitPairs \o LoopHead("LTE")
    \o TestMultiple \o Accumulate("ADD") \o <<"JMP">>
    \o TestMultiple \o Accumulate("SUB") \o <<"JMP">>
    \o <<"LOAD_LOC", "LOAD_LOC", "PUSH_I32", "BIT_AND", "LOAD_LOC", "PUSH_I32", "MOD", "SUB",
         "ADD", "STORE_LOC">> \o LoopTail

BranchyLoop(code) ==
  /\ Shape(code) = BranchyShape
  /\ LET sum_loc == At(code, 1).dst
         i_loc == At(code, 3).dst
     IN  /\ \A k \in {4, 8, 15, 21, 28, 35, 38, 45} : LoadsFrom(code, k, i_loc)
         /\ \A k \in {14, 27, 34, 49} : LoadsFrom(code, k, sum_loc)
         /\ \A k \in {19, 32, 43} : StoresTo(code, k, sum_loc)
         /\ StoresTo(code, 47, i_loc)
  /\ JumpsTo(code, 7, "IF_FALSE", 49) /\ JumpsTo(code, 48, "JMP", 4)
  /\ JumpsTo(code, 13, "IF_FALSE", 21) /\ JumpsTo(code, 20, "JMP", 44)
  /\ JumpsTo(code, 26, "IF_FALSE", 34) /\ JumpsTo(code, 33, "JMP", 44)
  /\ Imm(code, 11) = 0 /\ Imm(code, 24) = 0 /\ Imm(code, 44) = 1
  /\ Imm(code, 2) = 1                         \* i_init
  /\ \A k \in {9, 16, 22, 29, 39} : Imm(code, k) > 0
  /\ Imm(code, 5) >= 1 /\ Imm(code, 36) = 15  \* limit, mask

gcd[a \in Nat, b \in Nat] == IF b = 0 THEN a ELSE gcd[b, a % b]

(* The sum of i % modulus over the multiples i of divisor up to limit: the *)
(* whole periods, then the rest.                                           *)
sum_multiples_mod(limit, divisor, modulus) ==
  LET count == limit \div divisor
      period == modulus \div gcd[divisor, modulus]
      sum(n) == MapThenSumSet(LAMBDA j : (divisor * j) % modulus, 1 .. n)
  IN  IF count = 0 THEN 0
      ELSE (count \div period) * sum(period) + sum(count % period)

compile_branchy_modulo_loop(code) ==
  IF ~BranchyLoop(code) THEN {}
  ELSE LET limit == Imm(code, 5)
           div_a == Imm(code, 9)
           div_c == Imm(code, 22)
           mod_d == Imm(code, 29)
           div_ab == (div_a * div_c) \div gcd[div_a, div_c]
           sum(divisor, modulus) == sum_multiples_mod(limit, divisor, modulus)
           sum_else(m) == sum(1, m) - sum(div_a, m) - sum(div_c, m) + sum(div_ab, m)
       IN  emit_return_js_number(
             Imm(code, 0) + sum(div_a, Imm(code, 16)) - (sum(div_c, mod_d) - sum(div_ab, mod_d))
               + (sum_else(16) - sum_else(Imm(code, 39))))

(* compile_bitwise_hash_loop: instructions 20 and 24, which load `hash` in *)
(* the loop it is meant for, are not looked at.                            *)
HashShape(op20, op24) ==
  InitPairs \o LoopHead("LT")
    \o <<"LOAD_LOC", "LOAD_LOC", "PUSH_I32", "BIT_AND", "LOAD_LOC", "PUSH_I32", "SHR", "BIT_XOR",
         "ADD", "PUSH_I32", "BIT_OR", "SET_LOC", op20, "PUSH_I32", "SHL", "BIT_XOR",
         op24, "PUSH_I32", "SHR", "BIT_XOR", "PUSH_I32", "BIT_OR", "STORE_LOC">> \o LoopTail

HashLoop(code) ==
  /\ Len(code) = 38 /\ Shape(code) = HashShape(At(code, 20).op, At(code, 24).op)
  /\ LET hash_loc == At(code, 1).dst
         i_loc == At(code, 3).dst
         dst(k) == At(code, k).dst
     IN  /\ \A k \in {4, 9, 12, 32} : LoadsFrom(code, k, i_loc)
         /\ \A k \in {8, 36} : LoadsFrom(code, k, hash_loc)
         /\ dst(19) = hash_loc /\ StoresTo(code, 30, hash_loc) /\ StoresTo(code, 34, i_loc)
         /\ \A k \in {1, 3} : AsU8(At(code, k).src1) = dst(k - 1)
         /\ On(code, 6, "LT", dst(4), dst(4), dst(5)) /\ dst(7) = dst(6)
         /\ dst(11) = dst(9) /\ dst(14) = dst(12)
         /\ dst(16) = dst(8) /\ dst(18) = dst(16) /\ dst(37) = dst(36)
  /\ JumpsTo(code, 7, "IF_FALSE", 36) /\ JumpsTo(code, 35, "JMP", 4)
  /\ \A k \in {2, 17, 28} : Imm(code, k) = 0
  /\ Imm(code, 31) = 1
  /\ Imm(code, 5) >= 0                                              \* limit
  /\ \A k \in {13, 21, 25} : Imm(code, k) \in 0 .. IntBits - 1      \* the shifts

(* The native loop it emits, on 32-bit registers.                          *)
compile_bitwise_hash_loop(code) ==
  IF ~HashLoop(code) THEN {}
  ELSE LET op32[op \in BitOps, a \in Int, b \in Int] ==
             js_to_int32(Int32Op(op, MkInt(a), MkInt(b)))
           mix[h \in Int, i \in Int] ==
             WrapInt32(h + op32["BIT_XOR", op32["BIT_AND", i, Imm(code, 10)],
                                           op32["SHR", i, Imm(code, 13)]])
           stir[eax \in Int] ==
             op32["BIT_XOR", op32["BIT_XOR", eax, op32["SHL", eax, Imm(code, 21)]],
                             op32["SHR", eax, Imm(code, 25)]]
           hash[i \in 0 .. Imm(code, 5)] ==
             IF i = 0 THEN Imm(code, 0) ELSE stir[mix[hash[i - 1], i - 1]]
       IN  {MkInt(hash[Imm(code, 5)])}

-----------------------------------------------------------------------------
(* What compile_to_native makes of a loop it recognises: the value the     *)
(* native code returns.                                                    *)
RecognisedResult(code) ==
  LET counted == compile_constant_counted_loop(code)
      branchy == compile_branchy_modulo_loop(code)
  IN  IF counted # {} THEN counted
      ELSE IF branchy # {} THEN branchy ELSE compile_bitwise_hash_loop(code)
=============================================================================
