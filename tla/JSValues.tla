------------------------------ MODULE JSValues ------------------------------
(***************************************************************************)
(* JavaScript values and the arithmetic on them, as the register VM        *)
(* computes it (libquickjs-sys/src/register_interpreter.rs) and as the C   *)
(* interpreter of QuickJS, the reference of both the VM and the JIT, does. *)
(*                                                                         *)
(* The machine's widths are scaled together: a u8 has U8 values, a u16 has *)
(* U8^2 of them and an i32 U8^4, so that a register number, an instruction *)
(* index and an integer overflow in the same relation as in the program,   *)
(* where U8 = 256.  A float64 is an integer of MantissaBits significant    *)
(* bits, NaN or negative zero: fractions, which no operator of the model   *)
(* produces from integers, and infinities are left out.                    *)
(***************************************************************************)
EXTENDS Integers

CONSTANTS
  U8,         (* The number of values of a u8: 256 in the program.           *)
  IntBits,    (* The number of bits of an i32: 32 in the program.            *)
  MantissaBits (* Those of the significand of a float64: 53 in the program.  *)

ASSUME WidthAssumption ==
  /\ U8 \in Nat /\ U8 >= 2
  /\ IntBits \in Nat /\ IntBits >= 1
  /\ MantissaBits \in Nat /\ MantissaBits > IntBits

ASSUME BitsAssumption == 2^IntBits = U8 * U8 * U8 * U8

U16 == U8 * U8
U32 == U16 * U16
MinInt32 == -(U32 \div 2)
MaxInt32 == U32 \div 2 - 1
Int32 == MinInt32 .. MaxInt32

(* `as u8`, `as u16`, `as i32` of the program.                             *)
AsU8(n) == n % U8
AsU16(n) == n % U16
WrapInt32(n) == ((n + U32 \div 2) % U32) - U32 \div 2

(* An i32 immediate travels as two u16 halves of a RegInstruction:         *)
(* (val & 0xFFFF) as u16 and ((val >> 16) & 0xFFFF) as u16.                *)
(* Mutant: a negative immediate keeps its sign, the mask is forgotten.     *)
LowHalf_Unmasked(n) == IF n < 0 THEN n ELSE n % U16
LowHalf(n) == n % U16
HighHalf(n) == (n \div U16) % U16
reg_i32(inst) == WrapInt32(inst.src1 + inst.src2 * U16)

-----------------------------------------------------------------------------
(***************************************************************************)
(* Values.  A heap value (a bigint or a string of the constant pool) is    *)
(* "ref" with the identity of the object; NaN and -0 are float64 tags of   *)
(* their own.                                                              *)
(***************************************************************************)
Tags == {"int", "float64", "nan", "neg_zero", "bool", "null", "undefined",
         "uninitialized", "ref"}
Value == [tag : Tags, v : Int]

MkInt(n) == [tag |-> "int", v |-> n]
MkFloat(n) == [tag |-> "float64", v |-> n]
MkBool(b) == [tag |-> "bool", v |-> IF b THEN 1 ELSE 0]
MkRef(o) == [tag |-> "ref", v |-> o]
NaN == [tag |-> "nan", v |-> 0]
NegZero == [tag |-> "neg_zero", v |-> 0]
Null == [tag |-> "null", v |-> 0]
Undefined == [tag |-> "undefined", v |-> 0]
Uninitialized == [tag |-> "uninitialized", v |-> 0]

is_number(x) == x.tag \in {"int", "float64", "nan", "neg_zero"}
BothInt(x, y) == x.tag = "int" /\ y.tag = "int"
BothNumbers(x, y) == is_number(x) /\ is_number(y)
Negative(x) == x.v < 0 \/ x.tag = "neg_zero"

-----------------------------------------------------------------------------
(* IEEE arithmetic on two numbers (fmod for "mod"): the exact result       *)
(* rounded to the nearest float64, to the even one of two.                 *)
AbsVal(n) == IF n < 0 THEN -n ELSE n

RoundF64(n) ==
  IF AbsVal(n) <= 2^MantissaBits THEN n
  ELSE LET least == 2^(MantissaBits-1)   \* the least significand
           e == CHOOSE k \in 1 .. AbsVal(n) \div least :
                  AbsVal(n) \div 2^k \in least .. 2^MantissaBits - 1
           quotient == AbsVal(n) \div 2^e
           twice == 2 * (AbsVal(n) % 2^e)
           up == twice > 2^e \/ (twice = 2^e /\ quotient % 2 = 1)
           rounded == (IF up THEN quotient + 1 ELSE quotient) * 2^e
       IN  IF n < 0 THEN -rounded ELSE rounded

F64(n, negative) == IF n = 0 /\ negative THEN NegZero ELSE MkFloat(RoundF64(n))

TruncRem(a, b) == IF a < 0 THEN -(AbsVal(a) % AbsVal(b)) ELSE a % AbsVal(b)

F64Op(op, x, y) ==
  IF x.tag = "nan" \/ y.tag = "nan" \/ (op = "MOD" /\ y.v = 0) THEN NaN
  ELSE CASE op = "ADD" -> F64(x.v + y.v, x.tag = "neg_zero" /\ y.tag = "neg_zero")
         [] op = "SUB" -> F64(x.v - y.v, x.tag = "neg_zero" /\ y.tag # "neg_zero" /\ y.v = 0)
         [] op = "MUL" -> F64(x.v * y.v, Negative(x) # Negative(y))
         [] OTHER      -> F64(TruncRem(x.v, y.v), Negative(x))

(* js_to_uint32 and js_to_int32: ToUint32 and ToInt32 of a number.         *)
js_to_uint32(x) == x.v % U32
js_to_int32(x) == WrapInt32(x.v)

(* The low n bits of a and b combined bit by bit.                          *)
BitwiseOp(op, a, b) ==
  LET bit(x, i) == (x \div 2^i) % 2
      combine(p, q) == CASE op = "BIT_AND" -> p * q
                         [] op = "BIT_XOR" -> (p + q) % 2
                         [] OTHER          -> p + q - p * q
      low[n \in 0..IntBits] ==
        IF n = 0 THEN 0 ELSE low[n-1] + 2^(n-1) * combine(bit(a, n-1), bit(b, n-1))
  IN  low[IntBits]

Uint32ToValue(n) == IF n <= MaxInt32 THEN MkInt(n) ELSE MkFloat(n)

Int32Op(op, x, y) ==
  LET lhs == js_to_int32(x)
      shift == js_to_uint32(y) % IntBits
  IN  CASE op = "SHL" -> MkInt(WrapInt32(lhs * 2^shift))
        [] op = "SAR" -> MkInt(lhs \div 2^shift)
        [] op = "SHR" -> Uint32ToValue((lhs % U32) \div 2^shift)
        [] OTHER      -> MkInt(WrapInt32(BitwiseOp(op, lhs, js_to_int32(y))))

Compare(op, a, b) ==
  CASE op = "LT" -> a < b [] op = "LTE" -> a <= b [] op = "GT" -> a > b [] OTHER -> a >= b

ArithOps == {"ADD", "SUB", "MUL", "MOD"}
BitOps == {"SHL", "SAR", "SHR", "BIT_AND", "BIT_XOR", "BIT_OR"}
CompareOps == {"LT", "LTE", "GT", "GTE"}
BinaryOps == ArithOps \cup BitOps \cup CompareOps \cup {"STRICT_EQ"}

-----------------------------------------------------------------------------
(***************************************************************************)
(* The register VM: its operands must be of the types it has a path for    *)
(* (vm_handles), or it gives up.                                           *)
(***************************************************************************)
vm_handles(op, x, y) ==
  CASE op \in ArithOps \cup BitOps -> BothNumbers(x, y)
    [] op \in CompareOps           -> BothInt(x, y)
    [] OTHER                       -> TRUE

(* Mutant: an overflow wraps around and is not promoted to float64.        *)
vm_int_arith_Wrapping(op, a, b) ==
  MkInt(WrapInt32(CASE op = "ADD" -> a + b [] op = "SUB" -> a - b [] OTHER -> a * b))

vm_int_arith(op, a, b) ==
  LET r == CASE op = "ADD" -> a + b [] op = "SUB" -> a - b [] OTHER -> a * b
  IN  IF r \in Int32 THEN MkInt(r) ELSE MkFloat(RoundF64(r))

vm_int_mod(a, b) ==
  IF b # 0 /\ ~(a = MinInt32 /\ b = -1) THEN MkInt(TruncRem(a, b)) ELSE NaN

vm_strict_eq(x, y) ==
  IF BothNumbers(x, y) THEN x.tag # "nan" /\ y.tag # "nan" /\ x.v = y.v
                       ELSE x.tag = y.tag /\ x.v = y.v

vm_binary(op, x, y) ==
  CASE op \in CompareOps                   -> MkBool(Compare(op, x.v, y.v))
    [] op = "STRICT_EQ"                    -> MkBool(vm_strict_eq(x, y))
    [] op \in BitOps                       -> Int32Op(op, x, y)
    [] op = "MOD" /\ BothInt(x, y)         -> vm_int_mod(x.v, y.v)
    [] op \in ArithOps \ {"MOD"} /\ BothInt(x, y) -> vm_int_arith(op, x.v, y.v)
    [] OTHER                               -> F64Op(op, x, y)

-----------------------------------------------------------------------------
(***************************************************************************)
(* The reference: what the JavaScript operator, and QuickJS's C            *)
(* interpreter, gives on numbers and on the primitives converted to them.  *)
(* An integral result of two ints is an int unless it is -0.               *)
(***************************************************************************)
ToNumber(x) ==
  CASE is_number(x)      -> x
    [] x.tag = "null"    -> MkInt(0)
    [] x.tag = "bool"    -> MkInt(x.v)
    [] OTHER             -> NaN

ToBoolean(x) ==
  CASE x.tag \in {"nan", "neg_zero", "null", "undefined"} -> FALSE
    [] x.tag = "ref"                                       -> TRUE
    [] OTHER                                               -> x.v # 0

(* Strings and BigInts are compared by content: objects 2c and 2c + 1 have  *)
(* the same.                                                               *)
SameContent(x, y) ==
  IF x.tag = "ref" /\ y.tag = "ref" THEN x.v \div 2 = y.v \div 2 ELSE x = y

(* What a script cannot tell apart: an int and the float64 of its value.   *)
SameValue(x, y) == x = y \/ ({x.tag, y.tag} \subseteq {"int", "float64"} /\ x.v = y.v)

js_binary(op, x, y) ==
  LET a == ToNumber(x)
      b == ToNumber(y)
      r == F64Op(op, a, b)
      unordered == a.tag = "nan" \/ b.tag = "nan"
  IN  CASE op = "STRICT_EQ"   -> MkBool(IF BothNumbers(x, y) THEN ~unordered /\ x.v = y.v
                                                             ELSE SameContent(x, y))
        [] op \in CompareOps  -> MkBool(~unordered /\ Compare(op, a.v, b.v))
        [] op \in BitOps      -> Int32Op(op, a, b)
        [] OTHER              -> IF BothInt(a, b) /\ r.tag = "float64" /\ r.v \in Int32
                                   THEN MkInt(r.v) ELSE r
=============================================================================
