---------------------------- MODULE MachineInts -----------------------------
(* The operators on machine integers and booleans, twice: what a MIR program *)
(* computes with them, by the language's reference, and what the functions   *)
(* do by which cargo-verify translates them.  These are of its own WhyML     *)
(* library, a module for each type of integer.  The library has them on      *)
(* why3's integers that must not leave their bounds (mach.int.Bounded_int),  *)
(* or on why3's bit vectors (bv.BV_Gen); a signed integer is made an         *)
(* unsigned one for these, and the result is made a signed one again.        *)
(*                                                                           *)
(* An operation without a value is one whose check has failed in MIR, and    *)
(* one whose precondition cannot be proved in WhyML.                         *)
EXTENDS Integers, Bitwise

\* A type of integers; the library has 8, 16, 32, 64 and 128 bits.
IntTy(signed, bits) == [signed |-> signed, bits |-> bits]
BoolTy == IntTy(FALSE, 1)

MinInt(ty) == IF ty.signed THEN -(2 ^ (ty.bits - 1)) ELSE 0
MaxInt(ty) == IF ty.signed THEN 2 ^ (ty.bits - 1) - 1 ELSE 2 ^ ty.bits - 1
IntsOf(ty) == MinInt(ty) .. MaxInt(ty)

Some(v) == <<v>>
None == <<>>

-----------------------------------------------------------------------------
(* MIR *)

\* Operators; mode is what becomes of a result out of bounds: "Wrap", "UB"
\* (it is checked beforehand), or "Checked" (whether it is one is a result).
Op(fun, mode) == [fun |-> fun, mode |-> mode]

ArithmeticOps == [fun : {"Add", "Sub", "Mul"}, mode : {"Wrap", "UB", "Checked"}]
DivisionOps == [fun : {"Div", "Rem"}, mode : {"UB"}]
ShiftOps == [fun : {"Shl", "Shr"}, mode : {"Wrap", "UB"}]
BitOps == [fun : {"BitXor", "BitAnd", "BitOr"}, mode : {"Wrap"}]
ComparisonOps == [fun : {"Eq", "Lt", "Le", "Ne", "Ge", "Gt"}, mode : {"Wrap"}]
CmpOp == Op("Cmp", "Wrap")

\* The integer of the type whose bits are the last ones of n.
WrapAround(ty, n) ==
    CHOOSE v \in IntsOf(ty) : v % 2 ^ ty.bits = n % 2 ^ ty.bits

Quotient(a, b) ==
    LET q == (IF a < 0 THEN -a ELSE a) \div (IF b < 0 THEN -b ELSE b)
    IN  IF (a < 0) = (b < 0) THEN q ELSE -q

Bit(n, i) == (n \div 2 ^ i) % 2
HoldsOfBits(fun, x, y) ==
    CASE fun = "BitXor" -> x # y [] fun = "BitAnd" -> x = 1 /\ y = 1
      [] fun = "BitOr" -> x = 1 \/ y = 1

Compare(fun, a, b) ==
    CASE fun = "Eq" -> a = b [] fun = "Ne" -> a # b [] fun = "Lt" -> a < b
      [] fun = "Le" -> a <= b [] fun = "Gt" -> a > b [] fun = "Ge" -> a >= b

\* Of booleans, FALSE is the smaller one.
MirBoolean(fun, a, b) ==
    LET Number(x) == IF x THEN 1 ELSE 0
    IN  IF fun \in {"BitXor", "BitAnd", "BitOr"} THEN HoldsOfBits(fun, Number(a), Number(b))
        ELSE Compare(fun, Number(a), Number(b))

\* The value of an operator for two integers; for a shift, b is of any type.
MirBinary(op, ty, a, b) ==
    CASE ty = BoolTy -> Some(MirBoolean(op.fun, a, b))
      [] op \in ArithmeticOps ->
           LET exact == CASE op.fun = "Add" -> a + b [] op.fun = "Sub" -> a - b
                          [] op.fun = "Mul" -> a * b
           IN  (CASE op.mode = "Wrap" -> Some(WrapAround(ty, exact))
                  [] op.mode = "Checked" ->
                       Some(<<WrapAround(ty, exact), exact \notin IntsOf(ty)>>)
                  [] op.mode = "UB" -> IF exact \in IntsOf(ty) THEN Some(exact) ELSE None)
      [] op \in DivisionOps ->
           IF b = 0 \/ (a = MinInt(ty) /\ b = -1) THEN None
           ELSE IF op.fun = "Div" THEN Some(Quotient(a, b))
           ELSE Some(a - b * Quotient(a, b))
      [] op \in ShiftOps ->
           LET by == b % ty.bits
           IN  IF op.mode = "UB" /\ by # b THEN None
               ELSE IF op.fun = "Shl" THEN Some(WrapAround(ty, a * 2 ^ by))
               ELSE Some(a \div 2 ^ by)
      [] op \in BitOps ->
           Some(CHOOSE v \in IntsOf(ty) : \A i \in 0 .. ty.bits - 1 :
                    (Bit(v, i) = 1) <=> HoldsOfBits(op.fun, Bit(a, i), Bit(b, i)))
      [] op \in ComparisonOps -> Some(Compare(op.fun, a, b))
      [] op = CmpOp -> Some(IF a < b THEN -1 ELSE IF a > b THEN 1 ELSE 0)

\* Of a checked negation, only the negation itself.
MirUnary(fun, ty, a) ==
    CASE fun = "Not" /\ ty = BoolTy -> Some(~a)
      [] fun = "Not" -> Some(WrapAround(ty, -1 - a))
      [] fun = "Neg" -> Some(WrapAround(ty, -a))

-----------------------------------------------------------------------------
(* why3: bit vectors of w bits are their unsigned values, and an operation   *)
(* on bounded integers needs its result in bounds.                           *)

BV_of_int(w, n) == n % 2 ^ w
BV_to_int(w, u) == IF u < 2 ^ (w - 1) THEN u ELSE u - 2 ^ w
BV_neg(w, u) == (2 ^ w - u) % 2 ^ w
BV_lsl(w, u, n) == (u * 2 ^ n) % 2 ^ w
BV_lsr(w, u, n) == u \div 2 ^ n
BV_asr(w, u, n) ==
    BV_lsr(w, u, n) + (IF u < 2 ^ (w - 1) THEN 0 ELSE 2 ^ w - 2 ^ (w - n))

BoundedInt(ty, n) == IF n \in IntsOf(ty) THEN Some(n) ELSE None

\* ComputerDivision rounds towards zero.
Computer_div(a, b) == Quotient(a, b)
Computer_mod(a, b) == a - b * Quotient(a, b)

-----------------------------------------------------------------------------
(* The WhyML library *)

of_int(ty, n) == BoundedInt(ty, n)

\* The library has these for signed integers only.
t_to_u(ty, n) == IF ty.signed THEN BV_of_int(ty.bits, n) ELSE n
u_to_t(ty, u) == IF ty.signed THEN of_int(ty, BV_to_int(ty.bits, u)) ELSE Some(u)

strict(fun, ty, a, b) ==
    CASE fun = "Add" -> BoundedInt(ty, a + b)
      [] fun = "Sub" -> BoundedInt(ty, a - b)
      [] fun = "Mul" -> BoundedInt(ty, a * b)
      [] fun = "Div" -> IF b = 0 THEN None ELSE BoundedInt(ty, Computer_div(a, b))
      [] fun = "Rem" -> IF b = 0 \/ (ty.signed /\ a = MinInt(ty) /\ b = -1) THEN None
                        ELSE BoundedInt(ty, Computer_mod(a, b))

wrapping(fun, ty, a, b) ==
    LET u == t_to_u(ty, a)
        v == t_to_u(ty, b)
    IN  u_to_t(ty, CASE fun = "Add" -> (u + v) % 2 ^ ty.bits
                     [] fun = "Sub" -> (u + BV_neg(ty.bits, v)) % 2 ^ ty.bits
                     [] fun = "Mul" -> (u * v) % 2 ^ ty.bits)

\* to_int is the identity on the integers that stand for those of a type.
overflowing(fun, ty, a, b) ==
    Some(<<wrapping(fun, ty, a, b)[1],
           strict(fun, ty, a, b) = None>>)

bit_wise(fun, ty, a, b) ==
    LET u == t_to_u(ty, a)
        v == t_to_u(ty, b)
    IN  u_to_t(ty, CASE fun = "BitXor" -> u ^^ v [] fun = "BitAnd" -> u & v
                     [] fun = "BitOr" -> u | v)

\* Mutant of shift: a signed integer loses its sign.
shift_in_zeros(fun, ty, a, by) ==
    u_to_t(ty, IF fun = "Shl" THEN BV_lsl(ty.bits, t_to_u(ty, a), by)
               ELSE BV_lsr(ty.bits, t_to_u(ty, a), by))

\* lsl, and asr for signed integers and lsr for unsigned ones.
shift(fun, ty, a, by) ==
    u_to_t(ty, CASE fun = "Shl" -> BV_lsl(ty.bits, t_to_u(ty, a), by)
                 [] fun = "Shr" /\ ty.signed -> BV_asr(ty.bits, t_to_u(ty, a), by)
                 [] fun = "Shr" /\ ~ty.signed -> BV_lsr(ty.bits, t_to_u(ty, a), by))
shift_strict(fun, ty, a, b) ==
    IF b \in 0 .. ty.bits - 1 THEN shift(fun, ty, a, b) ELSE None
shift_unbounded(fun, ty, a, b) == shift(fun, ty, a, b % ty.bits)

cmp(a, b) == IF a < b THEN -1 ELSE IF a = b THEN 0 ELSE 1

\* The module for booleans, by cases.
bool(fun, a, b) ==
    CASE fun = "BitXor" -> a # b [] fun = "BitAnd" -> a /\ b [] fun = "BitOr" -> a \/ b
      [] fun = "Eq" -> a = b [] fun = "Ne" -> a # b
      [] fun = "Lt" -> IF a THEN FALSE ELSE b
      [] fun = "Le" -> IF a THEN b ELSE TRUE
      [] fun = "Gt" -> IF b THEN FALSE ELSE a
      [] fun = "Ge" -> IF b THEN a ELSE TRUE

bit_not(ty, a) == u_to_t(ty, 2 ^ ty.bits - 1 - t_to_u(ty, a))
neg(ty, a) == u_to_t(ty, BV_neg(ty.bits, t_to_u(ty, a)))
=============================================================================
