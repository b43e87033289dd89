---------------------------- MODULE SafeDecimal ----------------------------
(***************************************************************************)
(* The fixed-point arithmetic of SafeDecimalMath.  Unit stands for 10^18:  *)
(* an amount x means x / Unit tokens.  Like 10^18 it is a multiple of 10,  *)
(* which the rounding operations rely on.                                  *)
(***************************************************************************)
EXTENDS Integers

CONSTANT Unit

ASSUME UnitAssumption == Unit \in Nat \ {0} /\ Unit % 10 = 0

MultiplyDecimal(x, y) == (x * y) \div Unit

\* _multiplyDecimalRound: one digit more, which then rounds half up.
MultiplyRound(x, y, unit) == ((x * y) \div (unit \div 10) + 5) \div 10

MultiplyDecimalRound(x, y) == MultiplyRound(x, y, Unit)

DivideDecimal(x, y) == (x * Unit) \div y

\* _divideDecimalRound
DivideRound(x, y, unit) == ((x * (unit * 10)) \div y + 5) \div 10

DivideDecimalRound(x, y) == DivideRound(x, y, Unit)
=============================================================================
