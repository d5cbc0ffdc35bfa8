-------------------------------- MODULE Int96 --------------------------------
(***************************************************************************)
(* The 96-bit integers of lib/bit/int96.h, which add 64-bit integers of    *)
(* either sign and tell whether the sum fits.  A half word has Half values *)
(* instead of 2^32.                                                        *)
(***************************************************************************)
EXTENDS Integers

CONSTANTS
  Half,    \* number of values of low32, 2^32 in the code
  MaxAdds  \* bound on the additions

ASSUME Int96Assumption ==
  /\ Half \in Nat \ {0} /\ Half % 2 = 0
  /\ MaxAdds \in Nat /\ MaxAdds < Half \div 2

VARIABLES
  num,    \* struct int96_num
  exact,  \* the integer it stands for
  adds    \* how many values were added

int96Vars == <<num, exact, adds>>

\* Number of values of high64.
Full == Half * Half
Unsigned == 0 .. Full - 1
Signed == -(Full \div 2) .. Full \div 2 - 1

int96_set_unsigned(val) == [high |-> val \div Half, low |-> val % Half]

\* The shift of a negative integer keeps its sign.
int96_set_signed(val) == [high |-> (val \div Half) % Full, low |-> val % Half]

int96_invert(a) ==
  LET low == Half - 1 - a.low + 1
  IN  [high |-> (Full - 1 - a.high + low \div Half) % Full, low |-> low % Half]

\* Mutant: the carry of the lower half is lost.
AddWithoutCarry(to, what) ==
  [high |-> (to.high + what.high) % Full, low |-> (to.low + what.low) % Half]

int96_add(to, what) ==
  LET low == to.low + what.low
  IN  [high |-> (to.high + low \div Half + what.high) % Full, low |-> low % Half]

int96_get_low64bit(a) == (a.low + a.high * Half) % Full
int96_is_uint64(a) == a.high \div Half = 0
int96_is_neg_int64(a) == a.high \div (Half \div 2) = 2 * Half - 1
int96_extract_uint64(a) == int96_get_low64bit(a)
int96_extract_neg_int64(a) == int96_get_low64bit(a) - Full
-----------------------------------------------------------------------------
Int96Init == num = int96_set_unsigned(0) /\ exact = 0 /\ adds = 0

Set(val, as) == num' = as /\ exact' = val /\ adds' = 0

Invert ==
  /\ num' = int96_invert(num) /\ exact' = -exact
  /\ UNCHANGED adds

Add96(val, as) ==
  /\ adds < MaxAdds
  /\ num' = int96_add(num, as) /\ exact' = exact + val /\ adds' = adds + 1

Int96Next ==
  \/ \E val \in Unsigned :
       Set(val, int96_set_unsigned(val)) \/ Add96(val, int96_set_unsigned(val))
  \/ \E val \in Signed :
       Set(val, int96_set_signed(val)) \/ Add96(val, int96_set_signed(val))
  \/ Invert

Int96Spec == Int96Init /\ [][Int96Next]_int96Vars
-----------------------------------------------------------------------------
(***************************************************************************)
(* Whether a sum of a few 64-bit integers, inverted or not, fits one of    *)
(* them is known exactly, and then it is extracted exactly, at both ends   *)
(* of the range too (the comment on struct int96_num, int96.h).            *)
(***************************************************************************)
SumsExact96 ==
  /\ int96_is_uint64(num) <=> exact \in Unsigned
  /\ int96_is_neg_int64(num) <=> exact \in Signed /\ exact < 0
  /\ int96_is_uint64(num) => int96_extract_uint64(num) = exact
  /\ int96_is_neg_int64(num) => int96_extract_neg_int64(num) = exact
=============================================================================
