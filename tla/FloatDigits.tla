---------------------------- MODULE FloatDigits ----------------------------
(***************************************************************************)
(* FormatDouble of jcsfloat/jcsfloat.go, on a binary format of any size:   *)
(* free-format digit generation with exact integers, from an estimate of   *)
(* the decimal exponent that floating-point arithmetic has made, and the   *)
(* layout of ECMA-262.  Calls follow each other on one digitState, which a *)
(* pool keeps with what the last call left in it.                          *)
(***************************************************************************)
EXTENDS Integers, Sequences, SequencesExt, Jcserr

CONSTANTS Precision,   \* bits of a significand, 53
          MinExp,      \* the exponent of a subnormal, -1074
          MaxBiased,   \* the exponent field of infinities and NaN, 2047
          Exponents,   \* decimal exponents that occur
          Places,      \* where other decimals may end, counted from the last digit
          Slack,       \* the estimate is made of a value off by 1/Slack at most
          MaxDigits    \* digits that may be needed, 17

(* powers of two, as lshByInt makes them, and of ten, as pow10Cache has them *)
TwoTo[k \in Nat] == IF k = 0 THEN 1 ELSE 2 * TwoTo[k - 1]
TenTo[k \in Nat] == IF k = 0 THEN 1 ELSE 10 * TenTo[k - 1]

Hidden == TwoTo[Precision - 1]
Float  == [negative : BOOLEAN, biased : 0..MaxBiased, mantissa : 0..(Hidden - 1)]

CONSTANT Floats
ASSUME FloatsAssumption == Floats \subseteq Float
ASSUME FormatAssumption == /\ Precision \in Nat \ {0} /\ MinExp \in Int /\ MinExp <= 0
                           /\ MaxBiased \in Nat \ {0} /\ Exponents \subseteq Int /\ Places \subseteq Int
                           /\ Slack \in Nat \ {0, 1} /\ MaxDigits \in Nat \ {0}

(* "IEEE 754 binary64 has at most 17 significant decimal digits": 2^53 is  *)
(* below 10^16.                                                            *)
ASSUME DigitsAssumption == TwoTo[Precision] <= TenTo[MaxDigits - 1]

VARIABLES float,
          pc,           \* "scale", "high", "low", "digits", "layout" or "done"
          r, s,         \* what is left of the value is r / s
          mPlus, mMinus,\* half the gaps to the neighbours, over s
          n,            \* the decimal point is after digit n
          digits,       \* digitBuf[:dIdx]
          text, class   \* what FormatDouble returns

state      == <<r, s, mPlus, mMinus>>
formatVars == <<float, pc, r, s, mPlus, mMinus, n, digits, text, class>>

IsNaN(f)  == f.biased = MaxBiased /\ f.mantissa # 0
IsInf(f)  == f.biased = MaxBiased /\ f.mantissa = 0
IsZero(f) == f.biased = 0 /\ f.mantissa = 0

(* decodeFloatParts *)
FMant(f)  == IF f.biased = 0 THEN f.mantissa ELSE Hidden + f.mantissa
FExp(f)   == IF f.biased = 0 THEN MinExp ELSE MinExp + f.biased - 1
IsEven(f) == FMant(f) % 2 = 0

(* Fault: all gaps are taken to be alike. *)
NoLowerBoundary(f) == FALSE

(* the neighbour below is nearer than the one above *)
LowerBoundary(f) == f.biased > 1 /\ f.mantissa = 0

Even == IsEven(float)

(* Fault: what is half way is never taken for the float. *)
CmpHighStrict(a, b) == a > b

(* Is a above b, or on it if the value's own even neighbourhood has it?    *)
CmpHigh(a, b)      == IF Even THEN a >= b ELSE a > b
CmpLow(a, b)       == IF Even THEN a < b ELSE a <= b
CmpRoundDown(a, b) == IF Even THEN a <= b ELSE a < b

-----------------------------------------------------------------------------
Idle == pc = "done"

Refuse(f) ==
  /\ Idle /\ (IsNaN(f) \/ IsInf(f))
  /\ float' = f
  /\ text' = << >> /\ class' = "InvalidGrammar"
  /\ UNCHANGED <<pc, state, n, digits>>

FormatZero(f) ==
  /\ Idle /\ IsZero(f)
  /\ float' = f
  /\ text' = <<"0">> /\ class' = None
  /\ UNCHANGED <<pc, state, n, digits>>

Doubled(f) == IF LowerBoundary(f) THEN 2 ELSE 1

(* Fault: the gap below is left as the pool had it. *)
StaleMinus(f) == mMinus

(* initScaledState: r and s over a denominator that makes the half gaps    *)
(* whole numbers                                                           *)
InitialMinus(f) == IF FExp(f) >= 0 THEN TwoTo[FExp(f)] ELSE 1

InitScaledState(f) ==
  /\ Idle
  /\ ~IsNaN(f) /\ ~IsInf(f) /\ ~IsZero(f)
  /\ float' = f
  /\ LET up   == IF FExp(f) >= 0 THEN FExp(f) ELSE 0
         down == IF FExp(f) >= 0 THEN 0 ELSE -FExp(f)
     IN  /\ r' = FMant(f) * TwoTo[Doubled(f) + up]
         /\ s' = TwoTo[Doubled(f) + down]
         /\ mPlus' = TwoTo[Doubled(f) - 1 + up]
  /\ mMinus' = InitialMinus(f)
  /\ digits' = << >> /\ text' = << >> /\ class' = None
  /\ pc' = "scale"
  /\ UNCHANGED n

(* a/b < 10^k *)
BelowTen(a, b, k) == IF k >= 0 THEN a < b * TenTo[k] ELSE a * TenTo[-k] < b

(* estimateK: the logarithm rounded up, of a value close to the float's *)
Estimates ==
  {k \in Exponents : /\ BelowTen(r * (Slack - 1), s * Slack, k)
                     /\ ~BelowTen(r * (Slack + 1), s * Slack, k - 1)}

(* scaleByPower10 *)
Scale ==
  /\ pc = "scale"
  /\ \E k \in Estimates :
       /\ n' = k
       /\ s' = IF k > 0 THEN s * TenTo[k] ELSE s
       /\ LET up == IF k < 0 THEN TenTo[-k] ELSE 1 IN
          r' = r * up /\ mPlus' = mPlus * up /\ mMinus' = mMinus * up
  /\ pc' = "high"
  /\ UNCHANGED <<float, digits, text, class>>

(* applyHighFixup *)
HighFixup ==
  /\ pc = "high"
  /\ IF CmpHigh(r + mPlus, s) THEN s' = s * 10 /\ n' = n + 1
                              ELSE UNCHANGED <<s, n>>
  /\ pc' = "low"
  /\ UNCHANGED <<float, r, mPlus, mMinus, digits, text, class>>

TimesTen == r' = r * 10 /\ mPlus' = mPlus * 10 /\ mMinus' = mMinus * 10

TooLow == CmpLow(r * 10, s) /\ CmpLow((r + mPlus) * 10, s)

(* one round of applyLowFixup, and its end *)
LowFixup ==
  /\ pc = "low" /\ TooLow
  /\ TimesTen
  /\ n' = n - 1
  /\ UNCHANGED <<float, pc, s, digits, text, class>>

LowFixed ==
  /\ pc = "low" /\ ~TooLow
  /\ pc' = "digits"
  /\ UNCHANGED <<float, state, n, digits, text, class>>

-----------------------------------------------------------------------------
(* extractDigits: the next digit, and what is left after it                *)
D    == (r * 10) \div s
Rest == (r * 10) % s

Tc1 == CmpRoundDown(Rest, mMinus * 10)
Tc2 == CmpHigh(Rest + mPlus * 10, s)

TakeDigit(d) ==
  /\ r' = Rest /\ mPlus' = mPlus * 10 /\ mMinus' = mMinus * 10
  /\ digits' = Append(digits, d)
  /\ UNCHANGED <<float, s, n, text, class>>

NextDigit == pc = "digits" /\ ~Tc1 /\ ~Tc2 /\ TakeDigit(D) /\ UNCHANGED pc

(* Fault: of two as near the larger. *)
MidpointUp == IF 2 * Rest < s THEN D ELSE D + 1

(* midpointDigit: the nearer of the two, the even one of two as near *)
Midpoint == IF 2 * Rest < s \/ (2 * Rest = s /\ D % 2 = 0) THEN D ELSE D + 1

(* finalDigit *)
LastDigit ==
  /\ pc = "digits"
  /\ Tc1 \/ Tc2
  /\ TakeDigit(IF ~Tc2 THEN D ELSE IF ~Tc1 THEN D + 1 ELSE Midpoint)
  /\ pc' = "normalize"

(* normalizeDigitBuffer: a digit may be 10.  What the last i digits carry    *)
Carries(ds) ==
  LET c[i \in 0..Len(ds)] ==
        IF i = 0 THEN 0 ELSE IF ds[Len(ds) - i + 1] + c[i - 1] > 9 THEN 1 ELSE 0
  IN  c

Carried(ds) ==
  (IF Carries(ds)[Len(ds)] = 1 THEN <<1>> ELSE << >>)
    \o [i \in 1..Len(ds) |-> IF Carries(ds)[Len(ds) - i + 1] = 1 THEN 0
                             ELSE ds[i] + Carries(ds)[Len(ds) - i]]

Stripped(ds) ==
  SubSeq(ds, 1, CHOOSE k \in 1..Len(ds) : /\ k = 1 \/ ds[k] # 0
                                          /\ \A i \in (k + 1)..Len(ds) : ds[i] = 0)

Normalize ==
  /\ pc = "normalize"
  /\ digits' = Stripped(Carried(digits))
  /\ n' = n + Carries(digits)[Len(digits)]
  /\ pc' = "layout"
  /\ UNCHANGED <<float, state, text, class>>

-----------------------------------------------------------------------------
DigitChar(d) == <<"0", "1", "2", "3", "4", "5", "6", "7", "8", "9">>[d + 1]
Chars(ds)    == [i \in 1..Len(ds) |-> DigitChar(ds[i])]
Zeros(k)  == [i \in 1..k |-> "0"]

(* appendInt of v >= 0 *)
Decimal(v) ==
  LET width == CHOOSE w \in 1..20 : v < TenTo[w] /\ (w = 1 \/ v >= TenTo[w - 1])
  IN Chars([i \in 1..width |-> (v \div TenTo[width - i]) % 10])

IsIntegerFixed(k, m)  == k <= m /\ m <= 21
IsFractionFixed(m)    == 0 < m /\ m <= 21

(* Fault: a zero is written too few, or one too many. *)
IsSmallFractionInclusive(m) == -6 <= m /\ m <= 0

IsSmallFraction(m) == -6 < m /\ m <= 0

IntegerFixed(ds, m)  == Chars(ds) \o Zeros(m - Len(ds))
FractionFixed(ds, m) == Chars(SubSeq(ds, 1, m)) \o <<".">> \o Chars(SubSeq(ds, m + 1, Len(ds)))
SmallFraction(ds, m) == <<"0", ".">> \o Zeros(-m) \o Chars(ds)
Exponential(ds, m) ==
  <<DigitChar(ds[1])>> \o (IF Len(ds) > 1 THEN <<".">> \o Chars(Tail(ds)) ELSE << >>)
    \o <<"e">> \o (IF m >= 1 THEN <<"+">> \o Decimal(m - 1) ELSE <<"-">> \o Decimal(1 - m))

(* formatECMA of the digits ds with the point after digit m *)
FormatECMA(negative, ds, m) ==
  (IF negative THEN <<"-">> ELSE << >>)
    \o (CASE IsIntegerFixed(Len(ds), m)                                -> IntegerFixed(ds, m)
          [] ~IsIntegerFixed(Len(ds), m) /\ IsFractionFixed(m)         -> FractionFixed(ds, m)
          [] IsSmallFraction(m)                                        -> SmallFraction(ds, m)
          [] OTHER                                                     -> Exponential(ds, m))

Layout ==
  /\ pc = "layout"
  /\ text' = FormatECMA(float.negative, digits, n)
  /\ pc' = "done"
  /\ UNCHANGED <<float, state, n, digits, class>>

-----------------------------------------------------------------------------
(* The pool makes a state of zeros; a call with a zero has used none.     *)
FormatInit ==
  /\ float \in {f \in Floats : IsZero(f)}
  /\ pc = "done"
  /\ r = 0 /\ s = 0 /\ mPlus = 0 /\ mMinus = 0
  /\ n = 0 /\ digits = << >>
  /\ text = <<"0">> /\ class = None

FormatNext ==
  \/ \E f \in Floats : Refuse(f) \/ FormatZero(f) \/ InitScaledState(f)
  \/ Scale \/ HighFixup \/ LowFixup \/ LowFixed
  \/ NextDigit \/ LastDigit \/ Normalize \/ Layout

FormatSpec == FormatInit /\ [][FormatNext]_formatVars

-----------------------------------------------------------------------------
(* The digits never outgrow the need that digitBuf was sized for ("at most *)
(* 17 digits before termination"); none of them is ten before the carries  *)
(* of normalizeDigitBuffer; and the half gaps keep their ratio.            *)
FormatTypeOK ==
  /\ float \in Float
  /\ pc \in {"scale", "high", "low", "digits", "normalize", "layout", "done"}
  /\ r \in Nat /\ s \in Nat
  /\ mPlus \in Nat /\ mMinus \in Nat
  /\ pc # "done" => s > 0 /\ mPlus \in {mMinus, 2 * mMinus}
  /\ n \in Int
  /\ digits \in Seq(0..9) /\ Len(digits) <= MaxDigits
  /\ class \in {None, "InvalidGrammar"}

-----------------------------------------------------------------------------
(* What the digits are held to.  A float's value, in units of the least    *)
(* one, and the floats beside it.                                          *)
Value(f) == FMant(f) * TwoTo[FExp(f) - MinExp]

Below(f) == IF f.mantissa > 0 THEN [f EXCEPT !.mantissa = @ - 1]
            ELSE [f EXCEPT !.biased = @ - 1, !.mantissa = Hidden - 1]
Above(f) == IF f.mantissa < Hidden - 1 THEN [f EXCEPT !.mantissa = @ + 1]
            ELSE [f EXCEPT !.biased = @ + 1, !.mantissa = 0]

(* d * 10^e, with f's value over the same denominator                      *)
Times(e)  == IF e > 0 THEN TenTo[e] ELSE 1
Tenths(e) == IF e < 0 THEN TenTo[-e] ELSE 1
Scaled(d, e)    == d * Times(e) * TwoTo[-MinExp]
ScaledTo(v, e)  == v * Tenths(e)

(* d * 10^e is read as f: it is nearer to f than to its neighbours, or in  *)
(* the middle and f is even.                                               *)
Reads(d, e, f) ==
  LET x  == 2 * Scaled(d, e)
      lo == ScaledTo(Value(Below(f)) + Value(f), e)
      hi == ScaledTo(Value(f) + Value(Above(f)), e)
  IN  (lo < x /\ x < hi) \/ (IsEven(f) /\ x \in {lo, hi})

Far(d, e, f) ==
  LET x == Scaled(d, e) - ScaledTo(Value(f), e) IN IF x < 0 THEN -x ELSE x

Written(ds) ==
  LET v[i \in 0..Len(ds)] == IF i = 0 THEN 0 ELSE 10 * v[i - 1] + ds[i] IN v[Len(ds)]

Formatted == pc = "done" /\ class = None /\ ~IsZero(float)
LastPlace      == n - Len(digits)      \* the power of ten that the last digit counts

(* The digits denote a decimal that is read as the float (ECMA-FMT-008).   *)
RoundTrips == Formatted => Reads(Written(digits), LastPlace, float)

(* No decimal of fewer digits is read as the float, wherever its point is. *)
Shortest ==
  Formatted =>
    \A i \in Places, d \in 0..(TenTo[Len(digits) - 1] - 1) : ~Reads(d, LastPlace + i, float)

(* Of the decimals of as many digits that are read as the float none is    *)
(* nearer to it, and none as near unless these end in an even digit        *)
(* (ECMA-FMT-009).                                                         *)
Nearest ==
  Formatted =>
    \A d \in 0..(TenTo[Len(digits)] - 1) :
      Reads(d, LastPlace, float) /\ d # Written(digits) =>
        \/ Far(d, LastPlace, float) > Far(Written(digits), LastPlace, float)
        \/ /\ Far(d, LastPlace, float) = Far(Written(digits), LastPlace, float)
           /\ Written(digits) % 2 = 0
=============================================================================
