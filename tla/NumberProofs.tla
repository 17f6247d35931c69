---------------------------- MODULE NumberProofs ----------------------------
(***************************************************************************)
(* Theorems about the modules for numbers, NumberScan, which reads them,   *)
(* and FloatDigits, which writes them.                                     *)
(*                                                                         *)
(* NumberScan: its types, the bound on what it scans past the limit, that  *)
(* the digit loops enforce the limit by themselves, and that the outcome   *)
(* is the one the grammar of whole tokens calls for.  The first invariant  *)
(* says how far each stage may begin past the limit, the second where each *)
(* stage stands in the token, and that every prefix read so far can still  *)
(* become a number.                                                        *)
(*                                                                         *)
(* FloatDigits, in the second half: for every binary format the digits of  *)
(* a float are read back as it, no fewer would be, and none are nearer.    *)
(* The invariant is what the big integers mean at every moment: with the   *)
(* digits written so far the float is exactly                              *)
(*     (the digits as a whole number + r/s) * 10^(the place after them),   *)
(* and mPlus/s and mMinus/s are half its gaps at that place.               *)
(***************************************************************************)
EXTENDS NumberScan, FloatDigits, SequenceTheorems, WellFoundedInduction, TLAPS

(* between two parts: counted by a loop, or only a sign and a zero read *)
Settled == Scanned <= MaxNumberChars \/ Scanned <= 2

Reach ==
  /\ stage = "sign" => Scanned = 0
  /\ stage = "int" => Scanned <= 1
  /\ stage \in {"frac", "exp", "final"} => Settled
  /\ stage = "digits" => /\ Settled \/ IsDigit(pos)
                         /\ Scanned <= MaxNumberChars + 3
  /\ Scanned <= MaxNumberChars + 4

LoopExit == next \in {"frac", "exp", "final"}

IInv == TypeOK /\ LoopExit /\ Reach

(* A character that is there lies before the end. *)
LEMMA AtBound ==
  ASSUME TypeOK, NEW i \in Nat \ {0}, At(i) # None
  PROVE  i < End
BY DEF At

LEMMA DigitBound ==
  ASSUME TypeOK, NEW i \in Nat \ {0}, IsDigit(i)
  PROVE  i + 1 \in 1..End
<1>1. At(i) # None
  BY DEF IsDigit, Digits, None
<1>2. i < End /\ End \in Nat
  BY <1>1, AtBound DEF TypeOK, End
<1> QED
  BY <1>2

LEMMA CharBound ==
  ASSUME TypeOK, NEW i \in Nat \ {0}, At(i) \in {"-", ".", "e", "0", "+"}
  PROVE  i + 1 \in 1..End
<1>1. At(i) # None
  BY DEF None
<1>2. i < End /\ End \in Nat
  BY <1>1, AtBound DEF TypeOK, End
<1> QED
  BY <1>2

LEMMA ValueClassType == ASSUME NEW w PROVE ValueClass(w) \in FailureClass \cup {None}
BY DEF ValueClass, FailureClass

LEMMA Initial == Init => IInv
<1> SUFFICES ASSUME Init PROVE IInv
  OBVIOUS
<1>1. data \in Seq(Char) /\ Len(data) \in Nat
  BY InputsAssumption DEF Init
<1>2. TypeOK
  BY <1>1 DEF Init, TypeOK, End, Stage, Verdict
<1> QED
  BY <1>2, MaxAssumption DEF Init, IInv, LoopExit, Reach, Scanned, Settled

LEMMA Inductive == IInv /\ [Next]_vars => IInv'
<1> SUFFICES ASSUME IInv, [Next]_vars PROVE IInv'
  OBVIOUS
<1>0. TypeOK /\ LoopExit /\ Reach
  BY DEF IInv
<1>n. MaxNumberChars \in Nat /\ MaxNumberChars > 0
  BY MaxAssumption
<1>p. pos \in 1..End /\ pos \in Nat \ {0} /\ End \in Nat
  BY <1>0 DEF TypeOK, End
<1>q. pos + 1 \in Nat \ {0} /\ pos + 2 \in Nat \ {0}
  BY <1>p
<1>c. ASSUME NEW cause \in FailureClass \cup {None}, NEW at \in Nat,
             Reject(cause, at), pos' \in 1..End, pos' - 1 <= MaxNumberChars + 4
      PROVE  IInv'
  <2>1. /\ stage' = "done" /\ UNCHANGED <<data, next>>
        /\ verdict' = [class |-> cause, at |-> at]
    BY <1>c DEF Reject
  <2>2. verdict' \in Verdict
    BY <2>1, <1>c DEF Verdict
  <2>3. TypeOK' /\ LoopExit'
    BY <2>1, <2>2, <1>c, <1>0 DEF TypeOK, LoopExit, End, Stage
  <2>4. Scanned' <= MaxNumberChars + 4
    BY <1>c DEF Scanned
  <2>5. stage' = "done"
    BY <2>1
  <2>6. Reach'
    BY <2>4, <2>5 DEF Reach
  <2> QED
    BY <2>3, <2>6 DEF IInv
<1>g. "InvalidGrammar" \in FailureClass /\ "BoundExceeded" \in FailureClass
  BY DEF FailureClass
<1>d. Settled => Scanned <= MaxNumberChars + 1
  BY <1>n, <1>p DEF Settled, Scanned
<1>1. ASSUME Sign PROVE IInv'
  <2>1. pos' \in 1..End /\ pos' <= 2
    BY <1>1, <1>0, <1>p, CharBound DEF Sign, Reach, Scanned
  <2> QED
    BY <1>1, <2>1, <1>0, <1>n DEF Sign, GoTo, IInv, TypeOK, LoopExit, Reach, Scanned, End, Stage
<1>2. ASSUME Zero PROVE IInv'
  <2>1. pos' \in 1..End /\ pos' = pos + 1 /\ pos <= 2
    BY <1>2, <1>0, <1>p, CharBound DEF Zero, Reach, Scanned
  <2>2. CASE IsDigit(pos + 1)
    <3>1. Reject("InvalidGrammar", pos + 1)
      BY <1>2, <2>2 DEF Zero
    <3> QED
      BY <3>1, <2>1, <1>c, <1>g, <1>n, <1>p
  <2>3. CASE ~IsDigit(pos + 1)
    BY <1>2, <2>1, <2>3, <1>0, <1>n, <1>p
       DEF Zero, GoTo, IInv, TypeOK, LoopExit, Reach, Settled, Scanned, End, Stage
  <2> QED
    BY <2>2, <2>3
<1>3. ASSUME NonZero PROVE IInv'
  BY <1>3, <1>0, <1>n, <1>p DEF NonZero, EnterDigits, IInv, TypeOK, LoopExit, Reach, Settled,
     Scanned, End, Stage
<1>4. ASSUME NoInteger PROVE IInv'
  BY <1>4, <1>c, <1>g, <1>p, <1>n, <1>0 DEF NoInteger, Reach, Scanned
<1>5. ASSUME Digit PROVE IInv'
  <2>1. pos' \in 1..End /\ pos' = pos + 1
    BY <1>5, <1>0, <1>p, DigitBound DEF Digit
  <2>2. pos <= MaxNumberChars + 4
    BY <1>5, <1>0, <1>p, <1>n DEF Digit, Reach, Scanned
  <2>3. CASE WithinLimit
    <3>1. UNCHANGED <<data, stage, next, verdict>>
      BY <1>5, <2>3 DEF Digit
    <3>2. pos <= MaxNumberChars
      BY <2>3, <1>p, <1>n DEF WithinLimit, Scanned
    <3>3. Scanned' <= MaxNumberChars
      BY <3>2, <2>1, <1>p DEF Scanned
    <3>4. TypeOK'
      BY <3>1, <2>1, <1>0 DEF TypeOK, End
    <3>5. Reach'
      BY <3>1, <3>3, <1>5, <1>n, <2>1, <1>p DEF Reach, Settled, Digit, Scanned
    <3> QED
      BY <3>1, <3>4, <3>5, <1>0 DEF IInv, LoopExit
  <2>4. CASE ~WithinLimit
    <3>1. Reject("BoundExceeded", 1)
      BY <1>5, <2>4 DEF Digit
    <3> QED
      BY <3>1, <2>1, <2>2, <1>c, <1>g, <1>n, <1>p
  <2> QED
    BY <2>3, <2>4
<1>6. ASSUME DigitsEnd PROVE IInv'
  <2>1. Settled /\ Scanned <= MaxNumberChars + 3
    BY <1>6, <1>0 DEF DigitsEnd, Reach
  <2>2. UNCHANGED <<data, pos, next, verdict>> /\ stage' = next
    BY <1>6 DEF DigitsEnd, GoTo
  <2>3. TypeOK' /\ LoopExit'
    BY <2>2, <1>0 DEF TypeOK, LoopExit, End
  <2>4. Reach'
    BY <2>1, <2>2, <1>0, <1>n, <1>p DEF Reach, Settled, Scanned, LoopExit
  <2> QED
    BY <2>3, <2>4 DEF IInv
<1>7. ASSUME Fraction PROVE IInv'
  <2>1. pos' \in 1..End /\ pos' = pos + 1
    BY <1>7, <1>0, <1>p, CharBound DEF Fraction
  <2>2. Scanned <= MaxNumberChars + 1
    BY <1>7, <1>0, <1>d DEF Fraction, Reach
  <2>3. pos' - 1 <= MaxNumberChars + 2
    BY <2>1, <2>2, <1>p, <1>n DEF Scanned
  <2>4. CASE IsDigit(pos + 1)
    <3>1. stage' = "digits" /\ next' = "exp" /\ UNCHANGED <<data, verdict>>
      BY <1>7, <2>4 DEF Fraction, EnterDigits
    <3>2. IsDigit(pos)'
      BY <2>4, <3>1, <2>1 DEF IsDigit, At, End
    <3>3. TypeOK' /\ LoopExit'
      BY <3>1, <2>1, <1>0 DEF TypeOK, LoopExit, End, Stage
    <3> QED
      BY <3>1, <3>2, <3>3, <2>3, <1>n, <1>p, <2>1 DEF IInv, Reach, Scanned
  <2>5. CASE ~IsDigit(pos + 1)
    <3>1. Reject("InvalidGrammar", pos + 1)
      BY <1>7, <2>5 DEF Fraction
    <3> QED
      BY <3>1, <2>1, <2>3, <1>c, <1>g, <1>n, <1>p
  <2> QED
    BY <2>4, <2>5
<1>8. ASSUME NoFraction PROVE IInv'
  BY <1>8, <1>0, <1>n, <1>p DEF NoFraction, GoTo, IInv, TypeOK, LoopExit, Reach, Settled,
     Scanned, End, Stage
<1>9. ASSUME Exponent PROVE IInv'
  <2> DEFINE q == pos + 1 + SignLen(pos + 1)
  <2>0. pos' = q /\ q \in Nat \ {0} /\ q <= pos + 2
    BY <1>9, <1>p DEF Exponent, SignLen
  <2>1. q \in 1..End
    <3>1. pos + 1 \in 1..End
      BY <1>9, <1>0, <1>p, CharBound DEF Exponent
    <3>2. CASE At(pos + 1) \in {"+", "-"}
      <4>1. pos + 1 + 1 \in 1..End
        BY <3>2, <1>0, <1>q, CharBound
      <4> QED
        BY <4>1, <3>2 DEF SignLen
    <3>3. CASE At(pos + 1) \notin {"+", "-"}
      BY <3>1, <3>3, <1>p DEF SignLen
    <3> QED
      BY <3>2, <3>3
  <2>2. Scanned <= MaxNumberChars + 1
    BY <1>9, <1>0, <1>d DEF Exponent, Reach
  <2>3. q <= MaxNumberChars + 4
    BY <2>0, <2>2, <1>p, <1>n DEF Scanned
  <2>4. CASE IsDigit(q)
    <3>1. stage' = "digits" /\ next' = "final" /\ UNCHANGED <<data, verdict>>
      BY <1>9, <2>4 DEF Exponent, EnterDigits
    <3>2. IsDigit(pos)'
      BY <2>4, <3>1, <2>0 DEF IsDigit, At, End
    <3>3. TypeOK' /\ LoopExit'
      BY <3>1, <2>0, <2>1, <1>0 DEF TypeOK, LoopExit, End, Stage
    <3>4. Scanned' <= MaxNumberChars + 3
      BY <2>0, <2>3, <1>n DEF Scanned
    <3> HIDE DEF q
    <3> QED
      BY <3>1, <3>2, <3>3, <3>4, <1>n, <2>0 DEF IInv, Reach, Scanned
  <2>5. CASE ~IsDigit(q)
    <3>1. Reject("InvalidGrammar", q)
      BY <1>9, <2>5 DEF Exponent
    <3> HIDE DEF q
    <3> QED
      BY <3>1, <2>0, <2>1, <2>3, <1>c, <1>g, <1>n
  <2> QED
    BY <2>4, <2>5
<1>10. ASSUME NoExponent PROVE IInv'
  BY <1>10, <1>0, <1>n, <1>p DEF NoExponent, GoTo, IInv, TypeOK, LoopExit, Reach, Settled,
     Scanned, End, Stage
<1>11. ASSUME Build PROVE IInv'
  <2> DEFINE c == IF Scanned > MaxNumberChars THEN "BoundExceeded" ELSE ValueClass(Raw)
  <2>1. c \in FailureClass \cup {None}
    BY <1>g, ValueClassType
  <2>2. Reject(c, 1) /\ pos' = pos
    BY <1>11 DEF Build
  <2>3. pos' - 1 <= MaxNumberChars + 4
    BY <2>2, <1>0, <1>p, <1>n DEF Reach, Scanned
  <2> HIDE DEF c
  <2> QED
    BY <2>1, <2>2, <2>3, <1>c, <1>p
<1>12. ASSUME UNCHANGED vars PROVE IInv'
  BY <1>12, <1>0 DEF vars, IInv, TypeOK, LoopExit, Reach, Settled, Scanned, IsDigit, At, End
<1> QED
  BY <1>1, <1>2, <1>3, <1>4, <1>5, <1>6, <1>7, <1>8, <1>9, <1>10, <1>11, <1>12 DEF Next

(* The scan keeps the inductive invariant on every text and every limit.   *)
THEOREM Invariance == Spec => []IInv
BY Initial, Inductive, PTL DEF Spec

(* The scanner's variables keep their types; in particular no stage reads  *)
(* past the end of the input.                                              *)
THEOREM TypeCorrect == Spec => []TypeOK
<1>1. IInv => TypeOK
  BY DEF IInv
<1> QED
  BY <1>1, Invariance, PTL

(* However long a digit run goes on, parseNumber reads at most four        *)
(* characters past the limit, whatever the limit is.                       *)
THEOREM WindowHolds == Spec => []ScanWindow
<1>1. IInv => ScanWindow
  BY DEF IInv, Reach, ScanWindow
<1> QED
  BY <1>1, Invariance, PTL

(* From a limit of two on, the final length check of parseNumber never     *)
(* refuses a token.                                                        *)
THEOREM FinalCheckRedundant == Spec => []LoopsSuffice
<1>1. IInv => LoopsSuffice
  BY MaxAssumption DEF IInv, Reach, Settled, LoopsSuffice, TypeOK, Scanned, End
<1> QED
  BY <1>1, Invariance, PTL

-----------------------------------------------------------------------------
(* How a token is cut, on the text itself. *)
Run(i, j) == \A k \in i..j : data[k] \in Digits
Begin     == IF At(1) = "-" THEN 2 ELSE 1

IntPart(f) == /\ Begin < f /\ f <= End
              /\ Run(Begin, f - 1)
              /\ data[Begin] = "0" => f = Begin + 1

FracPart(f, x) == f = x \/ (f + 1 < x /\ x <= End /\ data[f] = "." /\ Run(f + 1, x - 1))

(* the first digit of the exponent *)
Power(x) == x + 1 + SignLen(x + 1)

(* t begins with the first k characters of the text *)
Begins(t, k) == Len(t) \in Nat /\ Len(t) >= k /\ \A i \in 1..k : t[i] = data[i]

(* how far a text can be cut in three parts in only one way *)
Stops(t, i) == ~(i <= Len(t) /\ t[i] \in Digits)

LEMMA Basics ==
  ASSUME TypeOK
  PROVE  /\ End \in Nat /\ End >= 1 /\ Len(data) \in Nat /\ End = Len(data) + 1
         /\ pos \in Nat /\ pos >= 1 /\ pos <= End
         /\ Begin \in {1, 2} /\ Begin <= End
         /\ Begin = 2 => data[1] = "-"
         /\ Begin = 1 => At(1) # "-"
         /\ "-" \notin Digits /\ "." \notin Digits /\ "e" \notin Digits /\ "+" \notin Digits
<1>1. Len(data) \in Nat
  BY DEF TypeOK
<1>2. "-" \notin Digits /\ "." \notin Digits /\ "e" \notin Digits /\ "+" \notin Digits
  BY DEF Digits
<1>3. At(1) = "-" => 1 < End /\ data[1] = "-"
  BY DEF At, None
<1>. QED  BY <1>1, <1>2, <1>3 DEF TypeOK, End, Begin

LEMMA AtData ==
  ASSUME TypeOK, NEW i \in Nat
  PROVE  /\ IsDigit(i) <=> i < End /\ data[i] \in Digits
         /\ \A c \in Char : At(i) = c <=> i < End /\ data[i] = c
BY DEF At, IsDigit, Digits, Char, None

LEMMA IntUnique ==
  ASSUME TypeOK, NEW f \in Nat, IntPart(f), NEW t, Begins(t, f - 1), Stops(t, f),
         NEW g \in 1..(Len(t) + 1), Ref!IsInt(t, g), g = Len(t) + 1 \/ t[g] \in {".", "e"}
  PROVE  g = f
<1>1. /\ Len(t) \in Nat /\ Len(t) >= f - 1 /\ \A i \in 1..(f - 1) : t[i] = data[i]
      /\ g \in Nat /\ g >= 1 /\ g <= Len(t) + 1
  BY DEF Begins
<1>2. /\ Begin \in {1, 2} /\ Begin < f
      /\ Begin = 2 => data[1] = "-"
      /\ \A k \in Begin..(f - 1) : data[k] \in Digits
      /\ "-" \notin Digits /\ "." \notin Digits /\ "e" \notin Digits
  BY Basics DEF IntPart, Run
<1>3. PICK i \in {1, 2} : /\ i <= g - 1 /\ \A k \in i..(g - 1) : t[k] \in Digits
                          /\ i = 2 => t[1] = "-"
  BY DEF Ref!IsInt, Ref!AllDigits
<1>4. i = Begin
  <2>1. CASE Begin = 2
    <3>1. t[1] = "-"
      BY <1>1, <1>2, <2>1
    <3>2. i = 1 => t[1] \in Digits
      BY <1>1, <1>3
    <3>. QED  BY <1>2, <1>3, <2>1, <3>1, <3>2
  <2>2. CASE Begin = 1
    <3>1. t[1] = data[1] /\ data[1] \in Digits
      BY <1>1, <1>2, <2>2
    <3>. QED  BY <1>2, <1>3, <2>2, <3>1
  <2>. QED  BY <1>2, <2>1, <2>2
<1>5. ~(g < f)
  <2> SUFFICES ASSUME g < f PROVE FALSE
    OBVIOUS
  <2>1. g \in Begin..(f - 1) /\ g \in 1..(f - 1) /\ g # Len(t) + 1
    BY <1>1, <1>2, <1>3, <1>4
  <2>2. t[g] \in Digits
    BY <1>1, <1>2, <2>1
  <2>. QED  BY <1>2, <2>1, <2>2
<1>6. ~(f < g)
  <2> SUFFICES ASSUME f < g PROVE FALSE
    OBVIOUS
  <2>1. f \in i..(g - 1) /\ f <= Len(t)
    BY <1>1, <1>2, <1>4
  <2>. QED  BY <1>3, <2>1 DEF Stops
<1>. QED  BY <1>1, <1>5, <1>6

LEMMA FracUnique ==
  ASSUME TypeOK, NEW f \in Nat, NEW x \in Nat, f >= 1, FracPart(f, x),
         NEW t, Begins(t, x - 1), Stops(t, x), x = f => ~(x <= Len(t) /\ t[x] = "."),
         NEW y \in f..(Len(t) + 1), Ref!IsFraction(t, f, y), y = Len(t) + 1 \/ t[y] = "e"
  PROVE  y = x
<1>1. /\ Len(t) \in Nat /\ Len(t) >= x - 1 /\ \A i \in 1..(x - 1) : t[i] = data[i]
      /\ y \in Nat /\ y >= f /\ y <= Len(t) + 1
  BY DEF Begins
<1>2. "." \notin Digits /\ "e" \notin Digits
  BY Basics
<1>3. CASE y = f
  <2>1. CASE x = f
    BY <1>3, <2>1
  <2>2. CASE x # f
    <3>1. f + 1 < x /\ data[f] = "." /\ f \in 1..(x - 1)
      BY <2>2 DEF FracPart
    <3>2. t[f] = "." /\ f <= Len(t)
      BY <1>1, <3>1
    <3>. QED  BY <1>1, <1>3, <3>2
  <2>. QED  BY <2>1, <2>2
<1>4. CASE y # f
  <2>1. t[f] = "." /\ f < y /\ f + 1 <= y - 1 /\ \A k \in (f + 1)..(y - 1) : t[k] \in Digits
    BY <1>1, <1>4 DEF Ref!IsFraction, Ref!AllDigits
  <2>2. f <= Len(t)
    BY <1>1, <2>1
  <2>3. x # f
    BY <2>1, <2>2
  <2>4. f + 1 < x /\ \A k \in (f + 1)..(x - 1) : data[k] \in Digits
    BY <2>3 DEF FracPart, Run
  <2>5. ~(y < x)
    <3> SUFFICES ASSUME y < x PROVE FALSE
      OBVIOUS
    <3>1. y \in (f + 1)..(x - 1) /\ y \in 1..(x - 1) /\ y # Len(t) + 1
      BY <1>1, <2>1
    <3>2. t[y] \in Digits
      BY <1>1, <2>4, <3>1
    <3>. QED  BY <1>2, <3>1, <3>2
  <2>6. ~(x < y)
    <3> SUFFICES ASSUME x < y PROVE FALSE
      OBVIOUS
    <3>1. x \in (f + 1)..(y - 1) /\ x <= Len(t)
      BY <1>1, <2>4
    <3>. QED  BY <2>1, <3>1 DEF Stops
  <2>. QED  BY <1>1, <2>5, <2>6
<1>. QED  BY <1>3, <1>4

(* The cuts of a number: every token has the one of the scanner. *)
LEMMA Cuts ==
  ASSUME NEW t, Len(t) \in Nat, Ref!IsNumber(t)
  PROVE  \E g \in 1..(Len(t) + 1) : \E y \in g..(Len(t) + 1) :
            /\ Ref!IsInt(t, g) /\ Ref!IsFraction(t, g, y) /\ Ref!IsExponent(t, y)
            /\ g = Len(t) + 1 \/ t[g] \in {".", "e"}
            /\ y = Len(t) + 1 \/ t[y] = "e"
<1>1. PICK g \in 1..(Len(t) + 1) : \E y \in g..(Len(t) + 1) :
            Ref!IsInt(t, g) /\ Ref!IsFraction(t, g, y) /\ Ref!IsExponent(t, y)
  BY DEF Ref!IsNumber
<1>2. PICK y \in g..(Len(t) + 1) :
            Ref!IsInt(t, g) /\ Ref!IsFraction(t, g, y) /\ Ref!IsExponent(t, y)
  BY <1>1
<1>3. y = Len(t) + 1 \/ t[y] = "e"
  BY <1>2 DEF Ref!IsExponent
<1>4. g = Len(t) + 1 \/ t[g] \in {".", "e"}
  <2>1. g = y \/ t[g] = "."
    BY <1>2 DEF Ref!IsFraction
  <2>. QED  BY <1>3, <2>1
<1>. QED  BY <1>2, <1>3, <1>4

-----------------------------------------------------------------------------
(* The texts no number begins with, for each way the scan can end. *)
LEMMA NoIntegerDead ==
  ASSUME TypeOK, NEW t, Begins(t, Begin - 1), Stops(t, Begin),
         Begin = 1 => ~(1 <= Len(t) /\ t[1] = "-")
  PROVE  ~Ref!IsNumber(t)
<1> SUFFICES ASSUME Ref!IsNumber(t) PROVE FALSE
  OBVIOUS
<1>1. /\ Len(t) \in Nat /\ Len(t) >= Begin - 1 /\ \A i \in 1..(Begin - 1) : t[i] = data[i]
      /\ Begin \in {1, 2} /\ (Begin = 2 => data[1] = "-") /\ "-" \notin Digits
  BY Basics DEF Begins
<1>2. PICK g \in 1..(Len(t) + 1) : Ref!IsInt(t, g)
  BY <1>1, Cuts
<1>3. PICK i \in {1, 2} : /\ i <= g - 1 /\ \A k \in i..(g - 1) : t[k] \in Digits
                          /\ i = 2 => t[1] = "-"
  BY <1>2 DEF Ref!IsInt, Ref!AllDigits
<1>4. t[i] \in Digits /\ i <= Len(t)
  BY <1>1, <1>3
<1>5. CASE Begin = 1
  <2>1. i = 1
    BY <1>1, <1>3, <1>4, <1>5
  <2>. QED  BY <1>4, <1>5, <2>1 DEF Stops
<1>6. CASE Begin = 2
  <2>1. t[1] = "-"
    BY <1>1, <1>6
  <2>2. i = 2
    BY <1>1, <1>3, <1>4, <2>1
  <2>. QED  BY <1>4, <1>6, <2>2 DEF Stops
<1>. QED  BY <1>1, <1>5, <1>6

LEMMA LeadingZeroDead ==
  ASSUME TypeOK, data[Begin] = "0", Begin < End, NEW t, Begins(t, Begin + 1), t[Begin + 1] \in Digits
  PROVE  ~Ref!IsNumber(t)
<1> SUFFICES ASSUME Ref!IsNumber(t) PROVE FALSE
  OBVIOUS
<1>1. /\ Len(t) \in Nat /\ Len(t) >= Begin + 1 /\ \A i \in 1..(Begin + 1) : t[i] = data[i]
      /\ Begin \in {1, 2} /\ (Begin = 2 => data[1] = "-")
      /\ "-" \notin Digits /\ "." \notin Digits /\ "e" \notin Digits
  BY Basics DEF Begins
<1>2. PICK g \in 1..(Len(t) + 1) : Ref!IsInt(t, g) /\ (g = Len(t) + 1 \/ t[g] \in {".", "e"})
  BY <1>1, Cuts
<1>3. PICK i \in {1, 2} : /\ i <= g - 1 /\ \A k \in i..(g - 1) : t[k] \in Digits
                          /\ i = 2 => t[1] = "-"
                          /\ t[i] = "0" => g = i + 1
  BY <1>2 DEF Ref!IsInt, Ref!AllDigits
<1>4. t[Begin] = "0" /\ "0" \in Digits
  BY <1>1 DEF Digits
<1>5. i = Begin
  <2>1. CASE Begin = 2
    <3>1. t[1] = "-"
      BY <1>1, <2>1
    <3>2. i = 1 => t[1] \in Digits
      BY <1>1, <1>3
    <3>. QED  BY <1>1, <1>3, <2>1, <3>1, <3>2
  <2>2. CASE Begin = 1
    BY <1>1, <1>3, <1>4, <2>2
  <2>. QED  BY <1>1, <2>1, <2>2
<1>6. g = Begin + 1
  BY <1>3, <1>4, <1>5
<1>. QED  BY <1>1, <1>2, <1>6

LEMMA FractionDead ==
  ASSUME TypeOK, NEW f \in Nat, IntPart(f), f < End, data[f] = ".",
         NEW t, Begins(t, f), Stops(t, f + 1)
  PROVE  ~Ref!IsNumber(t)
<1> SUFFICES ASSUME Ref!IsNumber(t) PROVE FALSE
  OBVIOUS
<1>1. /\ Len(t) \in Nat /\ Len(t) >= f /\ \A i \in 1..f : t[i] = data[i]
      /\ "." \notin Digits /\ f >= 1
  BY Basics DEF Begins, IntPart
<1>2. t[f] = "."
  BY <1>1
<1>3. PICK g \in 1..(Len(t) + 1) : \E y \in g..(Len(t) + 1) :
            /\ Ref!IsInt(t, g) /\ Ref!IsFraction(t, g, y)
            /\ g = Len(t) + 1 \/ t[g] \in {".", "e"}
            /\ y = Len(t) + 1 \/ t[y] = "e"
  BY <1>1, Cuts
<1>4. g = f
  <2>1. Begins(t, f - 1) /\ Stops(t, f)
    BY <1>1, <1>2 DEF Begins, Stops
  <2>. QED  BY <1>3, <2>1, IntUnique
<1>5. PICK y \in f..(Len(t) + 1) : Ref!IsFraction(t, f, y) /\ (y = Len(t) + 1 \/ t[y] = "e")
  BY <1>3, <1>4
<1>6. y # f
  BY <1>1, <1>2, <1>5
<1>7. f + 1 <= y - 1 /\ t[f + 1] \in Digits
  BY <1>1, <1>5, <1>6 DEF Ref!IsFraction, Ref!AllDigits
<1>8. f + 1 <= Len(t)
  BY <1>1, <1>5, <1>7
<1>. QED  BY <1>7, <1>8 DEF Stops

(* what is known of the cuts of a text up to its exponent *)
LEMMA SameCuts ==
  ASSUME TypeOK, NEW f \in Nat, NEW x \in Nat, IntPart(f), FracPart(f, x),
         NEW t, Begins(t, x - 1), Stops(t, x), x = f => ~(x <= Len(t) /\ t[x] = "."),
         Ref!IsNumber(t)
  PROVE  Ref!IsExponent(t, x)
<1>1. /\ Len(t) \in Nat /\ Len(t) >= x - 1 /\ \A i \in 1..(x - 1) : t[i] = data[i]
      /\ "." \notin Digits /\ f >= 1 /\ f <= x
  BY Basics DEF Begins, IntPart, FracPart
<1>2. PICK g \in 1..(Len(t) + 1) : \E y \in g..(Len(t) + 1) :
            /\ Ref!IsInt(t, g) /\ Ref!IsFraction(t, g, y) /\ Ref!IsExponent(t, y)
            /\ g = Len(t) + 1 \/ t[g] \in {".", "e"}
            /\ y = Len(t) + 1 \/ t[y] = "e"
  BY <1>1, Cuts
<1>3. g = f
  <2>1. Begins(t, f - 1)
    BY <1>1 DEF Begins
  <2>2. Stops(t, f)
    <3>1. CASE x = f
      BY <3>1
    <3>2. CASE x # f
      <4>1. data[f] = "." /\ f \in 1..(x - 1)
        BY <1>1, <3>2 DEF FracPart
      <4>. QED  BY <1>1, <4>1 DEF Stops
    <3>. QED  BY <3>1, <3>2
  <2>. QED  BY <1>2, <2>1, <2>2, IntUnique
<1>4. PICK y \in f..(Len(t) + 1) : /\ Ref!IsFraction(t, f, y) /\ Ref!IsExponent(t, y)
                                   /\ y = Len(t) + 1 \/ t[y] = "e"
  BY <1>2, <1>3
<1>5. y = x
  BY <1>1, <1>4, FracUnique
<1>. QED  BY <1>4, <1>5

LEMMA PowerType ==
  ASSUME TypeOK, NEW x \in Nat
  PROVE  /\ Power(x) \in Nat /\ (Power(x) = x + 1 \/ Power(x) = x + 2)
         /\ Power(x) = x + 2 => x + 1 < End /\ data[x + 1] \in {"+", "-"}
         /\ Power(x) = x + 1 => ~(x + 1 < End /\ data[x + 1] \in {"+", "-"})
         /\ x < End => Power(x) <= End
<1>1. \A c \in {"+", "-"} : At(x + 1) = c <=> x + 1 < End /\ data[x + 1] = c
  BY AtData DEF Char
<1>2. End \in Nat
  BY Basics
<1>3. CASE At(x + 1) \in {"+", "-"}
  <2>1. x + 1 < End /\ data[x + 1] \in {"+", "-"}
    BY <1>1, <1>3
  <2>2. Power(x) = x + 2
    BY <1>3 DEF Power, SignLen
  <2>. QED  BY <1>2, <2>1, <2>2
<1>4. CASE At(x + 1) \notin {"+", "-"}
  <2>1. ~(x + 1 < End /\ data[x + 1] \in {"+", "-"})
    BY <1>1, <1>4
  <2>2. Power(x) = x + 1
    BY <1>4 DEF Power, SignLen
  <2>. QED  BY <1>2, <2>1, <2>2
<1>. QED  BY <1>3, <1>4

LEMMA ExponentDead ==
  ASSUME TypeOK, NEW f \in Nat, NEW x \in Nat, IntPart(f), FracPart(f, x), x < End, data[x] = "e",
         NEW t, Begins(t, Power(x) - 1), Stops(t, Power(x)),
         Power(x) = x + 1 => ~(x + 1 <= Len(t) /\ t[x + 1] \in {"+", "-"})
  PROVE  ~Ref!IsNumber(t)
<1> SUFFICES ASSUME Ref!IsNumber(t) PROVE FALSE
  OBVIOUS
<1> DEFINE d == Power(x)
<1>1. /\ d \in Nat /\ (d = x + 1 \/ d = x + 2)
      /\ d = x + 2 => x + 1 < End /\ data[x + 1] \in {"+", "-"}
  BY PowerType
<1>2. /\ Len(t) \in Nat /\ Len(t) >= d - 1 /\ \A i \in 1..(d - 1) : t[i] = data[i]
      /\ "+" \notin Digits /\ "-" \notin Digits /\ "e" \notin Digits /\ x >= 1
  BY Basics DEF Begins, IntPart, FracPart
<1> HIDE DEF d
<1>3. t[x] = "e" /\ x <= Len(t)
  BY <1>1, <1>2
<1>4. Ref!IsExponent(t, x)
  <2>1. Begins(t, x - 1) /\ Stops(t, x) /\ t[x] # "."
    BY <1>1, <1>2, <1>3 DEF Begins, Stops
  <2>. QED  BY <2>1, SameCuts
<1>5. PICK e \in {x + 1, x + 2} : /\ e <= Len(t) /\ \A k \in e..Len(t) : t[k] \in Digits
                                  /\ e = x + 2 => t[x + 1] \in {"+", "-"}
  BY <1>2, <1>3, <1>4 DEF Ref!IsExponent, Ref!AllDigits
<1>6. CASE d = x + 1
  <2>1. e # x + 2
    BY <1>2, <1>5, <1>6 DEF d
  <2>2. e = d /\ t[d] \in Digits /\ d <= Len(t)
    BY <1>2, <1>5, <1>6, <2>1
  <2>. QED  BY <2>2 DEF Stops, d
<1>7. CASE d = x + 2
  <2>1. t[x + 1] \in {"+", "-"}
    BY <1>1, <1>2, <1>7
  <2>2. e # x + 1
    BY <1>2, <1>5, <2>1
  <2>3. t[d] \in Digits /\ d <= Len(t)
    BY <1>2, <1>5, <1>7, <2>2
  <2>. QED  BY <2>3 DEF Stops, d
<1>. QED  BY <1>1, <1>6, <1>7

(* a whole number has been read, the scan can go no further *)
Ended(f, x) ==
  /\ f \in Nat /\ x \in Nat /\ IntPart(f) /\ FracPart(f, x)
  /\ x = pos \/ (x < End /\ data[x] = "e" /\ Power(x) < pos /\ Run(Power(x), pos - 1))
  /\ ~IsDigit(pos)
  /\ f = pos => At(pos) # "."
  /\ x = pos => At(pos) # "e"

LEMMA EndedDead ==
  ASSUME TypeOK, NEW f, NEW x, Ended(f, x), pos < End, NEW t, Begins(t, pos)
  PROVE  ~Ref!IsNumber(t)
<1> SUFFICES ASSUME Ref!IsNumber(t) PROVE FALSE
  OBVIOUS
<1>1. /\ Len(t) \in Nat /\ Len(t) >= pos /\ \A i \in 1..pos : t[i] = data[i]
      /\ f \in Nat /\ x \in Nat /\ x >= f /\ f >= 1
      /\ pos \in Nat /\ pos >= 1 /\ "e" \notin Digits
  BY Basics DEF Begins, Ended, IntPart, FracPart
<1>2. t[pos] \notin Digits /\ (f = pos => t[pos] # ".") /\ (x = pos => t[pos] # "e")
  BY <1>1, AtData DEF Ended, Char
<1>3. /\ Power(x) \in Nat /\ (Power(x) = x + 1 \/ Power(x) = x + 2)
  BY <1>1, PowerType
<1>4. x <= pos /\ (x # pos => x < pos /\ data[x] = "e" /\ Power(x) < pos)
  BY <1>1, <1>3 DEF Ended
<1>5. t[x] \notin Digits /\ (x = f => t[x] # ".")
  BY <1>1, <1>2, <1>4
<1>6. Ref!IsExponent(t, x)
  <2>1. Begins(t, x - 1) /\ Stops(t, x)
    BY <1>1, <1>4, <1>5 DEF Begins, Stops
  <2>. QED  BY <1>5, <2>1, SameCuts DEF Ended
<1>7. x # Len(t) + 1 /\ t[x] = "e"
  BY <1>1, <1>4, <1>6 DEF Ref!IsExponent
<1>8. x # pos
  BY <1>2, <1>7
<1>9. PICK e \in {x + 1, x + 2} : \A k \in e..Len(t) : t[k] \in Digits
  BY <1>6, <1>7 DEF Ref!IsExponent, Ref!AllDigits
<1>10. pos \in e..Len(t)
  BY <1>1, <1>3, <1>4, <1>8
<1>. QED  BY <1>2, <1>9, <1>10

-----------------------------------------------------------------------------
(* The texts that are numbers. *)
LEMMA NumberIs ==
  ASSUME TypeOK, NEW f \in Nat, NEW x \in Nat, IntPart(f), FracPart(f, x),
         NEW t, Begins(t, x - 1), Ref!IsExponent(t, x), x <= Len(t) + 1
  PROVE  Ref!IsNumber(t)
<1>1. /\ Len(t) \in Nat /\ Len(t) >= x - 1 /\ \A i \in 1..(x - 1) : t[i] = data[i]
      /\ Begin \in {1, 2} /\ Begin < f /\ f <= x
      /\ Begin = 2 => data[1] = "-"
  BY Basics DEF Begins, IntPart, FracPart
<1>2. f \in 1..(Len(t) + 1) /\ x \in f..(Len(t) + 1)
  BY <1>1
<1>3. Ref!IsInt(t, f)
  <2>1. \A k \in Begin..(f - 1) : t[k] \in Digits
    BY <1>1 DEF IntPart, Run
  <2>2. Begin = 2 => t[1] = "-"
    BY <1>1
  <2>3. t[Begin] = "0" => f = Begin + 1
    BY <1>1 DEF IntPart
  <2>4. Begin <= f - 1
    BY <1>1
  <2>. QED  BY <1>1, <2>1, <2>2, <2>3, <2>4 DEF Ref!IsInt, Ref!AllDigits
<1>4. Ref!IsFraction(t, f, x)
  <2>1. CASE f = x
    BY <2>1 DEF Ref!IsFraction
  <2>2. CASE f # x
    <3>1. f + 1 < x /\ data[f] = "." /\ \A k \in (f + 1)..(x - 1) : data[k] \in Digits
      BY <2>2 DEF FracPart, Run
    <3>2. t[f] = "." /\ f + 1 <= x - 1
      BY <1>1, <3>1
    <3>3. \A k \in (f + 1)..(x - 1) : t[k] \in Digits
      BY <1>1, <3>1
    <3>. QED  BY <3>2, <3>3 DEF Ref!IsFraction, Ref!AllDigits
  <2>. QED  BY <2>1, <2>2
<1>. QED  BY <1>2, <1>3, <1>4 DEF Ref!IsNumber

LEMMA PrefixIs ==
  ASSUME TypeOK, NEW k \in 0..Len(data)
  PROVE  /\ Len(Prefix(k)) = k /\ Begins(Prefix(k), k)
         /\ Len(Append(Prefix(k), "1")) = k + 1 /\ Begins(Append(Prefix(k), "1"), k)
         /\ Append(Prefix(k), "1")[k + 1] = "1"
<1>1. data \in Seq(Char) /\ Len(data) \in Nat
  BY DEF TypeOK
<1>2. Prefix(k) \in Seq(Char) /\ Len(Prefix(k)) = k /\ \A i \in 1..k : Prefix(k)[i] = data[i]
  BY <1>1, SubSeqProperties DEF Prefix
<1>3. "1" \in Char
  BY DEF Char, Digits
<1>4. /\ Len(Append(Prefix(k), "1")) = k + 1
      /\ \A i \in 1..k : Append(Prefix(k), "1")[i] = Prefix(k)[i]
      /\ Append(Prefix(k), "1")[k + 1] = "1"
  BY <1>2, <1>3, AppendProperties
<1>. QED  BY <1>2, <1>4 DEF Begins

(* a digit may follow *)
LEMMA ViableStart ==
  ASSUME TypeOK, NEW k \in 0..Len(data), k = Begin - 1
  PROVE  Viable(Prefix(k))
<1> DEFINE t == Append(Prefix(k), "1")
<1>1. /\ Len(t) = k + 1 /\ \A i \in 1..k : t[i] = data[i]
      /\ t[k + 1] = "1"
  BY PrefixIs DEF Begins
<1>2. Begin \in {1, 2} /\ (Begin = 2 => data[1] = "-") /\ "1" \in Digits
  BY Basics DEF Digits
<1> HIDE DEF t
<1>3. Ref!AllDigits(t, Begin, (Begin + 1) - 1)
  BY <1>1, <1>2 DEF Ref!AllDigits
<1>4. Ref!IsInt(t, Begin + 1)
  <2>1. Begin = 2 => t[1] = "-"
    BY <1>1, <1>2
  <2>2. t[Begin] # "0"
    BY <1>1, <1>2
  <2>. QED  BY <1>2, <1>3, <2>1, <2>2 DEF Ref!IsInt
<1>5. Ref!IsFraction(t, Begin + 1, Begin + 1) /\ Ref!IsExponent(t, Begin + 1)
  BY <1>1, <1>2 DEF Ref!IsFraction, Ref!IsExponent
<1>6. Begin + 1 \in 1..(Len(t) + 1) /\ Begin + 1 \in (Begin + 1)..(Len(t) + 1)
  BY <1>1, <1>2
<1>7. Ref!IsNumber(t)
  BY <1>4, <1>5, <1>6 DEF Ref!IsNumber
<1>. QED  BY <1>7 DEF Viable, t

LEMMA ViableWhole ==
  ASSUME TypeOK, NEW f \in Nat, NEW x \in Nat, IntPart(f), FracPart(f, x)
  PROVE  x - 1 \in 0..Len(data) /\ Viable(Prefix(x - 1)) /\ Ref!IsNumber(Prefix(x - 1))
<1>1. x - 1 \in 0..Len(data)
  BY Basics DEF IntPart, FracPart
<1>2. Len(Prefix(x - 1)) = x - 1 /\ Begins(Prefix(x - 1), x - 1)
  BY <1>1, PrefixIs
<1>3. Ref!IsExponent(Prefix(x - 1), x)
  BY <1>1, <1>2 DEF Ref!IsExponent
<1>4. x <= Len(Prefix(x - 1)) + 1
  BY <1>1, <1>2
<1>5. Ref!IsNumber(Prefix(x - 1))
  BY <1>2, <1>3, <1>4, NumberIs
<1>. QED  BY <1>1, <1>5 DEF Viable

LEMMA ViablePoint ==
  ASSUME TypeOK, NEW f \in Nat, IntPart(f), f < End, data[f] = "."
  PROVE  Viable(Prefix(f))
<1> DEFINE t == Append(Prefix(f), "1")
<1>0. f \in 0..Len(data) /\ Begin \in {1, 2} /\ (Begin = 2 => data[1] = "-") /\ "1" \in Digits
      /\ Begin < f
  BY Basics DEF Digits, IntPart
<1>1. Len(t) = f + 1 /\ (\A i \in 1..f : t[i] = data[i]) /\ t[f + 1] = "1"
  BY <1>0, PrefixIs DEF Begins
<1> HIDE DEF t
<1>2. Ref!IsInt(t, f)
  <2>1. \A k \in Begin..(f - 1) : t[k] \in Digits
    BY <1>0, <1>1 DEF IntPart, Run
  <2>2. Begin = 2 => t[1] = "-"
    BY <1>0, <1>1
  <2>3. t[Begin] = "0" => f = Begin + 1
    BY <1>0, <1>1 DEF IntPart
  <2>4. Begin <= f - 1
    BY <1>0
  <2>. QED  BY <1>0, <2>1, <2>2, <2>3, <2>4 DEF Ref!IsInt, Ref!AllDigits
<1>3. Ref!IsFraction(t, f, f + 2)
  <2>1. t[f] = "."
    BY <1>0, <1>1
  <2>2. f + 1 <= f + 2 - 1 /\ \A k \in (f + 1)..(f + 2 - 1) : t[k] \in Digits
    BY <1>0, <1>1
  <2>. QED  BY <2>1, <2>2 DEF Ref!IsFraction, Ref!AllDigits
<1>4. Ref!IsExponent(t, f + 2)
  BY <1>0, <1>1 DEF Ref!IsExponent
<1>5. f \in 1..(Len(t) + 1) /\ f + 2 \in f..(Len(t) + 1)
  BY <1>0, <1>1
<1>6. Ref!IsNumber(t)
  BY <1>2, <1>3, <1>4, <1>5 DEF Ref!IsNumber
<1>. QED  BY <1>6 DEF Viable, t

(* the mark, its sign, and the digits after them *)
LEMMA ViableMark ==
  ASSUME TypeOK, NEW f \in Nat, NEW x \in Nat, IntPart(f), FracPart(f, x), x < End, data[x] = "e",
         NEW k \in Nat, x <= k, k < Power(x)
  PROVE  k \in 0..Len(data) /\ Viable(Prefix(k))
<1> DEFINE t == Append(Prefix(k), "1")
<1>a. /\ Power(x) \in Nat /\ (Power(x) = x + 1 \/ Power(x) = x + 2)
      /\ Power(x) = x + 2 => x + 1 < End /\ data[x + 1] \in {"+", "-"}
  BY PowerType
<1>b. x \in Nat /\ x >= 1
  BY Basics DEF IntPart, FracPart
<1>c. End = Len(data) + 1 /\ Len(data) \in Nat /\ "1" \in Digits
  BY Basics DEF Digits
<1>0. /\ Power(x) \in Nat /\ (Power(x) = x + 1 \/ Power(x) = x + 2)
      /\ Power(x) = x + 2 => x + 1 < End /\ data[x + 1] \in {"+", "-"}
      /\ End = Len(data) + 1 /\ Len(data) \in Nat /\ x >= 1
      /\ "1" \in Digits
  BY <1>a, <1>b, <1>c
<1>1. k \in 0..Len(data) /\ (k = x \/ k = x + 1)
  BY <1>0
<1>2. Len(t) = k + 1 /\ (\A i \in 1..k : t[i] = data[i]) /\ t[k + 1] = "1"
  BY <1>1, PrefixIs DEF Begins
<1> HIDE DEF t
<1>3. t[x] = "e" /\ Ref!AllDigits(t, k + 1, Len(t))
  BY <1>0, <1>1, <1>2 DEF Ref!AllDigits
<1>4. k + 1 = x + 2 => t[x + 1] \in {"+", "-"}
  BY <1>0, <1>1, <1>2
<1>5. Ref!IsExponent(t, x)
  BY <1>1, <1>3, <1>4 DEF Ref!IsExponent
<1>6. Begins(t, x - 1) /\ x <= Len(t) + 1
  BY <1>0, <1>1, <1>2 DEF Begins
<1>7. Ref!IsNumber(t)
  BY <1>5, <1>6, NumberIs
<1>. QED  BY <1>1, <1>7 DEF Viable, t

LEMMA ViablePower ==
  ASSUME TypeOK, NEW f \in Nat, NEW x \in Nat, IntPart(f), FracPart(f, x), x < End, data[x] = "e",
         NEW k \in 0..Len(data), Power(x) <= k, Run(Power(x), k)
  PROVE  Viable(Prefix(k)) /\ Ref!IsNumber(Prefix(k))
<1> DEFINE t == Prefix(k)
<1>a. /\ Power(x) \in Nat /\ (Power(x) = x + 1 \/ Power(x) = x + 2)
      /\ Power(x) = x + 2 => x + 1 < End /\ data[x + 1] \in {"+", "-"}
  BY PowerType
<1>b. x \in Nat /\ x >= 1
  BY Basics DEF IntPart, FracPart
<1>c. Len(data) \in Nat
  BY Basics
<1>0. /\ Power(x) \in Nat /\ (Power(x) = x + 1 \/ Power(x) = x + 2)
      /\ Power(x) = x + 2 => x + 1 < End /\ data[x + 1] \in {"+", "-"}
      /\ Len(data) \in Nat /\ x >= 1
  BY <1>a, <1>b, <1>c
<1>1. Len(t) = k /\ \A i \in 1..k : t[i] = data[i]
  BY PrefixIs DEF Begins
<1> HIDE DEF t
<1>2. t[x] = "e" /\ Ref!AllDigits(t, Power(x), Len(t))
  BY <1>0, <1>1 DEF Ref!AllDigits, Run
<1>3. Power(x) = x + 2 => t[x + 1] \in {"+", "-"}
  BY <1>0, <1>1
<1>4. Ref!IsExponent(t, x)
  BY <1>0, <1>2, <1>3 DEF Ref!IsExponent
<1>5. Begins(t, x - 1) /\ x <= Len(t) + 1
  BY <1>0, <1>1 DEF Begins
<1>6. Ref!IsNumber(t)
  BY <1>4, <1>5, NumberIs
<1>. QED  BY <1>6 DEF Viable, t

(* Induction over the naturals, as a set without a least element. *)
LEMMA LeastElement ==
  ASSUME NEW B, B \subseteq Nat, B # {}
  PROVE  \E i \in B : \A j \in B : i <= j
<1>1. PICK i \in B : \A j \in B : ~(<<j, i>> \in OpToRel(<, Nat))
  BY NatLessThanWellFounded, WFMin
<1>2. OpToRel(<, Nat) = {ss \in Nat \X Nat : ss[1] < ss[2]}
  BY DEF OpToRel
<1>3. ASSUME NEW j \in B, j < i PROVE FALSE
  <2>1. <<j, i>> \in Nat \X Nat
    OBVIOUS
  <2>. QED  BY <1>1, <1>2, <1>3, <2>1
<1>4. \A j \in B : i <= j
  BY <1>3
<1>. QED  BY <1>4


(* A function on 0..N may be defined by recursion. *)
Rule(G, N, S)         == G \in [S \X (1..N) -> S]
Recurs(f, N, S, e, G) == f \in [0..N -> S] /\ f[0] = e /\ \A u \in 1..N : f[u] = G[<<f[u - 1], u>>]

LEMMA Recursion ==
  ASSUME NEW N \in Nat, NEW S, NEW e \in S, NEW G, Rule(G, N, S)
  PROVE  \E f : Recurs(f, N, S, e, G)
<1> DEFINE P(k) == \E f \in [0..k -> S] : f[0] = e /\ \A u \in 1..k : f[u] = G[<<f[u - 1], u>>]
           B == {k \in 0..N : ~P(k)}
<1>1. B \subseteq Nat
  OBVIOUS
<1>2. CASE B = {}
  <2>1. N \in 0..N
    OBVIOUS
  <2>2. P(N)
    <3> HIDE DEF P
    <3>. QED  BY <1>2, <2>1
  <2>. QED  BY <2>2 DEF Recurs
<1>3. CASE B # {}
  <2>1. PICK k \in B : \A j \in B : k <= j
    <3> HIDE DEF B
    <3>. QED  BY <1>1, <1>3, LeastElement
  <2>2. k \in Nat /\ k <= N /\ ~P(k)
    <3> HIDE DEF P
    <3>. QED  OBVIOUS
  <2>3. k # 0
    <3>1. P(0)
      <4> DEFINE z == [u \in 0..0 |-> e]
      <4>1. z \in [0..0 -> S] /\ z[0] = e /\ \A u \in 1..0 : FALSE
        OBVIOUS
      <4> HIDE DEF z
      <4>. QED  BY <4>1
    <3> HIDE DEF P
    <3>. QED  BY <2>2, <3>1
  <2>4. P(k - 1)
    <3>1. k - 1 \in 0..N /\ ~(k <= k - 1)
      BY <2>2, <2>3
    <3>2. k - 1 \notin B
      <4> HIDE DEF B
      <4>. QED  BY <2>1, <3>1
    <3> HIDE DEF P
    <3>. QED  BY <3>1, <3>2
  <2>5. PICK f \in [0..(k - 1) -> S] :
               f[0] = e /\ \A u \in 1..(k - 1) : f[u] = G[<<f[u - 1], u>>]
    BY <2>4
  <2> DEFINE g == [u \in 0..k |-> IF u = k THEN G[<<f[k - 1], k>>] ELSE f[u]]
  <2>6. f[k - 1] \in S /\ <<f[k - 1], k>> \in S \X (1..N)
    BY <2>2, <2>3
  <2>7. g \in [0..k -> S]
    <3>1. \A u \in 0..k : u # k => f[u] \in S
      BY <2>2
    <3>2. G[<<f[k - 1], k>>] \in S
      BY <2>6 DEF Rule
    <3>. QED  BY <3>1, <3>2
  <2>8. g[0] = e /\ g[k] = G[<<f[k - 1], k>>] /\ \A u \in 0..(k - 1) : g[u] = f[u]
    BY <2>2, <2>3, <2>5
  <2>9. \A u \in 1..k : g[u] = G[<<g[u - 1], u>>]
    <3> SUFFICES ASSUME NEW u \in 1..k PROVE g[u] = G[<<g[u - 1], u>>]
      OBVIOUS
    <3>1. u - 1 \in 0..(k - 1)
      BY <2>2
    <3> HIDE DEF g
    <3>2. g[u - 1] = f[u - 1]
      BY <2>8, <3>1
    <3>3. CASE u = k
      BY <2>8, <3>2, <3>3
    <3>4. CASE u # k
      <4>1. u \in 1..(k - 1) /\ u \in 0..(k - 1)
        BY <2>2, <3>4
      <4>. QED  BY <2>5, <2>8, <3>2, <4>1
    <3>. QED  BY <3>3, <3>4
  <2>10. P(k)
    <3> HIDE DEF g
    <3>. QED  BY <2>7, <2>8, <2>9
  <2> HIDE DEF P
  <2>. QED  BY <2>2, <2>10
<1>. QED  BY <1>2, <1>3


-----------------------------------------------------------------------------
(* The value of the digits of a token is zero if no digit is another one. *)
Nonzero == Digits \ {"0"}

LEMMA ValuesIs ==
  ASSUME NEW w \in Seq(Char)
  PROVE  \A u \in 0..Len(w) :
            Values(w)[u] = IF u = 0 THEN 0
                           ELSE IF w[u] \in Digits THEN 10 * Values(w)[u - 1] + DigitValue(w[u])
                           ELSE Values(w)[u - 1]
<1>0. Len(w) \in Nat /\ \A u \in 1..Len(w) : DigitValue(w[u]) \in Nat
  BY DEF DigitValue
<1> DEFINE F(f) == [u \in 0..Len(w) |->
                      IF u = 0 THEN 0
                      ELSE IF w[u] \in Digits THEN 10 * f[u - 1] + DigitValue(w[u]) ELSE f[u - 1]]
           G == [x \in Nat \X (1..Len(w)) |->
                   IF w[x[2]] \in Digits THEN 10 * x[1] + DigitValue(w[x[2]]) ELSE x[1]]
<1>1. \E f : f = F(f)
  <2>1. Rule(G, Len(w), Nat)
    BY <1>0 DEF Rule
  <2>2. PICK f : Recurs(f, Len(w), Nat, 0, G)
    <3>1. Len(w) \in Nat /\ 0 \in Nat
      BY <1>0
    <3> HIDE DEF G
    <3>. QED  BY <2>1, <3>1, Recursion, Zenon
  <2>m. f \in [0..Len(w) -> Nat] /\ f[0] = 0 /\ \A u \in 1..Len(w) : f[u] = G[<<f[u - 1], u>>]
    <3> HIDE DEF G
    <3>. QED  BY <2>2 DEF Recurs
  <2>3. \A u \in 0..Len(w) :
           f[u] = IF u = 0 THEN 0
                  ELSE IF w[u] \in Digits THEN 10 * f[u - 1] + DigitValue(w[u]) ELSE f[u - 1]
    <3>s. SUFFICES ASSUME NEW u \in 1..Len(w)
                   PROVE  f[u] = IF w[u] \in Digits THEN 10 * f[u - 1] + DigitValue(w[u])
                                 ELSE f[u - 1]
      <4>1. \A u \in 0..Len(w) : u = 0 \/ (u # 0 /\ u \in 1..Len(w))
        BY <1>0
      <4> HIDE DEF G
      <4>. QED  BY <2>m, <4>1
    <3>0. u - 1 \in 0..Len(w)
      BY <1>0
    <3>1. <<f[u - 1], u>> \in Nat \X (1..Len(w))
      BY <2>m, <3>0
    <3>2. G[<<f[u - 1], u>>] = IF w[u] \in Digits THEN 10 * f[u - 1] + DigitValue(w[u])
                               ELSE f[u - 1]
      BY <3>1
    <3> HIDE DEF G
    <3>. QED  BY <2>m, <3>2
  <2>4. f = F(f)
    <3> HIDE DEF G
    <3>1. f = [u \in 0..Len(w) |-> f[u]]
      BY <2>m
    <3>2. [u \in 0..Len(w) |-> f[u]] = F(f)
      BY <2>3
    <3>. QED  BY <3>1, <3>2
  <2>. QED  BY <2>4
<1>2. Values(w) = F(Values(w))
  <2>1. Values(w) = CHOOSE f : f = F(f)
    BY DEF Values
  <2> HIDE DEF F
  <2>. QED  BY <1>1, <2>1
<1>. QED  BY <1>2

LEMMA ZeroValue ==
  ASSUME NEW w \in Seq(Char)
  PROVE  Number(w) = 0 <=> \A i \in 1..Len(w) : w[i] \notin Nonzero
<1> DEFINE v == Values(w)
           P(u) == v[u] \in Nat /\ (v[u] = 0 <=> \A i \in 1..u : w[i] \notin Nonzero)
           B == {u \in 0..Len(w) : ~P(u)}
<1>0. Len(w) \in Nat
  OBVIOUS
<1>1. \A u \in 0..Len(w) :
         v[u] = IF u = 0 THEN 0
                ELSE IF w[u] \in Digits THEN 10 * v[u - 1] + DigitValue(w[u]) ELSE v[u - 1]
  BY ValuesIs
<1> HIDE DEF v
<1>2. ASSUME B # {} PROVE FALSE
  <2>0. B \subseteq Nat
    OBVIOUS
  <2>1. PICK u \in B : \A j \in B : u <= j
    <3> HIDE DEF B
    <3>. QED  BY <1>2, <2>0, LeastElement
  <2>2. u \in 0..Len(w) /\ u \in Nat /\ ~P(u)
    <3> HIDE DEF P
    <3>. QED  BY <1>0
  <2>3. u # 0
    <3>1. v[0] = 0
      BY <1>0, <1>1
    <3>. QED  BY <2>2, <3>1
  <2>4. u - 1 \in 0..Len(w) /\ u - 1 \in Nat /\ ~(u <= u - 1)
    BY <2>2, <2>3
  <2>5. P(u - 1)
    <3>1. u - 1 \notin B
      <4> HIDE DEF B
      <4>. QED  BY <2>1, <2>4
    <3> HIDE DEF P
    <3>. QED  BY <2>4, <3>1
  <2>6. v[u] = IF w[u] \in Digits THEN 10 * v[u - 1] + DigitValue(w[u]) ELSE v[u - 1]
    BY <1>1, <2>2, <2>3
  <2>7. /\ DigitValue(w[u]) \in Nat
        /\ w[u] \in Digits => (DigitValue(w[u]) = 0 <=> w[u] \notin Nonzero)
        /\ w[u] \notin Digits => w[u] \notin Nonzero
    BY DEF DigitValue, Digits, Nonzero
  <2>8. (\A i \in 1..u : w[i] \notin Nonzero)
          <=> (\A i \in 1..(u - 1) : w[i] \notin Nonzero) /\ w[u] \notin Nonzero
    BY <2>2, <2>3
  <2>9. v[u] \in Nat /\ (v[u] = 0 <=> v[u - 1] = 0 /\ w[u] \notin Nonzero)
    <3>1. v[u - 1] \in Nat
      BY <2>5
    <3>2. CASE w[u] \in Digits
      <4>1. v[u] = 10 * v[u - 1] + DigitValue(w[u])
        BY <2>6, <3>2
      <4>. QED  BY <2>7, <3>1, <3>2, <4>1
    <3>3. CASE w[u] \notin Digits
      BY <2>6, <2>7, <3>1, <3>3
    <3>. QED  BY <3>2, <3>3
  <2>10. P(u)
    <3>1. v[u - 1] = 0 <=> \A i \in 1..(u - 1) : w[i] \notin Nonzero
      BY <2>5
    <3>. QED  BY <2>8, <2>9, <3>1
  <2> HIDE DEF P
  <2>. QED  BY <2>2, <2>10
<1>3. P(Len(w))
  <2> HIDE DEF P
  <2>. QED  BY <1>0, <1>2
<1>. QED  BY <1>3 DEF Number, v

LEMMA MantissaIs ==
  ASSUME NEW w \in Seq(Char)
  PROVE  /\ Mantissa(w) \in Seq(Char) /\ Len(Mantissa(w)) <= Len(w)
         /\ \A i \in 1..Len(Mantissa(w)) : Mantissa(w)[i] = w[i]
<1>1. Mark(w) \in 0..Len(w)
  <2> DEFINE I == {i \in 1..Len(w) : w[i] = "e"}
  <2>1. Mark(w) = IF I # {} THEN Min(I) ELSE 0
    BY DEF Mark, SelectInSeq
  <2>2. CASE I = {}
    BY <2>1, <2>2
  <2>3. CASE I # {}
    <3>1. I \subseteq Nat
      OBVIOUS
    <3>2. \E i \in I : \A j \in I : i <= j
      <4> HIDE DEF I
      <4>. QED  BY <2>3, <3>1, LeastElement
    <3>3. Min(I) \in I
      <4> HIDE DEF I
      <4>. QED  BY <3>2 DEF Min
    <3>4. Mark(w) \in I
      BY <2>1, <2>3, <3>3
    <3>. QED  BY <3>4
  <2>. QED  BY <2>2, <2>3
<1>2. CASE Mark(w) = 0
  BY <1>2 DEF Mantissa
<1>3. CASE Mark(w) # 0
  <2>1. Mantissa(w) = SubSeq(w, 1, Mark(w) - 1) /\ Mark(w) - 1 \in 0..Len(w)
    BY <1>1, <1>3 DEF Mantissa
  <2>. QED  BY <2>1, SubSeqProperties
<1>. QED  BY <1>2, <1>3

(* What buildNumberValue decides from its three tests is the exact class. *)
LEMMA ClassOf ==
  ASSUME NEW w \in Seq(Char)
  PROVE  ValueClass(w) = IF Number(Mantissa(w)) = 0
                         THEN (IF w[1] = "-" THEN "NumberNegZero" ELSE None)
                         ELSE IF Order(w) > MaxOrder THEN "NumberOverflow"
                         ELSE IF Order(w) < MinOrder THEN "NumberUnderflow" ELSE None
<1>1. Number(Mantissa(w)) = 0 <=> TokenRepresentsZero(w)
  BY MantissaIs, ZeroValue DEF TokenRepresentsZero, Nonzero
<1>. QED  BY <1>1 DEF ValueClass, ParseFloat

-----------------------------------------------------------------------------
(* The outcome the grammar calls for, once the end of the token is known. *)
AllViable(k) == \A j \in 0..k : Viable(Prefix(j))

(* every digit but the zero of the integer is one a digit loop has counted *)
Counted(k) == \A i \in 1..k : data[i] \in Digits /\ ~IntegerZero(i) => i <= MaxNumberChars

Answer(cause, at, k) == /\ cause = Expected
                        /\ cause = None => Prefix(k) = Token
                        /\ cause = "InvalidGrammar" => at = Longest + 1

LEMMA ViableEmpty == ASSUME TypeOK PROVE Viable(Prefix(0))
<1> DEFINE t == Append(Prefix(0), "1")
<1>0. 0 \in 0..Len(data)
  BY Basics
<1>1. Len(t) = 1 /\ t[1] = "1"
  BY <1>0, PrefixIs
<1>2. "1" \in Digits
  BY DEF Digits
<1> HIDE DEF t
<1>3. Ref!IsInt(t, 2)
  BY <1>1, <1>2 DEF Ref!IsInt, Ref!AllDigits
<1>4. Ref!IsFraction(t, 2, 2) /\ Ref!IsExponent(t, 2)
  BY <1>1 DEF Ref!IsFraction, Ref!IsExponent
<1>5. Ref!IsNumber(t)
  <2>1. 2 \in 1..(Len(t) + 1) /\ 2 \in 2..(Len(t) + 1)
    BY <1>1
  <2>. QED  BY <1>3, <1>4, <2>1 DEF Ref!IsNumber
<1>. QED  BY <1>5 DEF Viable, t

LEMMA LongestIs ==
  ASSUME TypeOK
  PROVE  Longest \in 0..Len(data) /\ IsLongest(Longest)
<1> DEFINE B == {k \in 1..Len(data) : ~Viable(Prefix(k))}
<1>0. Len(data) \in Nat /\ B \subseteq Nat
  BY Basics
<1>1. \E k \in 0..Len(data) : IsLongest(k)
  <2>1. CASE B = {}
    <3>1. \A j \in 0..Len(data) : Viable(Prefix(j))
      BY <1>0, <2>1, ViableEmpty
    <3>2. IsLongest(Len(data)) /\ Len(data) \in 0..Len(data)
      BY <1>0, <3>1 DEF IsLongest
    <3>. QED  BY <3>2
  <2>2. CASE B # {}
    <3>1. PICK u \in B : \A j \in B : u <= j
      <4> HIDE DEF B
      <4>. QED  BY <1>0, <2>2, LeastElement
    <3>2. u \in 1..Len(data) /\ ~Viable(Prefix(u))
      OBVIOUS
    <3>3. ASSUME NEW j \in 0..(u - 1) PROVE Viable(Prefix(j))
      <4>1. j = 0 \/ (j \in 1..Len(data) /\ ~(u <= j))
        BY <1>0, <3>2
      <4>2. j \notin B \/ j = 0
        <5> HIDE DEF B
        <5>. QED  BY <3>1, <4>1
      <4>. QED  BY <4>1, <4>2, ViableEmpty
    <3>4. u - 1 \in 0..Len(data) /\ (u - 1) + 1 = u
      BY <1>0, <3>2
    <3>5. IsLongest(u - 1)
      BY <3>2, <3>3, <3>4 DEF IsLongest
    <3>. QED  BY <3>4, <3>5
  <2>. QED  BY <2>1, <2>2
<1>2. Longest = CHOOSE k \in 0..Len(data) : IsLongest(k)
  BY DEF Longest
<1>. QED  BY <1>1, <1>2

LEMMA LongestFrom ==
  ASSUME TypeOK, NEW k \in 0..Len(data), AllViable(k)
  PROVE  k <= Longest
<1>1. Longest \in 0..Len(data) /\ Len(data) \in Nat
      /\ (Longest < Len(data) => ~Viable(Prefix(Longest + 1)))
  BY Basics, LongestIs DEF IsLongest
<1>2. ASSUME Longest < k PROVE FALSE
  <2>1. Longest + 1 \in 0..k /\ Longest < Len(data)
    BY <1>1, <1>2
  <2>. QED  BY <1>1, <2>1 DEF AllViable
<1>. QED  BY <1>1, <1>2

LEMMA Decided ==
  ASSUME TypeOK, NEW k \in 0..Len(data), AllViable(k),
         k < Len(data) => ~Viable(Prefix(k + 1))
  PROVE  Longest = k /\ Token = Prefix(k)
<1>1. Longest \in 0..Len(data) /\ Len(data) \in Nat
      /\ \A j \in 0..Longest : Viable(Prefix(j))
  BY Basics, LongestIs DEF IsLongest
<1>2. k <= Longest
  BY LongestFrom
<1>3. ASSUME k < Longest PROVE FALSE
  <2>1. k + 1 \in 0..Longest /\ k < Len(data)
    BY <1>1, <1>3
  <2>. QED  BY <1>1, <2>1
<1>4. Longest = k
  BY <1>1, <1>2, <1>3
<1>. QED  BY <1>4 DEF Token

(* A text with one more character that no number goes on with is not viable. *)
LEMMA NotViable ==
  ASSUME TypeOK, NEW k \in 0..Len(data), k < Len(data),
         \A t : Begins(t, k + 1) => ~Ref!IsNumber(t)
  PROVE  ~Viable(Prefix(k + 1))
<1>1. k + 1 \in 0..Len(data)
  BY Basics
<1>2. Begins(Prefix(k + 1), k + 1) /\ Begins(Append(Prefix(k + 1), "1"), k + 1)
  BY <1>1, PrefixIs
<1>. QED  BY <1>2 DEF Viable

LEMMA NoLimit ==
  ASSUME TypeOK, NEW k \in 0..Len(data), Longest = k, Counted(k)
  PROVE  ~LoopHitsLimit
BY MaxAssumption DEF LoopHitsLimit, Counted

LEMMA AnswerGrammar ==
  ASSUME TypeOK, NEW k \in 0..Len(data), AllViable(k), Counted(k),
         k < Len(data) => \A t : Begins(t, k + 1) => ~Ref!IsNumber(t),
         ~Ref!IsNumber(Prefix(k)), NEW u
  PROVE  Answer("InvalidGrammar", k + 1, u)
<1>1. Longest = k /\ Token = Prefix(k)
  BY Decided, NotViable
<1>2. ~LoopHitsLimit
  BY <1>1, NoLimit
<1>. QED  BY <1>1, <1>2 DEF Answer, Expected, None

LEMMA AnswerLeadingZero ==
  ASSUME TypeOK, Begin < End, data[Begin] = "0", IsDigit(Begin + 1), AllViable(Begin), NEW u
  PROVE  Answer("InvalidGrammar", Begin + 1, u)
<1>0. /\ Begin \in {1, 2} /\ (Begin = 2 => data[1] = "-") /\ Len(data) \in Nat
      /\ End = Len(data) + 1 /\ "-" \notin Digits
  BY Basics
<1>1. Begin \in 0..Len(data) /\ Begin + 1 \in Nat
  BY <1>0
<1>2. Begin < Len(data) /\ data[Begin + 1] \in Digits
  BY <1>0, <1>1, AtData
<1>3. ASSUME NEW t, Begins(t, Begin + 1) PROVE ~Ref!IsNumber(t)
  <2>1. t[Begin + 1] \in Digits
    BY <1>0, <1>2, <1>3 DEF Begins
  <2>. QED  BY <1>3, <2>1, LeadingZeroDead
<1>4. Longest = Begin /\ Token = Prefix(Begin)
  BY <1>1, <1>2, <1>3, NotViable, Decided
<1>5. Counted(Begin)
  BY <1>0 DEF Counted, IntegerZero
<1>6. ~LoopHitsLimit
  BY <1>1, <1>4, <1>5, NoLimit
<1>7. Token[Longest] = "0"
  BY <1>0, <1>1, <1>4, PrefixIs DEF Begins
<1>8. LeadingZero
  BY <1>0, <1>4, <1>7 DEF LeadingZero
<1>. QED  BY <1>4, <1>6, <1>8 DEF Answer, Expected, None

LEMMA AnswerLimit ==
  ASSUME TypeOK, NEW k \in 1..Len(data), AllViable(k), k > MaxNumberChars,
         data[k] \in Digits, ~IntegerZero(k), NEW u
  PROVE  Answer("BoundExceeded", 1, u)
<1>1. k <= Longest /\ Longest \in Nat
  BY LongestFrom, LongestIs, Basics
<1>2. k \in 1..Longest
  BY <1>1, Basics
<1>3. LoopHitsLimit
  BY <1>2 DEF LoopHitsLimit
<1>. QED  BY <1>3 DEF Answer, Expected, None

LEMMA EndedWhole ==
  ASSUME TypeOK, NEW f, NEW x, Ended(f, x)
  PROVE  pos - 1 \in 0..Len(data) /\ pos > 1 /\ Ref!IsNumber(Prefix(pos - 1))
<1>0. f \in Nat /\ x \in Nat /\ IntPart(f) /\ FracPart(f, x)
  BY DEF Ended
<1>1. /\ Len(data) \in Nat /\ End = Len(data) + 1 /\ pos \in Nat /\ pos >= 1 /\ pos <= End
  BY Basics
<1>2. f > 1 /\ x >= f
  BY <1>0, Basics DEF IntPart, FracPart
<1>p. Power(x) \in Nat /\ Power(x) > x
  BY <1>0, PowerType
<1>3. x <= pos
  BY <1>0, <1>1, <1>p DEF Ended
<1>4. pos - 1 \in 0..Len(data) /\ pos > 1
  BY <1>0, <1>1, <1>2, <1>3
<1>5. CASE x = pos
  BY <1>0, <1>4, <1>5, ViableWhole
<1>6. CASE x # pos
  <2>1. x < End /\ data[x] = "e" /\ Power(x) <= pos - 1 /\ Run(Power(x), pos - 1)
    BY <1>1, <1>6, <1>p DEF Ended
  <2>. QED  BY <1>0, <1>4, <2>1, ViablePower
<1>. QED  BY <1>4, <1>5, <1>6

LEMMA AnswerBuild ==
  ASSUME TypeOK, NEW f, NEW x, Ended(f, x), AllViable(pos - 1), Counted(pos - 1)
  PROVE  Answer(IF Scanned > MaxNumberChars THEN "BoundExceeded" ELSE ValueClass(Raw), 1, pos - 1)
<1>0. pos - 1 \in 0..Len(data) /\ pos > 1 /\ Ref!IsNumber(Prefix(pos - 1))
  BY EndedWhole
<1>1. /\ Len(data) \in Nat /\ End = Len(data) + 1 /\ pos \in Nat /\ data \in Seq(Char)
  BY Basics DEF TypeOK
<1>2. Longest = pos - 1 /\ Token = Prefix(pos - 1)
  <2>1. ASSUME pos - 1 < Len(data), NEW t, Begins(t, (pos - 1) + 1) PROVE ~Ref!IsNumber(t)
    <3>1. (pos - 1) + 1 = pos /\ pos < End
      BY <1>1, <2>1
    <3>. QED  BY <2>1, <3>1, EndedDead
  <2>. QED  BY <1>0, <2>1, NotViable, Decided
<1>3. ~LoopHitsLimit
  BY <1>0, <1>2, NoLimit
<1>4. ~LeadingZero
  BY <1>1, <1>2 DEF LeadingZero, Ended
<1>5. Raw = Token /\ Token \in Seq(Char) /\ Token[1] = data[1] /\ Scanned = Longest
  <2>1. Raw = Token
    BY <1>2 DEF Raw, Prefix, Scanned
  <2>2. Token \in Seq(Char)
    BY <1>0, <1>1, <1>2, SubSeqProperties DEF Prefix
  <2>3. Token[1] = data[1]
    BY <1>0, <1>1, <1>2, PrefixIs, SMTT(30) DEF Begins
  <2>. QED  BY <1>2, <2>1, <2>2, <2>3 DEF Scanned
<1>6. ValueClass(Raw) = ExactClass
  BY <1>5, ClassOf DEF ExactClass
<1>7. ValueClass(Raw) # "InvalidGrammar"
  BY DEF ValueClass, None
<1>8. Ref!IsNumber(Token)
  BY <1>0, <1>2
<1>9. Expected = IF Scanned > MaxNumberChars THEN "BoundExceeded" ELSE ValueClass(Raw)
  BY <1>3, <1>4, <1>5, <1>6, <1>8 DEF Expected
<1>10. Expected # "InvalidGrammar"
  BY <1>7, <1>9
<1>. QED  BY <1>2, <1>9, <1>10 DEF Answer

-----------------------------------------------------------------------------
(* Where each stage stands in the token. *)
IntRun == /\ Begin <= pos /\ Run(Begin, pos - 1) /\ data[Begin] # "0"
          /\ pos = Begin => IsDigit(pos)

FracRun(f) == /\ f \in Nat /\ IntPart(f) /\ f < pos /\ data[f] = "."
              /\ Run(f + 1, pos - 1)
              /\ pos = f + 1 => IsDigit(pos)

PowerRun(f, x) == /\ f \in Nat /\ x \in Nat /\ IntPart(f) /\ FracPart(f, x)
                  /\ x < End /\ data[x] = "e" /\ Power(x) <= pos
                  /\ Run(Power(x), pos - 1)
                  /\ pos = Power(x) => IsDigit(pos)

Whole(f) == /\ f \in Nat /\ IntPart(f) /\ FracPart(f, pos) /\ ~IsDigit(pos)
            /\ f = pos => At(pos) # "."

Shape ==
  /\ stage = "sign" => pos = 1
  /\ stage = "int" => pos = Begin
  /\ stage = "frac" => IntPart(pos) /\ ~IsDigit(pos)
  /\ stage = "exp" => \E f : Whole(f)
  /\ stage = "final" => \E f, x : Ended(f, x)
  /\ stage = "digits" /\ next = "frac" => IntRun
  /\ stage = "digits" /\ next = "exp" => \E f : FracRun(f)
  /\ stage = "digits" /\ next = "final" => \E f, x : PowerRun(f, x)

Progress == stage # "done" => AllViable(pos - 1) /\ Counted(pos - 1)

GInv == IInv /\ Shape /\ Progress /\ MatchesGrammar

LEMMA SameText ==
  ASSUME data' = data
  PROVE  /\ Begin' = Begin /\ End' = End
         /\ \A i, j : Run(i, j)' <=> Run(i, j)
         /\ \A f : IntPart(f)' <=> IntPart(f)
         /\ \A f, x : FracPart(f, x)' <=> FracPart(f, x)
         /\ \A x : Power(x)' = Power(x)
         /\ \A k : AllViable(k)' <=> AllViable(k)
         /\ \A k : Counted(k)' <=> Counted(k)
         /\ Longest' = Longest /\ Token' = Token /\ Expected' = Expected
<1>1. Begin' = Begin /\ End' = End /\ \A i : At(i)' = At(i)
  BY DEF Begin, At, End
<1>2. \A i, j : Run(i, j)' <=> Run(i, j)
  BY DEF Run
<1>3. \A f : IntPart(f)' <=> IntPart(f)
  BY <1>1, <1>2 DEF IntPart
<1>4. \A f, x : FracPart(f, x)' <=> FracPart(f, x)
  BY <1>1, <1>2 DEF FracPart
<1>5. \A x : Power(x)' = Power(x)
  BY <1>1 DEF Power, SignLen
<1>6. \A k : Viable(Prefix(k))' <=> Viable(Prefix(k))
  BY DEF Prefix, Viable, Ref!IsNumber
<1>7. \A k : AllViable(k)' <=> AllViable(k)
  BY <1>6 DEF AllViable
<1>8. \A k : Counted(k)' <=> Counted(k)
  BY DEF Counted, IntegerZero
<1>9. Longest' = Longest
  BY DEF Longest, IsLongest, Viable, Prefix
<1>10. Token' = Token
  BY <1>9 DEF Token, Prefix
<1>11. ExactClass' = ExactClass
  BY <1>10 DEF ExactClass
<1>12. LoopHitsLimit' <=> LoopHitsLimit
  BY <1>9 DEF LoopHitsLimit, IntegerZero
<1>13. LeadingZero' <=> LeadingZero
  BY <1>9, <1>10, <1>1 DEF LeadingZero, IsDigit
<1>14. Expected' = Expected
  BY <1>9, <1>10, <1>11, <1>12, <1>13 DEF Expected
<1>. QED  BY <1>1, <1>2, <1>3, <1>4, <1>5, <1>7, <1>8, <1>9, <1>10, <1>14

(* A stage that ends the scan has to give the answer, *)
LEMMA Finishes ==
  ASSUME TypeOK, NEW c, NEW at, Reject(c, at), Answer(c, at, pos' - 1)
  PROVE  Shape' /\ Progress' /\ MatchesGrammar'
<1>1. stage' = "done" /\ data' = data /\ verdict' = [class |-> c, at |-> at]
  BY DEF Reject
<1>2. Shape' /\ Progress'
  BY <1>1 DEF Shape, Progress
<1>3. Longest' = Longest /\ Token' = Token /\ Expected' = Expected
  BY <1>1, SameText
<1>4. Raw' = Prefix(pos' - 1)
  BY <1>1 DEF Raw, Prefix, Scanned
<1>5. verdict'.class = c /\ verdict'.at = at
  BY <1>1
<1>6. c = Expected /\ (c = None => Prefix(pos' - 1) = Token)
      /\ (c = "InvalidGrammar" => at = Longest + 1)
  BY DEF Answer
<1>7. /\ verdict'.class = Expected'
      /\ verdict'.class = None => Raw' = Token'
      /\ verdict'.class = "InvalidGrammar" => verdict'.at = Longest' + 1
  BY <1>3, <1>4, <1>5, <1>6
<1>. QED  BY <1>2, <1>7 DEF MatchesGrammar

(* and one that goes on at most has to keep what was read viable. *)
LEMMA GoesOn ==
  ASSUME TypeOK, stage' # "done", data' = data, NEW k, pos' - 1 = k, AllViable(k), Counted(k)
  PROVE  Progress' /\ MatchesGrammar'
<1>1. AllViable(k)' /\ Counted(k)'
  BY SameText
<1>. QED  BY <1>1 DEF Progress, MatchesGrammar, AllViable, Counted

(* one more character *)
LEMMA OneMore ==
  ASSUME TypeOK, NEW k \in Nat, AllViable(k - 1), Counted(k - 1), k >= 1, Viable(Prefix(k))
  PROVE  /\ AllViable(k)
         /\ (data[k] \in Digits /\ ~IntegerZero(k) => k <= MaxNumberChars) => Counted(k)
BY DEF AllViable, Counted

LEMMA SignStep ==
  ASSUME IInv, Shape, Progress, Sign
  PROVE  Shape' /\ Progress' /\ MatchesGrammar'
<1>1. /\ TypeOK /\ stage = "sign" /\ stage' = "int" /\ data' = data /\ pos' = Begin /\ pos = 1
      /\ AllViable(0) /\ Counted(0)
  BY DEF IInv, Shape, Progress, Sign, GoTo, Begin
<1>2. AllViable(Begin - 1) /\ Counted(Begin - 1)
  <2>1. CASE Begin = 1
    BY <1>1, <2>1
  <2>2. CASE Begin = 2
    <3>1. data[1] = "-" /\ "-" \notin Digits /\ 1 \in 0..Len(data)
      BY <1>1, <2>2, Basics
    <3>2. Viable(Prefix(1))
      BY <1>1, <2>2, <3>1, ViableStart
    <3>. QED  BY <1>1, <2>2, <3>1, <3>2, OneMore
  <2>. QED  BY <1>1, <2>1, <2>2, Basics
<1>3. Begin' = Begin
  BY <1>1, SameText
<1>4. Shape'
  BY <1>1, <1>3 DEF Shape
<1>. QED  BY <1>1, <1>2, <1>4, GoesOn

LEMMA ZeroStep ==
  ASSUME IInv, Shape, Progress, Zero
  PROVE  Shape' /\ Progress' /\ MatchesGrammar'
<1>1. /\ TypeOK /\ stage = "int" /\ pos = Begin /\ At(pos) = "0" /\ pos' = pos + 1
      /\ AllViable(Begin - 1) /\ Counted(Begin - 1)
  BY DEF IInv, Shape, Progress, Zero
<1>2. Begin \in {1, 2} /\ (Begin = 2 => data[1] = "-") /\ End \in Nat
  BY <1>1, Basics
<1>3. Begin < End /\ data[Begin] = "0" /\ "0" \in Digits
  BY <1>1, <1>2, AtData DEF Char, Digits
<1>4. IntPart(Begin + 1)
  BY <1>2, <1>3 DEF IntPart, Run
<1>5. AllViable(Begin) /\ Counted(Begin)
  <2>1. FracPart(Begin + 1, Begin + 1)
    BY DEF FracPart
  <2>2. Viable(Prefix(Begin))
    BY <1>1, <1>2, <1>4, <2>1, ViableWhole
  <2>3. IntegerZero(Begin)
    BY <1>2, <1>3 DEF IntegerZero
  <2>. QED  BY <1>1, <1>2, <2>2, <2>3, OneMore
<1>6. CASE IsDigit(pos + 1)
  <2>1. Reject("InvalidGrammar", Begin + 1)
    BY <1>1, <1>6 DEF Zero
  <2>2. Answer("InvalidGrammar", Begin + 1, pos' - 1)
    BY <1>1, <1>3, <1>5, <1>6, AnswerLeadingZero
  <2>. QED  BY <1>1, <2>1, <2>2, Finishes
<1>7. CASE ~IsDigit(pos + 1)
  <2>1. stage' = "frac" /\ data' = data /\ pos' = Begin + 1 /\ pos' - 1 = Begin
    BY <1>1, <1>2, <1>7 DEF Zero, GoTo
  <2>2. IntPart(pos)' /\ ~IsDigit(pos)'
    BY <1>1, <1>4, <1>7, <2>1 DEF IntPart, Run, Begin, At, End, IsDigit
  <2>3. Shape'
    BY <2>1, <2>2 DEF Shape
  <2>. QED  BY <1>1, <1>5, <2>1, <2>3, GoesOn
<1>. QED  BY <1>6, <1>7

LEMMA NonZeroStep ==
  ASSUME IInv, Shape, Progress, NonZero
  PROVE  Shape' /\ Progress' /\ MatchesGrammar'
<1>1. /\ TypeOK /\ pos = Begin /\ IsDigit(pos) /\ At(pos) # "0" /\ pos' = pos
      /\ stage' = "digits" /\ next' = "frac" /\ data' = data
      /\ AllViable(pos - 1) /\ Counted(pos - 1)
  BY DEF IInv, Shape, Progress, NonZero, EnterDigits
<1>2. Begin \in {1, 2}
  BY <1>1, Basics
<1>3. data[Begin] # "0"
  BY <1>1 DEF IsDigit, At, Digits, None
<1>4. IntRun'
  <2>1. Begin' = Begin /\ IsDigit(pos)'
    BY <1>1 DEF Begin, IsDigit, At, End
  <2>2. Run(Begin, pos - 1)'
    BY <1>1, <1>2, <2>1 DEF Run
  <2>. QED  BY <1>1, <1>2, <1>3, <2>1, <2>2 DEF IntRun
<1>5. Shape'
  BY <1>1, <1>4 DEF Shape
<1>. QED  BY <1>1, <1>5, GoesOn

LEMMA NoIntegerStep ==
  ASSUME IInv, Shape, Progress, NoInteger
  PROVE  Shape' /\ Progress' /\ MatchesGrammar'
<1>1. /\ TypeOK /\ pos = Begin /\ ~IsDigit(pos) /\ pos' = pos
      /\ Reject("InvalidGrammar", pos)
      /\ AllViable(pos - 1) /\ Counted(pos - 1)
  BY DEF IInv, Shape, Progress, NoInteger
<1>2. /\ Begin \in {1, 2} /\ Begin <= End /\ End = Len(data) + 1 /\ Len(data) \in Nat
      /\ (Begin = 1 => At(1) # "-")
  BY <1>1, Basics
<1>3. pos - 1 \in 0..Len(data) /\ (pos - 1) + 1 = pos
  BY <1>1, <1>2
<1>4. ~Ref!IsNumber(Prefix(pos - 1))
  <2> DEFINE t == Prefix(pos - 1)
  <2>1. Begins(t, Begin - 1) /\ Len(t) = Begin - 1
    BY <1>1, <1>3, PrefixIs
  <2> HIDE DEF t
  <2>2. Stops(t, Begin) /\ (Begin = 1 => ~(1 <= Len(t) /\ t[1] = "-"))
    BY <1>2, <2>1 DEF Stops
  <2>3. ~Ref!IsNumber(t)
    BY <1>1, <2>1, <2>2, NoIntegerDead
  <2>. QED  BY <2>3 DEF t
<1>5. ASSUME pos - 1 < Len(data), NEW t, Begins(t, pos) PROVE ~Ref!IsNumber(t)
  <2>1. /\ Len(t) \in Nat /\ Len(t) >= Begin /\ \A i \in 1..Begin : t[i] = data[i]
    BY <1>1, <1>5 DEF Begins
  <2>2. data[Begin] \notin Digits /\ (Begin = 1 => data[1] # "-")
    BY <1>1, <1>2, <1>5 DEF IsDigit, At
  <2>3. Begins(t, Begin - 1) /\ Stops(t, Begin) /\ (Begin = 1 => t[1] # "-")
    BY <1>2, <2>1, <2>2 DEF Begins, Stops
  <2>. QED  BY <1>1, <2>3, NoIntegerDead
<1>6. Answer("InvalidGrammar", pos, pos' - 1)
  BY <1>1, <1>3, <1>4, <1>5, AnswerGrammar
<1>. QED  BY <1>1, <1>6, Finishes

LEMMA NoFractionStep ==
  ASSUME IInv, Shape, Progress, NoFraction
  PROVE  Shape' /\ Progress' /\ MatchesGrammar'
<1>1. /\ TypeOK /\ IntPart(pos) /\ ~IsDigit(pos) /\ At(pos) # "." /\ pos' = pos
      /\ stage' = "exp" /\ data' = data
      /\ AllViable(pos - 1) /\ Counted(pos - 1)
  BY DEF IInv, Shape, Progress, NoFraction, GoTo
<1>2. pos \in Nat
  BY <1>1, Basics
<1>3. Whole(pos)'
  BY <1>1, <1>2 DEF Whole, IntPart, FracPart, Run, Begin, At, End, IsDigit
<1>4. \E f : Whole(f)'
  BY <1>3, <1>1
<1>5. Shape'
  BY <1>1, <1>4 DEF Shape
<1>. QED  BY <1>1, <1>5, GoesOn

LEMMA NoExponentStep ==
  ASSUME IInv, Shape, Progress, NoExponent
  PROVE  Shape' /\ Progress' /\ MatchesGrammar'
<1>1. /\ TypeOK /\ (\E f : Whole(f)) /\ At(pos) # "e" /\ pos' = pos
      /\ stage' = "final" /\ data' = data
      /\ AllViable(pos - 1) /\ Counted(pos - 1)
  BY DEF IInv, Shape, Progress, NoExponent, GoTo
<1>2. pos \in Nat
  BY <1>1, Basics
<1>3. PICK f : Whole(f)
  BY <1>1
<1>4. PICK x : x = pos /\ Ended(f, x)
  BY <1>1, <1>2, <1>3 DEF Ended, Whole
<1>5. Ended(f, x)'
  BY <1>1, <1>4 DEF Ended, IntPart, FracPart, Run, Power, SignLen, Begin, At, End, IsDigit
<1>6. \E g, y : Ended(g, y)'
  BY <1>5
<1>7. Shape'
  BY <1>1, <1>6 DEF Shape
<1>. QED  BY <1>1, <1>7, GoesOn

LEMMA BuildStep ==
  ASSUME IInv, Shape, Progress, Build
  PROVE  Shape' /\ Progress' /\ MatchesGrammar'
<1> DEFINE c == IF Scanned > MaxNumberChars THEN "BoundExceeded" ELSE ValueClass(Raw)
<1>1. /\ TypeOK /\ (\E f, x : Ended(f, x)) /\ Reject(c, 1) /\ pos' = pos
      /\ AllViable(pos - 1) /\ Counted(pos - 1)
  BY DEF IInv, Shape, Progress, Build
<1>2. Answer(c, 1, pos' - 1)
  BY <1>1, AnswerBuild
<1> HIDE DEF c
<1>. QED  BY <1>1, <1>2, Finishes

(* the scan stops where the fraction or the exponent has no digit *)
LEMMA FractionStep ==
  ASSUME IInv, Shape, Progress, Fraction
  PROVE  Shape' /\ Progress' /\ MatchesGrammar'
<1>1. /\ TypeOK /\ IntPart(pos) /\ At(pos) = "." /\ pos' = pos + 1
      /\ AllViable(pos - 1) /\ Counted(pos - 1)
  BY DEF IInv, Shape, Progress, Fraction
<1>2. /\ pos \in Nat /\ pos >= 1 /\ End = Len(data) + 1 /\ Len(data) \in Nat
      /\ "." \notin Digits
  BY <1>1, Basics
<1>3. pos < End /\ data[pos] = "."
  BY <1>1, <1>2, AtData DEF Char
<1>4. pos \in 0..Len(data)
  BY <1>2, <1>3
<1>5. AllViable(pos) /\ Counted(pos)
  <2>1. Viable(Prefix(pos))
    BY <1>1, <1>2, <1>3, ViablePoint
  <2>. QED  BY <1>1, <1>2, <1>3, <2>1, OneMore
<1>6. CASE IsDigit(pos + 1)
  <2>1. stage' = "digits" /\ next' = "exp" /\ data' = data /\ pos' - 1 = pos
    BY <1>1, <1>2, <1>6 DEF Fraction, EnterDigits
  <2>2. PICK f : f = pos /\ f \in Nat
    BY <1>2
  <2>3. FracRun(f)'
    <3>1. IntPart(f)'
      BY <1>1, <2>1, <2>2 DEF IntPart, Run, Begin, At, End
    <3>2. IsDigit(pos)'
      BY <1>1, <1>6, <2>1 DEF IsDigit, At, End
    <3>3. Run(f + 1, pos - 1)'
      BY <1>1, <1>2, <2>2 DEF Run
    <3>4. f < pos' /\ data'[f] = "."
      BY <1>1, <1>2, <1>3, <2>1, <2>2
    <3>. QED  BY <2>2, <3>1, <3>2, <3>3, <3>4 DEF FracRun
  <2>4. \E g : FracRun(g)'
    BY <2>3
  <2>5. Shape'
    BY <2>1, <2>4 DEF Shape
  <2>. QED  BY <1>1, <1>5, <2>1, <2>5, GoesOn
<1>7. CASE ~IsDigit(pos + 1)
  <2>1. Reject("InvalidGrammar", pos + 1)
    BY <1>1, <1>7 DEF Fraction
  <2>2. ASSUME NEW t, Begins(t, pos), Stops(t, pos + 1) PROVE ~Ref!IsNumber(t)
    BY <1>1, <1>2, <1>3, <2>2, FractionDead
  <2>3. ~Ref!IsNumber(Prefix(pos))
    <3>1. Begins(Prefix(pos), pos) /\ Len(Prefix(pos)) = pos
      BY <1>1, <1>4, PrefixIs
    <3>2. Stops(Prefix(pos), pos + 1)
      BY <1>2, <3>1 DEF Stops
    <3>. QED  BY <2>2, <3>1, <3>2
  <2>4. ASSUME pos < Len(data), NEW t, Begins(t, pos + 1) PROVE ~Ref!IsNumber(t)
    <3>1. data[pos + 1] \notin Digits
      BY <1>1, <1>2, <1>7, <2>4, AtData
    <3>2. Begins(t, pos) /\ Stops(t, pos + 1)
      BY <1>2, <2>4, <3>1 DEF Begins, Stops
    <3>. QED  BY <2>2, <3>2
  <2>5. Answer("InvalidGrammar", pos + 1, pos' - 1)
    BY <1>1, <1>4, <1>5, <2>3, <2>4, AnswerGrammar
  <2>. QED  BY <1>1, <2>1, <2>5, Finishes
<1>. QED  BY <1>6, <1>7

LEMMA ExponentStep ==
  ASSUME IInv, Shape, Progress, Exponent
  PROVE  Shape' /\ Progress' /\ MatchesGrammar'
<1>1. /\ TypeOK /\ (\E f : Whole(f)) /\ At(pos) = "e"
      /\ AllViable(pos - 1) /\ Counted(pos - 1)
  BY DEF IInv, Shape, Progress, Exponent
<1>2. /\ pos \in Nat /\ pos >= 1 /\ End = Len(data) + 1 /\ Len(data) \in Nat
      /\ "e" \notin Digits /\ "+" \notin Digits /\ "-" \notin Digits
  BY <1>1, Basics
<1>3. pos < End /\ data[pos] = "e"
  BY <1>1, <1>2, AtData DEF Char
<1>4. PICK f : f \in Nat /\ IntPart(f) /\ FracPart(f, pos)
  BY <1>1 DEF Whole
<1>5. PICK q : q = Power(pos)
  OBVIOUS
<1>6. /\ q \in Nat /\ (q = pos + 1 \/ q = pos + 2) /\ q <= End
      /\ q = pos + 2 => pos + 1 < End /\ data[pos + 1] \in {"+", "-"}
      /\ q = pos + 1 => ~(pos + 1 < End /\ data[pos + 1] \in {"+", "-"})
  BY <1>1, <1>2, <1>3, <1>5, PowerType
<1>7. pos' = q
  BY <1>5 DEF Exponent, Power
<1>8. q - 1 \in 0..Len(data) /\ (q - 1) + 1 = q /\ pos' - 1 = q - 1
  BY <1>2, <1>6, <1>7
<1>9. AllViable(q - 1) /\ Counted(q - 1)
  <2>1. ASSUME NEW k \in Nat, pos <= k, k < q PROVE Viable(Prefix(k))
    BY <1>1, <1>2, <1>3, <1>4, <1>5, <2>1, ViableMark
  <2>2. AllViable(pos) /\ Counted(pos)
    <3>1. Viable(Prefix(pos))
      BY <1>2, <1>6, <2>1
    <3>. QED  BY <1>1, <1>2, <1>3, <3>1, OneMore
  <2>3. CASE q = pos + 1
    BY <1>2, <2>2, <2>3
  <2>4. CASE q = pos + 2
    <3>1. pos + 1 \in Nat /\ pos + 1 >= 1 /\ (pos + 1) - 1 = pos /\ q - 1 = pos + 1
      BY <1>2, <2>4
    <3>2. Viable(Prefix(pos + 1)) /\ data[pos + 1] \notin Digits
      BY <1>2, <1>6, <2>1, <2>4
    <3>3. AllViable(pos + 1) /\ Counted(pos + 1)
      BY <1>1, <2>2, <3>1, <3>2, OneMore
    <3>. QED  BY <3>1, <3>3
  <2>. QED  BY <1>6, <2>3, <2>4
<1>10. CASE IsDigit(q)
  <2>1. stage' = "digits" /\ next' = "final" /\ data' = data
    BY <1>5, <1>10 DEF Exponent, EnterDigits, Power
  <2>2. PICK x : x = pos
    OBVIOUS
  <2>3. PowerRun(f, x)'
    <3>1. IntPart(f)' /\ FracPart(f, x)'
      BY <1>4, <2>1, <2>2 DEF IntPart, FracPart, Run, Begin, At, End
    <3>2. IsDigit(pos)'
      BY <1>7, <1>10, <2>1 DEF IsDigit, At, End
    <3>3. Power(x)' = q
      BY <1>5, <2>1, <2>2 DEF Power, SignLen, At, End
    <3>4. Run(Power(x), pos - 1)'
      BY <1>6, <1>7, <3>3 DEF Run
    <3>5. x \in Nat /\ x < End' /\ data'[x] = "e" /\ Power(x)' <= pos'
      BY <1>2, <1>3, <1>6, <1>7, <2>1, <2>2, <3>3 DEF End
    <3>. QED  BY <1>4, <3>1, <3>2, <3>4, <3>5 DEF PowerRun
  <2>4. \E g, y : PowerRun(g, y)'
    BY <2>3
  <2>5. Shape'
    BY <2>1, <2>4 DEF Shape
  <2>. QED  BY <1>1, <1>8, <1>9, <2>1, <2>5, GoesOn
<1>11. CASE ~IsDigit(q)
  <2>1. Reject("InvalidGrammar", q)
    BY <1>5, <1>11 DEF Exponent, Power
  <2>2. ASSUME NEW t, Begins(t, q - 1), Stops(t, q),
               q = pos + 1 => ~(pos + 1 <= Len(t) /\ t[pos + 1] \in {"+", "-"})
        PROVE  ~Ref!IsNumber(t)
    BY <1>1, <1>2, <1>3, <1>4, <1>5, <2>2, ExponentDead
  <2>3. ~Ref!IsNumber(Prefix(q - 1))
    <3>1. Begins(Prefix(q - 1), q - 1) /\ Len(Prefix(q - 1)) = q - 1
      BY <1>1, <1>8, PrefixIs
    <3>2. Stops(Prefix(q - 1), q) /\ (q = pos + 1 => ~(pos + 1 <= Len(Prefix(q - 1))))
      BY <1>6, <3>1 DEF Stops
    <3>. QED  BY <2>2, <3>1, <3>2
  <2>4. ASSUME q - 1 < Len(data), NEW t, Begins(t, q) PROVE ~Ref!IsNumber(t)
    <3>1. q < End /\ data[q] \notin Digits
      BY <1>1, <1>2, <1>6, <1>11, <2>4, AtData
    <3>2. Begins(t, q - 1) /\ Stops(t, q)
      BY <1>2, <1>6, <2>4, <3>1 DEF Begins, Stops
    <3>3. q = pos + 1 => ~(t[pos + 1] \in {"+", "-"})
      BY <1>2, <1>6, <2>4, <3>1 DEF Begins
    <3>. QED  BY <2>2, <3>2, <3>3
  <2>5. Answer("InvalidGrammar", q, pos' - 1)
    BY <1>1, <1>8, <1>9, <2>3, <2>4, AnswerGrammar
  <2>. QED  BY <1>1, <2>1, <2>5, Finishes
<1>. QED  BY <1>10, <1>11

(* one more digit of a run, whichever run it is *)
LEMMA DigitRead ==
  ASSUME IInv, Shape, stage = "digits", IsDigit(pos)
  PROVE  Viable(Prefix(pos)) /\ ~IntegerZero(pos)
<1>1. TypeOK /\ next \in {"frac", "exp", "final"}
  BY DEF IInv, LoopExit
<1>2. /\ pos \in Nat /\ pos >= 1 /\ End = Len(data) + 1 /\ Len(data) \in Nat
      /\ Begin \in {1, 2} /\ (Begin = 2 => data[1] = "-") /\ (Begin = 1 => At(1) # "-")
  BY <1>1, Basics
<1>3. pos < End /\ data[pos] \in Digits /\ pos \in 0..Len(data)
  BY <1>1, <1>2, AtData
<1>4. CASE next = "frac"
  <2>1. IntRun
    BY <1>4 DEF Shape
  <2>2. IntPart(pos + 1)
    BY <1>2, <1>3, <2>1 DEF IntRun, IntPart, Run
  <2>3. FracPart(pos + 1, pos + 1)
    BY DEF FracPart
  <2>4. Viable(Prefix((pos + 1) - 1))
    BY <1>1, <1>2, <2>2, <2>3, ViableWhole
  <2>5. ~IntegerZero(pos)
    <3>1. Begin = 1 => data[1] # "-" /\ data[1] # "0"
      BY <1>2, <1>3, <2>1 DEF IntRun, At
    <3>2. Begin = 2 => data[1] # "0" /\ data[2] # "0"
      BY <1>2, <2>1 DEF IntRun
    <3>. QED  BY <1>2, <3>1, <3>2, <2>1 DEF IntegerZero, IntRun
  <2>. QED  BY <1>2, <2>4, <2>5
<1>5. CASE next = "exp"
  <2>1. PICK f : FracRun(f)
    BY <1>5 DEF Shape
  <2>2. /\ f \in Nat /\ IntPart(f) /\ f < pos /\ data[f] = "." /\ Run(f + 1, pos - 1)
    BY <2>1 DEF FracRun
  <2>3. f >= 2
    BY <1>2, <2>2 DEF IntPart
  <2>4. FracPart(f, pos + 1)
    BY <1>2, <1>3, <2>2 DEF FracPart, Run
  <2>5. Viable(Prefix((pos + 1) - 1))
    BY <1>1, <1>2, <2>2, <2>4, ViableWhole
  <2>. QED  BY <1>2, <2>2, <2>3, <2>5 DEF IntegerZero
<1>6. CASE next = "final"
  <2>1. PICK f, x : PowerRun(f, x)
    BY <1>6 DEF Shape
  <2>2. /\ f \in Nat /\ x \in Nat /\ IntPart(f) /\ FracPart(f, x)
        /\ x < End /\ data[x] = "e" /\ Power(x) <= pos /\ Run(Power(x), pos - 1)
    BY <2>1 DEF PowerRun
  <2>3. Power(x) \in Nat /\ Power(x) > x
    BY <1>1, <2>2, PowerType
  <2>4. f >= 2 /\ x >= f
    BY <1>2, <2>2 DEF IntPart, FracPart
  <2>5. Run(Power(x), pos)
    BY <1>2, <1>3, <2>2, <2>3 DEF Run
  <2>6. Viable(Prefix(pos))
    BY <1>1, <1>3, <2>2, <2>5, ViablePower
  <2>. QED  BY <1>2, <2>2, <2>3, <2>4, <2>6 DEF IntegerZero
<1>. QED  BY <1>1, <1>4, <1>5, <1>6

LEMMA DigitStep ==
  ASSUME IInv, Shape, Progress, Digit
  PROVE  Shape' /\ Progress' /\ MatchesGrammar'
<1>1. /\ TypeOK /\ stage = "digits" /\ IsDigit(pos) /\ pos' = pos + 1
      /\ AllViable(pos - 1) /\ Counted(pos - 1) /\ next \in {"frac", "exp", "final"}
  BY DEF IInv, Shape, Progress, Digit, LoopExit
<1>2. pos \in Nat /\ pos >= 1 /\ End = Len(data) + 1 /\ Len(data) \in Nat /\ MaxNumberChars \in Nat
  BY <1>1, Basics, MaxAssumption
<1>3. pos < End /\ data[pos] \in Digits /\ pos \in 1..Len(data)
  BY <1>1, <1>2, AtData
<1>4. Viable(Prefix(pos)) /\ ~IntegerZero(pos)
  BY <1>1, DigitRead
<1>5. AllViable(pos) /\ (pos <= MaxNumberChars => Counted(pos))
  BY <1>1, <1>2, <1>4, OneMore
<1>6. CASE WithinLimit
  <2>1. stage' = "digits" /\ next' = next /\ data' = data /\ pos' - 1 = pos
    BY <1>1, <1>2, <1>6 DEF Digit
  <2>2. pos <= MaxNumberChars
    BY <1>2, <1>6 DEF WithinLimit, Scanned
  <2>3. ASSUME next = "frac" PROVE IntRun'
    <3>1. IntRun
      BY <1>1, <2>3 DEF Shape
    <3>2. Begin' = Begin /\ Begin \in {1, 2}
      BY <1>1, <2>1, SameText, Basics
    <3>3. Run(Begin, pos - 1)'
      BY <1>2, <1>3, <2>1, <3>1, <3>2, <1>1 DEF Run, IntRun
    <3>. QED  BY <1>1, <1>2, <2>1, <3>1, <3>2, <3>3 DEF IntRun
  <2>4. ASSUME next = "exp" PROVE \E f : FracRun(f)'
    <3>1. PICK f : FracRun(f)
      BY <1>1, <2>4 DEF Shape
    <3>2. /\ f \in Nat /\ IntPart(f) /\ f < pos /\ data[f] = "." /\ Run(f + 1, pos - 1)
      BY <3>1 DEF FracRun
    <3>3. IntPart(f)'
      BY <2>1, <3>2 DEF IntPart, Run, Begin, At, End
    <3>4. Run(f + 1, pos - 1)'
      BY <1>1, <1>2, <1>3, <2>1, <3>2 DEF Run
    <3>5. FracRun(f)'
      BY <1>1, <1>2, <2>1, <3>2, <3>3, <3>4 DEF FracRun
    <3>. QED  BY <3>5
  <2>5. ASSUME next = "final" PROVE \E f, x : PowerRun(f, x)'
    <3>1. PICK f, x : PowerRun(f, x)
      BY <1>1, <2>5 DEF Shape
    <3>2. /\ f \in Nat /\ x \in Nat /\ IntPart(f) /\ FracPart(f, x)
          /\ x < End /\ data[x] = "e" /\ Power(x) <= pos /\ Run(Power(x), pos - 1)
      BY <3>1 DEF PowerRun
    <3>3. Power(x) \in Nat
      BY <1>1, <3>2, PowerType
    <3>4. IntPart(f)' /\ FracPart(f, x)'
      BY <2>1, <3>2 DEF IntPart, FracPart, Run, Begin, At, End
    <3>5. Power(x)' = Power(x) /\ End' = End
      BY <2>1 DEF Power, SignLen, At, End
    <3>6. Run(Power(x), pos - 1)'
      BY <1>1, <1>2, <1>3, <2>1, <3>2, <3>3, <3>5 DEF Run
    <3>7. PowerRun(f, x)'
      BY <1>1, <1>2, <2>1, <3>2, <3>3, <3>4, <3>5, <3>6 DEF PowerRun
    <3>. QED  BY <3>7
  <2>6. Shape'
    BY <2>1, <2>3, <2>4, <2>5 DEF Shape
  <2>. QED  BY <1>1, <1>5, <2>1, <2>2, <2>6, GoesOn
<1>7. CASE ~WithinLimit
  <2>1. Reject("BoundExceeded", 1)
    BY <1>7 DEF Digit
  <2>2. pos > MaxNumberChars
    BY <1>2, <1>7 DEF WithinLimit, Scanned
  <2>3. Answer("BoundExceeded", 1, pos' - 1)
    BY <1>1, <1>3, <1>4, <1>5, <2>2, AnswerLimit
  <2>. QED  BY <1>1, <2>1, <2>3, Finishes
<1>. QED  BY <1>6, <1>7

LEMMA DigitsEndStep ==
  ASSUME IInv, Shape, Progress, DigitsEnd
  PROVE  Shape' /\ Progress' /\ MatchesGrammar'
<1>1. /\ TypeOK /\ stage = "digits" /\ ~IsDigit(pos) /\ pos' = pos
      /\ stage' = next /\ data' = data /\ next' = next
      /\ AllViable(pos - 1) /\ Counted(pos - 1) /\ next \in {"frac", "exp", "final"}
  BY DEF IInv, Shape, Progress, DigitsEnd, GoTo, LoopExit
<1>2. pos \in Nat /\ pos >= 1 /\ pos <= End /\ End \in Nat /\ Begin \in {1, 2}
  BY <1>1, Basics
<1>s. ~IsDigit(pos)'
  BY <1>1 DEF IsDigit, At, End
<1>3. ASSUME next = "frac" PROVE IntPart(pos)'
  <2>1. IntRun
    BY <1>1, <1>3 DEF Shape
  <2>2. IntPart(pos)
    BY <1>1, <1>2, <2>1 DEF IntRun, IntPart
  <2>. QED  BY <1>1, <2>2 DEF IntPart, Run, Begin, At, End
<1>4. ASSUME next = "exp" PROVE \E f : Whole(f)'
  <2>1. PICK f : FracRun(f)
    BY <1>1, <1>4 DEF Shape
  <2>2. FracPart(f, pos) /\ f # pos /\ f \in Nat /\ IntPart(f)
    BY <1>1, <1>2, <2>1 DEF FracRun, FracPart
  <2>3. IntPart(f)' /\ FracPart(f, pos)'
    BY <1>1, <2>2 DEF IntPart, FracPart, Run, Begin, At, End
  <2>4. Whole(f)'
    BY <1>1, <1>s, <2>2, <2>3 DEF Whole
  <2>. QED  BY <2>4
<1>5. ASSUME next = "final" PROVE \E f, x : Ended(f, x)'
  <2>1. PICK f, x : PowerRun(f, x)
    BY <1>1, <1>5 DEF Shape
  <2>2. /\ f \in Nat /\ x \in Nat /\ IntPart(f) /\ FracPart(f, x)
        /\ x < End /\ data[x] = "e" /\ Run(Power(x), pos - 1)
        /\ Power(x) <= pos /\ Power(x) # pos
    BY <1>1, <2>1 DEF PowerRun
  <2>3. Power(x) \in Nat /\ Power(x) > x
    BY <1>1, <2>2, PowerType
  <2>4. x >= f
    BY <1>2, <2>2 DEF FracPart
  <2>5. Power(x) < pos /\ f # pos /\ x # pos
    BY <1>2, <2>2, <2>3, <2>4
  <2>6. IntPart(f)' /\ FracPart(f, x)'
    BY <1>1, <2>2 DEF IntPart, FracPart, Run, Begin, At, End
  <2>7. Power(x)' = Power(x) /\ End' = End /\ Run(Power(x), pos - 1)'
    BY <1>1, <2>2 DEF Power, SignLen, Run, At, End
  <2>8. Ended(f, x)'
    BY <1>1, <1>s, <2>2, <2>5, <2>6, <2>7 DEF Ended
  <2>. QED  BY <2>8
<1>6. Shape'
  BY <1>1, <1>s, <1>3, <1>4, <1>5 DEF Shape
<1>. QED  BY <1>1, <1>6, GoesOn

LEMMA Begun == Init => Shape /\ Progress /\ MatchesGrammar
<1> SUFFICES ASSUME Init PROVE Shape /\ Progress /\ MatchesGrammar
  OBVIOUS
<1>1. TypeOK
  BY Initial DEF IInv
<1>2. AllViable(0) /\ Counted(0)
  BY <1>1, ViableEmpty DEF AllViable, Counted
<1>. QED  BY <1>2 DEF Init, Shape, Progress, MatchesGrammar

LEMMA Unmoved ==
  ASSUME IInv, Shape, Progress, MatchesGrammar, UNCHANGED vars
  PROVE  Shape' /\ Progress' /\ MatchesGrammar'
<1>1. data' = data /\ pos' = pos /\ stage' = stage /\ next' = next /\ verdict' = verdict
  BY DEF vars
<1>2. Begin' = Begin /\ End' = End /\ (\A i : At(i)' = At(i)) /\ (IsDigit(pos)' <=> IsDigit(pos))
  BY <1>1 DEF Begin, At, End, IsDigit
<1>3. /\ \A i, j : Run(i, j)' <=> Run(i, j)
      /\ \A f : IntPart(f)' <=> IntPart(f)
      /\ \A f, x : FracPart(f, x)' <=> FracPart(f, x)
      /\ \A x : Power(x)' = Power(x)
  BY <1>1, SameText
<1>4. IntPart(pos)' <=> IntPart(pos)
  BY <1>1, <1>2 DEF IntPart, Run
<1>5. (\E f : Whole(f)) => \E f : Whole(f)'
  BY <1>1, <1>2 DEF Whole, IntPart, FracPart, Run
<1>6. (\E f, x : Ended(f, x)) => \E f, x : Ended(f, x)'
  <2>1. ASSUME NEW f, NEW x, Ended(f, x) PROVE Ended(f, x)'
    <3>1. /\ IntPart(f)' /\ FracPart(f, x)' /\ Power(x)' = Power(x)
          /\ Run(Power(x), pos - 1)' <=> Run(Power(x), pos - 1)
      BY <1>1, <1>2, <2>1 DEF Ended, IntPart, FracPart, Run, Power, SignLen
    <3>. QED  BY <1>1, <1>2, <2>1, <3>1 DEF Ended
  <2>. QED  BY <2>1
<1>7. IntRun => IntRun'
  BY <1>1, <1>2 DEF IntRun, Run
<1>8. (\E f : FracRun(f)) => \E f : FracRun(f)'
  BY <1>1, <1>2 DEF FracRun, IntPart, Run
<1>9. (\E f, x : PowerRun(f, x)) => \E f, x : PowerRun(f, x)'
  <2>1. ASSUME NEW f, NEW x, PowerRun(f, x) PROVE PowerRun(f, x)'
    <3>1. IntPart(f)' /\ FracPart(f, x)'
      BY <1>1, <1>2, <2>1 DEF PowerRun, IntPart, FracPart, Run
    <3>2. Power(x)' = Power(x) /\ Run(Power(x), pos - 1)'
      BY <1>1, <1>2, <2>1 DEF PowerRun, Run, Power, SignLen
    <3>3. f \in Nat /\ x \in Nat /\ x < End' /\ data'[x] = "e"
      BY <1>1, <1>2, <2>1 DEF PowerRun
    <3>4. Power(x)' <= pos' /\ (pos' = Power(x)' => IsDigit(pos)')
      BY <1>1, <1>2, <2>1, <3>2 DEF PowerRun
    <3>. QED  BY <3>1, <3>2, <3>3, <3>4 DEF PowerRun
  <2>. QED  BY <2>1
<1>10. Shape'
  BY <1>1, <1>2, <1>4, <1>5, <1>6, <1>7, <1>8, <1>9 DEF Shape
<1>11. Progress' /\ MatchesGrammar'
  <2>1. CASE stage = "done"
    <3>1. Longest' = Longest /\ Token' = Token /\ Expected' = Expected /\ Raw' = Raw
      BY <1>1, SameText DEF Raw, Scanned
    <3>. QED  BY <1>1, <2>1, <3>1 DEF MatchesGrammar, Progress
  <2>2. CASE stage # "done"
    <3>1. TypeOK /\ AllViable(pos - 1) /\ Counted(pos - 1) /\ stage' # "done" /\ pos' - 1 = pos - 1
      BY <1>1, <2>2 DEF IInv, Progress
    <3>. QED  BY <1>1, <3>1, GoesOn
  <2>. QED  BY <2>1, <2>2
<1>. QED  BY <1>10, <1>11

LEMMA GStep == GInv /\ [Next]_vars => GInv'
<1> SUFFICES ASSUME GInv, [Next]_vars PROVE GInv'
  OBVIOUS
<1>1. IInv /\ Shape /\ Progress /\ MatchesGrammar
  BY DEF GInv
<1>2. IInv'
  BY <1>1, Inductive
<1>3. Shape' /\ Progress' /\ MatchesGrammar'
  BY <1>1, SignStep, ZeroStep, NonZeroStep, NoIntegerStep, DigitStep, DigitsEndStep,
     FractionStep, NoFractionStep, ExponentStep, NoExponentStep, BuildStep, Unmoved DEF Next
<1>. QED  BY <1>2, <1>3 DEF GInv

(* parseNumber takes the longest prefix of any text that can still become  *)
(* a number, and returns for it the class its digits, its length and its   *)
(* exact value call for: the limit before the grammar where a digit loop   *)
(* meets it first, a grammar error at the first character no number has    *)
(* there, and otherwise overflow, negative zero or underflow.              *)
THEOREM LongestNumber == Spec => []MatchesGrammar
<1>1. Init => GInv
  BY Initial, Begun DEF GInv
<1>2. GInv => MatchesGrammar
  BY DEF GInv
<1>. QED  BY <1>1, <1>2, GStep, PTL DEF Spec

-----------------------------------------------------------------------------
(* The digits of FloatDigits, from here on.  First, that a set of naturals *)
(* which no number is the first to leave is all of them.                   *)
LEMMA Induction ==
  ASSUME NEW A, 0 \in A, \A k \in Nat : k \in A => k + 1 \in A
  PROVE  Nat \subseteq A
<1>1. SUFFICES ASSUME Nat \ A # {} PROVE FALSE
  OBVIOUS
<1>2. PICK i \in Nat \ A : \A j \in Nat \ A : i <= j
  BY <1>1, LeastElement
<1>3. i # 0
  BY <1>2
<1>4. i - 1 \in Nat /\ ~(i <= i - 1) /\ (i - 1) + 1 = i
  BY <1>2, <1>3
<1>5. i - 1 \in A
  BY <1>2, <1>4
<1>. QED  BY <1>2, <1>4, <1>5

(* A function on the naturals may be defined by recursion. *)
Iterates(f, N, G) == \A i \in N : i # 0 => f[i] = G[<<f[i - 1], i>>]

LEMMA IterationUpTo ==
  ASSUME NEW S, NEW e \in S, NEW G \in [S \X Nat -> S]
  PROVE  \A k \in Nat : \E f \in [0..k -> S] : f[0] = e /\ Iterates(f, 0..k, G)
<1> DEFINE P(k) == \E f \in [0..k -> S] : f[0] = e /\ Iterates(f, 0..k, G)
           A == {k \in Nat : P(k)}
<1>1. 0 \in A
  <2> DEFINE z == [i \in 0..0 |-> e]
  <2>1. z \in [0..0 -> S] /\ z[0] = e
    OBVIOUS
  <2>2. Iterates(z, 0..0, G)
    BY DEF Iterates
  <2> HIDE DEF z
  <2>. QED  BY <2>1, <2>2
<1>2. ASSUME NEW k \in Nat, k \in A PROVE k + 1 \in A
  <2>1. PICK f \in [0..k -> S] : f[0] = e /\ Iterates(f, 0..k, G)
    BY <1>2
  <2> DEFINE g == [i \in 0..(k + 1) |-> IF i = k + 1 THEN G[<<f[k], i>>] ELSE f[i]]
  <2>2. f[k] \in S /\ G[<<f[k], k + 1>>] \in S
    OBVIOUS
  <2>3. \A i \in 0..(k + 1) : i # k + 1 => i \in 0..k /\ f[i] \in S
    OBVIOUS
  <2>4. g \in [0..(k + 1) -> S]
    BY <2>2, <2>3
  <2>5. g[0] = e /\ g[k + 1] = G[<<f[k], k + 1>>] /\ \A i \in 0..k : g[i] = f[i]
    BY <2>1
  <2>6. Iterates(g, 0..(k + 1), G)
    <3> SUFFICES ASSUME NEW i \in 0..(k + 1), i # 0 PROVE g[i] = G[<<g[i - 1], i>>]
      BY DEF Iterates
    <3>1. i - 1 \in 0..k
      OBVIOUS
    <3> HIDE DEF g
    <3>2. CASE i = k + 1
      BY <2>5, <3>1, <3>2
    <3>3. CASE i # k + 1
      <4>1. i \in 0..k
        BY <3>3
      <4>. QED  BY <2>1, <2>5, <3>1, <4>1 DEF Iterates
    <3>. QED  BY <3>2, <3>3
  <2> HIDE DEF g
  <2>. QED  BY <2>4, <2>5, <2>6
<1> HIDE DEF A
<1>3. Nat \subseteq A
  BY <1>1, <1>2, Induction
<1>. QED  BY <1>3 DEF A

LEMMA Iteration ==
  ASSUME NEW S, NEW e \in S, NEW G \in [S \X Nat -> S]
  PROVE  \E f \in [Nat -> S] : f[0] = e /\ Iterates(f, Nat, G)
<1> DEFINE Upto(k) == CHOOSE f \in [0..k -> S] : f[0] = e /\ Iterates(f, 0..k, G)
           g == [k \in Nat |-> Upto(k)[k]]
<1>1. \A k \in Nat : Upto(k) \in [0..k -> S] /\ Upto(k)[0] = e /\ Iterates(Upto(k), 0..k, G)
  BY IterationUpTo
<1> HIDE DEF Upto
<1>2. ASSUME NEW a \in Nat
      PROVE  \A k \in Nat : k <= a => Upto(a)[k] = Upto(a + 1)[k]
  <2> DEFINE A == {k \in Nat : k <= a => Upto(a)[k] = Upto(a + 1)[k]}
  <2>1. 0 \in A
    BY <1>1
  <2>2. ASSUME NEW k \in Nat, k \in A PROVE k + 1 \in A
    <3>1. CASE k + 1 <= a
      <4>1. k + 1 \in 0..a /\ k + 1 \in 0..(a + 1) /\ k + 1 # 0 /\ (k + 1) - 1 = k
        BY <3>1
      <4>2. /\ Upto(a)[k + 1] = G[<<Upto(a)[k], k + 1>>]
             /\ Upto(a + 1)[k + 1] = G[<<Upto(a + 1)[k], k + 1>>]
        BY <1>1, <4>1 DEF Iterates
      <4>. QED  BY <2>2, <3>1, <4>2
    <3>. QED  BY <3>1
  <2> HIDE DEF A
  <2>3. Nat \subseteq A
    BY <2>1, <2>2, Induction
  <2>. QED  BY <2>3 DEF A
<1>3. g \in [Nat -> S]
  BY <1>1
<1>4. g[0] = e
  BY <1>1
<1>5. Iterates(g, Nat, G)
  <2> SUFFICES ASSUME NEW i \in Nat, i # 0 PROVE g[i] = G[<<g[i - 1], i>>]
    BY DEF Iterates
  <2>1. i - 1 \in Nat /\ (i - 1) + 1 = i /\ i \in 0..i /\ i - 1 <= i - 1
    OBVIOUS
  <2>2. Upto(i)[i] = G[<<Upto(i)[i - 1], i>>]
    BY <1>1, <2>1 DEF Iterates
  <2>3. Upto(i - 1)[i - 1] = Upto(i)[i - 1]
    BY <1>2, <2>1
  <2>. QED  BY <2>1, <2>2, <2>3
<1> HIDE DEF g
<1>. QED  BY <1>3, <1>4, <1>5

-----------------------------------------------------------------------------
(* Powers of two and of ten. *)
LEMMA PowersOf ==
  ASSUME NEW b \in Nat
  PROVE  \E f : /\ f = [k \in Nat |-> IF k = 0 THEN 1 ELSE b * f[k - 1]]
<1> DEFINE G == [x \in Nat \X Nat |-> b * x[1]]
<1>1. G \in [Nat \X Nat -> Nat]
  OBVIOUS
<1>2. PICK f \in [Nat -> Nat] : f[0] = 1 /\ Iterates(f, Nat, G)
  <2> HIDE DEF G
  <2>. QED  BY <1>1, Iteration
<1>3. \A k \in Nat : f[k] = IF k = 0 THEN 1 ELSE b * f[k - 1]
  <2> SUFFICES ASSUME NEW k \in Nat, k # 0 PROVE f[k] = b * f[k - 1]
    BY <1>2
  <2>1. <<f[k - 1], k>> \in Nat \X Nat
    OBVIOUS
  <2>2. f[k] = G[<<f[k - 1], k>>]
    BY <1>2 DEF Iterates
  <2>. QED  BY <2>1, <2>2
<1>4. f = [k \in Nat |-> f[k]]
  OBVIOUS
<1>. QED  BY <1>3, <1>4

LEMMA TwoToIs == \A k \in Nat : TwoTo[k] = IF k = 0 THEN 1 ELSE 2 * TwoTo[k - 1]
<1> DEFINE F(f) == [k \in Nat |-> IF k = 0 THEN 1 ELSE 2 * f[k - 1]]
<1>1. \E f : f = F(f)
  BY PowersOf
<1>2. TwoTo = CHOOSE f : f = F(f)
  BY DEF TwoTo
<1>3. TwoTo = F(TwoTo)
  <2> HIDE DEF F
  <2>. QED  BY <1>1, <1>2
<1>. QED  BY <1>3

LEMMA TenToIs == \A k \in Nat : TenTo[k] = IF k = 0 THEN 1 ELSE 10 * TenTo[k - 1]
<1> DEFINE F(f) == [k \in Nat |-> IF k = 0 THEN 1 ELSE 10 * f[k - 1]]
<1>1. \E f : f = F(f)
  BY PowersOf
<1>2. TenTo = CHOOSE f : f = F(f)
  BY DEF TenTo
<1>3. TenTo = F(TenTo)
  <2> HIDE DEF F
  <2>. QED  BY <1>1, <1>2
<1>. QED  BY <1>3

LEMMA TwoPower ==
  /\ TwoTo[0] = 1
  /\ \A k \in Nat : TwoTo[k] \in Nat /\ TwoTo[k] > 0 /\ TwoTo[k + 1] = 2 * TwoTo[k]
<1>1. \A k \in Nat : TwoTo[k + 1] = 2 * TwoTo[k]
  <2> TAKE k \in Nat
  <2>1. k + 1 \in Nat /\ k + 1 # 0 /\ (k + 1) - 1 = k
    OBVIOUS
  <2>. QED  BY <2>1, TwoToIs
<1> DEFINE A == {k \in Nat : TwoTo[k] \in Nat /\ TwoTo[k] > 0}
<1>2. 0 \in A
  BY TwoToIs
<1>3. \A k \in Nat : k \in A => k + 1 \in A
  BY <1>1
<1> HIDE DEF A
<1>4. Nat \subseteq A
  BY <1>2, <1>3, Induction
<1>. QED  BY <1>1, <1>4, TwoToIs DEF A

LEMMA TenPower ==
  /\ TenTo[0] = 1
  /\ \A k \in Nat : TenTo[k] \in Nat /\ TenTo[k] > 0 /\ TenTo[k + 1] = 10 * TenTo[k]
<1>1. \A k \in Nat : TenTo[k + 1] = 10 * TenTo[k]
  <2> TAKE k \in Nat
  <2>1. k + 1 \in Nat /\ k + 1 # 0 /\ (k + 1) - 1 = k
    OBVIOUS
  <2>. QED  BY <2>1, TenToIs
<1> DEFINE A == {k \in Nat : TenTo[k] \in Nat /\ TenTo[k] > 0}
<1>2. 0 \in A
  BY TenToIs
<1>3. \A k \in Nat : k \in A => k + 1 \in A
  BY <1>1
<1> HIDE DEF A
<1>4. Nat \subseteq A
  BY <1>2, <1>3, Induction
<1>. QED  BY <1>1, <1>4, TenToIs DEF A

LEMMA TwoSum == \A a, b \in Nat : TwoTo[a + b] = TwoTo[a] * TwoTo[b]
<1> SUFFICES ASSUME NEW a \in Nat PROVE \A b \in Nat : TwoTo[a + b] = TwoTo[a] * TwoTo[b]
  OBVIOUS
<1> DEFINE A == {b \in Nat : TwoTo[a + b] = TwoTo[a] * TwoTo[b]}
<1>1. 0 \in A
  BY TwoPower
<1>2. ASSUME NEW k \in Nat, k \in A PROVE k + 1 \in A
  <2>1. TwoTo[a + (k + 1)] = 2 * TwoTo[a + k] /\ TwoTo[k + 1] = 2 * TwoTo[k]
    <3>1. a + k \in Nat /\ a + (k + 1) = (a + k) + 1
      OBVIOUS
    <3>. QED  BY <3>1, TwoPower
  <2>2. TwoTo[a + k] = TwoTo[a] * TwoTo[k] /\ TwoTo[a] \in Nat /\ TwoTo[k] \in Nat
    BY <1>2, TwoPower
  <2>3. 2 * (TwoTo[a] * TwoTo[k]) = TwoTo[a] * (2 * TwoTo[k])
    BY <2>2
  <2>. QED  BY <2>1, <2>2, <2>3
<1> HIDE DEF A
<1>3. Nat \subseteq A
  BY <1>1, <1>2, Induction
<1>. QED  BY <1>3 DEF A

LEMMA TenSum == \A a, b \in Nat : TenTo[a + b] = TenTo[a] * TenTo[b]
<1> SUFFICES ASSUME NEW a \in Nat PROVE \A b \in Nat : TenTo[a + b] = TenTo[a] * TenTo[b]
  OBVIOUS
<1> DEFINE A == {b \in Nat : TenTo[a + b] = TenTo[a] * TenTo[b]}
<1>1. 0 \in A
  BY TenPower
<1>2. ASSUME NEW k \in Nat, k \in A PROVE k + 1 \in A
  <2>1. TenTo[a + (k + 1)] = 10 * TenTo[a + k] /\ TenTo[k + 1] = 10 * TenTo[k]
    <3>1. a + k \in Nat /\ a + (k + 1) = (a + k) + 1
      OBVIOUS
    <3>. QED  BY <3>1, TenPower
  <2>2. TenTo[a + k] = TenTo[a] * TenTo[k] /\ TenTo[a] \in Nat /\ TenTo[k] \in Nat
    BY <1>2, TenPower
  <2>3. 10 * (TenTo[a] * TenTo[k]) = TenTo[a] * (10 * TenTo[k])
    BY <2>2
  <2>. QED  BY <2>1, <2>2, <2>3
<1> HIDE DEF A
<1>3. Nat \subseteq A
  BY <1>1, <1>2, Induction
<1>. QED  BY <1>3 DEF A

LEMMA TenGrows == \A a, b \in Nat : a <= b => TenTo[a] <= TenTo[b]
<1> SUFFICES ASSUME NEW a \in Nat, NEW b \in Nat, a <= b PROVE TenTo[a] <= TenTo[b]
  OBVIOUS
<1>1. b - a \in Nat /\ b = a + (b - a)
  OBVIOUS
<1>2. TenTo[b] = TenTo[a] * TenTo[b - a]
  BY <1>1, TenSum
<1>3. TenTo[a] \in Nat /\ TenTo[b - a] \in Nat /\ TenTo[b - a] >= 1
  BY <1>1, TenPower
<1>4. \A x, y \in Nat : y >= 1 => x <= x * y
  OBVIOUS
<1>. QED  BY <1>2, <1>3, <1>4

-----------------------------------------------------------------------------
(* The number that digits write. *)
WrittenUpTo(ds) ==
  LET v[i \in 0..Len(ds)] == IF i = 0 THEN 0 ELSE 10 * v[i - 1] + ds[i] IN v

LEMMA WrittenIs == \A ds : Written(ds) = WrittenUpTo(ds)[Len(ds)]
BY DEF Written, WrittenUpTo

LEMMA WrittenUpToIs ==
  ASSUME NEW ds \in Seq(Nat)
  PROVE  /\ WrittenUpTo(ds)[0] = 0
         /\ \A i \in 0..Len(ds) : WrittenUpTo(ds)[i] \in Nat
         /\ \A i \in 1..Len(ds) : WrittenUpTo(ds)[i] = 10 * WrittenUpTo(ds)[i - 1] + ds[i]
<1>0. Len(ds) \in Nat /\ \A i \in 1..Len(ds) : ds[i] \in Nat
  OBVIOUS
<1> DEFINE F(f) == [i \in 0..Len(ds) |-> IF i = 0 THEN 0 ELSE 10 * f[i - 1] + ds[i]]
           G == [x \in Nat \X Nat |-> IF x[2] \in 1..Len(ds) THEN 10 * x[1] + ds[x[2]] ELSE 0]
<1>1. G \in [Nat \X Nat -> Nat]
  BY <1>0
<1>2. PICK g \in [Nat -> Nat] : g[0] = 0 /\ Iterates(g, Nat, G)
  <2> HIDE DEF G
  <2>. QED  BY <1>1, Iteration
<1>3. \A i \in 1..Len(ds) : g[i] = 10 * g[i - 1] + ds[i]
  <2> SUFFICES ASSUME NEW i \in 1..Len(ds) PROVE g[i] = 10 * g[i - 1] + ds[i]
    OBVIOUS
  <2>0. i \in Nat /\ i # 0 /\ i - 1 \in Nat
    BY <1>0
  <2>1. <<g[i - 1], i>> \in Nat \X Nat
    BY <2>0
  <2>2. g[i] = G[<<g[i - 1], i>>]
    BY <1>2, <2>0 DEF Iterates
  <2>. QED  BY <2>1, <2>2
<1> DEFINE h == [i \in 0..Len(ds) |-> g[i]]
<1>4. h = F(h)
  <2>1. \A i \in 0..Len(ds) : i # 0 => i - 1 \in 0..Len(ds) /\ i \in 1..Len(ds)
    BY <1>0
  <2>2. \A i \in 0..Len(ds) : h[i] = IF i = 0 THEN 0 ELSE 10 * h[i - 1] + ds[i]
    BY <1>2, <1>3, <2>1
  <2>3. h = [i \in 0..Len(ds) |-> h[i]]
    OBVIOUS
  <2> HIDE DEF h
  <2>. QED  BY <2>2, <2>3
<1>5. WrittenUpTo(ds) = F(WrittenUpTo(ds))
  <2>1. WrittenUpTo(ds) = CHOOSE f : f = F(f)
    BY DEF WrittenUpTo
  <2>2. \E f : f = F(f)
    <3> HIDE DEF F, h
    <3>. QED  BY <1>4
  <2> HIDE DEF F
  <2>. QED  BY <2>1, <2>2
<1>6. /\ WrittenUpTo(ds)[0] = 0
      /\ \A i \in 1..Len(ds) : WrittenUpTo(ds)[i] = 10 * WrittenUpTo(ds)[i - 1] + ds[i]
  <2>1. 0 \in 0..Len(ds) /\ \A i \in 1..Len(ds) : i \in 0..Len(ds) /\ i # 0
    BY <1>0
  <2>. QED  BY <1>5, <2>1
<1> DEFINE A == {i \in Nat : i <= Len(ds) => WrittenUpTo(ds)[i] \in Nat}
<1>7. Nat \subseteq A
  <2>1. 0 \in A
    BY <1>6
  <2>2. ASSUME NEW k \in Nat, k \in A PROVE k + 1 \in A
    <3>1. CASE k + 1 <= Len(ds)
      <4>1. k + 1 \in 1..Len(ds) /\ (k + 1) - 1 = k
        BY <1>0, <3>1
      <4>2. WrittenUpTo(ds)[k] \in Nat /\ ds[k + 1] \in Nat
        BY <1>0, <2>2, <3>1, <4>1
      <4>3. WrittenUpTo(ds)[k + 1] = 10 * WrittenUpTo(ds)[k] + ds[k + 1]
        BY <1>6, <4>1
      <4>4. WrittenUpTo(ds)[k + 1] \in Nat
        <5>1. \A x, y \in Nat : 10 * x + y \in Nat
          OBVIOUS
        <5>. QED  BY <4>2, <4>3, <5>1, Zenon
      <4>. QED  BY <4>4
    <3>. QED  BY <3>1
  <2> HIDE DEF A
  <2>. QED  BY <2>1, <2>2, Induction
<1>. QED  BY <1>0, <1>6, <1>7

LEMMA WrittenOfNone == Written(<< >>) = 0
<1>1. << >> \in Seq(Nat) /\ Len(<< >>) = 0
  OBVIOUS
<1>. QED  BY <1>1, WrittenUpToIs, WrittenIs

LEMMA WrittenGrows ==
  ASSUME NEW ds \in Seq(Nat), NEW d \in Nat
  PROVE  Written(ds) \in Nat /\ Written(Append(ds, d)) = 10 * Written(ds) + d
<1> DEFINE es == Append(ds, d)
<1>1. es \in Seq(Nat) /\ Len(es) = Len(ds) + 1 /\ Len(ds) \in Nat /\ es[Len(ds) + 1] = d
      /\ \A i \in 1..Len(ds) : es[i] = ds[i]
  OBVIOUS
<1> HIDE DEF es
<1> DEFINE A == {i \in Nat : i <= Len(ds) => WrittenUpTo(es)[i] = WrittenUpTo(ds)[i]}
<1>2. Nat \subseteq A
  <2>1. 0 \in A
    BY <1>1, WrittenUpToIs
  <2>2. ASSUME NEW k \in Nat, k \in A PROVE k + 1 \in A
    <3>1. CASE k + 1 <= Len(ds)
      <4>1. k + 1 \in 1..Len(ds) /\ k + 1 \in 1..Len(es) /\ (k + 1) - 1 = k /\ k <= Len(ds)
        BY <1>1, <3>1
      <4>2. WrittenUpTo(ds)[k + 1] = 10 * WrittenUpTo(ds)[k] + ds[k + 1]
        BY <4>1, WrittenUpToIs
      <4>3. WrittenUpTo(es)[k + 1] = 10 * WrittenUpTo(es)[k] + es[k + 1]
        BY <1>1, <4>1, WrittenUpToIs
      <4>. QED  BY <1>1, <2>2, <4>1, <4>2, <4>3
    <3>. QED  BY <3>1
  <2> HIDE DEF A
  <2>. QED  BY <2>1, <2>2, Induction
<1>3. WrittenUpTo(es)[Len(ds)] = WrittenUpTo(ds)[Len(ds)]
  BY <1>1, <1>2
<1>4. WrittenUpTo(es)[Len(es)] = 10 * WrittenUpTo(es)[Len(ds)] + d
  <2>1. Len(es) \in 1..Len(es) /\ Len(es) - 1 = Len(ds)
    BY <1>1
  <2>. QED  BY <1>1, <2>1, WrittenUpToIs
<1>5. WrittenUpTo(ds)[Len(ds)] \in Nat
  BY <1>1, WrittenUpToIs
<1>. QED  BY <1>3, <1>4, <1>5, WrittenIs DEF es

(* The first digit counts. *)
LEMMA WrittenAtLeast ==
  ASSUME NEW ds \in Seq(Nat), Len(ds) >= 1, ds[1] # 0
  PROVE  Written(ds) >= TenTo[Len(ds) - 1]
<1>0. Len(ds) \in Nat /\ \A i \in 1..Len(ds) : ds[i] \in Nat
  OBVIOUS
<1> DEFINE A == {i \in Nat : i + 1 <= Len(ds) => WrittenUpTo(ds)[i + 1] >= TenTo[i]}
<1>1. 0 \in A
  <2>1. WrittenUpTo(ds)[1] = 10 * WrittenUpTo(ds)[0] + ds[1] /\ WrittenUpTo(ds)[0] = 0
    <3>1. 1 \in 1..Len(ds) /\ 1 - 1 = 0
      BY <1>0
    <3>. QED  BY <3>1, WrittenUpToIs
  <2>2. ds[1] \in Nat
    BY <1>0
  <2>3. WrittenUpTo(ds)[1] >= TenTo[0]
    <3>1. ds[1] >= 1 /\ WrittenUpTo(ds)[1] = ds[1]
      BY <2>1, <2>2
    <3>. QED  BY <3>1, TenPower
  <2>. QED  BY <2>3
<1>2. ASSUME NEW k \in Nat, k \in A PROVE k + 1 \in A
  <2>1. CASE (k + 1) + 1 <= Len(ds)
    <3>1. (k + 1) + 1 \in 1..Len(ds) /\ ((k + 1) + 1) - 1 = k + 1 /\ k + 1 \in 0..Len(ds)
      BY <1>0, <2>1
    <3>2. WrittenUpTo(ds)[(k + 1) + 1] = 10 * WrittenUpTo(ds)[k + 1] + ds[(k + 1) + 1]
      BY <3>1, WrittenUpToIs
    <3>3. WrittenUpTo(ds)[k + 1] \in Nat /\ ds[(k + 1) + 1] \in Nat
      BY <1>0, <3>1, WrittenUpToIs
    <3>4. WrittenUpTo(ds)[k + 1] >= TenTo[k]
      BY <1>0, <1>2, <2>1
    <3>5. TenTo[k + 1] = 10 * TenTo[k] /\ TenTo[k] \in Nat
      BY TenPower
    <3> DEFINE w == WrittenUpTo(ds)[k + 1]
               v == WrittenUpTo(ds)[(k + 1) + 1]
               c == ds[(k + 1) + 1]
    <3>6. v = 10 * w + c /\ w \in Nat /\ c \in Nat /\ w >= TenTo[k]
      BY <3>2, <3>3, <3>4
    <3> HIDE DEF w, v, c
    <3>7. v >= TenTo[k + 1]
      BY <3>5, <3>6
    <3>. QED  BY <3>7 DEF v
  <2>. QED  BY <2>1
<1> HIDE DEF A
<1>3. Nat \subseteq A
  BY <1>1, <1>2, Induction
<1>4. Len(ds) - 1 \in Nat /\ (Len(ds) - 1) + 1 = Len(ds)
  BY <1>0
<1>5. WrittenUpTo(ds)[Len(ds)] >= TenTo[Len(ds) - 1]
  BY <1>3, <1>4 DEF A
<1>. QED  BY <1>5, WrittenIs

(* Digits carry nothing, and keep a last one that is not a zero. *)
LEMMA CarriesNone ==
  ASSUME NEW ds \in Seq(0..9)
  PROVE  \A i \in 0..Len(ds) : Carries(ds)[i] = 0
<1>0. Len(ds) \in Nat /\ \A i \in 1..Len(ds) : ds[i] \in 0..9 /\ Len(ds) - i + 1 \in 1..Len(ds)
  OBVIOUS
<1> DEFINE F(f) == [i \in 0..Len(ds) |->
                      IF i = 0 THEN 0 ELSE IF ds[Len(ds) - i + 1] + f[i - 1] > 9 THEN 1 ELSE 0]
           h == [i \in 0..Len(ds) |-> 0]
<1>1. h = F(h)
  <2>1. \A i \in 0..Len(ds) : i # 0 => /\ i - 1 \in 0..Len(ds) /\ i \in 1..Len(ds)
                                      /\ ds[Len(ds) - i + 1] \in 0..9
    BY <1>0
  <2>2. ASSUME NEW i \in 0..Len(ds)
        PROVE  h[i] = IF i = 0 THEN 0 ELSE IF ds[Len(ds) - i + 1] + h[i - 1] > 9 THEN 1 ELSE 0
    <3>1. h[i] = 0
      OBVIOUS
    <3>2. CASE i # 0
      <4>1. h[i - 1] = 0 /\ ds[Len(ds) - i + 1] \in 0..9
        BY <2>1, <3>2
      <4> HIDE DEF h
      <4>2. ~(ds[Len(ds) - i + 1] + h[i - 1] > 9)
        BY <4>1
      <4>. QED  BY <3>1, <3>2, <4>2
    <3> HIDE DEF h
    <3>. QED  BY <3>1, <3>2
  <2>3. h = [i \in 0..Len(ds) |-> h[i]]
    OBVIOUS
  <2> HIDE DEF h
  <2>. QED  BY <2>2, <2>3
<1> DEFINE c == Carries(ds)
<1>2. c = F(c)
  <2>1. c = CHOOSE f : f = F(f)
    BY DEF Carries
  <2>2. \E f : f = F(f)
    <3> HIDE DEF F, h
    <3>. QED  BY <1>1
  <2> HIDE DEF F, c
  <2>. QED  BY <2>1, <2>2
<1>3. c[0] = 0 /\ \A i \in 1..Len(ds) : c[i] = IF ds[Len(ds) - i + 1] + c[i - 1] > 9 THEN 1 ELSE 0
  <2>1. 0 \in 0..Len(ds) /\ \A i \in 1..Len(ds) : i \in 0..Len(ds) /\ i # 0
    BY <1>0
  <2> HIDE DEF c
  <2>. QED  BY <1>2, <2>1
<1> HIDE DEF c, F, h
<1> DEFINE A == {i \in Nat : i <= Len(ds) => c[i] = 0}
<1>4. Nat \subseteq A
  <2>1. 0 \in A
    BY <1>3
  <2>2. ASSUME NEW k \in Nat, k \in A PROVE k + 1 \in A
    <3>1. CASE k + 1 <= Len(ds)
      <4>1. k + 1 \in 1..Len(ds) /\ (k + 1) - 1 = k
        BY <1>0, <3>1
      <4>2. c[k] = 0 /\ ds[Len(ds) - (k + 1) + 1] \in 0..9
        BY <1>0, <2>2, <3>1, <4>1
      <4>. QED  BY <1>3, <4>1, <4>2
    <3>. QED  BY <3>1
  <2> HIDE DEF A
  <2>. QED  BY <2>1, <2>2, Induction
<1>. QED  BY <1>0, <1>4 DEF c

LEMMA CarriedIs ==
  ASSUME NEW ds \in Seq(0..9)
  PROVE  Carried(ds) = ds /\ Carries(ds)[Len(ds)] = 0
<1>1. Len(ds) \in Nat /\ \A i \in 1..Len(ds) : /\ ds[i] \in 0..9
                                              /\ Len(ds) - i + 1 \in 0..Len(ds)
                                              /\ Len(ds) - i \in 0..Len(ds)
  OBVIOUS
<1>2. Carries(ds)[Len(ds)] = 0
  BY <1>1, CarriesNone
<1> DEFINE es == [i \in 1..Len(ds) |-> IF Carries(ds)[Len(ds) - i + 1] = 1 THEN 0
                                       ELSE ds[i] + Carries(ds)[Len(ds) - i]]
<1>3. ASSUME NEW i \in 1..Len(ds) PROVE es[i] = ds[i]
  <2>1. Carries(ds)[Len(ds) - i + 1] = 0 /\ Carries(ds)[Len(ds) - i] = 0
    BY <1>1, CarriesNone
  <2>2. es[i] = IF Carries(ds)[Len(ds) - i + 1] = 1 THEN 0 ELSE ds[i] + Carries(ds)[Len(ds) - i]
    OBVIOUS
  <2>3. ds[i] \in 0..9
    BY <1>1
  <2> HIDE DEF es
  <2>. QED  BY <2>1, <2>2, <2>3
<1>4. es \in Seq(Int) /\ es = ds
  <2>1. ds = [i \in 1..Len(ds) |-> ds[i]]
    OBVIOUS
  <2>2. es = [i \in 1..Len(ds) |-> es[i]]
    OBVIOUS
  <2> HIDE DEF es
  <2>3. es = ds
    BY <1>3, <2>1, <2>2
  <2>. QED  BY <2>3
<1>5. Carried(ds) = << >> \o es
  BY <1>2 DEF Carried
<1> HIDE DEF es
<1>6. << >> \o es = es
  BY <1>4
<1>. QED  BY <1>2, <1>4, <1>5, <1>6

LEMMA StrippedIs ==
  ASSUME NEW ds \in Seq(0..9), Len(ds) >= 1, ds[Len(ds)] # 0
  PROVE  Stripped(ds) = ds
<1>0. Len(ds) \in Nat
  OBVIOUS
<1> DEFINE Q(k) == /\ k = 1 \/ ds[k] # 0
                   /\ \A i \in (k + 1)..Len(ds) : ds[i] = 0
<1>1. Len(ds) \in 1..Len(ds) /\ Q(Len(ds))
  BY <1>0
<1>2. \A k \in 1..Len(ds) : Q(k) => k = Len(ds)
  <2> SUFFICES ASSUME NEW k \in 1..Len(ds), Q(k), k # Len(ds) PROVE FALSE
    OBVIOUS
  <2>1. Len(ds) \in (k + 1)..Len(ds)
    BY <1>0
  <2>. QED  BY <2>1
<1>3. (CHOOSE k \in 1..Len(ds) : Q(k)) = Len(ds)
  <2> HIDE DEF Q
  <2>. QED  BY <1>1, <1>2
<1>4. Stripped(ds) = SubSeq(ds, 1, Len(ds))
  BY <1>3 DEF Stripped
<1>5. SubSeq(ds, 1, Len(ds)) = ds
  <2>1. \A i \in 1..Len(ds) : SubSeq(ds, 1, Len(ds))[i] = ds[i]
    BY <1>0
  <2>2. Len(SubSeq(ds, 1, Len(ds))) = Len(ds) /\ SubSeq(ds, 1, Len(ds)) \in Seq(0..9)
    BY <1>0
  <2>. QED  BY <2>1, <2>2, SeqEqual
<1>. QED  BY <1>4, <1>5

-----------------------------------------------------------------------------
(* Floats that have digits, and the gaps beside them.                      *)
Finite(f) == f \in Float /\ ~IsNaN(f) /\ ~IsInf(f) /\ ~IsZero(f)

Ulp(f) == TwoTo[FExp(f) - MinExp]

LEMMA HiddenIs == Hidden \in Nat /\ Hidden > 0 /\ TwoTo[Precision] = 2 * Hidden
<1>1. Precision - 1 \in Nat /\ (Precision - 1) + 1 = Precision
  BY FormatAssumption
<1>. QED  BY <1>1, TwoPower DEF Hidden

LEMMA FloatIs ==
  ASSUME NEW f \in Float
  PROVE  /\ f.negative \in BOOLEAN /\ f.biased \in 0..MaxBiased /\ f.mantissa \in 0..(Hidden - 1)
         /\ f.biased \in Nat /\ f.mantissa \in Nat /\ f.mantissa < Hidden
<1>1. /\ f.negative \in BOOLEAN /\ f.biased \in 0..MaxBiased /\ f.mantissa \in 0..(Hidden - 1)
  BY DEF Float
<1>. QED  BY <1>1, HiddenIs, FormatAssumption

LEMMA Significand ==
  ASSUME NEW f, Finite(f)
  PROVE  /\ FMant(f) \in Nat /\ FMant(f) >= 1 /\ FMant(f) + 1 <= TwoTo[Precision]
         /\ FExp(f) \in Int /\ FExp(f) - MinExp \in Nat
         /\ LowerBoundary(f) => FMant(f) = Hidden /\ f.biased > 1
<1>1. /\ f.biased \in Nat /\ f.mantissa \in Nat /\ f.mantissa < Hidden
      /\ f.biased = 0 => f.mantissa # 0
  BY FloatIs DEF Finite, IsZero
<1>. QED  BY <1>1, HiddenIs, FormatAssumption DEF FMant, FExp, LowerBoundary

LEMMA UlpIs ==
  ASSUME NEW f, Finite(f)
  PROVE  Ulp(f) \in Nat /\ Ulp(f) > 0 /\ Value(f) = FMant(f) * Ulp(f)
BY Significand, TwoPower DEF Ulp, Value

LEMMA AboveIs ==
  ASSUME NEW f, Finite(f)
  PROVE  Value(f) + Value(Above(f)) = (2 * FMant(f) + 1) * Ulp(f)
<1>1. /\ f.biased \in Nat /\ f.mantissa \in Nat /\ f.mantissa < Hidden /\ f \in Float
  BY FloatIs DEF Finite
<1>2. /\ FMant(f) \in Nat /\ Ulp(f) \in Nat /\ Value(f) = FMant(f) * Ulp(f)
      /\ FExp(f) - MinExp \in Nat
  BY Significand, UlpIs
<1> DEFINE g == Above(f)
<1>3. CASE f.mantissa < Hidden - 1
  <2>1. g.mantissa = f.mantissa + 1 /\ g.biased = f.biased
    BY <1>1, <1>3 DEF Above, Float
  <2>2. FMant(g) = FMant(f) + 1 /\ FExp(g) = FExp(f)
    BY <1>1, <2>1, HiddenIs DEF FMant, FExp
  <2>3. Value(g) = (FMant(f) + 1) * Ulp(f)
    BY <2>2 DEF Value, Ulp
  <2> HIDE DEF g
  <2>4. FMant(f) * Ulp(f) + (FMant(f) + 1) * Ulp(f) = (2 * FMant(f) + 1) * Ulp(f)
    BY <1>2
  <2>. QED  BY <1>2, <2>3, <2>4 DEF g
<1>4. CASE f.mantissa = Hidden - 1
  <2>1. g.mantissa = 0 /\ g.biased = f.biased + 1
    BY <1>1, <1>4, HiddenIs DEF Above, Float
  <2>2. FMant(g) = Hidden /\ FExp(g) = MinExp + f.biased
    BY <1>1, <2>1, HiddenIs, FormatAssumption DEF FMant, FExp
  <2>3. Value(g) = (FMant(f) + 1) * Ulp(f)
    <3>1. CASE f.biased = 0
      <4>1. FMant(f) + 1 = Hidden /\ FExp(g) = FExp(f)
        BY <1>1, <1>4, <2>2, <3>1, HiddenIs, FormatAssumption DEF FMant, FExp
      <4>. QED  BY <2>2, <4>1 DEF Value, Ulp
    <3>2. CASE f.biased # 0
      <4>1. FMant(f) + 1 = 2 * Hidden /\ FExp(g) - MinExp = (FExp(f) - MinExp) + 1
        BY <1>1, <1>4, <2>2, <3>2, HiddenIs, FormatAssumption DEF FMant, FExp
      <4>2. TwoTo[FExp(g) - MinExp] = 2 * Ulp(f)
        BY <1>2, <4>1, TwoPower DEF Ulp
      <4>3. Hidden * (2 * Ulp(f)) = (2 * Hidden) * Ulp(f)
        BY <1>2, HiddenIs
      <4>. QED  BY <2>2, <4>1, <4>2, <4>3 DEF Value
    <3>. QED  BY <3>1, <3>2
  <2> HIDE DEF g
  <2>4. FMant(f) * Ulp(f) + (FMant(f) + 1) * Ulp(f) = (2 * FMant(f) + 1) * Ulp(f)
    BY <1>2
  <2>. QED  BY <1>2, <2>3, <2>4 DEF g
<1>5. f.mantissa < Hidden - 1 \/ f.mantissa = Hidden - 1
  BY <1>1, HiddenIs
<1>. QED  BY <1>3, <1>4, <1>5

LEMMA BelowIs ==
  ASSUME NEW f, Finite(f)
  PROVE  /\ ~LowerBoundary(f) => Value(Below(f)) + Value(f) = (2 * FMant(f) - 1) * Ulp(f)
         /\ LowerBoundary(f) => 2 * (Value(Below(f)) + Value(f)) = (4 * FMant(f) - 1) * Ulp(f)
<1>1. /\ f.biased \in Nat /\ f.mantissa \in Nat /\ f.mantissa < Hidden /\ f \in Float
      /\ f.biased = 0 => f.mantissa # 0
  BY FloatIs DEF Finite, IsZero
<1>2. /\ FMant(f) \in Nat /\ FMant(f) >= 1 /\ Ulp(f) \in Nat /\ Value(f) = FMant(f) * Ulp(f)
      /\ FExp(f) - MinExp \in Nat
  BY Significand, UlpIs
<1> DEFINE g == Below(f)
<1>3. \A x, y \in Nat : (x - 1) * y + x * y = (2 * x - 1) * y
  OBVIOUS
<1>4. CASE f.mantissa > 0
  <2>1. g.mantissa = f.mantissa - 1 /\ g.biased = f.biased
    BY <1>1, <1>4 DEF Below, Float
  <2>2. FMant(g) = FMant(f) - 1 /\ FExp(g) = FExp(f)
    BY <1>1, <2>1, HiddenIs DEF FMant, FExp
  <2>3. Value(g) = (FMant(f) - 1) * Ulp(f)
    BY <2>2 DEF Value, Ulp
  <2>4. ~LowerBoundary(f)
    BY <1>4 DEF LowerBoundary
  <2> HIDE DEF g
  <2>. QED  BY <1>2, <1>3, <2>3, <2>4 DEF g
<1>5. CASE f.mantissa = 0
  <2>1. g.mantissa = Hidden - 1 /\ g.biased = f.biased - 1 /\ f.biased >= 1
    BY <1>1, <1>5, HiddenIs DEF Below, Float
  <2>2. FMant(f) = Hidden
    BY <1>1, <1>5, <2>1, HiddenIs DEF FMant
  <2>3. CASE f.biased = 1
    <3>1. FMant(g) = Hidden - 1 /\ FExp(g) = FExp(f) /\ ~LowerBoundary(f)
      BY <1>1, <2>1, <2>3, FormatAssumption DEF FMant, FExp, LowerBoundary
    <3>2. Value(g) = (FMant(f) - 1) * Ulp(f)
      BY <2>2, <3>1 DEF Value, Ulp
    <3> HIDE DEF g
    <3>. QED  BY <1>2, <1>3, <3>1, <3>2 DEF g
  <2>4. CASE f.biased > 1
    <3>1. /\ FMant(g) = 2 * Hidden - 1 /\ FExp(g) - MinExp \in Nat
          /\ FExp(f) - MinExp = (FExp(g) - MinExp) + 1 /\ LowerBoundary(f)
      BY <1>1, <1>5, <2>1, <2>4, HiddenIs, FormatAssumption DEF FMant, FExp, LowerBoundary
    <3> DEFINE u == TwoTo[FExp(g) - MinExp]
    <3>2. u \in Nat /\ Ulp(f) = 2 * u
      BY <3>1, TwoPower DEF Ulp
    <3>3. Value(g) = (2 * Hidden - 1) * u
      BY <3>1 DEF Value
    <3> HIDE DEF g, u
    <3>4. 2 * ((2 * Hidden - 1) * u + Hidden * (2 * u)) = (4 * Hidden - 1) * (2 * u)
      BY <3>2, HiddenIs
    <3>. QED  BY <1>2, <2>2, <3>1, <3>2, <3>3, <3>4 DEF g
  <2>. QED  BY <1>1, <2>1, <2>3, <2>4
<1>. QED  BY <1>1, <1>4, <1>5

-----------------------------------------------------------------------------
(* Decimal places. *)
LEMMA PlaceIs ==
  \A e \in Int : /\ Times(e) \in Nat /\ Times(e) > 0
                 /\ Tenths(e) \in Nat /\ Tenths(e) > 0
BY TenPower DEF Times, Tenths

LEMMA NextPlace ==
  \A e \in Int : \/ Times(e + 1) = 10 * Times(e) /\ Tenths(e + 1) = Tenths(e)
                 \/ Times(e + 1) = Times(e) /\ Tenths(e) = 10 * Tenths(e + 1)
<1> TAKE e \in Int
<1>1. CASE e >= 0
  <2>1. e \in Nat /\ e + 1 > 0 /\ ~(e < 0) /\ ~(e + 1 < 0)
    BY <1>1
  <2>2. TenTo[e + 1] = 10 * TenTo[e] /\ TenTo[0] = 1
    BY <2>1, TenPower
  <2>. QED  BY <2>1, <2>2 DEF Times, Tenths
<1>2. CASE e < 0
  <2>1. -(e + 1) \in Nat /\ -e = -(e + 1) + 1 /\ ~(e > 0) /\ ~(e + 1 > 0)
    BY <1>2
  <2>2. TenTo[-e] = 10 * TenTo[-(e + 1)] /\ TenTo[0] = 1
    BY <2>1, TenPower
  <2>3. e + 1 < 0 \/ (e + 1 = 0 /\ -(e + 1) = 0)
    BY <1>2
  <2>. QED  BY <1>2, <2>1, <2>2, <2>3 DEF Times, Tenths
<1>. QED  BY <1>1, <1>2

Base == TwoTo[-MinExp]

LEMMA BaseIs == Base \in Nat /\ Base > 0
<1>1. -MinExp \in Nat
  BY FormatAssumption
<1>. QED  BY <1>1, TwoPower DEF Base

(* The float is a/b * 10^q; up and down are half the gaps beside it.       *)
Stands(f, a, b, up, down, q) ==
  /\ ScaledTo(Value(f), q) * b = a * (Times(q) * Base)
  /\ ScaledTo(Value(Below(f)) + Value(f), q) * b = 2 * (a - down) * (Times(q) * Base)
  /\ ScaledTo(Value(f) + Value(Above(f)), q) * b = 2 * (a + up) * (Times(q) * Base)

Sums(f) == {Value(f), Value(Below(f)) + Value(f), Value(f) + Value(Above(f))}

LEMMA SumsAre == ASSUME NEW f, Finite(f) PROVE Sums(f) \subseteq Int
<1>1. Value(f) \in Int /\ Value(f) + Value(Above(f)) \in Int
  BY UlpIs, AboveIs, Significand
<1>2. Value(Below(f)) \in Int
  <2>1. f.biased \in Nat /\ f.mantissa \in Nat /\ f \in Float /\ (f.biased = 0 => f.mantissa # 0)
    BY FloatIs DEF Finite, IsZero
  <2>2. Below(f).biased \in Nat /\ Below(f).mantissa \in Nat
    BY <2>1, HiddenIs DEF Below, Float
  <2>3. FMant(Below(f)) \in Nat /\ FExp(Below(f)) - MinExp \in Nat
    BY <2>2, HiddenIs, FormatAssumption DEF FMant, FExp
  <2>. QED  BY <2>3, TwoPower DEF Value
<1>. QED  BY <1>1, <1>2 DEF Sums

(* One place further up, and a tenth of the fraction.                      *)
LEMMA StandsUp ==
  ASSUME NEW f, Finite(f), NEW q \in Int, NEW a \in Nat, NEW b \in Nat, NEW up \in Nat,
         NEW down \in Nat, Stands(f, a, b, up, down, q)
  PROVE  Stands(f, a, b * 10, up, down, q + 1)
<1>1. /\ Times(q) \in Nat /\ Tenths(q) \in Nat /\ Times(q + 1) \in Nat /\ Tenths(q + 1) \in Nat
      /\ Base \in Nat
  BY PlaceIs, BaseIs
<1>2. ASSUME NEW v \in Int, NEW x \in Int, ScaledTo(v, q) * b = x * (Times(q) * Base)
      PROVE  ScaledTo(v, q + 1) * (b * 10) = x * (Times(q + 1) * Base)
  <2>1. CASE Times(q + 1) = 10 * Times(q) /\ Tenths(q + 1) = Tenths(q)
    <3>1. ScaledTo(v, q + 1) * (b * 10) = 10 * (ScaledTo(v, q) * b)
      BY <1>1, <2>1 DEF ScaledTo
    <3>2. x * (Times(q + 1) * Base) = 10 * (x * (Times(q) * Base))
      BY <1>1, <2>1
    <3>. QED  BY <1>2, <3>1, <3>2
  <2>2. CASE Times(q + 1) = Times(q) /\ Tenths(q) = 10 * Tenths(q + 1)
    <3>1. ScaledTo(v, q + 1) * (b * 10) = ScaledTo(v, q) * b
      BY <1>1, <2>2 DEF ScaledTo
    <3>. QED  BY <1>2, <2>2, <3>1
  <2>. QED  BY <2>1, <2>2, NextPlace
<1>3. Value(f) \in Int /\ Value(Below(f)) + Value(f) \in Int /\ Value(f) + Value(Above(f)) \in Int
  BY SumsAre DEF Sums
<1>4. a \in Int /\ 2 * (a - down) \in Int /\ 2 * (a + up) \in Int
  OBVIOUS
<1>. QED  BY <1>2, <1>3, <1>4 DEF Stands

(* One place further down, and ten times the fraction.                     *)
LEMMA StandsDown ==
  ASSUME NEW f, Finite(f), NEW q \in Int, NEW a \in Nat, NEW b \in Nat, NEW up \in Nat,
         NEW down \in Nat, Stands(f, a, b, up, down, q)
  PROVE  Stands(f, a * 10, b, up * 10, down * 10, q - 1)
<1>0. q - 1 \in Int /\ (q - 1) + 1 = q
  OBVIOUS
<1>1. /\ Times(q) \in Nat /\ Tenths(q) \in Nat /\ Times(q - 1) \in Nat /\ Tenths(q - 1) \in Nat
      /\ Base \in Nat
  BY <1>0, PlaceIs, BaseIs
<1>2. ASSUME NEW v \in Int, NEW x \in Int, ScaledTo(v, q) * b = x * (Times(q) * Base)
      PROVE  ScaledTo(v, q - 1) * b = (10 * x) * (Times(q - 1) * Base)
  <2>1. CASE Times(q) = 10 * Times(q - 1) /\ Tenths(q) = Tenths(q - 1)
    <3>1. ScaledTo(v, q - 1) * b = ScaledTo(v, q) * b
      BY <1>1, <2>1 DEF ScaledTo
    <3>2. (10 * x) * (Times(q - 1) * Base) = x * (Times(q) * Base)
      BY <1>1, <2>1
    <3>. QED  BY <1>2, <3>1, <3>2
  <2>2. CASE Times(q) = Times(q - 1) /\ Tenths(q - 1) = 10 * Tenths(q)
    <3>1. ScaledTo(v, q - 1) * b = 10 * (ScaledTo(v, q) * b)
      BY <1>1, <2>2 DEF ScaledTo
    <3>2. (10 * x) * (Times(q - 1) * Base) = 10 * (x * (Times(q) * Base))
      BY <1>1, <2>2
    <3>. QED  BY <1>2, <3>1, <3>2
  <2>. QED  BY <1>0, <2>1, <2>2, NextPlace
<1>3. Value(f) \in Int /\ Value(Below(f)) + Value(f) \in Int /\ Value(f) + Value(Above(f)) \in Int
  BY SumsAre DEF Sums
<1>4. /\ a \in Int /\ 2 * (a - down) \in Int /\ 2 * (a + up) \in Int
      /\ 10 * a = a * 10 /\ 10 * (2 * (a - down)) = 2 * (a * 10 - down * 10)
      /\ 10 * (2 * (a + up)) = 2 * (a * 10 + up * 10)
  OBVIOUS
<1>. QED  BY <1>2, <1>3, <1>4 DEF Stands

(* What is read as the float, told from the fraction.                      *)
LEMMA ReadsIs ==
  ASSUME NEW f, Finite(f), NEW q \in Int, NEW a \in Nat, NEW b \in Nat, b > 0, NEW up \in Nat,
         NEW down \in Nat, Stands(f, a, b, up, down, q), NEW d \in Nat
  PROVE  Reads(d, q, f) <=> \/ a - down < d * b /\ d * b < a + up
                            \/ IsEven(f) /\ d * b \in {a - down, a + up}
<1> DEFINE c  == Times(q) * Base
           x  == 2 * Scaled(d, q)
           lo == ScaledTo(Value(Below(f)) + Value(f), q)
           hi == ScaledTo(Value(f) + Value(Above(f)), q)
<1>1. /\ Times(q) \in Nat /\ Times(q) > 0 /\ Base \in Nat /\ Base > 0 /\ Tenths(q) \in Nat
  BY PlaceIs, BaseIs
<1>2. c \in Nat /\ c > 0
  BY <1>1
<1>3. x = 2 * (d * c) /\ x \in Int
  BY <1>1 DEF Scaled, Base
<1>4. lo \in Int /\ hi \in Int
  <2>1. Value(Below(f)) + Value(f) \in Int /\ Value(f) + Value(Above(f)) \in Int
    BY SumsAre DEF Sums
  <2>. QED  BY <1>1, <2>1 DEF ScaledTo
<1>5. lo * b = 2 * (a - down) * c /\ hi * b = 2 * (a + up) * c
  BY DEF Stands
<1>6. Reads(d, q, f) <=> (lo < x /\ x < hi) \/ (IsEven(f) /\ x \in {lo, hi})
  BY DEF Reads
<1> HIDE DEF c, x, lo, hi
<1>7. x * b = 2 * (d * b) * c
  BY <1>2, <1>3
<1>8. \A y, z \in Int : /\ y < z <=> y * b < z * b
                        /\ y = z <=> y * b = z * b
  OBVIOUS
<1>9. \A y, z \in Int : /\ y < z <=> 2 * y * c < 2 * z * c
                        /\ y = z <=> 2 * y * c = 2 * z * c
  BY <1>2
<1>10. lo < x <=> a - down < d * b
  <2>1. lo < x <=> lo * b < x * b
    BY <1>3, <1>4, <1>8
  <2>2. a - down \in Int /\ d * b \in Int
    OBVIOUS
  <2>3. a - down < d * b <=> 2 * (a - down) * c < 2 * (d * b) * c
    BY <1>9, <2>2, Zenon
  <2>. QED  BY <1>5, <1>7, <2>1, <2>3
<1>11. x < hi <=> d * b < a + up
  <2>1. x < hi <=> x * b < hi * b
    BY <1>3, <1>4, <1>8
  <2>2. a + up \in Int /\ d * b \in Int
    OBVIOUS
  <2>3. d * b < a + up <=> 2 * (d * b) * c < 2 * (a + up) * c
    BY <1>9, <2>2, Zenon
  <2>. QED  BY <1>5, <1>7, <2>1, <2>3
<1>12. x = lo <=> d * b = a - down
  <2>1. x = lo <=> x * b = lo * b
    BY <1>3, <1>4, <1>8
  <2>2. a - down \in Int /\ d * b \in Int
    OBVIOUS
  <2>3. d * b = a - down <=> 2 * (d * b) * c = 2 * (a - down) * c
    BY <1>9, <2>2, Zenon
  <2>. QED  BY <1>5, <1>7, <2>1, <2>3
<1>13. x = hi <=> d * b = a + up
  <2>1. x = hi <=> x * b = hi * b
    BY <1>3, <1>4, <1>8
  <2>2. a + up \in Int /\ d * b \in Int
    OBVIOUS
  <2>3. d * b = a + up <=> 2 * (d * b) * c = 2 * (a + up) * c
    BY <1>9, <2>2, Zenon
  <2>. QED  BY <1>5, <1>7, <2>1, <2>3
<1>. QED  BY <1>6, <1>10, <1>11, <1>12, <1>13

(* How far a decimal is from the float. *)
Distance(x) == IF x < 0 THEN -x ELSE x

LEMMA FarIs ==
  ASSUME NEW f, Finite(f), NEW q \in Int, NEW a \in Nat, NEW b \in Nat, b > 0, NEW up \in Nat,
         NEW down \in Nat, Stands(f, a, b, up, down, q), NEW d \in Nat, NEW g \in Nat
  PROVE  /\ Far(d, q, f) > Far(g, q, f) <=> Distance(d * b - a) > Distance(g * b - a)
         /\ Far(d, q, f) = Far(g, q, f) <=> Distance(d * b - a) = Distance(g * b - a)
<1> DEFINE c == Times(q) * Base
           v == ScaledTo(Value(f), q)
<1>1. /\ Times(q) \in Nat /\ Times(q) > 0 /\ Base \in Nat /\ Base > 0 /\ Tenths(q) \in Nat
  BY PlaceIs, BaseIs
<1>2. c \in Nat /\ c > 0
  BY <1>1
<1>3. v \in Int
  <2>1. Value(f) \in Int
    BY SumsAre DEF Sums
  <2>. QED  BY <1>1, <2>1 DEF ScaledTo
<1>4. v * b = a * c
  BY DEF Stands
<1>5. \A h \in Nat : Scaled(h, q) = h * c
  BY <1>1 DEF Scaled, Base
<1>6. \A h \in Nat : Far(h, q, f) = Distance(h * c - v)
  BY <1>5 DEF Far, Distance
<1> HIDE DEF c, v
<1>7. ASSUME NEW h \in Nat
      PROVE  Distance(h * c - v) \in Int /\ Distance(h * c - v) * b = Distance(h * b - a) * c
             /\ Distance(h * b - a) \in Int
  <2> DEFINE y == h * c - v
             z == h * b - a
  <2>1. y \in Int /\ z \in Int
    BY <1>2, <1>3
  <2>2. y * b = z * c
    <3>1. (h * c - v) * b = h * c * b - v * b
      BY <1>2, <1>3
    <3>2. (h * b - a) * c = h * c * b - a * c
      BY <1>2
    <3>. QED  BY <1>4, <3>1, <3>2
  <2> HIDE DEF y, z
  <2>3. y < 0 <=> z < 0
    <3>1. y < 0 <=> y * b < 0
      BY <2>1
    <3>2. z < 0 <=> z * c < 0
      BY <1>2, <2>1
    <3>. QED  BY <2>2, <3>1, <3>2
  <2>4. (-y) * b = -(y * b) /\ (-z) * c = -(z * c)
    BY <1>2, <2>1
  <2>5. Distance(y) \in Int /\ Distance(z) \in Int /\ Distance(y) * b = Distance(z) * c
    BY <2>1, <2>2, <2>3, <2>4 DEF Distance
  <2>. QED  BY <2>5 DEF y, z
<1>8. \A y, z \in Int : /\ y < z <=> y * b < z * b
                        /\ y = z <=> y * b = z * b
  OBVIOUS
<1>9. \A y, z \in Int : /\ y < z <=> y * c < z * c
                        /\ y = z <=> y * c = z * c
  BY <1>2
<1> DEFINE dd == Distance(d * c - v)
           gg == Distance(g * c - v)
           de == Distance(d * b - a)
           ge == Distance(g * b - a)
<1>10. /\ dd \in Int /\ gg \in Int /\ de \in Int /\ ge \in Int
       /\ dd * b = de * c /\ gg * b = ge * c
  BY <1>7
<1>11. Far(d, q, f) = dd /\ Far(g, q, f) = gg
  BY <1>6
<1> HIDE DEF dd, gg, de, ge
<1>12. gg < dd <=> ge < de
  BY <1>8, <1>9, <1>10
<1>13. dd = gg <=> de = ge
  BY <1>8, <1>9, <1>10
<1>14. (dd > gg <=> gg < dd) /\ (de > ge <=> ge < de)
  BY <1>10
<1>. QED  BY <1>11, <1>12, <1>13, <1>14 DEF de, ge

-----------------------------------------------------------------------------
(* The inductive invariant.  With the digits written so far the float is   *)
(* (Written(digits) + r/s) * 10^(n - Len(digits)).                         *)
Total == Written(digits) * s + r
Place == IF pc = "scale" THEN 0 ELSE n - Len(digits)

AtWork == pc \in {"scale", "high", "low", "digits"}

Exact ==
  AtWork =>
    /\ Finite(float) /\ class = None
    /\ s > 0 /\ mMinus > 0
    /\ mPlus = mMinus \/ (mPlus = 2 * mMinus /\ FMant(float) = Hidden)
    /\ Stands(float, Total, s, mPlus, mMinus, Place)

Scaling ==
  pc \in {"scale", "high", "low"} => digits = << >> /\ r = 2 * FMant(float) * mPlus

(* The estimate is at most one too low; the fixups leave a fraction below  *)
(* one whose first digit is not a zero.                                    *)
Estimated == pc = "high" => r * (Slack - 1) < s * Slack
NotOver   == pc \in {"low", "digits"} => ~CmpHigh(r + mPlus, s)

InDigits ==
  pc = "digits" =>
    /\ ~CmpRoundDown(r, mMinus)
    /\ s * TenTo[Len(digits)] <= 10 * (2 * FMant(float) + 1) * mPlus
    /\ digits = << >> => CmpHigh((r + mPlus) * 10, s)
    /\ digits # << >> => digits[1] # 0

(* What the digits are at last. *)
Best(d, e, f) ==
  /\ Reads(d, e, f)
  /\ \A c \in Nat : Reads(c, e, f) /\ c # d =>
       Far(c, e, f) > Far(d, e, f) \/ (Far(c, e, f) = Far(d, e, f) /\ d % 2 = 0)

Right(ds, e, f) ==
  /\ Finite(f)
  /\ ds # << >> /\ ds[1] # 0 /\ ds[Len(ds)] # 0
  /\ Best(Written(ds), e, f)
  /\ \A c \in Nat : ~Reads(c, e + 1, f)
  /\ Len(ds) >= 2 => Scaled(TenTo[Len(ds) - 2], e + 1) <= ScaledTo(Value(f), e + 1)

Unfailed == pc \in {"normalize", "layout"} => class = None
Found == pc \in {"normalize", "layout"} \/ Formatted => Right(digits, LastPlace, float)

FormatInv == /\ FormatTypeOK /\ Exact /\ Scaling /\ Estimated /\ NotOver /\ InDigits
             /\ Unfailed /\ Found

LEMMA FormatTypes ==
  ASSUME FormatTypeOK
  PROVE  /\ r \in Nat /\ s \in Nat /\ mPlus \in Nat /\ mMinus \in Nat /\ n \in Int
         /\ digits \in Seq(0..9) /\ digits \in Seq(Nat) /\ Len(digits) \in Nat
         /\ Written(digits) \in Nat /\ Total \in Nat
<1>1. r \in Nat /\ s \in Nat /\ mPlus \in Nat /\ mMinus \in Nat /\ n \in Int /\ digits \in Seq(0..9)
  BY DEF FormatTypeOK
<1>2. digits \in Seq(Nat) /\ Len(digits) \in Nat
  BY <1>1
<1>3. Written(digits) \in Nat
  BY <1>2, WrittenGrows
<1>. QED  BY <1>1, <1>2, <1>3 DEF Total

LEMMA NoneIs == None \in {None, "InvalidGrammar"} /\ None # "InvalidGrammar"
BY DEF None

LEMMA RefuseKeeps == ASSUME FormatInv, NEW f \in Floats, Refuse(f) PROVE FormatInv'
<1>1. float' \in Float /\ pc = "done" /\ pc' = "done" /\ class' = "InvalidGrammar"
  BY FloatsAssumption DEF Refuse, Idle
<1>2. FormatTypeOK'
  BY <1>1 DEF FormatInv, FormatTypeOK, Refuse, state
<1>. QED  BY <1>1, <1>2, NoneIs
          DEF FormatInv, Exact, AtWork, Scaling, Estimated, NotOver, InDigits, Unfailed, Found, Formatted

LEMMA FormatZeroKeeps == ASSUME FormatInv, NEW f \in Floats, FormatZero(f) PROVE FormatInv'
<1>1. float' \in Float /\ pc = "done" /\ pc' = "done" /\ class' = None /\ IsZero(float')
  BY FloatsAssumption DEF FormatZero, Idle
<1>2. FormatTypeOK'
  BY <1>1 DEF FormatInv, FormatTypeOK, FormatZero, state
<1>. QED  BY <1>1, <1>2
          DEF FormatInv, Exact, AtWork, Scaling, Estimated, NotOver, InDigits, Unfailed, Found, Formatted

LEMMA InitScaledStateStands ==
  ASSUME NEW f, Finite(f), InitScaledState(f)
  PROVE  /\ r' \in Nat /\ s' \in Nat /\ s' > 0 /\ mPlus' \in Nat /\ mMinus' \in Nat /\ mMinus' > 0
         /\ mPlus' = mMinus' \/ (mPlus' = 2 * mMinus' /\ FMant(f) = Hidden)
         /\ r' = 2 * FMant(f) * mPlus'
         /\ Stands(f, r', s', mPlus', mMinus', 0)
<1> DEFINE up   == IF FExp(f) >= 0 THEN FExp(f) ELSE 0
           down == IF FExp(f) >= 0 THEN 0 ELSE -FExp(f)
           u == TwoTo[up]
           w == TwoTo[down]
           F == FMant(f)
           U == Ulp(f)
<1>1. /\ F \in Nat /\ F >= 1 /\ U \in Nat /\ FExp(f) \in Int /\ FExp(f) - MinExp \in Nat
      /\ Base \in Nat
  BY Significand, UlpIs, BaseIs
<1>2. /\ up \in Nat /\ down \in Nat /\ -MinExp \in Nat
      /\ (FExp(f) - MinExp) + down = up + (-MinExp)
  BY <1>1, FormatAssumption
<1>3. /\ r' = F * TwoTo[Doubled(f) + up] /\ s' = TwoTo[Doubled(f) + down]
      /\ mPlus' = TwoTo[Doubled(f) - 1 + up]
      /\ mMinus' = IF FExp(f) >= 0 THEN TwoTo[FExp(f)] ELSE 1
  BY DEF InitScaledState, InitialMinus
<1>4. mMinus' = u
  BY <1>1, <1>3, TwoPower
<1> HIDE DEF up, down
<1>5. u \in Nat /\ u > 0 /\ w \in Nat /\ w > 0
  BY <1>2, TwoPower
<1>6. U * w = u * Base
  <2>1. TwoTo[(FExp(f) - MinExp) + down] = U * w
    BY <1>1, <1>2, TwoSum DEF Ulp
  <2>2. TwoTo[up + (-MinExp)] = u * Base
    BY <1>2, TwoSum DEF Base
  <2>. QED  BY <1>2, <2>1, <2>2
<1>7. TwoTo[1 + up] = 2 * u /\ TwoTo[2 + up] = 4 * u /\ TwoTo[1 + down] = 2 * w /\ TwoTo[2 + down] = 4 * w
  <2>1. \A k \in Nat : TwoTo[1 + k] = 2 * TwoTo[k] /\ TwoTo[2 + k] = 4 * TwoTo[k]
    <3> TAKE k \in Nat
    <3>1. 1 + k = k + 1 /\ 2 + k = (k + 1) + 1 /\ k + 1 \in Nat
      OBVIOUS
    <3>. QED  BY <3>1, TwoPower
  <2>. QED  BY <1>2, <2>1
<1>8. Times(0) * Base = Base /\ \A v : ScaledTo(v, 0) = v * 1
  BY <1>1 DEF Times, Tenths, ScaledTo
<1>9. /\ Value(f) = F * U /\ Value(f) + Value(Above(f)) = (2 * F + 1) * U
      /\ ~LowerBoundary(f) => Value(Below(f)) + Value(f) = (2 * F - 1) * U
      /\ LowerBoundary(f) => 2 * (Value(Below(f)) + Value(f)) = (4 * F - 1) * U
  BY UlpIs, AboveIs, BelowIs
<1> DEFINE lo == Value(Below(f)) + Value(f)
<1>10. lo \in Int
  BY SumsAre DEF Sums
<1> HIDE DEF u, w, F, U, lo
<1>11. CASE ~LowerBoundary(f)
  <2>1. r' = F * (2 * u) /\ s' = 2 * w /\ mPlus' = u /\ mMinus' = u
    <3>1. Doubled(f) = 1 /\ 1 - 1 + up = up
      BY <1>2, <1>11 DEF Doubled
    <3>. QED  BY <1>3, <1>4, <1>7, <3>1 DEF u
  <2>2. r' \in Nat /\ s' \in Nat /\ s' > 0 /\ mPlus' \in Nat /\ mMinus' > 0 /\ r' = 2 * F * mPlus'
    BY <1>1, <1>5, <2>1
  <2>3. (F * U) * 1 * s' = r' * Base
    <3>1. (F * U) * 1 * s' = 2 * F * (U * w)
      BY <1>1, <1>5, <2>1
    <3>2. r' * Base = 2 * F * (u * Base)
      BY <1>1, <1>5, <2>1
    <3>. QED  BY <1>6, <3>1, <3>2
  <2>4. (lo * 1) * s' = 2 * (r' - mMinus') * Base
    <3>1. (lo * 1) * s' = 2 * (2 * F - 1) * (U * w)
      BY <1>1, <1>5, <1>9, <1>11, <2>1 DEF lo
    <3>2. 2 * (r' - mMinus') * Base = 2 * (2 * F - 1) * (u * Base)
      BY <1>1, <1>5, <2>1
    <3>. QED  BY <1>6, <3>1, <3>2
  <2>5. (((2 * F + 1) * U) * 1) * s' = 2 * (r' + mPlus') * Base
    <3>1. (((2 * F + 1) * U) * 1) * s' = 2 * (2 * F + 1) * (U * w)
      BY <1>1, <1>5, <2>1
    <3>2. 2 * (r' + mPlus') * Base = 2 * (2 * F + 1) * (u * Base)
      BY <1>1, <1>5, <2>1
    <3>. QED  BY <1>6, <3>1, <3>2
  <2>6. Stands(f, r', s', mPlus', mMinus', 0)
    BY <1>8, <1>9, <2>3, <2>4, <2>5 DEF Stands, lo
  <2>. QED  BY <1>4, <1>5, <2>1, <2>2, <2>6 DEF F
<1>12. CASE LowerBoundary(f)
  <2>1. r' = F * (4 * u) /\ s' = 4 * w /\ mPlus' = 2 * u /\ mMinus' = u
    <3>1. Doubled(f) = 2 /\ 2 - 1 + up = 1 + up
      BY <1>2, <1>12 DEF Doubled
    <3>. QED  BY <1>3, <1>4, <1>7, <3>1
  <2>2. r' \in Nat /\ s' \in Nat /\ s' > 0 /\ mPlus' \in Nat /\ mMinus' > 0 /\ r' = 2 * F * mPlus'
    BY <1>1, <1>5, <2>1
  <2>3. (F * U) * 1 * s' = r' * Base
    <3>1. (F * U) * 1 * s' = 4 * F * (U * w)
      BY <1>1, <1>5, <2>1
    <3>2. r' * Base = 4 * F * (u * Base)
      BY <1>1, <1>5, <2>1
    <3>. QED  BY <1>6, <3>1, <3>2
  <2>4. (lo * 1) * s' = 2 * (r' - mMinus') * Base
    <3>1. (lo * 1) * s' = (2 * lo) * (2 * w)
      BY <1>5, <1>10, <2>1
    <3>2. (2 * lo) * (2 * w) = 2 * (4 * F - 1) * (U * w)
      BY <1>1, <1>5, <1>9, <1>12 DEF lo
    <3>3. 2 * (r' - mMinus') * Base = 2 * (4 * F - 1) * (u * Base)
      BY <1>1, <1>5, <2>1
    <3>. QED  BY <1>6, <3>1, <3>2, <3>3
  <2>5. (((2 * F + 1) * U) * 1) * s' = 2 * (r' + mPlus') * Base
    <3>1. (((2 * F + 1) * U) * 1) * s' = 4 * (2 * F + 1) * (U * w)
      BY <1>1, <1>5, <2>1
    <3>2. 2 * (r' + mPlus') * Base = 4 * (2 * F + 1) * (u * Base)
      BY <1>1, <1>5, <2>1
    <3>. QED  BY <1>6, <3>1, <3>2
  <2>6. Stands(f, r', s', mPlus', mMinus', 0)
    BY <1>8, <1>9, <2>3, <2>4, <2>5 DEF Stands, lo
  <2>7. F = Hidden
    BY <1>12, Significand DEF F
  <2>. QED  BY <1>4, <1>5, <2>1, <2>2, <2>6, <2>7 DEF F
<1>. QED  BY <1>11, <1>12

LEMMA InitScaledStateKeeps == ASSUME FormatInv, NEW f \in Floats, InitScaledState(f) PROVE FormatInv'
<1>1. /\ float' = f /\ f \in Float /\ pc' = "scale" /\ digits' = << >> /\ class' = None
      /\ n' = n /\ Finite(f)
  BY FloatsAssumption DEF InitScaledState, Finite
<1>2. /\ r' \in Nat /\ s' \in Nat /\ s' > 0 /\ mPlus' \in Nat /\ mMinus' \in Nat /\ mMinus' > 0
      /\ mPlus' = mMinus' \/ (mPlus' = 2 * mMinus' /\ FMant(f) = Hidden)
      /\ r' = 2 * FMant(f) * mPlus'
      /\ Stands(f, r', s', mPlus', mMinus', 0)
  BY <1>1, InitScaledStateStands
<1>3. n \in Int /\ << >> \in Seq(0..9) /\ Len(<< >>) = 0 /\ 0 <= MaxDigits
  BY FormatTypes, FormatAssumption DEF FormatInv
<1>4. FormatTypeOK'
  BY <1>1, <1>2, <1>3 DEF FormatTypeOK
<1>5. Total' = r'
  BY <1>1, <1>2, WrittenOfNone DEF Total
<1>6. Exact'
  BY <1>1, <1>2, <1>5 DEF Exact, AtWork, Place
<1>. QED  BY <1>1, <1>2, <1>4, <1>6
          DEF FormatInv, Scaling, Estimated, NotOver, InDigits, Unfailed, Found, Formatted

LEMMA ScaleStands ==
  ASSUME NEW f, Finite(f), NEW k \in Int, NEW a \in Nat, NEW b \in Nat, NEW up \in Nat,
         NEW down \in Nat, Stands(f, a, b, up, down, 0)
  PROVE  Stands(f, a * Tenths(k), b * Times(k), up * Tenths(k), down * Tenths(k), k)
<1>1. /\ Times(k) \in Nat /\ Tenths(k) \in Nat /\ Base \in Nat
      /\ Times(0) = 1 /\ Tenths(0) = 1
  BY PlaceIs, BaseIs DEF Times, Tenths
<1> DEFINE A == Times(k)
           T == Tenths(k)
           B == Base
<1>2. A \in Nat /\ T \in Nat /\ B \in Nat
  BY <1>1
<1>3. ASSUME NEW v \in Int, NEW x \in Int, ScaledTo(v, 0) * b = x * (Times(0) * Base)
      PROVE  ScaledTo(v, k) * (b * Times(k)) = (x * Tenths(k)) * (Times(k) * Base)
  <2>1. v * b = x * B
    BY <1>1, <1>3 DEF ScaledTo
  <2> HIDE DEF A, T, B
  <2>2. (v * T) * (b * A) = (v * b) * (T * A)
    BY <1>2
  <2>3. (x * T) * (A * B) = (x * B) * (T * A)
    BY <1>2
  <2>. QED  BY <2>1, <2>2, <2>3 DEF ScaledTo, A, T, B
<1>4. Value(f) \in Int /\ Value(Below(f)) + Value(f) \in Int /\ Value(f) + Value(Above(f)) \in Int
  BY SumsAre DEF Sums
<1>5. /\ a \in Int /\ 2 * (a - down) \in Int /\ 2 * (a + up) \in Int
      /\ (2 * (a - down)) * Tenths(k) = 2 * (a * Tenths(k) - down * Tenths(k))
      /\ (2 * (a + up)) * Tenths(k) = 2 * (a * Tenths(k) + up * Tenths(k))
  BY <1>1
<1>. QED  BY <1>3, <1>4, <1>5 DEF Stands

(* Products of positive numbers are positive. *)
LEMMA Positive == \A x, y \in Nat : x * y \in Nat /\ (x > 0 /\ y > 0 => x * y > 0)
OBVIOUS

LEMMA ScaleKeeps == ASSUME FormatInv, Scale PROVE FormatInv'
<1>0. /\ r \in Nat /\ s \in Nat /\ mPlus \in Nat /\ mMinus \in Nat /\ n \in Int
      /\ digits \in Seq(0..9) /\ float \in Float /\ FormatTypeOK
  BY FormatTypes DEF FormatInv, FormatTypeOK
<1>1. PICK k \in Estimates :
        /\ n' = k
        /\ s' = IF k > 0 THEN s * TenTo[k] ELSE s
        /\ LET up == IF k < 0 THEN TenTo[-k] ELSE 1 IN
           r' = r * up /\ mPlus' = mPlus * up /\ mMinus' = mMinus * up
  BY DEF Scale
<1>2. /\ pc = "scale" /\ pc' = "high" /\ float' = float /\ digits' = digits /\ class' = class
  BY DEF Scale
<1>3. /\ k \in Int
      /\ BelowTen(r * (Slack - 1), s * Slack, k)
  BY FormatAssumption DEF Estimates
<1>4. /\ Finite(float) /\ class = None /\ s > 0 /\ mMinus > 0
      /\ mPlus = mMinus \/ (mPlus = 2 * mMinus /\ FMant(float) = Hidden)
      /\ digits = << >> /\ r = 2 * FMant(float) * mPlus
      /\ Stands(float, Total, s, mPlus, mMinus, 0)
  BY <1>2 DEF FormatInv, Exact, AtWork, Scaling, Place
<1> DEFINE A == Times(k)
           T == Tenths(k)
<1>6. /\ r' = r * T /\ s' = s * A /\ mPlus' = mPlus * T /\ mMinus' = mMinus * T
  <2>1. s' = s * A
    BY <1>0, <1>1 DEF Times
  <2>2. T = IF k < 0 THEN TenTo[-k] ELSE 1
    BY DEF Tenths
  <2> HIDE DEF T
  <2>. QED  BY <1>1, <2>1, <2>2
<1>7. A \in Nat /\ A > 0 /\ T \in Nat /\ T > 0
  BY <1>3, PlaceIs
<1>8. r' * (Slack - 1) < s' * Slack
  <2>1. CASE k >= 0
    <3>1. T = 1 /\ A = TenTo[k] /\ TenTo[k] \in Nat
      BY <1>3, <2>1, TenPower DEF Times, Tenths
    <3>2. r * (Slack - 1) < (s * Slack) * TenTo[k]
      BY <1>3, <2>1 DEF BelowTen
    <3>3. (s * Slack) * TenTo[k] = (s * TenTo[k]) * Slack /\ r * 1 = r
      BY <1>0, <3>1, FormatAssumption
    <3>. QED  BY <1>6, <3>1, <3>2, <3>3
  <2>2. CASE k < 0
    <3>1. A = 1 /\ T = TenTo[-k] /\ TenTo[-k] \in Nat
      BY <1>3, <2>2, TenPower DEF Times, Tenths
    <3>2. (r * (Slack - 1)) * TenTo[-k] < s * Slack
      BY <1>3, <2>2 DEF BelowTen
    <3>3. (r * (Slack - 1)) * TenTo[-k] = (r * TenTo[-k]) * (Slack - 1) /\ s * 1 = s
      <4>1. Slack - 1 \in Int
        BY FormatAssumption
      <4>2. \A x, y, z \in Int : (x * y) * z = (x * z) * y
        OBVIOUS
      <4>. QED  BY <1>0, <3>1, <4>1, <4>2
    <3>. QED  BY <1>6, <3>1, <3>2, <3>3
  <2>. QED  BY <1>3, <2>1, <2>2
<1> HIDE DEF A, T
<1>9. /\ r' \in Nat /\ s' \in Nat /\ s' > 0 /\ mPlus' \in Nat /\ mMinus' \in Nat /\ mMinus' > 0
  BY <1>0, <1>4, <1>6, <1>7, Positive
<1>5. Total = r /\ Total' = r'
  <2>1. Written(digits) = 0 /\ Written(digits') = 0
    BY <1>2, <1>4, WrittenOfNone
  <2>2. \A x, y \in Nat : 0 * x + y = y
    OBVIOUS
  <2>3. Total = r
    BY <1>0, <2>1, <2>2 DEF Total
  <2>4. Total' = 0 * s' + r'
    BY <1>2, <1>4, WrittenOfNone DEF Total
  <2>. QED  BY <1>9, <2>2, <2>3, <2>4
<1>10. /\ mPlus' = mMinus' \/ (mPlus' = 2 * mMinus' /\ FMant(float) = Hidden)
       /\ r' = 2 * FMant(float) * mPlus'
  <2>1. FMant(float) \in Nat
    BY <1>4, Significand
  <2>2. (2 * mMinus) * T = 2 * (mMinus * T)
        /\ (2 * FMant(float) * mPlus) * T = 2 * FMant(float) * (mPlus * T)
    BY <1>0, <1>7, <2>1
  <2>. QED  BY <1>4, <1>6, <2>2
<1>11. Stands(float, r', s', mPlus', mMinus', k)
  <2>1. Stands(float, r, s, mPlus, mMinus, 0)
    BY <1>4, <1>5
  <2>. QED  BY <1>0, <1>3, <1>4, <1>6, <2>1, ScaleStands DEF A, T
<1>12. Len(digits) = 0 /\ k - 0 = k
  BY <1>3, <1>4
<1>13. FormatTypeOK'
  BY <1>0, <1>1, <1>2, <1>3, <1>9, <1>10 DEF FormatTypeOK
<1>14. Exact'
  BY <1>1, <1>2, <1>4, <1>5, <1>9, <1>10, <1>11, <1>12 DEF Exact, AtWork, Place
<1>. QED  BY <1>2, <1>4, <1>8, <1>10, <1>13, <1>14
          DEF FormatInv, Scaling, Estimated, NotOver, InDigits, Unfailed, Found, Formatted

LEMMA Stretched == \A x, y \in Nat : y >= 1 => x * y >= x
<1> SUFFICES ASSUME NEW x \in Nat, NEW y \in Nat, y >= 1 PROVE x * y >= x
  OBVIOUS
<1> DEFINE z == y - 1
<1>1. z \in Nat /\ y = z + 1
  OBVIOUS
<1> HIDE DEF z
<1>2. x * y = x * z + x /\ x * z \in Nat
  BY <1>1
<1>. QED  BY <1>2

(* An estimate that is too high by less than one part in Slack is too high *)
(* by less than the value itself.                                          *)
LEMMA SlackHalves ==
  ASSUME NEW x \in Nat, NEW y \in Nat, NEW k \in Nat, k > 1, x * (k - 1) < y * k
  PROVE  x < 2 * y
<1> DEFINE j == k - 1
           d == x - 2 * y
<1>1. j \in Nat /\ j >= 1 /\ k = j + 1
  OBVIOUS
<1>2. y * k = y * j + y
  <2>1. k = j + 1
    BY <1>1
  <2> HIDE DEF j
  <2>. QED  BY <1>1, <2>1
<1>3. x * j < y * j + y
  BY <1>2
<1>4. SUFFICES ASSUME x >= 2 * y PROVE FALSE
  OBVIOUS
<1>5. d \in Nat /\ x = 2 * y + d
  BY <1>4
<1> HIDE DEF j, d
<1>6. x * j = (2 * y) * j + d * j /\ (2 * y) * j = y * j + y * j
  BY <1>1, <1>5
<1>7. d * j \in Nat /\ y * j \in Nat
  BY <1>1, <1>5
<1>8. y * j >= y
  BY <1>1, Stretched
<1>. QED  BY <1>3, <1>6, <1>7, <1>8

LEMMA HighFixupKeeps == ASSUME FormatInv, HighFixup PROVE FormatInv'
<1>0. /\ r \in Nat /\ s \in Nat /\ mPlus \in Nat /\ mMinus \in Nat /\ n \in Int
      /\ digits \in Seq(0..9) /\ float \in Float /\ FormatTypeOK
  BY FormatTypes DEF FormatInv, FormatTypeOK
<1>2. /\ pc = "high" /\ pc' = "low" /\ float' = float /\ digits' = digits /\ class' = class
      /\ r' = r /\ mPlus' = mPlus /\ mMinus' = mMinus
  BY DEF HighFixup
<1>4. /\ Finite(float) /\ class = None /\ s > 0 /\ mMinus > 0
      /\ mPlus = mMinus \/ (mPlus = 2 * mMinus /\ FMant(float) = Hidden)
      /\ digits = << >> /\ r = 2 * FMant(float) * mPlus
      /\ Stands(float, Total, s, mPlus, mMinus, n - Len(digits))
      /\ r * (Slack - 1) < s * Slack
  BY <1>2 DEF FormatInv, Exact, AtWork, Scaling, Estimated, Place
<1>5. Len(digits) = 0 /\ n - Len(digits) = n /\ Written(digits) = 0 /\ Total = r
  <2>1. Len(digits) = 0 /\ Written(digits) = 0
    BY <1>4, WrittenOfNone
  <2>. QED  BY <1>0, <2>1 DEF Total
<1>6. CASE ~CmpHigh(r + mPlus, s)
  <2>1. s' = s /\ n' = n
    BY <1>6 DEF HighFixup
  <2>2. FormatTypeOK'
    BY <1>0, <1>2, <1>4, <2>1 DEF FormatTypeOK
  <2>3. Exact'
    BY <1>2, <1>4, <2>1 DEF Exact, AtWork, Place, Total
  <2>. QED  BY <1>2, <1>4, <1>6, <2>1, <2>2, <2>3
            DEF FormatInv, Scaling, Estimated, NotOver, InDigits, Unfailed, Found, Formatted, CmpHigh, Even
<1>7. CASE CmpHigh(r + mPlus, s)
  <2>1. s' = s * 10 /\ n' = n + 1
    BY <1>7 DEF HighFixup
  <2>2. FormatTypeOK'
    BY <1>0, <1>2, <1>4, <2>1 DEF FormatTypeOK
  <2>3. Total' = r /\ n' - Len(digits') = n + 1
    BY <1>0, <1>2, <1>5, <2>1 DEF Total
  <2>4. Stands(float, r, s * 10, mPlus, mMinus, n + 1)
    BY <1>0, <1>4, <1>5, StandsUp
  <2>5. Exact'
    <3>1. s' > 0
      BY <1>0, <1>4, <2>1
    <3>. QED  BY <1>2, <1>4, <2>1, <2>3, <2>4, <3>1 DEF Exact, AtWork, Place
  <2>6. r + mPlus < s'
    <3>1. FMant(float) \in Nat /\ FMant(float) >= 1
      BY <1>4, Significand
    <3>2. 2 * mPlus <= r
      BY <1>0, <1>4, <3>1
    <3>3. r < 2 * s
      <4>1. Slack \in Nat /\ Slack > 1
        BY FormatAssumption
      <4>. QED  BY <1>0, <1>4, <4>1, SlackHalves
    <3>. QED  BY <1>0, <2>1, <3>2, <3>3
  <2>7. ~(r + mPlus >= s') /\ ~(r + mPlus > s')
    BY <1>0, <2>1, <2>6
  <2>. QED  BY <1>2, <1>4, <2>2, <2>5, <2>7
            DEF FormatInv, Scaling, Estimated, NotOver, InDigits, Unfailed, Found, Formatted, CmpHigh, Even
<1>. QED  BY <1>6, <1>7

LEMMA LowFixupKeeps == ASSUME FormatInv, LowFixup PROVE FormatInv'
<1>0. /\ r \in Nat /\ s \in Nat /\ mPlus \in Nat /\ mMinus \in Nat /\ n \in Int
      /\ digits \in Seq(0..9) /\ float \in Float /\ FormatTypeOK
  BY FormatTypes DEF FormatInv, FormatTypeOK
<1>2. /\ pc = "low" /\ pc' = "low" /\ float' = float /\ digits' = digits /\ class' = class
      /\ r' = r * 10 /\ mPlus' = mPlus * 10 /\ mMinus' = mMinus * 10 /\ s' = s /\ n' = n - 1
      /\ TooLow
  BY DEF LowFixup, TimesTen
<1>4. /\ Finite(float) /\ class = None /\ s > 0 /\ mMinus > 0
      /\ mPlus = mMinus \/ (mPlus = 2 * mMinus /\ FMant(float) = Hidden)
      /\ digits = << >> /\ r = 2 * FMant(float) * mPlus
      /\ Stands(float, Total, s, mPlus, mMinus, n - Len(digits))
  BY <1>2 DEF FormatInv, Exact, AtWork, Scaling, Place
<1>5. Len(digits) = 0 /\ n - Len(digits) = n /\ Total = r /\ Total' = r * 10
      /\ n' - Len(digits') = n - 1
  <2>1. Len(digits) = 0 /\ Written(digits) = 0
    BY <1>4, WrittenOfNone
  <2>. QED  BY <1>0, <1>2, <2>1 DEF Total
<1>6. Stands(float, r * 10, s, mPlus * 10, mMinus * 10, n - 1)
  BY <1>0, <1>4, <1>5, StandsDown
<1>7. /\ mPlus' = mMinus' \/ (mPlus' = 2 * mMinus' /\ FMant(float) = Hidden)
      /\ r' = 2 * FMant(float) * mPlus' /\ mMinus' > 0
  <2>1. FMant(float) \in Nat
    BY <1>4, Significand
  <2>2. (2 * FMant(float) * mPlus) * 10 = 2 * FMant(float) * (mPlus * 10)
    BY <1>0, <2>1
  <2>. QED  BY <1>0, <1>2, <1>4, <2>2
<1>8. FormatTypeOK'
  BY <1>0, <1>2, <1>4, <1>7 DEF FormatTypeOK
<1>9. Exact'
  BY <1>2, <1>4, <1>5, <1>6, <1>7 DEF Exact, AtWork, Place
<1>. QED  BY <1>0, <1>2, <1>4, <1>7, <1>8, <1>9
          DEF FormatInv, Scaling, Estimated, NotOver, InDigits, Unfailed, Found, Formatted, CmpHigh, Even,
              TooLow, CmpLow

LEMMA LowFixedKeeps == ASSUME FormatInv, LowFixed PROVE FormatInv'
<1>0. /\ r \in Nat /\ s \in Nat /\ mPlus \in Nat /\ mMinus \in Nat /\ n \in Int
      /\ digits \in Seq(0..9) /\ float \in Float /\ FormatTypeOK
  BY FormatTypes DEF FormatInv, FormatTypeOK
<1>2. /\ pc = "low" /\ pc' = "digits" /\ float' = float /\ digits' = digits /\ class' = class
      /\ r' = r /\ mPlus' = mPlus /\ mMinus' = mMinus /\ s' = s /\ n' = n
      /\ ~TooLow
  BY DEF LowFixed, state
<1>4. /\ Finite(float) /\ class = None /\ s > 0 /\ mMinus > 0
      /\ mPlus = mMinus \/ (mPlus = 2 * mMinus /\ FMant(float) = Hidden)
      /\ digits = << >> /\ r = 2 * FMant(float) * mPlus
      /\ ~CmpHigh(r + mPlus, s)
  BY <1>2 DEF FormatInv, Exact, AtWork, Scaling, NotOver
<1>5. FormatTypeOK'
  BY <1>0, <1>2, <1>4 DEF FormatTypeOK
<1>6. Exact'
  BY <1>2 DEF FormatInv, Exact, AtWork, Place, Total
<1>7. CmpHigh((r + mPlus) * 10, s)
  BY <1>0, <1>2 DEF TooLow, CmpLow, CmpHigh
<1>8. ~CmpRoundDown(r, mMinus)
  <2>1. FMant(float) \in Nat /\ FMant(float) >= 1
    BY <1>4, Significand
  <2>2. 2 * mPlus <= r
    BY <1>0, <1>4, <2>1
  <2>3. r > mMinus
    BY <1>0, <1>4, <2>2
  <2>. QED  BY <1>0, <2>3 DEF CmpRoundDown
<1>9. s * TenTo[Len(digits)] <= 10 * (2 * FMant(float) + 1) * mPlus
  <2>1. Len(digits) = 0 /\ TenTo[0] = 1 /\ FMant(float) \in Nat
    BY <1>4, Significand, TenPower
  <2>2. s <= (r + mPlus) * 10
    BY <1>0, <1>7 DEF CmpHigh
  <2>3. (2 * FMant(float) * mPlus + mPlus) * 10 = 10 * (2 * FMant(float) + 1) * mPlus
    BY <1>0, <2>1
  <2>. QED  BY <1>0, <1>4, <2>1, <2>2, <2>3
<1>. QED  BY <1>2, <1>4, <1>5, <1>6, <1>7, <1>8, <1>9
          DEF FormatInv, Scaling, Estimated, NotOver, InDigits, Unfailed, Found, Formatted, CmpHigh,
              CmpRoundDown, Even

-----------------------------------------------------------------------------
(* One more digit: ten times the fraction is a digit and a fraction.       *)
LEMMA Multiples ==
  ASSUME NEW c \in Nat, NEW g \in Nat, NEW b \in Nat, b > 0
  PROVE  \/ c = g /\ c * b = g * b
         \/ c = g + 1 /\ c * b = g * b + b
         \/ c >= g + 2 /\ c * b >= g * b + 2 * b
         \/ c < g /\ c * b <= g * b - b
<1> DEFINE j == c - g
           x == j * b
<1>1. j \in Int /\ x \in Int /\ c * b = g * b + x
  <2>1. (g + j) * b = g * b + j * b
    OBVIOUS
  <2>2. g + j = c
    OBVIOUS
  <2>. QED  BY <2>1, <2>2
<1>2. j = 0 => x = 0
  OBVIOUS
<1>3. j = 1 => x = b
  OBVIOUS
<1>4. j >= 2 => x >= 2 * b
  OBVIOUS
<1>5. j <= -1 => x <= -b
  OBVIOUS
<1>6. j = 0 \/ j = 1 \/ j >= 2 \/ j <= -1
  OBVIOUS
<1>7. (j = 0 <=> c = g) /\ (j = 1 <=> c = g + 1) /\ (j >= 2 <=> c >= g + 2) /\ (j <= -1 <=> c < g)
  OBVIOUS
<1> HIDE DEF j, x
<1>. QED  BY <1>1, <1>2, <1>3, <1>4, <1>5, <1>6, <1>7

(* A fraction between the gaps leaves no multiple to be read. *)
LEMMA NothingReads ==
  ASSUME NEW f, Finite(f), NEW q \in Int, NEW g \in Nat, NEW rest \in Nat, NEW b \in Nat, b > 0,
         NEW up \in Nat, NEW down \in Nat, Stands(f, g * b + rest, b, up, down, q),
         IF IsEven(f) THEN rest + up < b /\ rest > down ELSE rest + up <= b /\ rest >= down,
         NEW c \in Nat
  PROVE  ~Reads(c, q, f)
<1> DEFINE a == g * b + rest
<1>1. a \in Nat /\ g * b \in Nat /\ c * b \in Nat
  OBVIOUS
<1>2. Reads(c, q, f) <=> \/ a - down < c * b /\ c * b < a + up
                         \/ IsEven(f) /\ c * b \in {a - down, a + up}
  <2> HIDE DEF a
  <2>. QED  BY <1>1, ReadsIs DEF a
<1>3. \/ c * b >= g * b + b
      \/ c * b <= g * b
  <2>. QED  BY <1>1, Multiples
<1> DEFINE x == c * b
           y == g * b
<1>4. x \in Nat /\ y \in Nat /\ a = y + rest /\ (x >= y + b \/ x <= y)
  BY <1>1, <1>3
<1>5. IsEven(f) \in BOOLEAN
  BY DEF IsEven
<1>6. Reads(c, q, f) <=> \/ a - down < x /\ x < a + up
                         \/ IsEven(f) /\ x \in {a - down, a + up}
  BY <1>2
<1> HIDE DEF a, x, y
<1>. QED  BY <1>4, <1>5, <1>6

(* Of two neighbouring multiples the nearer one is the best, if it is read. *)
LEMMA BestIsDown ==
  ASSUME NEW f, Finite(f), NEW q \in Int, NEW g \in Nat, NEW rest \in Nat, NEW b \in Nat, b > 0,
         NEW up \in Nat, NEW down \in Nat, Stands(f, g * b + rest, b, up, down, q),
         rest < b, up > 0,
         IF IsEven(f) THEN rest <= down ELSE rest < down,
         \/ IF IsEven(f) THEN rest + up < b ELSE rest + up <= b
         \/ 2 * rest < b \/ (2 * rest = b /\ g % 2 = 0)
  PROVE  Best(g, q, f)
<1> DEFINE a == g * b + rest
           y == g * b
<1>1. a \in Nat /\ y \in Nat /\ a = y + rest
  OBVIOUS
<1>2. IsEven(f) \in BOOLEAN
  BY DEF IsEven
<1>3. \A c \in Nat : Reads(c, q, f) <=> \/ a - down < c * b /\ c * b < a + up
                                        \/ IsEven(f) /\ c * b \in {a - down, a + up}
  <2> HIDE DEF a
  <2>. QED  BY <1>1, ReadsIs DEF a
<1>4. \A c \in Nat :
        /\ Far(c, q, f) > Far(g, q, f) <=> Distance(c * b - a) > Distance(g * b - a)
        /\ Far(c, q, f) = Far(g, q, f) <=> Distance(c * b - a) = Distance(g * b - a)
  <2> TAKE c \in Nat
  <2>1. Stands(f, a, b, up, down, q) /\ g \in Nat /\ a \in Nat
    OBVIOUS
  <2> HIDE DEF a, y
  <2>2. Far(c, q, f) > Far(g, q, f) <=> Distance(c * b - a) > Distance(g * b - a)
    BY <2>1, FarIs
  <2>3. Far(c, q, f) = Far(g, q, f) <=> Distance(c * b - a) = Distance(g * b - a)
    BY <2>1, FarIs
  <2>. QED  BY <2>2, <2>3
<1>5. \A c \in Nat : c # g => \/ c * b = y + b \/ c * b >= y + 2 * b
                              \/ c * b <= y - b
  BY Multiples
<1>6. g * b = y
  OBVIOUS
<1> HIDE DEF a, y
<1>7. Reads(g, q, f)
  BY <1>1, <1>2, <1>3, <1>6
<1>8. Distance(g * b - a) = rest
  BY <1>1, <1>6 DEF Distance
<1>9. ASSUME NEW c \in Nat, Reads(c, q, f), c # g
      PROVE  Far(c, q, f) > Far(g, q, f) \/ (Far(c, q, f) = Far(g, q, f) /\ g % 2 = 0)
  <2> DEFINE x == c * b
  <2>1. x \in Nat
    OBVIOUS
  <2>2. x = y + b \/ x >= y + 2 * b \/ x <= y - b
    BY <1>5, <1>9
  <2>3. \/ a - down < x /\ x < a + up
        \/ IsEven(f) /\ x \in {a - down, a + up}
    BY <1>3, <1>9
  <2> DEFINE z == Distance(x - a)
  <2>4. /\ Far(c, q, f) > Far(g, q, f) <=> z > rest
        /\ Far(c, q, f) = Far(g, q, f) <=> z = rest
    BY <1>4, <1>8
  <2>5. z > rest \/ (z = rest /\ 2 * rest = b)
    <3> HIDE DEF x
    <3>1. CASE x <= y - b
      <4>1. x - a < 0 /\ -(x - a) >= b + rest
        BY <1>1, <2>1, <3>1
      <4>. QED  BY <1>1, <2>1, <4>1 DEF Distance
    <3>2. CASE x >= y + b
      <4>1. ~(x - a < 0) /\ x - a >= b - rest
        BY <1>1, <2>1, <3>2
      <4>2. \/ 2 * rest < b \/ 2 * rest = b
        <5>1. ~(IF IsEven(f) THEN rest + up < b ELSE rest + up <= b)
          BY <1>1, <1>2, <2>1, <2>3, <3>2
        <5>. QED  BY <5>1
      <4>. QED  BY <1>1, <2>1, <4>1, <4>2 DEF Distance
    <3>. QED  BY <1>1, <2>1, <2>2, <3>1, <3>2
  <2>6. z = rest => ~(x <= y - b) \/ 2 * rest = b
    BY <2>5
  <2>7. CASE z > rest
    BY <2>4, <2>7
  <2>8. CASE z = rest /\ 2 * rest = b
    <3>1. ASSUME IF IsEven(f) THEN rest + up < b ELSE rest + up <= b PROVE FALSE
      <4>1. x <= y - b
        <5> HIDE DEF x
        <5>. QED  BY <1>1, <1>2, <2>1, <2>2, <2>3, <3>1
      <4>2. z >= b + rest
        <5> HIDE DEF x
        <5>1. x - a < 0 /\ -(x - a) >= b + rest
          BY <1>1, <2>1, <4>1
        <5>. QED  BY <1>1, <2>1, <5>1 DEF Distance
      <4> HIDE DEF z
      <4>. QED  BY <2>8, <4>2
    <3>2. g % 2 = 0
      <4>1. ~(2 * rest < b)
        BY <2>8
      <4>. QED  BY <3>1, <4>1
    <3>. QED  BY <2>4, <2>8, <3>2
  <2>. QED  BY <2>5, <2>7, <2>8
<1>. QED  BY <1>7, <1>9 DEF Best

LEMMA BestIsUp ==
  ASSUME NEW f, Finite(f), NEW q \in Int, NEW g \in Nat, NEW rest \in Nat, NEW b \in Nat, b > 0,
         NEW up \in Nat, NEW down \in Nat, Stands(f, g * b + rest, b, up, down, q),
         rest < b, down > 0,
         IF IsEven(f) THEN rest + up >= b ELSE rest + up > b,
         \/ IF IsEven(f) THEN rest > down ELSE rest >= down
         \/ 2 * rest > b \/ (2 * rest = b /\ g % 2 # 0)
  PROVE  Best(g + 1, q, f)
<1> DEFINE a == g * b + rest
           y == g * b
<1>1. a \in Nat /\ y \in Nat /\ a = y + rest
  OBVIOUS
<1>2. IsEven(f) \in BOOLEAN
  BY DEF IsEven
<1>3. \A c \in Nat : Reads(c, q, f) <=> \/ a - down < c * b /\ c * b < a + up
                                        \/ IsEven(f) /\ c * b \in {a - down, a + up}
  <2> HIDE DEF a
  <2>. QED  BY <1>1, ReadsIs DEF a
<1>4. \A c \in Nat :
        /\ Far(c, q, f) > Far(g + 1, q, f) <=> Distance(c * b - a) > Distance((g + 1) * b - a)
        /\ Far(c, q, f) = Far(g + 1, q, f) <=> Distance(c * b - a) = Distance((g + 1) * b - a)
  <2>1. g + 1 \in Nat
    OBVIOUS
  <2> HIDE DEF a
  <2>. QED  BY <1>1, <2>1, FarIs DEF a
<1>5. \A c \in Nat : c # g + 1 => \/ c * b = y \/ c * b >= y + 2 * b
                                  \/ c * b <= y - b
  BY Multiples
<1>6. (g + 1) * b = y + b
  OBVIOUS
<1> HIDE DEF a, y
<1>7. Reads(g + 1, q, f)
  BY <1>1, <1>2, <1>3, <1>6
<1>8. Distance((g + 1) * b - a) = b - rest
  BY <1>1, <1>6 DEF Distance
<1>9. ASSUME NEW c \in Nat, Reads(c, q, f), c # g + 1
      PROVE  \/ Far(c, q, f) > Far(g + 1, q, f)
             \/ Far(c, q, f) = Far(g + 1, q, f) /\ (g + 1) % 2 = 0
  <2> DEFINE x == c * b
  <2>1. x \in Nat
    OBVIOUS
  <2>2. x = y \/ x >= y + 2 * b \/ x <= y - b
    BY <1>5, <1>9
  <2>3. \/ a - down < x /\ x < a + up
        \/ IsEven(f) /\ x \in {a - down, a + up}
    BY <1>3, <1>9
  <2> DEFINE z == Distance(x - a)
  <2>4. /\ Far(c, q, f) > Far(g + 1, q, f) <=> z > b - rest
        /\ Far(c, q, f) = Far(g + 1, q, f) <=> z = b - rest
    BY <1>4, <1>8
  <2>5. z \in Int /\ (x <= y => z = a - x) /\ (x >= y + 2 * b => z = x - a)
    <3> HIDE DEF x
    <3>. QED  BY <1>1, <2>1 DEF Distance
  <2> HIDE DEF x, z
  <2>6. x >= y + 2 * b => z > b - rest
    BY <1>1, <2>1, <2>5
  <2>7. CASE IF IsEven(f) THEN rest > down ELSE rest >= down
    <3>1. ~(x <= y)
      BY <1>1, <1>2, <2>1, <2>3, <2>7
    <3>2. x >= y + 2 * b
      BY <1>1, <2>1, <2>2, <3>1
    <3>. QED  BY <2>4, <2>6, <3>2
  <2>8. CASE 2 * rest > b
    <3>1. z > b - rest
      BY <1>1, <2>1, <2>2, <2>5, <2>6, <2>8
    <3>. QED  BY <2>4, <3>1
  <2>9. CASE 2 * rest = b /\ g % 2 # 0
    <3>1. z > b - rest \/ z = b - rest
      BY <1>1, <2>1, <2>2, <2>5, <2>6, <2>9
    <3>2. (g + 1) % 2 = 0
      BY <2>9
    <3>. QED  BY <2>4, <3>1, <3>2
  <2>. QED  BY <2>7, <2>8, <2>9
<1>. QED  BY <1>7, <1>9 DEF Best

-----------------------------------------------------------------------------
(* As long as no digit is the last one there are fewer than MaxDigits.     *)
LEMMA FewDigits ==
  ASSUME NEW k \in Nat, NEW F \in Nat, F + 1 <= TwoTo[Precision], NEW b \in Nat, NEW up \in Nat,
         NEW down \in Nat, down > 0, up = down \/ (up = 2 * down /\ F = Hidden),
         up + down <= b, b * TenTo[k] <= 10 * (2 * F + 1) * up
  PROVE  k <= MaxDigits - 1
<1> DEFINE X == TenTo[MaxDigits - 1]
           W == TwoTo[Precision]
<1>0. MaxDigits - 1 \in Nat
  BY FormatAssumption
<1>1. /\ W \in Nat /\ X \in Nat /\ W <= X /\ W = 2 * Hidden /\ Hidden \in Nat /\ Hidden > 0
  <2>1. Precision \in Nat
    BY FormatAssumption
  <2>. QED  BY <1>0, <2>1, TwoPower, TenPower, DigitsAssumption, HiddenIs
<1>2. X = 1 \/ X >= 10
  <2>1. CASE MaxDigits - 1 = 0
    BY <2>1, TenPower
  <2>2. CASE MaxDigits - 1 # 0
    <3>1. 1 <= MaxDigits - 1 /\ TenTo[1] = 10
      <4>1. 1 <= MaxDigits - 1
        <5>1. \A x \in Nat : x # 0 => 1 <= x
          OBVIOUS
        <5> HIDE DEF X, W
        <5>. QED  BY <1>0, <2>2, <5>1
      <4>2. TenTo[0 + 1] = 10 * TenTo[0]
        BY TenPower
      <4>3. TenTo[1] = 10
        BY <4>2, TenPower
      <4>. QED  BY <4>1, <4>3
    <3>2. TenTo[1] <= X
      BY <1>0, <3>1, TenGrows
    <3>. QED  BY <3>1, <3>2
  <2>. QED  BY <2>1, <2>2
<1>3. CASE k = 0
  BY <1>0, <1>3
<1>4. CASE k # 0
  <2> DEFINE T == TenTo[k - 1]
  <2>1. k - 1 \in Nat /\ T \in Nat /\ TenTo[k] = 10 * T
    <3>1. k - 1 \in Nat /\ k = (k - 1) + 1
      BY <1>4
    <3>. QED  BY <3>1, TenPower
  <2>2. T < X
    <3> HIDE DEF T, X, W
    <3>1. CASE up = down
      <4>1. (2 * down) * (10 * T) <= b * (10 * T)
        <5>1. \A y, z, x \in Nat : y <= z => y * x <= z * x
          OBVIOUS
        <5>2. 2 * down <= b /\ 2 * down \in Nat /\ 10 * T \in Nat
          BY <2>1, <3>1
        <5>. QED  BY <5>1, <5>2
      <4>2. (2 * T) * down <= (2 * F + 1) * down
        BY <2>1, <3>1, <4>1
      <4>3. 2 * T <= 2 * F + 1
        BY <2>1, <4>2
      <4>. QED  BY <1>1, <2>1, <4>3 DEF W
    <3>2. CASE up = 2 * down /\ F = Hidden
      <4>1. (3 * down) * (10 * T) <= b * (10 * T)
        <5>1. \A y, z, x \in Nat : y <= z => y * x <= z * x
          OBVIOUS
        <5>2. 3 * down <= b /\ 3 * down \in Nat /\ 10 * T \in Nat
          BY <2>1, <3>2
        <5>. QED  BY <5>1, <5>2
      <4>2. (3 * T) * down <= (2 * (2 * F + 1)) * down
        BY <2>1, <3>2, <4>1
      <4>3. 3 * T <= 2 * (2 * F + 1)
        BY <2>1, <4>2
      <4>4. 3 * T <= 2 * W + 2
        BY <1>1, <3>2, <4>3
      <4>. QED  BY <1>1, <1>2, <2>1, <4>4
    <3>. QED  BY <3>1, <3>2
  <2>3. ~(MaxDigits - 1 <= k - 1)
    <3>1. MaxDigits - 1 <= k - 1 => X <= T
      BY <1>0, <2>1, TenGrows
    <3> HIDE DEF X, T
    <3>. QED  BY <1>1, <2>1, <2>2, <3>1
  <2>. QED  BY <1>0, <2>1, <2>3
<1>. QED  BY <1>3, <1>4

(* What every round of extractDigits finds. *)
LEMMA Round ==
  ASSUME FormatInv, pc = "digits"
  PROVE  /\ r \in Nat /\ s \in Nat /\ s > 0 /\ mPlus \in Nat /\ mPlus > 0 /\ mMinus \in Nat
         /\ mMinus > 0 /\ n \in Int
         /\ digits \in Seq(0..9) /\ Len(digits) <= MaxDigits - 1
         /\ D \in 0..9 /\ Rest \in Nat /\ Rest < s /\ r * 10 = D * s + Rest
         /\ Tc2 => D + 1 \in 0..9
         /\ digits = << >> /\ D = 0 => Tc2 /\ ~Tc1
<1>1. /\ r \in Nat /\ s \in Nat /\ mPlus \in Nat /\ mMinus \in Nat /\ n \in Int
      /\ digits \in Seq(0..9) /\ Len(digits) \in Nat /\ FormatTypeOK
  BY FormatTypes DEF FormatInv
<1>2. /\ Finite(float) /\ s > 0 /\ mMinus > 0
      /\ mPlus = mMinus \/ (mPlus = 2 * mMinus /\ FMant(float) = Hidden)
      /\ ~CmpHigh(r + mPlus, s) /\ ~CmpRoundDown(r, mMinus)
      /\ s * TenTo[Len(digits)] <= 10 * (2 * FMant(float) + 1) * mPlus
      /\ digits = << >> => CmpHigh((r + mPlus) * 10, s)
  BY DEF FormatInv, Exact, AtWork, NotOver, InDigits
<1>3. mPlus > 0 /\ r + mPlus <= s /\ r >= mMinus /\ mPlus + mMinus <= s
  BY <1>1, <1>2 DEF CmpHigh, CmpRoundDown
<1>4. Len(digits) <= MaxDigits - 1
  <2>1. FMant(float) \in Nat /\ FMant(float) + 1 <= TwoTo[Precision]
    BY <1>2, Significand
  <2>. QED  BY <1>1, <1>2, <1>3, <2>1, FewDigits
<1>5. D \in Nat /\ Rest \in Nat /\ Rest < s /\ r * 10 = D * s + Rest
  <2>1. \A x, y \in Nat : y > 0 => /\ x \div y \in Nat /\ x % y \in Nat /\ x % y < y
                                   /\ x = (x \div y) * y + (x % y)
    OBVIOUS
  <2>2. r * 10 \in Nat
    BY <1>1
  <2>. QED  BY <1>1, <1>2, <2>1, <2>2 DEF D, Rest
<1>6. D <= 9
  <2>1. D * s < 10 * s
    BY <1>1, <1>3, <1>5
  <2>. QED  BY <1>1, <1>5, <2>1
<1>7. Tc2 => D # 9
  <2> SUFFICES ASSUME Tc2, D = 9 PROVE FALSE
    OBVIOUS
  <2>1. r * 10 = 9 * s + Rest
    BY <1>5
  <2>. QED  BY <1>1, <1>2, <1>5, <2>1 DEF Tc2, CmpHigh
<1>8. digits = << >> /\ D = 0 => Tc2 /\ ~Tc1
  <2> SUFFICES ASSUME digits = << >>, D = 0 PROVE Tc2 /\ ~Tc1
    OBVIOUS
  <2>1. r * 10 = Rest
    BY <1>1, <1>5
  <2>2. CmpHigh((r + mPlus) * 10, s)
    BY <1>2
  <2>. QED  BY <1>1, <1>2, <1>5, <2>1, <2>2 DEF Tc1, Tc2, CmpHigh, CmpRoundDown
<1>. QED  BY <1>1, <1>2, <1>3, <1>4, <1>5, <1>6, <1>7, <1>8

LEMMA RoundStands ==
  ASSUME FormatInv, pc = "digits"
  PROVE  /\ Finite(float) /\ Written(digits) \in Nat
         /\ n - Len(digits) \in Int /\ Len(digits) \in Nat
         /\ Stands(float, Written(digits) * s + r, s, mPlus, mMinus, n - Len(digits))
         /\ 10 * Written(digits) + D \in Nat
         /\ Stands(float, (10 * Written(digits) + D) * s + Rest, s, mPlus * 10, mMinus * 10,
                   n - Len(digits) - 1)
<1>1. /\ r \in Nat /\ s \in Nat /\ mPlus \in Nat /\ mMinus \in Nat /\ n \in Int
      /\ Len(digits) \in Nat /\ Written(digits) \in Nat /\ Total \in Nat
  BY FormatTypes DEF FormatInv
<1>2. Finite(float) /\ Stands(float, Total, s, mPlus, mMinus, n - Len(digits))
  BY DEF FormatInv, Exact, AtWork, Place
<1>3. D \in Nat /\ Rest \in Nat /\ r * 10 = D * s + Rest
  BY Round
<1>4. n - Len(digits) \in Int
  BY <1>1
<1>5. Stands(float, Total * 10, s, mPlus * 10, mMinus * 10, n - Len(digits) - 1)
  BY <1>1, <1>2, <1>4, StandsDown
<1>6. Total * 10 = (10 * Written(digits) + D) * s + Rest
  <2>1. Total * 10 = 10 * (Written(digits) * s) + r * 10
    BY <1>1 DEF Total
  <2>2. (10 * Written(digits) + D) * s + Rest = 10 * (Written(digits) * s) + (D * s + Rest)
    BY <1>1, <1>3
  <2>. QED  BY <1>3, <2>1, <2>2
<1>7. Stands(float, Written(digits) * s + r, s, mPlus, mMinus, n - Len(digits))
  BY <1>2 DEF Total
<1>8. 10 * Written(digits) + D \in Nat
  BY <1>1, <1>3
<1>9. Stands(float, (10 * Written(digits) + D) * s + Rest, s, mPlus * 10, mMinus * 10,
             n - Len(digits) - 1)
  BY <1>5, <1>6
<1>. QED  BY <1>1, <1>2, <1>4, <1>7, <1>8, <1>9

LEMMA NextDigitKeeps == ASSUME FormatInv, NextDigit PROVE FormatInv'
<1>1. /\ pc = "digits" /\ pc' = "digits" /\ ~Tc1 /\ ~Tc2
      /\ r' = Rest /\ mPlus' = mPlus * 10 /\ mMinus' = mMinus * 10
      /\ digits' = Append(digits, D) /\ float' = float /\ s' = s /\ n' = n /\ class' = class
  BY DEF NextDigit, TakeDigit
<1>2. /\ r \in Nat /\ s \in Nat /\ s > 0 /\ mPlus \in Nat /\ mPlus > 0 /\ mMinus \in Nat
      /\ mMinus > 0 /\ n \in Int
      /\ digits \in Seq(0..9) /\ Len(digits) <= MaxDigits - 1
      /\ D \in 0..9 /\ Rest \in Nat /\ Rest < s
      /\ digits = << >> /\ D = 0 => Tc2 /\ ~Tc1
  BY <1>1, Round
<1>3. /\ Finite(float) /\ Written(digits) \in Nat
      /\ n - Len(digits) \in Int /\ Len(digits) \in Nat
      /\ Stands(float, (10 * Written(digits) + D) * s + Rest, s, mPlus * 10, mMinus * 10,
                n - Len(digits) - 1)
  BY <1>1, RoundStands
<1>4. /\ class = None /\ FormatTypeOK
      /\ mPlus = mMinus \/ (mPlus = 2 * mMinus /\ FMant(float) = Hidden)
      /\ s * TenTo[Len(digits)] <= 10 * (2 * FMant(float) + 1) * mPlus
      /\ digits # << >> => digits[1] # 0
  BY <1>1 DEF FormatInv, Exact, AtWork, InDigits
<1>5. /\ digits' \in Seq(0..9) /\ Len(digits') = Len(digits) + 1 /\ digits' # << >>
      /\ digits'[1] = IF digits = << >> THEN D ELSE digits[1]
      /\ Written(digits') = 10 * Written(digits) + D
  <2>1. digits' \in Seq(0..9) /\ Len(digits') = Len(digits) + 1 /\ digits' # << >>
    BY <1>1, <1>2
  <2>2. digits'[1] = IF digits = << >> THEN D ELSE digits[1]
    <3>1. digits = << >> \/ Len(digits) >= 1
      BY <1>2
    <3>. QED  BY <1>1, <1>2, <3>1
  <2>3. digits \in Seq(Nat) /\ D \in Nat
    BY <1>2
  <2>. QED  BY <1>1, <2>1, <2>2, <2>3, WrittenGrows
<1>6. /\ mPlus' \in Nat /\ mMinus' \in Nat /\ mMinus' > 0
      /\ mPlus' = mMinus' \/ (mPlus' = 2 * mMinus' /\ FMant(float) = Hidden)
  BY <1>1, <1>2, <1>4
<1>7. FormatTypeOK'
  <2>1. Len(digits') <= MaxDigits
    BY <1>2, <1>3, <1>5, FormatAssumption
  <2>. QED  BY <1>1, <1>2, <1>4, <1>5, <1>6, <2>1 DEF FormatTypeOK
<1>8. n' - Len(digits') = n - Len(digits) - 1
  BY <1>1, <1>2, <1>3, <1>5
<1>9. Exact'
  BY <1>1, <1>2, <1>3, <1>4, <1>5, <1>6, <1>8 DEF Exact, AtWork, Place, Total
<1>10. s' * TenTo[Len(digits')] <= 10 * (2 * FMant(float) + 1) * mPlus'
  <2>1. TenTo[Len(digits')] = 10 * TenTo[Len(digits)] /\ TenTo[Len(digits)] \in Nat
    BY <1>3, <1>5, TenPower
  <2>2. FMant(float) \in Nat
    BY <1>3, Significand
  <2>3. \A b, t, F, m \in Nat : b * t <= 10 * (2 * F + 1) * m
                              => b * (10 * t) <= 10 * (2 * F + 1) * (m * 10)
    <3> TAKE b \in Nat, t \in Nat, F \in Nat, m \in Nat
    <3>1. b * (10 * t) = 10 * (b * t)
      OBVIOUS
    <3>2. 10 * (2 * F + 1) * (m * 10) = 10 * (10 * (2 * F + 1) * m)
      OBVIOUS
    <3>3. b * t \in Nat /\ 10 * (2 * F + 1) * m \in Nat
      OBVIOUS
    <3>4. \A x, y \in Nat : x <= y => 10 * x <= 10 * y
      OBVIOUS
    <3>. QED  BY <3>1, <3>2, <3>3, <3>4
  <2>4. s * (10 * TenTo[Len(digits)]) <= 10 * (2 * FMant(float) + 1) * (mPlus * 10)
    BY <1>2, <1>4, <2>1, <2>2, <2>3
  <2>. QED  BY <1>1, <2>1, <2>4
<1>11. /\ ~CmpHigh(Rest + mPlus * 10, s) /\ ~CmpRoundDown(Rest, mMinus * 10)
  BY <1>1 DEF Tc1, Tc2
<1>12. NotOver' /\ InDigits'
  BY <1>1, <1>2, <1>4, <1>5, <1>10, <1>11
     DEF NotOver, InDigits, CmpHigh, CmpRoundDown, Even
<1>. QED  BY <1>1, <1>4, <1>7, <1>9, <1>12 DEF FormatInv, Scaling, Estimated, Unfailed, Found, Formatted

(* Ten times a number, one place further down. *)
LEMMA ReadsNext ==
  ASSUME NEW f, Finite(f), NEW e \in Int, NEW c \in Nat
  PROVE  /\ Reads(c * 10, e, f) <=> Reads(c, e + 1, f)
         /\ Scaled(c * 10, e) <= ScaledTo(Value(f), e)
              <=> Scaled(c, e + 1) <= ScaledTo(Value(f), e + 1)
<1>1. /\ Times(e) \in Nat /\ Tenths(e) \in Nat /\ Times(e + 1) \in Nat /\ Tenths(e + 1) \in Nat
      /\ Base \in Nat
  BY PlaceIs, BaseIs
<1> DEFINE x  == Scaled(c * 10, e)
           y  == Scaled(c, e + 1)
           S(v) == ScaledTo(v, e)
           Z(v) == ScaledTo(v, e + 1)
           v0 == Value(f)
           v1 == Value(Below(f)) + Value(f)
           v2 == Value(f) + Value(Above(f))
<1>2. v0 \in Int /\ v1 \in Int /\ v2 \in Int
  BY SumsAre DEF Sums
<1>3. \/ x = y /\ \A v \in Int : S(v) = Z(v)
      \/ x = 10 * y /\ \A v \in Int : S(v) = 10 * Z(v)
  <2>1. x = (c * 10) * Times(e) * Base /\ y = c * Times(e + 1) * Base
    BY DEF Scaled, Base
  <2>2. CASE Times(e + 1) = 10 * Times(e) /\ Tenths(e + 1) = Tenths(e)
    <3>1. (c * 10) * Times(e) * Base = c * (10 * Times(e)) * Base
      BY <1>1
    <3>. QED  BY <2>1, <2>2, <3>1 DEF ScaledTo
  <2>3. CASE Times(e + 1) = Times(e) /\ Tenths(e) = 10 * Tenths(e + 1)
    <3>1. (c * 10) * Times(e) * Base = 10 * (c * Times(e) * Base)
      BY <1>1
    <3>2. \A v \in Int : v * (10 * Tenths(e + 1)) = 10 * (v * Tenths(e + 1))
      BY <1>1
    <3>. QED  BY <2>1, <2>3, <3>1, <3>2 DEF ScaledTo
  <2>. QED  BY <2>2, <2>3, NextPlace
<1>4. x \in Int /\ y \in Int /\ \A v \in Int : S(v) \in Int /\ Z(v) \in Int
  BY <1>1 DEF Scaled, ScaledTo, Base
<1>5. Reads(c * 10, e, f) <=> \/ S(v1) < 2 * x /\ 2 * x < S(v2)
                              \/ IsEven(f) /\ 2 * x \in {S(v1), S(v2)}
  BY DEF Reads
<1>6. Reads(c, e + 1, f) <=> \/ Z(v1) < 2 * y /\ 2 * y < Z(v2)
                             \/ IsEven(f) /\ 2 * y \in {Z(v1), Z(v2)}
  BY DEF Reads
<1>7. IsEven(f) \in BOOLEAN
  BY DEF IsEven
<1> DEFINE S0 == S(v0)
           S1 == S(v1)
           S2 == S(v2)
           Z0 == Z(v0)
           Z1 == Z(v1)
           Z2 == Z(v2)
<1>8. /\ S0 \in Int /\ S1 \in Int /\ S2 \in Int /\ Z0 \in Int /\ Z1 \in Int /\ Z2 \in Int
      /\ \/ x = y /\ S0 = Z0 /\ S1 = Z1 /\ S2 = Z2
         \/ x = 10 * y /\ S0 = 10 * Z0 /\ S1 = 10 * Z1 /\ S2 = 10 * Z2
  BY <1>2, <1>3, <1>4
<1>9. Reads(c * 10, e, f) <=> \/ S1 < 2 * x /\ 2 * x < S2
                              \/ IsEven(f) /\ 2 * x \in {S1, S2}
  BY <1>5
<1>10. Reads(c, e + 1, f) <=> \/ Z1 < 2 * y /\ 2 * y < Z2
                              \/ IsEven(f) /\ 2 * y \in {Z1, Z2}
  BY <1>6
<1>11. (x <= S0 <=> y <= Z0) /\ (Reads(c * 10, e, f) <=> Reads(c, e + 1, f))
  <2> HIDE DEF x, y, S0, S1, S2, Z0, Z1, Z2
  <2>. QED  BY <1>4, <1>7, <1>8, <1>9, <1>10
<1>. QED  BY <1>11

LEMMA ReadsShift ==
  ASSUME NEW f, Finite(f)
  PROVE  \A k \in Nat : \A e \in Int, c \in Nat :
           /\ Reads(c * TenTo[k], e, f) <=> Reads(c, e + k, f)
           /\ Scaled(c * TenTo[k], e) <= ScaledTo(Value(f), e)
                <=> Scaled(c, e + k) <= ScaledTo(Value(f), e + k)
<1> DEFINE P(k) == \A e \in Int, c \in Nat :
                     /\ Reads(c * TenTo[k], e, f) <=> Reads(c, e + k, f)
                     /\ Scaled(c * TenTo[k], e) <= ScaledTo(Value(f), e)
                          <=> Scaled(c, e + k) <= ScaledTo(Value(f), e + k)
           A == {k \in Nat : P(k)}
<1>1. 0 \in A
  <2>1. TenTo[0] = 1
    BY TenPower
  <2>2. \A e \in Int, c \in Nat : c * TenTo[0] = c /\ e + 0 = e
    BY <2>1
  <2>3. P(0)
    BY <2>2
  <2>. QED  BY <2>3
<1>2. ASSUME NEW k \in Nat, k \in A PROVE k + 1 \in A
  <2>1. P(k)
    BY <1>2
  <2>2. TenTo[k + 1] = 10 * TenTo[k] /\ TenTo[k] \in Nat
    BY TenPower
  <2>3. ASSUME NEW e \in Int, NEW c \in Nat
        PROVE  /\ Reads(c * TenTo[k + 1], e, f) <=> Reads(c, e + (k + 1), f)
               /\ Scaled(c * TenTo[k + 1], e) <= ScaledTo(Value(f), e)
                    <=> Scaled(c, e + (k + 1)) <= ScaledTo(Value(f), e + (k + 1))
    <3>1. c * TenTo[k + 1] = (c * TenTo[k]) * 10 /\ c * TenTo[k] \in Nat
      BY <2>2
    <3>2. e + 1 \in Int /\ (e + 1) + k = e + (k + 1)
      OBVIOUS
    <3>3. /\ Reads((c * TenTo[k]) * 10, e, f) <=> Reads(c * TenTo[k], e + 1, f)
          /\ Scaled((c * TenTo[k]) * 10, e) <= ScaledTo(Value(f), e)
               <=> Scaled(c * TenTo[k], e + 1) <= ScaledTo(Value(f), e + 1)
      BY <3>1, ReadsNext
    <3>4. /\ Reads(c * TenTo[k], e + 1, f) <=> Reads(c, (e + 1) + k, f)
          /\ Scaled(c * TenTo[k], e + 1) <= ScaledTo(Value(f), e + 1)
               <=> Scaled(c, (e + 1) + k) <= ScaledTo(Value(f), (e + 1) + k)
      BY <2>1, <3>2
    <3>. QED  BY <3>1, <3>2, <3>3, <3>4
  <2>4. P(k + 1)
    BY <2>3
  <2>. QED  BY <2>4
<1> HIDE DEF A
<1>3. Nat \subseteq A
  BY <1>1, <1>2, Induction
<1>. QED  BY <1>3 DEF A

(* Nothing is read as a float but what is above zero. *)
LEMMA ZeroUnread ==
  ASSUME NEW f, Finite(f), NEW e \in Int
  PROVE  ~Reads(0, e, f)
<1> DEFINE lo == Value(Below(f)) + Value(f)
           hi == Value(f) + Value(Above(f))
<1>1. lo \in Int /\ hi \in Int
  BY SumsAre DEF Sums
<1>2. /\ FMant(f) \in Nat /\ FMant(f) >= 1 /\ Ulp(f) \in Nat /\ Ulp(f) > 0
      /\ hi = (2 * FMant(f) + 1) * Ulp(f)
      /\ lo = (2 * FMant(f) - 1) * Ulp(f) \/ 2 * lo = (4 * FMant(f) - 1) * Ulp(f)
  BY Significand, UlpIs, AboveIs, BelowIs
<1>3. \A x, y \in Nat : x >= 1 /\ y > 0 => (2 * x - 1) * y > 0 /\ (4 * x - 1) * y > 0
                                          /\ (2 * x + 1) * y > 0
  OBVIOUS
<1>4. lo > 0 /\ hi > 0
  <2>1. hi > 0
    BY <1>2, <1>3
  <2>2. lo > 0 \/ 2 * lo > 0
    BY <1>2, <1>3
  <2> HIDE DEF lo, hi
  <2>. QED  BY <1>1, <2>1, <2>2
<1>5. Tenths(e) \in Nat /\ Tenths(e) > 0 /\ Times(e) \in Nat /\ Base \in Nat
  BY PlaceIs, BaseIs
<1>6. Scaled(0, e) = 0
  BY <1>5 DEF Scaled, Base
<1>7. ScaledTo(lo, e) > 0 /\ ScaledTo(hi, e) > 0 /\ ScaledTo(lo, e) \in Int /\ ScaledTo(hi, e) \in Int
  <2> HIDE DEF lo, hi
  <2>. QED  BY <1>1, <1>4, <1>5 DEF ScaledTo
<1>8. Reads(0, e, f) => \/ ScaledTo(lo, e) < 2 * Scaled(0, e)
                        \/ 2 * Scaled(0, e) \in {ScaledTo(lo, e), ScaledTo(hi, e)}
  BY DEF Reads
<1> HIDE DEF lo, hi
<1>. QED  BY <1>6, <1>7, <1>8

(* What lies between a decimal that is read and the float is read too.     *)
LEMMA BetweenReads ==
  ASSUME NEW f, Finite(f), NEW e \in Int, NEW c \in Nat, NEW g \in Nat, c < g,
         Reads(c, e, f), Scaled(g, e) <= ScaledTo(Value(f), e)
  PROVE  Reads(g, e, f)
<1> DEFINE v  == Value(f)
           lo == Value(Below(f)) + Value(f)
           hi == Value(f) + Value(Above(f))
<1>1. v \in Int /\ lo \in Int /\ hi \in Int
  BY SumsAre DEF Sums
<1>2. 2 * v < hi
  <2>1. FMant(f) \in Nat /\ Ulp(f) \in Nat /\ Ulp(f) > 0
        /\ v = FMant(f) * Ulp(f) /\ hi = (2 * FMant(f) + 1) * Ulp(f)
    BY Significand, UlpIs, AboveIs
  <2>2. \A x, y \in Nat : y > 0 => 2 * (x * y) < (2 * x + 1) * y
    OBVIOUS
  <2>. QED  BY <2>1, <2>2
<1>3. Tenths(e) \in Nat /\ Tenths(e) > 0 /\ Times(e) \in Nat /\ Times(e) > 0
      /\ Base \in Nat /\ Base > 0
  BY PlaceIs, BaseIs
<1> DEFINE x == Scaled(c, e)
           y == Scaled(g, e)
           V == ScaledTo(v, e)
           L == ScaledTo(lo, e)
           H == ScaledTo(hi, e)
<1>4. 2 * V < H /\ V \in Int /\ L \in Int /\ H \in Int
  <2> HIDE DEF v, lo, hi
  <2>1. V \in Int /\ L \in Int /\ H \in Int
    BY <1>1, <1>3 DEF ScaledTo
  <2>2. \A i, j, t \in Int : t > 0 /\ 2 * i < j => 2 * (i * t) < j * t
    OBVIOUS
  <2>3. 2 * V < H
    BY <1>1, <1>2, <1>3, <2>2 DEF ScaledTo
  <2>. QED  BY <2>1, <2>3
<1>5. x < y /\ x \in Int /\ y \in Int
  <2>1. x = c * (Times(e) * Base) /\ y = g * (Times(e) * Base)
    BY <1>3 DEF Scaled, Base
  <2>2. Times(e) * Base \in Nat /\ Times(e) * Base > 0
    BY <1>3, Positive
  <2>3. \A i, j, t \in Nat : t > 0 /\ i < j => i * t < j * t
    OBVIOUS
  <2> HIDE DEF x, y
  <2>. QED  BY <2>1, <2>2, <2>3
<1>6. \/ L < 2 * x /\ 2 * x < H
      \/ 2 * x \in {L, H}
  BY DEF Reads
<1>7. y <= V
  OBVIOUS
<1>8. L < 2 * y /\ 2 * y < H
  <2> HIDE DEF x, y, V, L, H
  <2>. QED  BY <1>4, <1>5, <1>6, <1>7
<1>. QED  BY <1>8 DEF Reads

-----------------------------------------------------------------------------
(* The last round: the nearer of two multiples that are read. *)
LEMMA LastDigitBest ==
  ASSUME FormatInv, LastDigit
  PROVE  \E d \in 0..9 :
           /\ digits' = Append(digits, d)
           /\ Best(10 * Written(digits) + d, n - Len(digits) - 1, float)
           /\ digits = << >> => d # 0
<1>1. pc = "digits" /\ (Tc1 \/ Tc2)
      /\ digits' = Append(digits, IF ~Tc2 THEN D ELSE IF ~Tc1 THEN D + 1 ELSE Midpoint)
  BY DEF LastDigit, TakeDigit
<1>2. /\ s \in Nat /\ s > 0 /\ mPlus \in Nat /\ mPlus > 0 /\ mMinus \in Nat
      /\ mMinus > 0 /\ D \in 0..9 /\ Rest \in Nat /\ Rest < s
      /\ Tc2 => D + 1 \in 0..9
      /\ digits = << >> /\ D = 0 => Tc2 /\ ~Tc1
  BY <1>1, Round
<1> DEFINE G == 10 * Written(digits) + D
           q == n - Len(digits) - 1
           up == mPlus * 10
           down == mMinus * 10
<1>3. /\ Finite(float) /\ Written(digits) \in Nat /\ q \in Int /\ G \in Nat
      /\ Stands(float, G * s + Rest, s, up, down, q)
  <2>1. n - Len(digits) \in Int
    BY <1>1, RoundStands
  <2>. QED  BY <1>1, <2>1, RoundStands
<1>4. up \in Nat /\ up > 0 /\ down \in Nat /\ down > 0
  BY <1>2
<1>5. G % 2 = 0 <=> D % 2 = 0
  <2>1. \A x, y \in Nat : (10 * x + y) % 2 = 0 <=> y % 2 = 0
    OBVIOUS
  <2>2. D \in Nat
    BY <1>2
  <2>. QED  BY <1>3, <2>1, <2>2
<1>6. Tc1 <=> IF IsEven(float) THEN Rest <= down ELSE Rest < down
  BY DEF Tc1, CmpRoundDown, Even
<1>7. Tc2 <=> IF IsEven(float) THEN Rest + up >= s ELSE Rest + up > s
  BY DEF Tc2, CmpHigh, Even
<1> HIDE DEF G, q, up, down
<1>8. ASSUME Tc1, ~Tc2 \/ 2 * Rest < s \/ (2 * Rest = s /\ D % 2 = 0),
             digits' = Append(digits, D)
      PROVE  D \in 0..9 /\ digits' = Append(digits, D) /\ Best(10 * Written(digits) + D, q, float)
             /\ (digits = << >> => D # 0)
  <2>1. IF IsEven(float) THEN Rest <= down ELSE Rest < down
    BY <1>6, <1>8
  <2>2. \/ IF IsEven(float) THEN Rest + up < s ELSE Rest + up <= s
        \/ 2 * Rest < s \/ (2 * Rest = s /\ G % 2 = 0)
    BY <1>2, <1>4, <1>5, <1>7, <1>8
  <2>3. Best(G, q, float)
    BY <1>2, <1>3, <1>4, <2>1, <2>2, BestIsDown
  <2>. QED  BY <1>2, <1>8, <2>3 DEF G
<1>9. ASSUME Tc2, ~Tc1 \/ ~(2 * Rest < s \/ (2 * Rest = s /\ D % 2 = 0)),
             digits' = Append(digits, D + 1)
      PROVE  D + 1 \in 0..9 /\ digits' = Append(digits, D + 1)
             /\ Best(10 * Written(digits) + (D + 1), q, float) /\ D + 1 # 0
  <2>1. IF IsEven(float) THEN Rest + up >= s ELSE Rest + up > s
    BY <1>7, <1>9
  <2>2. \/ IF IsEven(float) THEN Rest > down ELSE Rest >= down
        \/ 2 * Rest > s \/ (2 * Rest = s /\ G % 2 # 0)
    BY <1>2, <1>4, <1>5, <1>6, <1>9
  <2>3. Best(G + 1, q, float)
    BY <1>2, <1>3, <1>4, <2>1, <2>2, BestIsUp
  <2>4. G + 1 = 10 * Written(digits) + (D + 1)
    BY <1>2, <1>3 DEF G
  <2>. QED  BY <1>2, <1>9, <2>3, <2>4
<1>10. CASE ~Tc2
  BY <1>1, <1>8, <1>10 DEF q
<1>11. CASE Tc2 /\ ~Tc1
  BY <1>1, <1>9, <1>11 DEF q
<1>12. CASE Tc2 /\ Tc1 /\ (2 * Rest < s \/ (2 * Rest = s /\ D % 2 = 0))
  BY <1>1, <1>8, <1>12 DEF q, Midpoint
<1>13. CASE Tc2 /\ Tc1 /\ ~(2 * Rest < s \/ (2 * Rest = s /\ D % 2 = 0))
  BY <1>1, <1>9, <1>13 DEF q, Midpoint
<1>. QED  BY <1>10, <1>11, <1>12, <1>13

(* No decimal that ends a place further up is read, and the digits so far  *)
(* are not above the float.                                                *)
LEMMA PlaceAbove ==
  ASSUME FormatInv, pc = "digits"
  PROVE  /\ \A c \in Nat : ~Reads(c, n - Len(digits), float)
         /\ Len(digits) >= 1 => Scaled(TenTo[Len(digits) - 1], n - Len(digits))
                                  <= ScaledTo(Value(float), n - Len(digits))
<1> DEFINE p == n - Len(digits)
           N == Written(digits)
<1>1. /\ r \in Nat /\ s \in Nat /\ s > 0 /\ mPlus \in Nat /\ mMinus \in Nat
      /\ digits \in Seq(0..9)
  BY Round
<1>2. /\ Finite(float) /\ N \in Nat /\ p \in Int /\ Len(digits) \in Nat
      /\ Stands(float, N * s + r, s, mPlus, mMinus, p)
  BY RoundStands
<1>3. ~CmpHigh(r + mPlus, s) /\ ~CmpRoundDown(r, mMinus) /\ (digits # << >> => digits[1] # 0)
  BY DEF FormatInv, NotOver, InDigits
<1>4. IF IsEven(float) THEN r + mPlus < s /\ r > mMinus ELSE r + mPlus <= s /\ r >= mMinus
  BY <1>1, <1>3 DEF CmpHigh, CmpRoundDown, Even
<1>5. \A c \in Nat : ~Reads(c, p, float)
  <2> HIDE DEF p, N
  <2>. QED  BY <1>1, <1>2, <1>4, NothingReads
<1>6. ASSUME Len(digits) >= 1
      PROVE  Scaled(TenTo[Len(digits) - 1], p) <= ScaledTo(Value(float), p)
  <2>1. digits \in Seq(Nat) /\ digits[1] # 0 /\ Len(digits) - 1 \in Nat
    <3>1. digits \in Seq(Nat) /\ digits # << >>
      BY <1>1, <1>6
    <3>2. Len(digits) - 1 \in Nat
      BY <1>2, <1>6
    <3>. QED  BY <1>3, <3>1, <3>2
  <2> DEFINE t == TenTo[Len(digits) - 1]
             c == Times(p) * Base
             v == ScaledTo(Value(float), p)
  <2>2. N >= t /\ t \in Nat
    BY <1>6, <2>1, WrittenAtLeast, TenPower
  <2>3. Times(p) \in Nat /\ Base \in Nat /\ Tenths(p) \in Nat /\ c \in Nat
    <3>1. Times(p) \in Nat /\ Base \in Nat /\ Tenths(p) \in Nat
      BY <1>2, PlaceIs, BaseIs
    <3>. QED  BY <3>1
  <2>4. v \in Int
    <3>1. Value(float) \in Int
      BY <1>2, SumsAre DEF Sums
    <3>. QED  BY <2>3, <3>1 DEF ScaledTo
  <2>5. v * s = (N * s + r) * c
    BY <1>2 DEF Stands
  <2>6. Scaled(t, p) = t * c
    BY <2>2, <2>3 DEF Scaled, Base
  <2> HIDE DEF t, c, v, N, p
  <2>7. (N * s + r) * c >= (t * c) * s
    <3>1. N * s + r >= t * s /\ N * s + r \in Nat /\ t * s \in Nat
      <4>1. \A x, y, z, w \in Nat : x >= y => x * z + w >= y * z /\ x * z + w \in Nat /\ y * z \in Nat
        OBVIOUS
      <4>. QED  BY <1>1, <1>2, <2>2, <4>1
    <3>2. \A x, y, z \in Nat : x >= y => x * z >= y * z
      OBVIOUS
    <3>3. (t * s) * c = (t * c) * s
      BY <1>1, <2>2, <2>3
    <3>. QED  BY <2>3, <3>1, <3>2, <3>3
  <2>8. t * c \in Nat /\ \A x, y \in Int : x * s >= y * s => x >= y
    BY <1>1, <2>2, <2>3
  <2>9. t * c <= v
    BY <2>4, <2>5, <2>7, <2>8
  <2>. QED  BY <2>6, <2>9 DEF t, v
<1>. QED  BY <1>5, <1>6

LEMMA LastDigitKeeps == ASSUME FormatInv, LastDigit PROVE FormatInv'
<1>1. /\ pc = "digits" /\ pc' = "normalize"
      /\ r' = Rest /\ mPlus' = mPlus * 10 /\ mMinus' = mMinus * 10
      /\ float' = float /\ s' = s /\ n' = n /\ class' = class
  BY DEF LastDigit, TakeDigit
<1>2. /\ s \in Nat /\ s > 0 /\ mPlus \in Nat /\ mMinus \in Nat /\ n \in Int
      /\ digits \in Seq(0..9) /\ Len(digits) <= MaxDigits - 1 /\ Rest \in Nat
  BY <1>1, Round
<1>3. /\ Finite(float) /\ Written(digits) \in Nat /\ n - Len(digits) \in Int /\ Len(digits) \in Nat
  BY <1>1, RoundStands
<1>4. /\ class = None /\ FormatTypeOK /\ (mPlus = mMinus \/ mPlus = 2 * mMinus)
      /\ digits # << >> => digits[1] # 0
  BY <1>1 DEF FormatInv, Exact, AtWork, InDigits
<1>5. PICK d \in 0..9 :
        /\ digits' = Append(digits, d)
        /\ Best(10 * Written(digits) + d, n - Len(digits) - 1, float)
        /\ digits = << >> => d # 0
  BY LastDigitBest
<1>6. /\ digits' \in Seq(0..9) /\ Len(digits') = Len(digits) + 1 /\ digits' # << >>
      /\ digits'[1] # 0 /\ digits'[Len(digits')] = d
      /\ Written(digits') = 10 * Written(digits) + d
  <2>1. digits' \in Seq(0..9) /\ Len(digits') = Len(digits) + 1 /\ digits' # << >>
        /\ digits'[Len(digits')] = d
    BY <1>2, <1>3, <1>5
  <2>2. digits'[1] # 0
    <3>1. digits = << >> \/ Len(digits) >= 1
      BY <1>2
    <3>. QED  BY <1>2, <1>4, <1>5, <3>1
  <2>3. digits \in Seq(Nat) /\ d \in Nat
    BY <1>2
  <2>. QED  BY <1>5, <2>1, <2>2, <2>3, WrittenGrows
<1>7. FormatTypeOK'
  <2>1. Len(digits') <= MaxDigits /\ mPlus' \in Nat /\ mMinus' \in Nat
        /\ mPlus' \in {mMinus', 2 * mMinus'}
    BY <1>1, <1>2, <1>3, <1>4, <1>6, FormatAssumption
  <2>. QED  BY <1>1, <1>2, <1>4, <1>6, <2>1 DEF FormatTypeOK
<1> DEFINE q == n - Len(digits) - 1
<1>8. q \in Int /\ LastPlace' = q /\ q + 1 = n - Len(digits) /\ Len(digits') - 2 = Len(digits) - 1
  BY <1>1, <1>2, <1>3, <1>6 DEF LastPlace
<1>9. \A c \in Nat : ~Reads(c, q + 1, float)
  BY <1>1, <1>8, PlaceAbove
<1>10. Len(digits') >= 2 => Scaled(TenTo[Len(digits') - 2], q + 1) <= ScaledTo(Value(float), q + 1)
  <2>1. Len(digits') >= 2 => Len(digits) >= 1
    BY <1>3, <1>6
  <2>. QED  BY <1>1, <1>8, <2>1, PlaceAbove
<1>11. Best(Written(digits'), q, float)
  BY <1>5, <1>6
<1>12. digits'[Len(digits')] # 0
  <2> SUFFICES ASSUME d = 0 PROVE FALSE
    BY <1>6
  <2>1. Written(digits') = Written(digits) * 10
    BY <1>3, <1>6
  <2>2. Reads(Written(digits) * 10, q, float)
    BY <1>11, <2>1 DEF Best
  <2>3. Reads(Written(digits), q + 1, float)
    BY <1>3, <1>8, <2>2, ReadsNext
  <2>. QED  BY <1>3, <1>9, <2>3
<1>13. Right(digits', LastPlace', float')
  <2> HIDE DEF q
  <2>. QED  BY <1>1, <1>3, <1>6, <1>8, <1>9, <1>10, <1>11, <1>12 DEF Right
<1>. QED  BY <1>1, <1>4, <1>7, <1>13
          DEF FormatInv, Exact, AtWork, Scaling, Estimated, NotOver, InDigits, Unfailed, Found

LEMMA NormalizeKeeps == ASSUME FormatInv, Normalize PROVE FormatInv'
<1>1. /\ pc = "normalize" /\ pc' = "layout" /\ float' = float /\ class' = class
      /\ r' = r /\ s' = s /\ mPlus' = mPlus /\ mMinus' = mMinus
      /\ digits' = Stripped(Carried(digits)) /\ n' = n + Carries(digits)[Len(digits)]
  BY DEF Normalize, state
<1>2. FormatTypeOK /\ class = None /\ Right(digits, LastPlace, float)
  BY <1>1 DEF FormatInv, Unfailed, Found
<1>3. digits \in Seq(0..9) /\ digits # << >> /\ digits[Len(digits)] # 0 /\ n \in Int
  BY <1>2 DEF FormatTypeOK, Right
<1>4. Len(digits) >= 1
  BY <1>3
<1>5. digits' = digits /\ n' = n
  <2>1. Carried(digits) = digits /\ Carries(digits)[Len(digits)] = 0
    BY <1>3, CarriedIs
  <2>2. Stripped(digits) = digits
    BY <1>3, <1>4, StrippedIs
  <2>. QED  BY <1>1, <1>3, <2>1, <2>2
<1>6. FormatTypeOK'
  BY <1>1, <1>2, <1>5 DEF FormatTypeOK
<1>7. LastPlace' = LastPlace
  BY <1>5 DEF LastPlace
<1>. QED  BY <1>1, <1>2, <1>5, <1>6, <1>7
          DEF FormatInv, Exact, AtWork, Scaling, Estimated, NotOver, InDigits, Unfailed, Found

LEMMA LayoutKeeps == ASSUME FormatInv, Layout PROVE FormatInv'
<1>1. /\ pc = "layout" /\ pc' = "done" /\ float' = float /\ class' = class
      /\ r' = r /\ s' = s /\ mPlus' = mPlus /\ mMinus' = mMinus
      /\ digits' = digits /\ n' = n
  BY DEF Layout, state
<1>2. FormatTypeOK /\ class = None /\ Right(digits, LastPlace, float)
  BY <1>1 DEF FormatInv, Unfailed, Found
<1>3. FormatTypeOK'
  BY <1>1, <1>2 DEF FormatTypeOK
<1>4. LastPlace' = LastPlace
  BY <1>1 DEF LastPlace
<1>. QED  BY <1>1, <1>2, <1>3, <1>4
          DEF FormatInv, Exact, AtWork, Scaling, Estimated, NotOver, InDigits, Unfailed, Found

-----------------------------------------------------------------------------
LEMMA FormatInitInv == FormatInit => FormatInv
<1> SUFFICES ASSUME FormatInit PROVE FormatInv
  OBVIOUS
<1>1. float \in Float /\ IsZero(float) /\ pc = "done" /\ digits = << >> /\ class = None
      /\ r = 0 /\ s = 0 /\ mPlus = 0 /\ mMinus = 0 /\ n = 0
  BY FloatsAssumption DEF FormatInit
<1>2. << >> \in Seq(0..9) /\ Len(<< >>) = 0 /\ 0 <= MaxDigits
  BY FormatAssumption
<1>3. FormatTypeOK
  BY <1>1, <1>2 DEF FormatTypeOK
<1>. QED  BY <1>1, <1>3
          DEF FormatInv, Exact, AtWork, Scaling, Estimated, NotOver, InDigits, Unfailed, Found, Formatted

LEMMA FormatNextInv == FormatInv /\ [FormatNext]_formatVars => FormatInv'
<1> SUFFICES ASSUME FormatInv, [FormatNext]_formatVars PROVE FormatInv'
  OBVIOUS
<1>1. CASE \E f \in Floats : Refuse(f) \/ FormatZero(f) \/ InitScaledState(f)
  BY <1>1, RefuseKeeps, FormatZeroKeeps, InitScaledStateKeeps
<1>2. CASE Scale
  BY <1>2, ScaleKeeps
<1>3. CASE HighFixup
  BY <1>3, HighFixupKeeps
<1>4. CASE LowFixup
  BY <1>4, LowFixupKeeps
<1>5. CASE LowFixed
  BY <1>5, LowFixedKeeps
<1>6. CASE NextDigit
  BY <1>6, NextDigitKeeps
<1>7. CASE LastDigit
  BY <1>7, LastDigitKeeps
<1>8. CASE Normalize
  BY <1>8, NormalizeKeeps
<1>9. CASE Layout
  BY <1>9, LayoutKeeps
<1>10. CASE UNCHANGED formatVars
  <2>1. /\ pc' = pc /\ float' = float /\ class' = class /\ r' = r /\ s' = s
        /\ mPlus' = mPlus /\ mMinus' = mMinus /\ digits' = digits /\ n' = n
    BY <1>10 DEF formatVars
  <2>2. FormatTypeOK'
    BY <2>1 DEF FormatInv, FormatTypeOK
  <2>. QED  BY <2>1, <2>2
            DEF FormatInv, Exact, AtWork, Place, Total, Scaling, Estimated, NotOver, InDigits,
                CmpHigh, CmpRoundDown, Even, Unfailed, Found, Formatted, LastPlace
<1>. QED  BY <1>1, <1>2, <1>3, <1>4, <1>5, <1>6, <1>7, <1>8, <1>9, <1>10 DEF FormatNext

(* The arithmetic keeps its exact reading of the float through every step  *)
(* of FormatDouble, whatever the pooled state held before.                 *)
THEOREM FormatInvariant == FormatSpec => []FormatInv
BY FormatInitInv, FormatNextInv, PTL DEF FormatSpec

(* digitBuf is never outgrown: a float has at most MaxDigits digits, and   *)
(* none of them is ten, so that normalizeDigitBuffer never carries.        *)
THEOREM FormatTypeCorrect == FormatSpec => []FormatTypeOK
<1>1. FormatInv => FormatTypeOK
  BY DEF FormatInv
<1>. QED  BY <1>1, FormatInvariant, PTL

(* What FormatDouble writes is read back as the float it was given.        *)
THEOREM DigitsRoundTrip == FormatSpec => []RoundTrips
<1>1. FormatInv => RoundTrips
  BY DEF FormatInv, Found, Right, Best, RoundTrips
<1>. QED  BY <1>1, FormatInvariant, PTL

(* Of the decimals with the same last place that are read as the float it  *)
(* writes the nearest, and the even one of two as near.                    *)
THEOREM DigitsNearest == FormatSpec => []Nearest
<1>1. FormatInv => Nearest
  <2> SUFFICES ASSUME FormatInv, Formatted PROVE Nearest
    BY DEF Nearest
  <2>1. Best(Written(digits), LastPlace, float)
    BY DEF FormatInv, Found, Right
  <2>2. \A d \in 0..(TenTo[Len(digits)] - 1) : d \in Nat
    <3>1. Len(digits) \in Nat
      BY FormatTypes DEF FormatInv
    <3>2. TenTo[Len(digits)] \in Nat
      BY <3>1, TenPower
    <3>. QED  BY <3>2
  <2>. QED  BY <2>1, <2>2 DEF Nearest, Best
<1>. QED  BY <1>1, FormatInvariant, PTL

LEMMA ShortestIs ==
  ASSUME NEW f, NEW ds \in Seq(0..9), NEW e \in Int, Right(ds, e, f),
         NEW i \in Int, NEW d \in 0..(TenTo[Len(ds) - 1] - 1)
  PROVE  ~Reads(d, e + i, f)
<1> SUFFICES ASSUME Reads(d, e + i, f) PROVE FALSE
  OBVIOUS
<1>1. /\ Finite(f) /\ ds # << >> /\ \A c \in Nat : ~Reads(c, e + 1, f)
      /\ Len(ds) >= 2 => Scaled(TenTo[Len(ds) - 2], e + 1) <= ScaledTo(Value(f), e + 1)
  BY DEF Right
<1>2. Len(ds) \in Nat /\ Len(ds) >= 1 /\ Len(ds) - 1 \in Nat
  BY <1>1
<1>3. TenTo[Len(ds) - 1] \in Nat /\ d \in Nat /\ d < TenTo[Len(ds) - 1]
  <2>1. TenTo[Len(ds) - 1] \in Nat
    BY <1>2, TenPower
  <2>. QED  BY <2>1
<1>4. CASE i >= 1
  <2>1. i - 1 \in Nat /\ (e + 1) + (i - 1) = e + i /\ e + 1 \in Int
    BY <1>4
  <2>2. TenTo[i - 1] \in Nat /\ d * TenTo[i - 1] \in Nat
    <3>1. TenTo[i - 1] \in Nat
      BY <2>1, TenPower
    <3>. QED  BY <1>3, <3>1, Positive
  <2>3. Reads(d * TenTo[i - 1], e + 1, f) <=> Reads(d, (e + 1) + (i - 1), f)
    BY <1>1, <1>3, <2>1, ReadsShift
  <2>. QED  BY <1>1, <2>1, <2>2, <2>3
<1>5. CASE i < 1 /\ Len(ds) = 1
  <2>1. d = 0 /\ e + i \in Int
    <3>1. TenTo[Len(ds) - 1] = 1
      BY <1>5, TenPower
    <3>. QED  BY <1>3, <3>1
  <2>. QED  BY <1>1, <2>1, ZeroUnread
<1>6. CASE i < 1 /\ Len(ds) >= 2
  <2> DEFINE t == TenTo[Len(ds) - 2]
             j == 1 - i
             u == TenTo[j]
  <2>1. /\ Len(ds) - 2 \in Nat /\ j \in Nat /\ j - 1 \in Nat /\ (e + i) + j = e + 1 /\ e + i \in Int
        /\ Len(ds) - 1 = (Len(ds) - 2) + 1 /\ j = (j - 1) + 1
    BY <1>2, <1>6
  <2>2. t \in Nat /\ TenTo[Len(ds) - 1] = 10 * t
    BY <2>1, TenPower
  <2>3. u \in Nat /\ u >= 10
    <3>1. u = 10 * TenTo[j - 1] /\ TenTo[j - 1] \in Nat /\ TenTo[j - 1] > 0
      BY <2>1, TenPower
    <3>. QED  BY <3>1
  <2>4. Scaled(t, e + 1) <= ScaledTo(Value(f), e + 1)
    BY <1>1, <1>6
  <2>5. /\ Reads(t * u, e + i, f) <=> Reads(t, (e + i) + j, f)
        /\ Scaled(t * u, e + i) <= ScaledTo(Value(f), e + i)
             <=> Scaled(t, (e + i) + j) <= ScaledTo(Value(f), (e + i) + j)
    <3> HIDE DEF t, j
    <3>. QED  BY <1>1, <2>1, <2>2, ReadsShift
  <2> HIDE DEF t, j, u
  <2>6. t * u \in Nat /\ d < t * u
    <3>1. \A x, y \in Nat : y >= 10 => 10 * x <= x * y /\ x * y \in Nat
      OBVIOUS
    <3>2. 10 * t <= t * u /\ t * u \in Nat
      BY <2>2, <2>3, <3>1
    <3>. QED  BY <1>3, <2>2, <3>2
  <2>7. Scaled(t * u, e + i) <= ScaledTo(Value(f), e + i)
    BY <2>1, <2>4, <2>5
  <2>8. Reads(t * u, e + i, f)
    BY <1>1, <1>3, <2>1, <2>6, <2>7, BetweenReads
  <2>9. Reads(t, e + 1, f)
    BY <2>1, <2>5, <2>8
  <2>. QED  BY <1>1, <2>2, <2>9
<1>7. Len(ds) = 1 \/ Len(ds) >= 2
  <2>1. \A x \in Nat : x >= 1 => x = 1 \/ x >= 2
    OBVIOUS
  <2>. QED  BY <1>2, <2>1
<1>8. i >= 1 \/ i < 1
  OBVIOUS
<1>. QED  BY <1>4, <1>5, <1>6, <1>7, <1>8

(* No decimal of fewer digits, wherever its point is, is read as the float.*)
THEOREM DigitsShortest == FormatSpec => []Shortest
<1>1. FormatInv => Shortest
  <2> SUFFICES ASSUME FormatInv, Formatted PROVE Shortest
    BY DEF Shortest
  <2>1. Right(digits, LastPlace, float)
    BY DEF FormatInv, Found
  <2>2. digits \in Seq(0..9) /\ LastPlace \in Int
    BY FormatTypes DEF FormatInv, LastPlace
  <2>3. \A i \in Places : i \in Int
    BY FormatAssumption
  <2>. QED  BY <2>1, <2>2, <2>3, ShortestIs DEF Shortest
<1>. QED  BY <1>1, FormatInvariant, PTL
=============================================================================
