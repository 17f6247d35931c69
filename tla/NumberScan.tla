----------------------------- MODULE NumberScan -----------------------------
(***************************************************************************)
(* parseNumber of jcstoken/token.go: the number grammar stage by stage,    *)
(* the length limit that is checked inside the digit loops and once more   *)
(* at the end, and the classification of the value (overflow, negative     *)
(* zero, underflow) in the order the code tests it.                        *)
(***************************************************************************)
EXTENDS Integers, Sequences, SequencesExt, Jcserr

CONSTANTS Inputs,           \* the texts, from the first byte of the number on
          MaxNumberChars,   \* p.maxNumberChars
          MaxOrder,         \* decimal order above which ParseFloat gives Inf
          MinOrder          \* decimal order below which it gives 0

Digits == {"0", "1", "2"}
Char   == Digits \cup {"-", "+", ".", "e", "other"}

ASSUME MaxAssumption    == MaxNumberChars \in Nat \ {0}
ASSUME InputsAssumption == Inputs \subseteq Seq(Char)
ASSUME OrderAssumption  == MaxOrder \in Int /\ MinOrder \in Int /\ MinOrder < MaxOrder

VARIABLES data, pos, stage,
          next,      \* the stage after the digit loop that is running
          verdict

vars == <<data, pos, stage, next, verdict>>

Stage   == {"sign", "int", "digits", "frac", "exp", "final", "done"}
Verdict == [class : FailureClass \cup {None}, at : Nat]

End       == Len(data) + 1
At(i)     == IF i < End THEN data[i] ELSE None
IsDigit(i) == At(i) \in Digits

(* the characters of the token read so far: numStart is 1 *)
Scanned == pos - 1

Reject(cause, at) ==
  /\ verdict' = [class |-> cause, at |-> at]
  /\ stage' = "done"
  /\ UNCHANGED <<data, next>>

GoTo(after) == stage' = after /\ UNCHANGED <<data, next, verdict>>

EnterDigits(after) ==
  /\ stage' = "digits"
  /\ next' = after
  /\ UNCHANGED <<data, verdict>>

-----------------------------------------------------------------------------
Sign ==
  /\ stage = "sign"
  /\ pos' = IF At(pos) = "-" THEN pos + 1 ELSE pos
  /\ GoTo("int")

(* scanIntegerPart *)
Zero ==
  /\ stage = "int"
  /\ At(pos) = "0"
  /\ pos' = pos + 1
  /\ IF IsDigit(pos + 1) THEN Reject("InvalidGrammar", pos + 1) ELSE GoTo("frac")

NonZero ==
  /\ stage = "int"
  /\ IsDigit(pos) /\ At(pos) # "0"
  /\ UNCHANGED pos
  /\ EnterDigits("frac")

NoInteger ==
  /\ stage = "int"
  /\ ~IsDigit(pos)
  /\ UNCHANGED pos
  /\ Reject("InvalidGrammar", pos)

(* Fault: the digit loops do not look at the limit. *)
UnboundedDigit == TRUE

WithinLimit == Scanned + 1 <= MaxNumberChars

(* One digit of a digit loop: the limit is checked after it is consumed. *)
Digit ==
  /\ stage = "digits"
  /\ IsDigit(pos)
  /\ pos' = pos + 1
  /\ IF WithinLimit THEN UNCHANGED <<data, stage, next, verdict>>
     ELSE Reject("BoundExceeded", 1)

DigitsEnd ==
  /\ stage = "digits"
  /\ ~IsDigit(pos)
  /\ UNCHANGED pos
  /\ GoTo(next)

(* scanFractionPart *)
Fraction ==
  /\ stage = "frac"
  /\ At(pos) = "."
  /\ pos' = pos + 1
  /\ IF IsDigit(pos + 1) THEN EnterDigits("exp") ELSE Reject("InvalidGrammar", pos + 1)

NoFraction ==
  /\ stage = "frac"
  /\ At(pos) # "."
  /\ UNCHANGED pos
  /\ GoTo("exp")

(* Fault: the byte after 'e' is taken for a sign without a look at it. *)
SignLenAlways(i) == 1

SignLen(i) == IF At(i) \in {"+", "-"} THEN 1 ELSE 0

(* scanExponentPart *)
Exponent ==
  /\ stage = "exp"
  /\ At(pos) = "e"
  /\ pos' = pos + 1 + SignLen(pos + 1)
  /\ IF IsDigit(pos + 1 + SignLen(pos + 1)) THEN EnterDigits("final")
     ELSE Reject("InvalidGrammar", pos + 1 + SignLen(pos + 1))

NoExponent ==
  /\ stage = "exp"
  /\ At(pos) # "e"
  /\ UNCHANGED pos
  /\ GoTo("final")

-----------------------------------------------------------------------------
Raw == SubSeq(data, 1, Scanned)

DigitValue(c) == IF c = "1" THEN 1 ELSE IF c = "2" THEN 2 ELSE 0

(* the value of the digits among the first i characters, for every i *)
Values(w) == LET u[i \in 0..Len(w)] ==
                   IF i = 0 THEN 0
                   ELSE IF w[i] \in Digits THEN 10 * u[i - 1] + DigitValue(w[i]) ELSE u[i - 1]
             IN u
Number(w) == Values(w)[Len(w)]

(* strconv.ParseFloat, external: a non-zero decimal m * 10^e is Inf, 0 or  *)
(* finite by its decimal order; monotone as the real function, with the    *)
(* thresholds of a small format.                                           *)
Mark(w)     == SelectInSeq(w, LAMBDA c : c = "e")
Mantissa(w) == IF Mark(w) = 0 THEN w ELSE SubSeq(w, 1, Mark(w) - 1)
Exp10(w)    == IF Mark(w) = 0 THEN 0
               ELSE LET x == SubSeq(w, Mark(w) + 1, Len(w)) IN
                    IF x[1] = "-" THEN -Number(x) ELSE Number(x)
Fractional(m) == LET d == SelectInSeq(m, LAMBDA c : c = ".") IN
                 IF d = 0 THEN 0 ELSE Len(m) - d
IntDigits(w) == SelectSeq(Mantissa(w), LAMBDA c : c \in Digits)
Significant(w) == LET z == SelectInSeq(IntDigits(w), LAMBDA c : c # "0") IN
                  IF z = 0 THEN 0 ELSE Len(IntDigits(w)) - z + 1
Order(w) == Significant(w) - Fractional(Mantissa(w)) + Exp10(w)

ParseFloat(w) == IF Number(Mantissa(w)) = 0 THEN "zero"
                 ELSE IF Order(w) > MaxOrder THEN "inf"
                 ELSE IF Order(w) < MinOrder THEN "zero" ELSE "finite"

(* Fault: the digits of the exponent count as well. *)
TokenZeroWholeToken(w) == \A i \in 1..Len(w) : w[i] \notin Digits \ {"0"}

(* tokenRepresentsZero: no non-zero digit before the exponent mark *)
TokenRepresentsZero(w) == \A i \in 1..Len(Mantissa(w)) : w[i] \notin Digits \ {"0"}

(* buildNumberValue: overflow, then negative zero, then underflow *)
ValueClass(w) == IF ParseFloat(w) = "inf" THEN "NumberOverflow"
                 ELSE IF w[1] = "-" /\ TokenRepresentsZero(w) THEN "NumberNegZero"
                 ELSE IF ParseFloat(w) = "zero" /\ ~TokenRepresentsZero(w) THEN "NumberUnderflow"
                 ELSE None

Build ==
  /\ stage = "final"
  /\ UNCHANGED pos
  /\ Reject(IF Scanned > MaxNumberChars THEN "BoundExceeded" ELSE ValueClass(Raw), 1)

-----------------------------------------------------------------------------
Init ==
  /\ data \in Inputs
  /\ pos = 1
  /\ stage = "sign"
  /\ next = "frac"
  /\ verdict = [class |-> None, at |-> 0]

Next == \/ Sign \/ Zero \/ NonZero \/ NoInteger \/ Digit \/ DigitsEnd
        \/ Fraction \/ NoFraction \/ Exponent \/ NoExponent \/ Build

Spec == Init /\ [][Next]_vars /\ WF_vars(Next)

-----------------------------------------------------------------------------
TypeOK ==
  /\ data \in Seq(Char)
  /\ pos \in 1..End
  /\ stage \in Stage
  /\ next \in Stage
  /\ verdict \in Verdict

(* A number, however long its digits go on, is never scanned more than     *)
(* four characters past the limit (BOUND-NUMCHARS-001): sign, zero, mark   *)
(* and exponent sign are the ones no loop counts.                          *)
ScanWindow == Scanned <= MaxNumberChars + 4

(* The digit loops alone enforce the limit: the check that follows them,   *)
(* "for non-digit characters", can refuse only the token -0 under a limit  *)
(* of one, because every other token ends in a digit a loop has counted.   *)
LoopsSuffice == stage = "final" /\ MaxNumberChars > 1 => Scanned <= MaxNumberChars

-----------------------------------------------------------------------------
(* The outcome, stated on whole tokens with the grammar of NumberText.     *)
Ref == INSTANCE NumberText

Viable(w) == Ref!IsNumber(w) \/ Ref!IsNumber(Append(w, "1"))

(* the longest prefix of the text that can still become a number, and all  *)
(* of whose prefixes can                                                   *)
Prefix(k) == SubSeq(data, 1, k)
IsLongest(k) == /\ \A j \in 0..k : Viable(Prefix(j))
                /\ k < Len(data) => ~Viable(Prefix(k + 1))
Longest == CHOOSE k \in 0..Len(data) : IsLongest(k)
Token   == Prefix(Longest)

LeadingZero == Longest > 0 /\ Token[Longest] = "0" /\ IsDigit(Longest + 1)

IntegerZero(i) == data[i] = "0" /\ (i = 1 \/ (i = 2 /\ data[1] = "-"))

(* a digit loop meets a digit beyond the limit before anything is wrong *)
LoopHitsLimit == \E i \in 1..Longest :
                   i > MaxNumberChars /\ data[i] \in Digits /\ ~IntegerZero(i)

(* the exact class of a token, from its value *)
ExactClass ==
  IF Number(Mantissa(Token)) = 0 THEN (IF data[1] = "-" THEN "NumberNegZero" ELSE None)
  ELSE IF Order(Token) > MaxOrder THEN "NumberOverflow"
  ELSE IF Order(Token) < MinOrder THEN "NumberUnderflow" ELSE None

Expected ==
  IF LoopHitsLimit THEN "BoundExceeded"
  ELSE IF ~Ref!IsNumber(Token) \/ LeadingZero THEN "InvalidGrammar"
  ELSE IF Longest > MaxNumberChars THEN "BoundExceeded"
  ELSE ExactClass

(* The scanner takes the longest prefix in the grammar and gives the class *)
(* its length and exact value call for; a leading zero is not two numbers, *)
(* and a grammar error points at the first character that no number has    *)
(* there.                                                                  *)
MatchesGrammar ==
  stage = "done" => /\ verdict.class = Expected
                    /\ verdict.class = None => Raw = Token
                    /\ verdict.class = "InvalidGrammar" => verdict.at = Longest + 1
=============================================================================
