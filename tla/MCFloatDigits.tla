--------------------------- MODULE MCFloatDigits ---------------------------
(***************************************************************************)
(* Model checking of FloatDigits on all floats of a format with five bits  *)
(* of significand, subnormals included; a few of them negative.  The       *)
(* estimate may be off by a sixteenth of the value, so that it is wrong    *)
(* for the neighbours of powers of ten.                                    *)
(***************************************************************************)
EXTENDS FloatDigits, FiniteSetsExt

NT == INSTANCE NumberText
        WITH Digits <- {"0", "1", "2", "3", "4", "5", "6", "7", "8", "9"}

MCFloats ==
  [negative : {FALSE}, biased : 0..MaxBiased, mantissa : 0..(Hidden - 1)]
    \cup [negative : {TRUE}, biased : {0, 6, MaxBiased}, mantissa : {0, 5}]
MCMinExp    == -9
MCExponents == -3..4
MCPlaces    == -1..3

-----------------------------------------------------------------------------
(* A number token as its digits and the place of its point: neither zeros  *)
(* in front nor behind.                                                    *)
IndexOf(c, t) == CHOOSE i \in 1..(Len(t) + 1) : /\ \A j \in 1..(i - 1) : t[j] # c
                                                /\ i <= Len(t) => t[i] = c
Digit10(c) == CHOOSE d \in 0..9 : DigitChar(d) = c

ReadNumber(t) ==
  LET minus == t[1] = "-"
      body  == IF minus THEN Tail(t) ELSE t
      e     == IndexOf("e", body)
      exp   == SubSeq(body, e + 1, Len(body))
      mant  == SubSeq(body, 1, e - 1)
      point == IndexOf(".", mant)
      all   == [i \in 1..Len(SelectSeq(mant, LAMBDA c : c # ".")) |->
                  Digit10(SelectSeq(mant, LAMBDA c : c # ".")[i])]
      first == CHOOSE i \in 1..Len(all) : all[i] # 0 /\ \A j \in 1..(i - 1) : all[j] = 0
      abs(x) == Written([i \in 1..Len(x) |-> Digit10(x[i])])
  IN [negative |-> minus,
      digits   |-> Stripped(SubSeq(all, first, Len(all))),
      point    |-> point - first + (IF exp = << >> THEN 0
                                    ELSE IF exp[1] = "-" THEN -abs(Tail(exp))
                                    ELSE IF exp[1] = "+" THEN abs(Tail(exp)) ELSE abs(exp))]

(* A JSON number that has no other spelling with or without an exponent,   *)
(* as it has one or not: no zero ends its fraction; before an exponent one *)
(* digit stands before the point, not a zero, and the exponent has its     *)
(* sign and no zero in front.                                              *)
OnlySpelling(t) ==
  LET body == IF t[1] = "-" THEN Tail(t) ELSE t
      e    == IndexOf("e", body)
      mant == SubSeq(body, 1, e - 1)
  IN /\ "." \in ToSet(mant) => Last(mant) # "0"
     /\ e <= Len(body) =>
          /\ mant[1] # "0" /\ (Len(mant) = 1 \/ mant[2] = ".")
          /\ body[e + 1] \in {"+", "-"} /\ body[e + 2] # "0"

(* The layout writes the one text that ECMA-262 asks for, not only where   *)
(* the point falls for these floats but wherever a line is drawn: it is a  *)
(* JSON number that denotes exactly the digits with their point, it has an *)
(* exponent only from 10^21 on and below 10^-6, and there is no other such *)
(* spelling of it (ECMA-FMT-004 to 007, 010 and 012).                      *)
LayoutDenotes ==
  /\ pc = "done" /\ class = None => NT!IsNumber(text)
  /\ Formatted =>
       /\ text = FormatECMA(float.negative, digits, n)
       /\ \A m \in -12..25 :
            LET t == FormatECMA(float.negative, digits, m) IN
            /\ NT!IsNumber(t) /\ OnlySpelling(t)
            /\ ReadNumber(t) = [negative |-> float.negative, digits |-> digits, point |-> m]
            /\ (\E i \in 1..Len(t) : t[i] = "e") <=> m > 21 \/ m < -5
=============================================================================
