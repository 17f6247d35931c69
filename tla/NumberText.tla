----------------------------- MODULE NumberText -----------------------------
(***************************************************************************)
(* What a JSON number is (RFC 8259 section 6), stated on whole tokens: the *)
(* reference for the number scanner and for what the formatter writes.  A  *)
(* number is cut in three: before f the integer, before x the fraction,    *)
(* and the exponent.                                                       *)
(***************************************************************************)
EXTENDS Integers, Sequences

CONSTANT Digits

AllDigits(s, i, j) == i <= j /\ \A k \in i..j : s[k] \in Digits

IsInt(s, f) == \E i \in {1, 2} : /\ AllDigits(s, i, f - 1)
                                 /\ i = 2 => s[1] = "-"
                                 /\ s[i] = "0" => f = i + 1

IsFraction(s, f, x) == f = x \/ (s[f] = "." /\ AllDigits(s, f + 1, x - 1))

IsExponent(s, x) ==
  \/ x = Len(s) + 1
  \/ /\ s[x] = "e"
     /\ \E d \in {x + 1, x + 2} : /\ AllDigits(s, d, Len(s))
                                  /\ d = x + 2 => s[x + 1] \in {"+", "-"}

IsNumber(s) ==
  \E f \in 1..(Len(s) + 1) : \E x \in f..(Len(s) + 1) :
     IsInt(s, f) /\ IsFraction(s, f, x) /\ IsExponent(s, x)
=============================================================================
