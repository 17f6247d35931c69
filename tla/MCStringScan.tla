---------------------------- MODULE MCStringScan ----------------------------
(***************************************************************************)
(* Model checking of StringScan: the texts are all of at most three units  *)
(* and every edit of one unit of strings with escapes and surrogate pairs; *)
(* the outcome is compared with StringText.                                *)
(***************************************************************************)
EXTENDS StringScan

U(k, c) == [kind |-> k, cp |-> c]

Q   == U("quote", 34)
BS  == U("backslash", 92)
LU  == U("u", 117)
Nl  == U("simple", 10)
X   == U("plain", 120)
E2  == U("rune", 233)         \* two bytes
NC  == U("rune", 65534)       \* FFFE, a noncharacter
Hi  == U("quad", 55356)       \* D83C
HiF == U("quad", 55359)       \* D83F
Lo  == U("quad", 57343)       \* DFFF: with HiF the noncharacter 1FFFF
QA  == U("quad", 65)
QN  == U("quad", 64976)       \* FDD0, a noncharacter

Alphabet == {Q, BS, LU, Nl, X, E2, NC, U("ctrl", 1), Hi, HiF, Lo, QA, QN}

Documents ==
  { <<X, X, BS, LU, Hi, BS, LU, U("quad", 57088), Q>>,
    <<BS, LU, HiF, BS, LU, U("quad", 57088), X, Q>>,
    <<BS, LU, QA, BS, Nl, BS, BS, E2, Q>>,
    <<X, X, X, X, X, E2, Q>>,
    <<X, X, X, X, BS, Q, Q>> }

Edits(d) ==
  {RemoveAt(d, i) : i \in 1..Len(d)}
    \cup {ReplaceAt(d, i, u) : i \in 1..Len(d), u \in Alphabet}
    \cup {InsertAt(d, i, u) : i \in 1..(Len(d) + 1), u \in Alphabet}

MCInputs == UNION {Edits(d) : d \in Documents} \cup BoundedSeq(Alphabet, 3)

=============================================================================
