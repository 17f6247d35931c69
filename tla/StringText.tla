----------------------------- MODULE StringText -----------------------------
(***************************************************************************)
(* What a JSON string decodes to, stated on whole texts: a string is       *)
(* characters, then a quote.  The reference for the scanner of StringScan  *)
(* and for what the serializer writes; a text is a sequence of StringScan's *)
(* units, after the opening quote.                                         *)
(***************************************************************************)
EXTENDS Integers, Sequences

None == "none"

KindAt(t, i) == IF i <= Len(t) THEN t[i].kind ELSE None

HexAt(t, i) == KindAt(t, i) = "backslash" /\ KindAt(t, i + 1) = "u" /\ KindAt(t, i + 2) = "quad"
Hex(t, i)   == t[i + 2].cp

Escaped(u) == CASE u.kind = "quote" -> 34 [] u.kind = "backslash" -> 92 [] OTHER -> u.cp
Bare(u)    == CASE u.kind = "quad" -> <<48, 48, 48, 48>> [] u.kind = "simple" -> <<110>>
                [] OTHER -> <<u.cp>>

High(h) == 55296 <= h /\ h < 56320
Low(h)  == 56320 <= h /\ h < 57344

(* A character: the number of its units and the code points it decodes to; *)
(* no unit if no character starts at i.                                    *)
CharAt(t, i) ==
  LET k == KindAt(t, i) IN
  IF k \in {"u", "simple", "plain", "rune", "quad"} THEN <<1, Bare(t[i])>>
  ELSE IF k = "backslash" /\ KindAt(t, i + 1) \in {"simple", "quote", "backslash"}
       THEN <<2, <<Escaped(t[i + 1])>> >>
  ELSE IF HexAt(t, i) /\ ~High(Hex(t, i)) /\ ~Low(Hex(t, i)) THEN <<3, <<Hex(t, i)>> >>
  ELSE IF HexAt(t, i) /\ HexAt(t, i + 3) /\ High(Hex(t, i)) /\ Low(Hex(t, i + 3))
       THEN <<6, <<65536 + (Hex(t, i) % 1024) * 1024 + (Hex(t, i + 3) % 1024)>> >>
  ELSE <<0, << >> >>

Allowed(rs) == \A j \in 1..Len(rs) : rs[j] \notin 64976..65007 /\ rs[j] % 65536 < 65534

(* From every unit on: the unit where no further character can be read,    *)
(* and what the characters before it decode to.                            *)
Stops(t, i) == CharAt(t, i)[1] = 0 \/ ~Allowed(CharAt(t, i)[2])

Decodings(t) ==
  LET from[i \in 1..(Len(t) + 1)] ==
        IF Stops(t, i) THEN [at |-> i, text |-> << >>]
        ELSE [at   |-> from[i + CharAt(t, i)[1]].at,
              text |-> CharAt(t, i)[2] \o from[i + CharAt(t, i)[1]].text]
  IN from

Decode(t) == Decodings(t)[1]
=============================================================================
