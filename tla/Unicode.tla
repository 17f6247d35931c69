------------------------------ MODULE Unicode ------------------------------
(***************************************************************************)
(* Code points as the string scanner and the serializer see them: the      *)
(* surrogates and noncharacters they refuse, the bytes of a rune in UTF-8  *)
(* and its units in UTF-16.                                                *)
(***************************************************************************)
EXTENDS Integers, Sequences

MaxRune == 1114111            \* unicode.MaxRune
Rune    == 0..MaxRune

IsSurrogate(r)     == 55296 <= r /\ r <= 57343        \* D800..DFFF
IsLowSurrogate(r)  == 56320 <= r /\ r <= 57343        \* DC00..DFFF

(* Fault: the halves are swapped. *)
DecodePairSwapped(r1, r2) == 65536 + (r2 - 55296) * 1024 + (r1 - 56320)

(* utf16.DecodeRune of a high and a low surrogate *)
DecodePair(r1, r2) == 65536 + (r1 - 55296) * 1024 + (r2 - 56320)

(* Fault: the plane is not masked off: only the BMP's last two are found. *)
IsNoncharacterBMP(r) == (64976 <= r /\ r <= 65007) \/ r \in {65534, 65535}

IsNoncharacter(r) == (64976 <= r /\ r <= 65007) \/ r % 65536 \in {65534, 65535}

(* utf8.EncodeRune: the bytes of a code point *)
RuneLen(r) == IF r < 128 THEN 1 ELSE IF r < 2048 THEN 2 ELSE IF r < 65536 THEN 3 ELSE 4

(* the bytes of the first n runes of a string, for every n, and of all *)
Sums(s)  == LET sum[n \in 0..Len(s)] == IF n = 0 THEN 0 ELSE sum[n - 1] + RuneLen(s[n]) IN sum
Bytes(s) == Sums(s)[Len(s)]

(* utf16.Encode of one rune *)
Units16(r) == IF r < 65536 THEN <<r>>
              ELSE <<55296 + (r - 65536) \div 1024, 56320 + ((r - 65536) % 1024)>>
=============================================================================
