-------------------------- MODULE StringScanProofs --------------------------
(***************************************************************************)
(* Theorems about module StringScan, for all texts and every limit: first  *)
(* what the decoded buffer holds, then that its outcome is the one         *)
(* StringText gives, by induction over the positions of the text (every    *)
(* set of naturals has a least element).                                   *)
(***************************************************************************)
EXTENDS StringScan, TLAPS, SequenceTheorems, WellFoundedInduction

(* The general path holds more bytes than the limit only where the fast    *)
(* path left it, and then the unit there is not the closing quote.         *)
CloseIsChecked == pc = "general" /\ size > MaxStringBytes => KindAt(pos) # "quote"

IInv == TypeOK /\ CleanRunes /\ AcceptedWithinBytes /\ CloseIsChecked

Clean(r) == ~IsSurrogate(r) /\ ~IsNoncharacter(r)

-----------------------------------------------------------------------------
LEMMA UnitAt ==
  ASSUME TypeOK, NEW i \in Nat \ {0}, KindAt(i) # None
  PROVE  i \in 1..Len(data) /\ data[i] \in Unit /\ data[i].kind = KindAt(i)
  BY DEF TypeOK, KindAt, End

LEMMA MaxRuneType == MaxRune \in Nat /\ MaxRune >= 127
  BY SMT DEF MaxRune

LEMMA RuneIsNat == Rune \subseteq Nat
  BY MaxRuneType DEF Rune

LEMMA Hex4IsRune == Hex4 \subseteq Rune
<1>1. MaxHex4 \in Nat /\ MaxHex4 <= MaxRune
  BY SMT DEF MaxHex4, MaxRune
<1>. QED  BY <1>1, MaxRuneType DEF Hex4, Rune

LEMMA RuneUnitCp ==
  ASSUME NEW u \in RuneUnit
  PROVE  u.kind = "rune" /\ u.cp \in 128..MaxRune /\ ~IsSurrogate(u.cp)
<1>0. /\ LastBelow \in Nat /\ FirstAbove \in Nat /\ FirstAbove >= 128 /\ LastBelow <= MaxRune
      /\ \A r \in Nat : r <= LastBelow \/ FirstAbove <= r => ~IsSurrogate(r)
  BY DEF LastBelow, FirstAbove, MaxRune, IsSurrogate
<1>1. CASE u \in [kind : {"rune"}, cp : 128..LastBelow]
  BY <1>0, <1>1, MaxRuneType
<1>2. CASE u \in [kind : {"rune"}, cp : FirstAbove..MaxRune]
  BY <1>0, <1>2, MaxRuneType
<1>. QED  BY <1>1, <1>2 DEF RuneUnit

LEMMA UnitCp ==
  ASSUME NEW u \in Unit
  PROVE  /\ u.kind = "rune" => u.cp \in 128..MaxRune /\ ~IsSurrogate(u.cp)
         /\ u.kind = "quad" => u.cp \in Hex4
         /\ u.kind \in {"quote", "backslash", "u", "simple", "plain", "ctrl"} => u.cp \in 0..127
         /\ u.kind \in {"quote", "backslash", "u", "simple", "plain", "ctrl", "rune", "quad"}
<1>1. CASE u \in RuneUnit
  BY <1>1, RuneUnitCp
<1>2. CASE u \notin RuneUnit
  BY <1>2 DEF Unit
<1>. QED  BY <1>1, <1>2

LEMMA AsciiIsClean == \A r \in 0..127 : Clean(r)
  BY SMT DEF Clean, IsSurrogate, IsNoncharacter

LEMMA PlainOfFast ==
  ASSUME NEW u \in Unit, u.kind \in {"u", "simple", "plain", "quad"}
  PROVE  /\ Plain(u) \in Seq(0..127)
         /\ PlainLen(u) \in Nat
<1>1. CASE u.kind = "quad"
  BY <1>1 DEF Plain, PlainLen
<1>2. CASE u.kind \in {"u", "simple", "plain"}
  <2>1. u.cp \in 0..127
    BY <1>2, UnitCp
  <2>2. Plain(u) = <<110>> \/ Plain(u) = <<u.cp>>
    BY <1>2 DEF Plain
  <2>3. PlainLen(u) \in Nat
    BY <1>2, <2>1, SMT DEF PlainLen, RuneLen
  <2>4. <<110>> \in Seq(0..127) /\ <<u.cp>> \in Seq(0..127)
    BY <2>1
  <2>. QED  BY <2>2, <2>3, <2>4
<1>. QED  BY <1>1, <1>2

(* Appending clean runes leaves a clean buffer. *)
LEMMA ConcatIsClean ==
  ASSUME NEW s \in Seq(Rune), NEW t \in Seq(0..127),
         \A i \in 1..Len(s) : Clean(s[i])
  PROVE  /\ s \o t \in Seq(Rune)
         /\ \A i \in 1..Len(s \o t) : Clean((s \o t)[i])
<1>0. 0..127 \subseteq Rune
  BY MaxRuneType DEF Rune
<1>1. t \in Seq(Rune)
  BY <1>0, SeqMonotonic
<1>2. \A i \in 1..Len(t) : Clean(t[i])
  BY AsciiIsClean, ElementOfSeq
<1>3. /\ s \o t \in Seq(Rune)
      /\ Len(s \o t) = Len(s) + Len(t)
      /\ \A i \in 1..(Len(s) + Len(t)) : (s \o t)[i] = IF i <= Len(s) THEN s[i] ELSE t[i - Len(s)]
  BY <1>1, ConcatProperties
<1>4. Len(s) \in Nat /\ Len(t) \in Nat
  BY LenProperties
<1>. QED  BY <1>2, <1>3, <1>4

-----------------------------------------------------------------------------
LEMMA RejectKeeps ==
  ASSUME IInv, NEW class \in FailureClass, NEW at \in Nat, Reject(class, at),
         pos' \in Nat \ {0}
  PROVE  IInv'
<1>1. class # None
  BY DEF FailureClass, None
<1>2. TypeOK'
  BY DEF IInv, TypeOK, Reject, Verdict
<1>3. CleanRunes' /\ AcceptedWithinBytes' /\ CloseIsChecked'
  BY <1>1 DEF IInv, CleanRunes, Reject, AcceptedWithinBytes, Accepted, CloseIsChecked
<1>. QED  BY <1>2, <1>3 DEF IInv

LEMMA AppendRuneKeeps ==
  ASSUME IInv, pc = "general", NEW r \in Rune, NEW start \in Nat,
         NEW at \in Nat \ {0}, NEW next \in Nat \ {0}, AppendRune(r, start, at, next)
  PROVE  IInv'
<1>1. CASE RuneError(r) # None /\ Reject(RuneError(r), start) /\ pos' = at
  <2>1. RuneError(r) \in FailureClass
    BY <1>1 DEF RuneError, FailureClass, None
  <2>. QED  BY <1>1, <2>1, RejectKeeps
<1>2. CASE Reject("BoundExceeded", at) /\ pos' = at
  BY <1>2, RejectKeeps DEF FailureClass
<1>3. CASE /\ RuneError(r) = None /\ Fits(r) /\ buf' = Append(buf, r)
           /\ size' = size + RuneLen(r) /\ pos' = next /\ UNCHANGED <<data, pc, verdict>>
  <2>1. Clean(r)
    BY <1>3 DEF RuneError, Clean, None
  <2>2. buf \in Seq(Rune) /\ size \in Nat /\ RuneLen(r) \in Nat
    BY DEF IInv, TypeOK, RuneLen
  <2>3. /\ buf' \in Seq(Rune)
        /\ Len(buf') = Len(buf) + 1
        /\ \A i \in 1..Len(buf) : buf'[i] = buf[i]
        /\ buf'[Len(buf) + 1] = r
    BY <1>3, <2>2, AppendProperties
  <2>4. Len(buf) \in Nat /\ \A i \in 1..Len(buf) : Clean(buf[i])
    BY <2>2, LenProperties DEF IInv, CleanRunes, Clean
  <2>5. \A i \in 1..Len(buf') : Clean(buf'[i])
    BY <2>1, <2>3, <2>4
  <2>6. size' \in Nat /\ size' <= MaxStringBytes
    BY <1>3, <2>2 DEF Fits
  <2>7. TypeOK'
    BY <1>3, <2>3, <2>6 DEF IInv, TypeOK
  <2>8. CleanRunes'
    BY <2>5 DEF CleanRunes, Clean
  <2>9. AcceptedWithinBytes' /\ CloseIsChecked'
    BY <1>3, <2>6, MaxAssumption DEF AcceptedWithinBytes, Accepted, CloseIsChecked
  <2>. QED  BY <2>7, <2>8, <2>9 DEF IInv
<1>. QED  BY <1>1, <1>2, <1>3 DEF AppendRune

-----------------------------------------------------------------------------
LEMMA FastPathKeeps == IInv /\ FastPath => IInv'
<1>. SUFFICES ASSUME IInv, FastPath PROVE IInv'  OBVIOUS
<1>0. /\ pos \in Nat \ {0} /\ buf \in Seq(Rune) /\ size \in Nat
      /\ \A i \in 1..Len(buf) : Clean(buf[i])
  BY DEF IInv, TypeOK, CleanRunes, Clean
<1>1. CASE FastByte
  <2>1. KindAt(pos) \in {"u", "simple", "plain", "quad"}
    BY <1>1 DEF FastByte, IsFast
  <2>2. data[pos] \in Unit /\ data[pos].kind \in {"u", "simple", "plain", "quad"}
    BY <1>0, <2>1, UnitAt DEF IInv, None
  <2>3. Plain(data[pos]) \in Seq(0..127) /\ PlainLen(data[pos]) \in Nat
    BY <2>2, PlainOfFast
  <2>4. /\ buf' = buf \o Plain(data[pos]) /\ size' = size + PlainLen(data[pos])
        /\ pos' = pos + 1 /\ pc = "fast" /\ UNCHANGED <<data, pc, verdict>>
    BY <1>1 DEF FastByte
  <2>5. buf' \in Seq(Rune) /\ \A i \in 1..Len(buf') : Clean(buf'[i])
    BY <1>0, <2>3, <2>4, ConcatIsClean
  <2>6. TypeOK'
    BY <1>0, <2>3, <2>4, <2>5 DEF IInv, TypeOK
  <2>. QED
    BY <2>4, <2>5, <2>6 DEF IInv, CleanRunes, Clean, AcceptedWithinBytes, Accepted, CloseIsChecked
<1>2. CASE FastClose
  BY <1>0, <1>2 DEF FastClose, IInv, TypeOK, CleanRunes, AcceptedWithinBytes, CloseIsChecked
<1>3. CASE FastTooLong
  BY <1>0, <1>3, RejectKeeps DEF FastTooLong, FailureClass
<1>4. CASE LeaveFast
  BY <1>0, <1>4 DEF LeaveFast, IInv, TypeOK, CleanRunes, AcceptedWithinBytes, Accepted,
                    CloseIsChecked, KindAt, End
<1>. QED  BY <1>1, <1>2, <1>3, <1>4 DEF FastPath

LEMMA RawKeeps == IInv /\ Raw => IInv'
<1>. SUFFICES ASSUME IInv, Raw PROVE IInv'  OBVIOUS
<1>0. /\ pos \in Nat \ {0} /\ buf \in Seq(Rune) /\ size \in Nat
      /\ \A i \in 1..Len(buf) : Clean(buf[i])
  BY DEF IInv, TypeOK, CleanRunes, Clean
<1>1. CASE Unterminated
  BY <1>0, <1>1, RejectKeeps DEF Unterminated, FailureClass
<1>2. CASE Close
  <2>1. /\ pc = "general" /\ pc' = "done" /\ pos' = pos + 1 /\ KindAt(pos) = "quote"
        /\ UNCHANGED <<data, buf, size, verdict>>
    BY <1>2 DEF Close, General
  <2>2. size <= MaxStringBytes
    BY <1>0, <2>1, MaxAssumption DEF IInv, CloseIsChecked
  <2>3. TypeOK'
    BY <1>0, <2>1 DEF IInv, TypeOK
  <2>. QED
    BY <2>1, <2>2, <2>3 DEF IInv, CleanRunes, AcceptedWithinBytes, CloseIsChecked
<1>3. CASE ControlCharacter
  BY <1>0, <1>3, RejectKeeps DEF ControlCharacter, FailureClass
<1>4. CASE PlainRune
  <2>1. data[pos] \in Unit /\ data[pos].kind \in {"u", "simple", "plain", "rune"}
    BY <1>0, <1>4, UnitAt DEF IInv, PlainRune, None
  <2>2. data[pos].cp \in Rune /\ 110 \in Rune
    BY <2>1, UnitCp, MaxRuneType DEF Rune
  <2>3. Plain(data[pos])[1] \in Rune
    BY <2>1, <2>2 DEF Plain
  <2>. QED  BY <1>0, <1>4, <2>3, AppendRuneKeeps DEF PlainRune, General
<1>5. CASE PlainQuad
  <2>1. CASE /\ size + 4 <= MaxStringBytes
             /\ buf' = buf \o Plain(data[pos]) /\ size' = size + 4 /\ pos' = pos + 1
             /\ UNCHANGED <<data, pc, verdict>>
    <3>1. data[pos] \in Unit /\ data[pos].kind = "quad"
      BY <1>0, <1>5, UnitAt DEF IInv, PlainQuad, None
    <3>2. Plain(data[pos]) \in Seq(0..127)
      BY <3>1, PlainOfFast
    <3>3. buf' \in Seq(Rune) /\ \A i \in 1..Len(buf') : Clean(buf'[i])
      BY <1>0, <2>1, <3>2, ConcatIsClean
    <3>4. size' \in Nat /\ size' <= MaxStringBytes /\ pos' \in Nat \ {0}
      BY <1>0, <2>1
    <3>5. TypeOK'
      BY <2>1, <3>3, <3>4 DEF IInv, TypeOK
    <3>6. CleanRunes'
      BY <3>3 DEF CleanRunes, Clean
    <3>7. AcceptedWithinBytes' /\ CloseIsChecked'
      BY <3>4, MaxAssumption DEF AcceptedWithinBytes, CloseIsChecked
    <3>. QED  BY <3>5, <3>6, <3>7 DEF IInv
  <2>2. CASE Reject("BoundExceeded", pos) /\ UNCHANGED pos
    BY <1>0, <2>2, RejectKeeps DEF FailureClass
  <2>. QED  BY <1>5, <2>1, <2>2 DEF PlainQuad
<1>. QED  BY <1>1, <1>2, <1>3, <1>4, <1>5 DEF Raw

(* The code points the escapes yield. *)
LEMMA HexType ==
  ASSUME TypeOK, NEW i \in Nat \ {0}, HexAt(i)
  PROVE  Hex(i) \in Hex4
<1>1. data[i + 2] \in Unit /\ data[i + 2].kind = "quad"
  BY UnitAt DEF HexAt, None
<1>2. data[i + 2].cp \in Hex4
  BY <1>1, UnitCp
<1>. QED  BY <1>2 DEF Hex

LEMMA PairType ==
  ASSUME NEW r1 \in Nat, NEW r2 \in Nat, IsSurrogate(r1), ~IsLowSurrogate(r1), IsLowSurrogate(r2)
  PROVE  DecodePair(r1, r2) \in Rune /\ ~IsSurrogate(DecodePair(r1, r2))
<1>1. DecodePair(r1, r2) \in Nat /\ DecodePair(r1, r2) <= MaxRune
  BY SMT DEF IsSurrogate, IsLowSurrogate, DecodePair, MaxRune
<1>2. ~IsSurrogate(DecodePair(r1, r2))
  BY DEF IsSurrogate, IsLowSurrogate, DecodePair
<1>. QED  BY <1>1, <1>2, MaxRuneType DEF Rune

LEMMA EscapeKeeps == IInv /\ Escape => IInv'
<1>. SUFFICES ASSUME IInv, Escape PROVE IInv'  OBVIOUS
<1>0. pos \in Nat \ {0} /\ TypeOK /\ {"InvalidGrammar", "LoneSurrogate"} \subseteq FailureClass
  BY DEF IInv, TypeOK, FailureClass
<1>1. CASE SimpleEscape
  <2>1. data[pos + 1] \in Unit /\ data[pos + 1].kind \in {"simple", "quote", "backslash"}
    BY <1>0, <1>1, UnitAt DEF SimpleEscape, None
  <2>3. data[pos + 1].cp \in 0..127
    BY <2>1, UnitCp
  <2>2. SimpleRune(data[pos + 1]) \in Rune
    BY <2>3, MaxRuneType DEF SimpleRune, Rune
  <2>. QED  BY <1>0, <1>1, <2>2, AppendRuneKeeps DEF SimpleEscape, General
<1>2. CASE BadEscape \/ BadHex \/ LoneLow \/ LoneHigh
  BY <1>0, <1>2, RejectKeeps DEF BadEscape, BadHex, LoneLow, LoneHigh
<1>3. CASE BadSecondHex \/ NotLow
  BY <1>0, <1>3, RejectKeeps DEF BadSecondHex, NotLow
<1>4. CASE UnicodeEscape
  <2>1. Hex(pos) \in Hex4
    BY <1>0, <1>4, HexType DEF UnicodeEscape
  <2>2. Hex(pos) \in Rune
    BY <2>1, Hex4IsRune
  <2>. QED  BY <1>0, <1>4, <2>2, AppendRuneKeeps DEF UnicodeEscape, General
<1>5. CASE SurrogatePair
  <2>1. Hex(pos) \in Hex4 /\ Hex(pos + 3) \in Hex4
    BY <1>0, <1>5, HexType DEF SurrogatePair, High
  <2>3. Hex(pos) \in Nat /\ Hex(pos + 3) \in Nat
    BY <2>1, Hex4IsRune, RuneIsNat
  <2>2. DecodePair(Hex(pos), Hex(pos + 3)) \in Rune
    BY <1>5, <2>3, PairType DEF SurrogatePair, High
  <2>. QED  BY <1>0, <1>5, <2>2, AppendRuneKeeps DEF SurrogatePair, High, General
<1>. QED  BY <1>1, <1>2, <1>3, <1>4, <1>5 DEF Escape

LEMMA InitHolds == Init => IInv
<1>. SUFFICES ASSUME Init PROVE IInv  OBVIOUS
<1>1. TypeOK
  BY InputsAssumption DEF Init, TypeOK, Verdict
<1>. QED
  BY <1>1 DEF Init, IInv, CleanRunes, AcceptedWithinBytes, Accepted, CloseIsChecked

LEMMA StutterKeeps == IInv /\ UNCHANGED vars => IInv'
BY DEF vars, IInv, TypeOK, CleanRunes, AcceptedWithinBytes, Accepted, CloseIsChecked, KindAt, End

-----------------------------------------------------------------------------
(* Induction over the naturals, as a set without a least element. *)
LEMMA LeastElement ==
  ASSUME NEW B, B \subseteq Nat, B # {}
  PROVE  \E i \in B : \A j \in B : i <= j
<1>1. PICK i \in B : \A j \in B : ~(<<j, i>> \in OpToRel(<, Nat))
  BY NatLessThanWellFounded, WFMin
<1>2. OpToRel(<, Nat) = {ss \in Nat \X Nat : ss[1] < ss[2]}
  BY DEF OpToRel
<1>3. ASSUME NEW j \in B, j < i PROVE FALSE
  <2>1. <<j, i>> \in Nat \X Nat
    OBVIOUS
  <2>. QED  BY <1>1, <1>2, <1>3, <2>1
<1>4. \A j \in B : i <= j
  BY <1>3
<1>. QED  BY <1>4

-----------------------------------------------------------------------------
LEMMA RuneLenType == \A r \in Nat : RuneLen(r) \in Nat /\ RuneLen(r) > 0
BY DEF RuneLen

LEMMA SumsExists ==
  ASSUME NEW s \in Seq(Nat)
  PROVE  \E f : f = [n \in 0..Len(s) |-> IF n = 0 THEN 0 ELSE f[n - 1] + RuneLen(s[n])]
<1> DEFINE G(f, k) == [n \in 0..k |-> IF n = 0 THEN 0 ELSE f[n - 1] + RuneLen(s[n])]
           B == {k \in 0..Len(s) : ~\E f : f = G(f, k)}
<1>1. CASE B = {}
  <2>1. Len(s) \in 0..Len(s)
    BY LenProperties
  <2>. QED  BY <1>1, <2>1
<1>2. CASE B # {}
  <2>0. Len(s) \in Nat /\ B \subseteq Nat
    BY LenProperties
  <2>1. PICK k \in B : \A j \in B : k <= j
    <3> HIDE DEF B
    <3>. QED  BY <1>2, <2>0, LeastElement
  <2>2. k \in Nat /\ k <= Len(s)
    BY <2>0
  <2>3. k # 0
    <3>1. [n \in 0..0 |-> 0] = G([n \in 0..0 |-> 0], 0)
      OBVIOUS
    <3>. QED  BY <3>1
  <2>6. k - 1 \in 0..Len(s) /\ k - 1 \notin B
    <3>1. k - 1 \in 0..Len(s) /\ ~(k <= k - 1)
      BY <2>0, <2>2, <2>3
    <3> HIDE DEF B
    <3>. QED  BY <2>1, <3>1
  <2>4. PICK f : f = G(f, k - 1)
    <3> HIDE DEF G
    <3>. QED  BY <2>6
  <2>5. G(f, k) = G(G(f, k), k)
    <3>1. ASSUME NEW n \in 1..k PROVE G(f, k)[n - 1] = f[n - 1]
      <4>1. n - 1 \in 0..(k - 1) /\ n - 1 \in 0..k
        BY <2>2
      <4>2. G(f, k)[n - 1] = G(f, k - 1)[n - 1]
        BY <4>1
      <4>. QED  BY <2>4, <4>2
    <3>2. \A n \in 0..k : (IF n = 0 THEN 0 ELSE f[n - 1] + RuneLen(s[n]))
                         = (IF n = 0 THEN 0 ELSE G(f, k)[n - 1] + RuneLen(s[n]))
      <4> HIDE DEF G
      <4>. QED  BY <2>2, <3>1
    <3>3. G(f, k) = [n \in 0..k |-> IF n = 0 THEN 0 ELSE G(f, k)[n - 1] + RuneLen(s[n])]
      BY <3>2
    <3>. QED  BY <3>3
  <2>. QED  BY <2>5
<1>. QED  BY <1>1, <1>2

LEMMA SumsDef ==
  ASSUME NEW s \in Seq(Nat)
  PROVE  /\ Sums(s)[0] = 0
         /\ \A n \in 1..Len(s) : Sums(s)[n] = Sums(s)[n - 1] + RuneLen(s[n])
<1> DEFINE F(f) == [n \in 0..Len(s) |-> IF n = 0 THEN 0 ELSE f[n - 1] + RuneLen(s[n])]
<1>1. Sums(s) = CHOOSE f : f = F(f)
  BY DEF Sums
<1>2. \E f : f = F(f)
  BY SumsExists
<1>3. Sums(s) = F(Sums(s))
  <2> HIDE DEF F
  <2>. QED  BY <1>1, <1>2
<1>4. Len(s) \in Nat
  BY LenProperties
<1>5. \A n \in 0..Len(s) : Sums(s)[n] = IF n = 0 THEN 0 ELSE Sums(s)[n - 1] + RuneLen(s[n])
  BY <1>3
<1>. QED  BY <1>4, <1>5

LEMMA SumsType ==
  ASSUME NEW s \in Seq(Nat)
  PROVE  \A n \in 0..Len(s) : Sums(s)[n] \in Nat
<1> DEFINE B == {n \in 0..Len(s) : Sums(s)[n] \notin Nat}
<1>1. SUFFICES ASSUME B # {} PROVE FALSE
  OBVIOUS
<1>2. Len(s) \in Nat /\ B \subseteq Nat
  BY LenProperties
<1>3. PICK n \in B : \A j \in B : n <= j
  <2> HIDE DEF B
  <2>. QED  BY <1>1, <1>2, LeastElement
<1>4. n # 0
  BY SumsDef
<1>5. n \in 1..Len(s) /\ n - 1 \in 0..Len(s) /\ n - 1 \notin B
  BY <1>2, <1>3, <1>4
<1>6. Sums(s)[n - 1] \in Nat /\ RuneLen(s[n]) \in Nat
  BY <1>5, RuneLenType, ElementOfSeq
<1>. QED  BY <1>5, <1>6, SumsDef

LEMMA SumsConcat ==
  ASSUME NEW s \in Seq(Nat), NEW t \in Seq(Nat)
  PROVE  \A n \in 0..(Len(s) + Len(t)) :
           Sums(s \o t)[n] = IF n <= Len(s) THEN Sums(s)[n] ELSE Bytes(s) + Sums(t)[n - Len(s)]
<1> DEFINE P(n) == Sums(s \o t)[n] = IF n <= Len(s) THEN Sums(s)[n] ELSE Bytes(s) + Sums(t)[n - Len(s)]
           B == {n \in 0..(Len(s) + Len(t)) : ~P(n)}
<1>1. SUFFICES ASSUME B # {} PROVE FALSE
  OBVIOUS
<1>2. Len(s) \in Nat /\ Len(t) \in Nat /\ B \subseteq Nat
  BY LenProperties
<1>3. /\ s \o t \in Seq(Nat)
      /\ Len(s \o t) = Len(s) + Len(t)
      /\ \A i \in 1..(Len(s) + Len(t)) : (s \o t)[i] = IF i <= Len(s) THEN s[i] ELSE t[i - Len(s)]
  BY ConcatProperties
<1>4. PICK n \in B : \A j \in B : n <= j
  <2> HIDE DEF B
  <2>. QED  BY <1>1, <1>2, LeastElement
<1>5. n # 0
  <2>1. Sums(s \o t)[0] = 0 /\ Sums(s)[0] = 0
    BY <1>3, SumsDef
  <2>2. P(0)
    BY <1>2, <2>1
  <2> HIDE DEF P
  <2>. QED  BY <2>2
<1>6. n \in 1..(Len(s) + Len(t)) /\ n - 1 \in 0..(Len(s) + Len(t)) /\ P(n - 1)
  <2>1. n \in 1..(Len(s) + Len(t)) /\ n - 1 \in 0..(Len(s) + Len(t)) /\ ~(n <= n - 1)
    BY <1>2, <1>5
  <2>2. n - 1 \notin B
    BY <1>4, <2>1
  <2> HIDE DEF P
  <2>. QED  BY <2>1, <2>2
<1>7. Sums(s \o t)[n] = Sums(s \o t)[n - 1] + RuneLen((s \o t)[n])
  BY <1>3, <1>6, SumsDef
<1>8. CASE n <= Len(s)
  <2>1. n \in 1..Len(s)
    BY <1>2, <1>6, <1>8
  <2>2. Sums(s)[n] = Sums(s)[n - 1] + RuneLen(s[n])
    BY <2>1, SumsDef
  <2>3. Sums(s \o t)[n - 1] = Sums(s)[n - 1] /\ (s \o t)[n] = s[n]
    BY <1>2, <1>3, <1>6, <1>8
  <2>. QED  BY <1>4, <1>7, <1>8, <2>2, <2>3
<1>9. CASE n > Len(s)
  <2>1. n - Len(s) \in 1..Len(t) /\ (n - Len(s)) - 1 \in 0..Len(t) /\ (n - 1) - Len(s) = (n - Len(s)) - 1
    BY <1>2, <1>6, <1>9
  <2>2. Sums(t)[n - Len(s)] = Sums(t)[(n - Len(s)) - 1] + RuneLen(t[n - Len(s)])
    BY <2>1, SumsDef
  <2>3. (s \o t)[n] = t[n - Len(s)]
    BY <1>2, <1>3, <1>6, <1>9
  <2>4. Sums(s \o t)[n - 1] = Bytes(s) + Sums(t)[(n - Len(s)) - 1]
    <3>1. CASE n = Len(s) + 1
      <4>1. Sums(s \o t)[n - 1] = Bytes(s) /\ (n - Len(s)) - 1 = 0
        BY <1>2, <1>6, <3>1 DEF Bytes
      <4>2. Bytes(s) \in Nat
        BY <1>2, SumsType DEF Bytes
      <4>. QED  BY <4>1, <4>2, SumsDef
    <3>2. CASE n # Len(s) + 1
      <4>1. ~(n - 1 <= Len(s))
        BY <1>2, <1>6, <1>9, <3>2
      <4>. QED  BY <1>6, <2>1, <4>1
    <3>. QED  BY <3>1, <3>2
  <2>5. Bytes(s) \in Nat /\ Sums(t)[(n - Len(s)) - 1] \in Nat /\ RuneLen(t[n - Len(s)]) \in Nat
    <3>1. t[n - Len(s)] \in Nat
      BY <2>1, ElementOfSeq
    <3>2. Len(s) \in 0..Len(s)
      BY <1>2
    <3>. QED  BY <2>1, <3>1, <3>2, SumsType, RuneLenType DEF Bytes
  <2>6. Sums(s \o t)[n] = Bytes(s) + Sums(t)[n - Len(s)]
    BY <1>7, <2>2, <2>3, <2>4, <2>5
  <2>. QED  BY <1>2, <1>6, <1>4, <1>9, <2>6
<1>. QED  BY <1>2, <1>6, <1>8, <1>9

(* The bytes of a text are those of its parts. *)
LEMMA BytesConcat ==
  ASSUME NEW s \in Seq(Nat), NEW t \in Seq(Nat)
  PROVE  Bytes(s \o t) = Bytes(s) + Bytes(t) /\ Bytes(s) \in Nat /\ Bytes(t) \in Nat
<1>1. Len(s) \in Nat /\ Len(t) \in Nat /\ Len(s \o t) = Len(s) + Len(t)
  BY LenProperties, ConcatProperties
<1>2. Bytes(s) \in Nat /\ Bytes(t) \in Nat
  BY <1>1, SumsType DEF Bytes
<1>3. Len(s) + Len(t) \in 0..(Len(s) + Len(t))
  BY <1>1
<1>4. Bytes(s \o t) = IF Len(s) + Len(t) <= Len(s) THEN Sums(s)[Len(s) + Len(t)]
                      ELSE Bytes(s) + Sums(t)[(Len(s) + Len(t)) - Len(s)]
  BY <1>1, <1>3, SumsConcat DEF Bytes
<1>5. CASE Len(t) = 0
  <2>1. Bytes(s \o t) = Bytes(s) /\ Bytes(t) = 0
    <3>1. Bytes(t) = 0
      BY <1>5, SumsDef DEF Bytes
    <3>2. Len(s) + Len(t) = Len(s) /\ Len(s) <= Len(s)
      BY <1>1, <1>5
    <3>. QED  BY <1>4, <3>1, <3>2 DEF Bytes
  <2>. QED  BY <1>2, <2>1
<1>6. CASE Len(t) # 0
  <2>1. ~(Len(s) + Len(t) <= Len(s)) /\ (Len(s) + Len(t)) - Len(s) = Len(t)
    BY <1>1, <1>6
  <2>. QED  BY <1>2, <1>4, <2>1 DEF Bytes
<1>. QED  BY <1>5, <1>6

LEMMA BytesOne ==
  ASSUME NEW r \in Nat
  PROVE  Bytes(<<r>>) = RuneLen(r) /\ Bytes(<< >>) = 0
<1>1. <<r>> \in Seq(Nat) /\ << >> \in Seq(Nat)
  OBVIOUS
<1>4. Len(<<r>>) = 1 /\ Len(<< >>) = 0 /\ <<r>>[1] = r
  OBVIOUS
<1>5. 1 \in 1..Len(<<r>>) /\ 1 - 1 = 0
  BY <1>4
<1>2. Sums(<<r>>)[0] = 0 /\ Sums(<<r>>)[1] = Sums(<<r>>)[0] + RuneLen(r)
  <2>1. Sums(<<r>>)[1] = Sums(<<r>>)[1 - 1] + RuneLen(<<r>>[1])
    BY <1>1, <1>5, SumsDef
  <2>. QED  BY <1>1, <1>4, <1>5, <2>1, SumsDef
<1>3. RuneLen(r) \in Nat
  BY RuneLenType
<1>6. Sums(<< >>)[0] = 0
  BY <1>1, SumsDef
<1>. QED  BY <1>2, <1>3, <1>4, <1>6 DEF Bytes

-----------------------------------------------------------------------------
Read(i) == Ref!CharAt(data, i)
Halts(i) == Ref!Stops(data, i)
From    == Ref!Decodings(data)

LEMMA SameKind == \A i \in Nat : Ref!KindAt(data, i) = KindAt(i)
BY LenProperties DEF Ref!KindAt, KindAt, End, Ref!None, None

LEMMA NoUnit == \A i \in Nat : KindAt(i) # None => i < End
BY DEF KindAt

(* What a character is, by the kinds of its units. *)
LEMMA PairsAgree ==
  ASSUME NEW h \in Nat, NEW l \in Nat, Ref!High(h), Ref!Low(l)
  PROVE  65536 + (h % 1024) * 1024 + (l % 1024) = DecodePair(h, l)
<1>1. ASSUME NEW a \in Nat, a < 1024
      PROVE  (54 * 1024 + a) % 1024 = a /\ (55 * 1024 + a) % 1024 = a
  BY <1>1
<1>2. h - 55296 \in Nat /\ h - 55296 < 1024 /\ 54 * 1024 + (h - 55296) = h
  BY DEF Ref!High
<1>3. l - 56320 \in Nat /\ l - 56320 < 1024 /\ 55 * 1024 + (l - 56320) = l
  BY DEF Ref!Low
<1>4. h % 1024 = h - 55296
  BY <1>1, <1>2
<1>5. l % 1024 = l - 56320
  BY <1>1, <1>3
<1>. QED  BY <1>4, <1>5 DEF DecodePair

LEMMA ReadCases ==
  ASSUME TypeOK, NEW i \in Nat \ {0}
  PROVE  /\ KindAt(i) \in {"u", "simple", "plain", "rune", "quad"} =>
              Read(i) = <<1, Plain(data[i])>>
         /\ KindAt(i) = "backslash" /\ KindAt(i + 1) \in {"simple", "quote", "backslash"} =>
              Read(i) = <<2, <<SimpleRune(data[i + 1])>> >>
         /\ HexAt(i) /\ ~IsSurrogate(Hex(i)) => Read(i) = <<3, <<Hex(i)>> >>
         /\ HexAt(i) /\ HexAt(i + 3) /\ IsSurrogate(Hex(i)) /\ ~IsLowSurrogate(Hex(i))
              /\ IsLowSurrogate(Hex(i + 3)) =>
              Read(i) = <<6, <<DecodePair(Hex(i), Hex(i + 3))>> >>
         /\ \/ KindAt(i) \notin {"u", "simple", "plain", "rune", "quad", "backslash"}
            \/ /\ KindAt(i) = "backslash"
               /\ KindAt(i + 1) \notin {"simple", "quote", "backslash", "u"}
            \/ UnicodeAt(i) /\ ~HexAt(i)
            \/ HexAt(i) /\ IsLowSurrogate(Hex(i))
            \/ /\ HexAt(i) /\ IsSurrogate(Hex(i)) /\ ~IsLowSurrogate(Hex(i))
               /\ ~(HexAt(i + 3) /\ IsLowSurrogate(Hex(i + 3)))
            => Read(i) = <<0, << >> >>
<1>1. /\ Ref!KindAt(data, i) = KindAt(i) /\ Ref!KindAt(data, i + 1) = KindAt(i + 1)
      /\ Ref!KindAt(data, i + 2) = KindAt(i + 2) /\ Ref!KindAt(data, i + 3) = KindAt(i + 3)
      /\ Ref!KindAt(data, i + 4) = KindAt(i + 4) /\ Ref!KindAt(data, i + 5) = KindAt(i + 5)
  BY SameKind
<1>2. Ref!HexAt(data, i) = HexAt(i) /\ Ref!HexAt(data, i + 3) = HexAt(i + 3)
  <2>1. (i + 3) + 1 = i + 4 /\ (i + 3) + 2 = i + 5
    OBVIOUS
  <2>. QED  BY <1>1, <2>1 DEF Ref!HexAt, HexAt, UnicodeAt
<1>3. Ref!Hex(data, i) = Hex(i) /\ Ref!Hex(data, i + 3) = Hex(i + 3)
  BY DEF Ref!Hex, Hex
<1>4. /\ HexAt(i) => Hex(i) \in Nat
      /\ HexAt(i + 3) => Hex(i + 3) \in Nat
  <2>1. i + 3 \in Nat \ {0}
    OBVIOUS
  <2>2. HexAt(i) => Hex(i) \in Hex4
    BY HexType
  <2>3. HexAt(i + 3) => Hex(i + 3) \in Hex4
    BY <2>1, HexType
  <2>. QED  BY <2>2, <2>3, Hex4IsRune, RuneIsNat
<1>5. \A h \in Nat : /\ Ref!High(h) <=> IsSurrogate(h) /\ ~IsLowSurrogate(h)
                     /\ Ref!Low(h) <=> IsLowSurrogate(h)
                     /\ IsLowSurrogate(h) => IsSurrogate(h)
  BY DEF Ref!High, Ref!Low, IsSurrogate, IsLowSurrogate
<1>6. KindAt(i) \in {"u", "simple", "plain", "rune", "quad"} => data[i].kind = KindAt(i)
  BY UnitAt DEF None
<1>7. KindAt(i + 1) \in {"simple", "quote", "backslash"} => data[i + 1].kind = KindAt(i + 1)
  BY UnitAt DEF None
<1>8. ASSUME KindAt(i) \in {"u", "simple", "plain", "rune", "quad"}
      PROVE  Read(i) = <<1, Plain(data[i])>>
  <2>1. Ref!Bare(data[i]) = Plain(data[i])
    BY <1>6, <1>8 DEF Ref!Bare, Plain
  <2>. QED  BY <1>1, <1>8, <2>1 DEF Read, Ref!CharAt
<1>9. ASSUME KindAt(i) = "backslash", KindAt(i + 1) \in {"simple", "quote", "backslash"}
      PROVE  Read(i) = <<2, <<SimpleRune(data[i + 1])>> >>
  <2>1. Ref!Escaped(data[i + 1]) = SimpleRune(data[i + 1])
    BY <1>7, <1>9 DEF Ref!Escaped, SimpleRune
  <2>. QED  BY <1>1, <1>9, <2>1 DEF Read, Ref!CharAt
<1>10. ASSUME HexAt(i)
       PROVE  KindAt(i) = "backslash" /\ KindAt(i + 1) = "u" /\ Hex(i) \in Nat
  BY <1>4, <1>10 DEF HexAt, UnicodeAt
<1>11. ASSUME HexAt(i), ~IsSurrogate(Hex(i)) PROVE Read(i) = <<3, <<Hex(i)>> >>
  <2>1. ~Ref!High(Hex(i)) /\ ~Ref!Low(Hex(i))
    BY <1>5, <1>10, <1>11
  <2>. QED  BY <1>1, <1>2, <1>3, <1>10, <1>11, <2>1 DEF Read, Ref!CharAt
<1>12. ASSUME HexAt(i), HexAt(i + 3), IsSurrogate(Hex(i)), ~IsLowSurrogate(Hex(i)),
              IsLowSurrogate(Hex(i + 3))
       PROVE  Read(i) = <<6, <<DecodePair(Hex(i), Hex(i + 3))>> >>
  <2>1. Ref!High(Hex(i)) /\ Ref!Low(Hex(i + 3))
    BY <1>4, <1>5, <1>10, <1>12
  <2>2. 65536 + (Hex(i) % 1024) * 1024 + (Hex(i + 3) % 1024) = DecodePair(Hex(i), Hex(i + 3))
    BY <1>4, <1>12, <2>1, PairsAgree
  <2>. QED  BY <1>1, <1>2, <1>3, <1>10, <1>12, <2>1, <2>2 DEF Read, Ref!CharAt
<1>13. ASSUME KindAt(i) \notin {"u", "simple", "plain", "rune", "quad", "backslash"}
       PROVE  Read(i) = <<0, << >> >>
  <2>1. ~HexAt(i) /\ KindAt(i) # "backslash"
    BY <1>13 DEF HexAt, UnicodeAt
  <2>. QED  BY <1>1, <1>2, <1>13, <2>1 DEF Read, Ref!CharAt
<1>14. ASSUME KindAt(i) = "backslash", KindAt(i + 1) \notin {"simple", "quote", "backslash"}, ~HexAt(i)
       PROVE  Read(i) = <<0, << >> >>
  BY <1>1, <1>2, <1>14 DEF Read, Ref!CharAt
<1>15. ASSUME HexAt(i), \/ IsLowSurrogate(Hex(i))
                        \/ /\ IsSurrogate(Hex(i)) /\ ~IsLowSurrogate(Hex(i))
                           /\ ~(HexAt(i + 3) /\ IsLowSurrogate(Hex(i + 3)))
       PROVE  Read(i) = <<0, << >> >>
  <2>1. /\ Ref!High(Hex(i)) \/ Ref!Low(Hex(i))
        /\ ~(HexAt(i + 3) /\ Ref!High(Hex(i)) /\ Ref!Low(Hex(i + 3)))
    BY <1>4, <1>5, <1>10, <1>15
  <2>. QED  BY <1>1, <1>2, <1>3, <1>10, <1>15, <2>1 DEF Read, Ref!CharAt
<1>. QED  BY <1>8, <1>9, <1>10, <1>11, <1>12, <1>13, <1>14, <1>15 DEF HexAt, UnicodeAt

-----------------------------------------------------------------------------
LEMMA EndType == TypeOK => End \in Nat \ {0} /\ End = Len(data) + 1 /\ Len(data) \in Nat
BY LenProperties DEF TypeOK, End

LEMMA ReadType ==
  ASSUME TypeOK, NEW i \in 1..End
  PROVE  \/ Read(i) = <<0, << >> >>
         \/ \E c \in Nat, rs \in Seq(Rune) :
              Read(i) = <<c, rs>> /\ c > 0 /\ i + c \in 1..End
<1>0. i \in Nat \ {0} /\ End \in Nat
  BY EndType
<1>1. ASSUME NEW c \in Nat, NEW r \in Rune, Read(i) = <<c, <<r>> >>, c > 0,
             KindAt(i + (c - 1)) # None
      PROVE  \E d \in Nat, rs \in Seq(Rune) : Read(i) = <<d, rs>> /\ d > 0 /\ i + d \in 1..End
  <2>1. i + (c - 1) < End
    BY <1>0, <1>1, NoUnit
  <2>2. <<r>> \in Seq(Rune) /\ i + c \in 1..End
    BY <1>0, <1>1, <2>1
  <2>. QED  BY <1>1, <2>2
<1>2. CASE KindAt(i) \in {"u", "simple", "plain", "rune"}
  <2>1. data[i] \in Unit /\ data[i].kind = KindAt(i)
    BY <1>0, <1>2, UnitAt DEF None
  <2>2. data[i].cp \in Rune /\ 110 \in Rune
    BY <1>2, <2>1, UnitCp, MaxRuneType DEF Rune
  <2>3. PICK r \in Rune : Plain(data[i]) = <<r>>
    BY <1>2, <2>1, <2>2 DEF Plain
  <2>4. Read(i) = <<1, <<r>> >> /\ KindAt(i + (1 - 1)) # None
    BY <1>0, <1>2, <2>3, ReadCases DEF None
  <2>. QED  BY <1>1, <2>4
<1>3. CASE KindAt(i) = "quad"
  <2>1. data[i] \in Unit /\ data[i].kind = "quad"
    BY <1>0, <1>3, UnitAt DEF None
  <2>2. Plain(data[i]) \in Seq(Rune)
    <3>1. 0..127 \subseteq Rune
      BY MaxRuneType DEF Rune
    <3>. QED  BY <2>1, <3>1, PlainOfFast, SeqMonotonic
  <2>3. Read(i) = <<1, Plain(data[i])>>
    BY <1>0, <1>3, ReadCases
  <2>4. i + 1 \in 1..End
    BY <1>0, <1>3, NoUnit DEF None
  <2>. QED  BY <2>2, <2>3, <2>4
<1>4. CASE KindAt(i) = "backslash" /\ KindAt(i + 1) \in {"simple", "quote", "backslash"}
  <2>1. data[i + 1] \in Unit /\ data[i + 1].kind = KindAt(i + 1)
    BY <1>0, <1>4, UnitAt DEF None
  <2>2. SimpleRune(data[i + 1]) \in Rune
    BY <1>4, <2>1, UnitCp, MaxRuneType DEF SimpleRune, Rune
  <2>3. Read(i) = <<2, <<SimpleRune(data[i + 1])>> >> /\ KindAt(i + (2 - 1)) # None
    BY <1>0, <1>4, ReadCases DEF None
  <2>. QED  BY <1>1, <2>2, <2>3
<1>5. CASE HexAt(i) /\ ~IsSurrogate(Hex(i))
  <2>1. Hex(i) \in Rune
    BY <1>0, <1>5, HexType, Hex4IsRune
  <2>2. Read(i) = <<3, <<Hex(i)>> >> /\ KindAt(i + (3 - 1)) # None
    BY <1>0, <1>5, ReadCases DEF None, HexAt
  <2>. QED  BY <1>1, <2>1, <2>2
<1>6. CASE /\ HexAt(i) /\ HexAt(i + 3) /\ IsSurrogate(Hex(i)) /\ ~IsLowSurrogate(Hex(i))
           /\ IsLowSurrogate(Hex(i + 3))
  <2>0. i + 3 \in Nat \ {0}
    BY <1>0
  <2>1. Hex(i) \in Nat /\ Hex(i + 3) \in Nat
    BY <1>0, <1>6, <2>0, HexType, Hex4IsRune, RuneIsNat
  <2>2. DecodePair(Hex(i), Hex(i + 3)) \in Rune
    BY <1>6, <2>1, PairType
  <2>3. KindAt(i + 5) # None
    <3>1. (i + 3) + 2 = i + 5
      BY <1>0
    <3>. QED  BY <1>6, <3>1 DEF HexAt, None
  <2>4. Read(i) = <<6, <<DecodePair(Hex(i), Hex(i + 3))>> >>
    BY <1>0, <1>6, ReadCases
  <2>. QED  BY <1>1, <2>2, <2>3, <2>4
<1>7. CASE \/ KindAt(i) \notin {"u", "simple", "plain", "rune", "quad", "backslash"}
           \/ /\ KindAt(i) = "backslash"
              /\ KindAt(i + 1) \notin {"simple", "quote", "backslash", "u"}
           \/ UnicodeAt(i) /\ ~HexAt(i)
           \/ HexAt(i) /\ IsLowSurrogate(Hex(i))
           \/ /\ HexAt(i) /\ IsSurrogate(Hex(i)) /\ ~IsLowSurrogate(Hex(i))
              /\ ~(HexAt(i + 3) /\ IsLowSurrogate(Hex(i + 3)))
  BY <1>0, <1>7, ReadCases
<1>. QED  BY <1>2, <1>3, <1>4, <1>5, <1>6, <1>7 DEF UnicodeAt

LEMMA DecodingsExist ==
  ASSUME TypeOK
  PROVE  \E f : f = [i \in 1..(Len(data) + 1) |->
                       IF Ref!Stops(data, i) THEN [at |-> i, text |-> << >>]
                       ELSE [at   |-> f[i + Ref!CharAt(data, i)[1]].at,
                             text |-> Ref!CharAt(data, i)[2] \o f[i + Ref!CharAt(data, i)[1]].text]]
<1> DEFINE V(f, i) == IF Halts(i) THEN [at |-> i, text |-> << >>]
                      ELSE [at   |-> f[i + Read(i)[1]].at,
                            text |-> Read(i)[2] \o f[i + Read(i)[1]].text]
           G(f, k) == [i \in (End - k)..End |-> V(f, i)]
           B == {k \in 0..(End - 1) : ~\E f : f = G(f, k)}
<1>1. End \in Nat \ {0}
  BY EndType
<1>2. CASE B = {}
  <2>1. End - 1 \in 0..(End - 1) /\ End - (End - 1) = 1
    BY <1>1
  <2>2. \E f : f = G(f, End - 1)
    <3> HIDE DEF G
    <3>. QED  BY <1>2, <2>1
  <2>3. \E f : f = [i \in 1..End |-> V(f, i)]
    <3> HIDE DEF V
    <3>. QED  BY <2>1, <2>2
  <2>. QED  BY <2>3, EndType DEF Halts, Read
<1>3. CASE B # {}
  <2>0. B \subseteq Nat
    <3> HIDE DEF G
    <3>. QED  BY <1>1
  <2>1. PICK k \in B : \A j \in B : k <= j
    <3> HIDE DEF B
    <3>. QED  BY <1>3, <2>0, LeastElement
  <2>2. k \in Nat /\ k <= End - 1
    BY <1>1
  <2>3. PICK f : \A i \in (End - k)..End : i # End - k => f[i] = V(f, i)
    <3>1. CASE k = 0
      <4>1. \A i \in (End - k)..End : i = End - k
        BY <1>1, <3>1
      <4> HIDE DEF V
      <4>. QED  BY <4>1
    <3>2. CASE k # 0
      <4>1. k - 1 \in 0..(End - 1) /\ ~(k <= k - 1)
        BY <1>1, <2>2, <3>2
      <4>2. k - 1 \notin B
        <5> HIDE DEF B
        <5>. QED  BY <2>1, <4>1
      <4>3. PICK f : f = G(f, k - 1)
        <5> HIDE DEF G
        <5>. QED  BY <4>1, <4>2
      <4>4. \A i \in (End - k)..End : i # End - k => i \in (End - (k - 1))..End
        BY <1>1, <2>2
      <4> HIDE DEF V
      <4>. QED  BY <4>3, <4>4
    <3>. QED  BY <3>1, <3>2
  <2>4. ASSUME NEW i \in (End - k)..End, ~Halts(i)
        PROVE  G(f, k)[i + Read(i)[1]] = f[i + Read(i)[1]]
    <3>1. i \in 1..End
      BY <1>1, <2>2
    <3>2. i + Read(i)[1] \in (End - k)..End /\ i + Read(i)[1] # End - k
      <4>1. Read(i)[1] # 0
        BY <2>4 DEF Halts, Ref!Stops, Read
      <4>2. PICK c \in Nat, rs \in Seq(Rune) : Read(i) = <<c, rs>> /\ c > 0 /\ i + c \in 1..End
        BY <3>1, <4>1, ReadType
      <4>. QED  BY <1>1, <2>2, <4>2
    <3> HIDE DEF V
    <3>. QED  BY <2>3, <3>2
  <2>5. \A i \in (End - k)..End : V(f, i) = V(G(f, k), i)
    <3> HIDE DEF G
    <3>. QED  BY <2>4
  <2>6. G(f, k) = G(G(f, k), k)
    <3>1. G(f, k) = [i \in (End - k)..End |-> V(G(f, k), i)]
      <4> HIDE DEF V
      <4>. QED  BY <2>5, SMTT(30)
    <3>. QED  BY <3>1
  <2>. QED  BY <2>6
<1>. QED  BY <1>2, <1>3

(* The recursion of StringText, unfolded once. *)
LEMMA FromDef ==
  ASSUME TypeOK, NEW i \in 1..End
  PROVE  From[i] = IF Halts(i) THEN [at |-> i, text |-> << >>]
                   ELSE [at   |-> From[i + Read(i)[1]].at,
                         text |-> Read(i)[2] \o From[i + Read(i)[1]].text]
<1> DEFINE F(f) == [j \in 1..(Len(data) + 1) |->
                       IF Ref!Stops(data, j) THEN [at |-> j, text |-> << >>]
                       ELSE [at   |-> f[j + Ref!CharAt(data, j)[1]].at,
                             text |-> Ref!CharAt(data, j)[2] \o f[j + Ref!CharAt(data, j)[1]].text]]
<1>1. From = CHOOSE f : f = F(f)
  BY DEF From, Ref!Decodings
<1>2. \E f : f = F(f)
  BY DecodingsExist
<1>3. From = F(From)
  <2> HIDE DEF F
  <2>. QED  BY <1>1, <1>2
<1>4. i \in 1..(Len(data) + 1)
  BY EndType
<1>5. F(From)[i] = IF Ref!Stops(data, i) THEN [at |-> i, text |-> << >>]
                   ELSE [at   |-> From[i + Ref!CharAt(data, i)[1]].at,
                         text |-> Ref!CharAt(data, i)[2] \o From[i + Ref!CharAt(data, i)[1]].text]
  BY <1>4
<1>. QED  BY <1>3, <1>5 DEF Halts, Read

LEMMA FromType ==
  ASSUME TypeOK
  PROVE  \A i \in 1..End : From[i].at \in 1..End /\ From[i].text \in Seq(Rune)
<1> DEFINE T(i) == From[i].at \in 1..End /\ From[i].text \in Seq(Rune)
           B == {k \in 0..End : End - k \in 1..End /\ ~T(End - k)}
<1>1. End \in Nat \ {0} /\ B \subseteq Nat
  BY EndType
<1>2. CASE B = {}
  <2>1. ASSUME NEW i \in 1..End PROVE T(i)
    <3>1. End - i \in 0..End /\ End - (End - i) = i
      BY <1>1
    <3> HIDE DEF T
    <3>. QED  BY <1>2, <3>1
  <2>. QED  BY <2>1
<1>3. CASE B # {}
  <2>1. PICK k \in B : \A j \in B : k <= j
    <3> HIDE DEF B
    <3>. QED  BY <1>1, <1>3, LeastElement
  <2> DEFINE i == End - k
  <2>2. k \in Nat /\ i \in 1..End /\ ~T(i)
    <3> HIDE DEF T
    <3>. QED  BY <1>1
  <2>3. ~Halts(i)
    <3> SUFFICES ASSUME Halts(i) PROVE FALSE
      OBVIOUS
    <3>1. From[i] = [at |-> i, text |-> << >>]
      BY <2>2, FromDef
    <3>2. << >> \in Seq(Rune)
      OBVIOUS
    <3> HIDE DEF i
    <3>. QED  BY <2>2, <3>1, <3>2
  <2>4. Read(i)[1] # 0
    BY <2>3 DEF Halts, Ref!Stops, Read
  <2>5. PICK c \in Nat, rs \in Seq(Rune) : Read(i) = <<c, rs>> /\ c > 0 /\ i + c \in 1..End
    <3> HIDE DEF i
    <3>. QED  BY <2>2, <2>4, ReadType
  <2>6. k - c \in 0..End /\ End - (k - c) = i + c /\ ~(k <= k - c)
    BY <1>1, <2>2, <2>5
  <2>7. T(i + c)
    <3>1. k - c \notin B
      <4> HIDE DEF B
      <4>. QED  BY <2>1, <2>6
    <3> HIDE DEF T, i
    <3>. QED  BY <2>5, <2>6, <3>1
  <2>8. From[i] = [at |-> From[i + c].at, text |-> rs \o From[i + c].text]
    <3>1. Read(i)[1] = c /\ Read(i)[2] = rs
      BY <2>5
    <3> HIDE DEF i
    <3>. QED  BY <2>2, <2>3, <3>1, FromDef
  <2>9. rs \o From[i + c].text \in Seq(Rune)
    BY <2>7, ConcatProperties
  <2>. QED
    <3> HIDE DEF i
    <3>. QED  BY <2>2, <2>7, <2>8, <2>9
<1>. QED  BY <1>2, <1>3

-----------------------------------------------------------------------------
(* What has been read so far, and what StringText reads from here on, make *)
(* up what it reads from the start. *)
Follows ==
  pc # "done" =>
    /\ pos \in 1..End
    /\ verdict.class = None
    /\ size = Bytes(buf)
    /\ Decoded.at = From[pos].at
    /\ Decoded.text = buf \o From[pos].text

Outcome == MatchesReference /\ CulpritReported

LEMMA SameText ==
  ASSUME data' = data
  PROVE  /\ Decoded' = Decoded
         /\ End' = End
         /\ From' = From
         /\ \A i \in Nat : KindAt(i)' = KindAt(i)
<1>1. Decoded' = Decoded
  BY DEF Decoded
<1>2. From' = From
  BY DEF From
<1>3. End' = End /\ \A i \in Nat : KindAt(i)' = KindAt(i)
  BY DEF End, KindAt
<1>. QED  BY <1>1, <1>2, <1>3

LEMMA SeqRuneNat == Seq(Rune) \subseteq Seq(Nat)
BY RuneIsNat, SeqMonotonic

LEMMA DecodedIsFrom == Decoded = From[1]
BY DEF Decoded, From, Ref!Decode

LEMMA AtStop ==
  ASSUME TypeOK, Follows, pc # "done", Halts(pos)
  PROVE  Decoded.at = pos /\ Decoded.text = buf /\ size = Bytes(Decoded.text)
<1>1. pos \in 1..End /\ buf \in Seq(Rune)
  BY DEF TypeOK, Follows
<1>2. From[pos] = [at |-> pos, text |-> << >>]
  BY <1>1, FromDef
<1>3. buf \o << >> = buf
  BY <1>1, ConcatEmptySeq
<1>. QED  BY <1>2, <1>3 DEF Follows

LEMMA Regrouped == \A x, y, z \in Seq(Rune) : (x \o y) \o z = x \o (y \o z)
<1> SUFFICES ASSUME NEW x \in Seq(Rune), NEW y \in Seq(Rune), NEW z \in Seq(Rune)
             PROVE  (x \o y) \o z = x \o (y \o z)
  OBVIOUS
<1>. QED  BY ConcatAssociative

LEMMA Beyond ==
  ASSUME TypeOK, Follows, pc # "done", ~Halts(pos),
         NEW c \in Nat, NEW rs \in Seq(Rune), Read(pos) = <<c, rs>>
  PROVE  /\ pos + c \in 1..End
         /\ Decoded.at = From[pos + c].at
         /\ Decoded.text = (buf \o rs) \o From[pos + c].text
         /\ From[pos + c].text \in Seq(Rune)
         /\ size + Bytes(rs) = Bytes(buf \o rs)
<1>1. pos \in 1..End /\ buf \in Seq(Rune) /\ size = Bytes(buf)
  BY DEF TypeOK, Follows
<1>2. From[pos] = [at |-> From[pos + c].at, text |-> rs \o From[pos + c].text]
  <2>1. Read(pos)[1] = c /\ Read(pos)[2] = rs
    OBVIOUS
  <2>. QED  BY <1>1, <2>1, FromDef
<1>3. pos + c \in 1..End
  <2>1. c # 0
    BY DEF Halts, Ref!Stops, Read
  <2>2. Read(pos)[1] # 0
    BY <2>1
  <2>3. PICK d \in Nat, qs \in Seq(Rune) : Read(pos) = <<d, qs>> /\ d > 0 /\ pos + d \in 1..End
    <3>1. \/ Read(pos) = <<0, << >> >>
          \/ \E d \in Nat, qs \in Seq(Rune) : Read(pos) = <<d, qs>> /\ d > 0 /\ pos + d \in 1..End
      BY <1>1, ReadType
    <3>2. Read(pos) # <<0, << >> >>
      BY <2>2
    <3>. QED  BY <3>1, <3>2, Zenon
  <2>. QED  BY <2>3
<1>4. From[pos + c].text \in Seq(Rune)
  BY <1>3, FromType
<1>5. buf \o (rs \o From[pos + c].text) = (buf \o rs) \o From[pos + c].text
  <2> DEFINE t == From[pos + c].text
  <2>1. t \in Seq(Rune)
    BY <1>4
  <2> HIDE DEF t
  <2>2. (buf \o rs) \o t = buf \o (rs \o t)
    BY <1>1, <2>1, Regrouped, Zenon
  <2>. QED  BY <2>2 DEF t
<1>6. size + Bytes(rs) = Bytes(buf \o rs)
  BY <1>1, SeqRuneNat, BytesConcat
<1>7. Decoded.at = From[pos].at /\ Decoded.text = buf \o From[pos].text
  BY DEF Follows
<1>8. From[pos].at = From[pos + c].at /\ From[pos].text = rs \o From[pos + c].text
  BY <1>2
<1>. QED  BY <1>3, <1>4, <1>5, <1>6, <1>7, <1>8

(* A character read and kept. *)
LEMMA Advance ==
  ASSUME TypeOK, Follows, pc # "done", ~Halts(pos),
         NEW c \in Nat, NEW rs \in Seq(Rune), Read(pos) = <<c, rs>>,
         pos' = pos + c, buf' = buf \o rs, size' = size + Bytes(rs), UNCHANGED <<data, pc, verdict>>
  PROVE  Follows' /\ Outcome'
<1>1. Decoded' = Decoded /\ End' = End /\ From' = From
  BY SameText
<1>2. Follows'
  BY <1>1, Beyond DEF Follows
<1>3. Outcome'
  BY DEF Outcome, MatchesReference, CulpritReported
<1>. QED  BY <1>2, <1>3

(* A rejection at a place where StringText stops too. *)
LEMMA StoppedThere ==
  ASSUME TypeOK, Follows, pc # "done", Halts(pos), KindAt(pos) # "quote",
         NEW class \in {"Noncharacter", "LoneSurrogate", "InvalidGrammar"}, NEW at \in Nat,
         Reject(class, at),
         at = (IF HexAt(pos) /\ UnicodeAt(pos + 3) /\ Ref!High(Hex(pos)) /\ Read(pos)[1] = 0
               THEN pos + 3 ELSE pos),
         class = "Noncharacter" => Read(pos)[1] # 0,
         class = "LoneSurrogate" => HexAt(at) /\ Read(pos)[1] = 0,
         class = "InvalidGrammar" => ~HexAt(at) /\ Read(pos)[1] = 0
  PROVE  Follows' /\ Outcome'
<1>1. Decoded.at = pos
  BY AtStop
<1>2. UNCHANGED data /\ pc' = "done" /\ verdict' = [class |-> class, at |-> at] /\ class # None
  BY DEF Reject, None
<1>3. Follows'
  BY <1>2 DEF Follows
<1>4. /\ Decoded'.at = pos
      /\ KindAt(Decoded.at)' # "quote"
      /\ \A i \in Nat : HexAt(i)' = HexAt(i) /\ UnicodeAt(i)' = UnicodeAt(i) /\ Hex(i)' = Hex(i)
      /\ Ref!CharAt(data, Decoded.at)' = Ref!CharAt(data, pos)
  <2>1. Decoded' = Decoded /\ \A i \in Nat : KindAt(i)' = KindAt(i)
    BY <1>2, SameText
  <2>2. pos \in Nat
    BY DEF TypeOK
  <2>3. KindAt(Decoded.at)' = KindAt(pos)
    BY <1>1, <1>2, <2>1 DEF KindAt, End
  <2>4. \A i \in Nat : HexAt(i)' = HexAt(i) /\ UnicodeAt(i)' = UnicodeAt(i) /\ Hex(i)' = Hex(i)
    BY <1>2, <2>1 DEF HexAt, UnicodeAt, Hex
  <2>. QED  BY <1>1, <1>2, <2>1, <2>3, <2>4
<1>5. MatchesReference'
  BY <1>2, <1>4 DEF MatchesReference
<1>6. Unreadable' <=> Read(pos)[1] = 0
  BY <1>4 DEF Unreadable, Read
<1>7. pos \in Nat /\ pos + 3 \in Nat
  BY DEF TypeOK
<1>8. InBrokenPair' <=> HexAt(pos) /\ UnicodeAt(pos + 3) /\ Ref!High(Hex(pos))
  BY <1>4, <1>7 DEF InBrokenPair
<1>9. CulpritReported'
  <2>1. verdict.at' = at /\ verdict.class' = class
    BY <1>2
  <2>2. at = (IF InBrokenPair' /\ Unreadable' THEN Decoded'.at + 3 ELSE Decoded'.at)
    BY <1>4, <1>6, <1>8
  <2>3. HexAt(verdict.at)' = HexAt(at)
    BY <1>4, <2>1
  <2>. QED  BY <1>2, <1>6, <2>1, <2>2, <2>3 DEF CulpritReported
<1>. QED  BY <1>3, <1>5, <1>9 DEF Outcome

(* A rejection for length. *)
LEMMA RefusedForLength ==
  ASSUME TypeOK, NEW at \in Nat, Reject("BoundExceeded", at), Bytes(Decoded.text) > MaxStringBytes,
         Bytes(Decoded.text) \in Nat
  PROVE  Follows' /\ Outcome'
<1>1. UNCHANGED data /\ pc' = "done" /\ verdict' = [class |-> "BoundExceeded", at |-> at]
  BY DEF Reject
<1>2. Decoded' = Decoded
  BY <1>1, SameText
<1>3. MatchesReference'
  BY <1>1, <1>2, MaxAssumption DEF MatchesReference, None
<1>. QED  BY <1>1, <1>3 DEF Follows, Outcome, CulpritReported

(* What is left of a code point by planes, and the two noncharacters that  *)
(* end each of them.                                                       *)
LEMMA InPlane == \A x, y \in Nat : y > 0 => x % y \in Nat /\ x % y < y
OBVIOUS

LEMMA EndsPlane ==
  \A x, m \in Nat :
    m < 65536 => ((64976 <= x /\ x <= 65007) \/ m \in {65534, 65535}
                    <=> ~(x \notin 64976..65007 /\ m < 65534))
OBVIOUS

LEMMA AllowedRune ==
  ASSUME NEW r \in Nat, ~IsSurrogate(r)
  PROVE  /\ RuneError(r) = None <=> Ref!Allowed(<<r>>)
         /\ RuneError(r) \in {None, "Noncharacter"}
<1> DEFINE m == r % 65536
<1>1. Ref!Allowed(<<r>>) <=> r \notin 64976..65007 /\ m < 65534
  <2> DEFINE u == <<r>>
             good(x) == x \notin 64976..65007 /\ x % 65536 < 65534
  <2>1. Len(u) = 1 /\ u[1] = r
    OBVIOUS
  <2> HIDE DEF u
  <2>2. Ref!Allowed(u) <=> \A j \in 1..Len(u) : good(u[j])
    BY DEF Ref!Allowed
  <2>3. good(r) <=> r \notin 64976..65007 /\ m < 65534
    OBVIOUS
  <2> HIDE DEF good, m
  <2>4. Ref!Allowed(u) <=> r \notin 64976..65007 /\ m < 65534
    BY <2>1, <2>2, <2>3
  <2>. QED  BY <2>4 DEF u
<1>2. m \in Nat /\ m < 65536
  <2>1. \A y \in Nat : y > 0 => r % y \in Nat /\ r % y < y
    BY InPlane
  <2>2. 65536 \in Nat /\ 65536 > 0
    OBVIOUS
  <2>. QED  BY <2>1, <2>2
<1>3. IsNoncharacter(r) <=> (64976 <= r /\ r <= 65007) \/ m \in {65534, 65535}
  BY DEF IsNoncharacter
<1> HIDE DEF m
<1>4. IsNoncharacter(r) <=> ~(r \notin 64976..65007 /\ m < 65534)
  BY <1>2, <1>3, EndsPlane
<1>. QED  BY <1>1, <1>4 DEF RuneError, None

-----------------------------------------------------------------------------
(* A rune read by the general path: kept, or refused in the same way.      *)
LEMMA AppendFollows ==
  ASSUME IInv, Follows, pc = "general",
         NEW r \in Rune, ~IsSurrogate(r), NEW c \in Nat, c > 0, Read(pos) = <<c, <<r>> >>,
         NEW at \in Nat \ {0}, AppendRune(r, pos, at, pos + c)
  PROVE  Follows' /\ Outcome'
<1>1. TypeOK /\ pos \in Nat \ {0} /\ pc # "done" /\ r \in Nat /\ <<r>> \in Seq(Rune)
      /\ buf \in Seq(Rune) /\ size \in Nat
  BY RuneIsNat DEF IInv, TypeOK
<1>2. Read(pos)[1] # 0 /\ Read(pos)[2] = <<r>> /\ Read(pos)[1] = c
  OBVIOUS
<1>3. KindAt(pos) # "quote"
  <2>1. KindAt(pos) = "quote" => Read(pos) = <<0, << >> >>
    BY <1>1, ReadCases
  <2>. QED  BY <1>2, <2>1
<1>4. Halts(pos) <=> RuneError(r) # None
  BY <1>1, <1>2, AllowedRune DEF Halts, Ref!Stops, Read
<1>5. CASE RuneError(r) # None /\ Reject(RuneError(r), pos)
  <2>1. RuneError(r) = "Noncharacter" /\ Halts(pos)
    BY <1>1, <1>4, <1>5, AllowedRune
  <2>2. pos = (IF HexAt(pos) /\ UnicodeAt(pos + 3) /\ Ref!High(Hex(pos)) /\ Read(pos)[1] = 0
               THEN pos + 3 ELSE pos)
    BY <1>2
  <2>3. Reject("Noncharacter", pos)
    BY <1>5, <2>1
  <2>. QED  BY <1>1, <1>2, <1>3, <2>1, <2>2, <2>3, StoppedThere
<1>6. CASE RuneError(r) = None /\ ~Fits(r) /\ Reject("BoundExceeded", at)
  <2>1. ~Halts(pos)
    BY <1>4, <1>6
  <2> DEFINE t == From[pos + c].text
  <2>2. /\ Decoded.text = (buf \o <<r>>) \o t
        /\ t \in Seq(Rune)
        /\ size + Bytes(<<r>>) = Bytes(buf \o <<r>>)
    BY <1>1, <2>1, Beyond
  <2>3. buf \o <<r>> \in Seq(Rune)
    BY <1>1, ConcatProperties
  <2> HIDE DEF t
  <2>4. Bytes(Decoded.text) = Bytes(buf \o <<r>>) + Bytes(t) /\ Bytes(t) \in Nat
        /\ Bytes(buf \o <<r>>) \in Nat
    BY <2>2, <2>3, SeqRuneNat, BytesConcat
  <2>5. Bytes(buf \o <<r>>) = size + RuneLen(r) /\ RuneLen(r) \in Nat
    BY <1>1, <2>2, BytesOne, RuneLenType
  <2>6. Bytes(Decoded.text) > MaxStringBytes /\ Bytes(Decoded.text) \in Nat
    BY <1>1, <1>6, <2>4, <2>5, MaxAssumption DEF Fits
  <2>. QED  BY <1>1, <1>6, <2>6, RefusedForLength
<1>7. CASE /\ RuneError(r) = None /\ buf' = Append(buf, r) /\ size' = size + RuneLen(r)
           /\ pos' = pos + c /\ UNCHANGED <<data, pc, verdict>>
  <2>1. ~Halts(pos)
    BY <1>4, <1>7
  <2>2. buf' = buf \o <<r>> /\ size' = size + Bytes(<<r>>)
    BY <1>1, <1>7, AppendIsConcat, BytesOne
  <2>. QED  BY <1>1, <1>7, <2>1, <2>2, Advance
<1>. QED  BY <1>5, <1>6, <1>7 DEF AppendRune

(* A rejection for grammar where no character can be read. *)
LEMMA UnreadableThere ==
  ASSUME TypeOK, Follows, pc # "done", Read(pos) = <<0, << >> >>, KindAt(pos) # "quote",
         NEW class \in {"LoneSurrogate", "InvalidGrammar"}, NEW at \in Nat, Reject(class, at),
         class = "LoneSurrogate" <=> HexAt(at),
         at = (IF HexAt(pos) /\ UnicodeAt(pos + 3) /\ Ref!High(Hex(pos)) THEN pos + 3 ELSE pos)
  PROVE  Follows' /\ Outcome'
<1>1. Read(pos)[1] = 0 /\ Halts(pos)
  BY DEF Halts, Ref!Stops, Read
<1>2. class # "Noncharacter"
  OBVIOUS
<1>3. class \in {"Noncharacter", "LoneSurrogate", "InvalidGrammar"}
  OBVIOUS
<1>4. at = (IF HexAt(pos) /\ UnicodeAt(pos + 3) /\ Ref!High(Hex(pos)) /\ Read(pos)[1] = 0
            THEN pos + 3 ELSE pos)
  BY <1>1
<1>5. (class = "LoneSurrogate" => HexAt(at)) /\ (class = "InvalidGrammar" => ~HexAt(at))
  OBVIOUS
<1>. QED  BY <1>1, <1>2, <1>3, <1>4, <1>5, StoppedThere

(* Both ways to close a string. *)
LEMMA ClosedThere ==
  ASSUME TypeOK, Follows, pc # "done", KindAt(pos) = "quote", size <= MaxStringBytes,
         pos' = pos + 1, pc' = "done", UNCHANGED <<data, buf, size, verdict>>
  PROVE  Follows' /\ Outcome'
<1>1. Read(pos) = <<0, << >> >>
  BY ReadCases DEF TypeOK
<1>2. Halts(pos)
  BY <1>1 DEF Halts, Ref!Stops, Read
<1>3. Decoded.at = pos /\ Decoded.text = buf /\ size = Bytes(Decoded.text) /\ verdict.class = None
  BY <1>2, AtStop DEF Follows
<1>4. Decoded' = Decoded /\ KindAt(Decoded.at)' = "quote"
  <2>1. Decoded' = Decoded /\ pos \in Nat
    BY SameText DEF TypeOK
  <2>. QED  BY <1>3, <2>1 DEF KindAt, End
<1>5. MatchesReference'
  BY <1>3, <1>4 DEF MatchesReference
<1>. QED  BY <1>3, <1>5 DEF Follows, Outcome, CulpritReported

LEMMA PlainIsAllowed ==
  ASSUME NEW u \in Unit, u.kind \in {"u", "simple", "plain", "quad"}
  PROVE  /\ Plain(u) \in Seq(Rune)
         /\ Ref!Allowed(Plain(u))
         /\ Bytes(Plain(u)) = PlainLen(u)
<1>0. 0..127 \subseteq Rune /\ Plain(u) \in Seq(0..127)
  BY MaxRuneType, PlainOfFast DEF Rune
<1>1. Plain(u) \in Seq(Rune)
  BY <1>0, SeqMonotonic
<1>2. Ref!Allowed(Plain(u))
  <2> DEFINE p == Plain(u)
             Ok(r) == r \notin 64976..65007 /\ r % 65536 < 65534
  <2>1. \A r \in 0..127 : Ok(r)
    OBVIOUS
  <2>2. ASSUME NEW j \in 1..Len(p) PROVE Ok(p[j])
    <3>1. p[j] \in 0..127
      BY <1>0, ElementOfSeq
    <3> HIDE DEF Ok, p
    <3>. QED  BY <2>1, <3>1, Zenon
  <2>3. (\A j \in 1..Len(p) : Ok(p[j])) => Ref!Allowed(p)
    <3> HIDE DEF p
    <3>. QED  BY SMT DEF Ref!Allowed
  <2>. QED  BY <2>2, <2>3
<1>3. CASE u.kind = "quad"
  <2> DEFINE a == <<48>>
             b == <<48, 48>>
  <2>1. Plain(u) = b \o b /\ b = a \o a /\ a \in Seq(Nat) /\ b \in Seq(Nat)
    BY <1>3 DEF Plain
  <2>2. RuneLen(48) = 1
    BY DEF RuneLen
  <2>3. Bytes(a) = 1
    BY <2>2, BytesOne
  <2> HIDE DEF a, b
  <2>4. Bytes(b) = Bytes(a) + Bytes(a)
    BY <2>1, BytesConcat
  <2>6. Bytes(b \o b) = Bytes(b) + Bytes(b)
    BY <2>1, BytesConcat
  <2>5. Bytes(b \o b) = 4
    BY <2>3, <2>4, <2>6
  <2>. QED  BY <1>1, <1>2, <1>3, <2>1, <2>5 DEF PlainLen
<1>4. CASE u.kind # "quad"
  <2>1. u.cp \in 0..127
    BY <1>4, UnitCp
  <2>2. u.cp \in Nat /\ RuneLen(110) = 1 /\ RuneLen(u.cp) = 1
    BY <2>1 DEF RuneLen
  <2>3. PlainLen(u) = 1
    BY <1>4, <2>2 DEF PlainLen
  <2>4. Plain(u) = <<110>> \/ Plain(u) = <<u.cp>>
    BY <1>4 DEF Plain
  <2>7. Bytes(<<110>>) = 1 /\ Bytes(<<u.cp>>) = 1
    BY <2>2, BytesOne
  <2>6. Bytes(Plain(u)) = 1
    BY <2>4, <2>7, Zenon
  <2>. QED  BY <1>1, <1>2, <2>3, <2>6
<1>. QED  BY <1>3, <1>4

-----------------------------------------------------------------------------
LEMMA FastPathFollows == IInv /\ Follows /\ FastPath => Follows' /\ Outcome'
<1>. SUFFICES ASSUME IInv, Follows, FastPath PROVE Follows' /\ Outcome'  OBVIOUS
<1>0. TypeOK /\ pos \in Nat \ {0} /\ buf \in Seq(Rune) /\ size \in Nat
  BY DEF IInv, TypeOK
<1>1. CASE FastByte
  <2>1. KindAt(pos) \in {"u", "simple", "plain", "quad"} /\ pc # "done"
        /\ pos' = pos + 1 /\ buf' = buf \o Plain(data[pos])
        /\ size' = size + PlainLen(data[pos]) /\ UNCHANGED <<data, pc, verdict>>
    BY <1>1 DEF FastByte, IsFast
  <2>2. data[pos] \in Unit /\ data[pos].kind = KindAt(pos)
    BY <1>0, <2>1, UnitAt DEF None
  <2>3. Read(pos) = <<1, Plain(data[pos])>>
    BY <1>0, <2>1, ReadCases
  <2>4. /\ Plain(data[pos]) \in Seq(Rune)
        /\ Ref!Allowed(Plain(data[pos]))
        /\ Bytes(Plain(data[pos])) = PlainLen(data[pos])
    BY <2>1, <2>2, PlainIsAllowed
  <2>5. ~Halts(pos)
    BY <2>3, <2>4 DEF Halts, Ref!Stops, Read
  <2>. QED  BY <1>0, <2>1, <2>3, <2>4, <2>5, Advance
<1>2. CASE FastClose
  BY <1>0, <1>2, ClosedThere DEF FastClose
<1>3. CASE FastTooLong
  <2>1. pc # "done" /\ KindAt(pos) = "quote" /\ size > MaxStringBytes /\ Reject("BoundExceeded", pos)
    BY <1>3 DEF FastTooLong
  <2>2. Halts(pos)
    BY <1>0, <2>1, ReadCases DEF Halts, Ref!Stops, Read
  <2>3. size = Bytes(Decoded.text)
    BY <1>0, <2>1, <2>2, AtStop
  <2>. QED  BY <1>0, <2>1, <2>3, RefusedForLength
<1>4. CASE LeaveFast
  <2>1. pc = "fast" /\ pc' = "general" /\ UNCHANGED <<data, pos, buf, size, verdict>>
    BY <1>4 DEF LeaveFast
  <2>2. Decoded' = Decoded /\ From' = From /\ End' = End
    BY <2>1, SameText
  <2>. QED  BY <2>1, <2>2 DEF Follows, Outcome, MatchesReference, CulpritReported
<1>. QED  BY <1>1, <1>2, <1>3, <1>4 DEF FastPath

LEMMA RawFollows == IInv /\ Follows /\ Raw => Follows' /\ Outcome'
<1>. SUFFICES ASSUME IInv, Follows, Raw PROVE Follows' /\ Outcome'  OBVIOUS
<1>0. TypeOK /\ pos \in Nat \ {0} /\ buf \in Seq(Rune) /\ size \in Nat
  BY DEF IInv, TypeOK
<1>1. CASE Unterminated \/ ControlCharacter
  <2>1. pc # "done" /\ KindAt(pos) \in {None, "ctrl"} /\ Reject("InvalidGrammar", pos)
    BY <1>1 DEF Unterminated, ControlCharacter, General
  <2>2. Read(pos) = <<0, << >> >>
    BY <1>0, <2>1, ReadCases DEF None
  <2>3. ~HexAt(pos) /\ KindAt(pos) # "quote"
    BY <2>1 DEF HexAt, UnicodeAt, None
  <2>. QED  BY <1>0, <2>1, <2>2, <2>3, UnreadableThere
<1>2. CASE Close
  <2>1. pc = "general" /\ KindAt(pos) = "quote"
    BY <1>2 DEF Close, General
  <2>2. size <= MaxStringBytes
    BY <1>0, <2>1, MaxAssumption DEF IInv, CloseIsChecked
  <2>. QED  BY <1>0, <1>2, <2>1, <2>2, ClosedThere DEF Close
<1>3. CASE PlainRune
  <2>1. KindAt(pos) \in {"u", "simple", "plain", "rune"} /\ pc = "general"
        /\ AppendRune(Plain(data[pos])[1], pos, pos, pos + 1)
    BY <1>3 DEF PlainRune, General
  <2>2. data[pos] \in Unit /\ data[pos].kind = KindAt(pos)
    BY <1>0, <2>1, UnitAt DEF None
  <2>3. /\ data[pos].cp \in Rune /\ 110 \in Rune /\ ~IsSurrogate(110)
        /\ ~IsSurrogate(data[pos].cp)
    <3>1. \A r \in 0..127 : ~IsSurrogate(r)
      BY DEF IsSurrogate
    <3>. QED  BY <2>1, <2>2, <3>1, UnitCp, MaxRuneType DEF Rune
  <2>4. PICK r \in Rune : Plain(data[pos]) = <<r>> /\ ~IsSurrogate(r)
    BY <2>1, <2>2, <2>3 DEF Plain
  <2>5. Read(pos) = <<1, <<r>> >> /\ AppendRune(r, pos, pos, pos + 1)
    BY <1>0, <2>1, <2>4, ReadCases
  <2>. QED  BY <1>0, <2>1, <2>4, <2>5, AppendFollows
<1>4. CASE PlainQuad
  <2>1. KindAt(pos) = "quad" /\ pc # "done"
    BY <1>4 DEF PlainQuad, General
  <2>2. data[pos] \in Unit /\ data[pos].kind = "quad"
    BY <1>0, <2>1, UnitAt DEF None
  <2>3. Read(pos) = <<1, Plain(data[pos])>>
    BY <1>0, <2>1, ReadCases
  <2>4. /\ Plain(data[pos]) \in Seq(Rune)
        /\ Ref!Allowed(Plain(data[pos]))
        /\ Bytes(Plain(data[pos])) = 4
    BY <2>2, PlainIsAllowed DEF PlainLen
  <2>5. ~Halts(pos)
    BY <2>3, <2>4 DEF Halts, Ref!Stops, Read
  <2>6. CASE /\ buf' = buf \o Plain(data[pos]) /\ size' = size + 4 /\ pos' = pos + 1
             /\ UNCHANGED <<data, pc, verdict>>
    BY <1>0, <2>1, <2>3, <2>4, <2>5, <2>6, Advance
  <2>7. CASE size + 4 > MaxStringBytes /\ Reject("BoundExceeded", pos)
    <3> DEFINE t == From[pos + 1].text
               q == Plain(data[pos])
    <3>1. Decoded.text = (buf \o q) \o t /\ t \in Seq(Rune) /\ size + Bytes(q) = Bytes(buf \o q)
      BY <1>0, <2>1, <2>3, <2>4, <2>5, Beyond
    <3>2. buf \o q \in Seq(Rune) /\ Bytes(q) = 4
      BY <1>0, <2>4, ConcatProperties
    <3> HIDE DEF t, q
    <3>3. Bytes(Decoded.text) = Bytes(buf \o q) + Bytes(t) /\ Bytes(t) \in Nat
      BY <3>1, <3>2, SeqRuneNat, BytesConcat
    <3>4. Bytes(Decoded.text) > MaxStringBytes /\ Bytes(Decoded.text) \in Nat
      BY <1>0, <2>7, <3>1, <3>2, <3>3, MaxAssumption
    <3>. QED  BY <1>0, <2>7, <3>4, RefusedForLength
  <2>. QED  BY <1>4, <2>6, <2>7 DEF PlainQuad
<1>. QED  BY <1>1, <1>2, <1>3, <1>4 DEF Raw

-----------------------------------------------------------------------------
LEMMA EscapeFollows == IInv /\ Follows /\ Escape => Follows' /\ Outcome'
<1>. SUFFICES ASSUME IInv, Follows, Escape PROVE Follows' /\ Outcome'  OBVIOUS
<1>0. TypeOK /\ pos \in Nat \ {0} /\ pos \in Nat /\ pos + 3 \in Nat \ {0}
  BY DEF IInv, TypeOK
<1>1. /\ HexAt(pos) => Hex(pos) \in Rune
      /\ HexAt(pos + 3) => Hex(pos + 3) \in Rune
  <2>1. HexAt(pos) => Hex(pos) \in Hex4
    BY <1>0, HexType
  <2>2. HexAt(pos + 3) => Hex(pos + 3) \in Hex4
    BY <1>0, HexType
  <2>. QED  BY <2>1, <2>2, Hex4IsRune
<1>2. \A h \in Rune : Ref!High(h) <=> IsSurrogate(h) /\ ~IsLowSurrogate(h)
  BY RuneIsNat DEF Ref!High, IsSurrogate, IsLowSurrogate
<1>3. CASE SimpleEscape
  <2>1. /\ pc = "general" /\ KindAt(pos) = "backslash"
        /\ KindAt(pos + 1) \in {"simple", "quote", "backslash"}
        /\ AppendRune(SimpleRune(data[pos + 1]), pos, pos + 2, pos + 2)
    BY <1>3 DEF SimpleEscape, General
  <2>2. data[pos + 1] \in Unit /\ data[pos + 1].kind \in {"simple", "quote", "backslash"}
    BY <1>0, <2>1, UnitAt DEF None
  <2>3. SimpleRune(data[pos + 1]) \in 0..127
    BY <2>2, UnitCp DEF SimpleRune
  <2>4. SimpleRune(data[pos + 1]) \in Rune /\ ~IsSurrogate(SimpleRune(data[pos + 1]))
    BY <2>3, MaxRuneType, AsciiIsClean DEF Rune, Clean
  <2>5. Read(pos) = <<2, <<SimpleRune(data[pos + 1])>> >> /\ pos + 2 \in Nat \ {0}
    BY <1>0, <2>1, ReadCases
  <2>. QED  BY <2>1, <2>4, <2>5, AppendFollows
<1>4. CASE UnicodeEscape
  <2>1. /\ pc = "general" /\ HexAt(pos) /\ ~IsSurrogate(Hex(pos))
        /\ AppendRune(Hex(pos), pos, pos + 3, pos + 3)
    BY <1>4 DEF UnicodeEscape, General
  <2>2. Read(pos) = <<3, <<Hex(pos)>> >>
    BY <1>0, <2>1, ReadCases
  <2>. QED  BY <1>0, <1>1, <2>1, <2>2, AppendFollows
<1>5. CASE SurrogatePair
  <2>1. /\ pc = "general" /\ HexAt(pos) /\ HexAt(pos + 3)
        /\ IsSurrogate(Hex(pos)) /\ ~IsLowSurrogate(Hex(pos)) /\ IsLowSurrogate(Hex(pos + 3))
        /\ AppendRune(DecodePair(Hex(pos), Hex(pos + 3)), pos, pos + 6, pos + 6)
    BY <1>5 DEF SurrogatePair, High, General
  <2>2. Read(pos) = <<6, <<DecodePair(Hex(pos), Hex(pos + 3))>> >> /\ pos + 6 \in Nat \ {0}
    BY <1>0, <2>1, ReadCases
  <2>3. Hex(pos) \in Nat /\ Hex(pos + 3) \in Nat
    BY <1>1, <2>1, RuneIsNat
  <2>4. /\ DecodePair(Hex(pos), Hex(pos + 3)) \in Rune
        /\ ~IsSurrogate(DecodePair(Hex(pos), Hex(pos + 3)))
    BY <2>1, <2>3, PairType
  <2>. QED  BY <2>1, <2>2, <2>4, AppendFollows
<1>6. ASSUME pc = "general", KindAt(pos) = "backslash",
             NEW class \in {"LoneSurrogate", "InvalidGrammar"}, NEW at \in Nat, Reject(class, at),
             Read(pos) = <<0, << >> >>, class = "LoneSurrogate" <=> HexAt(at),
             at = (IF HexAt(pos) /\ UnicodeAt(pos + 3) /\ Ref!High(Hex(pos)) THEN pos + 3 ELSE pos)
      PROVE  Follows' /\ Outcome'
  <2>1. KindAt(pos) # "quote" /\ pc # "done"
    BY <1>6
  <2>. QED  BY <1>0, <1>6, <2>1, UnreadableThere
<1>7. CASE BadEscape \/ BadHex
  <2>1. /\ pc = "general" /\ KindAt(pos) = "backslash" /\ ~HexAt(pos)
        /\ KindAt(pos + 1) \notin {"simple", "quote", "backslash"}
        /\ Reject("InvalidGrammar", pos)
    BY <1>7 DEF BadEscape, BadHex, General, HexAt, UnicodeAt
  <2>2. Read(pos) = <<0, << >> >>
    BY <1>0, <1>7, ReadCases DEF BadEscape, BadHex
  <2>. QED  BY <1>0, <1>6, <2>1, <2>2
<1>8. CASE LoneLow
  <2>1. pc = "general" /\ HexAt(pos) /\ IsLowSurrogate(Hex(pos)) /\ Reject("LoneSurrogate", pos)
        /\ KindAt(pos) = "backslash"
    BY <1>8 DEF LoneLow, General, HexAt, UnicodeAt
  <2>2. Read(pos) = <<0, << >> >> /\ ~Ref!High(Hex(pos))
    BY <1>0, <1>1, <1>2, <2>1, ReadCases
  <2>. QED  BY <1>0, <1>6, <2>1, <2>2
<1>9. CASE LoneHigh \/ BadSecondHex \/ NotLow
  <2>1. /\ pc = "general" /\ HexAt(pos) /\ KindAt(pos) = "backslash"
        /\ IsSurrogate(Hex(pos)) /\ ~IsLowSurrogate(Hex(pos)) /\ Ref!High(Hex(pos))
    BY <1>1, <1>2, <1>9 DEF LoneHigh, BadSecondHex, NotLow, High, General, HexAt, UnicodeAt
  <2>2. ~(HexAt(pos + 3) /\ IsLowSurrogate(Hex(pos + 3)))
    BY <1>9 DEF LoneHigh, BadSecondHex, NotLow, HexAt
  <2>3. Read(pos) = <<0, << >> >>
    BY <1>0, <2>1, <2>2, ReadCases
  <2>4. CASE LoneHigh
    <3>1. ~UnicodeAt(pos + 3) /\ Reject("LoneSurrogate", pos)
      BY <2>4 DEF LoneHigh
    <3>. QED  BY <1>0, <1>6, <2>1, <2>3, <3>1
  <2>5. CASE BadSecondHex
    <3>1. UnicodeAt(pos + 3) /\ ~HexAt(pos + 3) /\ Reject("InvalidGrammar", pos + 3)
      BY <2>5 DEF BadSecondHex
    <3>. QED  BY <1>0, <1>6, <2>1, <2>3, <3>1
  <2>6. CASE NotLow
    <3>1. UnicodeAt(pos + 3) /\ HexAt(pos + 3) /\ Reject("LoneSurrogate", pos + 3)
      BY <2>6 DEF NotLow, HexAt
    <3>. QED  BY <1>0, <1>6, <2>1, <2>3, <3>1
  <2>. QED  BY <1>9, <2>4, <2>5, <2>6
<1>. QED  BY <1>3, <1>4, <1>5, <1>7, <1>8, <1>9 DEF Escape

LEMMA InitFollows == Init => Follows /\ Outcome
<1>. SUFFICES ASSUME Init PROVE Follows /\ Outcome  OBVIOUS
<1>1. TypeOK /\ pos = 1 /\ pc = "fast" /\ buf = << >> /\ size = 0 /\ verdict.class = None
  BY InitHolds DEF Init, IInv
<1>2. 1 \in 1..End
  BY <1>1, EndType
<1>3. From[1].text \in Seq(Rune)
  BY <1>1, <1>2, FromType
<1>4. << >> \o From[1].text = From[1].text
  BY <1>3, ConcatEmptySeq
<1>5. Bytes(<< >>) = 0
  BY BytesOne
<1>6. Follows
  BY <1>1, <1>2, <1>4, <1>5, DecodedIsFrom DEF Follows
<1>. QED  BY <1>1, <1>6 DEF Outcome, MatchesReference, CulpritReported

LEMMA StutterFollows == Follows /\ Outcome /\ UNCHANGED vars => Follows' /\ Outcome'
<1>. SUFFICES ASSUME Follows, Outcome, UNCHANGED vars PROVE Follows' /\ Outcome'  OBVIOUS
<1>1. UNCHANGED <<data, pos, buf, size, pc, verdict>>
  BY DEF vars
<1>2. Decoded' = Decoded /\ From' = From /\ End' = End
  BY <1>1, SameText
<1>3. Follows'
  BY <1>1, <1>2 DEF Follows
<1>4. Unreadable' = Unreadable /\ InBrokenPair' = InBrokenPair
  BY <1>1, <1>2 DEF Unreadable, InBrokenPair, HexAt, UnicodeAt, Hex, KindAt, End
<1>5. Outcome'
  BY <1>1, <1>2, <1>4 DEF Outcome, MatchesReference, CulpritReported, HexAt, UnicodeAt, KindAt, End
<1>. QED  BY <1>3, <1>5

-----------------------------------------------------------------------------
(* The inductive invariant holds in every state of a string scan.          *)
THEOREM Invariance == Spec => []IInv
<1>1. IInv /\ [Next]_vars => IInv'
  BY FastPathKeeps, RawKeeps, EscapeKeeps, StutterKeeps DEF Next
<1>. QED  BY <1>1, InitHolds, PTL DEF Spec

(* A decoded string, finished or not, holds Unicode scalar values that are *)
(* no noncharacters, on every text: the fast path may skip the rune check  *)
(* and the pairs decode to nothing forbidden (IJSON-SUR, IJSON-NONC).      *)
THEOREM DecodedIsClean == Spec => []CleanRunes
BY Invariance, PTL DEF IInv

(* An accepted string never exceeds the decoded byte limit, for every      *)
(* limit, although the general path closes without a check.                *)
THEOREM ByteLimitHolds == Spec => []AcceptedWithinBytes
BY Invariance, PTL DEF IInv

(* The scanner's variables keep their types; every rune is in the Unicode  *)
(* range, those decoded from surrogate pairs included.                     *)
THEOREM TypeCorrect == Spec => []TypeOK
BY Invariance, PTL DEF IInv

LEMMA OutcomeHolds == Spec => [](MatchesReference /\ CulpritReported)
<1>1. Init => IInv /\ Follows /\ Outcome
  BY InitHolds, InitFollows
<1>2. IInv /\ Follows /\ Outcome /\ [Next]_vars => (IInv /\ Follows /\ Outcome)'
  <2>1. IInv /\ [Next]_vars => IInv'
    BY FastPathKeeps, RawKeeps, EscapeKeeps, StutterKeeps DEF Next
  <2>2. IInv /\ Follows /\ Outcome /\ [Next]_vars => Follows' /\ Outcome'
    BY FastPathFollows, RawFollows, EscapeFollows, StutterFollows DEF Next
  <2>. QED  BY <2>1, <2>2
<1>3. Outcome => MatchesReference /\ CulpritReported
  BY DEF Outcome
<1>. QED  BY <1>1, <1>2, <1>3, PTL DEF Spec

(* For all texts and limits the scanner accepts exactly the strings that   *)
(* StringText reads to their quote within the limit, and returns what they *)
(* decode to: the two paths of parseString are one decoder.                *)
THEOREM DecodesAsWritten == Spec => []MatchesReference
BY OutcomeHolds, PTL

(* For all texts a rejection names the first unreadable or forbidden       *)
(* character, at the offset FAILURE_TAXONOMY.md promises.                  *)
THEOREM CulpritIsFirst == Spec => []CulpritReported
BY OutcomeHolds, PTL
=============================================================================
