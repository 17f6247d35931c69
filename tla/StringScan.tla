----------------------------- MODULE StringScan -----------------------------
(***************************************************************************)
(* parseString of jcstoken/token.go: the fast path over plain ASCII, the   *)
(* general path with escapes, surrogate pairs and multi-byte runes, the    *)
(* decoded byte limit, and the class and place of each error.              *)
(*                                                                         *)
(* The text starts after the opening quote and is a sequence of units: one *)
(* ASCII byte, one well-formed multi-byte rune (ParseWithOptions has       *)
(* checked the UTF-8), or four hexadecimal digits, which are a quad after  *)
(* backslash-u and four plain characters anywhere else.  pos counts units. *)
(***************************************************************************)
EXTENDS Integers, Sequences, SequencesExt, Unicode, Jcserr

CONSTANTS Inputs,          \* the texts
          MaxStringBytes   \* p.maxStringBytes

(* kind: quote, backslash, ctrl (< 0x20), u (the letter), simple (a letter *)
(* that may follow a backslash), plain (any other printable ASCII byte),   *)
(* rune (>= 0x80), quad.  cp: the code point, of a simple letter the one   *)
(* its escape stands for, of a quad the number.                            *)
MaxHex4 == 65535              \* what four hexadecimal digits can say
Hex4    == 0..MaxHex4

(* UTF-8 writes no surrogate *)
LastBelow  == 55295
FirstAbove == 57344
RuneUnit   == [kind : {"rune"}, cp : 128..LastBelow] \cup [kind : {"rune"}, cp : FirstAbove..MaxRune]

Unit ==
  [kind : {"ctrl"}, cp : 0..31]
    \cup RuneUnit
    \cup [kind : {"quad"}, cp : Hex4]
    \cup [kind : {"quote", "backslash", "u", "simple", "plain"}, cp : 0..127]

ASSUME MaxAssumption    == MaxStringBytes \in Nat \ {0}
ASSUME InputsAssumption == Inputs \subseteq Seq(Unit)

VARIABLES data, pos,
          buf,       \* the runes decoded so far
          size,      \* len(buf), in bytes
          pc, verdict

vars == <<data, pos, buf, size, pc, verdict>>

Verdict == [class : FailureClass \cup {None}, at : Nat]

End == Len(data) + 1

KindAt(i) == IF i < End THEN data[i].kind ELSE None

-----------------------------------------------------------------------------
(* A unit outside an escape: its characters as they stand. *)
Plain(u) == IF u.kind = "quad" THEN <<48, 48, 48, 48>>
            ELSE IF u.kind = "simple" THEN <<110>>     \* a letter, whichever it is
            ELSE <<u.cp>>

PlainLen(u) == IF u.kind = "quad" THEN 4 ELSE RuneLen(u.cp)

(* the bytes a fast path reads over: printable ASCII but '"' and '\' *)
IsFast(i) == KindAt(i) \in {"u", "simple", "plain", "quad"}

Reject(class, at) ==
  /\ verdict' = [class |-> class, at |-> at]
  /\ pc' = "done"
  /\ UNCHANGED <<data, buf, size>>

-----------------------------------------------------------------------------
(* The fast path: buf is data[start:pos], nothing is checked or copied.    *)
FastByte ==
  /\ pc = "fast"
  /\ IsFast(pos)
  /\ pos' = pos + 1
  /\ buf' = buf \o Plain(data[pos])
  /\ size' = size + PlainLen(data[pos])
  /\ UNCHANGED <<data, pc, verdict>>

FastClose ==
  /\ pc = "fast"
  /\ KindAt(pos) = "quote"
  /\ size <= MaxStringBytes
  /\ pos' = pos + 1
  /\ pc' = "done"
  /\ UNCHANGED <<data, buf, size, verdict>>

FastTooLong ==
  /\ pc = "fast"
  /\ KindAt(pos) = "quote"
  /\ size > MaxStringBytes
  /\ Reject("BoundExceeded", pos)
  /\ UNCHANGED pos

(* the break: the general path takes over with the prefix in its buffer,   *)
(* whatever the length of that prefix *)
LeaveFast ==
  /\ pc = "fast"
  /\ ~IsFast(pos) /\ KindAt(pos) # "quote"
  /\ pc' = "general"
  /\ UNCHANGED <<data, pos, buf, size, verdict>>

-----------------------------------------------------------------------------
Fits(r) == size + RuneLen(r) <= MaxStringBytes

(* validateStringRune *)
RuneError(r) == IF IsNoncharacter(r) THEN "Noncharacter"
                ELSE IF IsSurrogate(r) THEN "LoneSurrogate" ELSE None

(* The rune r read from unit start: checked, counted against the limit and *)
(* appended.  at is p.pos when the limit is checked: past an escape, but   *)
(* still at a raw rune, which is skipped only at the end, to next.         *)
AppendRune(r, start, at, next) ==
  \/ /\ RuneError(r) # None
     /\ Reject(RuneError(r), start)
     /\ pos' = at
  \/ /\ RuneError(r) = None /\ ~Fits(r)
     /\ Reject("BoundExceeded", at)
     /\ pos' = at
  \/ /\ RuneError(r) = None /\ Fits(r)
     /\ buf' = Append(buf, r)
     /\ size' = size + RuneLen(r)
     /\ pos' = next
     /\ UNCHANGED <<data, pc, verdict>>

General == pc = "general"

Unterminated ==
  /\ General
  /\ KindAt(pos) = None
  /\ Reject("InvalidGrammar", pos)
  /\ UNCHANGED pos

Close ==
  /\ General
  /\ KindAt(pos) = "quote"
  /\ pos' = pos + 1
  /\ pc' = "done"
  /\ UNCHANGED <<data, buf, size, verdict>>

ControlCharacter ==
  /\ General
  /\ KindAt(pos) = "ctrl"
  /\ Reject("InvalidGrammar", pos)
  /\ UNCHANGED pos

(* A plain byte or a rune; the bytes of a quad are appended one by one.    *)
PlainRune ==
  /\ General
  /\ KindAt(pos) \in {"u", "simple", "plain", "rune"}
  /\ AppendRune(Plain(data[pos])[1], pos, pos, pos + 1)

PlainQuad ==
  /\ General
  /\ KindAt(pos) = "quad"
  /\ \/ /\ size + 4 <= MaxStringBytes
        /\ buf' = buf \o Plain(data[pos])
        /\ size' = size + 4
        /\ pos' = pos + 1
        /\ UNCHANGED <<data, pc, verdict>>
     \/ /\ size + 4 > MaxStringBytes
        /\ Reject("BoundExceeded", pos)
        /\ UNCHANGED pos

(* parseEscape with one of the eight simple escapes; '"' and '\' are two.  *)
SimpleRune(u) == IF u.kind = "quote" THEN 34 ELSE IF u.kind = "backslash" THEN 92 ELSE u.cp

SimpleEscape ==
  /\ General
  /\ KindAt(pos) = "backslash"
  /\ KindAt(pos + 1) \in {"simple", "quote", "backslash"}
  /\ AppendRune(SimpleRune(data[pos + 1]), pos, pos + 2, pos + 2)

BadEscape ==
  /\ General
  /\ KindAt(pos) = "backslash"
  /\ KindAt(pos + 1) \notin {"simple", "quote", "backslash", "u"}
  /\ Reject("InvalidGrammar", pos)
  /\ UNCHANGED pos

(* readHex4 after backslash-u at i *)
UnicodeAt(i) == KindAt(i) = "backslash" /\ KindAt(i + 1) = "u"
HexAt(i)     == UnicodeAt(i) /\ KindAt(i + 2) = "quad"
Hex(i)       == data[i + 2].cp

BadHex ==
  /\ General
  /\ UnicodeAt(pos) /\ ~HexAt(pos)
  /\ Reject("InvalidGrammar", pos)
  /\ UNCHANGED pos

UnicodeEscape ==
  /\ General
  /\ HexAt(pos)
  /\ ~IsSurrogate(Hex(pos))
  /\ AppendRune(Hex(pos), pos, pos + 3, pos + 3)

LoneLow ==
  /\ General
  /\ HexAt(pos)
  /\ IsLowSurrogate(Hex(pos))
  /\ Reject("LoneSurrogate", pos)
  /\ UNCHANGED pos

High == General /\ HexAt(pos) /\ IsSurrogate(Hex(pos)) /\ ~IsLowSurrogate(Hex(pos))

LoneHigh ==
  /\ High
  /\ ~UnicodeAt(pos + 3)
  /\ Reject("LoneSurrogate", pos)
  /\ UNCHANGED pos

BadSecondHex ==
  /\ High
  /\ UnicodeAt(pos + 3) /\ ~HexAt(pos + 3)
  /\ Reject("InvalidGrammar", pos + 3)
  /\ UNCHANGED pos

(* Fault: the offset of the first escape is reported for the second. *)
NotLowAtFirst ==
  /\ High
  /\ HexAt(pos + 3) /\ ~IsLowSurrogate(Hex(pos + 3))
  /\ Reject("LoneSurrogate", pos)
  /\ UNCHANGED pos

NotLow ==
  /\ High
  /\ HexAt(pos + 3) /\ ~IsLowSurrogate(Hex(pos + 3))
  /\ Reject("LoneSurrogate", pos + 3)
  /\ UNCHANGED pos

SurrogatePair ==
  /\ High
  /\ HexAt(pos + 3) /\ IsLowSurrogate(Hex(pos + 3))
  /\ AppendRune(DecodePair(Hex(pos), Hex(pos + 3)), pos, pos + 6, pos + 6)

-----------------------------------------------------------------------------
Init ==
  /\ data \in Inputs
  /\ pos = 1
  /\ buf = << >>
  /\ size = 0
  /\ pc = "fast"
  /\ verdict = [class |-> None, at |-> 0]

FastPath  == FastByte \/ FastClose \/ FastTooLong \/ LeaveFast
Raw       == Unterminated \/ Close \/ ControlCharacter \/ PlainRune \/ PlainQuad
Escape    == \/ SimpleEscape \/ BadEscape \/ BadHex \/ UnicodeEscape
             \/ LoneLow \/ LoneHigh \/ BadSecondHex \/ NotLow \/ SurrogatePair

Next == FastPath \/ Raw \/ Escape

Spec == Init /\ [][Next]_vars /\ WF_vars(Next)

-----------------------------------------------------------------------------
TypeOK ==
  /\ data \in Seq(Unit)
  /\ pos \in Nat \ {0}
  /\ buf \in Seq(Rune)
  /\ size \in Nat
  /\ pc \in {"fast", "general", "done"}
  /\ verdict \in Verdict

Accepted == pc = "done" /\ verdict.class = None

(* No decoded string, finished or not, ever holds a surrogate or a         *)
(* noncharacter, although pairs are checked as halves and the fast path    *)
(* checks nothing (IJSON-SUR-001..003, IJSON-NONC-001).                    *)
CleanRunes == \A i \in 1..Len(buf) : ~IsSurrogate(buf[i]) /\ ~IsNoncharacter(buf[i])

(* An accepted string is within the decoded byte limit, although the       *)
(* general path inherits a prefix of any length and closes without a check *)
(* (BOUND-STRBYTES-001): whatever made the fast path stop has been checked.*)
AcceptedWithinBytes == Accepted => size <= MaxStringBytes

-----------------------------------------------------------------------------
(* What the text decodes to.                                               *)
Ref == INSTANCE StringText

Decoded    == Ref!Decode(data)
Unreadable == Ref!CharAt(data, Decoded.at)[1] = 0

(* The scan accepts exactly the closed strings of allowed characters whose *)
(* decoded form is within the limit, and returns that form: the fast path  *)
(* and the general path agree with one definition.                         *)
MatchesReference ==
  pc = "done" =>
    /\ verdict.class = None <=> /\ KindAt(Decoded.at) = "quote"
                                /\ Bytes(Decoded.text) <= MaxStringBytes
    /\ verdict.class = None =>
         buf = Decoded.text /\ size = Bytes(buf) /\ pos = Decoded.at + 1

(* A rejection other than for length points at the first character that    *)
(* cannot be read, at the start of its escape or, in a broken pair, of the *)
(* second escape (FAILURE_TAXONOMY.md, Offset Semantics), and its class is *)
(* what is wrong with that character.                                      *)
InBrokenPair == /\ HexAt(Decoded.at) /\ UnicodeAt(Decoded.at + 3)
                /\ Ref!High(Hex(Decoded.at))

CulpritReported ==
  pc = "done" /\ verdict.class \notin {None, "BoundExceeded"} =>
    /\ verdict.at = (IF InBrokenPair /\ Unreadable THEN Decoded.at + 3 ELSE Decoded.at)
    /\ CASE verdict.class = "Noncharacter" -> ~Unreadable
         [] verdict.class = "LoneSurrogate" -> HexAt(verdict.at) /\ Unreadable
         [] verdict.class = "InvalidGrammar" -> ~HexAt(verdict.at) /\ Unreadable
         [] OTHER -> FALSE
=============================================================================
