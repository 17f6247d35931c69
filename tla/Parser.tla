------------------------------- MODULE Parser -------------------------------
(***************************************************************************)
(* The strict JSON parser of jcstoken/token.go, from ParseWithOptions to   *)
(* its verdict: limits, nesting, member and element counting, duplicate    *)
(* keys, trailing content and the class and place of the first error.      *)
(*                                                                         *)
(* The text is a sequence of lexemes.  A string, number or literal is one  *)
(* lexeme that carries the outcome of its scanner (parseString,            *)
(* parseNumber, parseBool, parseNull): the decoded text, or the class of   *)
(* the error and its byte within the lexeme.  Modules StringScan and       *)
(* NumberScan model those scanners.  One step of the machine is one piece  *)
(* of the recursive descent between two calls; the Go call stack is the    *)
(* variable stack.                                                         *)
(***************************************************************************)
EXTENDS Integers, Sequences, SequencesExt, FiniteSets, Jcserr

CONSTANTS Texts,      \* decoded strings and number values, told apart only
          Inputs,     \* the texts given to ParseWithOptions
          Opt,        \* Options as the caller filled it in (0: not set)
          Default     \* the Default* limits

LimitNames == {"input", "depth", "values", "members", "elements"}

Punctuation == {"{", "}", "[", "]", ":", ","}

(* ws: one whitespace byte.  junk: a byte no value starts with.  utf8: a   *)
(* byte that makes the text invalid UTF-8.                                 *)
LexKind == Punctuation \cup {"ws", "junk", "utf8", "str", "num", "lit"}

Lexeme == [kind : LexKind, text : Texts, fail : FailureClass \cup {None},
           at : Nat, size : Nat \ {0}]

ASSUME OptAssumption     == Opt \in [LimitNames -> Int]
ASSUME DefaultAssumption == Default \in [LimitNames -> Nat \ {0}]
ASSUME InputsAssumption  == Inputs \subseteq Seq(Lexeme)

-----------------------------------------------------------------------------
(* resolveOption: an option that is not positive means the default.        *)
Limit(name) == IF Opt[name] > 0 THEN Opt[name] ELSE Default[name]

VARIABLES input,       \* p.data
          pos,         \* p.pos, the index of the next lexeme
          depth,       \* p.depth
          valueCount,  \* p.valueCount
          stack,       \* the open parseObject / parseArray calls, innermost last
          pc,          \* where in the descent the next step starts
          verdict      \* what ParseWithOptions returned

vars == <<input, pos, depth, valueCount, stack, pc, verdict>>

(* items: the keys of v.Members, or one NoKey per element of v.Elems.      *)
(* seen: the map of keys read.  key: the key whose value is being parsed.  *)
CONSTANT NoKey
ASSUME NoKeyAssumption == NoKey \notin Texts

Frame == [kind : {"object", "array"}, items : Seq(Texts \cup {NoKey}),
          seen : SUBSET Texts, key : Texts \cup {NoKey}]

(* An offset is a lexeme and a byte within or right after it.              *)
Verdict == [class : FailureClass \cup {None}, lex : Nat, byte : Nat]

Control == {"start", "value", "open", "key", "colon", "append", "next",
            "trailing", "done"}

-----------------------------------------------------------------------------
End == Len(input) + 1

(* skipWhitespace started at lexeme i stops at lexeme j. *)
SkipsTo(i, j) == /\ \A k \in i..(j - 1) : input[k].kind = "ws"
                 /\ j < End => input[j].kind # "ws"

SkipWs(i) == \E j \in i..End : SkipsTo(i, j) /\ pos' = j

(* peek: the kind of the next lexeme, None at the end of the text *)
Peek == IF pos < End THEN input[pos].kind ELSE None

(* len(data) *)
Size(s) == FoldLeft(LAMBDA n, l : n + l.size, 0, s)

TooLarge == Size(input) > Limit("input")

Top == stack[Len(stack)]

ReplaceTop(f) == stack' = [stack EXCEPT ![Len(stack)] = f]

Closing(kind) == IF kind = "object" THEN "}" ELSE "]"

CountLimit(kind) == IF kind = "object" THEN Limit("members") ELSE Limit("elements")

OpenFrame(c) == [kind |-> IF c = "{" THEN "object" ELSE "array",
                 items |-> << >>, seen |-> {}, key |-> NoKey]

(* Fault: popDepth deferred before pushDepth has succeeded. *)
RejectAtPopsTwice(class, lex, byte, d) ==
  /\ verdict' = [class |-> class, lex |-> lex, byte |-> byte]
  /\ depth' = d - Len(stack) - 1
  /\ stack' = << >>
  /\ pc' = "done"
  /\ UNCHANGED <<input, pos>>

(* An error returns through every open call, each running its deferred     *)
(* popDepth: d is p.depth at the moment of the error.                      *)
RejectAt(class, lex, byte, d) ==
  /\ verdict' = [class |-> class, lex |-> lex, byte |-> byte]
  /\ depth' = d - Len(stack)
  /\ stack' = << >>
  /\ pc' = "done"
  /\ UNCHANGED <<input, pos>>

Reject(class, byte) == RejectAt(class, pos, byte, depth) /\ UNCHANGED valueCount

(* A value of the call stack s is complete: back to the loop of the object *)
(* or array it is in, or to ParseWithOptions.                              *)
ReturnTo(s) == pc' = IF s = << >> THEN "trailing" ELSE "append"

(* '}' or ']': p.pos++, return v, and the deferred popDepth *)
CloseFrame ==
  /\ pos' = pos + 1
  /\ depth' = depth - 1
  /\ stack' = Front(stack)
  /\ ReturnTo(Front(stack))
  /\ UNCHANGED <<input, valueCount, verdict>>

-----------------------------------------------------------------------------
(* ParseWithOptions before the descent: size, then UTF-8, then whitespace. *)
InvalidBytes == {i \in 1..Len(input) : input[i].kind = "utf8"}

StartTooLarge ==
  /\ pc = "start"
  /\ TooLarge
  /\ RejectAt("BoundExceeded", 1, 0, depth) /\ UNCHANGED valueCount

(* Fault: the scan for the offset runs to the last invalid byte. *)
LastInvalid(i) == \A j \in InvalidBytes : j <= i

(* firstInvalidUTF8Offset *)
FirstInvalid(i) == \A j \in InvalidBytes : i <= j

StartInvalidUTF8 ==
  /\ pc = "start"
  /\ ~TooLarge
  /\ \E i \in InvalidBytes :
        FirstInvalid(i) /\ RejectAt("InvalidUTF8", i, 0, depth) /\ UNCHANGED valueCount

StartDescent ==
  /\ pc = "start"
  /\ ~TooLarge
  /\ InvalidBytes = {}
  /\ SkipWs(pos)
  /\ pc' = "value"
  /\ UNCHANGED <<input, depth, valueCount, stack, verdict>>

(* parseValue counts the value before it looks at the text. *)
CountValue ==
  /\ pc = "value"
  /\ valueCount' = valueCount + 1

WithinValues == valueCount + 1 <= Limit("values")

ValueOverLimit ==
  /\ CountValue
  /\ ~WithinValues
  /\ RejectAt("BoundExceeded", pos, 0, depth)

(* parseObject / parseArray: pushDepth, the opening byte, whitespace *)
OpenContainer ==
  /\ CountValue
  /\ WithinValues
  /\ Peek \in {"{", "["}
  /\ depth + 1 <= Limit("depth")
  /\ depth' = depth + 1
  /\ stack' = Append(stack, OpenFrame(Peek))
  /\ SkipWs(pos + 1)
  /\ pc' = "open"
  /\ UNCHANGED <<input, verdict>>

(* pushDepth fails before popDepth is deferred: its own increment stays. *)
DepthOverLimit ==
  /\ CountValue
  /\ WithinValues
  /\ Peek \in {"{", "["}
  /\ depth + 1 > Limit("depth")
  /\ RejectAt("BoundExceeded", pos, 0, depth + 1)

Scalar ==
  /\ CountValue
  /\ WithinValues
  /\ Peek \in {"str", "num", "lit"}
  /\ input[pos].fail = None
  /\ pos' = pos + 1
  /\ ReturnTo(stack)
  /\ UNCHANGED <<input, depth, stack, verdict>>

ScalarError ==
  /\ CountValue
  /\ WithinValues
  /\ Peek \in {"str", "num", "lit"}
  /\ input[pos].fail # None
  /\ RejectAt(input[pos].fail, pos, input[pos].at, depth)

(* The end of the text, or parseNumber on a byte that starts no value. *)
NoValue ==
  /\ CountValue
  /\ WithinValues
  /\ Peek \notin {"{", "[", "str", "num", "lit"}
  /\ RejectAt("InvalidGrammar", pos, 0, depth)

-----------------------------------------------------------------------------
(* After the opening byte: an empty container, or the first member. *)
CloseEmpty ==
  /\ pc = "open"
  /\ Peek = Closing(Top.kind)
  /\ CloseFrame

EnterLoop ==
  /\ pc = "open"
  /\ Peek \notin {None, Closing(Top.kind)}
  /\ pc' = IF Top.kind = "object" THEN "key" ELSE "value"
  /\ UNCHANGED <<input, pos, depth, valueCount, stack, verdict>>

OpenAtEnd ==
  /\ pc = "open"
  /\ Peek = None
  /\ Reject("InvalidGrammar", 0)

(* Fault: keys are compared as they are spelled, before unescaping. *)
DuplicateSpelling ==
  \E i \in 1..(pos - 1) : input[i] = input[pos] /\ input[i].text \in Top.seen

Duplicate == input[pos].text \in Top.seen

(* The key of a member: parseString, then the duplicate check on the       *)
(* decoded key, then whitespace.                                           *)
Key ==
  /\ pc = "key"
  /\ Peek = "str"
  /\ input[pos].fail = None
  /\ ~Duplicate
  /\ ReplaceTop([Top EXCEPT !.seen = @ \cup {input[pos].text}, !.key = input[pos].text])
  /\ SkipWs(pos + 1)
  /\ pc' = "colon"
  /\ UNCHANGED <<input, depth, valueCount, verdict>>

DuplicateKeyError ==
  /\ pc = "key"
  /\ Peek = "str"
  /\ input[pos].fail = None
  /\ Duplicate
  /\ Reject("DuplicateKey", 0)

KeyError ==
  /\ pc = "key"
  /\ Peek = "str"
  /\ input[pos].fail # None
  /\ Reject(input[pos].fail, input[pos].at)

(* expect consumes the byte it finds wrong: the offset is one past it. *)
ExpectFails(byte) ==
  /\ Peek # byte
  /\ Reject("InvalidGrammar", IF Peek = None THEN 0 ELSE 1)

NoKeyError ==
  /\ pc = "key"
  /\ ExpectFails("str")

Colon ==
  /\ pc = "colon"
  /\ Peek = ":"
  /\ SkipWs(pos + 1)
  /\ pc' = "value"
  /\ UNCHANGED <<input, depth, valueCount, stack, verdict>>

NoColonError ==
  /\ pc = "colon"
  /\ ExpectFails(":")

-----------------------------------------------------------------------------
(* Fault: > for >= in the check that follows the value. *)
HasRoomForOneMore == Len(Top.items) <= CountLimit(Top.kind)

HasRoom == Len(Top.items) < CountLimit(Top.kind)

(* Back in the loop with a value: the count is checked here, after the     *)
(* value has been parsed, then the value is appended.                      *)
AppendItem ==
  /\ pc = "append"
  /\ HasRoom
  /\ ReplaceTop([Top EXCEPT !.items = Append(@, Top.key), !.key = NoKey])
  /\ SkipWs(pos)
  /\ pc' = "next"
  /\ UNCHANGED <<input, depth, valueCount, verdict>>

CountOverLimit ==
  /\ pc = "append"
  /\ ~HasRoom
  /\ Reject("BoundExceeded", 0)

(* Fault: p.pos++ is forgotten for ','. *)
NextItemStays ==
  /\ pc = "next"
  /\ Peek = ","
  /\ SkipWs(pos)
  /\ pc' = IF Top.kind = "object" THEN "key" ELSE "value"
  /\ UNCHANGED <<input, depth, valueCount, stack, verdict>>

NextItem ==
  /\ pc = "next"
  /\ Peek = ","
  /\ SkipWs(pos + 1)
  /\ pc' = IF Top.kind = "object" THEN "key" ELSE "value"
  /\ UNCHANGED <<input, depth, valueCount, stack, verdict>>

CloseContainer ==
  /\ pc = "next"
  /\ Peek = Closing(Top.kind)
  /\ CloseFrame

(* Fault: the loop is retried on a byte that is neither ',' nor closing. *)
NoNextRetries ==
  /\ pc = "next"
  /\ Peek \notin {",", Closing(Top.kind)}
  /\ UNCHANGED vars

NoNextError ==
  /\ pc = "next"
  /\ Peek \notin {",", Closing(Top.kind)}
  /\ Reject("InvalidGrammar", 0)

(* Fault: no check for trailing content. *)
AcceptPrefix ==
  /\ pc = "trailing"
  /\ SkipWs(pos)
  /\ pc' = "done"
  /\ UNCHANGED <<input, depth, valueCount, stack, verdict>>

(* ParseWithOptions after the descent. *)
Accept ==
  /\ pc = "trailing"
  /\ SkipsTo(pos, End)
  /\ pos' = End
  /\ pc' = "done"
  /\ UNCHANGED <<input, depth, valueCount, stack, verdict>>

TrailingContent ==
  /\ pc = "trailing"
  /\ \E j \in pos..(End - 1) :
        /\ SkipsTo(pos, j)
        /\ RejectAt("InvalidGrammar", j, 0, depth)
  /\ UNCHANGED valueCount

-----------------------------------------------------------------------------
Init ==
  /\ input \in Inputs
  /\ pos = 1
  /\ depth = 0
  /\ valueCount = 0
  /\ stack = << >>
  /\ pc = "start"
  /\ verdict = [class |-> None, lex |-> 0, byte |-> 0]

Start      == StartTooLarge \/ StartInvalidUTF8 \/ StartDescent
ParseValue == \/ ValueOverLimit \/ OpenContainer \/ DepthOverLimit
              \/ Scalar \/ ScalarError \/ NoValue
OpenStep   == CloseEmpty \/ EnterLoop \/ OpenAtEnd
MemberKey  == \/ Key \/ DuplicateKeyError \/ KeyError \/ NoKeyError
              \/ Colon \/ NoColonError
LoopStep   == \/ AppendItem \/ CountOverLimit
              \/ NextItem \/ CloseContainer \/ NoNextError
Finish     == Accept \/ TrailingContent

Next == Start \/ ParseValue \/ OpenStep \/ MemberKey \/ LoopStep \/ Finish

(* ParseWithOptions is one goroutine that calls nothing that can block. *)
Spec == Init /\ [][Next]_vars /\ WF_vars(Next)

-----------------------------------------------------------------------------
TypeOK ==
  /\ input \in Seq(Lexeme)
  /\ pos \in 1..End
  /\ depth \in Nat
  /\ valueCount \in Nat
  /\ stack \in Seq(Frame)
  /\ pc \in Control
  /\ verdict \in Verdict

Running  == pc \notin {"start", "done"}
Accepted == pc = "done" /\ verdict.class = None

(* The depth counter is the number of open containers, never over the      *)
(* limit, and no object or array ever holds more than its limit.           *)
(* (token.go: the pushDepth / popDepth pairing and the late count checks.) *)
WithinCount(f) == Len(f.items) <= CountLimit(f.kind)

HeldWithinLimits ==
  /\ pc # "done" => depth = Len(stack)
  /\ Len(stack) <= Limit("depth")
  /\ \A i \in 1..Len(stack) : WithinCount(stack[i])

(* Every open object has read pairwise distinct decoded keys, and its map  *)
(* of seen keys is exactly the members it holds plus the one being parsed. *)
KeysDistinctIn(f) ==
  /\ \A a, b \in 1..Len(f.items) : f.items[a] = f.items[b] => a = b
  /\ f.seen = {f.items[a] : a \in 1..Len(f.items)} \cup ({f.key} \ {NoKey})
  /\ f.key \notin {f.items[a] : a \in 1..Len(f.items)}

DistinctKeys ==
  \A i \in 1..Len(stack) : stack[i].kind = "object" => KeysDistinctIn(stack[i])

(* What makes the two invariants above inductive: which pieces run inside  *)
(* a container, and when the object around holds a key without its value.  *)
KeyPhases ==
  /\ pc \in {"open", "key", "colon", "append", "next"} => stack # << >>
  /\ pc \in {"key", "colon"} => Top.kind = "object"
  /\ pc \in {"start", "trailing", "done"} => stack = << >>
  /\ \A i \in 1..Len(stack) : stack[i].kind = "object" =>
        (stack[i].key = NoKey <=> i = Len(stack) /\ pc \in {"open", "key", "next"})

(* Every step consumes input or moves to a strictly later piece of the     *)
(* loop, so the descent ends: no path through the loops leaves the parser  *)
(* where it was.                                                           *)
Rank(c) == CASE c = "start" -> 4 [] c \in {"open", "append"} -> 3
             [] c \in {"value", "key", "colon", "next"} -> 2
             [] c = "trailing" -> 1 [] c = "done" -> 0

Progress == [][pos' > pos \/ (pos' = pos /\ Rank(pc') < Rank(pc))]_vars

(* ParseWithOptions always returns. *)
Terminates == <>(pc = "done")

-----------------------------------------------------------------------------
(* What the limits say of a whole text, and which texts there are to       *)
(* accept; JsonText has no position and no stack.                          *)
Ref == INSTANCE JsonText

Text == Ref!NoWs(input)

WithinCounts(s) ==
  /\ \A i \in Ref!Opens(s) : Ref!Nesting(s, i) + 1 <= Limit("depth")
  /\ Cardinality(Ref!ValuesOf(s)) <= Limit("values")
  /\ \A i \in Ref!Opens(s) : Cardinality(Ref!ItemsOf(s, i)) <=
        (IF s[i].kind = "{" THEN Limit("members") ELSE Limit("elements"))

RefAccepts ==
  /\ ~TooLarge
  /\ InvalidBytes = {}
  /\ Ref!IsValue(Text)
  /\ WithinCounts(Text)
  /\ \A i \in Ref!Opens(Text) : Text[i].kind = "{" => Ref!DistinctIn(Text, i)

(* The parser accepts exactly the JSON texts with distinct decoded keys    *)
(* that respect every limit: the order in which the code counts, checks    *)
(* and appends neither lets a text through nor refuses a good one.         *)
AcceptsExactly == pc = "done" => (verdict.class = None <=> RefAccepts)

-----------------------------------------------------------------------------
(* the first i lexemes, without whitespace *)
Prefix(i) == Ref!NoWs(SubSeq(input, 1, i))

(* The limit on values is reached and a value is due, which the counter of *)
(* parseValue refuses before it has looked whether one is there.           *)
OneValueTooMany(s) ==
  /\ Cardinality(Ref!ValuesOf(s)) = Limit("values")
  /\ Ref!Viable(Append(s, Ref!Lex("num")))

(* What can go on to a JSON text, nests within the limit, repeats no key.  *)
Flawless(s) ==
  /\ Ref!Viable(s)
  /\ \A i \in Ref!Opens(s) : Ref!Nesting(s, i) + 1 <= Limit("depth")
  /\ \A i \in Ref!Opens(s) : s[i].kind = "{" => Ref!DistinctIn(s, i)

(* The defect that an error at lexeme i reports: it is in the text up to   *)
(* that lexeme, which is flawless before it.                               *)
DefectAt(class, i) ==
  LET before == Prefix(i - 1)
      upto   == Prefix(IF i < End THEN i ELSE Len(input)) IN
  /\ Flawless(before)
  /\ \/ i < End /\ input[i].fail = class
     \/ /\ class = "BoundExceeded"
        /\ ~WithinCounts(before) \/ ~WithinCounts(upto) \/ OneValueTooMany(before)
     \/ /\ class = "DuplicateKey"
        /\ \E j \in Ref!Opens(upto) :
             upto[j].kind = "{" /\ ~Ref!DistinctIn(Append(upto, Ref!Lex(":")), j)
     \/ class = "InvalidGrammar" /\ (i = End \/ ~Ref!Viable(upto))

(* Every rejection is at the first error and has its class: what precedes  *)
(* the place reported can still be completed to a JSON text, and the class *)
(* names a defect that is there, or the value one over the limit.          *)
FirstError ==
  pc = "done" /\ verdict.class # None =>
    \/ verdict.class = "BoundExceeded" /\ TooLarge
    \/ /\ verdict.class = "InvalidUTF8"
       /\ input[verdict.lex].kind = "utf8"
       /\ ~\E i \in 1..(verdict.lex - 1) : input[i].kind = "utf8"
    \/ DefectAt(verdict.class, verdict.lex)
=============================================================================
