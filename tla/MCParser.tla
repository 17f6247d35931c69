------------------------------ MODULE MCParser ------------------------------
(***************************************************************************)
(* Model checking of Parser: the texts are every edit of one lexeme         *)
(* (deletion, replacement, insertion, truncation) of a set of documents    *)
(* that sit at the limits, and every text of at most three lexemes; the    *)
(* verdict is compared with JsonText.                                      *)
(***************************************************************************)
EXTENDS Parser

CONSTANTS a, b, n

L(k)  == [kind |-> k, text |-> n, fail |-> None, at |-> 0, size |-> 1]
A     == [kind |-> "str", text |-> a, fail |-> None, at |-> 0, size |-> 3]
Aesc  == [kind |-> "str", text |-> a, fail |-> None, at |-> 0, size |-> 8]
B     == [kind |-> "str", text |-> b, fail |-> None, at |-> 0, size |-> 3]
Sur   == [kind |-> "str", text |-> b, fail |-> "LoneSurrogate", at |-> 1, size |-> 8]
N     == L("num")
Huge  == [kind |-> "num", text |-> n, fail |-> "NumberOverflow", at |-> 0, size |-> 5]
Lit   == [kind |-> "lit", text |-> n, fail |-> None, at |-> 0, size |-> 4]
Tru   == [kind |-> "lit", text |-> n, fail |-> "InvalidGrammar", at |-> 0, size |-> 3]

Alphabet == {L(k) : k \in Punctuation \cup {"ws", "junk", "utf8"}}
              \cup {A, Aesc, B, Sur, N, Huge, Lit, Tru}

Documents ==
  { <<L("{"), A, L(":"), N, L(","), B, L(":"), Lit, L("}")>>,
    <<L("["), L("ws"), L("["), N, L("]"), L("ws"), L(","), N, L("]"), L("ws")>>,
    <<L("{"), L("ws"), A, L(":"), L("{"), Aesc, L(":"), N, L("}"), L("}")>>,
    <<L("["), L("{"), A, L("ws"), L(":"), L("ws"), L("["), L("]"), L("}"), L("]")>>,
    <<L("["), N, L(","), N, L(","), N, L("]")>>,
    <<L("{"), A, L(":"), N, L(","), B, L(":"), N, L(","), A, L(":"), N, L("}")>>,
    <<L("["), L("["), N, L(","), N, L("]"), L(","), N, L("]")>>,
    <<L("["), N, L(","), N, L(","), A, L(":"), N, L("]")>> }

Edits(d) ==
  {RemoveAt(d, i) : i \in 1..Len(d)}
    \cup {ReplaceAt(d, i, l) : i \in 1..Len(d), l \in Alphabet}
    \cup {InsertAt(d, i, l) : i \in 1..(Len(d) + 1), l \in Alphabet}
    \cup {SubSeq(d, 1, i) : i \in 0..Len(d)}

MCTexts   == {a, b, n}
MCInputs  == UNION {Edits(d) : d \in Documents} \cup BoundedSeq(Alphabet, 3)
MCDefault == [name \in LimitNames |-> CASE name = "input" -> 25 [] name = "depth" -> 2
                                        [] name = "values" -> 4 [] OTHER -> 2]
(* one option set, one negative, the rest left out *)
MCOpt     == [name \in LimitNames |-> CASE name = "depth" -> 2 [] name = "values" -> -1
                                        [] OTHER -> 0]

-----------------------------------------------------------------------------
(* every string taken for a value, those before a colon too *)
Values(s) == SelectSeq(s, LAMBDA l : l.kind # ":")

(* BOUND_EXCEEDED means that the text exceeds a limit (FAILURE_TAXONOMY.md *)
(* line 17); a trailing comma is INVALID_GRAMMAR (line 10).  The code      *)
(* counts a value before it has seen one, so a text which from its first   *)
(* lexeme to its last keeps to every limit, but breaks off or has a stray  *)
(* lexeme where one value more than allowed would stand, is reported as    *)
(* over the limit.                                                         *)
BoundExceededIsReal ==
  pc = "done" /\ verdict.class = "BoundExceeded" => TooLarge \/ ~WithinCounts(Values(Text))
=============================================================================
