------------------------------ MODULE JsonText ------------------------------
(***************************************************************************)
(* What a JSON text is, stated on whole texts (RFC 8259 section 2, the     *)
(* distinct names of I-JSON, the BOUND-* limits) and with no parser: the   *)
(* reference the parser of module Parser is compared with.  A text here is *)
(* a sequence of lexemes without whitespace.                               *)
(***************************************************************************)
EXTENDS Integers, Sequences, FiniteSets, SequencesExt, Jcserr

(* what is left of the first n lexemes without whitespace, for every n *)
Kept(s) ==
  LET k[n \in 0..Len(s)] ==
        IF n = 0 THEN << >> ELSE IF s[n].kind = "ws" THEN k[n - 1] ELSE Append(k[n - 1], s[n])
  IN k
NoWs(s) == Kept(s)[Len(s)]

IsScalar(l) == l.kind \in {"str", "num", "lit"} /\ l.fail = None
IsName(l)   == l.kind = "str" /\ l.fail = None

(* The grammar.  A piece <<symbol, i, j>> says that the lexemes i to j are *)
(* a value, or the elements of an array or the members of an object and    *)
(* the bracket that closes it; d has the pieces that are known already.    *)
Symbols     == {"value", "elements", "members"}
OpenOf(sym)  == IF sym = "members" THEN "{" ELSE "["
CloseOf(sym) == IF sym = "members" THEN "}" ELSE "]"

(* after an element or a member: the bracket, or a comma and the others *)
AfterItem(s, d, sym, i, j) ==
  \/ i = j /\ s[i].kind = CloseOf(sym)
  \/ i < j /\ s[i].kind = "," /\ <<sym, i + 1, j>> \in d

ValueAndMore(s, d, sym, i, j) ==
  \E e \in i..(j - 1) : <<"value", i, e>> \in d /\ AfterItem(s, d, sym, e + 1, j)

Derives(s, d, sym, i, j) ==
  CASE sym = "value" ->
         \/ i = j /\ IsScalar(s[i])
         \/ \E items \in {"elements", "members"} :
              /\ i < j /\ s[i].kind = OpenOf(items)
              /\ \/ j = i + 1 /\ s[j].kind = CloseOf(items)
                 \/ <<items, i + 1, j>> \in d
    [] sym = "elements" -> ValueAndMore(s, d, sym, i, j)
    [] sym = "members" ->
         i + 1 < j /\ IsName(s[i]) /\ s[i + 1].kind = ":" /\ ValueAndMore(s, d, sym, i + 2, j)

(* A piece is made of shorter ones: as many rounds as there are lexemes    *)
(* find all of them.                                                       *)
Step(s, d) == {p \in Symbols \X (1..Len(s)) \X (1..Len(s)) :
                 p[2] <= p[3] /\ Derives(s, d, p[1], p[2], p[3])}

Rounds(s) == LET d[n \in 0..Len(s)] == IF n = 0 THEN {} ELSE Step(s, d[n - 1]) IN d
Pieces(s) == Rounds(s)[Len(s)]

IsValue(s) == s # << >> /\ <<"value", 1, Len(s)>> \in Pieces(s)

-----------------------------------------------------------------------------
Opens(s)  == {i \in 1..Len(s) : s[i].kind \in {"{", "["}}
Closes(s) == {i \in 1..Len(s) : s[i].kind \in {"}", "]"}}

(* the number of containers open around lexeme i, its own brackets counted *)
Level(s, i) == Cardinality({j \in Opens(s) : j <= i}) - Cardinality({j \in Closes(s) : j < i})

IsKey(s, i) == s[i].kind = "str" /\ i < Len(s) /\ s[i + 1].kind = ":"

ValuesOf(s) == {i \in 1..Len(s) : s[i].kind \in {"{", "[", "num", "lit"}
                                   \/ (s[i].kind = "str" /\ ~IsKey(s, i))}

(* the number of containers open before lexeme i *)
Nesting(s, i) == Cardinality({j \in Opens(s) : j < i}) - Cardinality({j \in Closes(s) : j < i})

(* what stands in the container opened at i and in no deeper one, except   *)
(* that a deeper container stands there with its first lexeme              *)
Directly(s, i) == {j \in (i + 1)..Len(s) : /\ Nesting(s, j) = Nesting(s, i) + 1
                                           /\ \A k \in (i + 1)..j : Nesting(s, k) > Nesting(s, i)}

ItemsOf(s, i) == Directly(s, i) \cap ValuesOf(s)
KeysOf(s, i)  == {j \in Directly(s, i) : IsKey(s, j)}

DistinctIn(s, i) == \A j, k \in KeysOf(s, i) : s[j].text = s[k].text => j = k

-----------------------------------------------------------------------------
(* A prefix is viable when some continuation makes it a JSON text: one     *)
(* filling lexeme or member, then the closing brackets it still needs.     *)
Lex(kind) == [kind |-> kind, text |-> None, fail |-> None, at |-> 0, size |-> 1]

Fillings == { << >>, <<Lex("num")>>, <<Lex(":"), Lex("num")>>,
              <<Lex("str"), Lex(":"), Lex("num")>> }

Viable(s) ==
  \E x \in Fillings, c \in [1..Nesting(s, Len(s) + 1) -> {Lex("}"), Lex("]")}] :
     IsValue(s \o x \o c)
=============================================================================
