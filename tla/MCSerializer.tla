---------------------------- MODULE MCSerializer ----------------------------
(***************************************************************************)
(* Model checking of Serializer: the trees are all of at most three nodes, *)
(* all objects of at most three members over keys that UTF-16 and UTF-8    *)
(* order differently, chains of nested containers, and every edit of one   *)
(* node of two documents.                                                  *)
(***************************************************************************)
EXTENDS Serializer

JT == INSTANCE JsonText

N(level, kind, key, text) ==
  [level |-> level, kind |-> kind, key |-> key, text |-> text, sound |-> TRUE]

Empty == << >>

(* 65281 is one unit, above the surrogates that 128512 is written with *)
Keys == {Empty, <<97>>, <<97, 98>>, <<97, 233>>, <<233>>, <<65281>>, <<128512>>,
         <<34>>, <<1, 10>>, <<233, 233, 120>>}

Flat == {<<N(0, "obj", Empty, Empty)>> \o [i \in 1..Len(ks) |-> N(1, "null", ks[i], Empty)] :
            ks \in BoundedSeq(Keys, 3)}

(* one member more than the limit *)
Wide == {<<N(0, "obj", Empty, Empty)>> \o [i \in 1..4 |-> N(1, "null", <<i + 96>>, Empty)]}

Small == UNION {{t \in [1..n -> {N(l, k, key, Empty) : l \in 0..3, k \in {"null", "arr", "obj"},
                                                        key \in {<<97>>, <<98>>}}] :
                   IsTree(t)} : n \in 1..3}

(* chains of containers, as deep as the limit and deeper *)
Chains == {[i \in 1..n |-> N(i - 1, IF i = n THEN last ELSE kind, <<97>>, Empty)] :
              n \in 1..5, kind \in {"arr", "obj"}, last \in {"arr", "obj", "null"}}

Document == << N(0, "arr", Empty, Empty),
                 N(1, "obj", Empty, Empty),
                   N(2, "num", <<128512>>, NegativeZero),
                   N(2, "str", <<65281>>, <<34, 10, 92>>),
                 N(1, "num", Empty, <<49>>) >>

(* two objects with the same keys, one after the other *)
Twins == << N(0, "obj", Empty, Empty),
              N(1, "obj", <<233>>, Empty), N(2, "null", <<97>>, Empty),
              N(1, "obj", <<97>>, Empty),  N(2, "bool", <<97>>, <<49>>) >>

Texts == {Empty, <<48>>, NegativeZero, <<1, 31>>, <<233, 233>>, <<233, 233, 120>>,
          <<128512>>, <<65534>>, <<64976>>, <<120, Bad>>}

NodeEdits(n) ==
  {[n EXCEPT !.kind = k, !.text = x] : k \in Kind, x \in Texts}
    \cup {[n EXCEPT !.key = x] : x \in Texts \cup Keys}
    \cup {[n EXCEPT !.kind = k, !.sound = FALSE] : k \in {"bool", "num"}}
    \cup {[n EXCEPT !.level = l] : l \in 0..3}

Edits(d) ==
  {t \in {[d EXCEPT ![i] = n] : <<i, n>> \in UNION {{i} \X NodeEdits(d[i]) : i \in 1..Len(d)}}
            \cup {Append(d, N(l, "arr", <<98>>, Empty)) : l \in 1..3}
            \cup {InsertAt(d, i, N(d[i].level, "null", <<99>>, Empty)) : i \in 2..Len(d)} :
      IsTree(t)}

MCTrees == {Nil} \cup Flat \cup Wide \cup Small \cup Chains \cup Edits(Document) \cup Edits(Twins)

MCOpt     == [depth |-> 2, values |-> 5, members |-> 0, elements |-> 2, string |-> 0]
MCDefault == [depth |-> 9, values |-> 9, members |-> 3, elements |-> 9, string |-> 4]

-----------------------------------------------------------------------------
(* The output as JsonText reads it, its strings decoded by StringText.     *)
Read(l) ==
  LET d == ST!Decode(Append(l.units, Unit("quote", 34))) IN
  [kind |-> IF l.kind \in {"null", "bool"} THEN "lit" ELSE l.kind,
   text |-> IF l.kind = "str" THEN d.text ELSE l.units,
   fail |-> IF l.kind = "str" /\ d.at # Len(l.units) + 1 THEN "broken" ELSE None]

Written == [i \in 1..Len(out) |-> Read(out[i])]

(* the bracket that encloses i most closely is the last of these *)
Around(o, i) == {b \in JT!Opens(o) : /\ b < i
                                     /\ ~\E c \in JT!Closes(o) : /\ b < c /\ c < i
                                                                 /\ JT!Level(o, c) = JT!Level(o, b)}

(* a step of a path: an index of an array or a key of an object *)
StepOf(o, b, i) ==
  IF o[b].kind = "{" THEN <<1>> \o o[i - 2].text
  ELSE <<0, Cardinality({c \in (b + 1)..(i - 1) : o[c].kind = "," /\ Around(o, c) = Around(o, i)})>>

ReadFacts(o) ==
  LET path(i) == LET bs == SetToSortSeq(Around(o, i), <) \o <<i>> IN
                 [n \in 1..(Len(bs) - 1) |-> StepOf(o, bs[n], bs[n + 1])]
  IN {[path |-> path(i), kind |-> o[i].kind, text |-> o[i].text] : i \in JT!ValuesOf(o)}

TreeFacts ==
  LET step(i) == IF Keyed(i) THEN <<1>> \o tree[i].key
                 ELSE <<0, Cardinality({j \in Siblings(i) : j < i})>>
      path(i) == LET up == SetToSortSeq({j \in 2..i : i \in Subtree(j)}, <) IN
                 [n \in 1..Len(up) |-> step(up[n])]
      kind(n) == CASE n.kind = "arr" -> "[" [] n.kind = "obj" -> "{"
                   [] n.kind \in {"null", "bool"} -> "lit" [] OTHER -> n.kind
      text(n) == IF IsContainer(n) THEN Empty
                 ELSE IF n.kind = "num" /\ n.text = NegativeZero THEN <<48>> ELSE n.text
  IN {[path |-> path(i), kind |-> kind(tree[i]), text |-> text(tree[i])] : i \in 1..Len(tree)}

(* What is written for an accepted tree is one JSON text, and reading it   *)
(* gives back the tree's value: each string, number and literal at its     *)
(* path, -0 as 0 (serialize.go, CANON-STR and CANON-SORT-003).             *)
ReadsBack == Accepted => JT!IsValue(Written) /\ ReadFacts(Written) = TreeFacts

-----------------------------------------------------------------------------
(* The keys of every object written ascend strictly in that order, for the *)
(* mixed comparison of compareSortKeys too (serialize.go, CANON-SORT-001). *)
KeysAscend ==
  Accepted =>
    LET o == Written IN
    \A b \in JT!Opens(o) : \A i, j \in JT!KeysOf(o, b) : i < j => Below(o[i].text, o[j].text)

-----------------------------------------------------------------------------
(* BOUNDS.md: "Max nesting depth", which the parser counts in containers   *)
(* open at a time, and which SerializeWithOptions is to honor as well.     *)
DepthHonored ==
  Accepted => \A i \in JT!Opens(Written) : JT!Level(Written, i) <= Limit("depth")
=============================================================================
