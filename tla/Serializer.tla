----------------------------- MODULE Serializer -----------------------------
(***************************************************************************)
(* SerializeWithOptions of jcs/serialize.go: the walk that validates a     *)
(* value tree against the limits, and the emission of its canonical form,  *)
(* with the members of every object in the order of UTF-16 units.          *)
(*                                                                         *)
(* A tree is the sequence of its nodes in preorder, the order in which     *)
(* both recursions visit them; the level of a node is the depth argument.  *)
(* A caller may build any tree, not only what the parser returns; the empty *)
(* sequence is a nil value.                                                *)
(***************************************************************************)
EXTENDS Integers, Sequences, SequencesExt, FiniteSets, Unicode, Jcserr

CONSTANTS Trees,          \* the values to serialize
          Opt, Default    \* Options, 0 or less where it is not given

LimitNames == {"depth", "values", "members", "elements", "string"}

Bad  == -1                \* a byte that is no UTF-8
Text == Seq(Bad..MaxRune)
Kind == {"null", "bool", "num", "str", "arr", "obj", "unknown"}

(* key: the member name, if the parent is an object. text: of a string its *)
(* runes, of another scalar what tells it from others. sound: FALSE of a   *)
(* bool that is neither true nor false and of a number that is not finite. *)
(* UTF-8 has no surrogates: their three bytes are Bad.                     *)
Node == [level : Nat, kind : Kind, key : Text, text : Text, sound : BOOLEAN]

IsContainer(n) == n.kind \in {"arr", "obj"}

NoSurrogate(s) == \A k \in 1..Len(s) : ~IsSurrogate(s[k])

IsTree(t) ==
  /\ t \in Seq(Node) /\ t # << >> /\ t[1].level = 0
  /\ \A i \in 2..Len(t) : t[i].level \in 1..(t[i-1].level + IF IsContainer(t[i-1]) THEN 1 ELSE 0)
  /\ \A i \in 1..Len(t) : NoSurrogate(t[i].key) /\ NoSurrogate(t[i].text)

Nil == << >>

ASSUME TreesAssumption == \A t \in Trees : t = Nil \/ IsTree(t)
ASSUME LimitsAssumption == /\ Opt \in [LimitNames -> Int]
                           /\ Default \in [LimitNames -> Nat \ {0}]

(* resolveSerializeLimit *)
Limit(name) == IF Opt[name] > 0 THEN Opt[name] ELSE Default[name]

VARIABLES tree,
          pc,        \* "validate", "emit" or "done"
          pos,       \* the node the validation is at
          values,    \* state.values
          seen,      \* the keys seen in each open container, outermost first
          todo,      \* what is still to be written
          out,       \* the lexemes written
          class      \* the class of the error

vars == <<tree, pc, pos, values, seen, todo, out, class>>

-----------------------------------------------------------------------------
Children(i) ==
  {j \in (i + 1)..Len(tree) : /\ tree[j].level = tree[i].level + 1
                              /\ \A k \in (i + 1)..j : tree[k].level > tree[i].level}

Here     == tree[pos]
InObject == \E i \in 1..(pos - 1) : tree[i].kind = "obj" /\ pos \in Children(i)

(* validateString *)
StringDefect(s) ==
  IF \E k \in 1..Len(s) : s[k] = Bad THEN "InvalidUTF8"
  ELSE IF Bytes(s) > Limit("string") THEN "BoundExceeded"
  ELSE IF \E k \in 1..Len(s) : IsNoncharacter(s[k]) THEN "Noncharacter"
  ELSE None

KeyDefect ==
  IF ~InObject THEN None
  ELSE IF StringDefect(Here.key) # None THEN StringDefect(Here.key)
  ELSE IF Here.key \in seen[Here.level] THEN "DuplicateKey"
  ELSE None

OverLimit == values + 1 > Limit("values") \/ Here.level > Limit("depth")

PayloadDefect ==
  CASE Here.kind = "null"           -> None
    [] Here.kind \in {"bool", "num"} -> IF Here.sound THEN None ELSE "InvalidGrammar"
    [] Here.kind = "str"            -> StringDefect(Here.text)
    [] Here.kind = "arr" -> IF Cardinality(Children(pos)) > Limit("elements")
                            THEN "BoundExceeded" ELSE None
    [] Here.kind = "obj" -> IF Cardinality(Children(pos)) > Limit("members")
                            THEN "BoundExceeded" ELSE None
    [] OTHER             -> "InternalError"

Validating == pc = "validate" /\ pos <= Len(tree)

Reject(defect) ==
  /\ class' = defect
  /\ pc' = "done"
  /\ UNCHANGED <<tree, pos, seen, todo, out>>

NilValue == pc = "validate" /\ tree = Nil /\ Reject("InternalError") /\ UNCHANGED values

(* validateValueTree on the next node; the key first, in the caller's loop *)
BadKey == Validating /\ KeyDefect # None /\ Reject(KeyDefect) /\ UNCHANGED values

OverBound ==
  /\ Validating
  /\ KeyDefect = None /\ OverLimit
  /\ values' = values + 1
  /\ Reject("BoundExceeded")

BadPayload ==
  /\ Validating
  /\ KeyDefect = None /\ ~OverLimit /\ PayloadDefect # None
  /\ values' = values + 1
  /\ Reject(PayloadDefect)

(* the maps of the containers that are still open, with the key of this    *)
(* node, and a new one if it is a container itself                         *)
Entered ==
  LET open == SubSeq(seen, 1, Here.level) IN
  IF InObject THEN [open EXCEPT ![Here.level] = @ \cup {Here.key}] ELSE open

(* Fault: a container continues with the map of the one before it. *)
SeenKeepsMap ==
  IF ~IsContainer(Here) THEN Entered
  ELSE Entered \o (IF Len(seen) > Here.level THEN <<seen[Here.level + 1]>> ELSE << {} >>)

SeenNext == IF IsContainer(Here) THEN Append(Entered, {}) ELSE Entered

ValidNode ==
  /\ Validating
  /\ KeyDefect = None /\ ~OverLimit /\ PayloadDefect = None
  /\ values' = values + 1
  /\ seen' = SeenNext
  /\ pos' = pos + 1
  /\ UNCHANGED <<tree, pc, todo, out, class>>

-----------------------------------------------------------------------------
(* Strings are written as StringScan's units: its characters and escapes.  *)
Unit(kind, cp) == [kind |-> kind, cp |-> cp]
Backslash == Unit("backslash", 92)

(* Fault: only the controls that have a letter are escaped. *)
EscapedShortOnly(r) ==
  IF r \in {34, 92} THEN <<Backslash, Unit(IF r = 34 THEN "quote" ELSE "backslash", r)>>
  ELSE IF r \in {8, 9, 10, 12, 13} THEN <<Backslash, Unit("simple", r)>>
  ELSE <<Unit(IF r < 32 THEN "ctrl" ELSE IF r < 128 THEN "plain" ELSE "rune", r)>>

(* appendEscapedByte, and byteSpanForCopy for all else *)
Escaped(r) ==
  IF r \in {34, 92} THEN <<Backslash, Unit(IF r = 34 THEN "quote" ELSE "backslash", r)>>
  ELSE IF r \in {8, 9, 10, 12, 13} THEN <<Backslash, Unit("simple", r)>>
  ELSE IF r < 32 THEN <<Backslash, Unit("u", 117), Unit("quad", r)>>
  ELSE <<Unit(IF r < 128 THEN "plain" ELSE "rune", r)>>

Pieces(s) == LET us[n \in 0..Len(s)] == IF n = 0 THEN << >> ELSE us[n - 1] \o Escaped(s[n]) IN us
Units(s)    == Pieces(s)[Len(s)]

(* what is written: a lexeme, or a node whose turn is still to come *)
Lexeme(kind, units)   == [node |-> 0, kind |-> kind, units |-> units]
Mark(kind)            == Lexeme(kind, << >>)
Comma                 == Mark(",")
Opens(kind)           == Mark(IF kind = "arr" THEN "[" ELSE "{")
Closes(kind)          == Mark(IF kind = "arr" THEN "]" ELSE "}")
String(s)             == Lexeme("str", Units(s))
Sub(i)                == [node |-> i, kind |-> "value", units |-> << >>]

(* compareUTF16Units *)
LexLess(u, v) ==
  \E n \in 0..Len(u) : /\ n < Len(v)
                       /\ \A k \in 1..n : u[k] = v[k]
                       /\ n < Len(u) => u[n + 1] < v[n + 1]

IsASCII(s) == \A k \in 1..Len(s) : s[k] < 128

(* utf16.Encode of the first n runes of a key, for every n, and of all *)
Encodings(s) ==
  LET us[n \in 0..Len(s)] == IF n = 0 THEN << >> ELSE us[n - 1] \o Units16(s[n]) IN us
Utf16(s) == Encodings(s)[Len(s)]

(* Fault: keys are compared as Go compares strings, by bytes. *)
KeyLessBytes(a, b) == LexLess(a, b)

(* compareSortKeys: bytes if both keys are ASCII, UTF-16 units if not *)
KeyLess(a, b) ==
  IF IsASCII(a) /\ IsASCII(b) THEN LexLess(a, b) ELSE LexLess(Utf16(a), Utf16(b))

(* sort.Slice of the members *)
Sorted(i) ==
  {order \in [1..Cardinality(Children(i)) -> Children(i)] :
     /\ \A a, b \in DOMAIN order : order[a] = order[b] => a = b
     /\ \A a, b \in DOMAIN order : a < b => ~KeyLess(tree[order[b]].key, tree[order[a]].key)}

(* Fault: the elements come in no particular order. *)
AnyOrder(i) ==
  {order \in [1..Cardinality(Children(i)) -> Children(i)] :
     \A a, b \in DOMAIN order : order[a] = order[b] => a = b}

(* the elements in their own order *)
InOrder(i) ==
  {order \in [1..Cardinality(Children(i)) -> Children(i)] :
     \A a, b \in DOMAIN order : a < b => order[a] < order[b]}

(* a comma before every item but the first *)
Lists(items) ==
  LET list[n \in 0..Len(items)] ==
        IF n = 0 THEN << >>
        ELSE list[n - 1] \o (IF n = 1 THEN << >> ELSE <<Comma>>) \o items[n]
  IN list
Listed(items) == Lists(items)[Len(items)]

Members(order)  == [n \in DOMAIN order |-> <<String(tree[order[n]].key), Mark(":"), Sub(order[n])>>]
Elements(order) == [n \in DOMAIN order |-> <<Sub(order[n])>>]

-----------------------------------------------------------------------------
StartEmission ==
  /\ pc = "validate" /\ tree # Nil /\ pos > Len(tree)
  /\ todo' = <<Sub(1)>>
  /\ pc' = "emit"
  /\ UNCHANGED <<tree, pos, values, seen, out, class>>

Next1    == todo[1]
Emitting == pc = "emit" /\ todo # << >> /\ UNCHANGED <<tree, pc, pos, values, seen, class>>

Write(lexeme) == out' = Append(out, lexeme)

(* bytes that follow from the value around them *)
EmitMark == Emitting /\ Next1.node = 0 /\ Write(Next1) /\ todo' = Tail(todo)

(* FormatDouble of a finite number: each has a text of its own, except     *)
(* that both zeros are written "0".                                        *)
NegativeZero == <<45, 48>>
Formatted(num) == IF num = NegativeZero THEN <<48>> ELSE num

(* serializeValue: a scalar, whose number has been validated as finite *)
EmitScalar ==
  /\ Emitting
  /\ Next1.node # 0 /\ ~IsContainer(tree[Next1.node])
  /\ LET n == tree[Next1.node] IN
       Write(CASE n.kind = "str" -> String(n.text)
               [] n.kind = "num" -> Lexeme("num", Formatted(n.text))
               [] OTHER          -> Lexeme(n.kind, n.text))
  /\ todo' = Tail(todo)

(* serializeArray *)
EmitArray ==
  /\ Emitting
  /\ Next1.node # 0 /\ tree[Next1.node].kind = "arr"
  /\ Write(Opens("arr"))
  /\ \E order \in InOrder(Next1.node) :
       todo' = Listed(Elements(order)) \o <<Closes("arr")>> \o Tail(todo)

(* serializeObject *)
EmitObject ==
  /\ Emitting
  /\ Next1.node # 0 /\ tree[Next1.node].kind = "obj"
  /\ Write(Opens("obj"))
  /\ \E order \in Sorted(Next1.node) :
       todo' = Listed(Members(order)) \o <<Closes("obj")>> \o Tail(todo)

Return ==
  /\ pc = "emit" /\ todo = << >>
  /\ pc' = "done"
  /\ UNCHANGED <<tree, pos, values, seen, todo, out, class>>

-----------------------------------------------------------------------------
Init ==
  /\ tree \in Trees
  /\ pc = "validate"
  /\ pos = 1
  /\ values = 0
  /\ seen = << >>
  /\ todo = << >> /\ out = << >>
  /\ class = None

Next == \/ NilValue \/ BadKey \/ OverBound \/ BadPayload \/ ValidNode \/ StartEmission
        \/ EmitMark \/ EmitScalar \/ EmitArray \/ EmitObject \/ Return

Spec == Init /\ [][Next]_vars

-----------------------------------------------------------------------------
Accepted == pc = "done" /\ class = None

(* a control character is written as an escape *)
NoRawControl(lexeme) ==
  lexeme.kind = "str" => \A k \in 1..Len(lexeme.units) : lexeme.units[k].kind # "ctrl"

(* The walk stays on the tree, and what is written holds no node and no    *)
(* raw control character (serialize.go appendEscapedByte).                 *)
TypeOK ==
  /\ tree = Nil \/ IsTree(tree)
  /\ pc \in {"validate", "emit", "done"}
  /\ pos \in 1..(Len(tree) + 1)
  /\ values \in 0..Len(tree)
  /\ seen \in Seq(SUBSET Text)
  /\ \A i \in 1..Len(todo) : todo[i].node \in 0..Len(tree)
  /\ \A i \in 1..Len(out) : out[i].node = 0 /\ NoRawControl(out[i])
  /\ class \in FailureClass \cup {None}

-----------------------------------------------------------------------------
(* What a caller may have in a tree, stated on the whole of it.            *)
ST == INSTANCE StringText

Clean(s) == /\ \A k \in 1..Len(s) : s[k] # Bad
            /\ Bytes(s) <= Limit("string")
            /\ ST!Allowed(s)

Subtree(i) == {j \in i..Len(tree) : \A k \in (i + 1)..j : tree[k].level > tree[i].level}
Parent(i)  == CHOOSE p \in 1..(i - 1) : tree[p].level = tree[i].level - 1 /\ i \in Subtree(p)
Siblings(i) == {j \in 2..Len(tree) : tree[j].level = tree[i].level /\ Parent(j) = Parent(i)}
Keyed(i)   == i > 1 /\ tree[Parent(i)].kind = "obj"

Good(i) ==
  LET n == tree[i] IN
  /\ n.kind # "unknown" /\ n.level <= Limit("depth")
  /\ n.kind \in {"bool", "num"} => n.sound
  /\ n.kind = "str" => Clean(n.text)
  /\ i > 1 => Cardinality(Siblings(i)) <= Limit(IF Keyed(i) THEN "members" ELSE "elements")
  /\ Keyed(i) => /\ Clean(n.key)
                 /\ \A j \in Siblings(i) : tree[j].key = n.key => j = i

(* A tree is refused exactly if some node of it breaks a limit or a rule:  *)
(* the running count and the maps of the keys seen, which live and die     *)
(* with the recursion of validateValueTree, decide nothing else.           *)
RefusesExactly ==
  pc = "done" => (class = None <=> /\ Len(tree) \in 1..Limit("values")
                                   /\ \A i \in 1..Len(tree) : Good(i))

(* RFC 8785 orders keys by UTF-16 units: the surrogates of a supplementary *)
(* character rank below E000..FFFF, and else the order is by code point.   *)
Rank(r) == IF 57344 <= r /\ r <= 65535 THEN r + MaxRune ELSE r

Below(a, b) ==
  \/ Len(a) < Len(b) /\ a = SubSeq(b, 1, Len(a))
  \/ \E n \in 1..Len(a) : /\ n <= Len(b) /\ SubSeq(a, 1, n - 1) = SubSeq(b, 1, n - 1)
                          /\ Rank(a[n]) < Rank(b[n])
=============================================================================
