-------------------------- MODULE SerializerProofs --------------------------
(***************************************************************************)
(* The proofs about Serializer: what the walk and the emission hold, and    *)
(* that a tree is refused exactly if a node of it breaks a rule.  The rule  *)
(* of a node is stated on the whole tree (Good), the walk goes by a count   *)
(* and by maps of keys that open and close with the recursion; the          *)
(* invariant IInv says what each of those maps holds while the walk stands  *)
(* at a node, and what has been checked of the nodes behind it.             *)
(*                                                                         *)
(* Of what is written there are two theorems more: the members of an object *)
(* come in the one order that RFC 8785 allows, and each string is read back  *)
(* as the code points it was written of.                                    *)
(*                                                                         *)
(* Induction over the positions of a tree or a text is done by hand: a set  *)
(* of naturals that is not empty has a least element.                       *)
(***************************************************************************)
EXTENDS Serializer, TLAPS, FiniteSetTheorems, SequenceTheorems, WellFoundedInduction

(* the texts of a value that has passed, and their units between quotes,    *)
(* after the first                                                          *)
Readable(s) == s \in Seq(Rune) /\ NoSurrogate(s) /\ ST!Allowed(s)
Quoted(s)   == Append(Units(s), Unit("quote", 34))
Texts == {s \in Text : /\ Readable(s)
                       /\ \E j \in 1..Len(tree) : s \in {tree[j].key, tree[j].text}}

(* what may be in todo and out; a string is written in units that are no raw *)
(* control                                                                   *)
Printed == [kind : {"backslash", "quote", "simple", "u", "quad", "plain", "rune"}, cp : Int]
Marks   == {"[", "]", "{", "}", ",", ":"}
Lexemes == {String(s) : s \in Texts}
             \cup [node : {0}, kind : (Kind \ {"str"}) \cup Marks, units : Text]
Turns    == [node : 1..Len(tree), kind : {"value"}, units : {<< >>}]

(* the containers that are open when the walk reaches the next node *)
Room    == IF pos = 1 THEN 0
           ELSE tree[pos - 1].level + (IF IsContainer(tree[pos - 1]) THEN 1 ELSE 0)
StillOpen(q) == \A k \in (q + 1)..(pos - 1) : tree[k].level > tree[q].level

(* The map at level l+1 belongs to the open container of level l. *)
MapsHold ==
  /\ seen \in Seq(SUBSET Text)
  /\ pc = "validate" =>
       /\ Len(seen) = Room
       /\ \A q \in 1..(pos - 1) :
            StillOpen(q) /\ IsContainer(tree[q]) =>
              /\ tree[q].level + 1 \in 1..Len(seen)
              /\ seen[tree[q].level + 1] = IF tree[q].kind = "obj"
                                           THEN {tree[j].key : j \in Children(q) \cap 1..(pos - 1)}
                                           ELSE {}

(* what has been checked of a node the walk has left behind *)
Checked(i) ==
  LET n == tree[i] IN
  /\ n.kind # "unknown" /\ n.level <= Limit("depth")
  /\ n.kind \in {"bool", "num"} => n.sound
  /\ n.kind = "str" => Clean(n.text)
  /\ IsContainer(n) =>
       Cardinality(Children(i)) <= Limit(IF n.kind = "obj" THEN "members" ELSE "elements")
  /\ Keyed(i) => /\ Clean(n.key)
                 /\ \A j \in Siblings(i) : j < i => tree[j].key # n.key

Lawful == /\ Len(tree) \in 1..Limit("values")
          /\ \A i \in 1..Len(tree) : Good(i)

Verdict ==
  /\ pc = "validate" => /\ class = None
                        /\ values = pos - 1 /\ values <= Limit("values")
                        /\ \A i \in 1..(pos - 1) : Checked(i)
  /\ pc = "emit" => class = None
  /\ pc # "validate" => (class = None <=> Lawful)

Types ==
  /\ tree = Nil \/ IsTree(tree)
  /\ pc \in {"validate", "emit", "done"}
  /\ pos \in 1..(Len(tree) + 1)
  /\ values \in 0..Len(tree)
  /\ todo \in Seq(Lexemes \cup Turns)
  /\ out \in Seq(Lexemes)
  /\ class \in FailureClass \cup {None}

IInv == Types /\ MapsHold /\ Verdict

-----------------------------------------------------------------------------
(* Induction over the naturals, as a set without a least element. *)
LEMMA LeastElement ==
  ASSUME NEW B, B \subseteq Nat, B # {}
  PROVE  \E i \in B : \A j \in B : i <= j
<1>1. PICK i \in B : \A j \in B : ~(<<j, i>> \in OpToRel(<, Nat))
  BY NatLessThanWellFounded, WFMin
<1>2. OpToRel(<, Nat) = {ss \in Nat \X Nat : ss[1] < ss[2]}
  BY DEF OpToRel
<1>3. ASSUME NEW j \in B, j < i PROVE FALSE
  <2>1. <<j, i>> \in Nat \X Nat
    OBVIOUS
  <2>. QED  BY <1>1, <1>2, <1>3, <2>1
<1>4. \A j \in B : i <= j
  BY <1>3
<1>. QED  BY <1>4

-----------------------------------------------------------------------------
(* Trees in preorder. *)
LEMMA TreeType ==
  ASSUME IsTree(tree)
  PROVE  /\ Len(tree) \in Nat /\ Len(tree) >= 1
         /\ \A i \in 1..Len(tree) :
              /\ tree[i] \in Node
              /\ tree[i].level \in Nat /\ tree[i].kind \in Kind
              /\ tree[i].key \in Text /\ tree[i].text \in Text /\ tree[i].sound \in BOOLEAN
         /\ tree[1].level = 0
         /\ \A i \in 2..Len(tree) :
              /\ tree[i].level >= 1
              /\ tree[i].level <= tree[i-1].level + (IF IsContainer(tree[i-1]) THEN 1 ELSE 0)
<1>1. tree \in Seq(Node) /\ tree # << >> /\ tree[1].level = 0
  BY DEF IsTree
<1>2. Len(tree) \in Nat /\ Len(tree) >= 1
  BY <1>1, EmptySeq, LenProperties
<1>3. \A i \in 1..Len(tree) : tree[i] \in Node
  BY <1>1, ElementOfSeq
<1>4. \A i \in 1..Len(tree) :
        /\ tree[i].level \in Nat /\ tree[i].kind \in Kind
        /\ tree[i].key \in Text /\ tree[i].text \in Text /\ tree[i].sound \in BOOLEAN
  BY <1>3 DEF Node
<1>5. ASSUME NEW i \in 2..Len(tree)
      PROVE  /\ tree[i].level >= 1
             /\ tree[i].level <= tree[i-1].level + (IF IsContainer(tree[i-1]) THEN 1 ELSE 0)
  <2>1. i - 1 \in 1..Len(tree)
    BY <1>2
  <2>2. tree[i-1].level \in Nat
    BY <1>4, <2>1
  <2>3. tree[i].level \in 1..(tree[i-1].level + IF IsContainer(tree[i-1]) THEN 1 ELSE 0)
    BY DEF IsTree
  <2>. QED  BY <2>2, <2>3
<1>. QED  BY <1>1, <1>2, <1>3, <1>4, <1>5

LEMMA ChildrenType ==
  ASSUME IsTree(tree), NEW i \in 1..Len(tree)
  PROVE  /\ Children(i) \subseteq 2..Len(tree)
         /\ IsFiniteSet(Children(i))
         /\ Cardinality(Children(i)) \in Nat
<1>1. Len(tree) \in Nat
  BY TreeType
<1>2. Children(i) \subseteq 2..Len(tree)
  BY <1>1 DEF Children
<1>3. IsFiniteSet(2..Len(tree))
  BY <1>1, FS_Interval
<1>4. IsFiniteSet(Children(i))
  BY <1>2, <1>3, FS_Subset
<1>. QED  BY <1>2, <1>4, FS_CardinalityType

(* At most one node has a given node for a child, *)
LEMMA OneParent ==
  ASSUME IsTree(tree), NEW p \in 1..Len(tree), NEW q \in 1..Len(tree),
         NEW i \in Children(p), i \in Children(q)
  PROVE  p = q
<1>1. /\ Len(tree) \in Nat /\ i \in Nat
      /\ tree[p].level \in Nat /\ tree[q].level \in Nat /\ tree[i].level \in Nat
  BY TreeType, ChildrenType
<1>2. /\ p < i /\ q < i
      /\ tree[i].level = tree[p].level + 1 /\ tree[i].level = tree[q].level + 1
      /\ \A k \in (p + 1)..i : tree[k].level > tree[p].level
      /\ \A k \in (q + 1)..i : tree[k].level > tree[q].level
  BY <1>1 DEF Children
<1>3. ~(p < q)
  <2> SUFFICES ASSUME p < q PROVE FALSE
    OBVIOUS
  <2>1. q \in (p + 1)..i
    BY <1>1, <1>2
  <2>2. tree[q].level > tree[p].level
    BY <1>2, <2>1
  <2>. QED  BY <1>1, <1>2, <2>2
<1>4. ~(q < p)
  <2> SUFFICES ASSUME q < p PROVE FALSE
    OBVIOUS
  <2>1. p \in (q + 1)..i
    BY <1>1, <1>2
  <2>2. tree[p].level > tree[q].level
    BY <1>2, <2>1
  <2>. QED  BY <1>1, <1>2, <2>2
<1>. QED  BY <1>3, <1>4

(* and for every node but the root there is one, a container. *)
LEMMA SomeParent ==
  ASSUME IsTree(tree), NEW i \in 2..Len(tree)
  PROVE  \E p \in 1..(i - 1) : i \in Children(p) /\ IsContainer(tree[p])
<1> DEFINE B == {k \in 1..(i - 1) : tree[i - k].level < tree[i].level}
<1>1. Len(tree) \in Nat /\ i \in Nat /\ i >= 2 /\ B \subseteq Nat
  BY TreeType
<1>2. \A j \in 1..Len(tree) : tree[j].level \in Nat
  BY TreeType
<1>3. B # {}
  <2>1. i - (i - 1) = 1 /\ i - 1 \in 1..(i - 1)
    BY <1>1
  <2>2. tree[i - (i - 1)].level < tree[i].level
    BY <1>1, <1>2, <2>1, TreeType
  <2>3. i - 1 \in B
    BY <2>1, <2>2
  <2>. QED  BY <2>3
<1>4. PICK k \in B : \A j \in B : k <= j
  <2> HIDE DEF B
  <2>. QED  BY <1>1, <1>3, LeastElement
<1> DEFINE p == i - k
<1>5. p \in 1..(i - 1) /\ p \in 1..Len(tree) /\ tree[p].level < tree[i].level /\ k \in Nat
  BY <1>1
<1>6. ASSUME NEW j \in (p + 1)..(i - 1) PROVE tree[j].level >= tree[i].level
  <2>1. i - j \in 1..(i - 1) /\ i - (i - j) = j /\ ~(k <= i - j) /\ j \in 1..Len(tree)
    BY <1>1, <1>5
  <2>2. ~(tree[j].level < tree[i].level)
    BY <1>4, <2>1
  <2>. QED  BY <1>2, <2>1, <2>2
<1>7. tree[i].level = tree[p].level + 1 /\ IsContainer(tree[p])
  <2>1. p + 1 \in 2..Len(tree) /\ (p + 1) - 1 = p /\ p + 1 \in 1..Len(tree)
    BY <1>1, <1>5
  <2>2. tree[p + 1].level <= tree[p].level + (IF IsContainer(tree[p]) THEN 1 ELSE 0)
    BY <2>1, TreeType
  <2>3. tree[p + 1].level >= tree[i].level
    <3>1. CASE p + 1 = i
      BY <1>2, <3>1
    <3>2. CASE p + 1 # i
      <4>1. p + 1 \in (p + 1)..(i - 1)
        BY <1>1, <1>5, <3>2
      <4>. QED  BY <1>6, <4>1
    <3>. QED  BY <3>1, <3>2
  <2>4. tree[p].level \in Nat /\ tree[p + 1].level \in Nat /\ tree[i].level \in Nat
    BY <1>2, <1>5, <2>1
  <2> HIDE DEF p
  <2>5. CASE IsContainer(tree[p])
    BY <1>5, <2>2, <2>3, <2>4, <2>5
  <2>6. CASE ~IsContainer(tree[p])
    BY <1>5, <2>2, <2>3, <2>4, <2>6
  <2>. QED  BY <2>5, <2>6
<1>8. i \in Children(p)
  <2>1. ASSUME NEW j \in (p + 1)..i PROVE tree[j].level > tree[p].level
    <3>1. CASE j = i
      BY <1>5, <3>1
    <3>2. CASE j # i
      <4>1. j \in (p + 1)..(i - 1) /\ j \in 1..Len(tree)
        BY <1>1, <1>5, <3>2
      <4>2. tree[j].level >= tree[i].level
        BY <1>6, <4>1
      <4>. QED  BY <1>2, <1>5, <4>1, <4>2
    <3>. QED  BY <3>1, <3>2
  <2>2. i \in (p + 1)..Len(tree)
    BY <1>1, <1>5
  <2> HIDE DEF p
  <2>. QED  BY <1>7, <2>1, <2>2 DEF Children
<1> HIDE DEF p
<1>. QED  BY <1>5, <1>7, <1>8

LEMMA SubtreeIsChildren ==
  ASSUME IsTree(tree), NEW i \in 1..Len(tree), NEW p \in 1..(i - 1)
  PROVE  (tree[p].level = tree[i].level - 1 /\ i \in Subtree(p)) <=> i \in Children(p)
<1>1. Len(tree) \in Nat /\ i \in Nat /\ p \in 1..Len(tree)
  BY TreeType
<1>2. tree[p].level \in Nat /\ tree[i].level \in Nat
  BY <1>1, TreeType
<1>3. i \in p..Len(tree) /\ i \in (p + 1)..Len(tree)
  BY <1>1
<1>4. tree[p].level = tree[i].level - 1 <=> tree[i].level = tree[p].level + 1
  BY <1>2
<1>. QED  BY <1>3, <1>4 DEF Subtree, Children

LEMMA ParentIs ==
  ASSUME IsTree(tree), NEW i \in 2..Len(tree)
  PROVE  /\ Parent(i) \in 1..(i - 1) /\ Parent(i) \in 1..Len(tree)
         /\ i \in Children(Parent(i))
         /\ IsContainer(tree[Parent(i)])
         /\ \A p \in 1..Len(tree) : i \in Children(p) => p = Parent(i)
<1>0. Len(tree) \in Nat /\ i \in Nat /\ i \in 1..Len(tree)
  BY TreeType
<1>1. PICK q \in 1..(i - 1) : i \in Children(q) /\ IsContainer(tree[q])
  BY SomeParent
<1>2. \E p \in 1..(i - 1) : tree[p].level = tree[i].level - 1 /\ i \in Subtree(p)
  BY <1>0, <1>1, SubtreeIsChildren
<1>3. /\ Parent(i) \in 1..(i - 1) /\ i \in Subtree(Parent(i))
      /\ tree[Parent(i)].level = tree[i].level - 1
  BY <1>2 DEF Parent
<1>4. i \in Children(Parent(i)) /\ Parent(i) \in 1..Len(tree)
  BY <1>0, <1>3, SubtreeIsChildren
<1>5. \A p \in 1..Len(tree) : i \in Children(p) => p = Parent(i)
  BY <1>4, OneParent
<1>6. q \in 1..Len(tree)
  BY <1>0, <1>1
<1>7. q = Parent(i)
  BY <1>1, <1>5, <1>6
<1>. QED  BY <1>1, <1>3, <1>4, <1>5, <1>7

(* The siblings of a node are the children of its parent. *)
LEMMA SiblingsAre ==
  ASSUME IsTree(tree), NEW p \in 1..Len(tree), NEW i \in Children(p)
  PROVE  /\ i \in 2..Len(tree)
         /\ Siblings(i) = Children(p)
         /\ Keyed(i) <=> tree[p].kind = "obj"
<1>1. i \in 2..Len(tree) /\ i > 1
  BY ChildrenType
<1>2. Parent(i) = p
  BY <1>1, ParentIs
<1>3. \A j \in Children(p) : j \in 2..Len(tree) /\ tree[j].level = tree[i].level /\ Parent(j) = p
  BY ChildrenType, ParentIs DEF Children
<1>4. \A j \in 2..Len(tree) : Parent(j) = p => j \in Children(p)
  BY ParentIs
<1>5. Siblings(i) = Children(p)
  BY <1>2, <1>3, <1>4 DEF Siblings
<1>. QED  BY <1>1, <1>2, <1>5 DEF Keyed

-----------------------------------------------------------------------------
(* A function on 0..N may be defined by recursion, *)
Rule(G, N, S)         == G \in [S \X (1..N) -> S]
Recurs(f, N, S, e, G) == f \in [0..N -> S] /\ f[0] = e /\ \A n \in 1..N : f[n] = G[<<f[n - 1], n>>]

LEMMA Recursion ==
  ASSUME NEW N \in Nat, NEW S, NEW e \in S, NEW G, Rule(G, N, S)
  PROVE  \E f : Recurs(f, N, S, e, G)
<1> DEFINE P(k) == \E f \in [0..k -> S] : f[0] = e /\ \A n \in 1..k : f[n] = G[<<f[n - 1], n>>]
           B == {k \in 0..N : ~P(k)}
<1>1. B \subseteq Nat
  OBVIOUS
<1>2. CASE B = {}
  <2>1. N \in 0..N
    OBVIOUS
  <2>2. P(N)
    <3> HIDE DEF P
    <3>. QED  BY <1>2, <2>1
  <2>. QED  BY <2>2 DEF Recurs
<1>3. CASE B # {}
  <2>1. PICK k \in B : \A j \in B : k <= j
    <3> HIDE DEF B
    <3>. QED  BY <1>1, <1>3, LeastElement
  <2>2. k \in Nat /\ k <= N /\ ~P(k)
    <3> HIDE DEF P
    <3>. QED  OBVIOUS
  <2>3. k # 0
    <3>1. P(0)
      <4> DEFINE z == [n \in 0..0 |-> e]
      <4>1. z \in [0..0 -> S] /\ z[0] = e /\ \A n \in 1..0 : FALSE
        OBVIOUS
      <4> HIDE DEF z
      <4>. QED  BY <4>1
    <3> HIDE DEF P
    <3>. QED  BY <2>2, <3>1
  <2>4. P(k - 1)
    <3>1. k - 1 \in 0..N /\ ~(k <= k - 1)
      BY <2>2, <2>3
    <3>2. k - 1 \notin B
      <4> HIDE DEF B
      <4>. QED  BY <2>1, <3>1
    <3> HIDE DEF P
    <3>. QED  BY <3>1, <3>2
  <2>5. PICK f \in [0..(k - 1) -> S] :
               f[0] = e /\ \A n \in 1..(k - 1) : f[n] = G[<<f[n - 1], n>>]
    BY <2>4
  <2> DEFINE g == [n \in 0..k |-> IF n = k THEN G[<<f[k - 1], k>>] ELSE f[n]]
  <2>6. f[k - 1] \in S /\ <<f[k - 1], k>> \in S \X (1..N)
    BY <2>2, <2>3
  <2>7. g \in [0..k -> S]
    <3>1. \A n \in 0..k : n # k => f[n] \in S
      BY <2>2
    <3>2. G[<<f[k - 1], k>>] \in S
      BY <2>6 DEF Rule
    <3>. QED  BY <3>1, <3>2
  <2>8. g[0] = e /\ g[k] = G[<<f[k - 1], k>>] /\ \A n \in 0..(k - 1) : g[n] = f[n]
    BY <2>2, <2>3, <2>5
  <2>9. \A n \in 1..k : g[n] = G[<<g[n - 1], n>>]
    <3> SUFFICES ASSUME NEW n \in 1..k PROVE g[n] = G[<<g[n - 1], n>>]
      OBVIOUS
    <3>1. n - 1 \in 0..(k - 1)
      BY <2>2
    <3> HIDE DEF g
    <3>2. g[n - 1] = f[n - 1]
      BY <2>8, <3>1
    <3>3. CASE n = k
      BY <2>8, <3>2, <3>3
    <3>4. CASE n # k
      <4>1. n \in 1..(k - 1) /\ n \in 0..(k - 1)
        BY <2>2, <3>4
      <4>. QED  BY <2>5, <2>8, <3>2, <4>1
    <3>. QED  BY <3>3, <3>4
  <2>10. P(k)
    <3> HIDE DEF g
    <3>. QED  BY <2>7, <2>8, <2>9
  <2> HIDE DEF P
  <2>. QED  BY <2>2, <2>10
<1>. QED  BY <1>2, <1>3

(* and its values stay in a set that the recursion does not leave. *)
LEMMA Closed ==
  ASSUME NEW N \in Nat, NEW S, NEW f, f[0] \in S,
         \A n \in 1..N : f[n - 1] \in S => f[n] \in S
  PROVE  \A n \in 0..N : f[n] \in S
<1> DEFINE B == {n \in 0..N : f[n] \notin S}
<1>1. SUFFICES ASSUME B # {} PROVE FALSE
  OBVIOUS
<1>2. B \subseteq Nat
  OBVIOUS
<1>3. PICK n \in B : \A j \in B : n <= j
  <2> HIDE DEF B
  <2>. QED  BY <1>1, <1>2, LeastElement
<1>4. n \in 1..N /\ n - 1 \in 0..N /\ ~(n <= n - 1)
  OBVIOUS
<1>5. n - 1 \notin B
  <2> HIDE DEF B
  <2>. QED  BY <1>3, <1>4
<1>. QED  BY <1>4, <1>5

-----------------------------------------------------------------------------
LEMMA RuneLenType == \A r \in Int : RuneLen(r) \in Nat
BY DEF RuneLen

LEMMA TextIsInts == Text \subseteq Seq(Int)
<1>1. Bad \in Int /\ MaxRune \in Int
  BY DEF Bad, MaxRune
<1>2. Bad..MaxRune \subseteq Int
  BY <1>1
<1>. QED  BY <1>2, SeqMonotonic DEF Text

LEMMA BytesType ==
  ASSUME NEW s \in Text
  PROVE  Bytes(s) \in Nat
<1>0. s \in Seq(Int) /\ Len(s) \in Nat /\ \A n \in 1..Len(s) : RuneLen(s[n]) \in Nat
  <2>1. s \in Seq(Int)
    BY TextIsInts
  <2>2. \A n \in 1..Len(s) : s[n] \in Int
    BY <2>1, ElementOfSeq
  <2>. QED  BY <2>1, <2>2, LenProperties, RuneLenType
<1> DEFINE F(f) == [n \in 0..Len(s) |-> IF n = 0 THEN 0 ELSE f[n - 1] + RuneLen(s[n])]
           G == [x \in Nat \X (1..Len(s)) |-> x[1] + RuneLen(s[x[2]])]
<1>1. \E f : f = F(f)
  <2>1. Rule(G, Len(s), Nat)
    BY <1>0 DEF Rule
  <2>2. PICK f : Recurs(f, Len(s), Nat, 0, G)
    <3>1. Len(s) \in Nat /\ 0 \in Nat
      BY <1>0
    <3> HIDE DEF G
    <3>. QED  BY <2>1, <3>1, Recursion, Zenon
  <2>m. f \in [0..Len(s) -> Nat] /\ f[0] = 0 /\ \A n \in 1..Len(s) : f[n] = G[<<f[n - 1], n>>]
    <3> HIDE DEF G
    <3>. QED  BY <2>2 DEF Recurs
  <2>3. \A n \in 0..Len(s) : f[n] = IF n = 0 THEN 0 ELSE f[n - 1] + RuneLen(s[n])
    <3>s. SUFFICES ASSUME NEW n \in 1..Len(s) PROVE f[n] = f[n - 1] + RuneLen(s[n])
      <4>1. \A n \in 0..Len(s) : n = 0 \/ (n # 0 /\ n \in 1..Len(s))
        BY <1>0
      <4> HIDE DEF G
      <4>. QED  BY <2>m, <4>1
    <3>0. n - 1 \in 0..Len(s)
      BY <1>0
    <3>1. <<f[n - 1], n>> \in Nat \X (1..Len(s))
      BY <2>m, <3>0
    <3>2. G[<<f[n - 1], n>>] = f[n - 1] + RuneLen(s[n])
      BY <3>1
    <3> HIDE DEF G
    <3>. QED  BY <2>m, <3>2
  <2>4. f = F(f)
    <3> HIDE DEF G
    <3>1. f = [n \in 0..Len(s) |-> f[n]]
      BY <2>m
    <3>2. [n \in 0..Len(s) |-> f[n]] = F(f)
      BY <2>3
    <3>. QED  BY <3>1, <3>2
  <2>. QED  BY <2>4
<1>2. Sums(s) = F(Sums(s))
  <2>1. Sums(s) = CHOOSE f : f = F(f)
    BY DEF Sums
  <2> HIDE DEF F
  <2>. QED  BY <1>1, <2>1
<1>3. \A n \in 0..Len(s) : Sums(s)[n] = IF n = 0 THEN 0 ELSE Sums(s)[n - 1] + RuneLen(s[n])
  BY <1>2
<1>4. Sums(s)[0] \in Nat /\ \A n \in 1..Len(s) : Sums(s)[n - 1] \in Nat => Sums(s)[n] \in Nat
  BY <1>0, <1>3
<1>5. \A n \in 0..Len(s) : Sums(s)[n] \in Nat
  BY <1>0, <1>4, Closed
<1>. QED  BY <1>0, <1>5 DEF Bytes

LEMMA EscapedType == \A r \in Int : Escaped(r) \in Seq(Printed)
<1> SUFFICES ASSUME NEW r \in Int PROVE Escaped(r) \in Seq(Printed)
  OBVIOUS
<1> DEFINE K == {"backslash", "quote", "simple", "u", "quad", "plain", "rune"}
<1>1. \A k \in K, c \in Int : Unit(k, c) \in Printed
  BY DEF Unit, Printed
<1>2. Backslash \in Printed
  BY <1>1 DEF Backslash
<1>3. /\ Unit("quote", r) \in Printed /\ Unit("backslash", r) \in Printed
      /\ Unit("simple", r) \in Printed /\ Unit("u", 117) \in Printed
      /\ Unit("quad", r) \in Printed /\ Unit("plain", r) \in Printed /\ Unit("rune", r) \in Printed
  BY <1>1
<1>4. \A a, b, c \in Printed : <<a>> \in Seq(Printed) /\ <<a, b>> \in Seq(Printed)
                               /\ <<a, b, c>> \in Seq(Printed)
  OBVIOUS
<1>. QED  BY <1>2, <1>3, <1>4 DEF Escaped

(* A sequence of pieces may be joined by recursion, *)
Joined(u, v) == u \o v
Joins(f, N, T, E) ==
  /\ N \in Nat /\ f \in [0..N -> Seq(T)] /\ E \in [1..N -> Seq(T)]
  /\ f[0] = << >> /\ \A n \in 1..N : f[n] = Joined(f[n - 1], E[n])

LEMMA Joining ==
  ASSUME NEW N \in Nat, NEW T, NEW E \in [1..N -> Seq(T)]
  PROVE  \E f : Joins(f, N, T, E)
<1> DEFINE G == [x \in Seq(T) \X (1..N) |-> Joined(x[1], E[x[2]])]
<1>1. << >> \in Seq(T) /\ \A u, v \in Seq(T) : Joined(u, v) \in Seq(T)
  BY ConcatProperties DEF Joined
<1>2. Rule(G, N, Seq(T))
  BY <1>1 DEF Rule
<1>3. PICK f : Recurs(f, N, Seq(T), << >>, G)
  <2> HIDE DEF G
  <2>. QED  BY <1>1, <1>2, Recursion, Zenon
<1>4. /\ f \in [0..N -> Seq(T)] /\ f[0] = << >>
      /\ \A n \in 1..N : f[n] = G[<<f[n - 1], n>>]
  <2> HIDE DEF G
  <2>. QED  BY <1>3 DEF Recurs
<1>5. ASSUME NEW n \in 1..N PROVE f[n] = Joined(f[n - 1], E[n])
  <2>1. n - 1 \in 0..N
    OBVIOUS
  <2>2. <<f[n - 1], n>> \in Seq(T) \X (1..N)
    BY <1>4, <2>1
  <2>3. G[<<f[n - 1], n>>] = Joined(f[n - 1], E[n])
    BY <2>2
  <2> HIDE DEF G
  <2>. QED  BY <1>4, <2>3
<1> HIDE DEF G
<1>. QED  BY <1>4, <1>5 DEF Joins

(* which is what a definition by cases comes to. *)
Cases(f, N, E) == [n \in 0..N |-> IF n = 0 THEN << >> ELSE Joined(f[n - 1], E[n])]

LEMMA JoinsIs ==
  ASSUME NEW N \in Nat, NEW T, NEW E \in [1..N -> Seq(T)], NEW f
  PROVE  Joins(f, N, T, E) <=> f = Cases(f, N, E)
<1>0. \A n \in 0..N : n = 0 \/ (n # 0 /\ n \in 1..N)
  OBVIOUS
<1>1. ASSUME Joins(f, N, T, E)
      PROVE  f = [n \in 0..N |-> IF n = 0 THEN << >> ELSE Joined(f[n - 1], E[n])]
  <2>1. \A n \in 0..N : f[n] = IF n = 0 THEN << >> ELSE Joined(f[n - 1], E[n])
    BY <1>0, <1>1 DEF Joins
  <2>2. f = [n \in 0..N |-> f[n]]
    BY <1>1 DEF Joins
  <2>. QED  BY <2>1, <2>2
<1>2. ASSUME f = [n \in 0..N |-> IF n = 0 THEN << >> ELSE Joined(f[n - 1], E[n])]
      PROVE  Joins(f, N, T, E)
  <2>1. /\ DOMAIN f = 0..N /\ f = [n \in 0..N |-> f[n]]
        /\ \A n \in 0..N : f[n] = IF n = 0 THEN << >> ELSE Joined(f[n - 1], E[n])
    BY <1>2
  <2>2. 0 \in 0..N /\ \A n \in 1..N : n \in 0..N /\ n # 0
    OBVIOUS
  <2>3. f[0] = << >> /\ \A n \in 1..N : f[n] = Joined(f[n - 1], E[n])
    BY <2>1, <2>2
  <2>4. << >> \in Seq(T) /\ \A u, v \in Seq(T) : Joined(u, v) \in Seq(T)
    BY ConcatProperties DEF Joined
  <2>5. f[0] \in Seq(T) /\ \A n \in 1..N : f[n - 1] \in Seq(T) => f[n] \in Seq(T)
    BY <2>3, <2>4
  <2>6. \A n \in 0..N : f[n] \in Seq(T)
    BY <2>5, Closed
  <2>7. f \in [0..N -> Seq(T)]
    BY <2>1, <2>6
  <2>. QED  BY <2>3, <2>7 DEF Joins
<1>. QED  BY <1>1, <1>2 DEF Cases

LEMMA JoinedIs ==
  ASSUME NEW T, NEW u \in Seq(T), NEW v \in Seq(T)
  PROVE  /\ Len(u) \in Nat /\ Len(v) \in Nat
         /\ Len(Joined(u, v)) = Len(u) + Len(v)
         /\ \A k \in 1..Len(u) : Joined(u, v)[k] = u[k]
         /\ \A k \in 1..Len(v) : Joined(u, v)[Len(u) + k] = v[k]
BY ConcatProperties, LenProperties DEF Joined

(* v starts with u *)
Starts(u, v) == Len(u) <= Len(v) /\ \A k \in 1..Len(u) : v[k] = u[k]

LEMMA Grows ==
  ASSUME NEW N, NEW T, NEW E, NEW f, Joins(f, N, T, E), \A k \in 1..N : Len(E[k]) > 0,
         NEW m \in 0..N, NEW n \in m..N
  PROVE  /\ Starts(f[m], f[n])
         /\ m < n => Len(f[m]) < Len(f[n])
<1> DEFINE Fits(k) == Starts(f[m], f[k]) /\ (m < k => Len(f[m]) < Len(f[k]))
           B == {k \in m..N : ~Fits(k)}
<1>1. /\ N \in Nat /\ \A k \in 0..N : f[k] \in Seq(T) /\ Len(f[k]) \in Nat
      /\ \A k \in 1..N : E[k] \in Seq(T) /\ f[k] = Joined(f[k - 1], E[k])
  BY LenProperties DEF Joins
<1>2. SUFFICES ASSUME B # {} PROVE FALSE
  OBVIOUS
<1>3. PICK k \in B : \A j \in B : k <= j
  <2>1. B \subseteq Nat
    BY <1>1
  <2> HIDE DEF B
  <2>. QED  BY <1>2, <2>1, LeastElement
<1>4. k # m
  <2>1. Fits(m)
    BY <1>1 DEF Starts
  <2>2. ~Fits(k)
    OBVIOUS
  <2> HIDE DEF Fits
  <2>. QED  BY <2>1, <2>2
<1>5. k \in 1..N /\ k - 1 \in m..N /\ k - 1 \in 0..N /\ ~(k <= k - 1)
  BY <1>1, <1>4
<1>6. Fits(k - 1)
  <2>1. k - 1 \notin B
    <3> HIDE DEF B
    <3>. QED  BY <1>3, <1>5
  <2> HIDE DEF Fits
  <2>. QED  BY <1>5, <2>1
<1> DEFINE u == f[k - 1]
           v == E[k]
<1>7. f[k] = Joined(u, v) /\ u \in Seq(T) /\ v \in Seq(T) /\ Len(v) > 0
  BY <1>1, <1>5
<1>8. Starts(f[m], u)
  BY <1>6
<1>9. Len(f[m]) \in Nat
  BY <1>1
<1> HIDE DEF u, v
<1>10. Len(u) \in Nat /\ Len(f[k]) > Len(u) /\ \A j \in 1..Len(u) : f[k][j] = u[j]
  <2>1. /\ Len(u) \in Nat /\ Len(v) \in Nat /\ Len(f[k]) = Len(u) + Len(v)
        /\ \A j \in 1..Len(u) : f[k][j] = u[j]
    BY <1>7, JoinedIs
  <2>2. \A x, y, z : x \in Nat /\ y \in Nat /\ y > 0 /\ z = x + y => z > x
    OBVIOUS
  <2>. QED  BY <1>7, <2>1, <2>2
<1>11. Fits(k)
  BY <1>8, <1>9, <1>10 DEF Starts
<1> HIDE DEF Fits
<1>. QED  BY <1>11

(* A text that starts with p and w holds w after p. *)
LEMMA StartsJoined ==
  ASSUME NEW T, NEW p \in Seq(T), NEW w \in Seq(T), NEW z, Starts(Joined(p, w), z)
  PROVE  /\ Len(p) + Len(w) <= Len(z)
         /\ \A k \in 1..Len(p) : z[k] = p[k]
         /\ \A k \in 1..Len(w) : z[Len(p) + k] = w[k]
<1>0. Len(p) \in Nat /\ Len(w) \in Nat
  BY LenProperties
<1>1. /\ Len(Joined(p, w)) = Len(p) + Len(w)
      /\ \A k \in 1..Len(p) : Joined(p, w)[k] = p[k]
      /\ \A k \in 1..Len(w) : Joined(p, w)[Len(p) + k] = w[k]
  BY JoinedIs
<1>2. /\ Len(Joined(p, w)) <= Len(z)
      /\ \A k \in 1..Len(Joined(p, w)) : z[k] = Joined(p, w)[k]
  BY DEF Starts
<1>3. ASSUME NEW k \in 1..Len(p) PROVE z[k] = p[k]
  <2>1. k \in 1..(Len(p) + Len(w))
    BY <1>0
  <2>. QED  BY <1>1, <1>2, <2>1
<1>4. ASSUME NEW k \in 1..Len(w) PROVE z[Len(p) + k] = w[k]
  <2>1. Len(p) + k \in 1..(Len(p) + Len(w))
    BY <1>0
  <2>. QED  BY <1>1, <1>2, <2>1
<1>. QED  BY <1>1, <1>2, <1>3, <1>4

Escapes(s) == [n \in 1..Len(s) |-> Escaped(s[n])]

LEMMA PiecesAre ==
  ASSUME NEW s \in Text
  PROVE  /\ Len(s) \in Nat /\ \A n \in 1..Len(s) : s[n] \in Int
         /\ Joins(Pieces(s), Len(s), Printed, Escapes(s))
         /\ \A n \in 0..Len(s) : Pieces(s)[n] \in Seq(Printed) /\ Len(Pieces(s)[n]) \in Nat
         /\ \A n \in 1..Len(s) : Escapes(s)[n] = Escaped(s[n]) /\ Escapes(s)[n] \in Seq(Printed)
<1>1. Len(s) \in Nat /\ \A n \in 1..Len(s) : s[n] \in Int
  <2>1. s \in Seq(Int)
    BY TextIsInts
  <2>. QED  BY <2>1, LenProperties, ElementOfSeq
<1>2. /\ Escapes(s) \in [1..Len(s) -> Seq(Printed)]
      /\ \A n \in 1..Len(s) : Escapes(s)[n] = Escaped(s[n]) /\ Escapes(s)[n] \in Seq(Printed)
  <2>1. \A n \in 1..Len(s) : Escaped(s[n]) \in Seq(Printed)
    BY <1>1, EscapedType
  <2>. QED  BY <2>1 DEF Escapes
<1> DEFINE F(f) == [n \in 0..Len(s) |-> IF n = 0 THEN << >> ELSE f[n - 1] \o Escaped(s[n])]
<1>3. \A f : F(f) = Cases(f, Len(s), Escapes(s))
  <2>1. \A n \in 0..Len(s) : n # 0 => Escapes(s)[n] = Escaped(s[n])
    BY <1>1 DEF Escapes
  <2>. QED  BY <2>1 DEF Joined, Cases
<1> HIDE DEF F
<1>4. ASSUME NEW f PROVE Joins(f, Len(s), Printed, Escapes(s)) <=> f = F(f)
  <2>1. Joins(f, Len(s), Printed, Escapes(s)) <=> f = Cases(f, Len(s), Escapes(s))
    BY <1>1, <1>2, JoinsIs
  <2>. QED  BY <1>3, <2>1
<1>5. \E f : f = F(f)
  BY <1>1, <1>2, <1>4, Joining
<1>6. Pieces(s) = CHOOSE f : f = F(f)
  BY DEF Pieces, F
<1>7. Pieces(s) = F(Pieces(s))
  BY <1>5, <1>6
<1>8. Joins(Pieces(s), Len(s), Printed, Escapes(s))
  BY <1>4, <1>7
<1>9. \A n \in 0..Len(s) : Pieces(s)[n] \in Seq(Printed) /\ Len(Pieces(s)[n]) \in Nat
  BY <1>8, LenProperties DEF Joins
<1>. QED  BY <1>1, <1>2, <1>8, <1>9

LEMMA UnitsType ==
  ASSUME NEW s \in Text
  PROVE  Units(s) \in Seq(Printed)
<1>1. Len(s) \in 0..Len(s)
  BY PiecesAre
<1>. QED  BY <1>1, PiecesAre DEF Units

LEMMA ListedType ==
  ASSUME NEW S, Comma \in S, NEW items \in Seq(Seq(S))
  PROVE  Listed(items) \in Seq(S)
<1> DEFINE L == Len(items)
           Sep(n) == IF n = 1 THEN << >> ELSE <<Comma>>
<1>0. L \in Nat /\ \A n \in 1..L : items[n] \in Seq(S)
  BY ElementOfSeq, LenProperties
<1>c. \A n \in 1..L : Sep(n) \in Seq(S)
  <2>1. \A c \in S : <<c>> \in Seq(S) /\ << >> \in Seq(S)
    OBVIOUS
  <2>. QED  BY <2>1, Zenon
<1>e. /\ << >> \in Seq(S)
      /\ \A w \in Seq(S), n \in 1..L : w \o Sep(n) \o items[n] \in Seq(S)
  <2> HIDE DEF L, Sep
  <2>1. \A w \in Seq(S), n \in 1..L : w \o Sep(n) \in Seq(S)
    BY <1>c, ConcatProperties
  <2>. QED  BY <1>0, <2>1, ConcatProperties
<1> DEFINE F(f) == [n \in 0..L |-> IF n = 0 THEN << >> ELSE f[n - 1] \o Sep(n) \o items[n]]
           G == [x \in Seq(S) \X (1..L) |-> x[1] \o Sep(x[2]) \o items[x[2]]]
<1> HIDE DEF L, Sep
<1>1. \E f : f = F(f)
  <2>1. Rule(G, L, Seq(S))
    BY <1>0, <1>e DEF Rule
  <2>2. PICK f : Recurs(f, L, Seq(S), << >>, G)
    <3>1. L \in Nat /\ << >> \in Seq(S)
      BY <1>0, <1>e
    <3> HIDE DEF G
    <3>. QED  BY <2>1, <3>1, Recursion, Zenon
  <2>m. f \in [0..L -> Seq(S)] /\ f[0] = << >> /\ \A n \in 1..L : f[n] = G[<<f[n - 1], n>>]
    <3> HIDE DEF G
    <3>. QED  BY <2>2 DEF Recurs
  <2>3. \A n \in 0..L : f[n] = IF n = 0 THEN << >> ELSE f[n - 1] \o Sep(n) \o items[n]
    <3>s. SUFFICES ASSUME NEW n \in 1..L PROVE f[n] = f[n - 1] \o Sep(n) \o items[n]
      <4>1. \A n \in 0..L : n = 0 \/ (n # 0 /\ n \in 1..L)
        BY <1>0
      <4> HIDE DEF G
      <4>. QED  BY <2>m, <4>1
    <3>0. n - 1 \in 0..L
      BY <1>0
    <3>1. <<f[n - 1], n>> \in Seq(S) \X (1..L)
      BY <2>m, <3>0
    <3>2. G[<<f[n - 1], n>>] = f[n - 1] \o Sep(n) \o items[n]
      BY <3>1
    <3> HIDE DEF G
    <3>. QED  BY <2>m, <3>2
  <2>4. f = F(f)
    <3> HIDE DEF G
    <3>1. f = [n \in 0..L |-> f[n]]
      BY <2>m
    <3>2. [n \in 0..L |-> f[n]] = F(f)
      BY <2>3
    <3>. QED  BY <3>1, <3>2
  <2>. QED  BY <2>4
<1>2. Lists(items) = F(Lists(items))
  <2>1. Lists(items) = CHOOSE f : f = F(f)
    BY DEF Lists, L, Sep
  <2> HIDE DEF F
  <2>. QED  BY <1>1, <2>1
<1>3. \A n \in 0..L : Lists(items)[n] = IF n = 0 THEN << >>
                                        ELSE Lists(items)[n - 1] \o Sep(n) \o items[n]
  <2> HIDE DEF L, Sep
  <2>. QED  BY <1>2
<1>4. /\ Lists(items)[0] \in Seq(S)
      /\ \A n \in 1..L : Lists(items)[n - 1] \in Seq(S) => Lists(items)[n] \in Seq(S)
  <2> HIDE DEF L, Sep
  <2>1. 0 \in 0..L /\ \A n \in 1..L : n \in 0..L /\ n # 0
    BY <1>0
  <2>. QED  BY <2>1, <1>3, <1>e
<1>5. \A n \in 0..L : Lists(items)[n] \in Seq(S)
  <2> HIDE DEF L
  <2>. QED  BY <1>0, <1>4, Closed
<1>6. L \in 0..L
  BY <1>0
<1>. QED  BY <1>5, <1>6 DEF Listed, L

-----------------------------------------------------------------------------
LEMMA LimitType == \A name \in LimitNames : Limit(name) \in Nat
BY LimitsAssumption DEF Limit

(* What is left of a code point by planes, and the two noncharacters that  *)
(* end each of them.                                                       *)
LEMMA InPlane == \A x, y \in Nat : y > 0 => x % y \in Nat /\ x % y < y
OBVIOUS

LEMMA EndsPlane ==
  \A x, m \in Nat :
    m < 65536 => ((64976 <= x /\ x <= 65007) \/ m \in {65534, 65535}
                    <=> ~(x \notin 64976..65007 /\ m < 65534))
OBVIOUS

LEMMA Forbidden ==
  ASSUME NEW r \in Nat
  PROVE  IsNoncharacter(r) <=> ~(r \notin 64976..65007 /\ r % 65536 < 65534)
<1> DEFINE m == r % 65536
<1>1. m \in Nat /\ m < 65536
  <2>1. \A y \in Nat : y > 0 => r % y \in Nat /\ r % y < y
    BY InPlane
  <2>2. 65536 \in Nat /\ 65536 > 0
    OBVIOUS
  <2>. QED  BY <2>1, <2>2
<1>2. IsNoncharacter(r) <=> (64976 <= r /\ r <= 65007) \/ m \in {65534, 65535}
  BY DEF IsNoncharacter
<1> SUFFICES IsNoncharacter(r) <=> ~(r \notin 64976..65007 /\ m < 65534)
  OBVIOUS
<1> HIDE DEF m
<1>. QED  BY <1>1, <1>2, EndsPlane

(* validateString passes exactly the clean texts. *)
LEMMA PassesClean ==
  ASSUME NEW s \in Text
  PROVE  StringDefect(s) = None <=> Clean(s)
<1>1. Bytes(s) \in Nat /\ Limit("string") \in Nat
  BY BytesType, LimitType DEF LimitNames
<1>2. \A k \in 1..Len(s) : s[k] # Bad => s[k] \in Nat
  <2>1. \A b, m \in Int : \A r \in b..m : b = -1 /\ r # b => r \in Nat
    BY SMT
  <2>2. Bad = -1 /\ MaxRune \in Int /\ Bad \in Int
    BY DEF Bad, MaxRune
  <2>3. \A k \in 1..Len(s) : s[k] \in Bad..MaxRune
    BY ElementOfSeq DEF Text
  <2>. QED  BY <2>1, <2>2, <2>3
<1>3. ASSUME \A k \in 1..Len(s) : s[k] # Bad
      PROVE  (\A k \in 1..Len(s) : ~IsNoncharacter(s[k])) <=> ST!Allowed(s)
  <2> DEFINE Ok(r) == r \notin 64976..65007 /\ r % 65536 < 65534
  <2>1. ST!Allowed(s) <=> \A k \in 1..Len(s) : Ok(s[k])
    BY SMT DEF ST!Allowed
  <2>2. \A k \in 1..Len(s) : IsNoncharacter(s[k]) <=> ~Ok(s[k])
    <3>1. ASSUME NEW r \in Nat PROVE IsNoncharacter(r) <=> ~Ok(r)
      BY Forbidden
    <3> HIDE DEF Ok
    <3>. QED  BY <1>2, <1>3, <3>1
  <2> HIDE DEF Ok
  <2>. QED  BY <2>1, <2>2
<1>4. StringDefect(s) = None <=> /\ \A k \in 1..Len(s) : s[k] # Bad
                                 /\ ~(Bytes(s) > Limit("string"))
                                 /\ \A k \in 1..Len(s) : ~IsNoncharacter(s[k])
  BY DEF StringDefect, None
<1>5. ~(Bytes(s) > Limit("string")) <=> Bytes(s) <= Limit("string")
  BY <1>1
<1>. QED  BY <1>3, <1>4, <1>5 DEF Clean

LEMMA DefectType ==
  \A s : StringDefect(s) \in FailureClass \cup {None}
BY DEF StringDefect, FailureClass, None

(* The key of a node is looked at exactly if its parent is an object. *)
LEMMA InObjectIs ==
  ASSUME IsTree(tree), pos \in 1..Len(tree)
  PROVE  /\ InObject <=> Keyed(pos)
         /\ \A p \in 1..Len(tree) : pos \in Children(p) => (InObject <=> tree[p].kind = "obj")
<1>1. Len(tree) \in Nat /\ pos \in Nat /\ \A i \in 1..(pos - 1) : i \in 1..Len(tree)
  BY TreeType
<1>2. \A p \in 1..Len(tree) : pos \in Children(p) => p \in 1..(pos - 1)
  BY <1>1 DEF Children
<1>3. \A p \in 1..Len(tree) : pos \in Children(p) => (InObject <=> tree[p].kind = "obj")
  BY <1>1, <1>2, OneParent DEF InObject
<1>4. CASE pos = 1
  <2>1. 1..(pos - 1) = {} /\ ~(pos > 1)
    BY <1>4
  <2>. QED  BY <1>3, <2>1 DEF InObject, Keyed
<1>5. CASE pos # 1
  <2>1. pos \in 2..Len(tree) /\ pos > 1
    BY <1>1, <1>5
  <2>2. Parent(pos) \in 1..Len(tree) /\ pos \in Children(Parent(pos))
    BY <2>1, ParentIs
  <2>. QED  BY <1>3, <2>1, <2>2 DEF Keyed
<1>. QED  BY <1>3, <1>4, <1>5

-----------------------------------------------------------------------------
(* No step changes the tree. *)
LEMMA SameTree ==
  ASSUME tree' = tree
  PROVE  /\ \A i : Children(i)' = Children(i)
         /\ \A i : Checked(i)' <=> Checked(i)
         /\ Lawful' <=> Lawful
         /\ Turns' = Turns /\ Lexemes' = Lexemes
         /\ IsTree(tree)' <=> IsTree(tree)
<1>1. \A i : Children(i)' = Children(i)
  BY DEF Children
<1>2. \A i : Parent(i)' = Parent(i)
  BY DEF Parent, Subtree
<1>3. \A i : Siblings(i)' = Siblings(i)
  BY <1>2 DEF Siblings
<1>4. \A i : Keyed(i)' <=> Keyed(i)
  BY <1>2 DEF Keyed
<1>5. \A i : Checked(i)' <=> Checked(i)
  BY <1>1, <1>3, <1>4 DEF Checked, IsContainer
<1>6. \A i : Good(i)' <=> Good(i)
  BY <1>3, <1>4 DEF Good
<1>7. Lawful' <=> Lawful
  BY <1>6 DEF Lawful
<1>8. Texts' = Texts
  BY DEF Texts
<1>9. Lexemes' = Lexemes
  BY <1>8 DEF Lexemes
<1>. QED  BY <1>1, <1>5, <1>7, <1>9 DEF Turns

(* Where the walk is, the maps of the open containers are as many as the   *)
(* level of the node, or one more.                                         *)
LEMMA LevelFits ==
  ASSUME IsTree(tree), MapsHold, pc = "validate", pos \in 1..Len(tree)
  PROVE  /\ Here.level \in 0..Len(seen)
         /\ Here.level = 0 <=> pos = 1
         /\ Len(seen) \in Nat
<1>1. Len(tree) \in Nat /\ pos \in Nat
  BY TreeType
<1>2. seen \in Seq(SUBSET Text) /\ Len(seen) = Room /\ Len(seen) \in Nat
  BY DEF MapsHold
<1>3. CASE pos = 1
  BY <1>2, <1>3, TreeType DEF Here
<1>4. CASE pos # 1
  <2>1. pos \in 2..Len(tree)
    BY <1>1, <1>4
  <2>2. tree[pos].level \in Nat /\ tree[pos].level >= 1 /\ tree[pos].level <= Len(seen)
    BY <1>2, <1>4, <2>1, TreeType DEF Room
  <2>. QED  BY <1>2, <1>4, <2>2 DEF Here
<1>. QED  BY <1>3, <1>4

LEMMA SeenNextType ==
  ASSUME IsTree(tree), MapsHold, pc = "validate", pos \in 1..Len(tree)
  PROVE  /\ SeenNext \in Seq(SUBSET Text)
         /\ Len(SeenNext) = Here.level + (IF IsContainer(Here) THEN 1 ELSE 0)
         /\ \A k \in 1..Here.level :
              SeenNext[k] = IF InObject /\ k = Here.level THEN seen[k] \cup {Here.key} ELSE seen[k]
         /\ IsContainer(Here) => SeenNext[Here.level + 1] = {}
<1> DEFINE l == Here.level
           open == SubSeq(seen, 1, l)
<1>1. l \in 0..Len(seen) /\ l \in Nat /\ Len(seen) \in Nat /\ (l = 0 <=> pos = 1)
  BY LevelFits
<1>2. seen \in Seq(SUBSET Text) /\ Here.key \in Text
  BY TreeType DEF MapsHold, Here
<1> HIDE DEF l
<1>3. open \in Seq(SUBSET Text) /\ Len(open) = l /\ \A k \in 1..l : open[k] = seen[k]
  BY <1>1, <1>2, SubSeqProperties
<1>4. /\ Entered \in Seq(SUBSET Text)
      /\ Len(Entered) = l
      /\ \A k \in 1..l : Entered[k] = IF InObject /\ k = l THEN seen[k] \cup {Here.key} ELSE seen[k]
  <2> HIDE DEF open
  <2>1. CASE ~InObject
    BY <1>3, <2>1 DEF Entered, open, l
  <2>2. CASE InObject
    <3>1. l \in 1..l
      <4>1. pos # 1
        BY <2>2 DEF InObject
      <4>. QED  BY <1>1, <4>1
    <3>2. Entered = [open EXCEPT ![l] = @ \cup {Here.key}]
      BY <2>2 DEF Entered, open, l
    <3>3. open[l] \cup {Here.key} \in SUBSET Text
      BY <1>2, <1>3, <3>1, ElementOfSeq
    <3>4. [open EXCEPT ![l] = open[l] \cup {Here.key}] \in Seq(SUBSET Text)
      BY <1>1, <1>3, <3>1, <3>3, ExceptSeq
    <3>5. Len(Entered) = l
      BY <1>1, <1>3, <3>1, <3>2, <3>3, ExceptSeq
    <3>e. ASSUME NEW e \in SUBSET Text
          PROVE  \A k \in 1..l : [open EXCEPT ![l] = e][k] = IF k = l THEN e ELSE open[k]
      BY <1>1, <1>3, <3>1, ExceptSeq
    <3>6. \A k \in 1..l : Entered[k] = IF k = l THEN open[k] \cup {Here.key} ELSE open[k]
      BY <3>2, <3>3, <3>e
    <3>. QED  BY <1>3, <2>2, <3>2, <3>4, <3>5, <3>6
  <2>. QED  BY <2>1, <2>2
<1>5. /\ SeenNext \in Seq(SUBSET Text)
      /\ Len(SeenNext) = l + (IF IsContainer(Here) THEN 1 ELSE 0)
      /\ \A k \in 1..l : SeenNext[k] = Entered[k]
      /\ IsContainer(Here) => SeenNext[l + 1] = {}
  <2>1. CASE ~IsContainer(Here)
    BY <1>1, <1>4, <2>1 DEF SeenNext
  <2>2. CASE IsContainer(Here)
    <3>1. SeenNext = Append(Entered, {}) /\ {} \in SUBSET Text
      BY <2>2 DEF SeenNext
    <3>. QED  BY <1>1, <1>4, <2>2, <3>1, AppendProperties
  <2>. QED  BY <2>1, <2>2
<1>. QED  BY <1>4, <1>5 DEF l

-----------------------------------------------------------------------------
(* The map a node's key is looked up in holds the keys of the siblings     *)
(* before it.                                                              *)
LEMMA SeenKeys ==
  ASSUME IsTree(tree), MapsHold, pc = "validate", pos \in 1..Len(tree),
         NEW p \in 1..Len(tree), pos \in Children(p), IsContainer(tree[p])
  PROVE  /\ tree[p].level + 1 = Here.level
         /\ seen[Here.level] = IF tree[p].kind = "obj"
                               THEN {tree[j].key : j \in Children(p) \cap 1..(pos - 1)} ELSE {}
<1>1. Len(tree) \in Nat /\ pos \in Nat /\ p \in Nat
  BY TreeType
<1>2. p \in 1..(pos - 1) /\ tree[pos].level = tree[p].level + 1
  BY <1>1 DEF Children
<1>3. StillOpen(p)
  BY <1>1, <1>2 DEF Children, StillOpen
<1>. QED  BY <1>2, <1>3 DEF MapsHold, Here

LEMMA MapsAdvance ==
  ASSUME Types, IsTree(tree), MapsHold, ValidNode
  PROVE  MapsHold'
<1>1. /\ pc = "validate" /\ pos \in 1..Len(tree) /\ tree' = tree
      /\ seen' = SeenNext /\ pos' = pos + 1 /\ Len(tree) \in Nat
  BY TreeType DEF ValidNode, Validating, Types
<1> DEFINE l == Here.level
<1>2. l \in 0..Len(seen) /\ l \in Nat /\ Len(seen) \in Nat
  BY <1>1, LevelFits
<1>3. /\ seen' \in Seq(SUBSET Text)
      /\ Len(seen') = l + (IF IsContainer(Here) THEN 1 ELSE 0)
      /\ \A k \in 1..l : seen'[k] = IF InObject /\ k = l THEN seen[k] \cup {Here.key} ELSE seen[k]
      /\ IsContainer(Here) => seen'[l + 1] = {}
  BY <1>1, SeenNextType
<1>4. Room' = Len(seen')
  BY <1>1, <1>3 DEF Room, Here, IsContainer
<1>5. ASSUME NEW q \in 1..pos, StillOpen(q)', IsContainer(tree[q])
      PROVE  /\ tree[q].level + 1 \in 1..Len(seen')
             /\ seen'[tree[q].level + 1] = IF tree[q].kind = "obj"
                                           THEN {tree[j].key : j \in Children(q) \cap 1..pos}
                                           ELSE {}
  <2>0. q \in 1..Len(tree) /\ tree[q].level \in Nat /\ pos \in Nat
    BY <1>1, TreeType
  <2>1. CASE q = pos
    <3>1. tree[q].level = l /\ IsContainer(Here)
      BY <1>5, <2>1 DEF Here
    <3>2. Children(q) \cap 1..pos = {}
      BY <1>1, <2>1 DEF Children
    <3>3. tree[q].level + 1 \in 1..Len(seen') /\ seen'[tree[q].level + 1] = {}
      BY <1>2, <1>3, <3>1
    <3>. QED  BY <3>2, <3>3
  <2>2. CASE q # pos
    <3>1. q \in 1..(pos - 1) /\ StillOpen(q) /\ tree[q].level < l
      <4>1. \A k \in (q + 1)..pos : tree[k].level > tree[q].level
        BY <1>1, <1>5, <2>0 DEF StillOpen
      <4>2. q \in 1..(pos - 1) /\ pos \in (q + 1)..pos
        BY <2>0, <2>2
      <4>3. StillOpen(q)
        BY <2>0, <4>1 DEF StillOpen
      <4>. QED  BY <1>2, <2>0, <4>1, <4>2, <4>3 DEF Here
    <3>2. tree[q].level + 1 \in 1..l /\ tree[q].level + 1 \in 1..Len(seen')
      BY <1>2, <1>3, <2>0, <3>1
    <3>3. seen[tree[q].level + 1] = IF tree[q].kind = "obj"
                                    THEN {tree[j].key : j \in Children(q) \cap 1..(pos - 1)} ELSE {}
      BY <1>1, <1>5, <3>1 DEF MapsHold
    <3>4. CASE tree[q].level + 1 = l
      <4>1. pos \in Children(q)
        <5>1. \A k \in (q + 1)..pos : tree[k].level > tree[q].level
          BY <1>1, <1>5, <2>0 DEF StillOpen
        <5>2. pos \in (q + 1)..Len(tree)
          BY <1>1, <2>0, <3>1
        <5>. QED  BY <3>4, <5>1, <5>2 DEF Children, Here
      <4>2. InObject <=> tree[q].kind = "obj"
        BY <1>1, <2>0, <4>1, InObjectIs
      <4>3. Children(q) \cap 1..pos = (Children(q) \cap 1..(pos - 1)) \cup {pos}
        BY <2>0, <4>1
      <4>4. {tree[j].key : j \in Children(q) \cap 1..pos}
              = {tree[j].key : j \in Children(q) \cap 1..(pos - 1)} \cup {Here.key}
        BY <4>3 DEF Here
      <4>5. seen'[l] = IF InObject THEN seen[l] \cup {Here.key} ELSE seen[l]
        BY <1>3, <3>2, <3>4
      <4>6. CASE tree[q].kind = "obj"
        <5>1. seen'[l] = seen[l] \cup {Here.key}
          BY <4>2, <4>5, <4>6
        <5>2. seen[l] = {tree[j].key : j \in Children(q) \cap 1..(pos - 1)}
          BY <3>3, <3>4, <4>6
        <5>. QED  BY <3>2, <3>4, <4>4, <4>6, <5>1, <5>2
      <4>7. CASE tree[q].kind # "obj"
        BY <3>2, <3>3, <3>4, <4>2, <4>5, <4>7
      <4>. QED  BY <4>6, <4>7
    <3>5. CASE tree[q].level + 1 # l
      <4>1. pos \notin Children(q)
        BY <3>5 DEF Children, Here
      <4>2. Children(q) \cap 1..pos = Children(q) \cap 1..(pos - 1)
        BY <2>0, <4>1
      <4>3. seen'[tree[q].level + 1] = seen[tree[q].level + 1]
        BY <1>3, <3>2, <3>5
      <4>. QED  BY <3>2, <3>3, <4>2, <4>3
    <3>. QED  BY <3>4, <3>5
  <2>. QED  BY <2>1, <2>2
<1>6. \A q : Children(q)' = Children(q)
  BY <1>1, SameTree
<1>7. pos' - 1 = pos
  BY <1>1 DEF Types
<1>9. \A q : {tree'[j].key : j \in Children(q)' \cap 1..(pos' - 1)}
               = {tree[j].key : j \in Children(q) \cap 1..pos}
  BY <1>1, <1>6, <1>7
<1>8. \A q \in 1..(pos' - 1) :
        StillOpen(q)' /\ IsContainer(tree'[q]) =>
          /\ tree'[q].level + 1 \in 1..Len(seen')
          /\ seen'[tree'[q].level + 1] = IF tree'[q].kind = "obj"
                                         THEN {tree'[j].key : j \in Children(q)' \cap 1..(pos' - 1)}
                                         ELSE {}
  BY <1>1, <1>5, <1>7, <1>9
<1>. QED  BY <1>3, <1>4, <1>8 DEF MapsHold

-----------------------------------------------------------------------------
(* What a step has checked when it leaves a node behind. *)
LEMMA NodeChecked ==
  ASSUME Types, IsTree(tree), MapsHold, ValidNode
  PROVE  Checked(pos)
<1>1. /\ pc = "validate" /\ pos \in 1..Len(tree) /\ KeyDefect = None /\ ~OverLimit
      /\ PayloadDefect = None
  BY DEF ValidNode, Validating, Types
<1>2. /\ Here.level \in Nat /\ Here.kind \in Kind /\ Here.key \in Text /\ Here.text \in Text
      /\ Here.sound \in BOOLEAN
  BY <1>1, TreeType DEF Here
<1>3. Limit("depth") \in Nat /\ Limit("members") \in Nat /\ Limit("elements") \in Nat
  BY LimitType DEF LimitNames
<1>4. Cardinality(Children(pos)) \in Nat
  BY <1>1, ChildrenType
<1>5. /\ Here.kind # "unknown"
      /\ Here.kind \in {"bool", "num"} => Here.sound
      /\ Here.kind = "str" => Clean(Here.text)
      /\ IsContainer(Here) =>
           Cardinality(Children(pos)) <= Limit(IF Here.kind = "obj" THEN "members" ELSE "elements")
  <2>1. CASE Here.kind = "null"
    BY <2>1 DEF IsContainer
  <2>2. CASE Here.kind \in {"bool", "num"}
    BY <1>1, <2>2 DEF PayloadDefect, None, IsContainer
  <2>3. CASE Here.kind = "str"
    <3>1. StringDefect(Here.text) = None
      BY <1>1, <2>3 DEF PayloadDefect
    <3>. QED  BY <1>2, <2>3, <3>1, PassesClean DEF IsContainer
  <2>4. CASE Here.kind = "arr"
    <3>1. ~(Cardinality(Children(pos)) > Limit("elements"))
      BY <1>1, <2>4 DEF PayloadDefect, None
    <3>. QED  BY <1>3, <1>4, <2>4, <3>1
  <2>5. CASE Here.kind = "obj"
    <3>1. ~(Cardinality(Children(pos)) > Limit("members"))
      BY <1>1, <2>5 DEF PayloadDefect, None
    <3>. QED  BY <1>3, <1>4, <2>5, <3>1
  <2>6. CASE Here.kind = "unknown"
    BY <1>1, <2>6 DEF PayloadDefect, None
  <2>. QED  BY <1>2, <2>1, <2>2, <2>3, <2>4, <2>5, <2>6 DEF Kind
<1>6. Here.level <= Limit("depth")
  BY <1>1, <1>2, <1>3 DEF OverLimit
<1>7. ASSUME Keyed(pos)
      PROVE  Clean(Here.key) /\ \A j \in Siblings(pos) : j < pos => tree[j].key # Here.key
  <2>1. InObject
    BY <1>1, <1>7, InObjectIs
  <2>2. StringDefect(Here.key) = None /\ Here.key \notin seen[Here.level]
    BY <1>1, <2>1 DEF KeyDefect, None
  <2>3. PICK p \in 1..Len(tree) : tree[p].kind = "obj" /\ pos \in Children(p)
    BY <1>1, <2>1, TreeType DEF InObject
  <2>4. seen[Here.level] = {tree[j].key : j \in Children(p) \cap 1..(pos - 1)}
    BY <1>1, <2>3, SeenKeys DEF IsContainer
  <2>5. Siblings(pos) = Children(p) /\ Children(p) \subseteq 2..Len(tree)
    BY <2>3, SiblingsAre, ChildrenType
  <2>6. ASSUME NEW j \in Siblings(pos), j < pos PROVE tree[j].key # Here.key
    <3>1. j \in Children(p) \cap 1..(pos - 1)
      BY <1>1, <2>5, <2>6
    <3>. QED  BY <2>2, <2>4, <3>1
  <2>. QED  BY <1>2, <2>2, <2>6, PassesClean
<1>8. Here = tree[pos]
  BY DEF Here
<1>. QED  BY <1>5, <1>6, <1>7, <1>8 DEF Checked

(* A tree that is refused is not lawful. *)
LEMMA KeyRefused ==
  ASSUME Types, IsTree(tree), MapsHold, BadKey
  PROVE  ~Lawful
<1>1. pc = "validate" /\ pos \in 1..Len(tree) /\ KeyDefect # None
  BY DEF BadKey, Validating, Types
<1>2. InObject /\ Keyed(pos) /\ Here.key \in Text
  BY <1>1, InObjectIs, TreeType DEF KeyDefect, Here
<1>3. CASE StringDefect(Here.key) # None
  <2>1. ~Clean(Here.key)
    BY <1>2, <1>3, PassesClean
  <2>. QED  BY <1>1, <1>2, <2>1 DEF Lawful, Good, Here
<1>4. CASE Here.key \in seen[Here.level]
  <2>1. PICK p \in 1..Len(tree) : tree[p].kind = "obj" /\ pos \in Children(p)
    BY <1>1, <1>2, TreeType DEF InObject
  <2>0. seen[Here.level] = {tree[j].key : j \in Children(p) \cap 1..(pos - 1)}
    BY <1>1, <2>1, SeenKeys DEF IsContainer
  <2>2. PICK j \in Children(p) \cap 1..(pos - 1) : tree[j].key = Here.key
    BY <1>4, <2>0
  <2>3. j \in Siblings(pos) /\ j # pos
    BY <1>1, <2>1, <2>2, SiblingsAre
  <2>. QED  BY <1>1, <1>2, <2>2, <2>3 DEF Lawful, Good, Here
<1>. QED  BY <1>1, <1>3, <1>4 DEF KeyDefect

LEMMA BoundRefused ==
  ASSUME Types, IsTree(tree), Verdict, OverBound
  PROVE  ~Lawful
<1>1. /\ pc = "validate" /\ pos \in 1..Len(tree) /\ OverLimit /\ values = pos - 1
      /\ Len(tree) \in Nat /\ Here.level \in Nat
  BY TreeType DEF OverBound, Validating, Types, Verdict, Here
<1>2. Limit("depth") \in Nat /\ Limit("values") \in Nat
  BY LimitType DEF LimitNames
<1>3. CASE values + 1 > Limit("values")
  BY <1>1, <1>2, <1>3 DEF Lawful
<1>4. CASE Here.level > Limit("depth")
  BY <1>1, <1>2, <1>4 DEF Lawful, Good, Here
<1>. QED  BY <1>1, <1>3, <1>4 DEF OverLimit

LEMMA CrowdRefused ==
  ASSUME IsTree(tree), NEW p \in 1..Len(tree), IsContainer(tree[p]),
         Cardinality(Children(p)) > Limit(IF tree[p].kind = "obj" THEN "members" ELSE "elements")
  PROVE  ~Lawful
<1>1. /\ Limit(IF tree[p].kind = "obj" THEN "members" ELSE "elements") \in Nat
      /\ Cardinality(Children(p)) \in Nat
  BY LimitType, ChildrenType DEF LimitNames
<1>2. Children(p) # {}
  BY <1>1, FS_EmptySet
<1>3. PICK c : c \in Children(p)
  BY <1>2
<1>4. /\ c \in 2..Len(tree) /\ Siblings(c) = Children(p) /\ (Keyed(c) <=> tree[p].kind = "obj")
      /\ c \in 1..Len(tree) /\ c > 1
  BY <1>3, SiblingsAre, TreeType
<1>5. ~(Cardinality(Siblings(c)) <= Limit(IF Keyed(c) THEN "members" ELSE "elements"))
  BY <1>1, <1>4
<1>. QED  BY <1>4, <1>5 DEF Lawful, Good

LEMMA PayloadRefused ==
  ASSUME Types, IsTree(tree), BadPayload
  PROVE  ~Lawful
<1>1. pc = "validate" /\ pos \in 1..Len(tree) /\ PayloadDefect # None
  BY DEF BadPayload, Validating, Types
<1>2. Here.kind \in Kind /\ Here.text \in Text /\ Here = tree[pos]
  BY <1>1, TreeType DEF Here
<1>3. CASE Here.kind \in {"bool", "num"}
  <2>1. ~Here.sound
    BY <1>1, <1>3 DEF PayloadDefect
  <2>. QED  BY <1>1, <1>2, <1>3, <2>1 DEF Lawful, Good
<1>4. CASE Here.kind = "str"
  <2>1. StringDefect(Here.text) # None
    BY <1>1, <1>4 DEF PayloadDefect
  <2>2. ~Clean(Here.text)
    BY <1>2, <2>1, PassesClean
  <2>. QED  BY <1>1, <1>2, <1>4, <2>2 DEF Lawful, Good
<1>5. CASE Here.kind = "arr"
  <2>1. Cardinality(Children(pos)) > Limit("elements")
    BY <1>1, <1>5 DEF PayloadDefect
  <2>. QED  BY <1>1, <1>2, <1>5, <2>1, CrowdRefused DEF IsContainer
<1>6. CASE Here.kind = "obj"
  <2>1. Cardinality(Children(pos)) > Limit("members")
    BY <1>1, <1>6 DEF PayloadDefect
  <2>. QED  BY <1>1, <1>2, <1>6, <2>1, CrowdRefused DEF IsContainer
<1>7. CASE Here.kind = "unknown"
  BY <1>1, <1>2, <1>7 DEF Lawful, Good
<1>8. CASE Here.kind = "null"
  BY <1>1, <1>8 DEF PayloadDefect
<1>. QED  BY <1>2, <1>3, <1>4, <1>5, <1>6, <1>7, <1>8 DEF Kind

(* A tree that is walked to the end is. *)
LEMMA WalkedIsLawful ==
  ASSUME Types, IsTree(tree), Verdict, StartEmission
  PROVE  Lawful
<1>1. /\ pos = Len(tree) + 1 /\ Len(tree) \in Nat /\ Len(tree) >= 1
      /\ values = pos - 1 /\ values <= Limit("values")
      /\ \A i \in 1..Len(tree) : Checked(i)
  BY TreeType DEF StartEmission, Types, Verdict
<1>2. Limit("values") \in Nat
  BY LimitType DEF LimitNames
<1>3. Len(tree) \in 1..Limit("values")
  BY <1>1, <1>2
<1>4. ASSUME NEW i \in 1..Len(tree) PROVE Good(i)
  <2>1. Checked(i)
    BY <1>1
  <2>2. ASSUME i > 1
        PROVE  /\ Cardinality(Siblings(i)) <= Limit(IF Keyed(i) THEN "members" ELSE "elements")
               /\ Keyed(i) => \A j \in Siblings(i) : tree[j].key = tree[i].key => j = i
    <3>1. i \in 2..Len(tree)
      BY <1>1, <2>2
    <3>2. PICK p \in 1..Len(tree) : i \in Children(p) /\ IsContainer(tree[p])
      BY <3>1, ParentIs
    <3>3. Siblings(i) = Children(p) /\ (Keyed(i) <=> tree[p].kind = "obj")
      BY <3>2, SiblingsAre
    <3>4. Cardinality(Children(p)) <= Limit(IF tree[p].kind = "obj" THEN "members" ELSE "elements")
      BY <1>1, <3>2 DEF Checked
    <3>5. ASSUME Keyed(i), NEW j \in Siblings(i), tree[j].key = tree[i].key PROVE j = i
      <4>1. /\ j \in Children(p) /\ j \in 1..Len(tree) /\ i \in Nat /\ j \in Nat
            /\ Siblings(j) = Children(p) /\ Keyed(j)
        BY <1>1, <3>2, <3>3, <3>5, SiblingsAre
      <4>2. ~(j < i)
        BY <2>1, <3>5 DEF Checked
      <4>3. ~(i < j)
        BY <1>1, <3>2, <3>5, <4>1 DEF Checked
      <4>. QED  BY <4>1, <4>2, <4>3
    <3>. QED  BY <3>3, <3>4, <3>5
  <2>3. Keyed(i) => i > 1
    BY DEF Keyed
  <2>. QED  BY <2>1, <2>2, <2>3 DEF Checked, Good
<1>. QED  BY <1>3, <1>4 DEF Lawful

-----------------------------------------------------------------------------
(* What passes validateString is a sequence of code points. *)
LEMMA CleanIsReadable ==
  ASSUME NEW s \in Text, NoSurrogate(s), Clean(s)
  PROVE  Readable(s)
<1>1. Bad = -1 /\ MaxRune \in Int
  BY DEF Bad, MaxRune
<1>2. s \in Seq(Bad..MaxRune) /\ \A k \in 1..Len(s) : s[k] # Bad
  BY DEF Text, Clean
<1>3. Len(s) \in Nat /\ \A k \in 1..Len(s) : s[k] \in Bad..MaxRune
  BY <1>2, LenProperties, ElementOfSeq
<1>4. s = [k \in 1..Len(s) |-> s[k]]
  BY <1>2, LenProperties
<1>5. \A k \in 1..Len(s) : s[k] \in 0..MaxRune
  BY <1>1, <1>2, <1>3
<1>6. s \in [1..Len(s) -> Rune]
  BY <1>4, <1>5 DEF Rune
<1>7. s \in Seq(Rune)
  BY <1>3, <1>6, SeqDef
<1>. QED  BY <1>7 DEF Readable, Clean

-----------------------------------------------------------------------------
(* The order of keys. *)
Number == Int

LEMMA Units16Type ==
  \A r \in Rune : /\ Units16(r) \in Seq(Number)
                  /\ Len(Units16(r)) \in {1, 2}
<1> SUFFICES ASSUME NEW r \in Rune
             PROVE  Units16(r) \in Seq(Number) /\ Len(Units16(r)) \in {1, 2}
  OBVIOUS
<1>1. r \in Int
  <2>1. MaxRune \in Int
    BY SMT DEF MaxRune
  <2>. QED  BY <2>1 DEF Rune
<1>2. (r - 65536) \div 1024 \in Int /\ (r - 65536) % 1024 \in Int
  BY <1>1, SMT
<1>3. \A x, y \in Int : /\ <<x>> \in Seq(Number) /\ Len(<<x>>) = 1
                        /\ <<x, y>> \in Seq(Number) /\ Len(<<x, y>>) = 2
  BY DEF Number
<1>4. \A x \in Int : 55296 + x \in Int /\ 56320 + x \in Int
  BY SMT
<1>. QED  BY <1>1, <1>2, <1>3, <1>4, SMT DEF Units16, Number

Codes(s) == [n \in 1..Len(s) |-> Units16(s[n])]

LEMMA EncodingsAre ==
  ASSUME NEW s \in Seq(Rune)
  PROVE  /\ Len(s) \in Nat /\ \A n \in 1..Len(s) : s[n] \in Rune
         /\ Joins(Encodings(s), Len(s), Number, Codes(s))
         /\ \A n \in 0..Len(s) : Encodings(s)[n] \in Seq(Number) /\ Len(Encodings(s)[n]) \in Nat
         /\ \A n \in 1..Len(s) : Codes(s)[n] = Units16(s[n]) /\ Len(Codes(s)[n]) > 0
<1>1. Len(s) \in Nat /\ \A n \in 1..Len(s) : s[n] \in Rune
  BY LenProperties, ElementOfSeq
<1>2. /\ Codes(s) \in [1..Len(s) -> Seq(Number)]
      /\ \A n \in 1..Len(s) : Codes(s)[n] = Units16(s[n]) /\ Len(Codes(s)[n]) > 0
  <2>1. \A n \in 1..Len(s) : Units16(s[n]) \in Seq(Number) /\ Len(Units16(s[n])) \in {1, 2}
    BY <1>1, Units16Type
  <2>2. \A n \in 1..Len(s) : Codes(s)[n] = Units16(s[n])
    BY DEF Codes
  <2>3. Codes(s) \in [1..Len(s) -> Seq(Number)]
    BY <2>1 DEF Codes
  <2>4. \A x : x \in {1, 2} => x > 0
    OBVIOUS
  <2>. QED  BY <2>1, <2>2, <2>3, <2>4
<1> DEFINE F(f) == [n \in 0..Len(s) |-> IF n = 0 THEN << >> ELSE f[n - 1] \o Units16(s[n])]
<1>3. \A f : F(f) = Cases(f, Len(s), Codes(s))
  <2>1. \A n \in 0..Len(s) : n # 0 => Codes(s)[n] = Units16(s[n])
    BY <1>1 DEF Codes
  <2>. QED  BY <2>1 DEF Joined, Cases
<1> HIDE DEF F
<1>4. ASSUME NEW f PROVE Joins(f, Len(s), Number, Codes(s)) <=> f = F(f)
  <2>1. Len(s) \in Nat /\ Codes(s) \in [1..Len(s) -> Seq(Number)]
    BY <1>1, <1>2
  <2>2. Joins(f, Len(s), Number, Codes(s)) <=> f = Cases(f, Len(s), Codes(s))
    BY <2>1, JoinsIs
  <2>. QED  BY <1>3, <2>2
<1>5. \E f : f = F(f)
  BY <1>1, <1>2, <1>4, Joining
<1>6. Encodings(s) = CHOOSE f : f = F(f)
  BY DEF Encodings, F
<1>7. Encodings(s) = F(Encodings(s))
  BY <1>5, <1>6
<1>8. Joins(Encodings(s), Len(s), Number, Codes(s))
  BY <1>4, <1>7
<1>9. \A n \in 0..Len(s) : Encodings(s)[n] \in Seq(Number) /\ Len(Encodings(s)[n]) \in Nat
  BY <1>8, LenProperties DEF Joins
<1>. QED  BY <1>1, <1>2, <1>8, <1>9

(* Keys that agree on their first runes have the same units for them. *)
LEMMA SameStart ==
  ASSUME NEW a \in Seq(Rune), NEW b \in Seq(Rune), NEW m \in 0..Len(a), m <= Len(b),
         \A k \in 1..m : a[k] = b[k]
  PROVE  Encodings(a)[m] = Encodings(b)[m]
<1> DEFINE Same(k) == Encodings(a)[k] = Encodings(b)[k]
           B == {k \in 0..m : ~Same(k)}
<1>1. Len(a) \in Nat /\ Len(b) \in Nat /\ m \in Nat
  BY LenProperties
<1>2. SUFFICES ASSUME B # {} PROVE FALSE
  BY <1>1
<1>3. PICK k \in B : \A j \in B : k <= j
  <2>1. B \subseteq Nat
    BY <1>1
  <2> HIDE DEF B
  <2>. QED  BY <1>2, <2>1, LeastElement
<1>4. k # 0
  <2>1. Same(0)
    BY EncodingsAre DEF Joins
  <2> HIDE DEF Same
  <2>. QED  BY <2>1
<1>5. k \in 1..m /\ k \in 1..Len(a) /\ k \in 1..Len(b) /\ k - 1 \in 0..m /\ ~(k <= k - 1)
  BY <1>1, <1>4
<1>6. Same(k - 1)
  <2>1. k - 1 \notin B
    <3> HIDE DEF B
    <3>. QED  BY <1>3, <1>5
  <2> HIDE DEF Same
  <2>. QED  BY <1>5, <2>1
<1>7. /\ Encodings(a)[k] = Joined(Encodings(a)[k - 1], Units16(a[k]))
      /\ Encodings(b)[k] = Joined(Encodings(b)[k - 1], Units16(b[k]))
  BY <1>5, EncodingsAre DEF Joins
<1>8. a[k] = b[k]
  BY <1>5
<1>. QED  BY <1>6, <1>7, <1>8

(* The first unit in which u and v differ is the lesser in u. *)
Before(u, v) == \E n \in Nat : /\ n < Len(u) /\ n < Len(v)
                               /\ \A k \in 1..n : u[k] = v[k]
                               /\ u[n + 1] < v[n + 1]

LEMMA RanksBefore ==
  ASSUME NEW r \in Rune, NEW q \in Rune, ~IsSurrogate(r), ~IsSurrogate(q), Rank(r) < Rank(q)
  PROVE  Before(Units16(r), Units16(q))
<1>0. MaxRune = 1114111
  BY SMT DEF MaxRune
<1>1. r \in Nat /\ q \in Nat /\ r <= MaxRune /\ q <= MaxRune
  <2>1. MaxRune \in Int
    BY <1>0, SMT
  <2>. QED  BY <2>1, SMT DEF Rune
<1>2. ASSUME NEW x \in Int, NEW y \in Int, NEW u, NEW v, x < y,
             u[1] = x, v[1] = y, Len(u) \in {1, 2}, Len(v) \in {1, 2}
      PROVE  Before(u, v)
  <2>1. 0 < Len(u) /\ 0 < Len(v) /\ 1..0 = {} /\ 0 \in Nat /\ 0 + 1 = 1
    BY <1>2
  <2>. QED  BY <1>2, <2>1 DEF Before
<1>3. Len(Units16(r)) \in {1, 2} /\ Len(Units16(q)) \in {1, 2}
  BY Units16Type
<1> DEFINE H(x) == 55296 + (x - 65536) \div 1024
           L(x) == 56320 + ((x - 65536) % 1024)
<1>4. \A x : x < 65536 => Units16(x) = <<x>>
  BY SMT DEF Units16
<1>5. \A x : ~(x < 65536) => Units16(x) = <<H(x), L(x)>>
  <2>1. \A x : Units16(x) = IF x < 65536 THEN <<x>> ELSE <<H(x), L(x)>>
    BY DEF Units16
  <2> HIDE DEF H, L
  <2>. QED  BY <2>1, SMT
<1>6. \A x \in Nat : ~(x < 65536) /\ x <= MaxRune =>
        /\ H(x) \in Int /\ L(x) \in Int /\ 55296 <= H(x) /\ H(x) < 57344
        /\ x = (H(x) - 55296) * 1024 + (L(x) - 56320) + 65536
        /\ 56320 <= L(x) /\ L(x) < 57344
  <2>1. \A d \in Nat : /\ d \div 1024 \in Int /\ d % 1024 \in 0..1023
                       /\ d = (d \div 1024) * 1024 + (d % 1024)
    BY SMT
  <2>2. ASSUME NEW x \in Nat, ~(x < 65536), x <= MaxRune, NEW h \in Int, NEW l \in Int,
               0 <= l, l < 1024, x - 65536 = h * 1024 + l
        PROVE  /\ 55296 <= 55296 + h /\ 55296 + h < 57344
               /\ x = ((55296 + h) - 55296) * 1024 + ((56320 + l) - 56320) + 65536
               /\ 56320 <= 56320 + l /\ 56320 + l < 57344
    BY <1>0, <2>2, SMT
  <2>. QED  BY <2>1, <2>2, SMT
<1> HIDE DEF H, L
<1>7. CASE r < 65536 /\ q < 65536
  <2>1. r < q
    BY <1>0, <1>1, <1>7, SMT DEF Rank, IsSurrogate
  <2>2. Units16(r)[1] = r /\ Units16(q)[1] = q
    BY <1>4, <1>7
  <2>. QED  BY <1>1, <1>2, <1>3, <2>1, <2>2
<1>8. CASE r < 65536 /\ ~(q < 65536)
  <2>1. r < 55296
    BY <1>0, <1>1, <1>8, SMT DEF Rank, IsSurrogate
  <2>2. H(q) \in Int /\ r < H(q)
    BY <1>1, <1>6, <1>8, <2>1, SMT
  <2>3. Units16(r)[1] = r /\ Units16(q)[1] = H(q)
    BY <1>1, <1>4, <1>5, <1>8
  <2>. QED  BY <1>1, <1>2, <1>3, <2>2, <2>3
<1>9. CASE ~(r < 65536) /\ q < 65536
  <2>1. 57344 <= q
    BY <1>0, <1>1, <1>9, SMT DEF Rank
  <2>2. H(r) \in Int /\ H(r) < q
    BY <1>1, <1>6, <1>9, <2>1, SMT
  <2>3. Units16(r)[1] = H(r) /\ Units16(q)[1] = q
    BY <1>1, <1>4, <1>5, <1>9
  <2>. QED  BY <1>1, <1>2, <1>3, <2>2, <2>3
<1>10. CASE ~(r < 65536) /\ ~(q < 65536)
  <2>1. r < q
    BY <1>0, <1>1, <1>10, SMT DEF Rank
  <2>2. /\ Units16(r) = <<H(r), L(r)>> /\ Units16(q) = <<H(q), L(q)>>
        /\ H(r) \in Int /\ H(q) \in Int /\ L(r) \in Int /\ L(q) \in Int
    BY <1>1, <1>5, <1>6, <1>10
  <2>3. H(r) < H(q) \/ (H(r) = H(q) /\ L(r) < L(q))
    BY <1>1, <1>6, <1>10, <2>1, <2>2, SMT
  <2>4. CASE H(r) < H(q)
    BY <1>2, <1>3, <2>2, <2>4
  <2>5. CASE H(r) = H(q) /\ L(r) < L(q)
    <3>1. /\ 1 < Len(Units16(r)) /\ 1 < Len(Units16(q))
          /\ \A k \in 1..1 : Units16(r)[k] = Units16(q)[k]
          /\ Units16(r)[1 + 1] < Units16(q)[1 + 1]
      BY <2>2, <2>5
    <3>. QED  BY <3>1 DEF Before
  <2>. QED  BY <2>3, <2>4, <2>5
<1>. QED  BY <1>7, <1>8, <1>9, <1>10

LEMMA SameSubSeq ==
  ASSUME NEW a \in Seq(Rune), NEW b \in Seq(Rune), NEW m \in 0..Len(a), m <= Len(b)
  PROVE  SubSeq(a, 1, m) = SubSeq(b, 1, m) <=> \A k \in 1..m : a[k] = b[k]
<1>1. Len(a) \in Nat /\ Len(b) \in Nat /\ m \in Nat
  BY LenProperties
<1>2. \A s \in Seq(Rune) : m <= Len(s) =>
        /\ SubSeq(s, 1, m) \in Seq(Rune) /\ Len(SubSeq(s, 1, m)) = m
        /\ \A k \in 1..m : SubSeq(s, 1, m)[k] = s[k]
  BY <1>1, SubSeqProperties
<1>3. m <= Len(a)
  BY <1>1
<1>4. ASSUME \A k \in 1..m : a[k] = b[k] PROVE SubSeq(a, 1, m) = SubSeq(b, 1, m)
  <2>1. \A k \in 1..m : SubSeq(a, 1, m)[k] = SubSeq(b, 1, m)[k]
    BY <1>2, <1>3, <1>4
  <2>. QED  BY <1>2, <1>3, <2>1, SeqEqual
<1>5. ASSUME SubSeq(a, 1, m) = SubSeq(b, 1, m), NEW k \in 1..m PROVE a[k] = b[k]
  BY <1>2, <1>3, <1>5
<1>. QED  BY <1>4, <1>5

(* Below, by the first rune in which two keys differ *)
Shorter(a, b)     == Len(a) < Len(b) /\ \A k \in 1..Len(a) : a[k] = b[k]
RanksAt(a, b, n)  == /\ n \in 1..Len(a) /\ n \in 1..Len(b)
                     /\ \A k \in 1..(n - 1) : a[k] = b[k]
                     /\ Rank(a[n]) < Rank(b[n])

LEMMA BelowMeans ==
  ASSUME NEW a \in Seq(Rune), NEW b \in Seq(Rune)
  PROVE  Below(a, b) <=> Shorter(a, b) \/ \E n \in Nat : RanksAt(a, b, n)
<1>1. Len(a) \in Nat /\ Len(b) \in Nat
  BY LenProperties
<1>2. SubSeq(a, 1, Len(a)) = a
  BY SubSeqFull
<1>3. Shorter(a, b) <=> Len(a) < Len(b) /\ a = SubSeq(b, 1, Len(a))
  <2>1. SUFFICES ASSUME Len(a) < Len(b)
                 PROVE  (\A k \in 1..Len(a) : a[k] = b[k]) <=> a = SubSeq(b, 1, Len(a))
    BY DEF Shorter
  <2>2. Len(a) \in 0..Len(a) /\ Len(a) <= Len(b)
    BY <1>1, <2>1
  <2>. QED  BY <1>2, <2>2, SameSubSeq
<1>4. ASSUME NEW n \in 1..Len(a)
      PROVE  RanksAt(a, b, n) <=> /\ n <= Len(b) /\ SubSeq(a, 1, n - 1) = SubSeq(b, 1, n - 1)
                                  /\ Rank(a[n]) < Rank(b[n])
  <2>1. SUFFICES ASSUME n <= Len(b)
                 PROVE  SubSeq(a, 1, n - 1) = SubSeq(b, 1, n - 1)
                          <=> \A k \in 1..(n - 1) : a[k] = b[k]
    BY <1>1 DEF RanksAt
  <2>2. n - 1 \in 0..Len(a) /\ n - 1 <= Len(b)
    BY <1>1, <2>1
  <2>. QED  BY <2>2, SameSubSeq
<1>5. \A n : RanksAt(a, b, n) => n \in 1..Len(a) /\ n \in Nat
  BY <1>1 DEF RanksAt
<1>6. 1..Len(a) \subseteq Nat
  BY <1>1
<1>. QED  BY <1>3, <1>4, <1>5, <1>6 DEF Below

(* Two keys that differ are in that order one way or the other: *)
LEMMA Comparable ==
  ASSUME NEW a \in Seq(Rune), NEW b \in Seq(Rune), a # b
  PROVE  Below(a, b) \/ Below(b, a)
<1>1. /\ Len(a) \in Nat /\ \A k \in 1..Len(a) : a[k] \in Rune
      /\ Len(b) \in Nat /\ \A k \in 1..Len(b) : b[k] \in Rune
  BY LenProperties, ElementOfSeq
<1> DEFINE D == {k \in 1..Len(a) : k <= Len(b) /\ a[k] # b[k]}
<1>2. CASE D = {}
  <2>1. \A k : k \in 1..Len(a) /\ k \in 1..Len(b) => a[k] = b[k]
    BY <1>1, <1>2
  <2>2. Len(a) # Len(b)
    BY <1>1, <2>1, SeqEqual
  <2>3. CASE Len(a) < Len(b)
    <3>1. Shorter(a, b)
      BY <1>1, <2>1, <2>3 DEF Shorter
    <3>. QED  BY <3>1, BelowMeans
  <2>4. CASE Len(b) < Len(a)
    <3>1. Shorter(b, a)
      BY <1>1, <2>1, <2>4 DEF Shorter
    <3>. QED  BY <3>1, BelowMeans
  <2>. QED  BY <1>1, <2>2, <2>3, <2>4
<1>3. CASE D # {}
  <2>1. PICK n \in D : \A j \in D : n <= j
    <3>1. D \subseteq Nat
      BY <1>1
    <3> HIDE DEF D
    <3>. QED  BY <1>3, <3>1, LeastElement
  <2>2. n \in Nat /\ n \in 1..Len(a) /\ n \in 1..Len(b) /\ a[n] # b[n]
    BY <1>1
  <2>3. \A k \in 1..(n - 1) : a[k] = b[k]
    <3> SUFFICES ASSUME NEW k \in 1..(n - 1) PROVE a[k] = b[k]
      OBVIOUS
    <3>1. k \in 1..Len(a) /\ k <= Len(b) /\ ~(n <= k)
      BY <1>1, <2>2
    <3>2. k \notin D
      <4> HIDE DEF D
      <4>. QED  BY <2>1, <3>1
    <3>. QED  BY <3>1, <3>2
  <2>4. Rank(a[n]) < Rank(b[n]) \/ Rank(b[n]) < Rank(a[n])
    <3>0. MaxRune = 1114111
      BY SMT DEF MaxRune
    <3>1. MaxRune \in Int
      BY <3>0, SMT
    <3>2. \A r \in Rune : r \in Nat /\ r <= MaxRune
      BY <3>1, SMT DEF Rune
    <3>3. \A r, q \in Nat : r <= MaxRune /\ q <= MaxRune /\ r # q =>
            Rank(r) < Rank(q) \/ Rank(q) < Rank(r)
      BY <3>0, SMT DEF Rank
    <3>. QED  BY <1>1, <2>2, <3>2, <3>3
  <2>5. RanksAt(a, b, n) \/ RanksAt(b, a, n)
    <3> HIDE DEF D
    <3>. QED  BY <2>2, <2>3, <2>4 DEF RanksAt
  <2>. QED  BY <2>2, <2>5, BelowMeans
<1>. QED  BY <1>2, <1>3

(* and whatever comes first in it is the lesser in compareSortKeys. *)
LEMMA LexLessIs ==
  ASSUME NEW u, NEW v, Len(u) \in Nat, Len(v) \in Nat
  PROVE  /\ Before(u, v) => LexLess(u, v)
         /\ Starts(u, v) /\ Len(u) < Len(v) => LexLess(u, v)
<1>1. ASSUME Before(u, v) PROVE LexLess(u, v)
  <2>1. PICK n \in Nat : /\ n < Len(u) /\ n < Len(v)
                         /\ \A k \in 1..n : u[k] = v[k]
                         /\ u[n + 1] < v[n + 1]
    BY <1>1 DEF Before
  <2>2. n \in 0..Len(u)
    BY <2>1
  <2>. QED  BY <2>1, <2>2 DEF LexLess
<1>2. ASSUME Starts(u, v), Len(u) < Len(v) PROVE LexLess(u, v)
  <2>1. Len(u) \in 0..Len(u) /\ ~(Len(u) < Len(u))
    OBVIOUS
  <2>2. \A k \in 1..Len(u) : u[k] = v[k]
    BY <1>2 DEF Starts
  <2>. QED  BY <1>2, <2>1, <2>2 DEF LexLess
<1>. QED  BY <1>1, <1>2

(* A difference between two pieces is one between the texts they begin,    *)
(* after the same start.                                                   *)
LEMMA BeforeAfter ==
  ASSUME NEW T, NEW p \in Seq(T), NEW u \in Seq(T), NEW v \in Seq(T),
         NEW x \in Seq(T), NEW y \in Seq(T),
         Starts(Joined(p, u), x), Starts(Joined(p, v), y), Before(u, v)
  PROVE  Before(x, y)
<1>1. PICK n \in Nat : /\ n < Len(u) /\ n < Len(v)
                       /\ \A k \in 1..n : u[k] = v[k]
                       /\ u[n + 1] < v[n + 1]
  BY DEF Before
<1>2. /\ Len(p) \in Nat /\ Len(u) \in Nat /\ Len(v) \in Nat /\ Len(x) \in Nat /\ Len(y) \in Nat
  BY LenProperties
<1> DEFINE l == Len(p)
<1>4. /\ l + Len(u) <= Len(x) /\ \A k \in 1..l : x[k] = p[k]
      /\ \A k \in 1..Len(u) : x[l + k] = u[k]
  BY StartsJoined
<1>5. /\ l + Len(v) <= Len(y) /\ \A k \in 1..l : y[k] = p[k]
      /\ \A k \in 1..Len(v) : y[l + k] = v[k]
  BY StartsJoined
<1>6. l \in Nat
  BY <1>2
<1> HIDE DEF l
<1>7. l + n \in Nat /\ l + n < Len(x) /\ l + n < Len(y) /\ (l + n) + 1 = l + (n + 1)
  <2>1. n < Len(u) /\ n < Len(v) /\ l + Len(u) <= Len(x) /\ l + Len(v) <= Len(y)
    BY <1>1, <1>4, <1>5
  <2>. QED  BY <1>2, <1>6, <2>1
<1>8. n + 1 \in 1..Len(u) /\ n + 1 \in 1..Len(v)
  BY <1>1, <1>2
<1>9. x[(l + n) + 1] < y[(l + n) + 1]
  <2>1. x[l + (n + 1)] = u[n + 1] /\ y[l + (n + 1)] = v[n + 1]
    BY <1>4, <1>5, <1>8
  <2>. QED  BY <1>1, <1>7, <2>1
<1>10. ASSUME NEW k \in 1..(l + n) PROVE x[k] = y[k]
  <2>1. CASE k <= l
    <3>1. k \in 1..l
      BY <1>6, <2>1
    <3>. QED  BY <1>4, <1>5, <3>1
  <2>2. CASE ~(k <= l)
    <3>1. k - l \in 1..n /\ k - l \in 1..Len(u) /\ k - l \in 1..Len(v) /\ l + (k - l) = k
      BY <1>1, <1>2, <1>6, <2>2
    <3>2. x[l + (k - l)] = u[k - l] /\ y[l + (k - l)] = v[k - l] /\ u[k - l] = v[k - l]
      BY <1>1, <1>4, <1>5, <3>1
    <3>. QED  BY <3>1, <3>2
  <2>. QED  BY <2>1, <2>2
<1>. QED  BY <1>7, <1>9, <1>10 DEF Before

LEMMA BelowIsLess ==
  ASSUME NEW a \in Seq(Rune), NEW b \in Seq(Rune), NoSurrogate(a), NoSurrogate(b), Below(a, b)
  PROVE  KeyLess(a, b)
<1>1. /\ Len(a) \in Nat /\ \A k \in 1..Len(a) : a[k] \in Rune
      /\ Len(b) \in Nat /\ \A k \in 1..Len(b) : b[k] \in Rune
  BY LenProperties, ElementOfSeq
<1>2. \A k \in 0..Len(a) : Encodings(a)[k] \in Seq(Number) /\ Len(Encodings(a)[k]) \in Nat
  BY EncodingsAre
<1>3. \A k \in 0..Len(b) : Encodings(b)[k] \in Seq(Number) /\ Len(Encodings(b)[k]) \in Nat
  BY EncodingsAre
<1>4. Len(Utf16(a)) \in Nat /\ Len(Utf16(b)) \in Nat
  BY <1>1, <1>2, <1>3 DEF Utf16
<1>5. CASE Shorter(a, b)
  <2>1. LexLess(a, b)
    BY <1>1, <1>5, LexLessIs DEF Shorter, Starts
  <2>2. LexLess(Utf16(a), Utf16(b))
    <3>1. Len(a) \in 0..Len(a) /\ Len(a) \in 0..Len(b) /\ Len(b) \in Len(a)..Len(b) /\ Len(a) < Len(b)
      BY <1>1, <1>5 DEF Shorter
    <3>2. Utf16(a) = Encodings(b)[Len(a)]
      <4>1. \A k \in 1..Len(a) : a[k] = b[k]
        BY <1>5 DEF Shorter
      <4>2. Len(a) <= Len(b)
        BY <1>1, <3>1
      <4>. QED  BY <3>1, <4>1, <4>2, SameStart DEF Utf16
    <3>3. /\ Starts(Encodings(b)[Len(a)], Encodings(b)[Len(b)])
          /\ Len(Encodings(b)[Len(a)]) < Len(Encodings(b)[Len(b)])
      BY <3>1, EncodingsAre, Grows
    <3>4. Starts(Utf16(a), Utf16(b)) /\ Len(Utf16(a)) < Len(Utf16(b))
      BY <3>2, <3>3 DEF Utf16
    <3>. QED  BY <1>4, <3>4, LexLessIs
  <2>. QED  BY <2>1, <2>2 DEF KeyLess
<1>6. ASSUME NEW n \in Nat, RanksAt(a, b, n) PROVE KeyLess(a, b)
  <2>1. /\ n \in 1..Len(a) /\ n \in 1..Len(b) /\ n - 1 \in 0..Len(a) /\ n - 1 <= Len(b)
        /\ n \in 0..Len(a) /\ n \in 0..Len(b) /\ n - 1 \in 0..Len(b)
        /\ Len(a) \in n..Len(a) /\ Len(b) \in n..Len(b)
        /\ \A k \in 1..(n - 1) : a[k] = b[k]
        /\ Rank(a[n]) < Rank(b[n])
    BY <1>1, <1>6 DEF RanksAt
  <2>2. a[n] \in Rune /\ b[n] \in Rune /\ ~IsSurrogate(a[n]) /\ ~IsSurrogate(b[n])
    BY <1>1, <2>1 DEF NoSurrogate
  <2>3. ASSUME IsASCII(a), IsASCII(b) PROVE LexLess(a, b)
    <3>1. a[n] < b[n]
      <4>1. a[n] < 128 /\ b[n] < 128
        BY <2>1, <2>3 DEF IsASCII
      <4>2. a[n] \in Nat /\ b[n] \in Nat
        <5>1. MaxRune \in Int
          BY SMT DEF MaxRune
        <5>. QED  BY <2>2, <5>1, SMT DEF Rune
      <4>. QED  BY <2>1, <4>1, <4>2, SMT DEF Rank
    <3>2. n - 1 \in Nat /\ n - 1 < Len(a) /\ n - 1 < Len(b) /\ (n - 1) + 1 = n
      BY <1>1, <2>1
    <3>3. Before(a, b)
      BY <2>1, <3>1, <3>2 DEF Before
    <3>. QED  BY <1>1, <3>3, LexLessIs
  <2>4. LexLess(Utf16(a), Utf16(b))
    <3> DEFINE p == Encodings(a)[n - 1]
    <3>1. p = Encodings(b)[n - 1]
      BY <2>1, SameStart
    <3>2. /\ Encodings(a)[n] = Joined(p, Units16(a[n]))
          /\ Encodings(b)[n] = Joined(p, Units16(b[n]))
      BY <2>1, <3>1, EncodingsAre DEF Joins
    <3>3. Starts(Encodings(a)[n], Utf16(a)) /\ Starts(Encodings(b)[n], Utf16(b))
      BY <2>1, EncodingsAre, Grows DEF Utf16
    <3>4. Before(Units16(a[n]), Units16(b[n]))
      BY <2>1, <2>2, RanksBefore
    <3>5. /\ p \in Seq(Number) /\ Units16(a[n]) \in Seq(Number) /\ Units16(b[n]) \in Seq(Number)
          /\ Utf16(a) \in Seq(Number) /\ Utf16(b) \in Seq(Number)
      <4>1. Len(a) \in 0..Len(a) /\ Len(b) \in 0..Len(b)
        BY <1>1
      <4>. QED  BY <1>2, <1>3, <2>1, <2>2, <4>1, Units16Type DEF Utf16
    <3> HIDE DEF p
    <3>6. Starts(Joined(p, Units16(a[n])), Utf16(a)) /\ Starts(Joined(p, Units16(b[n])), Utf16(b))
      BY <3>2, <3>3
    <3>7. Before(Utf16(a), Utf16(b))
      BY <3>4, <3>5, <3>6, BeforeAfter
    <3>. QED  BY <1>4, <3>7, LexLessIs
  <2>. QED  BY <2>3, <2>4 DEF KeyLess
<1>. QED  BY <1>5, <1>6, BelowMeans

-----------------------------------------------------------------------------
(* The keys of an object that has been accepted. *)
LEMMA KeysOfLawful ==
  ASSUME IsTree(tree), Lawful, NEW i \in 1..Len(tree), tree[i].kind = "obj", NEW j \in Children(i)
  PROVE  /\ tree[j].key \in Seq(Rune) /\ NoSurrogate(tree[j].key) /\ Readable(tree[j].key)
         /\ \A k \in Children(i) : tree[k].key = tree[j].key => k = j
<1>1. j \in 2..Len(tree) /\ j \in 1..Len(tree) /\ Siblings(j) = Children(i) /\ Keyed(j)
  <2>1. Len(tree) \in Nat
    BY TreeType
  <2>. QED  BY <2>1, SiblingsAre
<1>2. Clean(tree[j].key) /\ \A k \in Children(i) : tree[k].key = tree[j].key => k = j
  BY <1>1 DEF Lawful, Good
<1>3. tree[j].key \in Text /\ NoSurrogate(tree[j].key)
  BY <1>1, TreeType DEF IsTree
<1>4. Readable(tree[j].key)
  BY <1>2, <1>3, CleanIsReadable
<1>. QED  BY <1>2, <1>3, <1>4 DEF Readable

LEMMA SortedAscends ==
  ASSUME IsTree(tree), Lawful, NEW i \in 1..Len(tree), tree[i].kind = "obj",
         NEW order \in Sorted(i), NEW a \in DOMAIN order, NEW b \in DOMAIN order, a < b
  PROVE  Below(tree[order[a]].key, tree[order[b]].key)
<1>1. /\ order \in [1..Cardinality(Children(i)) -> Children(i)]
      /\ order[a] = order[b] => a = b
      /\ ~KeyLess(tree[order[b]].key, tree[order[a]].key)
  BY DEF Sorted
<1>2. a \in Nat /\ b \in Nat /\ order[a] \in Children(i) /\ order[b] \in Children(i)
  BY <1>1, ChildrenType
<1>3. tree[order[a]].key # tree[order[b]].key
  BY <1>1, <1>2, KeysOfLawful
<1>4. ~Below(tree[order[b]].key, tree[order[a]].key)
  BY <1>1, <1>2, KeysOfLawful, BelowIsLess
<1>. QED  BY <1>2, <1>3, <1>4, KeysOfLawful, Comparable

(* Every order of the members takes them all. *)
LEMMA SortedTakesAll ==
  ASSUME IsTree(tree), NEW i \in 1..Len(tree), NEW order \in Sorted(i), NEW j \in Children(i)
  PROVE  \E k \in 1..Cardinality(Children(i)) : order[k] = j
<1> DEFINE C == Children(i)
           n == Cardinality(C)
<1>1. IsFiniteSet(C) /\ n \in Nat
  BY ChildrenType
<1>2. /\ order \in [1..n -> C]
      /\ \A a, b \in 1..n : order[a] = order[b] => a = b
  BY DEF Sorted
<1>3. order \in Injection(1..n, C)
  BY <1>2 DEF Injection, IsInjective
<1>4. IsFiniteSet(1..n) /\ Cardinality(1..n) = n
  <2> HIDE DEF n
  <2>1. 1 \in Int /\ n \in Int
    BY <1>1
  <2>2. /\ IsFiniteSet(1..n)
        /\ Cardinality(1..n) = IF 1 > n THEN 0 ELSE n - 1 + 1
    BY <2>1, FS_Interval
  <2>. QED  BY <1>1, <2>2
<1>5. order \in Surjection(1..n, C)
  <2> HIDE DEF n, C
  <2>1. Cardinality(C) = n
    BY DEF n
  <2>. QED  BY <1>1, <1>3, <1>4, <2>1, FS_Injection
<1>. QED  BY <1>5 DEF Surjection

LEMMA OneSorted ==
  ASSUME IsTree(tree), Lawful, NEW i \in 1..Len(tree), tree[i].kind = "obj",
         NEW o1 \in Sorted(i), NEW o2 \in Sorted(i)
  PROVE  o1 = o2
<1> DEFINE n == Cardinality(Children(i))
           D == {k \in 1..n : o1[k] # o2[k]}
<1>1. n \in Nat /\ Children(i) \subseteq 1..Len(tree)
  BY ChildrenType, TreeType
<1>2. ASSUME NEW o \in Sorted(i)
      PROVE  /\ o \in [1..n -> Children(i)]
             /\ \A a, b \in 1..n : o[a] = o[b] => a = b
             /\ \A a, b \in 1..n : a < b => ~KeyLess(tree[o[b]].key, tree[o[a]].key)
  BY DEF Sorted
<1>3. CASE D = {}
  <2>1. o1 \in [1..n -> Children(i)] /\ o2 \in [1..n -> Children(i)]
    BY <1>2
  <2>2. \A k \in 1..n : o1[k] = o2[k]
    BY <1>3
  <2> HIDE DEF n
  <2>3. o1 = [k \in 1..n |-> o1[k]] /\ o2 = [k \in 1..n |-> o2[k]]
    BY <2>1
  <2>4. [k \in 1..n |-> o1[k]] = [k \in 1..n |-> o2[k]]
    BY <2>2
  <2>. QED  BY <2>3, <2>4
<1>4. CASE D # {}
  <2>1. PICK k \in D : \A j \in D : k <= j
    <3>1. D \subseteq Nat
      BY <1>1
    <3> HIDE DEF D
    <3>. QED  BY <1>4, <3>1, LeastElement
  <2>2. k \in 1..n /\ k \in Nat /\ o1[k] # o2[k] /\ \A j \in 1..n : j < k => o1[j] = o2[j]
    BY <1>1, <2>1
  <2> HIDE DEF D, n
  <2>3. ASSUME NEW p \in Sorted(i), NEW q \in Sorted(i), p[k] # q[k],
               \A j \in 1..n : j < k => p[j] = q[j]
        PROVE  ~KeyLess(tree[p[k]].key, tree[q[k]].key)
    <3>1. p[k] \in Children(i)
      BY <1>2, <2>2
    <3>2. PICK j \in 1..n : q[j] = p[k]
      BY <3>1, SortedTakesAll DEF n
    <3>3. ~(j < k)
      <4>1. ASSUME j < k PROVE FALSE
        <5>1. p[j] = p[k]
          BY <2>3, <3>2, <4>1
        <5>2. j = k
          BY <1>2, <2>2, <5>1
        <5>. QED  BY <2>2, <4>1, <5>2
      <4>. QED  BY <4>1
    <3>4. j # k
      BY <2>3, <3>2
    <3>5. k < j
      BY <1>1, <2>2, <3>3, <3>4
    <3>6. ~KeyLess(tree[q[j]].key, tree[q[k]].key)
      BY <1>2, <2>2, <3>5
    <3>. QED  BY <3>2, <3>6
  <2>4. /\ ~KeyLess(tree[o1[k]].key, tree[o2[k]].key)
        /\ ~KeyLess(tree[o2[k]].key, tree[o1[k]].key)
    BY <2>2, <2>3
  <2>5. o1[k] \in Children(i) /\ o2[k] \in Children(i)
    BY <1>2, <2>2
  <2>6. tree[o1[k]].key # tree[o2[k]].key
    BY <2>2, <2>5, KeysOfLawful
  <2>7. /\ ~Below(tree[o1[k]].key, tree[o2[k]].key)
        /\ ~Below(tree[o2[k]].key, tree[o1[k]].key)
    BY <2>4, <2>5, KeysOfLawful, BelowIsLess
  <2>. QED  BY <2>5, <2>6, <2>7, KeysOfLawful, Comparable
<1>. QED  BY <1>3, <1>4

-----------------------------------------------------------------------------
(* Reading back what is written of a string. *)
LEMMA KindIs ==
  ASSUME NEW t, NEW i, i <= Len(t)
  PROVE  ST!KindAt(t, i) = t[i].kind
BY DEF ST!KindAt

(* A character in its escaped form reads as itself. *)
LEMMA EscapedReads ==
  ASSUME NEW r \in Nat, r < 55296 \/ 57344 <= r,
         NEW t, Len(t) \in Nat, NEW i \in Nat, i + Len(Escaped(r)) - 1 <= Len(t),
         \A j \in 1..Len(Escaped(r)) : t[i + j - 1] = Escaped(r)[j]
  PROVE  /\ ST!CharAt(t, i) = <<Len(Escaped(r)), <<r>> >>
         /\ Len(Escaped(r)) \in 1..3
<1> DEFINE K(j) == ST!KindAt(t, j)
<1>1. ASSUME NEW u, Escaped(r) = <<u>> PROVE Len(Escaped(r)) = 1 /\ i <= Len(t) /\ t[i] = u
  <2>1. Len(<<u>>) = 1 /\ <<u>>[1] = u /\ i + 1 - 1 = i /\ 1 \in 1..1
    OBVIOUS
  <2>. QED  BY <1>1, <2>1
<1>2. ASSUME NEW u, NEW v, Escaped(r) = <<u, v>>
      PROVE  /\ Len(Escaped(r)) = 2 /\ i <= Len(t) /\ i + 1 <= Len(t)
             /\ t[i] = u /\ t[i + 1] = v
  <2>1. /\ Len(<<u, v>>) = 2 /\ <<u, v>>[1] = u /\ <<u, v>>[2] = v
        /\ i + 1 - 1 = i /\ i + 2 - 1 = i + 1 /\ 1 \in 1..2 /\ 2 \in 1..2
    OBVIOUS
  <2>. QED  BY <1>2, <2>1
<1>3. ASSUME NEW u, NEW v, NEW w, Escaped(r) = <<u, v, w>>
      PROVE  /\ Len(Escaped(r)) = 3 /\ i <= Len(t) /\ i + 1 <= Len(t) /\ i + 2 <= Len(t)
             /\ t[i] = u /\ t[i + 1] = v /\ t[i + 2] = w
  <2>1. /\ Len(<<u, v, w>>) = 3 /\ <<u, v, w>>[1] = u /\ <<u, v, w>>[2] = v /\ <<u, v, w>>[3] = w
        /\ i + 1 - 1 = i /\ i + 2 - 1 = i + 1 /\ i + 3 - 1 = i + 2
        /\ 1 \in 1..3 /\ 2 \in 1..3 /\ 3 \in 1..3
    OBVIOUS
  <2>. QED  BY <1>3, <2>1
<1>4. CASE r \in {34, 92}
  <2> DEFINE v == Unit(IF r = 34 THEN "quote" ELSE "backslash", r)
  <2>1. Escaped(r) = <<Backslash, v>>
    BY <1>4, SMT DEF Escaped
  <2>2. Backslash.kind = "backslash" /\ v.kind = (IF r = 34 THEN "quote" ELSE "backslash")
    BY DEF Backslash, Unit
  <2> HIDE DEF v
  <2>3. Len(Escaped(r)) = 2 /\ t[i + 1] = v /\ K(i) = "backslash" /\ K(i + 1) = v.kind
    BY <1>2, <2>1, <2>2, KindIs
  <2>4. ST!Escaped(v) = r
    BY <1>4, <2>2 DEF ST!Escaped
  <2>5. ST!CharAt(t, i) = <<2, <<ST!Escaped(t[i + 1])>> >>
    <3>1. K(i + 1) \in {"simple", "quote", "backslash"}
      BY <2>2, <2>3
    <3>. QED  BY <2>3, <3>1, SMT DEF ST!CharAt
  <2>. QED  BY <2>3, <2>4, <2>5
<1>5. CASE r \in {8, 9, 10, 12, 13}
  <2> DEFINE v == Unit("simple", r)
  <2>1. Escaped(r) = <<Backslash, v>>
    BY <1>5, SMT DEF Escaped
  <2>2. Backslash.kind = "backslash" /\ v.kind = "simple" /\ v.cp = r
    BY DEF Backslash, Unit
  <2> HIDE DEF v
  <2>3. Len(Escaped(r)) = 2 /\ t[i + 1] = v /\ K(i) = "backslash" /\ K(i + 1) = v.kind
    BY <1>2, <2>1, <2>2, KindIs
  <2>4. ST!Escaped(v) = r
    BY <2>2 DEF ST!Escaped
  <2>5. ST!CharAt(t, i) = <<2, <<ST!Escaped(t[i + 1])>> >>
    BY <2>2, <2>3, SMT DEF ST!CharAt
  <2>. QED  BY <2>3, <2>4, <2>5
<1>6. CASE r < 32 /\ r \notin {8, 9, 10, 12, 13}
  <2> DEFINE v == Unit("u", 117)
             w == Unit("quad", r)
  <2>1. Escaped(r) = <<Backslash, v, w>>
    BY <1>6, SMT DEF Escaped
  <2>2. Backslash.kind = "backslash" /\ v.kind = "u" /\ w.kind = "quad" /\ w.cp = r
    BY DEF Backslash, Unit
  <2> HIDE DEF v, w
  <2>3. /\ Len(Escaped(r)) = 3 /\ t[i + 2] = w
        /\ K(i) = "backslash" /\ K(i + 1) = "u" /\ K(i + 2) = "quad"
    BY <1>3, <2>1, <2>2, KindIs
  <2>4. ST!HexAt(t, i) /\ ST!Hex(t, i) = r
    BY <2>2, <2>3 DEF ST!HexAt, ST!Hex
  <2>5. ~ST!High(r) /\ ~ST!Low(r)
    BY <1>6, SMT DEF ST!High, ST!Low
  <2>6. ST!CharAt(t, i) = <<3, <<ST!Hex(t, i)>> >>
    BY <2>3, <2>4, <2>5, SMT DEF ST!CharAt
  <2>. QED  BY <2>3, <2>4, <2>6
<1>7. CASE r \notin {34, 92} /\ ~(r < 32)
  <2> DEFINE v == Unit(IF r < 128 THEN "plain" ELSE "rune", r)
  <2>1. Escaped(r) = <<v>>
    BY <1>7, SMT DEF Escaped
  <2>2. v.kind \in {"plain", "rune"} /\ v.cp = r
    BY DEF Unit
  <2> HIDE DEF v
  <2>3. Len(Escaped(r)) = 1 /\ t[i] = v /\ K(i) \in {"plain", "rune"}
    BY <1>1, <2>1, <2>2, KindIs
  <2>4. ST!Bare(t[i]) = <<r>>
    BY <2>2, <2>3 DEF ST!Bare
  <2>5. ST!CharAt(t, i) = <<1, ST!Bare(t[i])>>
    BY <2>3, SMT DEF ST!CharAt
  <2>. QED  BY <2>3, <2>4, <2>5
<1>. QED  BY <1>4, <1>5, <1>6, <1>7

(* A character lies inside the text, whatever it is; *)
LEMMA CharFits ==
  ASSUME NEW t, Len(t) \in Nat, NEW i \in 1..(Len(t) + 1), ~ST!Stops(t, i)
  PROVE  /\ ST!CharAt(t, i)[1] \in Nat \ {0}
         /\ i + ST!CharAt(t, i)[1] \in 1..(Len(t) + 1)
<1> DEFINE K(j) == ST!KindAt(t, j)
           C == ST!CharAt(t, i)
<1>1. ASSUME NEW j \in Nat, K(j) # "none" PROVE j <= Len(t)
  BY <1>1 DEF ST!KindAt, ST!None
<1>2. C[1] # 0
  BY DEF ST!Stops
<1>3. i \in Nat /\ i + 1 \in Nat /\ i + 2 \in Nat /\ i + 3 \in Nat /\ i + 3 + 1 \in Nat /\ i + 3 + 2 \in Nat
  OBVIOUS
<1>4. CASE K(i) \in {"u", "simple", "plain", "rune", "quad"}
  <2>1. C[1] = 1
    BY <1>4, SMT DEF ST!CharAt
  <2>2. i <= Len(t)
    BY <1>1, <1>3, <1>4
  <2>. QED  BY <2>1, <2>2
<1>5. CASE K(i) = "backslash" /\ K(i + 1) \in {"simple", "quote", "backslash"}
  <2>1. C[1] = 2
    BY <1>5, SMT DEF ST!CharAt
  <2>2. i + 1 <= Len(t)
    BY <1>1, <1>3, <1>5
  <2>. QED  BY <2>1, <2>2
<1>6. CASE ~(K(i) \in {"u", "simple", "plain", "rune", "quad"})
           /\ ~(K(i) = "backslash" /\ K(i + 1) \in {"simple", "quote", "backslash"})
  <2> DEFINE one == ST!HexAt(t, i) /\ ~ST!High(ST!Hex(t, i)) /\ ~ST!Low(ST!Hex(t, i))
             two == ST!HexAt(t, i) /\ ST!HexAt(t, i + 3) /\ ST!High(ST!Hex(t, i)) /\ ST!Low(ST!Hex(t, i + 3))
  <2>1. C = IF one THEN <<3, <<ST!Hex(t, i)>> >>
            ELSE IF two THEN <<6, <<65536 + (ST!Hex(t, i) % 1024) * 1024 + (ST!Hex(t, i + 3) % 1024)>> >>
            ELSE <<0, << >> >>
    BY <1>6, SMT DEF ST!CharAt
  <2>2. one => C[1] = 3 /\ K(i + 2) = "quad"
    BY <2>1 DEF ST!HexAt
  <2>3. ~one /\ two => C[1] = 6 /\ K(i + 3 + 2) = "quad"
    BY <2>1 DEF ST!HexAt
  <2>4. ~one /\ ~two => C[1] = 0
    <3> HIDE DEF one, two
    <3>. QED  BY <2>1
  <2> HIDE DEF one, two, C
  <2>5. CASE one
    <3>1. i + 2 <= Len(t) /\ C[1] = 3
      BY <1>1, <1>3, <2>2, <2>5
    <3>. QED  BY <3>1 DEF C
  <2>6. CASE ~one /\ two
    <3>1. i + 3 + 2 <= Len(t) /\ C[1] = 6
      BY <1>1, <1>3, <2>3, <2>6
    <3>. QED  BY <3>1 DEF C
  <2>. QED  BY <1>2, <2>4, <2>5, <2>6
<1>. QED  BY <1>4, <1>5, <1>6

(* so that what is read from a place on is read from places after it, and   *)
(* the recursion of StringText is founded. *)
LEMMA DecodingsAre ==
  ASSUME NEW t, Len(t) \in Nat, NEW i \in 1..(Len(t) + 1)
  PROVE  ST!Decodings(t)[i] =
           IF ST!Stops(t, i) THEN [at |-> i, text |-> << >>]
           ELSE [at   |-> ST!Decodings(t)[i + ST!CharAt(t, i)[1]].at,
                 text |-> ST!CharAt(t, i)[2] \o ST!Decodings(t)[i + ST!CharAt(t, i)[1]].text]
<1> DEFINE End == Len(t) + 1
           V(f, j) == IF ST!Stops(t, j) THEN [at |-> j, text |-> << >>]
                      ELSE [at   |-> f[j + ST!CharAt(t, j)[1]].at,
                            text |-> ST!CharAt(t, j)[2] \o f[j + ST!CharAt(t, j)[1]].text]
           G(f, k) == [j \in (End - k)..End |-> V(f, j)]
           B == {k \in 0..(End - 1) : ~\E f : f = G(f, k)}
           F(f) == [j \in 1..(Len(t) + 1) |-> V(f, j)]
<1>1. End \in Nat \ {0}
  <2>1. \A n \in Nat : n + 1 \in Nat \ {0}
    OBVIOUS
  <2>. QED  BY <2>1, Zenon
<1>2. ASSUME B # {} PROVE FALSE
  <2>0. B \subseteq Nat
    <3> HIDE DEF G
    <3>. QED  BY <1>1
  <2>1. PICK k \in B : \A j \in B : k <= j
    <3> HIDE DEF B
    <3>. QED  BY <1>2, <2>0, LeastElement
  <2>2. k \in Nat /\ k <= End - 1
    BY <1>1
  <2>3. PICK f : \A j \in (End - k)..End : j # End - k => f[j] = V(f, j)
    <3>1. CASE k = 0
      <4>1. \A j \in (End - k)..End : j = End - k
        BY <1>1, <3>1
      <4> HIDE DEF V
      <4>. QED  BY <4>1
    <3>2. CASE k # 0
      <4>1. k - 1 \in 0..(End - 1) /\ ~(k <= k - 1)
        BY <1>1, <2>2, <3>2
      <4>2. k - 1 \notin B
        <5> HIDE DEF B
        <5>. QED  BY <2>1, <4>1
      <4>3. PICK f : f = G(f, k - 1)
        <5> HIDE DEF G
        <5>. QED  BY <4>1, <4>2
      <4>4. \A j \in (End - k)..End : j # End - k => j \in (End - (k - 1))..End
        BY <1>1, <2>2
      <4> HIDE DEF V
      <4>. QED  BY <4>3, <4>4
    <3>. QED  BY <3>1, <3>2
  <2>4. ASSUME NEW j \in (End - k)..End, ~ST!Stops(t, j)
        PROVE  G(f, k)[j + ST!CharAt(t, j)[1]] = f[j + ST!CharAt(t, j)[1]]
    <3>1. j \in 1..(Len(t) + 1)
      BY <1>1, <2>2
    <3>2. /\ ST!CharAt(t, j)[1] \in Nat \ {0}
          /\ j + ST!CharAt(t, j)[1] \in 1..(Len(t) + 1)
      BY <2>4, <3>1, CharFits
    <3>3. j + ST!CharAt(t, j)[1] \in (End - k)..End /\ j + ST!CharAt(t, j)[1] # End - k
      BY <1>1, <2>2, <3>2
    <3> HIDE DEF V
    <3>. QED  BY <2>3, <3>3
  <2>5. \A j \in (End - k)..End : V(f, j) = V(G(f, k), j)
    <3> HIDE DEF G
    <3>. QED  BY <2>4
  <2>6. G(f, k) = G(G(f, k), k)
    <3>1. G(f, k) = [j \in (End - k)..End |-> V(G(f, k), j)]
      <4> HIDE DEF V
      <4>. QED  BY <2>5
    <3>. QED  BY <3>1
  <2>7. k \in B
    OBVIOUS
  <2>. QED  BY <2>6, <2>7
<1>3. \E f : f = F(f)
  <2>1. End - 1 \in 0..(End - 1) /\ End - (End - 1) = 1
    BY <1>1
  <2>2. \E f : f = G(f, End - 1)
    <3> HIDE DEF G
    <3>. QED  BY <1>2, <2>1
  <2> HIDE DEF V
  <2>. QED  BY <2>1, <2>2
<1>4. ST!Decodings(t) = CHOOSE f : f = F(f)
  BY DEF ST!Decodings
<1>5. ST!Decodings(t) = F(ST!Decodings(t))
  <2> HIDE DEF F
  <2>. QED  BY <1>3, <1>4
<1>6. ST!Decodings(t)[i] = V(ST!Decodings(t), i)
  <2> HIDE DEF V
  <2>. QED  BY <1>5
<1>. QED  BY <1>6

LEMMA EscapedLen == \A r : Len(Escaped(r)) \in 1..3
<1>1. \A a, b, c : Len(<<a>>) = 1 /\ Len(<<a, b>>) = 2 /\ Len(<<a, b, c>>) = 3
  OBVIOUS
<1>. QED  BY <1>1, SMT DEF Escaped

LEMMA ReadableIsText == \A s : Readable(s) => s \in Text
<1>1. Bad = -1 /\ MaxRune \in Int
  BY DEF Bad, MaxRune
<1>2. Rune \subseteq Bad..MaxRune
  BY <1>1 DEF Rune
<1>3. Seq(Rune) \subseteq Text
  BY <1>2, SeqMonotonic DEF Text
<1>. QED  BY <1>3 DEF Readable

(* where the escaped form of the n-th character stands *)
At(s, n) == Len(Pieces(s)[n]) + 1

LEMMA PieceStands ==
  ASSUME NEW s \in Text, NEW n \in 1..Len(s)
  PROVE  /\ At(s, n - 1) \in Nat \ {0} /\ At(s, n) = At(s, n - 1) + Len(Escaped(s[n]))
         /\ At(s, n) <= Len(Quoted(s))
         /\ \A j \in 1..Len(Escaped(s[n])) : Quoted(s)[At(s, n - 1) + j - 1] = Escaped(s[n])[j]
<1> DEFINE p == Pieces(s)[n - 1]
           e == Escaped(s[n])
<1>1. /\ Len(s) \in Nat /\ n - 1 \in 0..Len(s) /\ n \in 0..Len(s)
      /\ Len(s) \in 0..Len(s) /\ Len(s) \in n..Len(s)
  BY PiecesAre
<1>2. /\ p \in Seq(Printed) /\ e \in Seq(Printed) /\ Pieces(s)[n] = Joined(p, e)
      /\ Units(s) \in Seq(Printed)
  BY <1>1, PiecesAre DEF Joins, Units
<1>3. Len(e) \in 1..3
  BY EscapedLen
<1>4. Starts(Pieces(s)[n], Units(s))
  <2>1. \A k \in 1..Len(s) : Len(Escapes(s)[k]) > 0
    <3>1. \A x : x \in 1..3 => x > 0
      OBVIOUS
    <3>. QED  BY <3>1, EscapedLen, PiecesAre
  <2>2. Joins(Pieces(s), Len(s), Printed, Escapes(s))
    BY PiecesAre
  <2>3. Starts(Pieces(s)[n], Pieces(s)[Len(s)])
    BY <1>1, <2>1, <2>2, Grows
  <2>. QED  BY <2>3 DEF Units
<1> HIDE DEF p, e
<1>5. /\ Len(p) + Len(e) <= Len(Units(s))
      /\ \A k \in 1..Len(e) : Units(s)[Len(p) + k] = e[k]
  BY <1>2, <1>4, StartsJoined
<1>6. Len(p) \in Nat /\ Len(e) \in Nat /\ Len(Units(s)) \in Nat /\ Len(Pieces(s)[n]) = Len(p) + Len(e)
  BY <1>2, LenProperties, JoinedIs
<1>7. /\ Len(Quoted(s)) = Len(Units(s)) + 1
      /\ \A k \in 1..Len(Units(s)) : Quoted(s)[k] = Units(s)[k]
  BY <1>2, AppendProperties DEF Quoted
<1>8. /\ At(s, n - 1) = Len(p) + 1 /\ At(s, n) = Len(p) + Len(e) + 1
  BY <1>6 DEF At, p
<1>9. ASSUME NEW j \in 1..Len(e) PROVE Quoted(s)[At(s, n - 1) + j - 1] = e[j]
  <2>1. At(s, n - 1) + j - 1 = Len(p) + j /\ Len(p) + j \in 1..Len(Units(s))
    BY <1>5, <1>6, <1>8
  <2>. QED  BY <1>5, <1>7, <2>1
<1>10. /\ At(s, n - 1) \in Nat \ {0} /\ At(s, n) = At(s, n - 1) + Len(e)
       /\ At(s, n) <= Len(Quoted(s))
  <2>1. Len(p) + Len(e) <= Len(Units(s)) /\ Len(Quoted(s)) = Len(Units(s)) + 1
    BY <1>5, <1>7
  <2>. QED  BY <1>6, <1>8, <2>1
<1>11. e = Escaped(s[n])
  BY DEF e
<1>. QED  BY <1>9, <1>10, <1>11

(* StringText reads every character of a string where it was written, *)
LEMMA CharacterReads ==
  ASSUME NEW s, Readable(s), NEW n \in 1..Len(s)
  PROVE  /\ ~ST!Stops(Quoted(s), At(s, n - 1))
         /\ ST!CharAt(Quoted(s), At(s, n - 1)) = <<Len(Escaped(s[n])), <<s[n]>> >>
<1>1. s \in Text /\ s[n] \in Rune
  BY ReadableIsText, ElementOfSeq DEF Readable
<1>2. s[n] \in Nat
  <2>1. MaxRune \in Int
    BY SMT DEF MaxRune
  <2>. QED  BY <1>1, <2>1, SMT DEF Rune
<1>3. s[n] < 55296 \/ 57344 <= s[n]
  BY <1>2, SMT DEF Readable, NoSurrogate, IsSurrogate
<1>4. Len(Quoted(s)) \in Nat
  <2>1. Units(s) \in Seq(Printed) /\ Unit("quote", 34) \in Printed
    BY <1>1, UnitsType DEF Unit, Printed
  <2>. QED  BY <2>1, AppendProperties, LenProperties DEF Quoted
<1>5. ST!CharAt(Quoted(s), At(s, n - 1)) = <<Len(Escaped(s[n])), <<s[n]>> >>
      /\ Len(Escaped(s[n])) \in 1..3
  <2> DEFINE i == At(s, n - 1)
             r == s[n]
  <2>1. /\ i \in Nat \ {0} /\ At(s, n) = i + Len(Escaped(r)) /\ At(s, n) <= Len(Quoted(s))
        /\ \A j \in 1..Len(Escaped(r)) : Quoted(s)[i + j - 1] = Escaped(r)[j]
    BY <1>1, PieceStands
  <2>2. i + Len(Escaped(r)) - 1 <= Len(Quoted(s)) /\ i \in Nat
    <3>1. Len(Escaped(r)) \in 1..3
      BY EscapedLen
    <3> HIDE DEF i, r
    <3>. QED  BY <1>4, <2>1, <3>1
  <2>3. r \in Nat /\ (r < 55296 \/ 57344 <= r)
    BY <1>2, <1>3
  <2> HIDE DEF i, r
  <2>4. ST!CharAt(Quoted(s), i) = <<Len(Escaped(r)), <<r>> >> /\ Len(Escaped(r)) \in 1..3
    BY <1>4, <2>1, <2>2, <2>3, EscapedReads
  <2>. QED  BY <2>4 DEF i, r
<1>6. ST!Allowed(<<s[n]>>)
  <2>1. s[n] \notin 64976..65007 /\ s[n] % 65536 < 65534
    BY DEF Readable, ST!Allowed
  <2>2. \A r : Len(<<r>>) = 1 /\ <<r>>[1] = r /\ \A j \in 1..1 : j = 1
    OBVIOUS
  <2>3. \A j \in 1..Len(<<s[n]>>) : <<s[n]>>[j] = s[n]
    BY <2>2
  <2>. QED  BY <2>1, <2>3 DEF ST!Allowed
<1>7. ~ST!Stops(Quoted(s), At(s, n - 1))
  <2> DEFINE C == ST!CharAt(Quoted(s), At(s, n - 1))
  <2>1. C[1] # 0 /\ C[2] = <<s[n]>>
    <3>1. \A x, y : <<x, y>>[1] = x /\ <<x, y>>[2] = y
      OBVIOUS
    <3>2. Len(Escaped(s[n])) # 0
      <4>1. \A x : x \in 1..3 => x # 0
        OBVIOUS
      <4>. QED  BY <4>1, EscapedLen
    <3> HIDE DEF C
    <3>3. C = <<Len(Escaped(s[n])), <<s[n]>> >>
      BY <1>5 DEF C
    <3>. QED  BY <3>1, <3>2, <3>3
  <2>. QED  BY <1>6, <2>1 DEF ST!Stops
<1>. QED  BY <1>5, <1>7

(* and stops at the quote that ends it. *)
LEMMA QuoteStops ==
  ASSUME NEW s \in Text
  PROVE  /\ At(s, Len(s)) = Len(Quoted(s)) /\ Len(Quoted(s)) = Len(Units(s)) + 1
         /\ Len(Quoted(s)) \in Nat
         /\ ST!Stops(Quoted(s), At(s, Len(s)))
<1>1. Units(s) \in Seq(Printed) /\ Unit("quote", 34) \in Printed
  BY UnitsType DEF Unit, Printed
<1>2. /\ Len(Units(s)) \in Nat /\ Len(Quoted(s)) = Len(Units(s)) + 1
      /\ Quoted(s)[Len(Units(s)) + 1] = Unit("quote", 34)
  BY <1>1, AppendProperties, LenProperties DEF Quoted
<1>3. At(s, Len(s)) = Len(Quoted(s))
  BY <1>2 DEF At, Units
<1> DEFINE i == At(s, Len(s))
<1>4. ST!KindAt(Quoted(s), i) = "quote"
  <2>1. Unit("quote", 34).kind = "quote"
    BY DEF Unit
  <2>2. i <= Len(Quoted(s)) /\ Quoted(s)[i] = Unit("quote", 34)
    BY <1>2, <1>3
  <2> HIDE DEF i
  <2>. QED  BY <2>1, <2>2, KindIs
<1> HIDE DEF i
<1>5. ~ST!HexAt(Quoted(s), i)
  BY <1>4 DEF ST!HexAt
<1>6. ST!CharAt(Quoted(s), i) = <<0, << >> >>
  BY <1>4, <1>5, SMT DEF ST!CharAt
<1>7. ST!Stops(Quoted(s), i)
  BY <1>6 DEF ST!Stops
<1>. QED  BY <1>2, <1>3, <1>7 DEF i

LEMMA Rest ==
  ASSUME NEW s \in Seq(Rune), NEW n \in 1..Len(s)
  PROVE  SubSeq(s, n, Len(s)) = <<s[n]>> \o SubSeq(s, n + 1, Len(s))
<1>1. Len(s) \in Nat /\ \A k \in 1..Len(s) : s[k] \in Rune
  BY LenProperties, ElementOfSeq
<1>2. ASSUME NEW m \in 1..(Len(s) + 1)
      PROVE  /\ SubSeq(s, m, Len(s)) \in Seq(Rune)
             /\ Len(SubSeq(s, m, Len(s))) = Len(s) - m + 1
             /\ \A k \in 1..(Len(s) - m + 1) : SubSeq(s, m, Len(s))[k] = s[m + k - 1]
  <2>1. m \in Int /\ Len(s) \in Int /\ \A k \in m..Len(s) : s[k] \in Rune
    BY <1>1
  <2>2. IF m <= Len(s) THEN TRUE ELSE Len(s) - m + 1 = 0
    BY <1>1
  <2>. QED  BY <2>1, <2>2, SubSeqProperties
<1> DEFINE r == SubSeq(s, n + 1, Len(s))
           w == SubSeq(s, n, Len(s))
           u == <<s[n]>>
<1>3. n \in 1..(Len(s) + 1) /\ n + 1 \in 1..(Len(s) + 1) /\ n \in Nat
  BY <1>1
<1>4. /\ r \in Seq(Rune) /\ Len(r) = Len(s) - (n + 1) + 1
      /\ \A k \in 1..(Len(s) - (n + 1) + 1) : r[k] = s[n + 1 + k - 1]
  BY <1>2, <1>3
<1>5. /\ w \in Seq(Rune) /\ Len(w) = Len(s) - n + 1
      /\ \A k \in 1..(Len(s) - n + 1) : w[k] = s[n + k - 1]
  BY <1>2, <1>3
<1>6. u \in Seq(Rune) /\ Len(u) = 1 /\ u[1] = s[n]
  BY <1>1
<1> HIDE DEF r, w, u
<1>7. /\ u \o r \in Seq(Rune) /\ Len(u \o r) = 1 + Len(r)
      /\ \A k \in 1..(1 + Len(r)) : (u \o r)[k] = IF k <= 1 THEN u[k] ELSE r[k - 1]
  <2>1. u \in Seq(Rune) /\ r \in Seq(Rune)
    BY <1>4, <1>6
  <2>2. /\ u \o r \in Seq(Rune) /\ Len(u \o r) = Len(u) + Len(r)
        /\ \A k \in 1..(Len(u) + Len(r)) :
             (u \o r)[k] = IF k <= Len(u) THEN u[k] ELSE r[k - Len(u)]
    BY <2>1, ConcatProperties
  <2>3. Len(u) = 1
    BY <1>6
  <2>. QED  BY <2>2, <2>3
<1>8. Len(w) = Len(u \o r)
  BY <1>1, <1>3, <1>4, <1>5, <1>7
<1>9. ASSUME NEW k \in 1..Len(w) PROVE w[k] = (u \o r)[k]
  <2>1. k \in 1..(Len(s) - n + 1) /\ k \in 1..(1 + Len(r)) /\ k \in Nat
    BY <1>1, <1>3, <1>5, <1>7, <1>8
  <2>2. CASE k = 1
    <3>1. n + 1 - 1 = n
      BY <1>3
    <3>. QED  BY <1>5, <1>6, <1>7, <2>1, <2>2, <3>1
  <2>3. CASE k # 1
    <3>1. /\ k - 1 \in 1..(Len(s) - (n + 1) + 1) /\ n + 1 + (k - 1) - 1 = n + k - 1 /\ ~(k <= 1)
      BY <1>1, <1>3, <2>1, <2>3
    <3>. QED  BY <1>4, <1>5, <1>7, <2>1, <3>1
  <2>. QED  BY <2>2, <2>3
<1>10. w = u \o r
  BY <1>5, <1>7, <1>8, <1>9, SeqEqual
<1>. QED  BY <1>10 DEF u, r, w

(* A string that may stand in a value is read back from what is written of *)
(* it, to its last unit. *)
LEMMA ReadBack ==
  ASSUME NEW s, Readable(s)
  PROVE  ST!Decode(Quoted(s)) = [at |-> Len(Units(s)) + 1, text |-> s]
<1>1. s \in Text /\ s \in Seq(Rune) /\ Len(s) \in Nat
  BY ReadableIsText, LenProperties DEF Readable
<1> DEFINE D == ST!Decodings(Quoted(s))
           T(n) == D[At(s, n)] = [at |-> Len(Quoted(s)), text |-> SubSeq(s, n + 1, Len(s))]
           B == {k \in 0..Len(s) : ~T(Len(s) - k)}
<1>2. ASSUME NEW n \in 0..Len(s) PROVE At(s, n) \in 1..(Len(Quoted(s)) + 1)
  <2>0. Len(Quoted(s)) \in Nat /\ At(s, Len(s)) = Len(Quoted(s))
    BY <1>1, QuoteStops
  <2>1. At(s, n) \in Nat \ {0}
    <3>1. Len(Pieces(s)[n]) \in Nat
      BY <1>1, PiecesAre
    <3>. QED  BY <3>1 DEF At
  <2>2. CASE n = Len(s)
    BY <2>0, <2>1, <2>2
  <2>3. CASE n # Len(s)
    <3>1. n + 1 \in 1..Len(s) /\ (n + 1) - 1 = n
      BY <1>1, <2>3
    <3>2. At(s, n + 1) = At(s, n) + Len(Escaped(s[n + 1])) /\ At(s, n + 1) <= Len(Quoted(s))
      BY <1>1, <3>1, PieceStands
    <3>3. Len(Escaped(s[n + 1])) \in 1..3
      BY EscapedLen
    <3>. QED  BY <2>0, <2>1, <3>2, <3>3
  <2>. QED  BY <2>2, <2>3
<1>3. T(Len(s))
  <2>1. /\ At(s, Len(s)) = Len(Quoted(s)) /\ Len(Quoted(s)) \in Nat
        /\ ST!Stops(Quoted(s), At(s, Len(s)))
    BY <1>1, QuoteStops
  <2>2. At(s, Len(s)) \in 1..(Len(Quoted(s)) + 1)
    BY <1>1, <1>2
  <2>3. D[At(s, Len(s))] = [at |-> At(s, Len(s)), text |-> << >>]
    BY <2>1, <2>2, DecodingsAre
  <2>4. SubSeq(s, Len(s) + 1, Len(s)) = << >>
    <3>1. Len(s) + 1 \in Int /\ Len(s) \in Int /\ Len(s) < Len(s) + 1
      BY <1>1
    <3>. QED  BY <3>1, SubSeqEmpty
  <2> HIDE DEF D
  <2>. QED  BY <2>1, <2>3, <2>4
<1>4. ASSUME NEW n \in 1..Len(s), T(n) PROVE T(n - 1)
  <2> DEFINE i == At(s, n - 1)
             C == ST!CharAt(Quoted(s), i)
  <2>0. n - 1 \in 0..Len(s) /\ (n - 1) + 1 = n
    BY <1>1
  <2>1. ~ST!Stops(Quoted(s), i) /\ C = <<Len(Escaped(s[n])), <<s[n]>> >>
    BY CharacterReads
  <2>2. At(s, n) = i + Len(Escaped(s[n]))
    BY <1>1, PieceStands
  <2>3. Len(Quoted(s)) \in Nat
    BY <1>1, QuoteStops
  <2>4. i \in 1..(Len(Quoted(s)) + 1)
    BY <1>2, <2>0
  <2> HIDE DEF i
  <2>5. D[i] = [at |-> D[i + C[1]].at, text |-> C[2] \o D[i + C[1]].text]
    BY <2>1, <2>3, <2>4, DecodingsAre
  <2>6. C[1] = Len(Escaped(s[n])) /\ C[2] = <<s[n]>>
    <3>1. \A x, y : <<x, y>>[1] = x /\ <<x, y>>[2] = y
      OBVIOUS
    <3> HIDE DEF C
    <3>. QED  BY <2>1, <3>1
  <2> HIDE DEF C, D
  <2>7. D[i] = [at |-> D[At(s, n)].at, text |-> <<s[n]>> \o D[At(s, n)].text]
    BY <2>2, <2>5, <2>6
  <2>8. D[At(s, n)].at = Len(Quoted(s)) /\ D[At(s, n)].text = SubSeq(s, n + 1, Len(s))
    BY <1>4
  <2>9. SubSeq(s, n, Len(s)) = <<s[n]>> \o SubSeq(s, n + 1, Len(s))
    BY <1>1, Rest
  <2>10. D[i] = [at |-> Len(Quoted(s)), text |-> SubSeq(s, n, Len(s))]
    BY <2>7, <2>8, <2>9
  <2>. QED  BY <2>0, <2>10 DEF i
<1> HIDE DEF T
<1>5. B = {}
  <2>1. ASSUME B # {} PROVE FALSE
    <3>1. PICK k \in B : \A j \in B : k <= j
      <4>1. B \subseteq Nat
        BY <1>1
      <4> HIDE DEF B
      <4>. QED  BY <2>1, <4>1, LeastElement
    <3>2. k \in Nat /\ k <= Len(s) /\ ~T(Len(s) - k)
      BY <1>1
    <3>3. k # 0
      <4>1. Len(s) - 0 = Len(s)
        BY <1>1
      <4>. QED  BY <1>3, <3>2, <4>1
    <3>4. k - 1 \in 0..Len(s) /\ ~(k <= k - 1)
      BY <1>1, <3>2, <3>3
    <3>5. k - 1 \notin B
      <4> HIDE DEF B
      <4>. QED  BY <3>1, <3>4
    <3>6. T(Len(s) - (k - 1))
      BY <3>4, <3>5
    <3>7. Len(s) - (k - 1) \in 1..Len(s) /\ (Len(s) - (k - 1)) - 1 = Len(s) - k
      BY <1>1, <3>2, <3>3
    <3>. QED  BY <1>4, <3>2, <3>6, <3>7
  <2>. QED  BY <2>1
<1>6. T(0)
  <2>1. Len(s) \in 0..Len(s) /\ Len(s) - Len(s) = 0
    BY <1>1
  <2>2. Len(s) \notin B
    <3> HIDE DEF B
    <3>. QED  BY <1>5
  <2>. QED  BY <2>1, <2>2
<1>7. At(s, 0) = 1
  <2>1. Pieces(s)[0] = << >>
    BY <1>1, PiecesAre DEF Joins
  <2>2. Len(<< >>) + 1 = 1
    OBVIOUS
  <2>. QED  BY <2>1, <2>2 DEF At
<1>8. SubSeq(s, 0 + 1, Len(s)) = s
  <2>1. 0 + 1 = 1
    OBVIOUS
  <2>. QED  BY <1>1, <2>1, SubSeqFull
<1>9. Len(Quoted(s)) = Len(Units(s)) + 1
  BY <1>1, QuoteStops
<1>. QED  BY <1>6, <1>7, <1>8, <1>9 DEF T, ST!Decode
-----------------------------------------------------------------------------
Item == Lexemes \cup Turns

(* The lexemes. The texts of the marks are left to the first-order prover. *)
LEMMA MarkType == \A k \in Marks : Mark(k) \in Lexemes
<1>1. << >> \in Text
  BY DEF Text
<1>. QED  BY <1>1 DEF Mark, Lexeme, Lexemes

LEMMA MarksAre ==
  /\ Comma \in Lexemes /\ Mark(":") \in Lexemes
  /\ \A kind : Opens(kind) \in Lexemes /\ Closes(kind) \in Lexemes
<1>1. /\ "[" \in Marks /\ "]" \in Marks /\ "{" \in Marks /\ "}" \in Marks
      /\ "," \in Marks /\ ":" \in Marks
  BY Zenon DEF Marks
<1>2. /\ Mark("[") \in Lexemes /\ Mark("]") \in Lexemes
      /\ Mark("{") \in Lexemes /\ Mark("}") \in Lexemes
      /\ Mark(",") \in Lexemes /\ Mark(":") \in Lexemes
  BY <1>1, MarkType, Zenon
<1>. QED  BY <1>2, Zenon DEF Comma, Opens, Closes

LEMMA StringType ==
  /\ \A j \in 1..Len(tree) : Readable(tree[j].key) => String(tree[j].key) \in Lexemes
  /\ \A j \in 1..Len(tree) : Readable(tree[j].text) => String(tree[j].text) \in Lexemes
BY ReadableIsText DEF Lexemes, Texts

(* A lexeme is no node, and if it is a string, the tree has it. *)
LEMMA StringIs ==
  ASSUME NEW x \in Lexemes
  PROVE  x.node = 0 /\ (x.kind = "str" => \E s \in Texts : x = String(s))
<1>1. CASE \E s \in Texts : x = String(s)
  <2>1. x.node = 0
    BY <1>1 DEF String, Lexeme
  <2>. QED  BY <1>1, <2>1
<1>2. CASE x \in [node : {0}, kind : (Kind \ {"str"}) \cup Marks, units : Text]
  <2>1. x.node = 0 /\ x.kind \in (Kind \ {"str"}) \cup Marks
    BY <1>2
  <2>2. "str" \notin (Kind \ {"str"}) \cup Marks
    BY Zenon DEF Marks
  <2>3. x.kind # "str"
    BY <2>1, <2>2, Zenon
  <2>. QED  BY <2>1, <2>3
<1>. QED  BY <1>1, <1>2 DEF Lexemes

LEMMA LexemeType == \A k \in Kind \ {"str"}, s \in Text : Lexeme(k, s) \in Lexemes
BY DEF Lexeme, Lexemes

LEMMA FormattedType == \A s \in Text : Formatted(s) \in Text
<1>1. Bad <= 48 /\ 48 <= MaxRune /\ Bad \in Int /\ MaxRune \in Int
  BY DEF Bad, MaxRune
<1>2. <<48>> \in Text
  BY <1>1 DEF Text
<1>. QED  BY <1>2 DEF Formatted

LEMMA SubType == \A i \in 1..Len(tree) : Sub(i) \in Turns
BY DEF Sub, Turns

LEMMA ElementsType ==
  ASSUME IsTree(tree), NEW i \in 1..Len(tree),
         NEW order \in [1..Cardinality(Children(i)) -> Children(i)]
  PROVE  /\ Elements(order) \in Seq(Seq(Item))
         /\ Lawful /\ tree[i].kind = "obj" => Members(order) \in Seq(Seq(Item))
<1> DEFINE n == Cardinality(Children(i))
<1>1. n \in Nat /\ Children(i) \subseteq 1..Len(tree)
  BY ChildrenType, TreeType
<1>2. /\ DOMAIN order = 1..n
      /\ \A k \in 1..n : order[k] \in Children(i) /\ order[k] \in 1..Len(tree)
  BY <1>1
<1> HIDE DEF n
<1>3. \A k \in 1..n : Sub(order[k]) \in Item
  BY <1>2, SubType DEF Item
<1>4. Mark(":") \in Item
  BY MarksAre, Zenon DEF Item
<1>5. \A a, b, c \in Item : <<a>> \in Seq(Item) /\ <<a, b, c>> \in Seq(Item)
  OBVIOUS
<1>0. ASSUME NEW S, NEW f \in [1..n -> S] PROVE f \in Seq(S)
  BY <1>1, SeqDef
<1>6. Elements(order) \in Seq(Seq(Item))
  <2>1. \A k \in 1..n : <<Sub(order[k])>> \in Seq(Item)
    BY <1>3, <1>5
  <2>2. Elements(order) \in [1..n -> Seq(Item)]
    BY <1>2, <2>1 DEF Elements
  <2>. QED  BY <1>0, <2>2
<1>7. ASSUME Lawful, tree[i].kind = "obj" PROVE Members(order) \in Seq(Seq(Item))
  <2>1. \A k \in 1..n : String(tree[order[k]].key) \in Item
    BY <1>2, <1>7, KeysOfLawful, StringType DEF Item
  <2>2. \A k \in 1..n : <<String(tree[order[k]].key), Mark(":"), Sub(order[k])>> \in Seq(Item)
    BY <1>3, <1>4, <1>5, <2>1
  <2>3. Members(order) \in [1..n -> Seq(Item)]
    BY <1>2, <2>2 DEF Members
  <2>. QED  BY <1>0, <2>3
<1>. QED  BY <1>6, <1>7

(* what the turn of a container is replaced by *)
LEMMA Replaced ==
  ASSUME todo \in Seq(Item), todo # << >>, NEW items \in Seq(Seq(Item)), NEW kind
  PROVE  Listed(items) \o <<Closes(kind)>> \o Tail(todo) \in Seq(Item)
<1>1. Comma \in Item /\ Closes(kind) \in Item
  BY MarksAre, Zenon DEF Item
<1>2. Listed(items) \in Seq(Item)
  BY <1>1, ListedType
<1>3. <<Closes(kind)>> \in Seq(Item) /\ Tail(todo) \in Seq(Item)
  BY <1>1, HeadTailProperties
<1>. QED  BY <1>2, <1>3, ConcatProperties

LEMMA NextItem ==
  ASSUME todo \in Seq(Item), todo # << >>, IsTree(tree)
  PROVE  /\ Tail(todo) \in Seq(Item)
         /\ Next1.node = 0 => Next1 \in Lexemes
         /\ Next1.node # 0 => Next1.node \in 1..Len(tree)
<1>1. Next1 \in Item /\ Tail(todo) \in Seq(Item)
  <2>1. Len(todo) \in Nat /\ Len(todo) >= 1
    BY EmptySeq, LenProperties
  <2>. QED  BY <2>1, ElementOfSeq, HeadTailProperties DEF Next1
<1>2. CASE Next1 \in Lexemes
  <2>1. Next1.node = 0
    BY <1>2, StringIs
  <2>. QED  BY <1>1, <1>2, <2>1
<1>3. CASE Next1 \in Turns
  <2>1. Next1.node \in 1..Len(tree) /\ Len(tree) \in Nat
    BY <1>3, TreeType DEF Turns
  <2>2. Next1.node # 0
    BY <2>1
  <2>. QED  BY <1>1, <2>1, <2>2
<1>. QED  BY <1>1, <1>2, <1>3 DEF Item

-----------------------------------------------------------------------------
LEMMA RejectKeeps ==
  ASSUME IInv, NEW defect \in FailureClass, Reject(defect), values' \in 0..Len(tree), ~Lawful
  PROVE  IInv'
<1>1. /\ tree' = tree /\ pos' = pos /\ seen' = seen /\ todo' = todo /\ out' = out
      /\ class' = defect /\ pc' = "done"
  BY DEF Reject
<1>2. Turns' = Turns /\ Lexemes' = Lexemes /\ (Lawful' <=> Lawful)
  BY <1>1, SameTree
<1>3. Types'
  BY <1>1, <1>2 DEF IInv, Types
<1>4. MapsHold'
  BY <1>1 DEF IInv, MapsHold
<1>5. class' # None
  BY <1>1 DEF FailureClass, None
<1>6. Verdict'
  BY <1>1, <1>2, <1>5 DEF Verdict
<1>. QED  BY <1>3, <1>4, <1>6 DEF IInv

LEMMA RefusalKeeps ==
  ASSUME IInv, NilValue \/ BadKey \/ OverBound \/ BadPayload
  PROVE  IInv'
<1>1. Types /\ MapsHold /\ Verdict /\ values \in 0..Len(tree) /\ (tree = Nil \/ IsTree(tree))
  BY DEF IInv, Types
<1>2. CASE NilValue
  <2>1. Len(tree) = 0 /\ values' = values /\ Reject("InternalError")
    BY <1>2 DEF NilValue, Nil
  <2>2. ~Lawful
    BY <2>1 DEF Lawful
  <2>. QED  BY <1>1, <2>1, <2>2, RejectKeeps DEF FailureClass
<1>3. ASSUME pos \in 1..Len(tree) PROVE IsTree(tree)
  <2>1. Len(<< >>) = 0
    OBVIOUS
  <2>. QED  BY <1>1, <1>3, <2>1 DEF Nil
<1>4. ASSUME Validating PROVE pos \in 1..Len(tree) /\ IsTree(tree) /\ Len(tree) \in Nat
  <2>1. Len(tree) \in Nat
    BY <1>1, TreeType DEF Nil
  <2>2. pos \in 1..Len(tree)
    BY <1>1, <1>4, <2>1 DEF Validating, Types
  <2>. QED  BY <1>3, <2>1, <2>2
<1>5. CASE BadKey
  <2>1. Validating /\ KeyDefect # None /\ Reject(KeyDefect) /\ values' = values
    BY <1>5 DEF BadKey
  <2>2. KeyDefect \in FailureClass
    <3>1. "DuplicateKey" \in FailureClass
      BY DEF FailureClass
    <3>. QED  BY <2>1, <3>1, DefectType DEF KeyDefect
  <2>3. ~Lawful
    BY <1>1, <1>4, <1>5, <2>1, KeyRefused
  <2>. QED  BY <1>1, <2>1, <2>2, <2>3, RejectKeeps
<1>6. ASSUME Validating, values' = values + 1 PROVE values' \in 0..Len(tree)
  BY <1>1, <1>4, <1>6 DEF Verdict, Validating
<1>7. CASE OverBound
  <2>1. Validating /\ values' = values + 1 /\ Reject("BoundExceeded")
    BY <1>7 DEF OverBound
  <2>2. ~Lawful
    BY <1>1, <1>4, <1>7, <2>1, BoundRefused
  <2>. QED  BY <1>6, <2>1, <2>2, RejectKeeps DEF FailureClass
<1>8. CASE BadPayload
  <2>1. Validating /\ values' = values + 1 /\ PayloadDefect # None /\ Reject(PayloadDefect)
    BY <1>8 DEF BadPayload
  <2>2. PayloadDefect \in FailureClass
    <3>1. "InvalidGrammar" \in FailureClass /\ "BoundExceeded" \in FailureClass
          /\ "InternalError" \in FailureClass
      BY DEF FailureClass
    <3>. QED  BY <2>1, <3>1, DefectType DEF PayloadDefect
  <2>3. ~Lawful
    BY <1>1, <1>4, <1>8, <2>1, PayloadRefused
  <2>. QED  BY <1>6, <2>1, <2>2, <2>3, RejectKeeps
<1>. QED  BY <1>2, <1>5, <1>7, <1>8

LEMMA ValidNodeKeeps ==
  ASSUME IInv, ValidNode
  PROVE  IInv'
<1>1. /\ pc = "validate" /\ pos <= Len(tree) /\ values' = values + 1 /\ pos' = pos + 1
      /\ tree' = tree /\ pc' = pc /\ todo' = todo /\ out' = out /\ class' = class
      /\ ~OverLimit
  BY DEF ValidNode, Validating
<1>2. Types /\ MapsHold /\ Verdict
  BY DEF IInv
<1>3. Len(tree) \in Nat /\ pos \in Nat /\ pos >= 1
  BY <1>2, TreeType DEF Types, Nil
<1>4. IsTree(tree)
  <2>1. Len(<< >>) = 0
    OBVIOUS
  <2>. QED  BY <1>1, <1>2, <1>3, <2>1 DEF Types, Nil
<1>5. MapsHold'
  BY <1>2, <1>4, MapsAdvance
<1>6. Checked(pos)
  BY <1>2, <1>4, NodeChecked
<1>7. class = None /\ values = pos - 1 /\ \A i \in 1..(pos - 1) : Checked(i)
  BY <1>1, <1>2 DEF Verdict
<1>8. values' = pos' - 1 /\ values' <= Limit("values") /\ values' \in 0..Len(tree)
  <2>1. Limit("values") \in Nat
    BY LimitType DEF LimitNames
  <2>. QED  BY <1>1, <1>3, <1>7, <2>1 DEF OverLimit
<1>9. \A i \in 1..pos : Checked(i)
  BY <1>3, <1>6, <1>7
<1>10. (\A i : Checked(i)' <=> Checked(i)) /\ Turns' = Turns /\ Lexemes' = Lexemes
  BY <1>1, SameTree
<1>11. pos' - 1 = pos /\ pos' \in 1..(Len(tree) + 1)
  BY <1>1, <1>3
<1>12. \A i \in 1..(pos' - 1) : Checked(i)'
  BY <1>9, <1>10, <1>11
<1>13. Verdict'
  BY <1>1, <1>7, <1>8, <1>12 DEF Verdict
<1>14. Types'
  BY <1>1, <1>2, <1>8, <1>10, <1>11 DEF Types
<1>. QED  BY <1>5, <1>13, <1>14 DEF IInv

LEMMA StartKeeps ==
  ASSUME IInv, StartEmission
  PROVE  IInv'
<1>1. /\ tree' = tree /\ pos' = pos /\ values' = values /\ seen' = seen /\ out' = out
      /\ class' = class /\ pc' = "emit" /\ todo' = <<Sub(1)>> /\ tree # Nil /\ pc = "validate"
  BY DEF StartEmission
<1>2. Types /\ MapsHold /\ Verdict /\ IsTree(tree)
  BY <1>1 DEF IInv, Types
<1>3. Lawful
  BY <1>2, WalkedIsLawful
<1>4. Turns' = Turns /\ Lexemes' = Lexemes /\ (Lawful' <=> Lawful)
  BY <1>1, SameTree
<1>5. Sub(1) \in Lexemes \cup Turns
  BY <1>2, SubType, TreeType
<1>6. Types'
  <2>1. <<Sub(1)>> \in Seq(Lexemes \cup Turns)
    BY <1>5
  <2>. QED  BY <1>1, <1>2, <1>4, <2>1 DEF Types
<1>7. Verdict'
  BY <1>1, <1>2, <1>3, <1>4 DEF Verdict
<1>8. MapsHold'
  BY <1>1, <1>2 DEF MapsHold
<1>. QED  BY <1>6, <1>7, <1>8 DEF IInv

(* A step of the emission changes nothing but what is written and is to be. *)
LEMMA EmissionKeeps ==
  ASSUME IInv, Emitting, todo' \in Seq(Item), out' \in Seq(Lexemes)
  PROVE  IInv'
<1>1. /\ tree' = tree /\ pos' = pos /\ values' = values /\ seen' = seen
      /\ class' = class /\ pc' = pc /\ pc = "emit"
  BY DEF Emitting
<1>2. Turns' = Turns /\ Lexemes' = Lexemes /\ (Lawful' <=> Lawful)
  BY <1>1, SameTree
<1>3. Types'
  BY <1>1, <1>2 DEF Types, IInv, Item
<1>4. Verdict'
  BY <1>1, <1>2 DEF Verdict, IInv
<1>5. MapsHold'
  BY <1>1 DEF MapsHold, IInv
<1>. QED  BY <1>3, <1>4, <1>5 DEF IInv

LEMMA EmitKeeps ==
  ASSUME IInv, EmitMark \/ EmitScalar \/ EmitArray \/ EmitObject
  PROVE  IInv'
<1>1. /\ Emitting /\ todo \in Seq(Item) /\ todo # << >> /\ out \in Seq(Lexemes) /\ IsTree(tree)
      /\ Lawful
  <2>1. Emitting /\ todo # << >> /\ pc = "emit"
    BY DEF EmitMark, EmitScalar, EmitArray, EmitObject, Emitting
  <2>2. class = None /\ Lawful
    BY <2>1 DEF IInv, Verdict
  <2>3. tree # Nil
    <3>1. Len(<< >>) = 0
      OBVIOUS
    <3>. QED  BY <2>2, <3>1 DEF Lawful, Nil
  <2>. QED  BY <2>1, <2>2, <2>3 DEF IInv, Types, Item
<1>2. /\ Tail(todo) \in Seq(Item)
      /\ Next1.node = 0 => Next1 \in Lexemes
      /\ Next1.node # 0 => Next1.node \in 1..Len(tree)
  BY <1>1, NextItem
<1>3. ASSUME NEW lexeme \in Lexemes, Write(lexeme) PROVE out' \in Seq(Lexemes)
  BY <1>1, <1>3, AppendProperties DEF Write
<1>4. CASE EmitMark
  BY <1>1, <1>2, <1>3, <1>4, EmissionKeeps DEF EmitMark
<1>5. CASE EmitScalar
  <2> DEFINE n == tree[Next1.node]
             lexeme == CASE n.kind = "str" -> String(n.text)
                         [] n.kind = "num" -> Lexeme("num", Formatted(n.text))
                         [] OTHER          -> Lexeme(n.kind, n.text)
  <2>1. n.text \in Text /\ n.kind \in Kind
    BY <1>1, <1>2, <1>5, TreeType DEF EmitScalar
  <2>2. lexeme \in Lexemes
    <3> HIDE DEF n
    <3>1. "num" \in Kind \ {"str"}
      BY DEF Kind
    <3>2. n.kind # "str" => n.kind \in Kind \ {"str"}
      BY <2>1
    <3>3. Formatted(n.text) \in Text
      BY <2>1, FormattedType
    <3>4. n.kind = "str" => String(n.text) \in Lexemes
      <4>1. Next1.node \in 1..Len(tree)
        BY <1>2, <1>5 DEF EmitScalar
      <4>2. NoSurrogate(n.text) /\ (n.kind = "str" => Clean(n.text))
        BY <1>1, <4>1 DEF IsTree, Lawful, Good, n
      <4>. QED  BY <2>1, <4>1, <4>2, CleanIsReadable, StringType DEF n
    <3>. QED  BY <2>1, <3>1, <3>2, <3>3, <3>4, LexemeType
  <2>3. Write(lexeme) /\ todo' = Tail(todo)
    BY <1>5 DEF EmitScalar
  <2> HIDE DEF lexeme
  <2>. QED  BY <1>1, <1>2, <1>3, <2>2, <2>3, EmissionKeeps
<1>6. ASSUME NEW kind, NEW items \in Seq(Seq(Item)), Write(Opens(kind)),
             todo' = Listed(items) \o <<Closes(kind)>> \o Tail(todo)
      PROVE  IInv'
  <2>1. todo' \in Seq(Item)
    BY <1>1, <1>6, Replaced
  <2>2. out' \in Seq(Lexemes)
    BY <1>3, <1>6, MarksAre
  <2>. QED  BY <1>1, <2>1, <2>2, EmissionKeeps
<1>7. CASE EmitArray
  <2>1. PICK order \in InOrder(Next1.node) :
          todo' = Listed(Elements(order)) \o <<Closes("arr")>> \o Tail(todo)
    BY <1>7 DEF EmitArray
  <2>2. Next1.node \in 1..Len(tree) /\ Write(Opens("arr"))
    BY <1>2, <1>7 DEF EmitArray
  <2>3. Elements(order) \in Seq(Seq(Item))
    BY <1>1, <2>2, ElementsType DEF InOrder
  <2>. QED  BY <1>6, <2>1, <2>2, <2>3
<1>8. CASE EmitObject
  <2>1. PICK order \in Sorted(Next1.node) :
          todo' = Listed(Members(order)) \o <<Closes("obj")>> \o Tail(todo)
    BY <1>8 DEF EmitObject
  <2>2. /\ Next1.node \in 1..Len(tree) /\ tree[Next1.node].kind = "obj"
        /\ Write(Opens("obj"))
    BY <1>2, <1>8 DEF EmitObject
  <2>3. Members(order) \in Seq(Seq(Item))
    BY <1>1, <2>2, ElementsType DEF Sorted
  <2>. QED  BY <1>6, <2>1, <2>2, <2>3
<1>. QED  BY <1>4, <1>5, <1>7, <1>8

LEMMA ReturnKeeps ==
  ASSUME IInv, Return \/ UNCHANGED vars
  PROVE  IInv'
<1>1. /\ tree' = tree /\ pos' = pos /\ values' = values /\ seen' = seen
      /\ class' = class /\ todo' = todo /\ out' = out
      /\ (pc = "emit" /\ pc' = "done") \/ pc' = pc
  BY DEF Return, vars
<1>2. Turns' = Turns /\ Lexemes' = Lexemes /\ (Lawful' <=> Lawful) /\ \A i : Checked(i)' <=> Checked(i)
  BY <1>1, SameTree
<1>3. Types'
  BY <1>1, <1>2 DEF Types, IInv
<1>4. Verdict'
  BY <1>1, <1>2 DEF Verdict, IInv
<1>5. MapsHold'
  <2>1. \A i : Children(i)' = Children(i)
    BY <1>1, SameTree
  <2>2. \A q : {tree'[j].key : j \in Children(q)' \cap 1..(pos' - 1)}
                 = {tree[j].key : j \in Children(q) \cap 1..(pos - 1)}
    BY <1>1, <2>1
  <2>3. Room' = Room /\ \A q : StillOpen(q)' <=> StillOpen(q)
    BY <1>1 DEF Room, StillOpen, IsContainer
  <2>4. pc' = "validate" => pc = "validate"
    BY <1>1
  <2>. QED  BY <1>1, <2>2, <2>3, <2>4 DEF MapsHold, IInv, IsContainer
<1>. QED  BY <1>3, <1>4, <1>5 DEF IInv

LEMMA InitHolds == Init => IInv
<1> SUFFICES ASSUME Init PROVE IInv
  OBVIOUS
<1>1. tree = Nil \/ IsTree(tree)
  BY TreesAssumption DEF Init
<1>2. Len(tree) \in Nat
  BY <1>1, TreeType DEF Nil
<1>3. /\ pc = "validate" /\ pos = 1 /\ values = 0 /\ seen = << >> /\ todo = << >> /\ out = << >>
      /\ class = None
  BY DEF Init
<1>4. Types
  BY <1>1, <1>2, <1>3 DEF Types
<1>5. 1..(pos - 1) = {}
  BY <1>3
<1>6. MapsHold
  BY <1>3, <1>5 DEF MapsHold, Room
<1>7. Verdict
  <2>1. Limit("values") \in Nat
    BY LimitType DEF LimitNames
  <2>. QED  BY <1>3, <1>5, <2>1 DEF Verdict
<1>. QED  BY <1>4, <1>6, <1>7 DEF IInv

LEMMA TypesEnough == Types /\ seen \in Seq(SUBSET Text) => TypeOK
<1> SUFFICES ASSUME Types, seen \in Seq(SUBSET Text) PROVE TypeOK
  OBVIOUS
<1>0. Len(tree) \in Nat
  BY TreeType DEF Types, Nil
<1>1. ASSUME NEW i \in 1..Len(todo) PROVE todo[i].node \in 0..Len(tree)
  <2>1. todo[i] \in Lexemes \cup Turns
    BY ElementOfSeq DEF Types
  <2>2. CASE todo[i] \in Lexemes
    BY <1>0, <2>2, StringIs
  <2>3. CASE todo[i] \in Turns
    BY <1>0, <2>3 DEF Turns
  <2>. QED  BY <2>1, <2>2, <2>3
<1>2. ASSUME NEW i \in 1..Len(out) PROVE out[i].node = 0 /\ NoRawControl(out[i])
  <2>1. out[i] \in Lexemes
    BY ElementOfSeq DEF Types
  <2>2. out[i].node = 0
    BY <2>1, StringIs
  <2>3. ASSUME out[i].kind = "str" PROVE out[i].units \in Seq(Printed)
    <3>1. PICK s \in Texts : out[i] = String(s)
      BY <2>1, <2>3, StringIs
    <3>2. s \in Text /\ out[i].units = Units(s)
      BY <3>1 DEF Texts, String, Lexeme
    <3>. QED  BY <3>2, UnitsType
  <2>4. ASSUME out[i].kind = "str", NEW k \in 1..Len(out[i].units)
        PROVE  out[i].units[k].kind # "ctrl"
    <3>1. out[i].units[k] \in Printed
      BY <2>3, <2>4, ElementOfSeq
    <3>. QED  BY <3>1 DEF Printed
  <2>. QED  BY <2>2, <2>4 DEF NoRawControl
<1>. QED  BY <1>1, <1>2 DEF TypeOK, Types

(* the members of an object in the one order that sorting them can give *)
CanonicalMembers ==
  \E order \in Sorted(Next1.node) :
    /\ todo' = Listed(Members(order)) \o <<Closes("obj")>> \o Tail(todo)
    /\ Sorted(Next1.node) = {order}
    /\ \A a, b \in DOMAIN order : a < b => Below(tree[order[a]].key, tree[order[b]].key)

LEMMA EmissionIsCanonical ==
  ASSUME IInv, EmitObject
  PROVE  CanonicalMembers
<1>1. Emitting /\ todo # << >> /\ pc = "emit" /\ Next1.node # 0 /\ tree[Next1.node].kind = "obj"
  BY DEF EmitObject, Emitting
<1>2. Lawful /\ todo \in Seq(Item)
  BY <1>1 DEF IInv, Verdict, Types, Item
<1>3. IsTree(tree)
  <2>1. Len(<< >>) = 0
    OBVIOUS
  <2>. QED  BY <1>2, <2>1 DEF IInv, Types, Lawful, Nil
<1>4. Next1.node \in 1..Len(tree)
  BY <1>1, <1>2, <1>3, NextItem
<1>5. PICK order \in Sorted(Next1.node) :
        todo' = Listed(Members(order)) \o <<Closes("obj")>> \o Tail(todo)
  BY DEF EmitObject
<1>6. Sorted(Next1.node) = {order}
  BY <1>1, <1>2, <1>3, <1>4, OneSorted
<1>7. \A a, b \in DOMAIN order : a < b => Below(tree[order[a]].key, tree[order[b]].key)
  BY <1>1, <1>2, <1>3, <1>4, SortedAscends
<1>. QED  BY <1>5, <1>6, <1>7 DEF CanonicalMembers

(* Types, MapsHold and Verdict are an inductive invariant.                  *)
LEMMA Invariance == Spec => []IInv
<1>1. IInv /\ [Next]_vars => IInv'
  BY RefusalKeeps, ValidNodeKeeps, StartKeeps, EmitKeeps, ReturnKeeps DEF Next
<1>. QED  BY InitHolds, <1>1, PTL DEF Spec

(* The walk never leaves the tree, and nothing is ever written but whole    *)
(* lexemes without a raw control character (serialize.go serializeString).  *)
THEOREM TypeCorrect == Spec => []TypeOK
<1>1. IInv => TypeOK
  BY TypesEnough DEF IInv, MapsHold
<1>. QED  BY Invariance, <1>1, PTL

(* validateValueTree refuses a tree exactly if some node of it breaks a     *)
(* limit or a rule, whatever the tree and the limits: the running count and *)
(* the maps of the keys seen, which open and close with the recursion, let  *)
(* no duplicate key pass, charge no key to an object it is not in, and      *)
(* decide nothing else.                                                     *)
THEOREM RefusalIsExact == Spec => []RefusesExactly
<1>1. IInv => RefusesExactly
  BY DEF IInv, Verdict, RefusesExactly, Lawful
<1>. QED  BY Invariance, <1>1, PTL

(* serializeObject writes the members of an object in strictly ascending    *)
(* order of UTF-16 units, RFC 8785's order of code points with the          *)
(* supplementary planes below E000, whichever of its two comparisons        *)
(* compareSortKeys takes for a pair; and no two keys compare equal, so that *)
(* a sort that is not stable has one outcome.                               *)
THEOREM OneCanonicalOrder == Spec => [][EmitObject => CanonicalMembers]_vars
<1>1. IInv /\ [Next]_vars => [EmitObject => CanonicalMembers]_vars
  BY EmissionIsCanonical
<1>. QED  BY Invariance, <1>1, PTL DEF Spec

(* what StringText reads of a string in the output up to its closing quote  *)
StringsReadBack ==
  \A k \in 1..Len(out) : out[k].kind = "str" =>
    \E j \in 1..Len(tree) : \E s \in {tree[j].key, tree[j].text} :
      /\ out[k] = String(s)
      /\ ST!Decode(Append(out[k].units, Unit("quote", 34)))
           = [at |-> Len(out[k].units) + 1, text |-> s]

(* Every string in what is written, a key or a value, is one of the tree's  *)
(* own, and reading its units up to the closing quote gives back its code   *)
(* points, whatever they are: the short and the \u escapes of               *)
(* appendEscapedByte, and the bytes that byteSpanForCopy passes on.         *)
THEOREM WrittenIsReadBack == Spec => []StringsReadBack
<1>1. ASSUME IInv, NEW k \in 1..Len(out), out[k].kind = "str"
      PROVE  \E j \in 1..Len(tree) : \E s \in {tree[j].key, tree[j].text} :
               /\ out[k] = String(s)
               /\ ST!Decode(Append(out[k].units, Unit("quote", 34)))
                    = [at |-> Len(out[k].units) + 1, text |-> s]
  <2>1. out[k] \in Lexemes
    <3>1. out \in Seq(Lexemes)
      BY <1>1 DEF IInv, Types
    <3>. QED  BY <1>1, <3>1, ElementOfSeq
  <2>2. PICK s \in Texts : out[k] = String(s)
    BY <1>1, <2>1, StringIs
  <2>3. Readable(s) /\ \E j \in 1..Len(tree) : s \in {tree[j].key, tree[j].text}
    BY DEF Texts
  <2>4. out[k].units = Units(s)
    BY <2>2 DEF String, Lexeme
  <2>5. ST!Decode(Quoted(s)) = [at |-> Len(Units(s)) + 1, text |-> s]
    BY <2>3, ReadBack
  <2>6. ST!Decode(Append(out[k].units, Unit("quote", 34))) = [at |-> Len(out[k].units) + 1, text |-> s]
    BY <2>4, <2>5 DEF Quoted
  <2>. QED  BY <2>2, <2>3, <2>6
<1>2. IInv => StringsReadBack
  BY <1>1 DEF StringsReadBack
<1>. QED  BY Invariance, <1>2, PTL
=============================================================================
