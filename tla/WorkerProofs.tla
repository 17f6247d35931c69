---------------------------- MODULE WorkerProofs ----------------------------
(***************************************************************************)
(* Theorems about Worker, for any number of replays and any vector files.  *)
(*                                                                         *)
(* The inductive invariant follows the cursor of a replay: the cases that  *)
(* lie behind it are exactly those that have been answered, each of them   *)
(* as wanted, and no line behind it was left out.  When the cursor has     *)
(* left the last file everything lies behind it.                           *)
(*                                                                         *)
(* For what the digests tell, the invariant also follows what they were at *)
(* each position the cursor has come to (Trail).  An entry can be taken    *)
(* apart from its end, so two replays that end with the same digests are   *)
(* followed back through the files, line by line, to the same answers.     *)
(***************************************************************************)
EXTENDS Worker, FiniteSetTheorems, SequenceTheorems, WellFoundedInduction, TLAPS

Behind(c, a) == c[1] < a[1] \/ (c[1] = a[1] /\ c[2] < a[2])

Verified == bundle.whole /\ VerifyExtracted(bundle)

AtStart(l) == at[l] = <<1, 1>> /\ DOMAIN answers[l] = {}

Answered(l) ==
  /\ DOMAIN answers[l] = {c \in Cases : Behind(c, at[l])}
  /\ \A c \in Places : Behind(c, at[l]) => LineAt(c).kind \in {"skip", "case"}

AsWanted(l) == \A c \in DOMAIN answers[l] : Accepts(LineAt(c), answers[l][c])

CountRight(l) == IsFiniteSet(DOMAIN answers[l]) /\ count[l] = Cardinality(DOMAIN answers[l])

Complete(l) == Understood /\ DOMAIN answers[l] = Cases /\ count[l] > 0

Stage(l) ==
  /\ pc[l] \in {"start", "verify"} => AtStart(l)
  /\ pc[l] = "verify" => bundle.whole
  /\ pc[l] \in {"vectors", "env", "write", "ok"} => Verified
  /\ pc[l] = "vectors" => Answered(l)
  /\ pc[l] \in {"env", "write", "ok"} => Complete(l)

Filed(l) ==
  /\ evidence[l] # {} => pc[l] \in {"ok", "done"} /\ Verified /\ Complete(l)
  /\ \A e \in evidence[l] : e.cases = count[l]
  /\ pc[l] = "ok" => evidence[l] # {}
  /\ code[l] = "0" => evidence[l] # {}

LaneInv(l) == AsWanted(l) /\ CountRight(l) /\ Stage(l) /\ Filed(l)

IInv == TypeOK /\ \A l \in Lane : LaneInv(l)

-----------------------------------------------------------------------------
(* The vector files and their lines are sequences. *)
LEMMA FilesAre ==
  ASSUME TypeOK
  PROVE  /\ Files \in Seq(Names)
         /\ \A f \in DOMAIN Files : LinesOf(f) \in Seq(Line)
<1>1. bundle \in Bundle
  BY BundlesAssumption DEF TypeOK
<1>2. bundle.vectors \in Seq(Names) /\ bundle.file \in [Names -> Content \cup {0}]
  BY <1>1 DEF Bundle, Sums
<1>3. \A f \in DOMAIN Files : Files[f] \in Names
  BY <1>2 DEF Files
<1>4. \A f \in DOMAIN Files : bundle.file[Files[f]] \in Content \cup {0}
  BY <1>2, <1>3
<1> QED
  BY <1>2, <1>4, LinesAssumption DEF Files, LinesOf

LEMMA PlacesAre ==
  ASSUME TypeOK
  PROVE  /\ \A c \in Places : /\ c = <<c[1], c[2]>>
                              /\ c[1] \in Nat \ {0} /\ c[2] \in Nat \ {0}
                              /\ c[1] \in DOMAIN Files /\ c[2] \in DOMAIN LinesOf(c[1])
         /\ \A f \in DOMAIN Files : \A i \in DOMAIN LinesOf(f) : <<f, i>> \in Places
<1>1. ASSUME NEW c \in Places
      PROVE  c = <<c[1], c[2]>> /\ c[1] \in DOMAIN Files /\ c[2] \in DOMAIN LinesOf(c[1])
  <2>1. PICK f \in DOMAIN Files : c \in {f} \X DOMAIN LinesOf(f)
    BY DEF Places
  <2>2. c[1] = f /\ c[2] \in DOMAIN LinesOf(f) /\ c = <<c[1], c[2]>>
    BY <2>1
  <2> QED
    BY <2>1, <2>2
<1>2. DOMAIN Files \subseteq Nat \ {0}
  BY FilesAre
<1>3. \A f \in DOMAIN Files : DOMAIN LinesOf(f) \subseteq Nat \ {0}
  BY FilesAre
<1>4. ASSUME NEW f \in DOMAIN Files, NEW i \in DOMAIN LinesOf(f)
      PROVE  <<f, i>> \in Places
  <2>1. <<f, i>> \in {f} \X DOMAIN LinesOf(f)
    OBVIOUS
  <2> QED
    BY <2>1 DEF Places
<1> QED
  BY <1>1, <1>2, <1>3, <1>4

(* The class of an answer is one of the list, or one of two more tokens.   *)
LEMMA ClassType ==
  ASSUME NEW o \in Outcomes
  PROVE  ClassOf(o) \in Symbol
<1> DEFINE T == {i \in DOMAIN Classes : Occurs(Classes[i], o.stderr)}
<1>1. DOMAIN Classes \subseteq Nat /\ \A i \in DOMAIN Classes : Classes[i] \in Symbol
  BY ClassesAssumption
<1>2. CASE T = {}
  BY <1>2, SymbolsAssumption DEF ClassOf
<1>3. CASE T # {}
  <2>1. T \subseteq Nat
    BY <1>1
  <2>2. PICK i \in T : \A j \in T : ~(<<j, i>> \in OpToRel(<, Nat))
    <3> HIDE DEF T
    <3> QED
      BY <1>3, <2>1, NatLessThanWellFounded, WFMin
  <2>3. \A j \in T : i <= j
    <3> SUFFICES ASSUME NEW j \in T, j < i PROVE FALSE
      BY <2>1
    <3>1. OpToRel(<, Nat) = {ss \in Nat \X Nat : ss[1] < ss[2]}
      BY DEF OpToRel
    <3>2. <<j, i>> \in Nat \X Nat
      BY <2>1
    <3> HIDE DEF T
    <3> QED
      BY <2>2, <3>1, <3>2
  <2>4. \E k \in DOMAIN Classes :
          /\ Occurs(Classes[k], o.stderr)
          /\ \A j \in DOMAIN Classes : Occurs(Classes[j], o.stderr) => k <= j
    BY <2>3
  <2>5. Classes[CHOOSE k \in DOMAIN Classes :
                 /\ Occurs(Classes[k], o.stderr)
                 /\ \A j \in DOMAIN Classes : Occurs(Classes[j], o.stderr) => k <= j] \in Symbol
    BY <1>1, <2>4
  <2> QED
    BY <1>1, <2>5, SymbolsAssumption DEF ClassOf
<1> QED
  BY <1>2, <1>3

(* An entry of a digest is text. *)
LEMMA RecordType ==
  ASSUME NEW a \in [{"canonical", "verify", "class", "exit"} -> Text],
         NEW line \in Line, NEW o \in Outcomes
  PROVE  Record(a, line, o) \in [{"canonical", "verify", "class", "exit"} -> Text]
<1>1. o.exit \in Symbol /\ o.stdout \in Seq(Symbol) /\ o.stderr \in Seq(Symbol)
  BY OutcomesAssumption, SymbolsAssumption DEF Outcome, Text
<1>2. line.id \in Symbol
  BY SymbolsAssumption DEF Line
<1>3. ClassOf(o) \in Symbol
  BY ClassType
<1>4. \A t \in Seq(Symbol) : Part(t) \in Seq(Symbol)
  BY SymbolsAssumption DEF Part
<1>5. \A s, t \in Seq(Symbol) : Add(s, t) \in Seq(Symbol) /\ s \o t \in Seq(Symbol)
  BY SymbolsAssumption DEF Add
<1>6. <<line.id>> \in Seq(Symbol) /\ <<o.exit>> \in Seq(Symbol) /\ <<ClassOf(o)>> \in Seq(Symbol)
  BY <1>1, <1>2, <1>3
<1>7. a.canonical \in Seq(Symbol) /\ a.verify \in Seq(Symbol) /\ a.class \in Seq(Symbol)
      /\ a.exit \in Seq(Symbol)
  BY DEF Text
<1>8. Record(a, line, o).exit \in Seq(Symbol)
  BY <1>4, <1>5, <1>6, <1>7 DEF Record
<1>9. Record(a, line, o).class \in Seq(Symbol)
  BY <1>4, <1>5, <1>6, <1>7 DEF Record
<1>10. Record(a, line, o).canonical \in Seq(Symbol)
  BY <1>1, <1>4, <1>5, <1>6, <1>7 DEF Record
<1>11. Record(a, line, o).verify \in Seq(Symbol)
  BY <1>1, <1>4, <1>5, <1>6, <1>7 DEF Record
<1> QED
  BY <1>8, <1>9, <1>10, <1>11 DEF Record, Text

-----------------------------------------------------------------------------
LEMMA Initial == Init => IInv
<1> SUFFICES ASSUME Init PROVE IInv
  OBVIOUS
<1>1. bundle \in Bundles
  BY DEF Init
<1>2. \A l \in Lane : answers[l] = << >> /\ DOMAIN answers[l] = {}
  BY DEF Init
<1>3. acc \in [Lane -> [{"canonical", "verify", "class", "exit"} -> Text]]
  <2>1. << >> \in Text
    BY DEF Text
  <2>2. ASSUME NEW t \in Text
        PROVE  [canonical |-> t, verify |-> t, class |-> t, exit |-> t]
                 \in [{"canonical", "verify", "class", "exit"} -> Text]
    OBVIOUS
  <2>3. Nothing \in [{"canonical", "verify", "class", "exit"} -> Text]
    BY <2>1, <2>2 DEF Nothing
  <2> QED
    BY <2>3 DEF Init
<1>4. TypeOK
  BY <1>1, <1>2, <1>3 DEF Init, TypeOK
<1>5. \A l \in Lane : CountRight(l)
  BY <1>2, FS_EmptySet DEF Init, CountRight
<1>6. \A l \in Lane : AsWanted(l) /\ Stage(l) /\ Filed(l)
  BY <1>2 DEF Init, AsWanted, Stage, AtStart, Filed
<1> QED
  BY <1>4, <1>5, <1>6 DEF IInv, LaneInv

Same == /\ Files' = Files /\ Cases' = Cases /\ Places' = Places
        /\ \A c : LineAt(c)' = LineAt(c)

LEMMA BundleFixed == ASSUME bundle' = bundle PROVE Same
BY DEF Same, Files, Cases, Places, LineAt, LinesOf

(* What a replay does leaves the others as they are. *)
Unmoved(k) == /\ pc'[k] = pc[k] /\ at'[k] = at[k] /\ count'[k] = count[k]
              /\ acc'[k] = acc[k] /\ evidence'[k] = evidence[k] /\ code'[k] = code[k]
              /\ answers'[k] = answers[k]

LEMMA UnmovedKeeps ==
  ASSUME NEW k \in Lane, LaneInv(k), Unmoved(k), bundle' = bundle
  PROVE  LaneInv(k)'
<1>1. Same
  BY BundleFixed
<1>2. AsWanted(k)' /\ CountRight(k)'
  BY <1>1 DEF LaneInv, Unmoved, AsWanted, CountRight, Same
<1>3. (AtStart(k) => AtStart(k)') /\ (Verified => Verified')
  BY DEF Unmoved, AtStart, Verified
<1>4. (Answered(k) => Answered(k)') /\ (Complete(k) => Complete(k)')
  BY <1>1 DEF Unmoved, Answered, Complete, Understood, Same
<1>5. Stage(k)'
  BY <1>3, <1>4 DEF LaneInv, Stage, Unmoved
<1>6. Filed(k)'
  BY <1>3, <1>4 DEF LaneInv, Filed, Unmoved
<1> QED
  BY <1>2, <1>5, <1>6 DEF LaneInv

(* So it is enough that a step keeps the type and the invariant of the     *)
(* replay that takes it.                                                   *)
LEMMA OneLane ==
  ASSUME IInv, NEW l \in Lane, bundle' = bundle, \A k \in Lane \ {l} : Unmoved(k),
         TypeOK', LaneInv(l)'
  PROVE  IInv'
<1>1. ASSUME NEW k \in Lane, k # l PROVE LaneInv(k)'
  BY <1>1, UnmovedKeeps DEF IInv
<1> QED
  BY <1>1 DEF IInv

LEMMA ExtractStep == ASSUME IInv, NEW l \in Lane, Extract(l) PROVE IInv'
<1>1. /\ pc[l] = "start" /\ bundle.whole /\ pc' = [pc EXCEPT ![l] = "verify"]
      /\ UNCHANGED <<bundle, at, count, acc, evidence, code, answers>>
  BY DEF Extract, Goto
<1>2. TypeOK /\ LaneInv(l)
  BY DEF IInv
<1>3. TypeOK' /\ pc'[l] = "verify" /\ \A k \in Lane \ {l} : Unmoved(k)
  BY <1>1, <1>2 DEF TypeOK, Unmoved
<1>4. AsWanted(l)' /\ CountRight(l)'
  BY <1>1, <1>2, BundleFixed DEF LaneInv, AsWanted, CountRight, Same
<1>5. Stage(l)' /\ Filed(l)'
  BY <1>1, <1>2, <1>3 DEF LaneInv, Stage, Filed, AtStart
<1> QED
  BY <1>1, <1>3, <1>4, <1>5, OneLane DEF LaneInv

LEMMA VerifyStep == ASSUME IInv, NEW l \in Lane, Verify(l) PROVE IInv'
<1>1. /\ pc[l] = "verify" /\ VerifyExtracted(bundle) /\ pc' = [pc EXCEPT ![l] = "vectors"]
      /\ UNCHANGED <<bundle, at, count, acc, evidence, code, answers>>
  BY DEF Verify, Goto
<1>2. TypeOK /\ LaneInv(l)
  BY DEF IInv
<1>3. TypeOK' /\ pc'[l] = "vectors" /\ \A k \in Lane \ {l} : Unmoved(k)
  BY <1>1, <1>2 DEF TypeOK, Unmoved
<1>4. AsWanted(l)' /\ CountRight(l)'
  BY <1>1, <1>2, BundleFixed DEF LaneInv, AsWanted, CountRight, Same
<1>5. Verified' /\ Filed(l)'
  BY <1>1, <1>2, <1>3 DEF LaneInv, Stage, Filed, Verified
<1>6. at[l] = <<1, 1>> /\ DOMAIN answers[l] = {}
  BY <1>1, <1>2 DEF LaneInv, Stage, AtStart
<1>7. \A c \in Places : ~Behind(c, at[l])
  <2> SUFFICES ASSUME NEW c \in Places PROVE ~Behind(c, at[l])
    OBVIOUS
  <2>1. c[1] \in Nat \ {0} /\ c[2] \in Nat \ {0}
    BY <1>2, PlacesAre
  <2> QED
    BY <1>6, <2>1 DEF Behind
<1>8. Answered(l)
  BY <1>6, <1>7 DEF Answered, Cases
<1>9. Answered(l)'
  BY <1>1, <1>8, BundleFixed DEF Answered, Same
<1> QED
  BY <1>1, <1>3, <1>4, <1>5, <1>9, OneLane DEF LaneInv, Stage

(* What the cursor leaves behind when it goes to the next line.            *)
LEMMA NextBehind ==
  ASSUME TypeOK, NEW l \in Lane, InFile(l)
  PROVE  /\ at[l] \in Places /\ ~Behind(at[l], at[l])
         /\ \A c \in Places : Behind(c, <<at[l][1], at[l][2] + 1>>) <=> Behind(c, at[l]) \/ c = at[l]
<1>1. at[l] = <<at[l][1], at[l][2]>> /\ at[l][1] \in Nat /\ at[l][2] \in Nat
  BY DEF TypeOK
<1>2. at[l] \in Places
  BY <1>1, PlacesAre DEF InFile
<1>3. ASSUME NEW c \in Places
      PROVE  Behind(c, <<at[l][1], at[l][2] + 1>>) <=> Behind(c, at[l]) \/ c = at[l]
  <2>1. c = <<c[1], c[2]>> /\ c[1] \in Nat /\ c[2] \in Nat
    BY PlacesAre
  <2>2. c = at[l] <=> c[1] = at[l][1] /\ c[2] = at[l][2]
    BY <1>1, <2>1
  <2> QED
    BY <1>1, <2>1, <2>2 DEF Behind
<1> QED
  BY <1>1, <1>2, <1>3 DEF Behind

LEMMA SkipStep == ASSUME IInv, NEW l \in Lane, SkipLine(l) PROVE IInv'
<1> DEFINE a == <<at[l][1], at[l][2] + 1>>
<1>1. /\ pc[l] = "vectors" /\ InFile(l) /\ LineAt(at[l]).kind = "skip"
      /\ at' = [at EXCEPT ![l] = a]
      /\ UNCHANGED <<bundle, pc, count, acc, evidence, code, answers>>
  BY DEF SkipLine, NextLine
<1>2. TypeOK /\ LaneInv(l) /\ Answered(l) /\ Verified
  BY <1>1 DEF IInv, LaneInv, Stage
<1>3. a \in (Nat \ {0}) \X (Nat \ {0})
  BY <1>2 DEF TypeOK
<1>4. TypeOK' /\ at'[l] = a /\ \A k \in Lane \ {l} : Unmoved(k)
  BY <1>1, <1>2, <1>3 DEF TypeOK, Unmoved
<1>5. Same
  BY <1>1, BundleFixed
<1>6. AsWanted(l)' /\ CountRight(l)'
  BY <1>1, <1>2, <1>5 DEF LaneInv, AsWanted, CountRight, Same
<1>7. at[l] \in Places /\ \A c \in Places : Behind(c, a) <=> Behind(c, at[l]) \/ c = at[l]
  BY <1>1, <1>2, NextBehind
<1>8. DOMAIN answers[l] = {c \in Cases : Behind(c, a)}
  BY <1>1, <1>2, <1>7 DEF Answered, Cases
<1>9. \A c \in Places : Behind(c, a) => LineAt(c).kind \in {"skip", "case"}
  BY <1>1, <1>2, <1>7 DEF Answered
<1> HIDE DEF a
<1>10. Answered(l)'
  BY <1>1, <1>4, <1>5, <1>8, <1>9 DEF Answered, Same
<1>11. Stage(l)' /\ Filed(l)'
  BY <1>1, <1>2, <1>10 DEF LaneInv, Stage, Filed, Verified
<1> QED
  BY <1>1, <1>4, <1>6, <1>11, OneLane DEF LaneInv

LEMMA CaseStep == ASSUME IInv, NEW l \in Lane, RunCase(l) PROVE IInv'
<1> DEFINE a == <<at[l][1], at[l][2] + 1>>
           d == DOMAIN answers[l] \cup {at[l]}
<1>1. PICK o \in Outcomes :
        /\ Accepts(LineAt(at[l]), o)
        /\ acc' = [acc EXCEPT ![l] = Record(acc[l], LineAt(at[l]), o)]
        /\ answers' = [answers EXCEPT ![l] = [c \in d |-> IF c = at[l] THEN o ELSE answers[l][c]]]
  BY DEF RunCase
<1>2. /\ pc[l] = "vectors" /\ InFile(l) /\ LineAt(at[l]).kind = "case"
      /\ count' = [count EXCEPT ![l] = count[l] + 1]
      /\ at' = [at EXCEPT ![l] = a]
      /\ UNCHANGED <<bundle, pc, evidence, code>>
  BY DEF RunCase, NextLine
<1>3. TypeOK /\ LaneInv(l) /\ Answered(l) /\ Verified
  BY <1>2 DEF IInv, LaneInv, Stage
<1>4. evidence[l] = {} /\ code[l] # "0"
  BY <1>2, <1>3 DEF LaneInv, Filed
<1>5. a \in (Nat \ {0}) \X (Nat \ {0})
  BY <1>3 DEF TypeOK
<1>6. LineAt(at[l]) \in Line
  <2>1. at[l] = <<at[l][1], at[l][2]>>
    BY <1>3 DEF TypeOK
  <2>2. at[l][1] \in DOMAIN Files /\ at[l][2] \in DOMAIN LinesOf(at[l][1])
    BY <1>2 DEF InFile
  <2>3. LinesOf(at[l][1]) \in Seq(Line)
    BY <1>3, <2>2, FilesAre
  <2> QED
    BY <2>2, <2>3 DEF LineAt
<1>7. Record(acc[l], LineAt(at[l]), o) \in [{"canonical", "verify", "class", "exit"} -> Text]
  <2>1. acc[l] \in [{"canonical", "verify", "class", "exit"} -> Text]
    BY <1>3 DEF TypeOK
  <2> QED
    BY <1>6, <2>1, RecordType
<1>8. /\ at'[l] = a /\ count'[l] = count[l] + 1 /\ DOMAIN answers'[l] = d
      /\ answers'[l][at[l]] = o
      /\ \A c \in DOMAIN answers[l] : answers'[l][c] \in {o, answers[l][c]}
      /\ \A c \in DOMAIN answers[l] : c # at[l] => answers'[l][c] = answers[l][c]
      /\ \A k \in Lane \ {l} : Unmoved(k)
  <2>1. at'[l] = a /\ count'[l] = count[l] + 1 /\ \A k \in Lane \ {l} : Unmoved(k)
    BY <1>1, <1>2, <1>3 DEF TypeOK, Unmoved
  <2>2. answers'[l] = [c \in d |-> IF c = at[l] THEN o ELSE answers[l][c]]
    BY <1>1, <1>3 DEF TypeOK
  <2> QED
    BY <2>1, <2>2
<1>9. TypeOK'
  <2>1. bundle' \in Bundles /\ at' \in [Lane -> (Nat \ {0}) \X (Nat \ {0})]
        /\ count' \in [Lane -> Nat] /\ UNCHANGED <<pc, code>>
    BY <1>2, <1>3, <1>5 DEF TypeOK
  <2>2. acc' \in [Lane -> [{"canonical", "verify", "class", "exit"} -> Text]]
    BY <1>1, <1>3, <1>7 DEF TypeOK
  <2>3. \A k \in Lane : evidence'[k] \subseteq [cases : Nat, digests : {acc'[k]}]
    BY <1>2, <1>3, <1>4, <1>8 DEF TypeOK, Unmoved
  <2>4. ASSUME NEW k \in Lane, NEW c \in DOMAIN answers'[k] PROVE answers'[k][c] \in Outcomes
    <3>1. \A e \in DOMAIN answers[k] : answers[k][e] \in Outcomes
      BY <1>3 DEF TypeOK
    <3>2. CASE k = l
      <4>1. c = at[l] \/ c \in DOMAIN answers[l]
        BY <1>8, <3>2
      <4>2. CASE c = at[l]
        BY <1>8, <3>2, <4>2
      <4>3. CASE c \in DOMAIN answers[l]
        BY <1>8, <3>1, <3>2, <4>3
      <4>. QED  BY <4>1, <4>2, <4>3
    <3>3. CASE k # l
      <4>1. answers'[k] = answers[k]
        BY <1>8, <3>3 DEF Unmoved
      <4>. QED  BY <3>1, <4>1
    <3>. QED  BY <3>2, <3>3
  <2>5. DOMAIN evidence' = Lane /\ DOMAIN answers' = Lane
    BY <1>1, <1>2, <1>3 DEF TypeOK
  <2> QED
    BY <1>3, <2>1, <2>2, <2>3, <2>4, <2>5 DEF TypeOK
<1>10. Same
  BY <1>2, BundleFixed
<1>11. /\ at[l] \in Places /\ ~Behind(at[l], at[l])
       /\ \A c \in Places : Behind(c, a) <=> Behind(c, at[l]) \/ c = at[l]
  BY <1>2, <1>3, NextBehind
<1> HIDE DEF a
<1>12. at[l] \notin DOMAIN answers[l] /\ d = {c \in Cases : Behind(c, a)}
  BY <1>2, <1>3, <1>11 DEF Answered, Cases
<1>13. \A c \in Places : Behind(c, a) => LineAt(c).kind \in {"skip", "case"}
  BY <1>2, <1>3, <1>11 DEF Answered
<1>14. Answered(l)'
  BY <1>8, <1>10, <1>12, <1>13 DEF Answered, Same
<1>15. AsWanted(l)'
  BY <1>1, <1>3, <1>8, <1>10 DEF LaneInv, AsWanted, Same
<1>16. CountRight(l)'
  <2>1. IsFiniteSet(d) /\ Cardinality(d) = Cardinality(DOMAIN answers[l]) + 1
    BY <1>3, <1>12, FS_AddElement DEF LaneInv, CountRight
  <2> QED
    BY <1>3, <1>8, <2>1 DEF LaneInv, CountRight
<1>17. Stage(l)' /\ Filed(l)'
  BY <1>2, <1>3, <1>4, <1>14 DEF LaneInv, Stage, Filed, Verified
<1> QED
  BY <1>2, <1>8, <1>9, <1>15, <1>16, <1>17, OneLane DEF LaneInv

LEMMA EndOfFileStep == ASSUME IInv, NEW l \in Lane, EndOfFile(l) PROVE IInv'
<1> DEFINE a == <<at[l][1] + 1, 1>>
<1>1. /\ pc[l] = "vectors" /\ at[l][1] \in DOMAIN Files /\ ~InFile(l)
      /\ at' = [at EXCEPT ![l] = a]
      /\ UNCHANGED <<bundle, pc, count, acc, evidence, code, answers>>
  BY DEF EndOfFile
<1>2. TypeOK /\ LaneInv(l) /\ Answered(l) /\ Verified
  BY <1>1 DEF IInv, LaneInv, Stage
<1>3. a \in (Nat \ {0}) \X (Nat \ {0})
  BY <1>2 DEF TypeOK
<1>4. TypeOK' /\ at'[l] = a /\ \A k \in Lane \ {l} : Unmoved(k)
  BY <1>1, <1>2, <1>3 DEF TypeOK, Unmoved
<1>5. Same
  BY <1>1, BundleFixed
<1>6. AsWanted(l)' /\ CountRight(l)'
  BY <1>1, <1>2, <1>5 DEF LaneInv, AsWanted, CountRight, Same
<1>7. \A c \in Places : Behind(c, a) <=> Behind(c, at[l])
  <2> SUFFICES ASSUME NEW c \in Places PROVE Behind(c, a) <=> Behind(c, at[l])
    OBVIOUS
  <2>1. c[1] \in Nat \ {0} /\ c[2] \in Nat \ {0} /\ c[2] \in DOMAIN LinesOf(c[1])
    BY <1>2, PlacesAre
  <2>2. at[l][1] \in Nat \ {0} /\ at[l][2] \in Nat \ {0}
    BY <1>2 DEF TypeOK
  <2>3. c[1] = at[l][1] => c[2] < at[l][2]
    <3>1. LinesOf(at[l][1]) \in Seq(Line)
      BY <1>1, <1>2, FilesAre
    <3>2. at[l][2] \notin DOMAIN LinesOf(at[l][1])
      BY <1>1 DEF InFile
    <3>3. at[l][2] > Len(LinesOf(at[l][1]))
      BY <2>2, <3>1, <3>2
    <3> QED
      BY <2>1, <2>2, <3>1, <3>3
  <2> QED
    BY <2>1, <2>2, <2>3 DEF Behind
<1> HIDE DEF a
<1>8. Answered(l)'
  BY <1>1, <1>2, <1>4, <1>5, <1>7 DEF Answered, Same, Cases
<1>9. Stage(l)' /\ Filed(l)'
  BY <1>1, <1>2, <1>8 DEF LaneInv, Stage, Filed, Verified
<1> QED
  BY <1>1, <1>4, <1>6, <1>9, OneLane DEF LaneInv

LEMMA EndOfVectorsStep == ASSUME IInv, NEW l \in Lane, EndOfVectors(l) PROVE IInv'
<1>1. /\ pc[l] = "vectors" /\ at[l][1] \notin DOMAIN Files /\ count[l] > 0
      /\ pc' = [pc EXCEPT ![l] = "env"]
      /\ UNCHANGED <<bundle, at, count, acc, evidence, code, answers>>
  BY DEF EndOfVectors, Goto
<1>2. TypeOK /\ LaneInv(l) /\ Answered(l) /\ Verified
  BY <1>1 DEF IInv, LaneInv, Stage
<1>3. TypeOK' /\ pc'[l] = "env" /\ \A k \in Lane \ {l} : Unmoved(k)
  BY <1>1, <1>2 DEF TypeOK, Unmoved
<1>4. Same
  BY <1>1, BundleFixed
<1>5. AsWanted(l)' /\ CountRight(l)'
  BY <1>1, <1>2, <1>4 DEF LaneInv, AsWanted, CountRight, Same
<1>6. \A c \in Places : Behind(c, at[l])
  <2> SUFFICES ASSUME NEW c \in Places PROVE c[1] < at[l][1]
    BY DEF Behind
  <2>1. c[1] \in DOMAIN Files
    BY <1>2, PlacesAre
  <2>2. at[l][1] \in Nat \ {0}
    BY <1>2 DEF TypeOK
  <2>3. Files \in Seq(Names)
    BY <1>2, FilesAre
  <2>4. at[l][1] > Len(Files)
    BY <1>1, <2>2, <2>3
  <2> QED
    BY <2>1, <2>2, <2>3, <2>4
<1>7. Complete(l)
  BY <1>1, <1>2, <1>6 DEF Answered, Complete, Understood, Cases
<1>8. Complete(l)' /\ Verified'
  BY <1>1, <1>2, <1>4, <1>7 DEF Complete, Understood, Same, Verified
<1>9. Stage(l)' /\ Filed(l)'
  BY <1>1, <1>2, <1>3, <1>8 DEF LaneInv, Stage, Filed
<1> QED
  BY <1>1, <1>3, <1>5, <1>9, OneLane DEF LaneInv

LEMMA EnvironmentStep == ASSUME IInv, NEW l \in Lane, SameInVariedEnvironment(l) PROVE IInv'
<1>1. /\ pc[l] = "env" /\ pc' = [pc EXCEPT ![l] = "write"]
      /\ UNCHANGED <<bundle, at, count, acc, evidence, code, answers>>
  BY DEF SameInVariedEnvironment, Goto
<1>2. TypeOK /\ LaneInv(l) /\ Complete(l) /\ Verified
  BY <1>1 DEF IInv, LaneInv, Stage
<1>3. TypeOK' /\ pc'[l] = "write" /\ \A k \in Lane \ {l} : Unmoved(k)
  BY <1>1, <1>2 DEF TypeOK, Unmoved
<1>4. Same
  BY <1>1, BundleFixed
<1>5. AsWanted(l)' /\ CountRight(l)'
  BY <1>1, <1>2, <1>4 DEF LaneInv, AsWanted, CountRight, Same
<1>6. Complete(l)' /\ Verified'
  BY <1>1, <1>2, <1>4 DEF Complete, Understood, Same, Verified
<1>7. Stage(l)' /\ Filed(l)'
  BY <1>1, <1>2, <1>3, <1>6 DEF LaneInv, Stage, Filed
<1> QED
  BY <1>1, <1>3, <1>5, <1>7, OneLane DEF LaneInv

LEMMA WriteStep == ASSUME IInv, NEW l \in Lane, WriteEvidence(l) PROVE IInv'
<1> DEFINE e == [cases |-> count[l], digests |-> acc[l]]
<1>1. /\ pc[l] = "write" /\ pc' = [pc EXCEPT ![l] = "ok"]
      /\ evidence' = [evidence EXCEPT ![l] = {e}]
      /\ UNCHANGED <<bundle, at, count, acc, code, answers>>
  BY DEF WriteEvidence, Goto
<1>2. TypeOK /\ LaneInv(l) /\ Complete(l) /\ Verified
  BY <1>1 DEF IInv, LaneInv, Stage
<1>3. pc'[l] = "ok" /\ evidence'[l] = {e} /\ \A k \in Lane \ {l} : Unmoved(k)
  BY <1>1, <1>2 DEF TypeOK, Unmoved
<1>4. TypeOK'
  <2>1. e \in [cases : Nat, digests : {acc[l]}]
    BY <1>2 DEF TypeOK
  <2>2. \A k \in Lane : evidence'[k] \subseteq [cases : Nat, digests : {acc'[k]}]
    BY <1>1, <1>2, <1>3, <2>1 DEF TypeOK, Unmoved
  <2> QED
    BY <1>1, <1>2, <2>2 DEF TypeOK
<1>5. Same
  BY <1>1, BundleFixed
<1>6. AsWanted(l)' /\ CountRight(l)'
  BY <1>1, <1>2, <1>5 DEF LaneInv, AsWanted, CountRight, Same
<1>7. Complete(l)' /\ Verified'
  BY <1>1, <1>2, <1>5 DEF Complete, Understood, Same, Verified
<1>8. \A x \in evidence'[l] : x.cases = count'[l]
  BY <1>1, <1>3
<1> HIDE DEF e
<1>9. Stage(l)' /\ Filed(l)'
  BY <1>1, <1>2, <1>3, <1>7, <1>8 DEF LaneInv, Stage, Filed
<1> QED
  BY <1>1, <1>3, <1>4, <1>6, <1>9, OneLane DEF LaneInv

(* A replay ends with whatever it has written. *)
LEMMA EndStep ==
  ASSUME IInv, NEW l \in Lane, SayOk(l) \/ Fail(l) \/ Kill(l)
  PROVE  IInv'
<1>1. PICK x \in {"0", "2", "killed"} :
        /\ code' = [code EXCEPT ![l] = x]
        /\ x = "0" => pc[l] = "ok"
        /\ pc' = [pc EXCEPT ![l] = "done"]
        /\ UNCHANGED <<bundle, at, count, acc, evidence, answers>>
  BY DEF SayOk, Fail, Kill, Goto
<1>2. TypeOK /\ LaneInv(l)
  BY DEF IInv
<1>3. /\ TypeOK' /\ pc'[l] = "done" /\ code'[l] = x
      /\ \A k \in Lane \ {l} : Unmoved(k)
  <2>1. code' \in [Lane -> {"none", "0", "2", "killed"}] /\ code'[l] = x
    BY <1>1, <1>2 DEF TypeOK
  <2>2. /\ pc' \in [Lane -> {"start", "verify", "vectors", "env", "write", "ok", "done"}]
        /\ pc'[l] = "done"
    BY <1>1, <1>2 DEF TypeOK
  <2>3. TypeOK'
    BY <1>1, <1>2, <2>1, <2>2 DEF TypeOK
  <2>4. \A k \in Lane \ {l} : Unmoved(k)
    BY <1>1, <1>2 DEF TypeOK, Unmoved
  <2> QED
    BY <2>1, <2>2, <2>3, <2>4
<1>4. Same
  BY <1>1, BundleFixed
<1>5. AsWanted(l)' /\ CountRight(l)'
  BY <1>1, <1>2, <1>4 DEF LaneInv, AsWanted, CountRight, Same
<1>6. evidence[l] # {} => Complete(l)' /\ Verified'
  BY <1>1, <1>2, <1>4 DEF LaneInv, Filed, Complete, Understood, Same, Verified
<1>7. Stage(l)'
  BY <1>3 DEF Stage
<1>8. evidence[l] # {} \/ x # "0"
  BY <1>1, <1>2 DEF LaneInv, Filed
<1>9. Filed(l)'
  BY <1>1, <1>2, <1>3, <1>6, <1>8 DEF LaneInv, Filed
<1> QED
  BY <1>1, <1>3, <1>5, <1>7, <1>9, OneLane DEF LaneInv

LEMMA Stutter == IInv /\ UNCHANGED vars => IInv'
<1> SUFFICES ASSUME IInv, UNCHANGED vars PROVE IInv'
  OBVIOUS
<1>1. TypeOK' /\ \A k \in Lane : Unmoved(k)
  BY DEF vars, IInv, TypeOK, Unmoved
<1>2. bundle' = bundle
  BY DEF vars
<1> QED
  BY <1>1, <1>2, UnmovedKeeps DEF IInv

LEMMA Inductive == IInv /\ [Next]_vars => IInv'
BY ExtractStep, VerifyStep, SkipStep, CaseStep, EndOfFileStep, EndOfVectorsStep,
   EnvironmentStep, WriteStep, EndStep, Stutter DEF Next

-----------------------------------------------------------------------------
(* The invariant holds in every reachable state. *)
THEOREM Invariance == Spec => []IInv
BY Initial, Inductive, PTL DEF Spec

(* Every variable keeps its type, whatever the vectors and the tool say.   *)
THEOREM TypeCorrect == Spec => []TypeOK
<1>1. IInv => TypeOK
  BY DEF IInv
<1> QED
  BY Invariance, <1>1, PTL

(* Evidence is written only of a verified bundle of which every line was   *)
(* understood and every case answered as wanted and in time, and the exit  *)
(* code 0 is given only when it is there (run of the worker, lines 80-153).*)
THEOREM PassedIsTrue == Spec => []PassedMeansPassed
<1>1. IInv => PassedMeansPassed
  <2> SUFFICES ASSUME IInv, NEW l \in Lane
               PROVE  /\ \A e \in evidence[l] :
                           /\ Verified /\ Understood /\ AllAnswered(l)
                           /\ e.cases = Cardinality(Cases) /\ e.cases > 0
                      /\ code[l] = "0" => evidence[l] # {}
    BY DEF PassedMeansPassed, Verified
  <2>1. TypeOK /\ LaneInv(l)
    BY DEF IInv
  <2>2. code[l] = "0" => evidence[l] # {}
    BY <2>1 DEF LaneInv, Filed
  <2>3. ASSUME NEW e \in evidence[l]
        PROVE  /\ Verified /\ Understood /\ AllAnswered(l)
               /\ e.cases = Cardinality(Cases) /\ e.cases > 0
    <3>1. Verified /\ Complete(l) /\ e.cases = count[l]
      BY <2>1, <2>3 DEF LaneInv, Filed
    <3>2. e.cases = Cardinality(Cases) /\ e.cases > 0
      BY <2>1, <3>1 DEF LaneInv, CountRight, Complete
    <3>3. ASSUME NEW c \in Cases
          PROVE  Accepts(LineAt(c), answers[l][c]) /\ answers[l][c].exit # Killed
      <4>1. Accepts(LineAt(c), answers[l][c])
        BY <2>1, <3>1 DEF LaneInv, AsWanted, Complete
      <4>2. LineAt(c) \in Line
        <5>1. c[1] \in DOMAIN Files /\ c[2] \in DOMAIN LinesOf(c[1])
          BY <2>1, PlacesAre DEF Cases
        <5> QED
          BY <2>1, <5>1, FilesAre DEF LineAt
      <4>3. LineAt(c).exit \in {"0", "2", "10"}
        BY <4>2 DEF Line, Exit
      <4> QED
        BY <4>1, <4>3 DEF Accepts, Killed
    <3> QED
      BY <3>1, <3>2, <3>3 DEF Complete, AllAnswered
  <2> QED
    BY <2>2, <2>3
<1> QED
  BY Invariance, <1>1, PTL

-----------------------------------------------------------------------------
(* The digested text can be taken apart again, from its end. *)
Joined(s, t) == s \o t

Plain(t) == ~Occurs("us", t)

PlainText == {t \in Text : Plain(t)}

LEMMA Joins ==
  /\ \A s, t \in Text : Joined(s, t) \in Text
  /\ \A s, t, u \in Text : Joined(Joined(s, t), u) = Joined(s, Joined(t, u))
<1>1. ASSUME NEW s \in Text, NEW t \in Text PROVE Joined(s, t) \in Text
  BY ConcatProperties DEF Joined, Text
<1>2. ASSUME NEW s \in Text, NEW t \in Text, NEW u \in Text
      PROVE  Joined(Joined(s, t), u) = Joined(s, Joined(t, u))
  BY ConcatAssociative DEF Joined, Text
<1>. QED  BY <1>1, <1>2

LEMMA LastSymbol ==
  ASSUME NEW s1 \in Seq(Symbol), NEW s2 \in Seq(Symbol), NEW x \in Symbol, NEW y \in Symbol,
         s1 \o <<x>> = s2 \o <<y>>
  PROVE  s1 = s2 /\ x = y
<1>1. <<x>> \in Seq(Symbol) /\ <<y>> \in Seq(Symbol) /\ Len(<<x>>) = 1 /\ Len(<<y>>) = 1
      /\ <<x>>[1] = x /\ <<y>>[1] = y
  OBVIOUS
<1>2. /\ Len(s1 \o <<x>>) = Len(s1) + 1 /\ Len(s2 \o <<y>>) = Len(s2) + 1
      /\ Len(s1) \in Nat /\ Len(s2) \in Nat
  BY <1>1, ConcatProperties
<1>3. Len(s1) = Len(s2)
  BY <1>2
<1>4. \A i \in 1..Len(s1) : (s1 \o <<x>>)[i] = s1[i] /\ (s2 \o <<y>>)[i] = s2[i]
  BY <1>1, <1>2, <1>3, ConcatProperties
<1>5. s1 = s2
  BY <1>3, <1>4, SeqEqual
<1>6. (s1 \o <<x>>)[Len(s1) + 1] = x /\ (s2 \o <<y>>)[Len(s2) + 1] = y
  <2>1. Len(s1) + 1 \in 1..(Len(s1) + 1) /\ Len(s2) + 1 \in 1..(Len(s2) + 1)
    BY <1>2
  <2>. QED  BY <1>1, <1>2, <2>1, ConcatProperties
<1>. QED  BY <1>3, <1>5, <1>6

LEMMA PartIs ==
  ASSUME NEW t \in Seq(Symbol)
  PROVE  /\ Part(t) \in Seq(Symbol) /\ Len(Part(t)) = Len(t) + 1 /\ Len(t) \in Nat
         /\ Part(t)[1] = "us" /\ \A i \in 1..Len(t) : Part(t)[i + 1] = t[i]
<1>1. <<"us">> \in Seq(Symbol) /\ Len(<<"us">>) = 1 /\ <<"us">>[1] = "us"
  BY SymbolsAssumption
<1>2. Len(t) \in Nat
  OBVIOUS
<1>. QED  BY <1>1, <1>2, ConcatProperties DEF Part

(* Where a text ends with a part, the separator and what follows it. *)
LEMMA AfterPart ==
  ASSUME NEW s \in Seq(Symbol), NEW t \in Seq(Symbol)
  PROVE  /\ Len(s) \in Nat /\ Len(s \o Part(t)) = Len(s) + Len(t) + 1
         /\ (s \o Part(t))[Len(s) + 1] = "us"
         /\ \A i \in 1..Len(t) : (s \o Part(t))[Len(s) + 1 + i] = t[i]
         /\ \A i \in 1..Len(s) : (s \o Part(t))[i] = s[i]
<1> DEFINE p == Part(t)
<1>1. p \in Seq(Symbol) /\ Len(p) = Len(t) + 1 /\ Len(t) \in Nat
      /\ p[1] = "us" /\ \A i \in 1..Len(t) : p[i + 1] = t[i]
  BY PartIs
<1> HIDE DEF p
<1>2. /\ Len(s \o p) = Len(s) + Len(p) /\ Len(s) \in Nat
      /\ \A i \in 1..(Len(s) + Len(p)) : (s \o p)[i] = IF i <= Len(s) THEN s[i] ELSE p[i - Len(s)]
  <2>1. Len(s) \in Nat
    OBVIOUS
  <2>2. p \in Seq(Symbol)
    BY <1>1
  <2>3. Len(s \o p) = Len(s) + Len(p)
    BY <2>2, ConcatProperties
  <2>4. \A i \in 1..(Len(s) + Len(p)) : (s \o p)[i] = IF i <= Len(s) THEN s[i] ELSE p[i - Len(s)]
    BY <2>2, ConcatProperties, Zenon
  <2>. QED  BY <2>1, <2>3, <2>4
<1>3. (s \o p)[Len(s) + 1] = "us"
  <2>1. Len(s) + 1 \in 1..(Len(s) + Len(p)) /\ ~(Len(s) + 1 <= Len(s)) /\ (Len(s) + 1) - Len(s) = 1
    BY <1>1, <1>2
  <2>2. (s \o p)[Len(s) + 1] = p[(Len(s) + 1) - Len(s)]
    BY <1>2, <2>1
  <2>. QED  BY <1>1, <2>1, <2>2
<1>4. ASSUME NEW i \in 1..Len(t) PROVE (s \o p)[Len(s) + 1 + i] = t[i]
  <2>1. Len(s) + 1 + i \in 1..(Len(s) + Len(p)) /\ ~(Len(s) + 1 + i <= Len(s))
        /\ (Len(s) + 1 + i) - Len(s) = i + 1
    BY <1>1, <1>2
  <2>2. (s \o p)[Len(s) + 1 + i] = p[(Len(s) + 1 + i) - Len(s)]
    BY <1>2, <2>1
  <2>. QED  BY <1>1, <2>1, <2>2
<1>5. ASSUME NEW i \in 1..Len(s) PROVE (s \o p)[i] = s[i]
  <2>1. i \in 1..(Len(s) + Len(p)) /\ i <= Len(s)
    BY <1>1, <1>2
  <2>. QED  BY <1>2, <2>1
<1>. QED  BY <1>1, <1>2, <1>3, <1>4, <1>5 DEF p

(* The last part of a text is known by its separator. *)
LEMMA LastPart ==
  ASSUME NEW s1 \in Text, NEW s2 \in Text, NEW t1 \in Text, NEW t2 \in Text, Plain(t1), Plain(t2),
         Joined(s1, Part(t1)) = Joined(s2, Part(t2))
  PROVE  s1 = s2 /\ t1 = t2
<1> DEFINE a == s1 \o Part(t1)
           b == s2 \o Part(t2)
<1>2. /\ Len(s1) \in Nat /\ Len(s2) \in Nat
      /\ Len(a) = Len(s1) + Len(t1) + 1 /\ Len(b) = Len(s2) + Len(t2) + 1
      /\ a[Len(s1) + 1] = "us" /\ b[Len(s2) + 1] = "us"
      /\ \A i \in 1..Len(t1) : a[Len(s1) + 1 + i] = t1[i]
      /\ \A i \in 1..Len(t2) : b[Len(s2) + 1 + i] = t2[i]
      /\ \A i \in 1..Len(s1) : a[i] = s1[i]
      /\ \A i \in 1..Len(s2) : b[i] = s2[i]
  BY AfterPart DEF Text
<1>3. a = b /\ Len(t1) \in Nat /\ Len(t2) \in Nat
  BY DEF Joined, Text
<1>4. \A i \in 1..Len(t1) : t1[i] # "us"
  BY DEF Occurs, Plain, Text
<1>5. \A i \in 1..Len(t2) : t2[i] # "us"
  BY DEF Occurs, Plain, Text
<1> HIDE DEF a, b
<1>6. Len(s1) = Len(s2)
  <2>1. ASSUME Len(s1) < Len(s2) PROVE FALSE
    <3>1. Len(s2) - Len(s1) \in 1..Len(t1) /\ Len(s1) + 1 + (Len(s2) - Len(s1)) = Len(s2) + 1
      BY <1>2, <1>3, <2>1
    <3>2. a[Len(s2) + 1] = t1[Len(s2) - Len(s1)]
      BY <1>2, <3>1
    <3>. QED  BY <1>2, <1>3, <1>4, <3>1, <3>2
  <2>2. ASSUME Len(s2) < Len(s1) PROVE FALSE
    <3>1. Len(s1) - Len(s2) \in 1..Len(t2) /\ Len(s2) + 1 + (Len(s1) - Len(s2)) = Len(s1) + 1
      BY <1>2, <1>3, <2>2
    <3>2. b[Len(s1) + 1] = t2[Len(s1) - Len(s2)]
      BY <1>2, <3>1
    <3>. QED  BY <1>2, <1>3, <1>5, <3>1, <3>2
  <2>. QED  BY <1>2, <2>1, <2>2
<1>7. Len(t1) = Len(t2)
  BY <1>2, <1>3, <1>6
<1>8. s1 = s2
  BY <1>2, <1>3, <1>6, SeqEqual DEF Text
<1>9. t1 = t2
  BY <1>2, <1>3, <1>6, <1>7, SeqEqual DEF Text
<1>. QED  BY <1>8, <1>9

Digests == [{"canonical", "verify", "class", "exit"} -> Text]

(* The same of texts that are joined, with the operator kept closed. *)
LEMMA LastOfJoined ==
  ASSUME NEW s1 \in Text, NEW s2 \in Text, NEW x \in Symbol, NEW y \in Symbol,
         Joined(s1, <<x>>) = Joined(s2, <<y>>)
  PROVE  s1 = s2 /\ x = y
<1>. s1 \o <<x>> = s2 \o <<y>>
  BY DEF Joined
<1>. QED  BY LastSymbol DEF Text

LEMMA Parts == \A t \in Text : Part(t) \in Text
BY PartIs DEF Text

LEMMA Singles == /\ \A x \in Symbol : <<x>> \in Text
                 /\ "nl" \in Symbol /\ "us" \in Symbol
BY SymbolsAssumption DEF Text

(* An entry is known from the stream that it ends. *)
LEMMA LastEntry ==
  ASSUME NEW s1 \in Text, NEW s2 \in Text, NEW e1 \in Text, NEW e2 \in Text,
         Add(s1, e1) = Add(s2, e2)
  PROVE  Joined(s1, e1) = Joined(s2, e2)
<1>1. Joined(Joined(s1, e1), <<"nl">>) = Joined(Joined(s2, e2), <<"nl">>)
  BY DEF Add, Joined
<1>2. Joined(s1, e1) \in Text /\ Joined(s2, e2) \in Text
  BY Joins
<1>. QED  BY <1>1, <1>2, Singles, LastOfJoined

(* An entry of one part more than the id. *)
LEMMA ShortEntry ==
  ASSUME NEW s1 \in Text, NEW s2 \in Text, NEW id \in Symbol,
         NEW t1 \in Text, NEW t2 \in Text, Plain(t1), Plain(t2)
  PROVE  Joined(s1, Joined(<<id>>, Part(t1))) = Joined(s2, Joined(<<id>>, Part(t2)))
         => s1 = s2 /\ t1 = t2
<1> DEFINE i(s) == Joined(s, <<id>>)
<1>1. <<id>> \in Text /\ Part(t1) \in Text /\ Part(t2) \in Text
  BY Singles, Parts
<1>2. /\ Joined(s1, Joined(<<id>>, Part(t1))) = Joined(i(s1), Part(t1))
      /\ Joined(s2, Joined(<<id>>, Part(t2))) = Joined(i(s2), Part(t2))
  BY <1>1, Joins
<1>3. i(s1) \in Text /\ i(s2) \in Text
  BY <1>1, Joins
<1>4. i(s1) = i(s2) => s1 = s2
  BY LastOfJoined
<1> HIDE DEF i
<1>5. Joined(i(s1), Part(t1)) = Joined(i(s2), Part(t2)) => i(s1) = i(s2) /\ t1 = t2
  BY <1>3, LastPart
<1>. QED  BY <1>2, <1>4, <1>5

(* An entry of the id and a symbol, whatever the symbol. *)
LEMMA SymbolEntry ==
  ASSUME NEW s1 \in Text, NEW s2 \in Text, NEW id \in Symbol,
         NEW x1 \in Symbol, NEW x2 \in Symbol,
         Joined(s1, Joined(<<id>>, Joined(<<"us">>, <<x1>>)))
           = Joined(s2, Joined(<<id>>, Joined(<<"us">>, <<x2>>)))
  PROVE  s1 = s2 /\ x1 = x2
<1> DEFINE e(x) == Joined(<<id>>, Joined(<<"us">>, <<x>>))
<1>2. /\ <<id>> \in Text /\ <<"us">> \in Text
      /\ <<x1>> \in Text /\ <<x2>> \in Text
  BY Singles
<1>3. ASSUME NEW s \in Text, NEW x \in Symbol
      PROVE  /\ e(x) \in Text /\ Joined(s, <<id>>) \in Text
             /\ Joined(Joined(s, <<id>>), <<"us">>) \in Text
             /\ Joined(s, e(x)) = Joined(Joined(Joined(s, <<id>>), <<"us">>), <<x>>)
  <2>1. <<x>> \in Text /\ Joined(<<"us">>, <<x>>) \in Text
        /\ Joined(s, <<id>>) \in Text
    BY <1>2, Singles, Joins
  <2>2. Joined(s, e(x)) = Joined(Joined(s, <<id>>), Joined(<<"us">>, <<x>>))
    BY <1>2, <2>1, Joins
  <2>3. Joined(Joined(s, <<id>>), Joined(<<"us">>, <<x>>)) = Joined(Joined(Joined(s, <<id>>), <<"us">>), <<x>>)
    BY <1>2, <2>1, Joins
  <2>4. e(x) \in Text /\ Joined(Joined(s, <<id>>), <<"us">>) \in Text
    BY <1>2, <2>1, Joins
  <2>. QED  BY <2>1, <2>2, <2>3, <2>4
<1> HIDE DEF e
<1>4. Joined(s1, e(x1)) = Joined(s2, e(x2))
  BY DEF e
<1>5. Joined(Joined(Joined(s1, <<id>>), <<"us">>), <<x1>>) = Joined(Joined(Joined(s2, <<id>>), <<"us">>), <<x2>>)
  BY <1>3, <1>4
<1>6. Joined(Joined(s1, <<id>>), <<"us">>) = Joined(Joined(s2, <<id>>), <<"us">>) /\ x1 = x2
  BY <1>3, <1>5, LastOfJoined
<1>7. Joined(s1, <<id>>) = Joined(s2, <<id>>)
  <2>1. Joined(s1, <<id>>) \in Text /\ Joined(s2, <<id>>) \in Text /\ "us" \in Symbol
    BY <1>3, Singles
  <2>. QED  BY <1>6, <2>1, LastOfJoined
<1>. QED  BY <1>6, <1>7, LastOfJoined

(* The same of the entries as they are added. *)
LEMMA EntryOfSymbol ==
  ASSUME NEW s1 \in Text, NEW s2 \in Text, NEW id \in Symbol,
         NEW x1 \in Symbol, NEW x2 \in Symbol,
         Add(s1, <<id>> \o Part(<<x1>>)) = Add(s2, <<id>> \o Part(<<x2>>))
  PROVE  s1 = s2 /\ x1 = x2
<1> DEFINE e(x) == Joined(<<id>>, Joined(<<"us">>, <<x>>))
<1>1. Add(s1, e(x1)) = Add(s2, e(x2))
  BY DEF Joined, Part
<1>2. ASSUME NEW x \in Symbol PROVE e(x) \in Text
  <2>1. <<id>> \in Text /\ <<"us">> \in Text /\ <<x>> \in Text
    BY Singles
  <2>2. Joined(<<"us">>, <<x>>) \in Text
    BY <2>1, Joins
  <2>. QED  BY <2>1, <2>2, Joins
<1>3. Joined(s1, e(x1)) = Joined(s2, e(x2))
  <2> HIDE DEF e
  <2>. QED  BY <1>1, <1>2, LastEntry
<1>. QED  BY <1>3, SymbolEntry

LEMMA EntryOfPart ==
  ASSUME NEW s1 \in Text, NEW s2 \in Text, NEW id \in Symbol,
         NEW t1 \in Text, NEW t2 \in Text, Plain(t1), Plain(t2),
         Add(s1, <<id>> \o Part(t1)) = Add(s2, <<id>> \o Part(t2))
  PROVE  s1 = s2 /\ t1 = t2
<1> DEFINE e(t) == Joined(<<id>>, Part(t))
<1>1. Add(s1, e(t1)) = Add(s2, e(t2))
  BY DEF Joined
<1>2. ASSUME NEW t \in Text PROVE e(t) \in Text
  BY Singles, Parts, Joins
<1>3. Joined(s1, e(t1)) = Joined(s2, e(t2))
  <2> HIDE DEF e
  <2>. QED  BY <1>1, <1>2, LastEntry
<1>. QED  BY <1>3, ShortEntry

(* An entry of all there is of an answer. *)
VerifyEntry(id, q) == Add(q.stream, <<id>> \o Part(q.exit) \o Part(q.stdout) \o Part(q.stderr))

LEMMA EntryOfParts ==
  ASSUME NEW id \in Symbol,
         NEW q1 \in [stream : Text, exit : PlainText, stdout : PlainText, stderr : PlainText],
         NEW q2 \in [stream : Text, exit : PlainText, stdout : PlainText, stderr : PlainText]
  PROVE  VerifyEntry(id, q1) = VerifyEntry(id, q2) => q1 = q2
<1> DEFINE e(t, u, v) == Joined(Joined(Joined(<<id>>, Part(t)), Part(u)), Part(v))
           i(s) == Joined(s, <<id>>)
<1>2. <<id>> \in Text
  BY Singles
<1>3. ASSUME NEW s \in Text, NEW t \in Text, NEW u \in Text, NEW v \in Text
      PROVE  /\ e(t, u, v) \in Text /\ i(s) \in Text
             /\ Joined(i(s), Part(t)) \in Text
             /\ Joined(Joined(i(s), Part(t)), Part(u)) \in Text
             /\ Joined(s, e(t, u, v)) = Joined(Joined(Joined(i(s), Part(t)), Part(u)), Part(v))
  <2>1. Part(t) \in Text /\ Part(u) \in Text /\ Part(v) \in Text
    BY Parts
  <2>2. i(s) \in Text /\ Joined(<<id>>, Part(t)) \in Text
        /\ Joined(i(s), Part(t)) = Joined(s, Joined(<<id>>, Part(t)))
    BY <1>2, <2>1, Joins
  <2>3. Joined(i(s), Part(t)) \in Text /\ Joined(Joined(<<id>>, Part(t)), Part(u)) \in Text
        /\ Joined(s, Joined(Joined(<<id>>, Part(t)), Part(u))) = Joined(Joined(s, Joined(<<id>>, Part(t))), Part(u))
    BY <2>1, <2>2, Joins
  <2>4. Joined(Joined(i(s), Part(t)), Part(u)) \in Text /\ e(t, u, v) \in Text
        /\ Joined(s, e(t, u, v)) = Joined(Joined(s, Joined(Joined(<<id>>, Part(t)), Part(u))), Part(v))
    BY <2>1, <2>3, Joins
  <2>. QED  BY <2>2, <2>3, <2>4
<1> DEFINE s1 == q1.stream
           s2 == q2.stream
           t1 == q1.exit
           t2 == q2.exit
           u1 == q1.stdout
           u2 == q2.stdout
           v1 == q1.stderr
           v2 == q2.stderr
<1>4. /\ s1 \in Text /\ t1 \in Text /\ u1 \in Text /\ v1 \in Text
      /\ s2 \in Text /\ t2 \in Text /\ u2 \in Text /\ v2 \in Text
      /\ Plain(t1) /\ Plain(u1) /\ Plain(v1) /\ Plain(t2) /\ Plain(u2) /\ Plain(v2)
  BY DEF PlainText
<1>5. /\ VerifyEntry(id, q1) = Add(s1, e(t1, u1, v1))
      /\ VerifyEntry(id, q2) = Add(s2, e(t2, u2, v2))
  BY DEF VerifyEntry, Joined
<1>6. s1 = s2 /\ t1 = t2 /\ u1 = u2 /\ v1 = v2 => q1 = q2
  OBVIOUS
<1> HIDE DEF e, i, s1, s2, t1, t2, u1, u2, v1, v2
<1> DEFINE a1 == i(s1)
           a2 == i(s2)
           b1 == Joined(a1, Part(t1))
           b2 == Joined(a2, Part(t2))
           c1 == Joined(b1, Part(u1))
           c2 == Joined(b2, Part(u2))
           e1 == e(t1, u1, v1)
           e2 == e(t2, u2, v2)
<1>7. a1 \in Text /\ a2 \in Text /\ b1 \in Text /\ b2 \in Text /\ c1 \in Text /\ c2 \in Text
      /\ e1 \in Text /\ e2 \in Text
  BY <1>3, <1>4
<1>8. Joined(s1, e1) = Joined(c1, Part(v1)) /\ Joined(s2, e2) = Joined(c2, Part(v2))
  BY <1>3, <1>4
<1>9. a1 = a2 => s1 = s2
  BY <1>4, LastOfJoined DEF i
<1>10. Add(s1, e1) = Add(s2, e2) => Joined(s1, e1) = Joined(s2, e2)
  <2> HIDE DEF e1, e2
  <2>. QED  BY <1>4, <1>7, LastEntry
<1> HIDE DEF c1, c2
<1>11. Joined(c1, Part(v1)) = Joined(c2, Part(v2)) => c1 = c2 /\ v1 = v2
  BY <1>4, <1>7, LastPart
<1> HIDE DEF b1, b2
<1>12. Joined(b1, Part(u1)) = Joined(b2, Part(u2)) => b1 = b2 /\ u1 = u2
  BY <1>4, <1>7, LastPart
<1> HIDE DEF a1, a2
<1>13. Joined(a1, Part(t1)) = Joined(a2, Part(t2)) => a1 = a2 /\ t1 = t2
  BY <1>4, <1>7, LastPart
<1>. QED  BY <1>5, <1>6, <1>8, <1>9, <1>10, <1>11, <1>12, <1>13 DEF b1, b2, c1, c2

(* What the digests were before an entry and what the entry tells of the   *)
(* answer follows from what they are after it.                             *)
LEMMA RecordInjective ==
  ASSUME NEW a1 \in Digests, NEW a2 \in Digests, NEW line \in Line,
         NEW o1 \in Outcomes, NEW o2 \in Outcomes,
         Record(a1, line, o1) = Record(a2, line, o2)
  PROVE  a1 = a2 /\ SameAnswer(line, o1, o2)
<1> DEFINE e1 == <<o1.exit>>
           e2 == <<o2.exit>>
<1>1. line.id \in Symbol
  BY SymbolsAssumption DEF Line
<1>2. /\ a1.canonical \in Text /\ a1.verify \in Text
      /\ a1.class \in Text /\ a1.exit \in Text
      /\ a2.canonical \in Text /\ a2.verify \in Text
      /\ a2.class \in Text /\ a2.exit \in Text
  BY DEF Digests
<1>3. \A o \in Outcomes : /\ o.exit \in Symbol /\ o.exit # "us"
                          /\ o.stdout \in Text /\ Plain(o.stdout)
                          /\ o.stderr \in Text /\ Plain(o.stderr)
                          /\ ClassOf(o) \in Symbol
  <2>1. \A o \in Outcomes : /\ o.exit \in Symbol /\ o.exit # "us"
                            /\ o.stdout \in Text /\ o.stderr \in Text
    BY OutcomesAssumption, SymbolsAssumption DEF Outcome, Text, Exit, Killed
  <2>. QED  BY <2>1, SeparatorAssumption, ClassType DEF Plain
<1>4. /\ e1 \in Text /\ Plain(e1)
      /\ e2 \in Text /\ Plain(e2)
  BY <1>3, Singles DEF Occurs, Plain
<1>5. a1.exit = a2.exit /\ o1.exit = o2.exit
  <2>1. Add(a1.exit, <<line.id>> \o Part(e1)) = Add(a2.exit, <<line.id>> \o Part(e2))
    BY DEF Record
  <2>. QED  BY <1>1, <1>2, <1>3, <2>1, EntryOfSymbol
<1>6. a1.class = a2.class /\ ClassOf(o1) = ClassOf(o2)
  <2>1. Add(a1.class, <<line.id>> \o Part(<<ClassOf(o1)>>)) = Add(a2.class, <<line.id>> \o Part(<<ClassOf(o2)>>))
    BY DEF Record
  <2>. QED  BY <1>1, <1>2, <1>3, <2>1, EntryOfSymbol
<1>7. a1.canonical = a2.canonical /\ (line.mode = "canonicalize" => o1.stdout = o2.stdout)
  <2>1. CASE line.mode # "canonicalize"
    BY <2>1 DEF Record
  <2>2. CASE line.mode = "canonicalize"
    <3>1. Add(a1.canonical, <<line.id>> \o Part(o1.stdout)) = Add(a2.canonical, <<line.id>> \o Part(o2.stdout))
      BY <2>2 DEF Record
    <3>. QED  BY <1>1, <1>2, <1>3, <3>1, EntryOfPart
  <2>. QED  BY <2>1, <2>2
<1>8. a1.verify = a2.verify /\ (line.mode = "verify" => o1.stdout = o2.stdout /\ o1.stderr = o2.stderr)
  <2>1. CASE line.mode # "verify"
    BY <2>1 DEF Record
  <2>2. CASE line.mode = "verify"
    <3> DEFINE q1 == [stream |-> a1.verify, exit |-> e1, stdout |-> o1.stdout, stderr |-> o1.stderr]
               q2 == [stream |-> a2.verify, exit |-> e2, stdout |-> o2.stdout, stderr |-> o2.stderr]
    <3>1. VerifyEntry(line.id, q1) = VerifyEntry(line.id, q2)
      BY <2>2 DEF Record, VerifyEntry
    <3>2. /\ o1.stdout \in PlainText /\ o1.stderr \in PlainText /\ e1 \in PlainText
          /\ o2.stdout \in PlainText /\ o2.stderr \in PlainText /\ e2 \in PlainText
      BY <1>3, <1>4 DEF PlainText
    <3>3. /\ q1 \in [stream : Text, exit : PlainText, stdout : PlainText, stderr : PlainText]
          /\ q2 \in [stream : Text, exit : PlainText, stdout : PlainText, stderr : PlainText]
      BY <1>2, <3>2
    <3>4. q1 = q2
      <4> HIDE DEF q1, q2
      <4>. QED  BY <1>1, <3>1, <3>3, EntryOfParts
    <3>5. q1.stream = q2.stream /\ q1.stdout = q2.stdout /\ q1.stderr = q2.stderr
      <4> HIDE DEF q1, q2
      <4>. QED  BY <3>4
    <3>. QED  BY <3>5
  <2>. QED  BY <2>1, <2>2
<1>9. a1 = a2
  <2>1. a1 = [i \in {"canonical", "verify", "class", "exit"} |-> a1[i]]
    BY DEF Digests
  <2>2. a2 = [i \in {"canonical", "verify", "class", "exit"} |-> a2[i]]
    BY DEF Digests
  <2>. QED  BY <1>5, <1>6, <1>7, <1>8, <2>1, <2>2
<1>. QED  BY <1>5, <1>6, <1>7, <1>8, <1>9 DEF SameAnswer

(* The digests follow the cursor: a trail gives for each position what     *)
(* they were when the replay came there.                                   *)
Position == (Nat \ {0}) \X (Nat \ {0})

Trail(l, H) ==
  /\ H \in [Position -> Digests]
  /\ H[at[l]] = acc[l]
  /\ \A c \in Places : Behind(c, at[l]) =>
        H[<<c[1], c[2] + 1>>] = IF c \in Cases THEN Record(H[c], LineAt(c), answers[l][c]) ELSE H[c]
  /\ \A f \in DOMAIN Files : f < at[l][1] => H[<<f + 1, 1>>] = H[<<f, Len(LinesOf(f)) + 1>>]

Digested(l) == \E H : Trail(l, H)

Placed(l) ==
  /\ at[l][1] \in DOMAIN Files => at[l][2] <= Len(LinesOf(at[l][1])) + 1
  /\ at[l][1] \notin DOMAIN Files => at[l] = <<Len(Files) + 1, 1>>
  /\ pc[l] \in {"env", "write", "ok"} => at[l][1] \notin DOMAIN Files
  /\ evidence[l] # {} => at[l][1] \notin DOMAIN Files

DInv == IInv /\ \A l \in Lane : Placed(l) /\ Digested(l)

-----------------------------------------------------------------------------
LEMMA LinesFixed == ASSUME bundle' = bundle PROVE \A f : LinesOf(f)' = LinesOf(f)
BY DEF LinesOf, Files

LEMMA AllFixed ==
  ASSUME bundle' = bundle
  PROVE  /\ Files' = Files /\ Cases' = Cases /\ Places' = Places
         /\ \A c : LineAt(c)' = LineAt(c)
         /\ \A f : LinesOf(f)' = LinesOf(f)
BY BundleFixed, LinesFixed DEF Same

(* What has neither moved nor digested keeps its trail. *)
LEMMA StillDigested ==
  ASSUME NEW k \in Lane, bundle' = bundle, Digested(k),
         at'[k] = at[k], acc'[k] = acc[k], answers'[k] = answers[k]
  PROVE  Digested(k)'
<1>1. PICK H : Trail(k, H)
  BY DEF Digested
<1>2. Trail(k, H)'
  BY <1>1, AllFixed DEF Trail
<1>. QED  BY <1>2 DEF Digested

LEMMA StillPlaced ==
  ASSUME NEW k \in Lane, bundle' = bundle, Placed(k), at'[k] = at[k],
         pc'[k] \in {"env", "write", "ok"} \/ evidence'[k] # {} => at[k][1] \notin DOMAIN Files
  PROVE  Placed(k)'
BY AllFixed DEF Placed

(* The positions a replay has come to, as the trail speaks of them. *)
Reached(q, a) == Behind(q, a) \/ q = a

LEMMA ReachedAre ==
  ASSUME TypeOK, NEW l \in Lane
  PROVE  /\ at[l] \in Position
         /\ \A c \in Places : c \in Position /\ <<c[1], c[2] + 1>> \in Position
         /\ \A f \in DOMAIN Files : <<f + 1, 1>> \in Position /\ <<f, Len(LinesOf(f)) + 1>> \in Position
         /\ \A c \in Places : Behind(c, at[l]) => Reached(c, at[l]) /\ Reached(<<c[1], c[2] + 1>>, at[l])
         /\ \A f \in DOMAIN Files : f < at[l][1] =>
               Reached(<<f + 1, 1>>, at[l]) /\ Reached(<<f, Len(LinesOf(f)) + 1>>, at[l])
<1>1. at[l] \in Position /\ at[l] = <<at[l][1], at[l][2]>> /\ at[l][1] \in Nat \ {0} /\ at[l][2] \in Nat \ {0}
  BY DEF TypeOK, Position
<1>2. ASSUME NEW c \in Places
      PROVE  /\ c \in Position /\ <<c[1], c[2] + 1>> \in Position
             /\ Behind(c, at[l]) => Reached(c, at[l]) /\ Reached(<<c[1], c[2] + 1>>, at[l])
  <2>1. c = <<c[1], c[2]>> /\ c[1] \in Nat \ {0} /\ c[2] \in Nat \ {0}
    BY PlacesAre
  <2>2. c \in Position /\ <<c[1], c[2] + 1>> \in Position
    BY <2>1 DEF Position
  <2>3. ASSUME Behind(c, at[l]) PROVE Reached(<<c[1], c[2] + 1>>, at[l])
    <3>1. CASE c[1] < at[l][1]
      BY <3>1 DEF Reached, Behind
    <3>2. CASE c[1] = at[l][1] /\ c[2] + 1 < at[l][2]
      BY <3>2 DEF Reached, Behind
    <3>3. CASE c[1] = at[l][1] /\ c[2] + 1 = at[l][2]
      BY <1>1, <3>3 DEF Reached
    <3>. QED  BY <1>1, <2>1, <2>3, <3>1, <3>2, <3>3 DEF Behind
  <2>. QED  BY <2>2, <2>3 DEF Reached
<1>3. ASSUME NEW f \in DOMAIN Files
      PROVE  /\ <<f + 1, 1>> \in Position /\ <<f, Len(LinesOf(f)) + 1>> \in Position
             /\ f < at[l][1] => Reached(<<f + 1, 1>>, at[l]) /\ Reached(<<f, Len(LinesOf(f)) + 1>>, at[l])
  <2>1. f \in Nat \ {0} /\ Len(LinesOf(f)) \in Nat
    BY FilesAre
  <2>2. <<f + 1, 1>> \in Position /\ <<f, Len(LinesOf(f)) + 1>> \in Position
    BY <2>1 DEF Position
  <2>3. ASSUME f < at[l][1] PROVE Reached(<<f + 1, 1>>, at[l])
    <3>1. CASE f + 1 < at[l][1]
      BY <3>1 DEF Reached, Behind
    <3>2. CASE f + 1 = at[l][1] /\ 1 < at[l][2]
      BY <3>2 DEF Reached, Behind
    <3>3. CASE f + 1 = at[l][1] /\ 1 = at[l][2]
      BY <1>1, <3>3 DEF Reached
    <3>. QED  BY <1>1, <2>1, <2>3, <3>1, <3>2, <3>3
  <2>4. ASSUME f < at[l][1] PROVE Reached(<<f, Len(LinesOf(f)) + 1>>, at[l])
    BY <2>4 DEF Reached, Behind
  <2>. QED  BY <2>2, <2>3, <2>4
<1>. QED  BY <1>1, <1>2, <1>3

Succeeds(p, a) == p = <<a[1], a[2] + 1>> \/ p = <<a[1] + 1, 1>>

(* A trail is extended where the replay goes next, and only there. *)
LEMMA Extended ==
  ASSUME NEW H \in [Position -> Digests], NEW a \in Position, NEW d \in Digests,
         NEW p, Succeeds(p, a)
  PROVE  \E G \in [Position -> Digests] :
            G[p] = d /\ \A q \in Position : Reached(q, a) => G[q] = H[q]
<1>1. a = <<a[1], a[2]>> /\ a[1] \in Nat \ {0} /\ a[2] \in Nat \ {0}
  BY DEF Position
<1>2. p \in Position
  BY <1>1 DEF Position, Succeeds
<1>3. ~Reached(p, a)
  <2>1. CASE p = <<a[1], a[2] + 1>>
    <3>1. p[1] = a[1] /\ p[2] = a[2] + 1
      BY <2>1
    <3>. QED  BY <1>1, <3>1 DEF Reached, Behind
  <2>2. CASE p = <<a[1] + 1, 1>>
    <3>1. p[1] = a[1] + 1 /\ p[2] = 1
      BY <2>2
    <3>. QED  BY <1>1, <3>1 DEF Reached, Behind
  <2>. QED  BY <2>1, <2>2 DEF Succeeds
<1> DEFINE G == [H EXCEPT ![p] = d]
<1>4. G \in [Position -> Digests] /\ G[p] = d
  BY <1>2
<1>5. \A q \in Position : q # p => G[q] = H[q]
  OBVIOUS
<1> HIDE DEF G
<1>6. \A q \in Position : Reached(q, a) => q # p
  BY <1>3
<1>. QED  BY <1>4, <1>5, <1>6

LEMMA DigestedFirst == Init => DInv
<1> SUFFICES ASSUME Init PROVE DInv
  OBVIOUS
<1>1. IInv /\ TypeOK
  BY Initial DEF IInv
<1> SUFFICES ASSUME NEW l \in Lane PROVE Placed(l) /\ Digested(l)
  BY <1>1 DEF DInv
<1>2. at[l] = <<1, 1>> /\ acc[l] = Nothing /\ pc[l] = "start" /\ evidence[l] = {}
  BY DEF Init
<1>3. Files \in Seq(Names) /\ \A f \in DOMAIN Files : LinesOf(f) \in Seq(Line)
  BY <1>1, FilesAre
<1>4. Placed(l)
  <2>1. 1 \in DOMAIN Files => 1 <= Len(LinesOf(1)) + 1
    BY <1>3
  <2>2. 1 \notin DOMAIN Files => Len(Files) = 0
    BY <1>3
  <2>. QED  BY <1>2, <2>1, <2>2 DEF Placed
<1>5. Nothing \in Digests
  BY <1>1, <1>2 DEF TypeOK, Digests
<1> DEFINE H == [q \in Position |-> Nothing]
<1>6. Trail(l, H)
  <2>1. H \in [Position -> Digests] /\ \A q \in Position : H[q] = Nothing
    BY <1>5
  <2>2. at[l] \in Position
    BY <1>2 DEF Position
  <2>3. \A c \in Places : ~Behind(c, at[l])
    <3> SUFFICES ASSUME NEW c \in Places PROVE ~Behind(c, at[l])
      OBVIOUS
    <3>1. c[1] \in Nat \ {0} /\ c[2] \in Nat \ {0}
      BY <1>1, PlacesAre
    <3>2. at[l][1] = 1 /\ at[l][2] = 1
      BY <1>2
    <3>. QED  BY <3>1, <3>2 DEF Behind
  <2>4. \A f \in DOMAIN Files : ~(f < at[l][1])
    <3>1. at[l][1] = 1
      BY <1>2
    <3>. QED  BY <1>3, <3>1
  <2> HIDE DEF H
  <2>. QED  BY <1>2, <2>1, <2>2, <2>3, <2>4 DEF Trail
<1>. QED  BY <1>4, <1>6 DEF Digested

(* So it is enough to look at the replay that takes the step. *)
LEMMA OneDigested ==
  ASSUME DInv, NEW l \in Lane, IInv', bundle' = bundle, \A k \in Lane \ {l} : Unmoved(k),
         Placed(l)', Digested(l)'
  PROVE  DInv'
<1> SUFFICES ASSUME NEW k \in Lane, k # l PROVE Placed(k)' /\ Digested(k)'
  BY DEF DInv
<1>1. Unmoved(k) /\ Placed(k) /\ Digested(k)
  BY DEF DInv
<1>2. Digested(k)'
  BY <1>1, StillDigested DEF Unmoved
<1>3. Placed(k)'
  <2>1. pc[k] \in {"env", "write", "ok"} \/ evidence[k] # {} => at[k][1] \notin DOMAIN Files
    BY <1>1 DEF Placed
  <2>. QED  BY <1>1, <2>1, StillPlaced DEF Unmoved
<1>. QED  BY <1>2, <1>3

(* The steps that neither move the cursor nor digest. *)
LEMMA QuietStep ==
  ASSUME DInv, NEW l \in Lane, IInv',
         Extract(l) \/ Verify(l) \/ EndOfVectors(l) \/ SameInVariedEnvironment(l)
           \/ WriteEvidence(l) \/ SayOk(l) \/ Fail(l) \/ Kill(l)
  PROVE  DInv'
<1>1. TypeOK /\ Placed(l) /\ Digested(l)
  BY DEF DInv, IInv
<1>2. UNCHANGED <<bundle, at, acc, answers>>
  BY DEF Extract, Verify, EndOfVectors, SameInVariedEnvironment, WriteEvidence, SayOk, Fail, Kill
<1>3. \A k \in Lane \ {l} : Unmoved(k)
  BY <1>1, <1>2 DEF Extract, Verify, EndOfVectors, SameInVariedEnvironment, WriteEvidence, SayOk,
     Fail, Kill, Goto, TypeOK, Unmoved
<1>4. pc'[l] \in {"env", "write", "ok"} \/ evidence'[l] # {} => at[l][1] \notin DOMAIN Files
  <2>1. CASE Extract(l) \/ Verify(l)
    <3>1. pc'[l] \in {"verify", "vectors"} /\ evidence' = evidence
      BY <1>1, <2>1 DEF Extract, Verify, Goto, TypeOK
    <3>. QED  BY <1>1, <3>1 DEF Placed
  <2>2. CASE EndOfVectors(l)
    BY <2>2 DEF EndOfVectors
  <2>3. CASE SameInVariedEnvironment(l)
    BY <1>1, <2>3 DEF SameInVariedEnvironment, Placed
  <2>4. CASE WriteEvidence(l)
    BY <1>1, <2>4 DEF WriteEvidence, Placed
  <2>5. CASE SayOk(l)
    BY <1>1, <2>5 DEF SayOk, Placed
  <2>6. CASE Fail(l) \/ Kill(l)
    <3>1. pc'[l] = "done" /\ evidence' = evidence
      BY <1>1, <2>6 DEF Fail, Kill, Goto, TypeOK
    <3>. QED  BY <1>1, <3>1 DEF Placed
  <2>. QED  BY <2>1, <2>2, <2>3, <2>4, <2>5, <2>6
<1>5. Digested(l)'
  BY <1>1, <1>2, StillDigested
<1>6. Placed(l)'
  BY <1>1, <1>2, <1>4, StillPlaced
<1>. QED  BY <1>2, <1>3, <1>5, <1>6, OneDigested

(* A line is left behind: its answer, when it is a case, is digested.      *)
LEMMA LineDigested ==
  ASSUME TypeOK, TypeOK', NEW l \in Lane, Digested(l), bundle' = bundle, InFile(l),
         at'[l] = <<at[l][1], at[l][2] + 1>>,
         acc'[l] = IF at[l] \in Cases THEN Record(acc[l], LineAt(at[l]), answers'[l][at[l]]) ELSE acc[l],
         \A c \in Places : Behind(c, at[l]) /\ c \in Cases => answers'[l][c] = answers[l][c]
  PROVE  Digested(l)'
<1> DEFINE a == at[l]
           p == <<at[l][1], at[l][2] + 1>>
<1>1. PICK H : Trail(l, H)
  BY DEF Digested
<1>2. H \in [Position -> Digests] /\ H[a] = acc[l] /\ a \in Position /\ acc'[l] \in Digests
  BY <1>1, ReachedAre DEF Trail, TypeOK, Digests
<1>3. PICK G \in [Position -> Digests] :
         G[p] = acc'[l] /\ \A q \in Position : Reached(q, a) => G[q] = H[q]
  <2> DEFINE d == acc'[l]
  <2>1. d \in Digests /\ Succeeds(p, a)
    BY <1>2 DEF Succeeds
  <2> HIDE DEF d, p, a
  <2>2. \E G \in [Position -> Digests] : G[p] = d /\ \A q \in Position : Reached(q, a) => G[q] = H[q]
    BY <1>2, <2>1, Extended
  <2>. QED  BY <2>2 DEF d
<1>4. a \in Places /\ \A c \in Places : Behind(c, p) <=> Behind(c, a) \/ c = a
  BY NextBehind
<1>5. G[a] = H[a]
  BY <1>2, <1>3 DEF Reached
<1>6. ASSUME NEW c \in Places, Behind(c, p)
      PROVE  G[<<c[1], c[2] + 1>>]
               = IF c \in Cases THEN Record(G[c], LineAt(c), answers'[l][c]) ELSE G[c]
  <2>1. CASE c = a
    BY <1>2, <1>3, <1>5, <2>1
  <2>2. CASE Behind(c, a)
    <3>1. G[c] = H[c] /\ G[<<c[1], c[2] + 1>>] = H[<<c[1], c[2] + 1>>]
      BY <1>3, <2>2, ReachedAre
    <3>2. H[<<c[1], c[2] + 1>>] = IF c \in Cases THEN Record(H[c], LineAt(c), answers[l][c]) ELSE H[c]
      BY <1>1, <2>2 DEF Trail
    <3>3. c \in Cases => answers'[l][c] = answers[l][c]
      BY <2>2
    <3>. QED  BY <3>1, <3>2, <3>3
  <2>. QED  BY <1>4, <1>6, <2>1, <2>2
<1>7. ASSUME NEW f \in DOMAIN Files, f < p[1]
      PROVE  G[<<f + 1, 1>>] = G[<<f, Len(LinesOf(f)) + 1>>]
  <2>1. f < at[l][1]
    BY <1>7
  <2>2. G[<<f + 1, 1>>] = H[<<f + 1, 1>>] /\ G[<<f, Len(LinesOf(f)) + 1>>] = H[<<f, Len(LinesOf(f)) + 1>>]
    BY <1>3, <2>1, ReachedAre
  <2>3. H[<<f + 1, 1>>] = H[<<f, Len(LinesOf(f)) + 1>>]
    BY <1>1, <2>1 DEF Trail
  <2>. QED  BY <2>2, <2>3
<1> HIDE DEF p
<1>8. at'[l] = p
  BY DEF p
<1>9. Trail(l, G)'
  <2>1. G \in [Position -> Digests] /\ G[at'[l]] = acc'[l]
    BY <1>3, <1>8
  <2>2. \A c \in Places' : Behind(c, at'[l]) =>
           G[<<c[1], c[2] + 1>>] = IF c \in Cases' THEN Record(G[c], LineAt(c)', answers'[l][c]) ELSE G[c]
    BY <1>6, <1>8, AllFixed
  <2>3. \A f \in DOMAIN Files' : f < at'[l][1] => G[<<f + 1, 1>>] = G[<<f, Len(LinesOf(f)') + 1>>]
    BY <1>7, <1>8, AllFixed
  <2>. QED  BY <2>1, <2>2, <2>3 DEF Trail
<1>. QED  BY <1>9 DEF Digested

LEMMA NextPlaced ==
  ASSUME TypeOK, NEW l \in Lane, Placed(l), bundle' = bundle, InFile(l),
         at'[l] = <<at[l][1], at[l][2] + 1>>, pc'[l] = "vectors", evidence'[l] = evidence[l]
  PROVE  Placed(l)'
<1>1. at[l][1] \in DOMAIN Files /\ at[l][2] \in DOMAIN LinesOf(at[l][1]) /\ LinesOf(at[l][1]) \in Seq(Line)
  BY FilesAre DEF InFile
<1>2. at'[l][1] = at[l][1] /\ at'[l][2] = at[l][2] + 1
  OBVIOUS
<1>3. at'[l][2] <= Len(LinesOf(at[l][1])) + 1
  BY <1>1, <1>2
<1>4. evidence'[l] = {}
  BY <1>1 DEF Placed
<1>. QED  BY <1>1, <1>2, <1>3, <1>4, AllFixed DEF Placed

LEMMA SkipDigested == ASSUME DInv, IInv', NEW l \in Lane, SkipLine(l) PROVE DInv'
<1>1. /\ pc[l] = "vectors" /\ InFile(l) /\ LineAt(at[l]).kind = "skip"
      /\ at' = [at EXCEPT ![l] = <<at[l][1], at[l][2] + 1>>]
      /\ UNCHANGED <<bundle, pc, count, acc, evidence, code, answers>>
  BY DEF SkipLine, NextLine
<1>2. TypeOK /\ TypeOK' /\ Placed(l) /\ Digested(l)
  BY DEF DInv, IInv
<1>3. at'[l] = <<at[l][1], at[l][2] + 1>> /\ \A k \in Lane \ {l} : Unmoved(k)
  BY <1>1, <1>2 DEF TypeOK, Unmoved
<1>4. at[l] \notin Cases
  BY <1>1 DEF Cases
<1>5. Digested(l)'
  BY <1>1, <1>2, <1>3, <1>4, LineDigested
<1>6. Placed(l)'
  BY <1>1, <1>2, <1>3, NextPlaced
<1>. QED  BY <1>1, <1>3, <1>5, <1>6, OneDigested

LEMMA CaseDigested == ASSUME DInv, IInv', NEW l \in Lane, RunCase(l) PROVE DInv'
<1> DEFINE d == DOMAIN answers[l] \cup {at[l]}
<1>1. PICK o \in Outcomes :
        /\ acc' = [acc EXCEPT ![l] = Record(acc[l], LineAt(at[l]), o)]
        /\ answers' = [answers EXCEPT ![l] = [c \in d |-> IF c = at[l] THEN o ELSE answers[l][c]]]
  BY DEF RunCase
<1>2. /\ pc[l] = "vectors" /\ InFile(l) /\ LineAt(at[l]).kind = "case"
      /\ at' = [at EXCEPT ![l] = <<at[l][1], at[l][2] + 1>>]
      /\ UNCHANGED <<bundle, pc, evidence, code>>
  BY DEF RunCase, NextLine
<1>3. TypeOK /\ TypeOK' /\ Placed(l) /\ Digested(l) /\ Answered(l)
  BY <1>2 DEF DInv, IInv, LaneInv, Stage
<1>4. at'[l] = <<at[l][1], at[l][2] + 1>> /\ \A k \in Lane \ {l} : Unmoved(k)
  BY <1>1, <1>2, <1>3 DEF TypeOK, Unmoved, RunCase
<1>5. at[l] \in Cases /\ at[l] \in Places /\ ~Behind(at[l], at[l])
  BY <1>2, <1>3, NextBehind DEF Cases
<1>6. answers'[l] = [c \in d |-> IF c = at[l] THEN o ELSE answers[l][c]]
  BY <1>1, <1>3 DEF TypeOK
<1>7. answers'[l][at[l]] = o
  BY <1>6
<1>8. acc'[l] = Record(acc[l], LineAt(at[l]), answers'[l][at[l]])
  BY <1>1, <1>3, <1>7 DEF TypeOK
<1>9. \A c \in Places : Behind(c, at[l]) /\ c \in Cases => answers'[l][c] = answers[l][c]
  BY <1>3, <1>5, <1>6 DEF Answered
<1>10. Digested(l)'
  BY <1>2, <1>3, <1>4, <1>5, <1>8, <1>9, LineDigested
<1>11. Placed(l)'
  BY <1>2, <1>3, <1>4, NextPlaced
<1>. QED  BY <1>2, <1>4, <1>10, <1>11, OneDigested

LEMMA FileDigested == ASSUME DInv, IInv', NEW l \in Lane, EndOfFile(l) PROVE DInv'
<1> DEFINE a == at[l]
           p == <<at[l][1] + 1, 1>>
<1>1. /\ pc[l] = "vectors" /\ at[l][1] \in DOMAIN Files /\ ~InFile(l)
      /\ at' = [at EXCEPT ![l] = p]
      /\ UNCHANGED <<bundle, pc, count, acc, evidence, code, answers>>
  BY DEF EndOfFile
<1>2. TypeOK /\ TypeOK' /\ Placed(l) /\ Digested(l)
  BY DEF DInv, IInv
<1>3. at'[l] = p /\ acc'[l] = acc[l] /\ \A k \in Lane \ {l} : Unmoved(k)
  BY <1>1, <1>2 DEF TypeOK, Unmoved
<1>4. a = <<a[1], a[2]>> /\ a[1] \in Nat \ {0} /\ a[2] \in Nat \ {0} /\ p[1] = a[1] + 1 /\ p[2] = 1
  BY <1>2 DEF TypeOK
<1>5. Files \in Seq(Names) /\ LinesOf(a[1]) \in Seq(Line) /\ Len(LinesOf(a[1])) \in Nat
  BY <1>1, <1>2, FilesAre
<1>6. a = <<a[1], Len(LinesOf(a[1])) + 1>>
  <2>1. a[2] <= Len(LinesOf(a[1])) + 1
    BY <1>1, <1>2 DEF Placed
  <2>2. a[2] \notin DOMAIN LinesOf(a[1])
    BY <1>1 DEF InFile
  <2>3. DOMAIN LinesOf(a[1]) = 1..Len(LinesOf(a[1]))
    BY <1>5
  <2>4. a[2] = Len(LinesOf(a[1])) + 1
    BY <1>4, <1>5, <2>1, <2>2, <2>3
  <2>. QED  BY <1>4, <2>4
<1>7. Placed(l)'
  <2>1. p[1] \in DOMAIN Files => p[2] <= Len(LinesOf(p[1])) + 1
    <3> SUFFICES ASSUME p[1] \in DOMAIN Files PROVE p[2] <= Len(LinesOf(p[1])) + 1
      OBVIOUS
    <3>1. LinesOf(p[1]) \in Seq(Line)
      BY <1>2, FilesAre
    <3>2. Len(LinesOf(p[1])) \in Nat
      BY <3>1
    <3>. QED  BY <1>4, <3>2
  <2>2. p[1] \notin DOMAIN Files => p = <<Len(Files) + 1, 1>>
    <3>1. DOMAIN Files = 1..Len(Files) /\ Len(Files) \in Nat
      BY <1>5
    <3>. QED  BY <1>1, <1>4, <3>1
  <2>3. pc'[l] = "vectors" /\ evidence'[l] = {}
    <3>1. a[1] \in DOMAIN Files
      BY <1>1
    <3>. QED  BY <1>1, <1>2, <3>1 DEF Placed
  <2> HIDE DEF p
  <2>. QED  BY <1>1, <1>3, <2>1, <2>2, <2>3, AllFixed DEF Placed
<1>8. PICK H : Trail(l, H)
  BY <1>2 DEF Digested
<1>9. H \in [Position -> Digests] /\ H[a] = acc[l] /\ a \in Position /\ acc[l] \in Digests
  BY <1>2, <1>8, ReachedAre DEF Trail, TypeOK, Digests
<1>10. PICK G \in [Position -> Digests] :
         G[p] = acc[l] /\ \A q \in Position : Reached(q, a) => G[q] = H[q]
  <2> DEFINE d == acc[l]
  <2>1. d \in Digests /\ Succeeds(p, a)
    BY <1>9 DEF Succeeds
  <2> HIDE DEF d, p, a
  <2>2. \E G \in [Position -> Digests] : G[p] = d /\ \A q \in Position : Reached(q, a) => G[q] = H[q]
    BY <1>9, <2>1, Extended
  <2>. QED  BY <2>2 DEF d
<1>11. G[a] = acc[l]
  BY <1>9, <1>10 DEF Reached
<1>12. ASSUME NEW c \in Places, Behind(c, p)
       PROVE  G[<<c[1], c[2] + 1>>]
                = IF c \in Cases THEN Record(G[c], LineAt(c), answers[l][c]) ELSE G[c]
  <2>1. Behind(c, a)
    <3>1. c[1] \in DOMAIN Files /\ c[2] \in DOMAIN LinesOf(c[1]) /\ c[1] \in Nat /\ c[2] \in Nat
      BY <1>2, PlacesAre
    <3>2. c[1] <= a[1]
      <4>1. c[1] < p[1] \/ (c[1] = p[1] /\ c[2] < p[2])
        BY <1>12 DEF Behind
      <4>2. p[1] = a[1] + 1 /\ p[2] = 1 /\ a[1] \in Nat /\ c[2] \in Nat \ {0}
        BY <1>2, <1>4, PlacesAre
      <4> HIDE DEF p, a
      <4>. QED  BY <3>1, <4>1, <4>2
    <3>3. c[1] = a[1] => c[2] < a[2]
      <4>1. a[2] = Len(LinesOf(a[1])) + 1
        BY <1>6
      <4>. QED  BY <1>5, <3>1, <4>1
    <3>. QED  BY <1>4, <3>1, <3>2, <3>3 DEF Behind
  <2>2. G[c] = H[c] /\ G[<<c[1], c[2] + 1>>] = H[<<c[1], c[2] + 1>>]
    BY <1>2, <1>10, <2>1, ReachedAre
  <2>3. H[<<c[1], c[2] + 1>>] = IF c \in Cases THEN Record(H[c], LineAt(c), answers[l][c]) ELSE H[c]
    BY <1>8, <2>1 DEF Trail
  <2>. QED  BY <2>2, <2>3
<1>13. ASSUME NEW f \in DOMAIN Files, f < p[1]
       PROVE  G[<<f + 1, 1>>] = G[<<f, Len(LinesOf(f)) + 1>>]
  <2>1. CASE f = a[1]
    BY <1>6, <1>10, <1>11, <2>1
  <2>2. CASE f < a[1]
    <3>1. G[<<f + 1, 1>>] = H[<<f + 1, 1>>] /\ G[<<f, Len(LinesOf(f)) + 1>>] = H[<<f, Len(LinesOf(f)) + 1>>]
      BY <1>2, <1>10, <2>2, ReachedAre
    <3>2. H[<<f + 1, 1>>] = H[<<f, Len(LinesOf(f)) + 1>>]
      BY <1>8, <2>2 DEF Trail
    <3>. QED  BY <3>1, <3>2
  <2>3. f \in Nat
    BY <1>5
  <2>. QED  BY <1>4, <1>13, <2>1, <2>2, <2>3
<1> HIDE DEF p
<1>14. Digested(l)'
  <2>1. G \in [Position -> Digests] /\ G[at'[l]] = acc'[l]
    BY <1>3, <1>10
  <2>2. \A c \in Places' : Behind(c, at'[l]) =>
           G[<<c[1], c[2] + 1>>] = IF c \in Cases' THEN Record(G[c], LineAt(c)', answers'[l][c]) ELSE G[c]
    BY <1>1, <1>3, <1>12, AllFixed
  <2>3. \A f \in DOMAIN Files' : f < at'[l][1] => G[<<f + 1, 1>>] = G[<<f, Len(LinesOf(f)') + 1>>]
    BY <1>1, <1>3, <1>13, AllFixed
  <2>4. Trail(l, G)'
    BY <2>1, <2>2, <2>3 DEF Trail
  <2>. QED  BY <2>4 DEF Digested
<1>. QED  BY <1>1, <1>3, <1>7, <1>14, OneDigested

LEMMA DigestedKept == DInv /\ [Next]_vars => DInv'
<1> SUFFICES ASSUME DInv, [Next]_vars PROVE DInv'
  OBVIOUS
<1>1. IInv'
  BY Inductive DEF DInv
<1>2. CASE UNCHANGED vars
  <2> SUFFICES ASSUME NEW k \in Lane PROVE Placed(k)' /\ Digested(k)'
    BY <1>1 DEF DInv
  <2>1. Placed(k) /\ Digested(k) /\ bundle' = bundle /\ Unmoved(k)
    BY <1>2 DEF DInv, vars, Unmoved
  <2>2. pc[k] \in {"env", "write", "ok"} \/ evidence[k] # {} => at[k][1] \notin DOMAIN Files
    BY <2>1 DEF Placed
  <2>. QED  BY <2>1, <2>2, StillPlaced, StillDigested DEF Unmoved
<1>3. ASSUME NEW l \in Lane, SkipLine(l) PROVE DInv'
  BY <1>1, <1>3, SkipDigested
<1>4. ASSUME NEW l \in Lane, RunCase(l) PROVE DInv'
  BY <1>1, <1>4, CaseDigested
<1>5. ASSUME NEW l \in Lane, EndOfFile(l) PROVE DInv'
  BY <1>1, <1>5, FileDigested
<1>6. ASSUME NEW l \in Lane,
             Extract(l) \/ Verify(l) \/ EndOfVectors(l) \/ SameInVariedEnvironment(l)
               \/ WriteEvidence(l) \/ SayOk(l) \/ Fail(l) \/ Kill(l)
      PROVE  DInv'
  BY <1>1, <1>6, QuietStep
<1>. QED  BY <1>2, <1>3, <1>4, <1>5, <1>6 DEF Next

(* What holds at the end of a stretch of numbers and passes down it.       *)
LEMMA Downward ==
  ASSUME NEW n \in Nat \ {0}, NEW D, n \in D, \A i \in 1..n : i + 1 \in D /\ i + 1 <= n => i \in D
  PROVE  \A i \in 1..n : i \in D
<1> DEFINE T == {k \in Nat : k < n /\ n - k \notin D}
<1> SUFFICES ASSUME T # {} PROVE FALSE
  <2>1. ASSUME NEW i \in 1..n, i \notin D PROVE n - i \in T
    <3>1. n - (n - i) = i /\ n - i \in Nat /\ n - i < n
      OBVIOUS
    <3>. QED  BY <2>1, <3>1
  <2>. QED  BY <2>1
<1>1. T \subseteq Nat
  OBVIOUS
<1>2. PICK k \in T : \A j \in T : ~(<<j, k>> \in OpToRel(<, Nat))
  <2> HIDE DEF T
  <2>. QED  BY <1>1, NatLessThanWellFounded, WFMin
<1>3. OpToRel(<, Nat) = {ss \in Nat \X Nat : ss[1] < ss[2]}
  BY DEF OpToRel
<1>4. k \in Nat /\ k < n /\ n - k \notin D /\ k # 0
  OBVIOUS
<1>5. k - 1 \in T
  <2>1. (n - k) + 1 \notin D
    BY <1>4
  <2>2. n - (k - 1) = (n - k) + 1 /\ k - 1 \in Nat /\ k - 1 < n
    BY <1>4
  <2>. QED  BY <2>1, <2>2
<1>6. <<k - 1, k>> \in OpToRel(<, Nat)
  <2>1. k - 1 \in Nat /\ k - 1 < k
    BY <1>4, <1>5
  <2>. QED  BY <1>3, <1>4, <2>1
<1> HIDE DEF T
<1>. QED  BY <1>2, <1>5, <1>6

(* Two replays that have been through all the files.                       *)
Through(l) == at[l] = <<Len(Files) + 1, 1>>

LEMMA LineIs == ASSUME TypeOK, NEW c \in Places PROVE LineAt(c) \in Line
<1>1. c[1] \in DOMAIN Files /\ c[2] \in DOMAIN LinesOf(c[1])
  BY PlacesAre
<1>. QED  BY <1>1, FilesAre DEF LineAt

LEMMA AllBehind ==
  ASSUME TypeOK, NEW l \in Lane, Through(l)
  PROVE  /\ \A c \in Places : Behind(c, at[l])
         /\ \A f \in DOMAIN Files : f < at[l][1]
<1>1. at[l][1] = Len(Files) + 1 /\ Len(Files) \in Nat /\ DOMAIN Files = 1..Len(Files)
  BY FilesAre DEF Through
<1>2. \A f \in DOMAIN Files : f < at[l][1]
  BY <1>1
<1>. QED  BY <1>2, PlacesAre DEF Behind

(* Where the digests of two replays agree after a line they agreed before  *)
(* it, and so did the answers to it.                                       *)
LEMMA LineBack ==
  ASSUME IInv, NEW k \in Lane, NEW l \in Lane, Through(k), Through(l), Complete(k), Complete(l),
         NEW H, NEW G, Trail(k, H), Trail(l, G), NEW c \in Places,
         H[<<c[1], c[2] + 1>>] = G[<<c[1], c[2] + 1>>]
  PROVE  H[c] = G[c] /\ (c \in Cases => SameAnswer(LineAt(c), answers[k][c], answers[l][c]))
<1>1. TypeOK /\ Behind(c, at[k]) /\ Behind(c, at[l]) /\ LineAt(c) \in Line
  BY AllBehind, LineIs DEF IInv
<1>2. /\ H[<<c[1], c[2] + 1>>] = IF c \in Cases THEN Record(H[c], LineAt(c), answers[k][c]) ELSE H[c]
      /\ G[<<c[1], c[2] + 1>>] = IF c \in Cases THEN Record(G[c], LineAt(c), answers[l][c]) ELSE G[c]
  BY <1>1 DEF Trail
<1>3. H[c] \in Digests /\ G[c] \in Digests
  BY <1>1, ReachedAre DEF Trail
<1>4. CASE c \notin Cases
  BY <1>2, <1>4
<1>5. CASE c \in Cases
  <2>1. answers[k][c] \in Outcomes /\ answers[l][c] \in Outcomes
    BY <1>1, <1>5 DEF TypeOK, Complete
  <2>2. Record(H[c], LineAt(c), answers[k][c]) = Record(G[c], LineAt(c), answers[l][c])
    BY <1>2, <1>5
  <2>. QED  BY <1>1, <1>3, <2>1, <2>2, RecordInjective
<1>. QED  BY <1>4, <1>5

LEMMA FileBack ==
  ASSUME IInv, NEW k \in Lane, NEW l \in Lane, Through(k), Through(l), Complete(k), Complete(l),
         NEW H, NEW G, Trail(k, H), Trail(l, G), NEW f \in DOMAIN Files,
         H[<<f, Len(LinesOf(f)) + 1>>] = G[<<f, Len(LinesOf(f)) + 1>>]
  PROVE  \A i \in 1..(Len(LinesOf(f)) + 1) : H[<<f, i>>] = G[<<f, i>>]
<1> DEFINE n == Len(LinesOf(f)) + 1
           D == {i \in Nat : H[<<f, i>>] = G[<<f, i>>]}
<1>1. n \in Nat \ {0} /\ DOMAIN LinesOf(f) = 1..(n - 1)
  BY FilesAre DEF IInv
<1>2. n \in D
  BY <1>1
<1>3. ASSUME NEW i \in 1..n, i + 1 \in D, i + 1 <= n PROVE i \in D
  <2>1. i \in DOMAIN LinesOf(f) /\ i \in Nat
    BY <1>1, <1>3
  <2> DEFINE c == <<f, i>>
  <2>2. c \in Places /\ c[1] = f /\ c[2] = i
    BY <2>1, PlacesAre DEF IInv
  <2>3. H[<<c[1], c[2] + 1>>] = G[<<c[1], c[2] + 1>>]
    BY <1>3, <2>2
  <2> HIDE DEF c
  <2>4. H[c] = G[c]
    BY <2>2, <2>3, LineBack
  <2>. QED  BY <2>1, <2>4 DEF c
<1> HIDE DEF n, D
<1>4. \A i \in 1..n : i \in D
  BY <1>1, <1>2, <1>3, Downward
<1>. QED  BY <1>4 DEF n, D

LEMMA FilesBack ==
  ASSUME IInv, NEW k \in Lane, NEW l \in Lane, Through(k), Through(l), Complete(k), Complete(l),
         NEW H, NEW G, Trail(k, H), Trail(l, G), acc[k] = acc[l], NEW g \in 1..(Len(Files) + 1)
  PROVE  H[<<g, 1>>] = G[<<g, 1>>]
<1> DEFINE n == Len(Files) + 1
           D == {f \in Nat : H[<<f, 1>>] = G[<<f, 1>>]}
<1>1. n \in Nat \ {0} /\ DOMAIN Files = 1..(n - 1)
  BY FilesAre DEF IInv
<1>2. n \in D
  BY <1>1 DEF Trail, Through
<1>3. ASSUME NEW f \in 1..n, f + 1 \in D, f + 1 <= n PROVE f \in D
  <2>1. f \in DOMAIN Files /\ f \in Nat
    BY <1>1, <1>3
  <2>2. f < at[k][1] /\ f < at[l][1]
    BY <2>1, AllBehind DEF IInv
  <2>3. H[<<f + 1, 1>>] = H[<<f, Len(LinesOf(f)) + 1>>] /\ G[<<f + 1, 1>>] = G[<<f, Len(LinesOf(f)) + 1>>]
    BY <2>1, <2>2 DEF Trail
  <2>4. H[<<f, Len(LinesOf(f)) + 1>>] = G[<<f, Len(LinesOf(f)) + 1>>]
    BY <1>3, <2>3
  <2>5. \A i \in 1..(Len(LinesOf(f)) + 1) : H[<<f, i>>] = G[<<f, i>>]
    BY <2>1, <2>4, FileBack
  <2>6. 1 \in 1..(Len(LinesOf(f)) + 1)
    BY <2>1, FilesAre DEF IInv
  <2>7. H[<<f, 1>>] = G[<<f, 1>>]
    BY <2>5, <2>6
  <2>. QED  BY <2>1, <2>7
<1> HIDE DEF n, D
<1>4. \A f \in 1..n : f \in D
  BY <1>1, <1>2, <1>3, Downward
<1>. QED  BY <1>4 DEF n, D

LEMMA DigestsTell == DInv => AgreementIsSameness
<1> SUFFICES ASSUME DInv, NEW k \in Lane, NEW l \in Lane,
                    NEW x \in evidence[k], NEW y \in evidence[l], x.digests = y.digests,
                    NEW c \in Cases
             PROVE  SameAnswer(LineAt(c), answers[k][c], answers[l][c])
  BY DEF AgreementIsSameness
<1>1. IInv /\ TypeOK /\ evidence[k] # {} /\ evidence[l] # {}
  BY DEF DInv, IInv
<1>2. Complete(k) /\ Complete(l)
  BY <1>1 DEF IInv, LaneInv, Filed
<1>3. Through(k) /\ Through(l)
  BY <1>1 DEF DInv, Placed, Through
<1>4. acc[k] = acc[l]
  <2>1. x \in [cases : Nat, digests : {acc[k]}] /\ y \in [cases : Nat, digests : {acc[l]}]
    BY <1>1 DEF TypeOK
  <2>. QED  BY <2>1
<1>5. PICK H, G : Trail(k, H) /\ Trail(l, G)
  BY DEF DInv, Digested
<1>6. c \in Places /\ c[1] \in DOMAIN Files /\ c[2] \in DOMAIN LinesOf(c[1])
  BY <1>1, PlacesAre DEF Cases
<1> DEFINE f == c[1]
           n == Len(LinesOf(c[1])) + 1
<1>7. f \in DOMAIN Files /\ f + 1 \in 1..(Len(Files) + 1)
  BY <1>1, <1>6, FilesAre
<1>8. H[<<f + 1, 1>>] = G[<<f + 1, 1>>]
  <2> DEFINE g == f + 1
  <2>1. g \in 1..(Len(Files) + 1)
    BY <1>7
  <2> HIDE DEF g, f
  <2>2. H[<<g, 1>>] = G[<<g, 1>>]
    BY <1>1, <1>2, <1>3, <1>4, <1>5, <2>1, FilesBack
  <2>. QED  BY <2>2 DEF g
<1>9. H[<<f + 1, 1>>] = H[<<f, n>>] /\ G[<<f + 1, 1>>] = G[<<f, n>>]
  <2>1. f < at[k][1] /\ f < at[l][1]
    BY <1>1, <1>3, <1>7, AllBehind
  <2>. QED  BY <1>5, <1>7, <2>1 DEF Trail
<1>10. \A i \in 1..n : H[<<f, i>>] = G[<<f, i>>]
  <2>1. H[<<f, n>>] = G[<<f, n>>]
    BY <1>8, <1>9
  <2>. QED  BY <1>1, <1>2, <1>3, <1>5, <1>7, <2>1, FileBack
<1>11. c[2] + 1 \in 1..n
  BY <1>1, <1>6, FilesAre
<1>12. H[<<c[1], c[2] + 1>>] = G[<<c[1], c[2] + 1>>]
  BY <1>10, <1>11
<1>. QED  BY <1>1, <1>2, <1>3, <1>5, <1>6, <1>12, LineBack

(* Two replays whose evidence carries the same digests answered every case *)
(* alike, as far as the digests go, although no entry of a digest is       *)
(* escaped: the parts of an entry can be found again from its end          *)
(* (digestAccumulator.Add and recordDigests).                              *)
THEOREM AgreementMeansSame == Spec => []AgreementIsSameness
<1>1. Spec => []DInv
  BY DigestedFirst, DigestedKept, PTL DEF Spec
<1>. QED  BY <1>1, DigestsTell, PTL
=============================================================================
