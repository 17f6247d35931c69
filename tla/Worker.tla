------------------------------- MODULE Worker -------------------------------
(***************************************************************************)
(* The offline worker (cmd/jcs-offline-worker), one process for each       *)
(* replay of a bundle: it extracts and verifies the bundle, runs the tool  *)
(* on every case of every vector file, compares the answers with what the  *)
(* vectors want, and digests them into evidence.  The replays of a bundle  *)
(* run one after the other, as RunMatrix starts them.                      *)
(*                                                                         *)
(* Text is a sequence of symbols: "us" is the byte 1F that separates the   *)
(* parts of a digested entry and "nl" the one that ends it.  A digest      *)
(* stands for the text it is taken of.                                     *)
(***************************************************************************)
EXTENDS Bundle, FiniteSets

CONSTANTS Bundles,        \* the bundles a replay may be given
          Lines(_),       \* the lines of a vector file with this content
          Outcomes,       \* what the tool may answer to a case
          Ids,            \* the ids of cases
          Symbol,         \* what text is made of
          Classes,        \* the failure classes, in the order they are tried
          Replays         \* the number of replays

Text == Seq(Symbol)
Occurs(symbol, text) == \E i \in DOMAIN text : text[i] = symbol

Exit == {"0", "2", "10"}

(* the exit code Go reports of a process that a signal killed, here at the *)
(* limit of 20 s on a case                                                 *)
Killed == "-1"

Outcome == [exit : Exit \cup {Killed}, stdout : Text, stderr : Text]

(* A line of a vector file is blank or a comment, cannot be decoded or has *)
(* no mode, is longer than the scanner allows, or is a case.  What a case  *)
(* does not pin is the empty set.                                          *)
Line == [kind : {"skip", "bad", "long", "case"}, id : Ids, mode : {"canonicalize", "verify", "other"},
         exit : Exit, stdout : SUBSET Text, stderr : SUBSET Text, has : SUBSET Symbol]

ASSUME BundlesAssumption  == Bundles \subseteq Bundle
ASSUME LinesAssumption    == \A c \in Content \cup {0} : Lines(c) \in Seq(Line)
ASSUME OutcomesAssumption == Outcomes \subseteq Outcome
ASSUME SymbolsAssumption  == Ids \cup Exit \cup {Killed, "OK", "UNKNOWN"} \subseteq Symbol
                             /\ {"us", "nl"} \subseteq Symbol
ASSUME ClassesAssumption  == Classes \in Seq(Symbol)
ASSUME ReplaysAssumption  == Replays \in Nat

(* No answer holds the byte 1F: canonical text escapes it, and a message   *)
(* repeats arguments only, in which the vector files have none.  Ends of   *)
(* line an answer may hold.                                                *)
ASSUME SeparatorAssumption == \A o \in Outcomes : ~Occurs("us", o.stdout) /\ ~Occurs("us", o.stderr)

VARIABLES bundle,
          pc, at,         \* of each replay: where it is, in which file and line
          count,          \* the cases it has executed
          acc,            \* its four digests
          evidence,       \* its evidence file: {} or the evidence written
          code,           \* "none", then its exit code or "killed"
          answers         \* what the tool answered to it, by case

vars == <<bundle, pc, at, count, acc, evidence, code, answers>>

Lane == 1..Replays

-----------------------------------------------------------------------------
(* the vector files in the order they are run, their lines and their cases *)
Files        == bundle.vectors
LinesOf(f)   == Lines(bundle.file[Files[f]])
LineAt(c)    == LinesOf(c[1])[c[2]]
Places       == UNION {{f} \X DOMAIN LinesOf(f) : f \in DOMAIN Files}
Cases        == {c \in Places : LineAt(c).kind = "case"}

(* assertVectorResult *)
Accepts(line, o) ==
  /\ o.exit = line.exit
  /\ line.stdout # {} => o.stdout \in line.stdout
  /\ line.stderr # {} => o.stderr \in line.stderr
  /\ \A token \in line.has : Occurs(token, o.stderr)

(* extractFailureClass: the first class of the list that occurs *)
ClassOf(o) ==
  IF o.exit = "0" THEN "OK"
  ELSE IF \E i \in DOMAIN Classes : Occurs(Classes[i], o.stderr)
       THEN Classes[CHOOSE i \in DOMAIN Classes :
                      /\ Occurs(Classes[i], o.stderr)
                      /\ \A j \in DOMAIN Classes : Occurs(Classes[j], o.stderr) => i <= j]
       ELSE "UNKNOWN"

(* Fault: the parts of an entry are run together. *)
PartBare(text) == text

(* digestAccumulator.Add: the separator before each part but the first,    *)
(* and the end of the entry.  Nothing is escaped.                          *)
Part(text)         == <<"us">> \o text
Add(stream, entry) == stream \o entry \o <<"nl">>

(* recordDigests *)
Record(a, line, o) ==
  [exit      |-> Add(a.exit, <<line.id>> \o Part(<<o.exit>>)),
   canonical |-> IF line.mode = "canonicalize"
                 THEN Add(a.canonical, <<line.id>> \o Part(o.stdout)) ELSE a.canonical,
   verify    |-> IF line.mode = "verify"
                 THEN Add(a.verify, <<line.id>> \o Part(<<o.exit>>) \o Part(o.stdout) \o Part(o.stderr))
                 ELSE a.verify,
   class     |-> Add(a.class, <<line.id>> \o Part(<<ClassOf(o)>>))]

Nothing == [canonical |-> << >>, verify |-> << >>, class |-> << >>, exit |-> << >>]

-----------------------------------------------------------------------------
Goto(l, next) == pc' = [pc EXCEPT ![l] = next]

(* extractBundle, of a replay whose predecessors are over *)
Extract(l) ==
  /\ pc[l] = "start"
  /\ \A k \in Lane : k < l => code[k] # "none"
  /\ bundle.whole
  /\ Goto(l, "verify")
  /\ UNCHANGED <<bundle, at, count, acc, evidence, code, answers>>

(* verifyExtractedBundle *)
Verify(l) ==
  /\ pc[l] = "verify"
  /\ VerifyExtracted(bundle)
  /\ Goto(l, "vectors")
  /\ UNCHANGED <<bundle, at, count, acc, evidence, code, answers>>

InFile(l) == at[l][1] \in DOMAIN Files /\ at[l][2] \in DOMAIN LinesOf(at[l][1])
NextLine(l) == at' = [at EXCEPT ![l] = <<@[1], @[2] + 1>>]

SkipLine(l) ==
  /\ pc[l] = "vectors"
  /\ InFile(l) /\ LineAt(at[l]).kind = "skip"
  /\ NextLine(l)
  /\ UNCHANGED <<bundle, pc, count, acc, evidence, code, answers>>

(* processVectorLine: the tool is run and its answer is the wanted one *)
RunCase(l) ==
  /\ pc[l] = "vectors"
  /\ InFile(l) /\ LineAt(at[l]).kind = "case"
  /\ \E o \in Outcomes :
       /\ Accepts(LineAt(at[l]), o)
       /\ acc' = [acc EXCEPT ![l] = Record(@, LineAt(at[l]), o)]
       /\ answers' = [answers EXCEPT ![l] = [c \in DOMAIN @ \cup {at[l]} |->
                                               IF c = at[l] THEN o ELSE @[c]]]
  /\ count' = [count EXCEPT ![l] = @ + 1]
  /\ NextLine(l)
  /\ UNCHANGED <<bundle, pc, evidence, code>>

(* Fault: a line that is too long ends the file, and no one looks why. *)
EndOfFileUnchecked(l) ==
  /\ pc[l] = "vectors"
  /\ at[l][1] \in DOMAIN Files /\ (InFile(l) => LineAt(at[l]).kind = "long")
  /\ at' = [at EXCEPT ![l] = <<@[1] + 1, 1>>]
  /\ UNCHANGED <<bundle, pc, count, acc, evidence, code, answers>>

(* Fault: the lines of the next file are counted from zero. *)
EndOfFileFromZero(l) ==
  /\ pc[l] = "vectors"
  /\ at[l][1] \in DOMAIN Files /\ ~InFile(l)
  /\ at' = [at EXCEPT ![l] = <<@[1] + 1, 0>>]
  /\ UNCHANGED <<bundle, pc, count, acc, evidence, code, answers>>

(* the end of runVectorFile, where the scanner reports no error *)
EndOfFile(l) ==
  /\ pc[l] = "vectors"
  /\ at[l][1] \in DOMAIN Files /\ ~InFile(l)
  /\ at' = [at EXCEPT ![l] = <<@[1] + 1, 1>>]
  /\ UNCHANGED <<bundle, pc, count, acc, evidence, code, answers>>

(* the end of runVectors: a bundle without a case fails *)
EndOfVectors(l) ==
  /\ pc[l] = "vectors"
  /\ at[l][1] \notin DOMAIN Files
  /\ count[l] > 0
  /\ Goto(l, "env")
  /\ UNCHANGED <<bundle, at, count, acc, evidence, code, answers>>

(* checkEnvironmentIndependence: the tool answers one input alike with and *)
(* without the variables; two runs that are killed alike pass as well      *)
SameInVariedEnvironment(l) ==
  /\ pc[l] = "env"
  /\ Goto(l, "write")
  /\ UNCHANGED <<bundle, at, count, acc, evidence, code, answers>>

WriteEvidence(l) ==
  /\ pc[l] = "write"
  /\ evidence' = [evidence EXCEPT ![l] = {[cases |-> count[l], digests |-> acc[l]]}]
  /\ Goto(l, "ok")
  /\ UNCHANGED <<bundle, at, count, acc, code, answers>>

(* the line on standard output, and exit code 0 *)
SayOk(l) ==
  /\ pc[l] = "ok"
  /\ code' = [code EXCEPT ![l] = "0"]
  /\ Goto(l, "done")
  /\ UNCHANGED <<bundle, at, count, acc, evidence, answers>>

(* Any step may fail, on what it finds or for want of a resource, and any  *)
(* may be killed.  Evidence that has been written stays.                   *)
Fail(l) ==
  /\ pc[l] # "done"
  /\ \A k \in Lane : k < l => code[k] # "none"
  /\ code' = [code EXCEPT ![l] = "2"]
  /\ Goto(l, "done")
  /\ UNCHANGED <<bundle, at, count, acc, evidence, answers>>

Kill(l) ==
  /\ pc[l] # "done"
  /\ \A k \in Lane : k < l => code[k] # "none"
  /\ code' = [code EXCEPT ![l] = "killed"]
  /\ Goto(l, "done")
  /\ UNCHANGED <<bundle, at, count, acc, evidence, answers>>

-----------------------------------------------------------------------------
(* The controller has admitted the bundle before it starts a worker. *)
Init ==
  /\ bundle \in {b \in Bundles : VerifyBundle(b)}
  /\ pc = [l \in Lane |-> "start"]
  /\ at = [l \in Lane |-> <<1, 1>>]
  /\ count = [l \in Lane |-> 0]
  /\ acc = [l \in Lane |-> Nothing]
  /\ evidence = [l \in Lane |-> {}]
  /\ code = [l \in Lane |-> "none"]
  /\ answers = [l \in Lane |-> << >>]

Next == \E l \in Lane : \/ Extract(l) \/ Verify(l) \/ SkipLine(l) \/ RunCase(l)
                        \/ EndOfFile(l) \/ EndOfVectors(l) \/ SameInVariedEnvironment(l)
                        \/ WriteEvidence(l) \/ SayOk(l) \/ Fail(l) \/ Kill(l)

Spec == Init /\ [][Next]_vars

-----------------------------------------------------------------------------
TypeOK ==
  /\ bundle \in Bundles
  /\ pc \in [Lane -> {"start", "verify", "vectors", "env", "write", "ok", "done"}]
  /\ at \in [Lane -> (Nat \ {0}) \X (Nat \ {0})]
  /\ count \in [Lane -> Nat]
  /\ acc \in [Lane -> [{"canonical", "verify", "class", "exit"} -> Text]]
  /\ DOMAIN evidence = Lane
  /\ \A l \in Lane : evidence[l] \subseteq [cases : Nat, digests : {acc[l]}]
  /\ code \in [Lane -> {"none", "0", "2", "killed"}]
  /\ DOMAIN answers = Lane
  /\ \A l \in Lane : \A c \in DOMAIN answers[l] : answers[l][c] \in Outcomes

(* Evidence that has been written says "passed" (Passed is the constant    *)
(* true), and it says so rightly, whatever the exit code of the worker:    *)
(* all that was run is what the manifest lists, every line of every vector *)
(* file was understood, every case answered as wanted within its time, the *)
(* number of cases is right and not zero.                                  *)
Understood    == \A c \in Places : LineAt(c).kind \in {"skip", "case"}
AllAnswered(l) ==
  /\ DOMAIN answers[l] = Cases
  /\ \A c \in Cases : /\ Accepts(LineAt(c), answers[l][c])
                      /\ answers[l][c].exit # Killed
PassedMeansPassed ==
  \A l \in Lane :
    /\ \A e \in evidence[l] :
         /\ bundle.whole /\ VerifyExtracted(bundle)
         /\ Understood /\ AllAnswered(l)
         /\ e.cases = Cardinality(Cases) /\ e.cases > 0
    /\ code[l] = "0" => evidence[l] # {}

(* Two replays of a bundle whose digests agree answered every case alike,  *)
(* as far as the digests go: in exit code and failure class, in what       *)
(* canonicalize wrote to standard output, in all that verify wrote.  The   *)
(* parts of an entry are joined without escaping, and the text of a case   *)
(* may hold the end of an entry.                                           *)
SameAnswer(line, o1, o2) ==
  /\ o1.exit = o2.exit /\ ClassOf(o1) = ClassOf(o2)
  /\ line.mode \in {"canonicalize", "verify"} => o1.stdout = o2.stdout
  /\ line.mode = "verify" => o1.stderr = o2.stderr

AgreementIsSameness ==
  \A k, l \in Lane :
    \A e1 \in evidence[k], e2 \in evidence[l] :
      e1.digests = e2.digests => \A c \in Cases : SameAnswer(LineAt(c), answers[k][c], answers[l][c])
=============================================================================
