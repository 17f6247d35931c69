------------------------------- MODULE Suite -------------------------------
(***************************************************************************)
(* jcs-offline-replay run-suite (runSuite of offline_harness.go with the   *)
(* commands of main.go that it calls): build, preflight, prepare, run,     *)
(* verify-evidence, report, audit, release gate, checksums, index.  Every  *)
(* invocation writes into one output directory, which may be left from an  *)
(* earlier one that failed or was killed, or be shared with one that still *)
(* runs: the default name has a resolution of one second and an existing   *)
(* directory is accepted.  Meanwhile someone may edit the source tree,     *)
(* commit it, or edit the matrix and the profile, which are one file here, *)
(* because they are always read one right after the other.                 *)
(*                                                                         *)
(* A file is the set of what can be read from it, empty before it exists.  *)
(* A digest stands for the content it was taken of.  Every invocation      *)
(* truncates a file and goes on writing the same file even when another    *)
(* has truncated it since: what is not whole was broken off, or has the    *)
(* bytes of several invocations.  All that one of them writes so late is   *)
(* one step, that of its last bytes.                                       *)
(***************************************************************************)
EXTENDS Integers, FiniteSets

CONSTANTS Runs,           \* the invocations, as numbers in the order they start
          Sources,        \* the versions of the source tree; a commit is the one it holds
          Given,          \* the commits that JCS_OFFLINE_SOURCE_GIT_COMMIT may name
          Policies,       \* the versions of matrix and profile, in order
          Covers(_, _),   \* whether the replays owed for one policy are enough for another
          MaxEdits        \* how often tree, HEAD and policy change

ASSUME RunsAssumption     == Runs \subseteq Nat
ASSUME SourcesAssumption  == Sources \subseteq Nat /\ 1 \in Sources /\ Given \subseteq Sources
ASSUME EditsAssumption    == MaxEdits \in Nat
ASSUME PoliciesAssumption == Policies \subseteq Nat /\ 1 \in Policies
                             /\ \A p \in Policies : Covers(p, p)

VARIABLES source, head,               \* the source tree; the commit at HEAD
          policy,                     \* the matrix and the profile
          edits,                      \* how often they have changed
          canon,                      \* bin/jcs-canon, as the source it was built from
          bundle, evidence,           \* offline-bundle.tgz, offline-evidence.json
          audit, sums, index,         \* the audit's files, the checksums, RUN_INDEX.txt
          pc,
          commit,                     \* sourceGitCommit
          loaded, control, hashed, policySum,   \* what a command has read so far
          ran,                        \* the bundles its replays were given
          seen,                       \* the evidence its verification has loaded
          gate,                       \* the verification is the one of the release gate
          accepted,                   \* the evidence that passed it
          quiet,                      \* no other invocation and no edit since it started
          stable                      \* no edit of the policy since its verification began

files  == <<canon, bundle, evidence, audit, sums, index>>
reads  == <<loaded, control, hashed, policySum, ran, seen>>
checks == <<gate, accepted, stable>>
vars   == <<source, head, policy, edits, files, pc, commit, reads, checks, quiet>>

(* Every archive is different, because its manifest has the time it was    *)
(* made: by is the invocation that truncated the file or whose archive it  *)
(* is whole, others are those whose bytes have damaged it since.           *)
Bundle   == [by : Runs, canon : Sources, policy : Policies, whole : BOOLEAN, others : SUBSET Runs]
Evidence == [by : Runs, whole : BOOLEAN, bundle : Bundle, control : Sources, policySum : Policies,
             commit : Sources, loaded : Policies, ran : SUBSET Bundle]

Torn(content) == [content EXCEPT !.whole = FALSE]

Damaged(b, s) == [b EXCEPT !.whole = FALSE, !.others = @ \cup {s}]

-----------------------------------------------------------------------------
(* A step of s: what was quiet for the others is so no more. *)
Step(s, from, to) ==
  /\ pc[s] = from
  /\ pc' = [pc EXCEPT ![s] = to]
  /\ quiet' = [k \in Runs |-> quiet[k] /\ (k = s \/ pc[k] = "idle")]
  /\ UNCHANGED <<source, head, policy, edits>>

(* When a command returns, what it had read is gone. *)
Forget(s) ==
  /\ loaded' = [loaded EXCEPT ![s] = 1] /\ control' = [control EXCEPT ![s] = 1]
  /\ hashed' = [hashed EXCEPT ![s] = {}] /\ policySum' = [policySum EXCEPT ![s] = 1]
  /\ ran' = [ran EXCEPT ![s] = {}] /\ seen' = [seen EXCEPT ![s] = {}]

(* resolveOfflineSourceIdentity: the commit that the environment names, or *)
(* HEAD, before anything is built and whatever the tree holds              *)
Start(s) ==
  /\ \A k \in Runs : k < s => pc[k] # "idle"
  /\ Step(s, "idle", "build")
  /\ \E c \in Given \cup {head} : commit' = [commit EXCEPT ![s] = c]
  /\ UNCHANGED <<files, reads, checks>>

(* buildCanonicalizer, from the tree as it is now *)
Build(s) ==
  /\ Step(s, "build", "preflight")
  /\ canon' = {source}
  /\ UNCHANGED <<bundle, evidence, audit, sums, index, commit, reads, checks>>

(* runPreflight without a failure or a warning, or --skip-preflight *)
Preflight(s) ==
  /\ Step(s, "preflight", "prepare")
  /\ UNCHANGED <<files, commit, reads, checks>>

(* cmdPrepare: loads the policy, only to refuse a bad one, and builds the  *)
(* worker; then CreateBundle reads the tool that is there                  *)
ReadBinary(s) ==
  /\ Step(s, "prepare", "inputs")
  /\ \E c \in canon : control' = [control EXCEPT ![s] = c]
  /\ UNCHANGED <<files, commit, loaded, hashed, policySum, ran, seen, checks>>

(* CreateBundle: the bytes of matrix and profile *)
ReadInputs(s) ==
  /\ Step(s, "inputs", "create")
  /\ policySum' = [policySum EXCEPT ![s] = policy]
  /\ UNCHANGED <<files, commit, loaded, control, hashed, ran, seen, checks>>

Archive(s) == [by |-> s, canon |-> control[s], policy |-> policySum[s],
               whole |-> TRUE, others |-> {}]

(* writeBundleTarGz truncates the file *)
CreateBundle(s) ==
  /\ Step(s, "create", "pack")
  /\ bundle' = {Torn(Archive(s))}
  /\ UNCHANGED <<canon, evidence, audit, sums, index, commit, reads, checks>>

(* The end of writeBundleTarGz.  The errors of closing the archive are not *)
(* reported, so the file may stay as it is.  Otherwise it is the whole     *)
(* archive of s, which takes that its beginning is one of s or the same,   *)
(* that of an archive with the same tool in it; or s has damaged what      *)
(* another invocation has begun since, or has begun and finished.          *)
Pack(s) ==
  /\ Step(s, "pack", "load")
  /\ \E b \in bundle :
       \/ bundle' = bundle
       \/ (b.by = s \/ b.canon = control[s]) /\ bundle' = {Archive(s)}
       \/ b.by # s /\ bundle' = {Damaged(b, s)}
  /\ Forget(s)
  /\ UNCHANGED <<canon, evidence, audit, sums, index, commit, checks>>

-----------------------------------------------------------------------------
(* cmdRun: loadRunInputs reads the policy, the manifest of the bundle and  *)
(* again the bundle and the policy for their digests.  The manifest can be *)
(* read of an archive that is not whole, and be that of another archive if *)
(* it is damaged: reading stops before the checksum of the stream.         *)
LoadPolicy(s) ==
  /\ Step(s, "load", "manifest")
  /\ loaded' = [loaded EXCEPT ![s] = policy]
  /\ UNCHANGED <<files, commit, control, hashed, policySum, ran, seen, checks>>

ReadManifest(s) ==
  /\ Step(s, "manifest", "hash")
  /\ \E b \in bundle, c \in Sources :
       /\ b.others = {} => c = b.canon
       /\ control' = [control EXCEPT ![s] = c]
  /\ UNCHANGED <<files, commit, loaded, hashed, policySum, ran, seen, checks>>

HashBundle(s) ==
  /\ Step(s, "hash", "hashPolicy")
  /\ hashed' = [hashed EXCEPT ![s] = bundle]
  /\ UNCHANGED <<files, commit, loaded, control, policySum, ran, seen, checks>>

HashPolicy(s) ==
  /\ Step(s, "hashPolicy", "replay")
  /\ policySum' = [policySum EXCEPT ![s] = policy]
  /\ ran' = [ran EXCEPT ![s] = {}]
  /\ UNCHANGED <<files, commit, loaded, control, hashed, seen, checks>>

(* One replay of RunMatrix: the node gets the bundle as the file is now,   *)
(* and its worker passes only what is whole (PassedMeansPassed).           *)
Replay(s) ==
  /\ Step(s, "replay", "replay")
  /\ \E b \in bundle : b.whole /\ ran' = [ran EXCEPT ![s] = @ \cup {b}]
  /\ UNCHANGED <<files, commit, loaded, control, hashed, policySum, seen, checks>>

Made(s, h) == [by |-> s, whole |-> TRUE, bundle |-> h, control |-> control[s],
               policySum |-> policySum[s], commit |-> commit[s], loaded |-> loaded[s],
               ran |-> ran[s]]

(* RunMatrix has all the replays the policy it loaded asks for, and        *)
(* WriteEvidence truncates the file                                        *)
BeginEvidence(s) ==
  /\ Step(s, "replay", "evidence")
  /\ ran[s] # {}
  /\ \E h \in hashed[s] : evidence' = {Torn(Made(s, h))}
  /\ UNCHANGED <<canon, bundle, audit, sums, index, commit, reads, checks>>

(* the end of WriteEvidence, whole unless another wrote the file meanwhile *)
EndEvidence(s) ==
  /\ Step(s, "evidence", "verify")
  /\ \E h \in hashed[s] :
       evidence' \in {{Made(s, h)}} \cup (IF evidence = {Torn(Made(s, h))} THEN {}
                                          ELSE {{Torn(Made(s, h))}, evidence})
  /\ gate' = [gate EXCEPT ![s] = FALSE]
  /\ Forget(s)
  /\ UNCHANGED <<canon, bundle, audit, sums, index, commit, accepted, stable>>

-----------------------------------------------------------------------------
(* cmdVerifyEvidence, and the same once more as the release gate: the      *)
(* policy, the evidence, and the digests of bundle, binary and policy      *)
BeginVerify(s) ==
  /\ Step(s, "verify", "vEvidence")
  /\ loaded' = [loaded EXCEPT ![s] = policy]
  /\ accepted' = [accepted EXCEPT ![s] = {}]
  /\ stable' = [stable EXCEPT ![s] = TRUE]
  /\ UNCHANGED <<files, commit, control, hashed, policySum, ran, seen, gate>>

(* Fault: evidence that breaks off is taken for what it has. *)
LoadBrokenEvidence(s) ==
  /\ Step(s, "vEvidence", "vBundle")
  /\ evidence # {}
  /\ seen' = [seen EXCEPT ![s] = evidence]
  /\ UNCHANGED <<files, commit, loaded, control, hashed, policySum, ran, checks>>

LoadEvidence(s) ==
  /\ Step(s, "vEvidence", "vBundle")
  /\ evidence # {} /\ \A e \in evidence : e.whole
  /\ seen' = [seen EXCEPT ![s] = evidence]
  /\ UNCHANGED <<files, commit, loaded, control, hashed, policySum, ran, checks>>

VerifyBundleSum(s) ==
  /\ Step(s, "vBundle", "vCanon")
  /\ hashed' = [hashed EXCEPT ![s] = bundle]
  /\ UNCHANGED <<files, commit, loaded, control, policySum, ran, seen, checks>>

VerifyCanonSum(s) ==
  /\ Step(s, "vCanon", "vPolicy")
  /\ \E c \in canon : control' = [control EXCEPT ![s] = c]
  /\ UNCHANGED <<files, commit, loaded, hashed, policySum, ran, seen, checks>>

(* Fault: the digest of the bundle is not compared. *)
ValidWithoutBundle(s, e, h, p) ==
  /\ e.control = control[s] /\ e.policySum = p
  /\ Covers(e.loaded, loaded[s])
  /\ gate[s] => e.commit = commit[s]

(* Fault: the replays are not held against the policy. *)
ValidWithoutReplays(s, e, h, p) ==
  /\ e.bundle = h /\ e.control = control[s] /\ e.policySum = p
  /\ gate[s] => e.commit = commit[s]

(* what ValidateEvidenceBundle compares, with the policy hashed as p and   *)
(* the bundle as h; only the gate knows which commit to expect             *)
Valid(s, e, h, p) ==
  /\ e.bundle = h /\ e.control = control[s] /\ e.policySum = p
  /\ Covers(e.loaded, loaded[s])
  /\ gate[s] => e.commit = commit[s]

Validate(s) ==
  /\ Step(s, "vPolicy", IF gate[s] THEN "sums" ELSE "report")
  /\ \E e \in seen[s], h \in hashed[s] : Valid(s, e, h, policy)
  /\ accepted' = [accepted EXCEPT ![s] = seen[s]]
  /\ Forget(s)
  /\ UNCHANGED <<files, commit, gate, stable>>

-----------------------------------------------------------------------------
(* cmdReport: the report is kept for the audit *)
Report(s) ==
  /\ Step(s, "report", "audit")
  /\ evidence # {} /\ \A e \in evidence : e.whole
  /\ seen' = [seen EXCEPT ![s] = evidence]
  /\ UNCHANGED <<files, commit, loaded, control, hashed, policySum, ran, checks>>

(* Fault: an audit that is there is not overwritten. *)
WriteAuditOnce(s) ==
  /\ Step(s, "audit", "gate")
  /\ evidence # {} /\ \A e \in evidence : e.whole
  /\ audit' = IF audit = {} THEN evidence \X seen[s] ELSE audit
  /\ Forget(s)
  /\ UNCHANGED <<canon, bundle, evidence, sums, index, commit, checks>>

(* writeAuditOutputs: the summary of the evidence it loads once more, and  *)
(* the report of what was loaded before                                    *)
WriteAudit(s) ==
  /\ Step(s, "audit", "gate")
  /\ evidence # {} /\ \A e \in evidence : e.whole
  /\ audit' = evidence \X seen[s]
  /\ Forget(s)
  /\ UNCHANGED <<canon, bundle, evidence, sums, index, commit, checks>>

ReleaseGate(s) ==
  /\ Step(s, "gate", "verify")
  /\ gate' = [gate EXCEPT ![s] = TRUE]
  /\ UNCHANGED <<files, commit, reads, accepted, stable>>

(* --skip-release-gate *)
SkipGate(s) ==
  /\ Step(s, "gate", "sums")
  /\ UNCHANGED <<files, commit, reads, checks>>

(* writeChecksumFile of the bundle and of the evidence *)
WriteSums(s) ==
  /\ Step(s, "sums", "index")
  /\ bundle # {} /\ evidence # {}
  /\ sums' = bundle \X evidence
  /\ UNCHANGED <<canon, bundle, evidence, audit, index, commit, reads, checks>>

(* writeRunIndex and RESULT=PASS *)
Pass(s) ==
  /\ Step(s, "index", "passed")
  /\ index' = {s}
  /\ UNCHANGED <<canon, bundle, evidence, audit, sums, commit, reads, checks>>

(* Any step may fail, on what it finds or for want of a resource, and the  *)
(* process may be killed: no file is undone.                               *)
Halt(s) ==
  /\ pc[s] \notin {"idle", "passed", "stopped"}
  /\ Step(s, pc[s], "stopped")
  /\ Forget(s)
  /\ commit' = [commit EXCEPT ![s] = 1] /\ gate' = [gate EXCEPT ![s] = FALSE]
  /\ accepted' = [accepted EXCEPT ![s] = {}] /\ stable' = [stable EXCEPT ![s] = FALSE]

Stop(s) == Halt(s) /\ UNCHANGED files

(* The same in the middle of writing what another has truncated meanwhile *)
StopInPack(s) ==
  /\ pc[s] = "pack" /\ Halt(s)
  /\ \E b \in bundle : b.by # s /\ bundle' = {Damaged(b, s)}
  /\ UNCHANGED <<canon, evidence, audit, sums, index>>

StopInEvidence(s) ==
  /\ pc[s] = "evidence" /\ Halt(s)
  /\ \E h \in hashed[s] : evidence' = {Torn(Made(s, h))}
  /\ UNCHANGED <<canon, bundle, audit, sums, index>>

-----------------------------------------------------------------------------
Started == {s \in Runs : pc[s] # "idle"}

EditSource ==
  /\ edits < MaxEdits /\ edits' = edits + 1
  /\ \E v \in Sources : v # source /\ source' = v
  /\ quiet' = [s \in Runs |-> quiet[s] /\ s \notin Started]
  /\ UNCHANGED <<head, policy, files, pc, commit, reads, checks>>

(* git commit moves HEAD and leaves the tree as it is. *)
Commit ==
  /\ edits < MaxEdits /\ edits' = edits + 1
  /\ head # source /\ head' = source
  /\ UNCHANGED <<source, policy, files, pc, commit, reads, checks, quiet>>

EditPolicy ==
  /\ edits < MaxEdits /\ edits' = edits + 1
  /\ \E v \in Policies : v # policy /\ policy' = v
  /\ quiet' = [s \in Runs |-> quiet[s] /\ s \notin Started]
  /\ stable' = [s \in Runs |-> FALSE]
  /\ UNCHANGED <<source, head, files, pc, commit, reads, gate, accepted>>

Init ==
  /\ source = 1 /\ head = 1 /\ policy \in Policies /\ edits = 0
  /\ canon = {} /\ bundle = {} /\ evidence = {}
  /\ audit = {} /\ sums = {} /\ index = {}
  /\ pc = [s \in Runs |-> "idle"]
  /\ commit = [s \in Runs |-> 1]
  /\ loaded = [s \in Runs |-> 1] /\ control = [s \in Runs |-> 1]
  /\ hashed = [s \in Runs |-> {}] /\ policySum = [s \in Runs |-> 1]
  /\ ran = [s \in Runs |-> {}] /\ seen = [s \in Runs |-> {}]
  /\ gate = [s \in Runs |-> FALSE] /\ accepted = [s \in Runs |-> {}]
  /\ quiet = [s \in Runs |-> TRUE] /\ stable = [s \in Runs |-> FALSE]

Next == \/ EditSource \/ Commit \/ EditPolicy
        \/ \E s \in Runs :
             \/ Start(s) \/ Build(s) \/ Preflight(s)
             \/ ReadBinary(s) \/ ReadInputs(s) \/ CreateBundle(s) \/ Pack(s)
             \/ LoadPolicy(s) \/ ReadManifest(s) \/ HashBundle(s) \/ HashPolicy(s)
             \/ Replay(s) \/ BeginEvidence(s) \/ EndEvidence(s)
             \/ BeginVerify(s) \/ LoadEvidence(s) \/ VerifyBundleSum(s) \/ VerifyCanonSum(s)
             \/ Validate(s) \/ Report(s) \/ WriteAudit(s) \/ ReleaseGate(s) \/ SkipGate(s)
             \/ WriteSums(s) \/ Pass(s) \/ Stop(s) \/ StopInPack(s) \/ StopInEvidence(s)

Spec == Init /\ [][Next]_vars

-----------------------------------------------------------------------------
Control == {"idle", "build", "preflight", "prepare", "inputs", "create", "pack", "load",
            "manifest", "hash", "hashPolicy", "replay", "evidence", "verify", "vEvidence", "vBundle", "vCanon",
            "vPolicy", "report", "audit", "gate", "sums", "index", "passed", "stopped"}

Loaded == {e \in Evidence : e.whole}

TypeOK ==
  /\ source \in Sources /\ head \in Sources /\ policy \in Policies /\ edits \in 0..MaxEdits
  /\ canon \subseteq Sources /\ bundle \subseteq Bundle /\ evidence \subseteq Evidence
  /\ audit \subseteq Loaded \X Loaded /\ sums \subseteq Bundle \X Evidence /\ index \subseteq Runs
  /\ pc \in [Runs -> Control]
  /\ commit \in [Runs -> Sources] /\ control \in [Runs -> Sources]
  /\ loaded \in [Runs -> Policies] /\ policySum \in [Runs -> Policies]
  /\ hashed \in [Runs -> SUBSET Bundle] /\ ran \in [Runs -> SUBSET Bundle]
  /\ seen \in [Runs -> SUBSET Loaded] /\ accepted \in [Runs -> SUBSET Loaded]
  /\ gate \in [Runs -> BOOLEAN] /\ quiet \in [Runs -> BOOLEAN] /\ stable \in [Runs -> BOOLEAN]

(* Evidence that verify-evidence or the release gate accepted is of the    *)
(* bundle whose digest it has: every one of its replays was given exactly  *)
(* that archive, whole, although the digest was taken before the replays,  *)
(* from a file that another invocation may replace at any time, damage     *)
(* with what it still has to write, or make whole again.                   *)
Certified ==
  \A s \in Runs : \A e \in accepted[s] : e.bundle.whole /\ e.ran = {e.bundle}

(* The policy whose digest accepted evidence has was satisfied, if no one  *)
(* edited it while the verification ran: it is loaded first and hashed     *)
(* afterwards, by the run as by the verification, and an edit in between   *)
(* makes the digest one of a policy nobody checked.                        *)
PolicyHeld ==
  \A s \in Runs : \A e \in accepted[s] : stable[s] => Covers(e.loaded, e.policySum)

(* When an invocation passes and no other one has moved since it started   *)
(* and nobody has edited tree or policy, all that is in the directory is   *)
(* of this invocation and fits together, whatever earlier ones left        *)
(* behind: the evidence that was accepted, which names the commit that     *)
(* this invocation was given or found at HEAD, its bundle, the tool in it  *)
(* and the one beside it built from the tree as it is, the audit and       *)
(* report of it, the checksums of both.  It does not say that the commit   *)
(* has that tree: the environment may name another one, and the tree may   *)
(* have changes that are not committed, which nothing here compares.       *)
Coherent(s) ==
  \E e \in evidence :
    /\ e.by = s /\ accepted[s] = {e}
    /\ bundle = {e.bundle} /\ e.bundle.by = s /\ e.bundle.policy = e.policySum
    /\ e.control = e.bundle.canon /\ canon = {e.control}
    /\ e.control = source /\ e.commit = commit[s] /\ e.policySum = policy
    /\ audit = {<<e, e>>} /\ sums = {<<e.bundle, e>>}
PassIsCoherent == \A s \in Runs : pc[s] = "passed" /\ quiet[s] => Coherent(s) /\ index = {s}
=============================================================================
