----------------------------- MODULE RunMatrix -----------------------------
(***************************************************************************)
(* RunMatrix of offline/replay/run.go: the sequential loop over required   *)
(* nodes and replays, with the commands of the container and libvirt       *)
(* adapters (offline/runtime), which fail or leave an environment standing *)
(* half way, the deadline of the context, and the evidence each replay     *)
(* writes, which is checked only when all of it has been collected.        *)
(***************************************************************************)
EXTENDS Evidence

CONSTANTS Matrices, Profiles,   \* the inputs
          Reports(_, _)         \* what the replay of a node may write

ASSUME MatricesAssumption == Matrices \subseteq Matrix
ASSUME ProfilesAssumption == Profiles \subseteq Profile

VARIABLES matrix, profile,
          metaValid,    \* the digests and source identity are well formed
          deadline,     \* the context is done
          pc, todo,     \* required nodes whose turn has not come
          node, idx,    \* the replay that is running
          standing,     \* replays whose environment has not been removed
          file,         \* what its evidence file decodes to: {} or {evidence}
          runErr,
          collected,    \* bundle.NodeReplays, by the replay it came from
          result        \* "none", "error" or "evidence"

vars == <<matrix, profile, metaValid, deadline, pc, todo, node, idx, standing,
          file, runErr, collected, result>>

inputs == <<matrix, profile, metaValid>>

Here     == <<node, idx>>
Lane     == NodeOf(matrix, node)
WantHere == Want(matrix, profile, node)

Valid == /\ ValidateMatrix(matrix) /\ ValidateProfile(profile)
         /\ RequiredKnown(matrix, profile)

Abort ==
  /\ result' = "error"
  /\ pc' = "done"
  /\ UNCHANGED <<deadline, todo, node, idx, runErr, collected>>
  /\ UNCHANGED inputs

-----------------------------------------------------------------------------
RefuseInputs ==
  /\ pc = "start"
  /\ ~Valid
  /\ Abort
  /\ UNCHANGED <<standing, file>>

NoTempDir ==
  /\ pc = "start"
  /\ Valid
  /\ Abort
  /\ UNCHANGED <<standing, file>>

Start ==
  /\ pc = "start"
  /\ Valid
  /\ todo' = RequiredNodes(matrix, profile)
  /\ pc' = "node"
  /\ UNCHANGED <<deadline, node, idx, standing, file, runErr, collected, result>>
  /\ UNCHANGED inputs

(* Fault: the node stays on the list. *)
NextNodeKeeps ==
  /\ pc = "node"
  /\ \E id \in todo : /\ \A other \in todo : id <= other
                      /\ node' = id
  /\ idx' = 1
  /\ pc' = "prepare"
  /\ UNCHANGED <<todo, deadline, standing, file, runErr, collected, result>>
  /\ UNCHANGED inputs

(* Fault: the replays are numbered from zero. *)
NextNodeFromZero ==
  /\ pc = "node"
  /\ \E id \in todo : /\ \A other \in todo : id <= other
                      /\ node' = id
                      /\ todo' = todo \ {id}
  /\ idx' = 0
  /\ pc' = "prepare"
  /\ UNCHANGED <<deadline, standing, file, runErr, collected, result>>
  /\ UNCHANGED inputs

(* the next required node in sorted order; factory gives its adapter *)
NextNode ==
  /\ pc = "node"
  /\ \E id \in todo : /\ \A other \in todo : id <= other
                      /\ node' = id
                      /\ todo' = todo \ {id}
  /\ idx' = 1
  /\ pc' = "prepare"
  /\ UNCHANGED <<deadline, standing, file, runErr, collected, result>>
  /\ UNCHANGED inputs

NoAdapter ==
  /\ pc = "node" /\ todo # {}
  /\ Abort
  /\ UNCHANGED <<standing, file>>

-----------------------------------------------------------------------------
(* The context expires.  From then on no command of an adapter succeeds:   *)
(* a running one is killed, a later one is not started.                    *)
Expire ==
  /\ pc \notin {"start", "done"}
  /\ ~deadline
  /\ deadline' = TRUE
  /\ UNCHANGED <<pc, todo, node, idx, standing, file, runErr, collected, result>>
  /\ UNCHANGED inputs

(* Adapter.Prepare: without a command it succeeds, deadline or not.        *)
Prepare ==
  /\ pc = "prepare"
  /\ Lane.prepare => ~deadline
  /\ standing' = IF Lane.prepare THEN standing \cup {Here} ELSE standing
  /\ file' = {}
  /\ pc' = "replay"
  /\ UNCHANGED <<deadline, todo, node, idx, runErr, collected, result>>
  /\ UNCHANGED inputs

(* A failed preparation may have been half done; nothing is cleaned up.    *)
PrepareFails ==
  /\ pc = "prepare"
  /\ Lane.prepare
  /\ standing' \in {standing} \cup (IF deadline THEN {} ELSE {standing \cup {Here}})
  /\ Abort
  /\ UNCHANGED file

(* no file, something that does not decode, or evidence *)
Written == {{}} \cup {{r} : r \in Reports(node, idx) \cap Evidence}

(* Adapter.RunReplay *)
Replay ==
  /\ pc = "replay"
  /\ ~deadline
  /\ file' \in Written
  /\ runErr' = FALSE
  /\ pc' = "cleanup"
  /\ UNCHANGED <<deadline, todo, node, idx, standing, collected, result>>
  /\ UNCHANGED inputs

(* The command fails, its evidence written or not. *)
ReplayFails ==
  /\ pc = "replay"
  /\ file' \in IF deadline THEN {file} ELSE Written
  /\ runErr' = TRUE
  /\ pc' = "cleanup"
  /\ UNCHANGED <<deadline, todo, node, idx, standing, collected, result>>
  /\ UNCHANGED inputs

(* Fault: the error of the replay is forgotten when the cleanup succeeds.  *)
CleanupForgets ==
  /\ pc = "cleanup"
  /\ Lane.cleanup => ~deadline
  /\ standing' = IF Lane.cleanup THEN standing \ {Here} ELSE standing
  /\ pc' = "load"
  /\ UNCHANGED <<deadline, todo, node, idx, file, runErr, collected, result>>
  /\ UNCHANGED inputs

(* Adapter.Cleanup is called whether the replay failed or not; the error   *)
(* of the replay wins.                                                     *)
Cleanup ==
  /\ pc = "cleanup"
  /\ Lane.cleanup => ~deadline
  /\ standing' = IF Lane.cleanup THEN standing \ {Here} ELSE standing
  /\ UNCHANGED file
  /\ IF runErr THEN Abort
     ELSE /\ pc' = "load"
          /\ UNCHANGED <<deadline, todo, node, idx, runErr, collected, result>>
          /\ UNCHANGED inputs

(* Fault: a failed cleanup is logged and the run goes on. *)
CleanupIgnored ==
  /\ pc = "cleanup"
  /\ Lane.cleanup
  /\ standing' \in {standing} \cup (IF deadline THEN {} ELSE {standing \ {Here}})
  /\ UNCHANGED file
  /\ IF runErr THEN Abort
     ELSE /\ pc' = "load"
          /\ UNCHANGED <<deadline, todo, node, idx, runErr, collected, result>>
          /\ UNCHANGED inputs

CleanupFails ==
  /\ pc = "cleanup"
  /\ Lane.cleanup
  /\ standing' \in {standing} \cup (IF deadline THEN {} ELSE {standing \ {Here}})
  /\ Abort
  /\ UNCHANGED file

-----------------------------------------------------------------------------
(* LoadNodeRunEvidence, and the end of the loop body *)
Load ==
  /\ pc = "load"
  /\ \E r \in file :
       collected' = [o \in DOMAIN collected \cup {Here} |->
                       IF o = Here THEN r ELSE collected[o]]
  /\ IF idx < WantHere THEN idx' = idx + 1 /\ pc' = "prepare"
                       ELSE UNCHANGED idx /\ pc' = "node"
  /\ UNCHANGED <<deadline, todo, node, standing, file, runErr, result>>
  /\ UNCHANGED inputs

LoadFails ==
  /\ pc = "load"
  /\ file = {}
  /\ Abort
  /\ UNCHANGED <<standing, file>>

(* the first replay after sort.Slice, and its digests as the aggregates *)
Before(r, s) == r.node < s.node \/ (r.node = s.node /\ r.index <= s.index)
IsBase(k)    == \A l \in DOMAIN collected : Before(collected[k], collected[l])

Finish ==
  /\ pc = "node" /\ todo = {}
  /\ \E k \in DOMAIN collected :
       /\ IsBase(k)
       /\ result' = IF ValidateEvidenceBundle(collected, collected[k].digests,
                                              matrix, profile, metaValid)
                    THEN "evidence" ELSE "error"
  /\ pc' = "done"
  /\ UNCHANGED <<deadline, todo, node, idx, standing, file, runErr, collected>>
  /\ UNCHANGED inputs

-----------------------------------------------------------------------------
Init ==
  /\ matrix \in Matrices /\ profile \in Profiles
  /\ metaValid \in BOOLEAN
  /\ deadline = FALSE
  /\ pc = "start" /\ todo = {}
  /\ node \in Ids /\ (\A id \in Ids : node <= id)
  /\ idx = 1
  /\ standing = {}
  /\ file = {}
  /\ runErr = FALSE
  /\ collected = << >>
  /\ result = "none"

Next == \/ RefuseInputs \/ NoTempDir \/ Start \/ NextNode \/ NoAdapter \/ Expire
        \/ Prepare \/ PrepareFails \/ Replay \/ ReplayFails
        \/ Cleanup \/ CleanupFails \/ Load \/ LoadFails \/ Finish

Spec == Init /\ [][Next]_vars

(* Every command ends with all that holds its output, by itself or killed, *)
(* and the loop runs on: weak fairness of all steps together.  The code    *)
(* waits for the output of a killed command too (exec.Cmd without a        *)
(* WaitDelay), so the deadline alone does not bring a run back.            *)
FairSpec == Spec /\ WF_vars(Next)

-----------------------------------------------------------------------------
Control == {"start", "node", "prepare", "replay", "cleanup", "load", "done"}

TypeOK ==
  /\ matrix \in Matrix /\ profile \in Profile /\ metaValid \in BOOLEAN
  /\ deadline \in BOOLEAN
  /\ pc \in Control
  /\ todo \subseteq Ids /\ node \in Ids /\ idx \in Nat \ {0}
  /\ standing \subseteq Ids \X Nat
  /\ file \subseteq Evidence
  /\ runErr \in BOOLEAN
  /\ DOMAIN collected \subseteq Ids \X Nat
  /\ \A o \in DOMAIN collected : collected[o] \in Evidence
  /\ result \in {"none", "error", "evidence"}

(* A replay is cold: when it runs, no environment of another replay of a   *)
(* node with a cleanup command is left standing, and none of those is when *)
(* evidence is returned, although cleanup fails, is cut off by the         *)
(* deadline and is never called after a failed preparation.                *)
Cleanable == {o \in standing : NodeOf(matrix, o[1]).cleanup}
ColdReplays ==
  /\ pc \in {"prepare", "replay", "cleanup"} => Cleanable \subseteq {Here}
  /\ result = "evidence" => Cleanable = {}

(* Once the command of a replay has failed, no evidence is ever returned:  *)
(* neither a clean cleanup nor evidence the failed command left behind     *)
(* makes up for it.                                                        *)
FailureIsFinal == [](runErr => [](result # "evidence"))

(* One replay that writes another's name, or a repeated one, is always     *)
(* caught, although the identity in an evidence file is never compared     *)
(* with the replay it was loaded for; only an exchange of names among two  *)
(* or more replays passes.                                                 *)
Mislabelled == {o \in DOMAIN collected : <<collected[o].node, collected[o].index>> # o}
MislabelCaught == result = "evidence" => Cardinality(Mislabelled) # 1

(* What RunMatrix promises (ReplayPromise): an error, or complete evidence *)
Promise == INSTANCE ReplayPromise
             WITH owed     <- IF Valid THEN Owed(matrix, profile) ELSE {},
                  status   <- result,
                  returned <- IF result = "evidence" THEN collected ELSE << >>

(* Every run of the matrix keeps the promise, whatever the nodes report.   *)
KeepsPromise == Promise!Spec

(* A run always comes back with evidence or an error.                      *)
Returns == <>(result # "none")
=============================================================================
