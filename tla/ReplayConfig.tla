---------------------------- MODULE ReplayConfig ----------------------------
(***************************************************************************)
(* The replay matrix and profile of offline/replay/config.go: what they    *)
(* must satisfy and which replays they require.  A node is one lane (a     *)
(* distribution on a kernel, in a container or a virtual machine); a       *)
(* replay is a cold run of the bundle on it, numbered from 1.              *)
(***************************************************************************)
EXTENDS Integers, FiniteSets, Sequences, SequencesExt

CONSTANTS Ids,        \* node ids, as numbers in the order of sort.Strings
          Lanes       \* what distro and kernel_family together say

ASSUME IdsAssumption == Ids \subseteq Nat

Modes == {"container", "vm"}

(* prepare, cleanup: whether the runner has such a command                 *)
NodeSpec == [id : Ids, mode : Modes, lane : Lanes, replays : Int,
             prepare : BOOLEAN, cleanup : BOOLEAN]
Matrix   == Seq(NodeSpec)
Profile  == [requiredNodes : Seq(Ids), minColdReplays : Int,
             hardReleaseGate : BOOLEAN, evidenceRequired : BOOLEAN]

-----------------------------------------------------------------------------
ValidateMatrix(m) ==
  /\ \A i, j \in 1..Len(m) : m[i].id = m[j].id => i = j
  /\ \A i \in 1..Len(m) : m[i].replays >= 0
  /\ \A mode \in Modes : \E i \in 1..Len(m) : m[i].mode = mode

ValidateProfile(p) == p.minColdReplays >= 1 /\ p.evidenceRequired

NodeIds(m) == {m[i].id : i \in 1..Len(m)}

(* the map from id to node, made from a matrix without duplicate ids *)
NodeOf(m, id) == m[CHOOSE i \in 1..Len(m) : m[i].id = id]

(* requiredNodeIDs, as the set its sorted list holds *)
RequiredNodes(m, p) == IF p.requiredNodes = << >> THEN NodeIds(m) ELSE Range(p.requiredNodes)

RequiredKnown(m, p) == RequiredNodes(m, p) \subseteq NodeIds(m)

(* Fault: the node's own count overrides the profile's minimum. *)
NodeReplaysWin(node, p) == IF node.replays > 0 THEN node.replays ELSE p.minColdReplays

(* requiredReplayCount *)
RequiredReplayCount(node, p) ==
  IF node.replays > p.minColdReplays THEN node.replays ELSE p.minColdReplays

Want(m, p, id) == RequiredReplayCount(NodeOf(m, id), p)

(* What the policy asks for: of every required node as many replays as the *)
(* profile's minimum and as the node itself demands, numbered from 1.      *)
Owed(m, p) ==
  UNION {{id} \X ((1..p.minColdReplays) \cup (1..NodeOf(m, id).replays)) :
           id \in RequiredNodes(m, p)}
=============================================================================
