------------------------------ MODULE Evidence ------------------------------
(***************************************************************************)
(* Replay evidence and its validation (offline/replay/evidence.go).  The   *)
(* bundle metadata that RunMatrix copies from its own inputs is one flag,  *)
(* whether every token of it is well formed.                               *)
(***************************************************************************)
EXTENDS ReplayConfig

CONSTANT Hash       \* digest values

Digest  == {"canonical", "verify", "class", "exit"}
Digests == [Digest -> Hash]

(* sound: passed, at least one case, the tokens present and well formed    *)
Evidence == [node : Ids, mode : Modes, lane : Lanes, index : Int,
             sound : BOOLEAN, digests : Digests]

-----------------------------------------------------------------------------
(* the checks on one replay, against the node it names *)
ReplayValid(r, m) ==
  /\ r.node \in NodeIds(m)
  /\ r.mode = NodeOf(m, r.node).mode /\ r.lane = NodeOf(m, r.node).lane
  /\ r.index >= 1
  /\ r.sound

(* Fault: one of the four digests is not compared. *)
AgreeButExit(d1, d2) == \A k \in Digest \ {"exit"} : d1[k] = d2[k]

Agree(d1, d2) == \A k \in Digest : d1[k] = d2[k]

(* ValidateEvidenceBundle: rs is node_replays, a family of evidence over   *)
(* any index set, because no check depends on the order of the slice;      *)
(* aggregate is the four aggregate digests.  The baseline is the first     *)
(* replay of the first required node: all those of required nodes agree    *)
(* with it and so with each other.                                         *)
Of(rs, id)     == {k \in DOMAIN rs : rs[k].node = id}
Counted(rs, m, p) == {k \in DOMAIN rs : rs[k].node \in RequiredNodes(m, p)}

(* Fault: only the number of a node's replays is checked. *)
EnoughReplays(rs, m, p) ==
  \A id \in RequiredNodes(m, p) : Cardinality(Of(rs, id)) >= Want(m, p, id)

AllIndices(rs, m, p) ==
  \A id \in RequiredNodes(m, p) :
    /\ Cardinality(Of(rs, id)) >= Want(m, p, id)
    /\ \A i \in 1..Want(m, p, id) : \E k \in Of(rs, id) : rs[k].index = i

ValidateEvidenceBundle(rs, aggregate, m, p, metaValid) ==
  /\ metaValid /\ p.hardReleaseGate
  /\ DOMAIN rs # {}
  /\ RequiredKnown(m, p)
  /\ \A k \in DOMAIN rs : ReplayValid(rs[k], m)
  /\ AllIndices(rs, m, p)
  /\ \A k, l \in Counted(rs, m, p) : Agree(rs[k].digests, rs[l].digests)
  /\ \A k \in Counted(rs, m, p) : Agree(aggregate, rs[k].digests)
=============================================================================
