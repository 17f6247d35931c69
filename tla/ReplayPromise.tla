--------------------------- MODULE ReplayPromise ---------------------------
(***************************************************************************)
(* What a run of the replay matrix promises its caller, whatever happens   *)
(* on the nodes: either an error and no evidence, or evidence in which     *)
(* every owed replay appears exactly once and nothing else does, each one  *)
(* sound and all with the same four digests.                               *)
(***************************************************************************)
EXTENDS Evidence

VARIABLES owed,       \* the pairs of node and replay index that are required
          status,     \* "none", "error" or "evidence"
          returned    \* the family of evidence returned, empty before

Identity(r) == <<r.node, r.index>>

(* Each owed replay exactly once, no other, each sound, all in agreement.  *)
Fulfils(rs) ==
  /\ \A k \in DOMAIN rs : Identity(rs[k]) \in owed /\ rs[k].sound
  /\ \A o \in owed : \E k \in DOMAIN rs : Identity(rs[k]) = o
  /\ \A k, l \in DOMAIN rs : Identity(rs[k]) = Identity(rs[l]) => k = l
  /\ \A k, l \in DOMAIN rs : rs[k].digests = rs[l].digests

Init == status = "none" /\ returned = << >>

Fail   == status' = "error" /\ UNCHANGED returned
Report == status' = "evidence" /\ Fulfils(returned')

Next == status = "none" /\ (Fail \/ Report) /\ UNCHANGED owed

Spec == Init /\ [][Next]_<<owed, status, returned>>
=============================================================================
