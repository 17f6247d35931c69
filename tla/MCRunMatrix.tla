---------------------------- MODULE MCRunMatrix ----------------------------
(***************************************************************************)
(* Model checking of RunMatrix with a container and a virtual machine, up  *)
(* to two replays each, and matrices and profiles that are refused.  A     *)
(* replay reports the truth or lies in one field.                          *)
(***************************************************************************)
EXTENDS RunMatrix, TLC

Node(id, mode, replays, prepare, cleanup) ==
  [id |-> id, mode |-> mode, lane |-> "l1", replays |-> replays,
   prepare |-> prepare, cleanup |-> cleanup]

Box(replays) == Node(1, "container", replays, FALSE, FALSE)
Vm(replays)  == Node(2, "vm", replays, TRUE, TRUE)

MCMatrices ==
  { <<Vm(0), Box(2)>>, <<Box(1), Vm(2)>>,
    <<Box(1), Node(2, "vm", 1, FALSE, TRUE)>>, <<Box(1), Node(2, "vm", 1, TRUE, FALSE)>>,
    <<Box(1), Node(1, "vm", 1, FALSE, FALSE)>>,       \* duplicate id
    <<Box(1), Node(2, "container", 1, TRUE, TRUE)>>,  \* no virtual machine
    <<Box(1), Vm(-1)>> }

Prof(nodes, min, hard, required) ==
  [requiredNodes |-> nodes, minColdReplays |-> min,
   hardReleaseGate |-> hard, evidenceRequired |-> required]

MCProfiles ==
  { Prof(<< >>, 1, TRUE, TRUE), Prof(<<2, 2>>, 2, TRUE, TRUE), Prof(<<2, 1>>, 1, FALSE, TRUE),
    Prof(<<1, 3>>, 1, TRUE, TRUE), Prof(<< >>, 0, TRUE, TRUE), Prof(<< >>, 1, TRUE, FALSE) }

Same   == [k \in Digest |-> "h1"]
Truth(id, i) ==
  [node |-> id, mode |-> IF id = 1 THEN "container" ELSE "vm", lane |-> "l1",
   index |-> i, sound |-> TRUE, digests |-> Same]

MCReports(id, i) ==
  LET t == Truth(id, i) IN
  {t, [t EXCEPT !.sound = FALSE], [t EXCEPT !.lane = "l2"], [t EXCEPT !.index = 0]}
    \cup {[t EXCEPT !.digests = [Same EXCEPT ![k] = "h2"]] : k \in {"canonical", "exit"}}
    \cup {Truth(j, k) : j \in 1..2, k \in 1..2}
=============================================================================
