------------------------------- MODULE Audit -------------------------------
(***************************************************************************)
(* The audit of replay evidence and the comparison of two architectures    *)
(* (cmd/jcs-offline-replay/offline_harness.go).  The audit looks at all    *)
(* replays of the evidence, the validation only at those of the required   *)
(* nodes, and the comparison only at the aggregates.                       *)
(***************************************************************************)
EXTENDS Evidence

(* what digest_sets lists for one of the four digests *)
DigestSet(rs, k) == {rs[r].digests[k] : r \in DOMAIN rs}

(* buildAuditSummary: the result is PASS if every set has one member *)
AuditPass(rs) == \A k \in Digest : Cardinality(DigestSet(rs, k)) = 1

(* buildCrossArchReport, of the aggregates of the two evidences *)
CrossArchPass(x86, arm64) == \A k \in Digest : x86[k] = arm64[k]
=============================================================================
