------------------------------ MODULE MCSuite ------------------------------
(***************************************************************************)
(* Model checking of Suite with two invocations, one commit and two edits  *)
(* of the policy.  A policy with a higher number asks for more replays.    *)
(***************************************************************************)
EXTENDS Suite

MCCovers(p, q) == p >= q
=============================================================================
