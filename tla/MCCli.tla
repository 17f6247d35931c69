-------------------------------- MODULE MCCli --------------------------------
(***************************************************************************)
(* Model checking of Cli: every command line of one argument and of a     *)
(* subcommand with two, on inputs at, one above and two above the limit,   *)
(* of which the library may say that they exceed a limit of its own.       *)
(***************************************************************************)
EXTENDS Cli

MCArgLists ==
  BoundedSeq(Arg, 1)
    \cup {<<c>> \o rest : c \in {"canonicalize", "verify"}, rest \in BoundedSeq(Arg, 2)}

MCContents == [kind : {"canonical", "valid", "InvalidGrammar", "BoundExceeded"}, size : 2..4]
=============================================================================
