------------------------------- MODULE Jcserr -------------------------------
(***************************************************************************)
(* The failure taxonomy of package jcserr: every error of the parser, the  *)
(* serializer and the command line has exactly one class, and the class    *)
(* alone decides the exit code of the process.                             *)
(***************************************************************************)
EXTENDS Naturals

FailureClass ==
  {"InvalidUTF8", "InvalidGrammar", "DuplicateKey", "LoneSurrogate",
   "Noncharacter", "NumberOverflow", "NumberNegZero", "NumberUnderflow",
   "BoundExceeded", "NotCanonical", "CLIUsage", "InternalIO", "InternalError"}

ExitCode(class) == IF class \in {"InternalIO", "InternalError"} THEN 10 ELSE 2

(* "no error": what a nil error pointer is in the code                     *)
None == "none"
=============================================================================
