------------------------------ MODULE MCWorker ------------------------------
(***************************************************************************)
(* Model checking of Worker with two replays of bundles of two vector      *)
(* files: as created, with one member or one entry of the manifest damaged,*)
(* torn, and with vector files that are not what they should be.           *)
(***************************************************************************)
EXTENDS Worker

MCSymbol  == {"i1", "i2", "0", "2", "10", "-1", "OK", "UNKNOWN", "us", "nl", "a", "GRAMMAR", "USAGE"}
MCClasses == <<"GRAMMAR", "USAGE">>

Case(id, mode, exit, stdout, has) ==
  [kind |-> "case", id |-> id, mode |-> mode, exit |-> exit, stdout |-> stdout,
   stderr |-> {}, has |-> has]
Other(kind) == [Case("i1", "other", "0", {}, {}) EXCEPT !.kind = kind]

(* contents 1 to 6 are vector files, 9 is everything else *)
MCLines(c) ==
  CASE c = 1 -> <<Other("skip"), Case("i1", "canonicalize", "0", {}, {}),
                  Case("i1", "verify", "2", {}, {"GRAMMAR"})>>
    [] c = 2 -> <<Case("i2", "verify", "0", {}, {})>>
    [] c = 3 -> <<Case("i2", "other", "2", {<< >>}, {})>>
    [] c = 4 -> <<Other("skip")>>
    [] c = 5 -> <<Case("i1", "canonicalize", "0", {<<"a">>}, {}), Other("bad")>>
    [] c = 6 -> <<Case("i2", "canonicalize", "0", {}, {}), Other("long")>>
    [] OTHER -> << >>

MCOutcomes ==
  [exit : {"0"}, stdout : {<< >>, <<"a">>}, stderr : {<< >>, <<"a">>}]
    \cup [exit : {"0"}, stdout : {<<"a", "nl">>}, stderr : {<<"nl", "a">>}]
    \cup [exit : {"2"}, stdout : {<< >>}, stderr : {<<"GRAMMAR">>, <<"USAGE", "GRAMMAR">>, <<"a">>}]
    \cup [exit : {"10", "-1"}, stdout : {<< >>}, stderr : {<<"GRAMMAR">>}]

core == [f \in Core |-> 9]
Good == CreateBundle(core, <<1, 2>>)

MCBundles ==
  { Good, CreateBundle(core, <<2, 3>>), CreateBundle(core, <<4, 4>>),
    CreateBundle(core, <<5, 2>>), CreateBundle(core, <<2, 6>>),
    [Good EXCEPT !.whole = FALSE],
    [Good EXCEPT !.coreFile["binary"] = 8], [Good EXCEPT !.coreSum["profile"] = 0],
    [Good EXCEPT !.file[2] = 3], [Good EXCEPT !.file[1] = 0], [Good EXCEPT !.sum[1] = 0],
    [Good EXCEPT !.file[2] = 3, !.sum[2] = 3], [Good EXCEPT !.vectors = <<1>>] }
=============================================================================
