------------------------------- MODULE Bundle -------------------------------
(***************************************************************************)
(* The replay bundle of offline/replay/bundle.go: an archive of the tool,  *)
(* the worker, the matrix, the profile and the vector files, with a        *)
(* manifest that has the digest of each; and the checks of the worker on   *)
(* what it extracted.  A digest stands for the content it was taken of, 0  *)
(* for one that is missing.  Vector files are named by numbers, in the     *)
(* order of sort.Strings; the tool packs one directory, so that no two     *)
(* have the same base name.                                                *)
(***************************************************************************)
EXTENDS Integers, SequencesExt

CONSTANTS Content,    \* what a file may hold, as numbers
          Names       \* the base names of vector files

ASSUME ContentAssumption == Content \subseteq Nat \ {0}
ASSUME NamesAssumption   == Names \subseteq Nat

Core == {"binary", "worker", "matrix", "profile"}

Sums(names) == [names -> Content \cup {0}]

Ascending(s) == \A i, j \in DOMAIN s : i < j => s[i] < s[j]

(* whole: the archive can be read to its end.  coreFile and file are its   *)
(* members, the rest is its manifest.  The manifest lists the vector files *)
(* in order and once, as CreateBundle does, so that the sorting of the     *)
(* worker changes nothing.                                                 *)
Bundle == [whole   : BOOLEAN, coreFile : Sums(Core), file : Sums(Names),
           coreSum : Sums(Core), sum : Sums(Names),
           vectors : {s \in Seq(Names) : Ascending(s)},
           setSum  : Seq(Names \X (Content \cup {0}))]

-----------------------------------------------------------------------------
(* what the digest of the vector set is taken of *)
SetItems(names, sum) == [i \in DOMAIN names |-> <<names[i], sum[names[i]]>>]

(* CreateBundle, from the inputs as they were read: core has the content   *)
(* of the four core files, globbed that of each vector file that matched   *)
CreateBundle(core, globbed) ==
  LET names == SetToSortSeq(DOMAIN globbed, <)
      sum   == [n \in Names |-> IF n \in DOMAIN globbed THEN globbed[n] ELSE 0]
  IN [whole |-> TRUE, coreFile |-> core, file |-> sum, coreSum |-> core, sum |-> sum,
      vectors |-> names, setSum |-> SetItems(names, sum)]

(* VerifyBundle, before any replay: the digests are there.  They are not   *)
(* compared, and the archive is read no further than its manifest.         *)
VerifyBundle(b) ==
  /\ \A f \in Core : b.coreSum[f] # 0
  /\ b.vectors # << >>
  /\ \A i \in DOMAIN b.vectors : b.sum[b.vectors[i]] # 0

(* the checks of the worker, by which everything that it goes on to read   *)
(* is what the manifest says                                               *)
VerifyCore(b) == \A f \in Core : b.coreSum[f] # 0 /\ b.coreFile[f] = b.coreSum[f]

VerifyVectors(b) ==
  \A i \in DOMAIN b.vectors :
    LET n == b.vectors[i] IN b.sum[n] # 0 /\ b.file[n] = b.sum[n]

VerifySet(b) == SetItems(b.vectors, b.sum) = b.setSum

VerifyExtracted(b) == VerifyCore(b) /\ VerifyVectors(b) /\ VerifySet(b)
=============================================================================
