-------------------------- MODULE RunMatrixProofs --------------------------
(***************************************************************************)
(* Theorems about RunMatrix: for every matrix, profile and every behaviour *)
(* of the nodes it keeps the promise of ReplayPromise, its replays are     *)
(* cold and a failed replay is never followed by evidence.                 *)
(*                                                                         *)
(* The inductive invariant says which replays have been collected at each  *)
(* point of the loop.  At the end those are exactly the owed ones, and the *)
(* promise follows by counting: the validation finds every owed identity   *)
(* among as many replays as are owed, so it finds each of them once.       *)
(***************************************************************************)
EXTENDS RunMatrix, Audit, FiniteSetTheorems, TLAPS

Required == RequiredNodes(matrix, profile)
OwedHere == Owed(matrix, profile)
Running  == pc \in {"prepare", "replay", "cleanup", "load"}

Behind(o) == /\ o[1] \notin todo
             /\ Running /\ o[1] = node => o[2] < idx

Loop ==
  /\ pc \notin {"start", "done"} => /\ Valid
                                    /\ todo \subseteq Required
                                    /\ DOMAIN collected = {o \in OwedHere : Behind(o)}
  /\ Running => node \in Required \ todo /\ idx <= WantHere
  /\ pc = "start" => DOMAIN collected = {}

Outcome ==
  /\ pc = "done" <=> result # "none"
  /\ result = "evidence" =>
       /\ Valid
       /\ DOMAIN collected = OwedHere
       /\ \E a \in Digests : ValidateEvidenceBundle(collected, a, matrix, profile, metaValid)

Failures == runErr => pc \in {"cleanup", "done"} /\ result # "evidence"

Cold ==
  /\ pc \in {"start", "node", "prepare", "load"} => Cleanable = {}
  /\ pc \in {"replay", "cleanup"} => Cleanable \subseteq {Here}
  /\ result = "evidence" => Cleanable = {}

IInv == TypeOK /\ IsFiniteSet(DOMAIN collected) /\ Loop /\ Outcome /\ Failures /\ Cold

-----------------------------------------------------------------------------
(* A valid matrix has a node for every id it knows. *)
LEMMA NodeKnown ==
  ASSUME NEW m \in Matrix, NEW id \in NodeIds(m)
  PROVE  NodeOf(m, id) \in NodeSpec
<1>1. PICK j \in 1..Len(m) : m[j].id = id
  BY DEF NodeIds
<1>2. (CHOOSE i \in 1..Len(m) : m[i].id = id) \in 1..Len(m)
  BY <1>1
<1> QED
  BY <1>2 DEF NodeOf, Matrix

(* The number of replays of a required node is the larger of two bounds.   *)
LEMMA WantIs ==
  ASSUME NEW m \in Matrix, NEW p \in Profile, ValidateProfile(p), NEW id \in NodeIds(m)
  PROVE  /\ Want(m, p, id) \in Nat \ {0}
         /\ 1..Want(m, p, id) = (1..p.minColdReplays) \cup (1..NodeOf(m, id).replays)
<1>1. NodeOf(m, id).replays \in Int
  BY NodeKnown DEF NodeSpec
<1>2. p.minColdReplays \in Int /\ p.minColdReplays >= 1
  BY DEF Profile, ValidateProfile
<1>3. Want(m, p, id) = IF NodeOf(m, id).replays > p.minColdReplays
                       THEN NodeOf(m, id).replays ELSE p.minColdReplays
  BY DEF Want, RequiredReplayCount
<1> QED
  BY <1>1, <1>2, <1>3

(* The owed replays are the indices 1 to Want of the required nodes.       *)
LEMMA OwedMembers ==
  ASSUME NEW m \in Matrix, NEW p \in Profile, ValidateProfile(p), RequiredKnown(m, p)
  PROVE  /\ \A o \in Owed(m, p) : /\ o = <<o[1], o[2]>>
                                  /\ o[1] \in RequiredNodes(m, p)
                                  /\ o[2] \in 1..Want(m, p, o[1])
         /\ \A id \in RequiredNodes(m, p) : \A i \in 1..Want(m, p, id) : <<id, i>> \in Owed(m, p)
<1>1. \A id \in RequiredNodes(m, p) :
        1..Want(m, p, id) = (1..p.minColdReplays) \cup (1..NodeOf(m, id).replays)
  BY WantIs DEF RequiredKnown
<1>2. Owed(m, p) = UNION {{id} \X (1..Want(m, p, id)) : id \in RequiredNodes(m, p)}
  BY <1>1 DEF Owed
<1>3. ASSUME NEW o \in Owed(m, p)
      PROVE  o = <<o[1], o[2]>> /\ o[1] \in RequiredNodes(m, p) /\ o[2] \in 1..Want(m, p, o[1])
  <2>1. PICK id \in RequiredNodes(m, p) : o \in {id} \X (1..Want(m, p, id))
    BY <1>2
  <2>2. o[1] = id /\ o[2] \in 1..Want(m, p, id) /\ o = <<o[1], o[2]>>
    BY <2>1
  <2> QED
    BY <2>2
<1>4. ASSUME NEW id \in RequiredNodes(m, p), NEW i \in 1..Want(m, p, id)
      PROVE  <<id, i>> \in Owed(m, p)
  <2>1. <<id, i>> \in {id} \X (1..Want(m, p, id))
    OBVIOUS
  <2> QED
    BY <1>2, <2>1
<1> QED
  BY <1>3, <1>4

(* The facts about the owed replays that the loop needs.                   *)
LEMMA OwedNow ==
  ASSUME TypeOK, Valid
  PROVE  /\ Required \subseteq Ids
         /\ \A id \in Required : NodeOf(matrix, id) \in NodeSpec
                                 /\ Want(matrix, profile, id) \in Nat \ {0}
         /\ \A o \in OwedHere : /\ o = <<o[1], o[2]>> /\ o[1] \in Required
                                /\ o[2] \in 1..Want(matrix, profile, o[1])
         /\ \A id \in Required : \A i \in 1..Want(matrix, profile, id) : <<id, i>> \in OwedHere
<1>1. matrix \in Matrix /\ profile \in Profile /\ ValidateProfile(profile)
      /\ RequiredKnown(matrix, profile)
  BY DEF TypeOK, Valid
<1>2. Required \subseteq NodeIds(matrix)
  BY <1>1 DEF RequiredKnown, Required
<1>3. NodeIds(matrix) \subseteq Ids
  <2>1. \A i \in 1..Len(matrix) : matrix[i] \in NodeSpec
    BY <1>1 DEF Matrix
  <2>2. \A n \in NodeSpec : n.id \in Ids
    BY DEF NodeSpec
  <2> QED
    BY <2>1, <2>2 DEF NodeIds
<1>4. \A id \in Required : NodeOf(matrix, id) \in NodeSpec
                           /\ Want(matrix, profile, id) \in Nat \ {0}
  BY <1>1, <1>2, NodeKnown, WantIs
<1> QED
  BY <1>1, <1>2, <1>3, <1>4, OwedMembers DEF Required, OwedHere

-----------------------------------------------------------------------------
(* As many replays as are owed, with every owed identity among them, carry *)
(* each identity once and no other.                                        *)
LEMMA Counting ==
  ASSUME NEW D, IsFiniteSet(D), NEW f, f = [k \in D |-> f[k]],
         \A o \in D : \E k \in D : f[k] = o
  PROVE  /\ \A k \in D : f[k] \in D
         /\ \A k, l \in D : f[k] = f[l] => k = l
<1> DEFINE T == {f[k] : k \in D}
<1>1. f \in Surjection(D, T)
  BY DEF Surjection
<1>2. IsFiniteSet(T) /\ Cardinality(T) <= Cardinality(D)
      /\ (Cardinality(T) = Cardinality(D) <=> f \in Injection(D, T))
  BY <1>1, FS_Surjection
<1>3. D \subseteq T
  OBVIOUS
<1>4. Cardinality(D) <= Cardinality(T) /\ (Cardinality(D) = Cardinality(T) => D = T)
  BY <1>2, <1>3, FS_Subset
<1>5. Cardinality(D) = Cardinality(T)
  <2>1. Cardinality(D) \in Nat /\ Cardinality(T) \in Nat
    BY <1>2, FS_CardinalityType
  <2> HIDE DEF T
  <2> QED
    BY <1>2, <1>4, <2>1
<1>6. D = T /\ f \in Injection(D, T)
  BY <1>2, <1>4, <1>5
<1> QED
  BY <1>6 DEF Injection, IsInjective

(* Valid evidence for exactly the owed replays fulfils the promise.        *)
LEMMA ValidFulfils ==
  ASSUME TypeOK, Valid, IsFiniteSet(DOMAIN collected), DOMAIN collected = OwedHere,
         NEW a \in Digests,
         ValidateEvidenceBundle(collected, a, matrix, profile, metaValid)
  PROVE  Promise!Fulfils(collected)
<1> DEFINE D == DOMAIN collected
           f == [k \in D |-> Promise!Identity(collected[k])]
<1>1. \A k \in D : collected[k] \in Evidence
  BY DEF TypeOK
<1>2. \A o \in D : \E k \in D : f[k] = o
  <2> SUFFICES ASSUME NEW o \in D PROVE \E k \in D : f[k] = o
    OBVIOUS
  <2>1. o = <<o[1], o[2]>> /\ o[1] \in Required /\ o[2] \in 1..Want(matrix, profile, o[1])
    BY OwedNow
  <2>2. PICK k \in Of(collected, o[1]) : collected[k].index = o[2]
    BY <2>1 DEF ValidateEvidenceBundle, AllIndices, Required
  <2>3. k \in D /\ collected[k].node = o[1]
    BY <2>2 DEF Of
  <2>4. f[k] = <<o[1], o[2]>>
    BY <2>2, <2>3 DEF Promise!Identity
  <2> QED
    BY <2>1, <2>3, <2>4
<1>3. /\ \A k \in D : f[k] \in D
      /\ \A k, l \in D : f[k] = f[l] => k = l
  <2> HIDE DEF D
  <2>1. f = [k \in D |-> f[k]]
    OBVIOUS
  <2>2. IsFiniteSet(D)
    BY DEF D
  <2> HIDE DEF f
  <2> QED
    BY <1>2, <2>1, <2>2, Counting
<1>4. \A k \in D : Promise!Identity(collected[k]) \in OwedHere /\ collected[k].sound
  BY <1>3 DEF ValidateEvidenceBundle, ReplayValid
<1>5. \A k \in D : collected[k].node \in Required
  <2> SUFFICES ASSUME NEW k \in D PROVE collected[k].node \in Required
    OBVIOUS
  <2>1. Promise!Identity(collected[k])[1] \in Required
    BY <1>4, OwedNow
  <2> QED
    BY <2>1 DEF Promise!Identity
<1>6. \A k, l \in D : collected[k].digests = collected[l].digests
  <2> SUFFICES ASSUME NEW k \in D, NEW l \in D
               PROVE collected[k].digests = collected[l].digests
    OBVIOUS
  <2>1. Agree(collected[k].digests, collected[l].digests)
    BY <1>5 DEF ValidateEvidenceBundle, Counted, Required
  <2>2. collected[k].digests \in [Digest -> Hash] /\ collected[l].digests \in [Digest -> Hash]
    BY <1>1 DEF Evidence, Digests
  <2> QED
    BY <2>1, <2>2 DEF Agree
<1>7. \A k, l \in D : Promise!Identity(collected[k]) = Promise!Identity(collected[l]) => k = l
  BY <1>3
<1> HIDE DEF f
<1>8. \A o \in OwedHere : \E k \in D : Promise!Identity(collected[k]) = o
  BY <1>2 DEF f
<1> QED
  BY <1>4, <1>6, <1>7, <1>8 DEF Promise!Fulfils, OwedHere

-----------------------------------------------------------------------------
LEMMA Initial == Init => IInv
<1> SUFFICES ASSUME Init PROVE IInv
  OBVIOUS
<1>1. DOMAIN collected = {}
  BY DEF Init
<1>2. TypeOK
  <2>1. matrix \in Matrix /\ profile \in Profile
    BY MatricesAssumption, ProfilesAssumption DEF Init
  <2>2. pc \in Control /\ result \in {"none", "error", "evidence"}
    BY DEF Init, Control
  <2>3. todo \subseteq Ids /\ node \in Ids /\ idx \in Nat \ {0}
    BY DEF Init
  <2>4. standing \subseteq Ids \X Nat /\ file \subseteq Evidence
    BY DEF Init
  <2>5. metaValid \in BOOLEAN /\ deadline \in BOOLEAN /\ runErr \in BOOLEAN
    BY DEF Init
  <2> QED
    BY <1>1, <2>1, <2>2, <2>3, <2>4, <2>5 DEF TypeOK
<1>3. Loop /\ Outcome /\ Failures /\ Cold
  BY <1>1 DEF Init, Loop, Outcome, Failures, Cold, Running, Cleanable
<1>4. IsFiniteSet(DOMAIN collected)
  BY <1>1, FS_EmptySet
<1> QED
  BY <1>2, <1>3, <1>4 DEF IInv

(* An abort leaves the loop for good; whatever it leaves standing is not   *)
(* followed by evidence.                                                   *)
LEMMA AbortKeeps ==
  ASSUME IInv, Abort, standing' \subseteq Ids \X Nat, file' \subseteq Evidence
  PROVE  IInv'
<1>1. /\ result' = "error" /\ pc' = "done"
      /\ UNCHANGED <<deadline, todo, node, idx, runErr, collected, matrix, profile, metaValid>>
  BY DEF Abort, inputs
<1>2. TypeOK' /\ IsFiniteSet(DOMAIN collected)'
  BY <1>1 DEF IInv, TypeOK, Control
<1>3. Loop' /\ Outcome' /\ Failures' /\ Cold'
  BY <1>1 DEF Loop, Outcome, Failures, Cold, Running
<1> QED
  BY <1>2, <1>3 DEF IInv

LEMMA HereType == ASSUME TypeOK PROVE Here \in Ids \X Nat
BY DEF TypeOK, Here

LEMMA StartSteps == IInv /\ (RefuseInputs \/ NoTempDir \/ Start) => IInv'
<1> SUFFICES ASSUME IInv, RefuseInputs \/ NoTempDir \/ Start PROVE IInv'
  OBVIOUS
<1>0. TypeOK
  BY DEF IInv
<1>1. CASE RefuseInputs \/ NoTempDir
  <2>1. Abort /\ standing' \subseteq Ids \X Nat /\ file' \subseteq Evidence
    BY <1>1, <1>0 DEF RefuseInputs, NoTempDir, TypeOK
  <2> QED
    BY <2>1, AbortKeeps
<1>2. CASE Start
  <2>1. /\ Valid /\ pc = "start" /\ pc' = "node" /\ todo' = Required
        /\ UNCHANGED <<matrix, profile, metaValid, deadline, node, idx, standing, file,
                       runErr, collected, result>>
    BY <1>2 DEF Start, Required, inputs
  <2>2. Required \subseteq Ids
    BY <1>0, <2>1, OwedNow
  <2>3. TypeOK' /\ IsFiniteSet(DOMAIN collected)'
    BY <2>1, <2>2 DEF IInv, TypeOK, Control
  <2>4. UNCHANGED <<OwedHere, Required, Cleanable>> /\ Valid'
    BY <2>1 DEF OwedHere, Required, Valid, Cleanable
  <2>5. {o \in OwedHere : Behind(o)'} = {}
    BY <2>1, OwedNow, <1>0 DEF Behind
  <2>6. Loop'
    BY <2>1, <2>4, <2>5 DEF IInv, Loop, Running
  <2>7. Outcome' /\ Failures' /\ Cold'
    BY <2>1, <2>4 DEF IInv, Outcome, Failures, Cold
  <2> QED
    BY <2>3, <2>6, <2>7 DEF IInv
<1> QED
  BY <1>1, <1>2

LEMMA NodeSteps == IInv /\ (NextNode \/ NoAdapter) => IInv'
<1> SUFFICES ASSUME IInv, NextNode \/ NoAdapter PROVE IInv'
  OBVIOUS
<1>0. TypeOK /\ Loop
  BY DEF IInv
<1>1. CASE NoAdapter
  <2>1. Abort /\ standing' \subseteq Ids \X Nat /\ file' \subseteq Evidence
    BY <1>1, <1>0 DEF NoAdapter, TypeOK
  <2> QED
    BY <2>1, AbortKeeps
<1>2. CASE NextNode
  <2>1. /\ pc = "node" /\ pc' = "prepare" /\ idx' = 1
        /\ node' \in todo /\ todo' = todo \ {node'}
        /\ UNCHANGED <<matrix, profile, metaValid, deadline, standing, file,
                       runErr, collected, result>>
    BY <1>2 DEF NextNode, inputs
  <2>2. Valid /\ todo \subseteq Required /\ DOMAIN collected = {o \in OwedHere : Behind(o)}
    BY <1>0, <2>1 DEF Loop
  <2>3. TypeOK' /\ IsFiniteSet(DOMAIN collected)'
    BY <2>1 DEF IInv, TypeOK, Control
  <2>4. UNCHANGED <<OwedHere, Required, Cleanable>> /\ Valid'
    BY <2>1, <2>2 DEF OwedHere, Required, Valid, Cleanable
  <2>5. \A o \in OwedHere : Behind(o)' <=> Behind(o)
    <3> SUFFICES ASSUME NEW o \in OwedHere PROVE Behind(o)' <=> Behind(o)
      OBVIOUS
    <3>1. o[2] \in Nat \ {0}
      BY OwedNow, <1>0, <2>2
    <3> QED
      BY <2>1, <3>1 DEF Behind, Running
  <2>6. node' \in Required /\ Want(matrix, profile, node') \in Nat \ {0}
    BY <2>1, <2>2, <1>0, OwedNow
  <2>7. WantHere' = Want(matrix, profile, node')
    BY <2>1 DEF WantHere
  <2>8. Loop'
    BY <2>1, <2>2, <2>4, <2>5, <2>6, <2>7 DEF Loop, Running
  <2>9. Outcome' /\ Failures' /\ Cold'
    BY <2>1, <2>4 DEF IInv, Outcome, Failures, Cold
  <2> QED
    BY <2>3, <2>8, <2>9 DEF IInv
<1> QED
  BY <1>1, <1>2

(* The deadline, the preparation and the replay leave the loop where it is.*)
LEMMA Within ==
  ASSUME IInv, Running, Running', pc' # "load",
         UNCHANGED <<matrix, profile, metaValid, todo, node, idx, collected, result>>
  PROVE  Loop' /\ Outcome' /\ UNCHANGED Here
<1>1. UNCHANGED <<OwedHere, Required, WantHere, Here>> /\ Valid'
  BY DEF IInv, Loop, OwedHere, Required, WantHere, Here, Valid, Running
<1>2. \A o \in OwedHere : Behind(o)' <=> Behind(o)
  BY DEF Behind
<1>3. Loop'
  BY <1>1, <1>2 DEF IInv, Loop, Running
<1>4. Outcome'
  BY <1>1 DEF IInv, Outcome, Running
<1> QED
  BY <1>1, <1>3, <1>4

LEMMA ExpireStep == IInv /\ Expire => IInv'
<1> SUFFICES ASSUME IInv, Expire PROVE IInv'
  OBVIOUS
<1>1. /\ deadline' = TRUE
      /\ UNCHANGED <<matrix, profile, metaValid, pc, todo, node, idx, standing, file,
                     runErr, collected, result>>
  BY DEF Expire, inputs
<1>2. TypeOK' /\ IsFiniteSet(DOMAIN collected)'
  BY <1>1 DEF IInv, TypeOK, Control
<1>3. UNCHANGED <<OwedHere, Required, WantHere, Cleanable, Here>> /\ (Valid <=> Valid')
  BY <1>1 DEF OwedHere, Required, WantHere, Cleanable, Here, Valid
<1>4. \A o \in OwedHere : Behind(o)' <=> Behind(o)
  BY <1>1 DEF Behind, Running
<1>5. Loop'
  BY <1>1, <1>3, <1>4 DEF IInv, Loop, Running
<1>6. Outcome' /\ Failures' /\ Cold'
  BY <1>1, <1>3 DEF IInv, Outcome, Failures, Cold
<1> QED
  BY <1>2, <1>5, <1>6 DEF IInv

LEMMA PrepareSteps == IInv /\ (Prepare \/ PrepareFails) => IInv'
<1> SUFFICES ASSUME IInv, Prepare \/ PrepareFails PROVE IInv'
  OBVIOUS
<1>0. TypeOK /\ Here \in Ids \X Nat
  BY HereType DEF IInv
<1>1. CASE Prepare
  <2>1. /\ pc = "prepare" /\ pc' = "replay" /\ file' = {}
        /\ standing' \in {standing, standing \cup {Here}}
        /\ UNCHANGED <<matrix, profile, metaValid, deadline, todo, node, idx, runErr,
                       collected, result>>
    BY <1>1 DEF Prepare, inputs
  <2>2. TypeOK' /\ IsFiniteSet(DOMAIN collected)'
    BY <1>0, <2>1 DEF IInv, TypeOK, Control
  <2>3. Loop' /\ Outcome' /\ UNCHANGED Here
    BY <2>1, Within DEF Running
  <2>4. Failures'
    BY <2>1 DEF IInv, Failures
  <2>5. Cleanable' \subseteq {Here}
    BY <2>1 DEF IInv, Cold, Cleanable
  <2>6. Cold'
    BY <2>1, <2>3, <2>5 DEF IInv, Outcome, Cold
  <2> QED
    BY <2>2, <2>3, <2>4, <2>6 DEF IInv
<1>2. CASE PrepareFails
  <2>1. Abort /\ standing' \in {standing, standing \cup {Here}} /\ file' = file
    BY <1>2 DEF PrepareFails
  <2>2. standing' \subseteq Ids \X Nat /\ file' \subseteq Evidence
    BY <2>1, <1>0 DEF TypeOK
  <2> QED
    BY <2>1, <2>2, AbortKeeps
<1> QED
  BY <1>1, <1>2

LEMMA ReplaySteps == IInv /\ (Replay \/ ReplayFails) => IInv'
<1> SUFFICES ASSUME IInv, Replay \/ ReplayFails PROVE IInv'
  OBVIOUS
<1>0. TypeOK
  BY DEF IInv
<1>1. /\ pc = "replay" /\ pc' = "cleanup" /\ runErr' \in BOOLEAN
      /\ UNCHANGED <<matrix, profile, metaValid, deadline, todo, node, idx, standing,
                     collected, result>>
  BY DEF Replay, ReplayFails, inputs
<1>2. file' \subseteq Evidence
  <2>1. \A w \in Written : w \subseteq Evidence
    BY DEF Written
  <2>2. file' \in Written \/ file' = file
    BY DEF Replay, ReplayFails
  <2> QED
    BY <1>0, <2>1, <2>2 DEF TypeOK
<1>3. TypeOK' /\ IsFiniteSet(DOMAIN collected)'
  BY <1>1, <1>2 DEF IInv, TypeOK, Control
<1>4. Loop' /\ Outcome' /\ UNCHANGED Here
  BY <1>1, Within DEF Running
<1>5. result = "none"
  BY <1>1 DEF IInv, Outcome
<1>6. Cleanable' = Cleanable
  BY <1>1 DEF Cleanable
<1>7. Failures' /\ Cold'
  BY <1>1, <1>4, <1>5, <1>6 DEF IInv, Failures, Cold
<1> QED
  BY <1>3, <1>4, <1>7 DEF IInv

LEMMA CleanupSteps == IInv /\ (Cleanup \/ CleanupFails) => IInv'
<1> SUFFICES ASSUME IInv, Cleanup \/ CleanupFails PROVE IInv'
  OBVIOUS
<1>0. TypeOK
  BY DEF IInv
<1>1. standing' \in {standing, standing \ {Here}} /\ file' = file /\ pc = "cleanup"
  BY DEF Cleanup, CleanupFails
<1>2. CASE Abort
  BY <1>0, <1>1, <1>2, AbortKeeps DEF TypeOK
<1>3. CASE ~Abort
  <2>1. /\ Cleanup /\ ~runErr /\ pc' = "load"
        /\ UNCHANGED <<matrix, profile, metaValid, deadline, todo, node, idx, runErr,
                       collected, result>>
    BY <1>3 DEF Cleanup, CleanupFails, inputs
  <2>2. TypeOK' /\ IsFiniteSet(DOMAIN collected)'
    BY <1>0, <1>1, <2>1 DEF IInv, TypeOK, Control
  <2>3. UNCHANGED <<OwedHere, Required, WantHere>> /\ Valid'
    BY <1>1, <2>1 DEF IInv, Loop, OwedHere, Required, WantHere, Valid
  <2>4. \A o \in OwedHere : Behind(o)' <=> Behind(o)
    BY <1>1, <2>1 DEF Behind, Running
  <2>5. Loop'
    BY <1>1, <2>1, <2>3, <2>4 DEF IInv, Loop, Running
  <2>6. Outcome' /\ Failures'
    BY <1>1, <2>1 DEF IInv, Outcome, Failures
  <2>7. Cleanable' = {}
    <3>1. Cleanable \subseteq {Here}
      BY <1>1 DEF IInv, Cold
    <3>2. CASE Lane.cleanup
      BY <2>1, <3>1, <3>2 DEF Cleanup, Cleanable
    <3>3. CASE ~Lane.cleanup
      <4>1. standing' = standing
        BY <2>1, <3>3 DEF Cleanup
      <4>2. Here \notin Cleanable
        BY <3>3 DEF Cleanable, Here, Lane
      <4> QED
        BY <2>1, <3>1, <4>1, <4>2 DEF Cleanable
    <3> QED
      BY <3>2, <3>3
  <2>8. Cold'
    BY <2>1, <2>7 DEF Cold
  <2> QED
    BY <2>2, <2>5, <2>6, <2>8 DEF IInv
<1> QED
  BY <1>2, <1>3

(* The replay that was loaded is the next one behind the loop.             *)
LEMMA LoadSteps == IInv /\ (Load \/ LoadFails) => IInv'
<1> SUFFICES ASSUME IInv, Load \/ LoadFails PROVE IInv'
  OBVIOUS
<1>0. TypeOK /\ Here \in Ids \X Nat
  BY HereType DEF IInv
<1>1. CASE LoadFails
  BY <1>0, <1>1, AbortKeeps DEF LoadFails, TypeOK
<1>2. CASE Load
  <2>1. /\ pc = "load" /\ pc' \in {"prepare", "node"}
        /\ UNCHANGED <<matrix, profile, metaValid, deadline, todo, node, standing, file,
                       runErr, result>>
        /\ \/ idx < WantHere /\ idx' = idx + 1 /\ pc' = "prepare"
           \/ ~(idx < WantHere) /\ idx' = idx /\ pc' = "node"
    BY <1>2 DEF Load, inputs
  <2>2. PICK r \in file :
          collected' = [o \in DOMAIN collected \cup {Here} |->
                          IF o = Here THEN r ELSE collected[o]]
    BY <1>2 DEF Load
  <2>3. DOMAIN collected' = DOMAIN collected \cup {Here}
    BY <2>2
  <2>4. \A o \in DOMAIN collected' : collected'[o] \in Evidence
    BY <1>0, <2>2 DEF TypeOK
  <2>5. idx' \in Nat \ {0}
    BY <1>0, <2>1 DEF TypeOK
  <2>6. TypeOK'
    BY <1>0, <2>1, <2>3, <2>4, <2>5 DEF TypeOK, Control
  <2>7. IsFiniteSet(DOMAIN collected')
    BY <2>3, FS_AddElement DEF IInv
  <2>8. /\ Valid /\ todo \subseteq Required /\ node \in Required \ todo /\ idx <= WantHere
        /\ DOMAIN collected = {o \in OwedHere : Behind(o)}
    BY <2>1 DEF IInv, Loop, Running
  <2>9. /\ \A o \in OwedHere : /\ o = <<o[1], o[2]>>
                                 /\ o[2] \in 1..Want(matrix, profile, o[1])
        /\ WantHere \in Nat \ {0} /\ idx \in Nat \ {0}
        /\ \A i \in 1..WantHere : <<node, i>> \in OwedHere
    BY <1>0, <2>8, OwedNow DEF WantHere, TypeOK
  <2>10. UNCHANGED <<OwedHere, Required, WantHere, Cleanable>> /\ Valid'
    BY <2>1, <2>8 DEF OwedHere, Required, WantHere, Cleanable, Valid
  <2>11. Here \in OwedHere
    BY <2>8, <2>9 DEF Here
  <2>12. \A o \in OwedHere : Behind(o)' <=> Behind(o) \/ o = Here
    <3> SUFFICES ASSUME NEW o \in OwedHere PROVE Behind(o)' <=> Behind(o) \/ o = Here
      OBVIOUS
    <3>1. o = Here <=> o[1] = node /\ o[2] = idx
      BY <2>9 DEF Here
    <3>2. o[1] = node => o[2] \in Nat /\ o[2] <= WantHere
      BY <2>9 DEF WantHere
    <3>3. Behind(o) <=> o[1] \notin todo /\ (o[1] = node => o[2] < idx)
      BY <2>1 DEF Behind, Running
    <3>4. CASE idx < WantHere
      <4>1. Behind(o)' <=> o[1] \notin todo /\ (o[1] = node => o[2] < idx + 1)
        BY <2>1, <3>4 DEF Behind, Running
      <4> QED
        BY <2>8, <2>9, <3>1, <3>2, <3>3, <4>1
    <3>5. CASE ~(idx < WantHere)
      <4>1. Behind(o)' <=> o[1] \notin todo
        BY <2>1, <3>5 DEF Behind, Running
      <4> QED
        BY <2>8, <2>9, <3>1, <3>2, <3>3, <3>5, <4>1
    <3> QED
      BY <3>4, <3>5
  <2>13. DOMAIN collected' = {o \in OwedHere : Behind(o)'}
    BY <2>3, <2>8, <2>11, <2>12
  <2>14. Running' => node' \in Required' \ todo' /\ idx' <= WantHere'
    BY <2>1, <2>8, <2>9, <2>10 DEF Running
  <2>15. Loop'
    BY <2>1, <2>8, <2>10, <2>13, <2>14 DEF Loop
  <2>16. Outcome' /\ Failures' /\ Cold'
    BY <2>1, <2>10 DEF IInv, Outcome, Failures, Cold
  <2> QED
    BY <2>6, <2>7, <2>15, <2>16 DEF IInv
<1> QED
  BY <1>1, <1>2

(* When no node is left, everything owed is behind.                        *)
LEMMA FinishStep == IInv /\ Finish => IInv'
<1> SUFFICES ASSUME IInv, Finish PROVE IInv'
  OBVIOUS
<1>0. TypeOK
  BY DEF IInv
<1>1. /\ pc = "node" /\ todo = {} /\ pc' = "done"
      /\ UNCHANGED <<matrix, profile, metaValid, deadline, todo, node, idx, standing, file,
                     runErr, collected>>
  BY DEF Finish, inputs
<1>2. PICK k \in DOMAIN collected :
        result' = IF ValidateEvidenceBundle(collected, collected[k].digests,
                                            matrix, profile, metaValid)
                  THEN "evidence" ELSE "error"
  BY DEF Finish
<1>3. result' \in {"evidence", "error"} /\ collected[k].digests \in Digests
  BY <1>0, <1>2 DEF TypeOK, Evidence
<1>4. TypeOK' /\ IsFiniteSet(DOMAIN collected)'
  BY <1>1, <1>3 DEF IInv, TypeOK, Control
<1>5. Valid /\ DOMAIN collected = OwedHere
  BY <1>1 DEF IInv, Loop, Behind, Running
<1>6. UNCHANGED <<OwedHere, Cleanable>> /\ Valid'
  BY <1>1, <1>5 DEF OwedHere, Cleanable, Valid
<1>7. Outcome'
  <2>1. result' = "evidence" =>
          ValidateEvidenceBundle(collected, collected[k].digests, matrix, profile, metaValid)
    BY <1>2
  <2> QED
    BY <1>1, <1>3, <1>5, <1>6, <2>1 DEF Outcome
<1>8. Loop' /\ Failures' /\ Cold'
  BY <1>1, <1>6 DEF IInv, Loop, Failures, Cold, Running
<1> QED
  BY <1>4, <1>7, <1>8 DEF IInv

LEMMA Stutter == IInv /\ UNCHANGED vars => IInv'
BY DEF vars, IInv, TypeOK, Loop, Outcome, Failures, Cold, Behind, Running, Required,
       OwedHere, Valid, WantHere, Here, Cleanable

LEMMA Inductive == IInv /\ [Next]_vars => IInv'
BY StartSteps, NodeSteps, ExpireStep, PrepareSteps, ReplaySteps, CleanupSteps, LoadSteps,
   FinishStep, Stutter DEF Next

-----------------------------------------------------------------------------
(* The invariant holds in every reachable state. *)
THEOREM Invariance == Spec => []IInv
BY Initial, Inductive, PTL DEF Spec

(* Every variable keeps its type, whatever the matrix and the nodes do.    *)
THEOREM TypeCorrect == Spec => []TypeOK
<1>1. IInv => TypeOK
  BY DEF IInv
<1> QED
  BY Invariance, <1>1, PTL

(* No replay runs beside the uncleaned environment of another one, and     *)
(* none is left when evidence is returned (run.go calls Cleanup after each *)
(* replay and stops at its first error).                                   *)
THEOREM ReplaysAreCold == Spec => []ColdReplays
<1>1. IInv => ColdReplays
  BY DEF IInv, Cold, ColdReplays
<1> QED
  BY Invariance, <1>1, PTL

(* A failed replay command is never followed by evidence.                  *)
THEOREM FailuresAreFinal == Spec => FailureIsFinal
<1>1. IInv /\ runErr => result # "evidence"
  BY DEF IInv, Failures
<1>2. IInv /\ runErr /\ [Next]_vars => runErr'
  <2> SUFFICES ASSUME IInv, runErr, [Next]_vars PROVE runErr'
    OBVIOUS
  <2>1. pc \in {"cleanup", "done"}
    BY DEF IInv, Failures
  <2>2. CASE UNCHANGED vars
    BY <2>2 DEF vars
  <2>3. CASE Next
    <3>1. CleanupFails \/ Cleanup \/ Expire
      BY <2>1, <2>3 DEF Next, RefuseInputs, NoTempDir, Start, NextNode, NoAdapter, Prepare,
         PrepareFails, Replay, ReplayFails, Load, LoadFails, Finish
    <3> QED
      BY <3>1 DEF CleanupFails, Cleanup, Expire, Abort
  <2> QED
    BY <2>2, <2>3
<1> QED
  BY Invariance, <1>1, <1>2, PTL DEF Spec, FailureIsFinal

-----------------------------------------------------------------------------
returnedHere == IF result = "evidence" THEN collected ELSE << >>
owedHere     == IF Valid THEN Owed(matrix, profile) ELSE {}

Delivered == result = "evidence" => Promise!Fulfils(returnedHere)

(* The evidence that has been returned fulfils the promise.                *)
LEMMA EvidenceFulfils == IInv => Delivered
<1> SUFFICES ASSUME IInv, result = "evidence" PROVE Promise!Fulfils(collected)
  BY DEF Delivered, returnedHere
<1>1. PICK a \in Digests : ValidateEvidenceBundle(collected, a, matrix, profile, metaValid)
  BY DEF IInv, Outcome
<1> QED
  BY <1>1, ValidFulfils DEF IInv, Outcome

LEMMA EvidenceFulfilsNext == IInv' => Delivered'
BY EvidenceFulfils, PTL

(* Every step of the run is a step of the promise or none.                 *)
LEMMA StepMaps ==
  IInv /\ IInv' /\ [Next]_vars => [Promise!Next]_<<owedHere, result, returnedHere>>
<1> SUFFICES ASSUME IInv, IInv', [Next]_vars
             PROVE  [Promise!Next]_<<owedHere, result, returnedHere>>
  OBVIOUS
<1>1. UNCHANGED <<matrix, profile>>
  BY DEF Next, vars, inputs, Abort, RefuseInputs, NoTempDir, Start, NextNode, NoAdapter,
     Expire, Prepare, PrepareFails, Replay, ReplayFails, Cleanup, CleanupFails, Load,
     LoadFails, Finish
<1>2. UNCHANGED owedHere
  BY <1>1 DEF owedHere, Valid
<1>3. CASE UNCHANGED result /\ result = "none"
  BY <1>2, <1>3 DEF returnedHere
<1>4. CASE result = "none" /\ result' = "error"
  BY <1>2, <1>4 DEF returnedHere, owedHere, Promise!Next, Promise!Fail
<1>5. CASE result = "none" /\ result' = "evidence"
  <2>1. Delivered'
    BY EvidenceFulfilsNext
  <2>2. Promise!Report
    BY <1>2, <1>5, <2>1 DEF Delivered, returnedHere, owedHere, Promise!Report,
       Promise!Fulfils, Promise!Identity
  <2> QED
    BY <1>2, <1>5, <2>2 DEF owedHere, Promise!Next
<1>6. CASE result # "none"
  <2>1. pc = "done"
    BY <1>6 DEF IInv, Outcome
  <2>2. UNCHANGED vars
    BY <2>1 DEF Next, vars, RefuseInputs, NoTempDir, Start, NextNode, NoAdapter,
       Expire, Prepare, PrepareFails, Replay, ReplayFails, Cleanup, CleanupFails, Load,
       LoadFails, Finish
  <2> QED
    BY <1>2, <2>2 DEF vars, returnedHere
<1>7. result' \in {"none", "error", "evidence"} /\ (result = "none" \/ result # "none")
  BY DEF IInv, TypeOK
<1> QED
  BY <1>3, <1>4, <1>5, <1>6, <1>7

(* RunMatrix keeps its promise: it returns an error, or evidence with      *)
(* every owed replay in it exactly once, sound and in agreement.           *)
THEOREM PromiseKept == Spec => KeepsPromise
<1>1. Init => Promise!Init
  BY DEF Init, Promise!Init
<1>2. Spec => [][Promise!Next]_<<owedHere, result, returnedHere>>
  BY Invariance, StepMaps, PTL DEF Spec
<1> QED
  BY <1>1, <1>2, PTL DEF Spec, KeepsPromise, Promise!Spec, owedHere, returnedHere

(* A single replay that carries another's name is never passed off as      *)
(* evidence: the one it names is there as well, so one identity comes      *)
(* twice and, with as many replays as are owed, another is missing.        *)
THEOREM MislabellingIsCaught == Spec => []MislabelCaught
<1>1. IInv => MislabelCaught
  <2> SUFFICES ASSUME IInv, result = "evidence", Cardinality(Mislabelled) = 1 PROVE FALSE
    BY DEF MislabelCaught
  <2>1. Valid /\ DOMAIN collected = Owed(matrix, profile) /\ IsFiniteSet(DOMAIN collected)
    BY DEF IInv, Outcome, OwedHere
  <2>2. Promise!Fulfils(collected)
    BY EvidenceFulfils DEF Delivered, returnedHere
  <2>3. \A k \in DOMAIN collected : Promise!Identity(collected[k]) \in DOMAIN collected
    BY <2>1, <2>2 DEF Promise!Fulfils
  <2>4. \A k, l \in DOMAIN collected :
          Promise!Identity(collected[k]) = Promise!Identity(collected[l]) => k = l
    BY <2>2 DEF Promise!Fulfils
  <2>5. Mislabelled = {k \in DOMAIN collected : Promise!Identity(collected[k]) # k}
    BY DEF Mislabelled, Promise!Identity
  <2>6. IsFiniteSet(Mislabelled)
    BY <2>1, <2>5, FS_Subset
  <2>7. PICK x : Mislabelled = {x}
    BY <2>6, FS_Singleton
  <2>8. x \in DOMAIN collected /\ Promise!Identity(collected[x]) # x
    BY <2>5, <2>7
  <2>9. Promise!Identity(collected[x]) \notin Mislabelled
    BY <2>7, <2>8
  <2> QED
    BY <2>3, <2>4, <2>5, <2>8, <2>9
<1> QED
  BY Invariance, <1>1, PTL

(* The audit looks at all replays of the evidence it loads, the            *)
(* verification compares only those of the required nodes: of accepted     *)
(* evidence, whoever wrote it, the audit says PASS just if every replay    *)
(* of a node that is not required agrees with a required one as well       *)
(* (buildAuditSummary, lines 920-974; ValidateEvidenceBundle).             *)
THEOREM AuditOfAccepted ==
  ASSUME NEW rs, IsFiniteSet(DOMAIN rs), NEW m \in Matrix, NEW p \in Profile,
         NEW a \in Digests, ValidateProfile(p), ValidateEvidenceBundle(rs, a, m, p, TRUE)
  PROVE  AuditPass(rs) <=> \A k \in DOMAIN rs : Agree(a, rs[k].digests)
<1>1. PICK c \in Counted(rs, m, p) : TRUE
  <2>1. RequiredNodes(m, p) # {}
    <3>1. NodeIds(m) # {}
      BY DEF ValidateEvidenceBundle, ReplayValid
    <3>2. p.requiredNodes # << >> => Range(p.requiredNodes) # {}
      <4>1. p.requiredNodes \in Seq(Ids)
        BY DEF Profile
      <4>2. p.requiredNodes # << >> => 1 \in DOMAIN p.requiredNodes
        BY <4>1
      <4> QED
        BY <4>2 DEF Range
    <3> QED
      BY <3>1, <3>2 DEF RequiredNodes
  <2>2. PICK id \in RequiredNodes(m, p) : TRUE
    BY <2>1
  <2>3. 1 \in 1..Want(m, p, id)
    BY <2>2, WantIs DEF ValidateEvidenceBundle, RequiredKnown
  <2>4. \E k \in Of(rs, id) : rs[k].index = 1
    BY <2>2, <2>3 DEF ValidateEvidenceBundle, AllIndices
  <2> QED
    BY <2>2, <2>4 DEF Of, Counted
<1>2. c \in DOMAIN rs /\ Agree(a, rs[c].digests)
  BY <1>1 DEF ValidateEvidenceBundle, Counted
<1>3. \A d \in Digest : a[d] \in DigestSet(rs, d)
  BY <1>2 DEF DigestSet, Agree
<1>4. ASSUME AuditPass(rs), NEW k \in DOMAIN rs, NEW d \in Digest
      PROVE  a[d] = rs[k].digests[d]
  <2>1. PICK x : DigestSet(rs, d) = {x}
    <3>1. Cardinality(DigestSet(rs, d)) = 1
      BY <1>4 DEF AuditPass
    <3>2. IsFiniteSet(DigestSet(rs, d))
      <4> DEFINE F == [l \in DOMAIN rs |-> rs[l].digests[d]]
      <4>1. F \in Surjection(DOMAIN rs, DigestSet(rs, d))
        BY DEF Surjection, DigestSet
      <4> QED
        BY <4>1, FS_Surjection
    <3> QED
      BY <3>1, <3>2, FS_Singleton
  <2>2. rs[k].digests[d] \in DigestSet(rs, d)
    BY DEF DigestSet
  <2> QED
    BY <1>3, <2>1, <2>2
<1>5. ASSUME \A k \in DOMAIN rs : Agree(a, rs[k].digests), NEW d \in Digest
      PROVE  Cardinality(DigestSet(rs, d)) = 1
  <2>1. DigestSet(rs, d) = {a[d]}
    BY <1>3, <1>5 DEF DigestSet, Agree
  <2> QED
    BY <2>1, FS_Singleton
<1> QED
  BY <1>4, <1>5 DEF AuditPass, Agree

(* Two evidences that were each accepted, under whatever matrix and        *)
(* profile, and whose comparison passes have the same four digests in      *)
(* every replay of every required node of either: cross-arch looks only at *)
(* the aggregates (buildCrossArchReport, lines 1067-1090).                 *)
THEOREM CrossArchIsSameness ==
  ASSUME NEW rs, NEW ss, NEW m, NEW n, NEW p, NEW q, NEW a \in Digests, NEW b \in Digests,
         \A k \in DOMAIN rs : rs[k] \in Evidence, \A l \in DOMAIN ss : ss[l] \in Evidence,
         ValidateEvidenceBundle(rs, a, m, p, TRUE), ValidateEvidenceBundle(ss, b, n, q, TRUE),
         CrossArchPass(a, b)
  PROVE  \A k \in Counted(rs, m, p), l \in Counted(ss, n, q) : rs[k].digests = ss[l].digests
<1> SUFFICES ASSUME NEW k \in Counted(rs, m, p), NEW l \in Counted(ss, n, q)
             PROVE  rs[k].digests = ss[l].digests
  OBVIOUS
<1>1. k \in DOMAIN rs /\ l \in DOMAIN ss
  BY DEF Counted
<1>2. rs[k].digests \in [Digest -> Hash] /\ ss[l].digests \in [Digest -> Hash]
  BY <1>1 DEF Evidence, Digests
<1>3. Agree(a, rs[k].digests) /\ Agree(b, ss[l].digests)
  BY DEF ValidateEvidenceBundle
<1>4. \A d \in Digest : rs[k].digests[d] = ss[l].digests[d]
  BY <1>3 DEF Agree, CrossArchPass
<1> QED
  BY <1>2, <1>4
=============================================================================
