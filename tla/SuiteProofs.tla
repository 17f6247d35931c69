---------------------------- MODULE SuiteProofs ----------------------------
(***************************************************************************)
(* Proofs about Suite, for any number of invocations, commits and edits.   *)
(***************************************************************************)
EXTENDS Suite, TLAPS

LEMMA StepTypes ==
  ASSUME TypeOK, NEW s \in Runs, NEW from, NEW to \in Control, Step(s, from, to)
  PROVE  /\ source' \in Sources /\ head' \in Sources
         /\ policy' \in Policies /\ edits' \in 0..MaxEdits
         /\ pc' \in [Runs -> Control] /\ quiet' \in [Runs -> BOOLEAN]
BY DEF TypeOK, Step

LEMMA ForgetTypes ==
  ASSUME TypeOK, NEW s \in Runs, Forget(s)
  PROVE  /\ control' \in [Runs -> Sources]
         /\ loaded' \in [Runs -> Policies] /\ policySum' \in [Runs -> Policies]
         /\ hashed' \in [Runs -> SUBSET Bundle] /\ ran' \in [Runs -> SUBSET Bundle]
         /\ seen' \in [Runs -> SUBSET Loaded]
BY SourcesAssumption, PoliciesAssumption DEF TypeOK, Forget

LEMMA ArchiveTypes ==
  ASSUME TypeOK, NEW s \in Runs
  PROVE  /\ Archive(s) \in Bundle /\ Archive(s).whole
         /\ Torn(Archive(s)) \in Bundle /\ ~Torn(Archive(s)).whole
         /\ Archive(s).by = s /\ Archive(s).others = {}
         /\ Torn(Archive(s)).by = s /\ Torn(Archive(s)).others = {}
BY DEF TypeOK, Archive, Torn, Bundle

LEMMA DamagedTypes ==
  ASSUME NEW s \in Runs, NEW b \in Bundle
  PROVE  /\ Damaged(b, s) \in Bundle
         /\ Damaged(b, s).by = b.by /\ ~Damaged(b, s).whole
         /\ Damaged(b, s).others = b.others \cup {s}
BY DEF Damaged, Bundle

(* What an invocation that stops leaves of its own. *)
LEMMA HaltTypes ==
  ASSUME TypeOK, NEW s \in Runs, Halt(s)
  PROVE  /\ source' \in Sources /\ head' \in Sources
         /\ policy' \in Policies /\ edits' \in 0..MaxEdits
         /\ pc' \in [Runs -> Control] /\ quiet' \in [Runs -> BOOLEAN]
         /\ control' \in [Runs -> Sources] /\ commit' \in [Runs -> Sources]
         /\ loaded' \in [Runs -> Policies] /\ policySum' \in [Runs -> Policies]
         /\ hashed' \in [Runs -> SUBSET Bundle] /\ ran' \in [Runs -> SUBSET Bundle]
         /\ seen' \in [Runs -> SUBSET Loaded] /\ accepted' \in [Runs -> SUBSET Loaded]
         /\ gate' \in [Runs -> BOOLEAN] /\ stable' \in [Runs -> BOOLEAN]
<1>1. Step(s, pc[s], "stopped") /\ "stopped" \in Control
  BY DEF Halt, Control
<1>2. Forget(s)
  BY DEF Halt
<1>. QED  BY <1>1, <1>2, StepTypes, ForgetTypes, SourcesAssumption DEF Halt, TypeOK

LEMMA MadeTypes ==
  ASSUME TypeOK, NEW s \in Runs, NEW h \in hashed[s]
  PROVE  /\ Made(s, h) \in Evidence /\ Torn(Made(s, h)) \in Evidence
         /\ Made(s, h).whole
BY DEF TypeOK, Made, Torn, Evidence

(* Every step keeps the types. *)
LEMMA TypeStays == TypeOK /\ [Next]_vars => TypeOK'
<1> SUFFICES ASSUME TypeOK, [Next]_vars  PROVE TypeOK'
  OBVIOUS
<1>1. CASE UNCHANGED vars
  BY <1>1 DEF TypeOK, vars, files, reads, checks
<1>2. CASE Commit
  BY <1>2, EditsAssumption DEF Commit, TypeOK, files, reads, checks
<1>3. CASE EditPolicy
  BY <1>3, EditsAssumption DEF EditPolicy, TypeOK, files, reads
<1>30. CASE EditSource
  BY <1>30, EditsAssumption DEF EditSource, TypeOK, files, reads, checks
<1>4. ASSUME NEW s \in Runs, Start(s)  PROVE TypeOK'
  <2>1. /\ source' \in Sources /\ head' \in Sources
        /\ policy' \in Policies /\ edits' \in 0..MaxEdits
        /\ pc' \in [Runs -> Control] /\ quiet' \in [Runs -> BOOLEAN]
    BY <1>4, StepTypes DEF Start, Control
  <2>2. PICK c \in Given \cup {head} : commit' = [commit EXCEPT ![s] = c]
    BY <1>4 DEF Start
  <2>3. c \in Sources
    BY SourcesAssumption DEF TypeOK
  <2>. QED  BY <1>4, <2>1, <2>2, <2>3 DEF Start, TypeOK, files, reads, checks
<1>5. ASSUME NEW s \in Runs, Build(s)  PROVE TypeOK'
  <2>1. /\ source' \in Sources /\ head' \in Sources
        /\ policy' \in Policies /\ edits' \in 0..MaxEdits
        /\ pc' \in [Runs -> Control] /\ quiet' \in [Runs -> BOOLEAN]
    BY <1>5, StepTypes DEF Build, Control
  <2>. QED  BY <1>5, <2>1 DEF Build, TypeOK, reads, checks
<1>6. ASSUME NEW s \in Runs, Preflight(s)  PROVE TypeOK'
  <2>1. /\ source' \in Sources /\ head' \in Sources
        /\ policy' \in Policies /\ edits' \in 0..MaxEdits
        /\ pc' \in [Runs -> Control] /\ quiet' \in [Runs -> BOOLEAN]
    BY <1>6, StepTypes DEF Preflight, Control
  <2>. QED  BY <1>6, <2>1 DEF Preflight, TypeOK, files, reads, checks
<1>7. ASSUME NEW s \in Runs, CreateBundle(s)  PROVE TypeOK'
  <2>1. /\ source' \in Sources /\ head' \in Sources
        /\ policy' \in Policies /\ edits' \in 0..MaxEdits
        /\ pc' \in [Runs -> Control] /\ quiet' \in [Runs -> BOOLEAN]
    BY <1>7, StepTypes DEF CreateBundle, Control
  <2>2. bundle' \subseteq Bundle
    BY <1>7, ArchiveTypes DEF CreateBundle
  <2>. QED  BY <1>7, <2>1, <2>2 DEF CreateBundle, TypeOK, reads, checks
<1>28. ASSUME NEW s \in Runs, ReadBinary(s)  PROVE TypeOK'
  <2>1. /\ source' \in Sources /\ head' \in Sources
        /\ policy' \in Policies /\ edits' \in 0..MaxEdits
        /\ pc' \in [Runs -> Control] /\ quiet' \in [Runs -> BOOLEAN]
    BY <1>28, StepTypes DEF ReadBinary, Control
  <2>2. control' \in [Runs -> Sources]
    BY <1>28 DEF ReadBinary, TypeOK
  <2>. QED  BY <1>28, <2>1, <2>2 DEF ReadBinary, TypeOK, files, checks
<1>29. ASSUME NEW s \in Runs, ReadInputs(s)  PROVE TypeOK'
  <2>1. /\ source' \in Sources /\ head' \in Sources
        /\ policy' \in Policies /\ edits' \in 0..MaxEdits
        /\ pc' \in [Runs -> Control] /\ quiet' \in [Runs -> BOOLEAN]
    BY <1>29, StepTypes DEF ReadInputs, Control
  <2>. QED  BY <1>29, <2>1 DEF ReadInputs, TypeOK, files, checks
<1>8. ASSUME NEW s \in Runs, Pack(s)  PROVE TypeOK'
  <2>1. /\ source' \in Sources /\ head' \in Sources
        /\ policy' \in Policies /\ edits' \in 0..MaxEdits
        /\ pc' \in [Runs -> Control] /\ quiet' \in [Runs -> BOOLEAN]
    BY <1>8, StepTypes DEF Pack, Control
  <2>2. bundle' \subseteq Bundle
    <3>1. PICK b \in bundle : bundle' \in {bundle, {Archive(s)}, {Damaged(b, s)}}
      BY <1>8 DEF Pack
    <3>2. b \in Bundle
      BY DEF TypeOK
    <3>. QED  BY <3>1, <3>2, ArchiveTypes, DamagedTypes DEF TypeOK
  <2>3. Forget(s)
    BY <1>8 DEF Pack
  <2>. QED  BY <1>8, <2>1, <2>2, <2>3, ForgetTypes DEF Pack, TypeOK, checks
<1>9. ASSUME NEW s \in Runs, LoadPolicy(s)  PROVE TypeOK'
  <2>1. /\ source' \in Sources /\ head' \in Sources
        /\ policy' \in Policies /\ edits' \in 0..MaxEdits
        /\ pc' \in [Runs -> Control] /\ quiet' \in [Runs -> BOOLEAN]
    BY <1>9, StepTypes DEF LoadPolicy, Control
  <2>. QED  BY <1>9, <2>1 DEF LoadPolicy, TypeOK, files, checks
<1>10. ASSUME NEW s \in Runs, ReadManifest(s)  PROVE TypeOK'
  <2>1. /\ source' \in Sources /\ head' \in Sources
        /\ policy' \in Policies /\ edits' \in 0..MaxEdits
        /\ pc' \in [Runs -> Control] /\ quiet' \in [Runs -> BOOLEAN]
    BY <1>10, StepTypes DEF ReadManifest, Control
  <2>2. control' \in [Runs -> Sources]
    BY <1>10 DEF ReadManifest, TypeOK
  <2>. QED  BY <1>10, <2>1, <2>2 DEF ReadManifest, TypeOK, files, checks
<1>11. ASSUME NEW s \in Runs, HashBundle(s)  PROVE TypeOK'
  <2>1. /\ source' \in Sources /\ head' \in Sources
        /\ policy' \in Policies /\ edits' \in 0..MaxEdits
        /\ pc' \in [Runs -> Control] /\ quiet' \in [Runs -> BOOLEAN]
    BY <1>11, StepTypes DEF HashBundle, Control
  <2>. QED  BY <1>11, <2>1 DEF HashBundle, TypeOK, files, checks
<1>12. ASSUME NEW s \in Runs, HashPolicy(s)  PROVE TypeOK'
  <2>1. /\ source' \in Sources /\ head' \in Sources
        /\ policy' \in Policies /\ edits' \in 0..MaxEdits
        /\ pc' \in [Runs -> Control] /\ quiet' \in [Runs -> BOOLEAN]
    BY <1>12, StepTypes DEF HashPolicy, Control
  <2>. QED  BY <1>12, <2>1 DEF HashPolicy, TypeOK, files, checks
<1>13. ASSUME NEW s \in Runs, Replay(s)  PROVE TypeOK'
  <2>1. /\ source' \in Sources /\ head' \in Sources
        /\ policy' \in Policies /\ edits' \in 0..MaxEdits
        /\ pc' \in [Runs -> Control] /\ quiet' \in [Runs -> BOOLEAN]
    BY <1>13, StepTypes DEF Replay, Control
  <2>2. ran' \in [Runs -> SUBSET Bundle]
    BY <1>13 DEF Replay, TypeOK
  <2>. QED  BY <1>13, <2>1, <2>2 DEF Replay, TypeOK, files, checks
<1>14. ASSUME NEW s \in Runs, BeginEvidence(s)  PROVE TypeOK'
  <2>1. /\ source' \in Sources /\ head' \in Sources
        /\ policy' \in Policies /\ edits' \in 0..MaxEdits
        /\ pc' \in [Runs -> Control] /\ quiet' \in [Runs -> BOOLEAN]
    BY <1>14, StepTypes DEF BeginEvidence, Control
  <2>2. evidence' \subseteq Evidence
    BY <1>14, MadeTypes DEF BeginEvidence
  <2>. QED  BY <1>14, <2>1, <2>2 DEF BeginEvidence, TypeOK, reads, checks
<1>15. ASSUME NEW s \in Runs, EndEvidence(s)  PROVE TypeOK'
  <2>1. /\ source' \in Sources /\ head' \in Sources
        /\ policy' \in Policies /\ edits' \in 0..MaxEdits
        /\ pc' \in [Runs -> Control] /\ quiet' \in [Runs -> BOOLEAN]
    BY <1>15, StepTypes DEF EndEvidence, Control
  <2>2. evidence' \subseteq Evidence
    <3>1. PICK h \in hashed[s] :
            evidence' \in {{Made(s, h)}} \cup (IF evidence = {Torn(Made(s, h))} THEN {}
                                               ELSE {{Torn(Made(s, h))}, evidence})
      BY <1>15 DEF EndEvidence
    <3>. QED  BY <3>1, MadeTypes DEF TypeOK
  <2>3. Forget(s)
    BY <1>15 DEF EndEvidence
  <2>. QED  BY <1>15, <2>1, <2>2, <2>3, ForgetTypes DEF EndEvidence, TypeOK
<1>16. ASSUME NEW s \in Runs, BeginVerify(s)  PROVE TypeOK'
  <2>1. /\ source' \in Sources /\ head' \in Sources
        /\ policy' \in Policies /\ edits' \in 0..MaxEdits
        /\ pc' \in [Runs -> Control] /\ quiet' \in [Runs -> BOOLEAN]
    BY <1>16, StepTypes DEF BeginVerify, Control
  <2>. QED  BY <1>16, <2>1 DEF BeginVerify, TypeOK, files
<1>17. ASSUME NEW s \in Runs, LoadEvidence(s)  PROVE TypeOK'
  <2>1. /\ source' \in Sources /\ head' \in Sources
        /\ policy' \in Policies /\ edits' \in 0..MaxEdits
        /\ pc' \in [Runs -> Control] /\ quiet' \in [Runs -> BOOLEAN]
    BY <1>17, StepTypes DEF LoadEvidence, Control
  <2>2. seen' \in [Runs -> SUBSET Loaded]
    BY <1>17 DEF LoadEvidence, TypeOK, Loaded
  <2>. QED  BY <1>17, <2>1, <2>2 DEF LoadEvidence, TypeOK, files, checks
<1>18. ASSUME NEW s \in Runs, VerifyBundleSum(s)  PROVE TypeOK'
  <2>1. /\ source' \in Sources /\ head' \in Sources
        /\ policy' \in Policies /\ edits' \in 0..MaxEdits
        /\ pc' \in [Runs -> Control] /\ quiet' \in [Runs -> BOOLEAN]
    BY <1>18, StepTypes DEF VerifyBundleSum, Control
  <2>. QED  BY <1>18, <2>1 DEF VerifyBundleSum, TypeOK, files, checks
<1>19. ASSUME NEW s \in Runs, VerifyCanonSum(s)  PROVE TypeOK'
  <2>1. /\ source' \in Sources /\ head' \in Sources
        /\ policy' \in Policies /\ edits' \in 0..MaxEdits
        /\ pc' \in [Runs -> Control] /\ quiet' \in [Runs -> BOOLEAN]
    BY <1>19, StepTypes DEF VerifyCanonSum, Control
  <2>. QED  BY <1>19, <2>1 DEF VerifyCanonSum, TypeOK, files, checks
<1>20. ASSUME NEW s \in Runs, Validate(s)  PROVE TypeOK'
  <2>1. /\ source' \in Sources /\ head' \in Sources
        /\ policy' \in Policies /\ edits' \in 0..MaxEdits
        /\ pc' \in [Runs -> Control] /\ quiet' \in [Runs -> BOOLEAN]
    BY <1>20, StepTypes DEF Validate, Control
  <2>2. Forget(s) /\ accepted' \in [Runs -> SUBSET Loaded]
    BY <1>20 DEF Validate, TypeOK
  <2>. QED  BY <1>20, <2>1, <2>2, ForgetTypes DEF Validate, TypeOK, files
<1>21. ASSUME NEW s \in Runs, Report(s)  PROVE TypeOK'
  <2>1. /\ source' \in Sources /\ head' \in Sources
        /\ policy' \in Policies /\ edits' \in 0..MaxEdits
        /\ pc' \in [Runs -> Control] /\ quiet' \in [Runs -> BOOLEAN]
    BY <1>21, StepTypes DEF Report, Control
  <2>2. seen' \in [Runs -> SUBSET Loaded]
    BY <1>21 DEF Report, TypeOK, Loaded
  <2>. QED  BY <1>21, <2>1, <2>2 DEF Report, TypeOK, files, checks
<1>22. ASSUME NEW s \in Runs, WriteAudit(s)  PROVE TypeOK'
  <2>1. /\ source' \in Sources /\ head' \in Sources
        /\ policy' \in Policies /\ edits' \in 0..MaxEdits
        /\ pc' \in [Runs -> Control] /\ quiet' \in [Runs -> BOOLEAN]
    BY <1>22, StepTypes DEF WriteAudit, Control
  <2>2. Forget(s) /\ audit' \subseteq Loaded \X Loaded
    BY <1>22 DEF WriteAudit, TypeOK, Loaded
  <2>. QED  BY <1>22, <2>1, <2>2, ForgetTypes DEF WriteAudit, TypeOK, checks
<1>23. ASSUME NEW s \in Runs, ReleaseGate(s)  PROVE TypeOK'
  <2>1. /\ source' \in Sources /\ head' \in Sources
        /\ policy' \in Policies /\ edits' \in 0..MaxEdits
        /\ pc' \in [Runs -> Control] /\ quiet' \in [Runs -> BOOLEAN]
    BY <1>23, StepTypes DEF ReleaseGate, Control
  <2>. QED  BY <1>23, <2>1 DEF ReleaseGate, TypeOK, files, reads
<1>24. ASSUME NEW s \in Runs, SkipGate(s)  PROVE TypeOK'
  <2>1. /\ source' \in Sources /\ head' \in Sources
        /\ policy' \in Policies /\ edits' \in 0..MaxEdits
        /\ pc' \in [Runs -> Control] /\ quiet' \in [Runs -> BOOLEAN]
    BY <1>24, StepTypes DEF SkipGate, Control
  <2>. QED  BY <1>24, <2>1 DEF SkipGate, TypeOK, files, reads, checks
<1>25. ASSUME NEW s \in Runs, WriteSums(s)  PROVE TypeOK'
  <2>1. /\ source' \in Sources /\ head' \in Sources
        /\ policy' \in Policies /\ edits' \in 0..MaxEdits
        /\ pc' \in [Runs -> Control] /\ quiet' \in [Runs -> BOOLEAN]
    BY <1>25, StepTypes DEF WriteSums, Control
  <2>2. sums' \subseteq Bundle \X Evidence
    BY <1>25 DEF WriteSums, TypeOK
  <2>. QED  BY <1>25, <2>1, <2>2 DEF WriteSums, TypeOK, reads, checks
<1>26. ASSUME NEW s \in Runs, Pass(s)  PROVE TypeOK'
  <2>1. /\ source' \in Sources /\ head' \in Sources
        /\ policy' \in Policies /\ edits' \in 0..MaxEdits
        /\ pc' \in [Runs -> Control] /\ quiet' \in [Runs -> BOOLEAN]
    BY <1>26, StepTypes DEF Pass, Control
  <2>. QED  BY <1>26, <2>1 DEF Pass, TypeOK, reads, checks
<1>27. ASSUME NEW s \in Runs, Stop(s)  PROVE TypeOK'
  BY <1>27, HaltTypes DEF Stop, TypeOK, files
<1>31. ASSUME NEW s \in Runs, StopInPack(s)  PROVE TypeOK'
  <2>1. PICK b \in bundle : bundle' = {Damaged(b, s)}
    BY <1>31 DEF StopInPack
  <2>2. bundle' \subseteq Bundle
    BY <2>1, DamagedTypes DEF TypeOK
  <2>. QED  BY <1>31, <2>2, HaltTypes DEF StopInPack, TypeOK
<1>32. ASSUME NEW s \in Runs, StopInEvidence(s)  PROVE TypeOK'
  <2>1. evidence' \subseteq Evidence
    BY <1>32, MadeTypes DEF StopInEvidence
  <2>. QED  BY <1>32, <2>1, HaltTypes DEF StopInEvidence, TypeOK
<1>. QED
  BY <1>1, <1>2, <1>3, <1>4, <1>5, <1>6, <1>7, <1>8, <1>9, <1>10, <1>11, <1>12, <1>13,
     <1>14,
     <1>15, <1>16, <1>17, <1>18, <1>19, <1>20, <1>21, <1>22, <1>23, <1>24, <1>25, <1>26,
          <1>27,
     <1>28, <1>29, <1>30, <1>31, <1>32
     DEF Next

(* The files, the digests and what every invocation has read keep their    *)
(* types, whoever else writes into the directory.                          *)
THEOREM TypeCorrect == Spec => []TypeOK
<1>1. Init => TypeOK
  BY SourcesAssumption, PoliciesAssumption, EditsAssumption DEF Init, TypeOK, Control
<1>. QED  BY <1>1, TypeStays, PTL DEF Spec

-----------------------------------------------------------------------------
(* Who moves.  A step is one of an invocation k, or leaves what is k's own *)
(* as it is.                                                               *)
Own(k) ==
  \/ Start(k) \/ Build(k) \/ Preflight(k) \/ ReadBinary(k) \/ ReadInputs(k) \/
     CreateBundle(k) \/ Pack(k)
  \/ LoadPolicy(k) \/ ReadManifest(k) \/ HashBundle(k) \/ HashPolicy(k)
  \/ Replay(k) \/ BeginEvidence(k) \/ EndEvidence(k)
  \/ BeginVerify(k) \/ LoadEvidence(k) \/ VerifyBundleSum(k) \/ VerifyCanonSum(k)
  \/ Validate(k) \/ Report(k) \/ WriteAudit(k) \/ ReleaseGate(k) \/ SkipGate(k)
  \/ WriteSums(k) \/ Pass(k) \/ Stop(k) \/ StopInPack(k) \/ StopInEvidence(k)

Unmoved(k) ==
  /\ pc'[k] = pc[k] /\ commit'[k] = commit[k]
  /\ loaded'[k] = loaded[k] /\ control'[k] = control[k] /\ hashed'[k] = hashed[k]
  /\ policySum'[k] = policySum[k] /\ ran'[k] = ran[k] /\ seen'[k] = seen[k]
  /\ gate'[k] = gate[k] /\ accepted'[k] = accepted[k]

LEMMA StepOfOther ==
  ASSUME TypeOK, NEW k \in Runs, NEW s \in Runs \ {k}, Own(s)
  PROVE  Unmoved(k)
<1>. USE DEF Unmoved, TypeOK, Step
<1>1. CASE Start(s) \/ Build(s) \/ Preflight(s) \/ ReadBinary(s) \/ ReadInputs(s) \/
           CreateBundle(s) \/ Pack(s)
  BY <1>1 DEF Start, Build, Preflight, ReadBinary, ReadInputs, CreateBundle, Pack, Forget,
     reads, checks
<1>2. CASE LoadPolicy(s) \/ ReadManifest(s) \/ HashBundle(s) \/ HashPolicy(s) \/ Replay(s)
  BY <1>2 DEF LoadPolicy, ReadManifest, HashBundle, HashPolicy, Replay, checks
<1>3. CASE BeginEvidence(s) \/ EndEvidence(s)
  BY <1>3 DEF BeginEvidence, EndEvidence, reads, checks, Forget
<1>4. CASE BeginVerify(s) \/ LoadEvidence(s) \/ VerifyBundleSum(s) \/ VerifyCanonSum(s)
  BY <1>4 DEF BeginVerify, LoadEvidence, VerifyBundleSum, VerifyCanonSum, checks
<1>5. CASE Validate(s) \/ Report(s) \/ WriteAudit(s)
  BY <1>5 DEF Validate, Report, WriteAudit, Forget, checks
<1>6. CASE ReleaseGate(s) \/ SkipGate(s) \/ WriteSums(s) \/ Pass(s) \/ Stop(s) \/
           StopInPack(s) \/ StopInEvidence(s)
  BY <1>6 DEF ReleaseGate, SkipGate, WriteSums, Pass, Stop, StopInPack, StopInEvidence,
     Halt, Forget, reads, checks
<1>. QED  BY <1>1, <1>2, <1>3, <1>4, <1>5, <1>6 DEF Own

LEMMA OneMoves == TypeOK /\ [Next]_vars => \A k \in Runs : Own(k) \/ Unmoved(k)
<1> SUFFICES ASSUME TypeOK, [Next]_vars, NEW k \in Runs, ~Own(k)  PROVE Unmoved(k)
  OBVIOUS
<1>1. CASE UNCHANGED vars
  BY <1>1 DEF vars, reads, checks, Unmoved
<1>2. CASE EditSource \/ Commit \/ EditPolicy
  BY <1>2 DEF EditSource, Commit, EditPolicy, reads, checks, Unmoved
<1>3. ASSUME NEW s \in Runs, Own(s)  PROVE Unmoved(k)
  BY <1>3, StepOfOther
<1>. QED  BY <1>1, <1>2, <1>3 DEF Next, Own

-----------------------------------------------------------------------------
(* An archive that the directory has left behind does not come back: every *)
(* invocation begins one archive, completes it at most once, and damages   *)
(* at most once what is there in its place.                                *)
Early == {"idle", "build", "preflight", "prepare", "inputs", "create"}

Sealed(b) == /\ pc[b.by] \notin Early /\ (b.whole => pc[b.by] # "pack")
             /\ \A k \in b.others : pc[k] \notin Early \cup {"pack"}

LEMMA ForwardOnly ==
  ASSUME TypeOK, NEW k \in Runs, Own(k)
  PROVE  /\ pc'[k] \in Early => pc[k] \in Early
         /\ pc'[k] = "pack" => pc[k] = "create"
<1>. USE DEF TypeOK, Step, Early
<1>1. CASE Start(k) \/ Build(k) \/ Preflight(k) \/ ReadBinary(k) \/ ReadInputs(k) \/
           CreateBundle(k) \/ Pack(k)
  BY <1>1 DEF Start, Build, Preflight, ReadBinary, ReadInputs, CreateBundle, Pack
<1>2. CASE LoadPolicy(k) \/ ReadManifest(k) \/ HashBundle(k) \/ HashPolicy(k) \/ Replay(k)
  BY <1>2 DEF LoadPolicy, ReadManifest, HashBundle, HashPolicy, Replay
<1>3. CASE BeginEvidence(k) \/ EndEvidence(k)
  BY <1>3 DEF BeginEvidence, EndEvidence
<1>4. CASE BeginVerify(k) \/ LoadEvidence(k) \/ VerifyBundleSum(k) \/ VerifyCanonSum(k)
  BY <1>4 DEF BeginVerify, LoadEvidence, VerifyBundleSum, VerifyCanonSum
<1>5. CASE Validate(k) \/ Report(k) \/ WriteAudit(k)
  BY <1>5 DEF Validate, Report, WriteAudit
<1>6. CASE ReleaseGate(k) \/ SkipGate(k) \/ WriteSums(k) \/ Pass(k) \/ Stop(k) \/
           StopInPack(k) \/ StopInEvidence(k)
  BY <1>6 DEF ReleaseGate, SkipGate, WriteSums, Pass, Stop, StopInPack, StopInEvidence, Halt
<1>. QED  BY <1>1, <1>2, <1>3, <1>4, <1>5, <1>6 DEF Own

LEMMA SealedStays ==
  ASSUME TypeOK, [Next]_vars, NEW b \in Bundle, Sealed(b)
  PROVE  Sealed(b)'
<1>1. b.by \in Runs /\ b.others \subseteq Runs
  BY DEF Bundle
<1>. QED  BY <1>1, OneMoves, ForwardOnly DEF Sealed, Unmoved, Early

LEMMA ArchiveChanges ==
  ASSUME TypeOK, [Next]_vars
  PROVE  bundle' = bundle \/ \E s \in Runs : CreateBundle(s) \/ Pack(s) \/ StopInPack(s)
<1>1. CASE UNCHANGED vars
  BY <1>1 DEF vars, files
<1>2. CASE EditSource \/ Commit \/ EditPolicy
  BY <1>2 DEF EditSource, Commit, EditPolicy, files
<1>3. ASSUME NEW s \in Runs, Own(s)
      PROVE bundle' = bundle \/ CreateBundle(s) \/ Pack(s) \/ StopInPack(s)
  BY <1>3 DEF Own, Start, Build, Preflight, ReadBinary, ReadInputs, LoadPolicy,
     ReadManifest, HashBundle, HashPolicy,
       Replay, BeginEvidence, EndEvidence, BeginVerify, LoadEvidence, VerifyBundleSum,
       VerifyCanonSum, Validate, Report, WriteAudit, ReleaseGate, SkipGate, WriteSums, Pass,
       Stop, StopInPack, StopInEvidence, Halt, files
<1>. QED  BY <1>1, <1>2, <1>3 DEF Next, Own

LEMMA GoneForGood ==
  ASSUME TypeOK, [Next]_vars, NEW b \in Bundle, Sealed(b), b \in bundle'
  PROVE  b \in bundle
<1>1. CASE bundle' = bundle
  BY <1>1
<1>2. ASSUME NEW s \in Runs, CreateBundle(s)  PROVE FALSE
  <2>1. b = Torn(Archive(s)) /\ pc[s] = "create"
    BY <1>2 DEF CreateBundle, Step
  <2>. QED  BY <2>1, ArchiveTypes DEF Sealed, Early
<1>3. ASSUME NEW s \in Runs, Pack(s) \/ StopInPack(s)  PROVE b \in bundle
  <2>1. pc[s] = "pack"
    BY <1>3 DEF Pack, StopInPack, Step
  <2>2. PICK c \in bundle : bundle' \in {bundle, {Archive(s)}, {Damaged(c, s)}}
    BY <1>3 DEF Pack, StopInPack
  <2>3. c \in Bundle
    BY DEF TypeOK
  <2>4. b # Archive(s)
    BY <2>1, ArchiveTypes DEF Sealed
  <2>5. b # Damaged(c, s)
    BY <2>1, <2>3, DamagedTypes DEF Sealed
  <2>. QED  BY <2>2, <2>4, <2>5
<1>. QED  BY <1>1, <1>2, <1>3, ArchiveChanges

-----------------------------------------------------------------------------
(* What the evidence says of its bundle, as long as the directory holds    *)
(* that bundle.                                                            *)
Lone(X) == \A x, y \in X : x = y

Sound(e) == /\ e.ran # {} /\ \A b \in e.ran : b.whole
            /\ e.bundle \in bundle => e.ran = {e.bundle}

(* No archive is known before it is made. *)
Known ==
  /\ \A b \in bundle : Sealed(b)
  /\ \A s \in Runs : \A b \in hashed[s] : Sealed(b)
  /\ \A e \in evidence : Sealed(e.bundle)
  /\ \A s \in Runs : \A e \in seen[s] : Sealed(e.bundle)

(* A file has one content. *)
Single == Lone(bundle) /\ Lone(evidence) /\ \A s \in Runs : Lone(seen[s])

(* The replays of a run that has taken the digest of its bundle. *)
Replayed(s) ==
  pc[s] \in {"replay", "evidence"} =>
    /\ \A b \in ran[s] : b.whole
    /\ pc[s] = "evidence" => ran[s] # {}
    /\ \A h \in hashed[s] : h \in bundle => ran[s] \subseteq {h}

Collected == /\ \A e \in evidence : Sound(e)
             /\ \A s \in Runs : \A e \in seen[s] : Sound(e)

(* What a verification has established once it has hashed the bundle. *)
Compared(s) ==
  pc[s] \in {"vCanon", "vPolicy"} =>
    \A e \in seen[s], h \in hashed[s] : e.bundle = h => h.whole /\ e.ran = {h}

Passed(s) == \A e \in accepted[s] : e.bundle.whole /\ e.ran = {e.bundle}

IInv == TypeOK /\ Known /\ Single /\ Collected
        /\ \A s \in Runs : Replayed(s) /\ Compared(s) /\ Passed(s)

LEMMA SoundStays ==
  ASSUME TypeOK, [Next]_vars, NEW e \in Evidence, Sealed(e.bundle), Sound(e)
  PROVE  Sound(e)'
<1>1. e.bundle \in Bundle
  BY DEF Evidence
<1>. QED  BY <1>1, GoneForGood DEF Sound

(* What a step may have made of a file, and of what an invocation has read. *)
LEMMA EvidenceChanges ==
  ASSUME TypeOK, [Next]_vars
  PROVE  evidence' = evidence \/ \E s \in Runs : BeginEvidence(s) \/ EndEvidence(s) \/
       StopInEvidence(s)
<1>1. CASE UNCHANGED vars
  BY <1>1 DEF vars, files
<1>2. CASE EditSource \/ Commit \/ EditPolicy
  BY <1>2 DEF EditSource, Commit, EditPolicy, files
<1>3. ASSUME NEW s \in Runs, Own(s)
      PROVE evidence' = evidence \/ BeginEvidence(s) \/ EndEvidence(s) \/ StopInEvidence(s)
  BY <1>3 DEF Own, Start, Build, Preflight, ReadBinary, ReadInputs, CreateBundle, Pack,
     LoadPolicy, ReadManifest, HashBundle,
       HashPolicy, Replay, BeginVerify, LoadEvidence, VerifyBundleSum,
       VerifyCanonSum, Validate, Report, WriteAudit, ReleaseGate, SkipGate, WriteSums, Pass,
       Stop, StopInPack, StopInEvidence, Halt, files
<1>. QED  BY <1>1, <1>2, <1>3 DEF Next, Own

LEMMA ReadsChange ==
  ASSUME TypeOK, [Next]_vars, NEW k \in Runs
  PROVE  /\ hashed'[k] \in {hashed[k], bundle, {}}
         /\ seen'[k] \in {seen[k], evidence, {}}
<1>. USE DEF TypeOK
<1>1. CASE Unmoved(k)
  BY <1>1 DEF Unmoved
<1>2. CASE Start(k) \/ Build(k) \/ Preflight(k) \/ ReadBinary(k) \/ ReadInputs(k) \/
           CreateBundle(k) \/ Pack(k)
  BY <1>2 DEF Start, Build, Preflight, ReadBinary, ReadInputs, CreateBundle, Pack, reads,
     Forget
<1>3. CASE LoadPolicy(k) \/ ReadManifest(k) \/ HashBundle(k) \/ HashPolicy(k) \/ Replay(k)
  BY <1>3 DEF LoadPolicy, ReadManifest, HashBundle, HashPolicy, Replay
<1>4. CASE BeginEvidence(k) \/ EndEvidence(k)
  BY <1>4 DEF BeginEvidence, EndEvidence, reads, Forget
<1>5. CASE BeginVerify(k) \/ LoadEvidence(k) \/ VerifyBundleSum(k) \/ VerifyCanonSum(k)
  BY <1>5 DEF BeginVerify, LoadEvidence, VerifyBundleSum, VerifyCanonSum
<1>6. CASE Validate(k) \/ Report(k) \/ WriteAudit(k)
  BY <1>6 DEF Validate, Report, WriteAudit, Forget
<1>7. CASE ReleaseGate(k) \/ SkipGate(k) \/ WriteSums(k) \/ Pass(k) \/ Stop(k) \/
           StopInPack(k) \/ StopInEvidence(k)
  BY <1>7 DEF ReleaseGate, SkipGate, WriteSums, Pass, Stop, StopInPack, StopInEvidence,
     Halt, reads, Forget
<1>. QED  BY <1>1, <1>2, <1>3, <1>4, <1>5, <1>6, <1>7, OneMoves DEF Own

(* What evidence can be new: that of an invocation that is at it. *)
LEMMA NewEvidence ==
  ASSUME TypeOK, [Next]_vars, NEW e \in evidence', e \notin evidence
  PROVE  \E s \in Runs : \E h \in hashed[s] :
           /\ BeginEvidence(s) \/ EndEvidence(s) \/ StopInEvidence(s)
           /\ e.bundle = h /\ e.ran = ran[s]
<1>1. PICK s \in Runs : BeginEvidence(s) \/ EndEvidence(s) \/ StopInEvidence(s)
  BY EvidenceChanges
<1>2. CASE BeginEvidence(s) \/ StopInEvidence(s)
  <2>1. PICK h \in hashed[s] : evidence' = {Torn(Made(s, h))}
    BY <1>2 DEF BeginEvidence, StopInEvidence
  <2>2. e = Torn(Made(s, h))
    BY <2>1
  <2>3. e.bundle = h /\ e.ran = ran[s]
    BY <2>2 DEF Torn, Made
  <2>. QED  BY <1>2, <2>3
<1>3. CASE EndEvidence(s)
  <2>1. PICK h \in hashed[s] :
          evidence' \in {{Made(s, h)}} \cup (IF evidence = {Torn(Made(s, h))} THEN {}
                                             ELSE {{Torn(Made(s, h))}, evidence})
    BY <1>3 DEF EndEvidence
  <2>2. e \in {Made(s, h), Torn(Made(s, h))}
    BY <2>1
  <2>3. e.bundle = h /\ e.ran = ran[s]
    BY <2>2 DEF Made, Torn
  <2>. QED  BY <1>3, <2>3
<1>. QED  BY <1>1, <1>2, <1>3

LEMMA KnownStays == IInv /\ [Next]_vars => Known'
<1> SUFFICES ASSUME IInv, [Next]_vars  PROVE Known'
  OBVIOUS
<1>1. TypeOK /\ TypeOK' /\ Known
  BY TypeStays DEF IInv
<1>2. ASSUME NEW b \in bundle'  PROVE Sealed(b)'
  <2>1. b \in Bundle
    BY <1>1 DEF TypeOK
  <2>2. CASE b \in bundle
    BY <1>1, <2>1, <2>2, SealedStays DEF Known
  <2>3. ASSUME NEW s \in Runs, CreateBundle(s)  PROVE Sealed(b)'
    <3>1. b = Torn(Archive(s)) /\ pc'[s] = "pack"
      BY <1>1, <2>3 DEF CreateBundle, Step, TypeOK
    <3>. QED  BY <1>1, <3>1, ArchiveTypes DEF Sealed, Early
  <2>4. ASSUME NEW s \in Runs, Pack(s) \/ StopInPack(s), b \notin bundle  PROVE Sealed(b)'
    <3>1. PICK c \in bundle : b \in {Archive(s), Damaged(c, s)}
      BY <2>4 DEF Pack, StopInPack
    <3>2. pc' \in [Runs -> Control] /\ pc'[s] \in {"load", "stopped"}
      BY <1>1, <2>4 DEF Pack, StopInPack, Halt, Step, TypeOK
    <3>3. CASE b = Archive(s)
      BY <1>1, <3>2, <3>3, ArchiveTypes DEF Sealed, Early
    <3>4. CASE b = Damaged(c, s)
      <4>1. c \in Bundle /\ Sealed(c)' /\ ~b.whole /\ b.by = c.by
            /\ b.others = c.others \cup {s}
        BY <1>1, <3>4, SealedStays, DamagedTypes DEF Known, TypeOK
      <4>. QED  BY <3>2, <4>1 DEF Sealed, Early
    <3>. QED  BY <3>1, <3>3, <3>4
  <2>. QED  BY <1>1, <2>2, <2>3, <2>4, ArchiveChanges
<1>3. ASSUME NEW s \in Runs, NEW b \in hashed'[s]  PROVE Sealed(b)'
  <2>1. b \in Bundle
    BY <1>1 DEF TypeOK
  <2>2. b \in hashed[s] \/ b \in bundle
    BY <1>1, ReadsChange
  <2>. QED  BY <1>1, <2>1, <2>2, SealedStays DEF Known
<1>4. ASSUME NEW e \in evidence'  PROVE Sealed(e.bundle)'
  <2>1. e.bundle \in Bundle
    BY <1>1 DEF TypeOK, Evidence
  <2>2. Sealed(e.bundle)
    BY <1>1, NewEvidence DEF Known
  <2>. QED  BY <1>1, <2>1, <2>2, SealedStays
<1>5. ASSUME NEW s \in Runs, NEW e \in seen'[s]  PROVE Sealed(e.bundle)'
  <2>1. e.bundle \in Bundle
    BY <1>1 DEF TypeOK, Evidence, Loaded
  <2>2. Sealed(e.bundle)
    BY <1>1, ReadsChange DEF Known
  <2>. QED  BY <1>1, <2>1, <2>2, SealedStays
<1>. QED  BY <1>2, <1>3, <1>4, <1>5 DEF Known

LEMMA SingleStays == IInv /\ [Next]_vars => Single'
<1> SUFFICES ASSUME IInv, [Next]_vars  PROVE Single'
  OBVIOUS
<1>1. TypeOK /\ Single
  BY DEF IInv
<1>2. Lone(bundle)'
  <2>1. ASSUME NEW s \in Runs, CreateBundle(s)  PROVE Lone(bundle)'
    BY <2>1 DEF CreateBundle, Lone
  <2>2. ASSUME NEW s \in Runs, Pack(s) \/ StopInPack(s)  PROVE Lone(bundle)'
    <3>1. PICK c \in bundle : bundle' \in {bundle, {Archive(s)}, {Damaged(c, s)}}
      BY <2>2 DEF Pack, StopInPack
    <3>. QED  BY <1>1, <3>1 DEF Lone, Single
  <2>. QED  BY <1>1, <2>1, <2>2, ArchiveChanges DEF Single, Lone
<1>3. Lone(evidence)'
  <2>1. ASSUME NEW s \in Runs, BeginEvidence(s)  PROVE Lone(evidence)'
    BY <2>1 DEF BeginEvidence, Lone
  <2>2. ASSUME NEW s \in Runs, EndEvidence(s) \/ StopInEvidence(s)  PROVE Lone(evidence)'
    BY <1>1, <2>2 DEF EndEvidence, StopInEvidence, Lone, Single
  <2>. QED  BY <1>1, <2>1, <2>2, EvidenceChanges DEF Single, Lone
<1>4. ASSUME NEW s \in Runs  PROVE Lone(seen[s])'
  BY <1>1, ReadsChange DEF Single, Lone
<1>. QED  BY <1>2, <1>3, <1>4 DEF Single

LEMMA CollectedStays == IInv /\ [Next]_vars => Collected'
<1> SUFFICES ASSUME IInv, [Next]_vars  PROVE Collected'
  OBVIOUS
<1>1. TypeOK /\ TypeOK' /\ Known /\ Collected
  BY TypeStays DEF IInv
<1>2. ASSUME NEW e \in evidence'  PROVE Sound(e)'
  <2>1. CASE e \in evidence
    BY <1>1, <2>1, SoundStays DEF Known, Collected, TypeOK
  <2>2. CASE e \notin evidence
    <3>1. PICK s \in Runs : \E h \in hashed[s] :
            /\ BeginEvidence(s) \/ EndEvidence(s) \/ StopInEvidence(s)
            /\ e.bundle = h /\ e.ran = ran[s]
      BY <1>1, <2>2, NewEvidence
    <3>2. pc[s] \in {"replay", "evidence"} /\ Replayed(s) /\ bundle' = bundle
      BY <3>1 DEF IInv, BeginEvidence, EndEvidence, StopInEvidence, Step
    <3>3. ran[s] # {}
      BY <3>1, <3>2 DEF BeginEvidence, EndEvidence, StopInEvidence, Step, Replayed
    <3>. QED  BY <3>1, <3>2, <3>3 DEF Replayed, Sound
  <2>. QED  BY <2>1, <2>2
<1>3. ASSUME NEW s \in Runs, NEW e \in seen'[s]  PROVE Sound(e)'
  <2>1. e \in Evidence
    BY <1>1 DEF TypeOK, Loaded
  <2>2. Sound(e) /\ Sealed(e.bundle)
    BY <1>1, ReadsChange DEF Known, Collected
  <2>. QED  BY <1>1, <2>1, <2>2, SoundStays
<1>. QED  BY <1>2, <1>3 DEF Collected

LEMMA ReplayedStays == IInv /\ [Next]_vars => \A s \in Runs : Replayed(s)'
<1> SUFFICES ASSUME IInv, [Next]_vars, NEW s \in Runs, pc'[s] \in {"replay", "evidence"}
             PROVE  Replayed(s)'
  BY DEF Replayed
<1>1. TypeOK /\ Known /\ Single /\ Replayed(s)
  BY DEF IInv
<1>2. CASE Unmoved(s)
  <2>1. \A h \in hashed[s] : h \in Bundle /\ Sealed(h)
    BY <1>1 DEF TypeOK, Known
  <2>2. \A h \in hashed[s] : h \in bundle' => h \in bundle
    BY <1>1, <2>1, GoneForGood
  <2>. QED  BY <1>1, <1>2, <2>2 DEF Unmoved, Replayed
<1>3. CASE HashPolicy(s)
  BY <1>1, <1>3 DEF HashPolicy, Step, Replayed, TypeOK, files
<1>4. CASE Replay(s)
  BY <1>1, <1>4 DEF Replay, Step, Replayed, TypeOK, files, Single, Lone
<1>5. CASE BeginEvidence(s)
  BY <1>1, <1>5 DEF BeginEvidence, Step, Replayed, TypeOK, reads
<1>6. Unmoved(s) \/ HashPolicy(s) \/ Replay(s) \/ BeginEvidence(s)
  <2>1. CASE Own(s)
    BY <1>1, <2>1 DEF Own, TypeOK, Step, Start, Build, Preflight, ReadBinary, ReadInputs,
       CreateBundle, Pack, LoadPolicy,
       ReadManifest, HashBundle, EndEvidence, BeginVerify, LoadEvidence, VerifyBundleSum,
       VerifyCanonSum, Validate, Report, WriteAudit, ReleaseGate, SkipGate, WriteSums,
            Pass, Stop, StopInPack, StopInEvidence, Halt
  <2>. QED  BY <1>1, <2>1, OneMoves
<1>. QED  BY <1>2, <1>3, <1>4, <1>5, <1>6

LEMMA ComparedStays == IInv /\ [Next]_vars => \A s \in Runs : Compared(s)'
<1> SUFFICES ASSUME IInv, [Next]_vars, NEW s \in Runs, pc'[s] \in {"vCanon", "vPolicy"}
             PROVE  Compared(s)'
  BY DEF Compared
<1>1. TypeOK /\ Collected /\ Compared(s)
  BY DEF IInv
<1>2. CASE Unmoved(s)
  BY <1>1, <1>2 DEF Unmoved, Compared
<1>3. CASE VerifyBundleSum(s)
  BY <1>1, <1>3 DEF VerifyBundleSum, Step, Compared, TypeOK, Collected, Sound
<1>4. CASE VerifyCanonSum(s)
  BY <1>1, <1>4 DEF VerifyCanonSum, Step, Compared, TypeOK
<1>5. Unmoved(s) \/ VerifyBundleSum(s) \/ VerifyCanonSum(s)
  <2>1. CASE Own(s)
    BY <1>1, <2>1 DEF Own, TypeOK, Step, Start, Build, Preflight, ReadBinary, ReadInputs,
       CreateBundle, Pack, LoadPolicy,
       ReadManifest, HashBundle, HashPolicy, Replay, BeginEvidence, EndEvidence,
            BeginVerify,
       LoadEvidence, Validate, Report, WriteAudit, ReleaseGate, SkipGate, WriteSums, Pass,
            Stop, StopInPack, StopInEvidence, Halt
  <2>. QED  BY <1>1, <2>1, OneMoves
<1>. QED  BY <1>2, <1>3, <1>4, <1>5

LEMMA AcceptedChanges ==
  ASSUME TypeOK, [Next]_vars, NEW k \in Runs
  PROVE  accepted'[k] \in {accepted[k], {}} \/ Validate(k)
<1>. USE DEF TypeOK
<1>1. CASE Unmoved(k)
  BY <1>1 DEF Unmoved
<1>2. CASE Start(k) \/ Build(k) \/ Preflight(k) \/ ReadBinary(k) \/ ReadInputs(k) \/
           CreateBundle(k) \/ Pack(k)
  BY <1>2 DEF Start, Build, Preflight, ReadBinary, ReadInputs, CreateBundle, Pack, checks
<1>3. CASE LoadPolicy(k) \/ ReadManifest(k) \/ HashBundle(k) \/ HashPolicy(k) \/ Replay(k)
  BY <1>3 DEF LoadPolicy, ReadManifest, HashBundle, HashPolicy, Replay, checks
<1>4. CASE BeginEvidence(k) \/ EndEvidence(k)
  BY <1>4 DEF BeginEvidence, EndEvidence, checks
<1>5. CASE BeginVerify(k) \/ LoadEvidence(k) \/ VerifyBundleSum(k) \/ VerifyCanonSum(k)
  BY <1>5 DEF BeginVerify, LoadEvidence, VerifyBundleSum, VerifyCanonSum, checks
<1>6. CASE Report(k) \/ WriteAudit(k)
  BY <1>6 DEF Report, WriteAudit, checks
<1>7. CASE ReleaseGate(k) \/ SkipGate(k) \/ WriteSums(k) \/ Pass(k) \/ Stop(k) \/
           StopInPack(k) \/ StopInEvidence(k)
  BY <1>7 DEF ReleaseGate, SkipGate, WriteSums, Pass, Stop, StopInPack, StopInEvidence,
     Halt, checks
<1>. QED  BY <1>1, <1>2, <1>3, <1>4, <1>5, <1>6, <1>7, OneMoves DEF Own

LEMMA PassedStays == IInv /\ [Next]_vars => \A s \in Runs : Passed(s)'
<1> SUFFICES ASSUME IInv, [Next]_vars, NEW s \in Runs  PROVE Passed(s)'
  OBVIOUS
<1>1. TypeOK /\ Single /\ Compared(s) /\ Passed(s)
  BY DEF IInv
<1>2. CASE Validate(s)
  <2>1. PICK e \in seen[s], h \in hashed[s] : Valid(s, e, h, policy)
    BY <1>2 DEF Validate
  <2>2. h.whole /\ e.ran = {h} /\ e.bundle = h
    BY <1>1, <1>2, <2>1 DEF Validate, Step, Compared, Valid
  <2>3. accepted'[s] = {e}
    BY <1>1, <1>2 DEF Validate, TypeOK, Single, Lone
  <2>. QED  BY <2>2, <2>3 DEF Passed
<1>3. CASE accepted'[s] \in {accepted[s], {}}
  BY <1>1, <1>3 DEF Passed
<1>. QED  BY <1>1, <1>2, <1>3, AcceptedChanges

THEOREM Invariance == Spec => []IInv
<1>1. Init => IInv
  <2> SUFFICES ASSUME Init  PROVE IInv
    OBVIOUS
  <2>1. TypeOK
    BY SourcesAssumption, PoliciesAssumption, EditsAssumption DEF Init, TypeOK, Control
  <2>. QED
    BY <2>1 DEF Init, IInv, Known, Single, Lone, Collected, Replayed, Compared, Passed
<1>2. IInv /\ [Next]_vars => IInv'
  BY TypeStays, KnownStays, SingleStays, CollectedStays, ReplayedStays, ComparedStays,
     PassedStays
     DEF IInv
<1>. QED  BY <1>1, <1>2, PTL DEF Spec

(* Whatever invocations share the directory and however they interleave,   *)
(* evidence is accepted only of one whole archive that all its replays had *)
(* and whose digest it has.                                                *)
THEOREM AcceptedIsCertified == Spec => []Certified
<1>1. IInv => Certified
  BY DEF IInv, Passed, Certified
<1>. QED  BY <1>1, Invariance, PTL

-----------------------------------------------------------------------------
(* A verification that no edit has disturbed compares with the policy it   *)
(* has loaded.                                                             *)
Verifying == {"vEvidence", "vBundle", "vCanon", "vPolicy"}

Steady(s) == pc[s] \in Verifying /\ stable[s] => loaded[s] = policy

Held(s) == \A e \in accepted[s] : stable[s] => Covers(e.loaded, e.policySum)

LEMMA StableMeans ==
  ASSUME TypeOK, [Next]_vars, NEW k \in Runs, stable'[k]
  PROVE  policy' = policy /\ (stable[k] \/ BeginVerify(k))
<1>. USE DEF TypeOK, Step
<1>1. CASE UNCHANGED vars
  BY <1>1 DEF vars, checks
<1>2. CASE EditSource \/ Commit \/ EditPolicy
  BY <1>2 DEF EditSource, Commit, EditPolicy, checks
<1>3. ASSUME NEW s \in Runs, Start(s) \/ Build(s) \/ Preflight(s) \/ ReadBinary(s) \/
                    ReadInputs(s) \/ CreateBundle(s) \/ Pack(s)
      PROVE  policy' = policy /\ stable[k]
  BY <1>3 DEF Start, Build, Preflight, ReadBinary, ReadInputs, CreateBundle, Pack, checks
<1>4. ASSUME NEW s \in Runs,
             LoadPolicy(s) \/ ReadManifest(s) \/ HashBundle(s) \/ HashPolicy(s) \/ Replay(s)
      PROVE  policy' = policy /\ stable[k]
  BY <1>4 DEF LoadPolicy, ReadManifest, HashBundle, HashPolicy, Replay, checks
<1>5. ASSUME NEW s \in Runs, BeginEvidence(s) \/ EndEvidence(s)
      PROVE  policy' = policy /\ stable[k]
  BY <1>5 DEF BeginEvidence, EndEvidence, checks
<1>6. ASSUME NEW s \in Runs, BeginVerify(s)
      PROVE  policy' = policy /\ (stable[k] \/ BeginVerify(k))
  BY <1>6 DEF BeginVerify
<1>7. ASSUME NEW s \in Runs, LoadEvidence(s) \/ VerifyBundleSum(s) \/ VerifyCanonSum(s)
      PROVE  policy' = policy /\ stable[k]
  BY <1>7 DEF LoadEvidence, VerifyBundleSum, VerifyCanonSum, checks
<1>8. ASSUME NEW s \in Runs, Validate(s) \/ Report(s) \/ WriteAudit(s)
      PROVE  policy' = policy /\ stable[k]
  BY <1>8 DEF Validate, Report, WriteAudit, checks
<1>9. ASSUME NEW s \in Runs, ReleaseGate(s) \/ SkipGate(s) \/ WriteSums(s) \/ Pass(s) \/
                    Stop(s) \/ StopInPack(s) \/ StopInEvidence(s)
      PROVE  policy' = policy /\ stable[k]
  BY <1>9 DEF ReleaseGate, SkipGate, WriteSums, Pass, Stop, StopInPack, StopInEvidence,
     Halt, checks
<1>. QED  BY <1>1, <1>2, <1>3, <1>4, <1>5, <1>6, <1>7, <1>8, <1>9 DEF Next

LEMMA SteadyStays ==
  ASSUME TypeOK, [Next]_vars, NEW s \in Runs, Steady(s)
  PROVE  Steady(s)'
<1> SUFFICES ASSUME pc'[s] \in Verifying, stable'[s]  PROVE loaded'[s] = policy'
  BY DEF Steady
<1>1. policy' = policy /\ (stable[s] \/ BeginVerify(s))
  BY StableMeans
<1>2. CASE Unmoved(s)
  BY <1>1, <1>2 DEF Unmoved, Steady, BeginVerify, Step, TypeOK, Verifying
<1>3. CASE BeginVerify(s)
  BY <1>1, <1>3 DEF BeginVerify, TypeOK
<1>4. CASE LoadEvidence(s) \/ VerifyBundleSum(s) \/ VerifyCanonSum(s)
  BY <1>1, <1>4 DEF LoadEvidence, VerifyBundleSum, VerifyCanonSum, BeginVerify, Step,
     TypeOK,
     Steady, Verifying
<1>5. Unmoved(s) \/ BeginVerify(s) \/ LoadEvidence(s) \/ VerifyBundleSum(s) \/
     VerifyCanonSum(s)
  <2>1. CASE Own(s)
    BY <2>1 DEF Own, TypeOK, Step, Start, Build, Preflight, ReadBinary, ReadInputs,
       CreateBundle, Pack, LoadPolicy,
       ReadManifest, HashBundle, HashPolicy, Replay, BeginEvidence, EndEvidence,
       Validate, Report, WriteAudit, ReleaseGate, SkipGate, WriteSums, Pass, Stop,
            StopInPack, StopInEvidence, Halt, Verifying
  <2>. QED  BY <2>1, OneMoves
<1>. QED  BY <1>2, <1>3, <1>4, <1>5

LEMMA HeldStays ==
  ASSUME IInv, [Next]_vars, NEW s \in Runs, Steady(s), Held(s)
  PROVE  Held(s)'
<1>1. TypeOK /\ Single
  BY DEF IInv
<1> SUFFICES ASSUME stable'[s], NEW e \in accepted'[s]  PROVE Covers(e.loaded, e.policySum)
  BY DEF Held
<1>2. policy' = policy /\ (stable[s] \/ BeginVerify(s))
  BY <1>1, StableMeans
<1>3. CASE BeginVerify(s)
  BY <1>1, <1>3 DEF BeginVerify, TypeOK
<1>4. CASE Validate(s) /\ stable[s]
  <2>1. PICK d \in seen[s], h \in hashed[s] : Valid(s, d, h, policy)
    BY <1>4 DEF Validate
  <2>2. e = d
    BY <1>1, <1>4 DEF Validate, TypeOK, Single, Lone
  <2>3. loaded[s] = policy
    BY <1>4 DEF Validate, Step, Steady, Verifying
  <2>. QED  BY <2>1, <2>2, <2>3 DEF Valid
<1>5. CASE accepted'[s] \in {accepted[s], {}} /\ stable[s]
  BY <1>5 DEF Held
<1>. QED  BY <1>1, <1>2, <1>3, <1>4, <1>5, AcceptedChanges

(* Every verification that is not disturbed by an edit accepts only        *)
(* evidence whose run was held to the very policy whose digest it names.   *)
THEOREM PolicyIsHeld == Spec => []PolicyHeld
<1> DEFINE J == \A s \in Runs : Steady(s) /\ Held(s)
<1>1. Init => J
  BY DEF Init, Steady, Held, Verifying
<1>2. IInv /\ J /\ [Next]_vars => J'
  BY SteadyStays, HeldStays DEF IInv
<1>3. J => PolicyHeld
  BY DEF Held, PolicyHeld
<1>. QED  BY <1>1, <1>2, <1>3, Invariance, PTL DEF Spec

-----------------------------------------------------------------------------
(* The story of an invocation that nobody has disturbed.                   *)
Ours(k, e) ==
  /\ e.by = k /\ e.bundle \in bundle
  /\ e.control = source /\ e.commit = commit[k] /\ e.policySum = policy

Later == {"verify", "report", "audit", "gate", "sums", "index", "passed"} \cup Verifying

Inputs(k) ==
  /\ pc[k] # "build" => canon = {source}
  /\ pc[k] \in {"inputs", "create", "pack"} => control[k] = source
  /\ pc[k] \in {"create", "pack"} => policySum[k] = policy
  /\ pc[k] \notin Early =>
       \E b \in bundle : /\ bundle = {b} /\ b.by = k /\ b.others = {}
                         /\ b.canon = source /\ b.policy = policy

Reads(k) ==
  /\ pc[k] \in {"hash", "hashPolicy", "replay", "evidence"} => control[k] = source
  /\ pc[k] \in {"hashPolicy", "replay", "evidence"} => hashed[k] = bundle
  /\ pc[k] \in {"replay", "evidence"} => policySum[k] = policy

Results(k) ==
  /\ pc[k] = "evidence" => \E h \in bundle : evidence = {Torn(Made(k, h))}
  /\ pc[k] \in Later => \E e \in evidence : evidence = {e} /\ Ours(k, e)
  /\ pc[k] \in {"vBundle", "vCanon", "vPolicy", "audit"} => seen[k] = evidence
  /\ pc[k] \in {"report", "audit", "gate", "sums", "index",
       "passed"} => accepted[k] = evidence

Records(k) ==
  /\ pc[k] \in {"gate", "sums", "index", "passed"} \/
       (gate[k] /\ pc[k] \in Verifying \cup {"verify"})
       => audit = evidence \X evidence
  /\ pc[k] \in {"index", "passed"} => sums = bundle \X evidence
  /\ pc[k] = "passed" => index = {k}

Going(k) == quiet[k] /\ pc[k] \notin {"idle", "stopped"}
Story(k) == Going(k) => Inputs(k) /\ Reads(k) /\ Results(k) /\ Records(k)

(* What a commit of the tree leaves alone *)
Still == UNCHANGED <<source, policy, files, pc, commit, reads, checks, quiet>>

LEMMA QuietAlone ==
  ASSUME TypeOK, [Next]_vars, NEW k \in Runs, Going(k)'
  PROVE  quiet[k] /\ (Own(k) \/ Still)
<1>1. pc'[k] # "idle" /\ quiet'[k]
  BY DEF Going
<1>2. CASE UNCHANGED vars \/ Commit
  BY <1>1, <1>2 DEF vars, Commit, Still
<1>3. CASE EditSource \/ EditPolicy
  BY <1>1, <1>3 DEF EditSource, EditPolicy, Started
<1>4. ASSUME NEW s \in Runs, Own(s)  PROVE quiet[k] /\ Own(k)
  <2>1. quiet'[k] = (quiet[k] /\ (k = s \/ pc[k] = "idle"))
    BY <1>4 DEF Own, Step, Start, Build, Preflight, ReadBinary, ReadInputs, CreateBundle,
       Pack, LoadPolicy, ReadManifest,
       HashBundle, HashPolicy, Replay, BeginEvidence, EndEvidence, BeginVerify,
            LoadEvidence,
       VerifyBundleSum, VerifyCanonSum, Validate, Report, WriteAudit, ReleaseGate, SkipGate,
       WriteSums, Pass, Stop, StopInPack, StopInEvidence, Halt
  <2>2. CASE k # s
    BY <1>1, <1>4, <2>1, <2>2, StepOfOther DEF Unmoved
  <2>. QED  BY <1>1, <1>4, <2>1, <2>2
<1>. QED  BY <1>2, <1>3, <1>4 DEF Next, Own

LEMMA StoryGoesOn == IInv /\ [Next]_vars => \A k \in Runs : Story(k) => Story(k)'
<1> SUFFICES ASSUME IInv, [Next]_vars, NEW k \in Runs, Story(k), Going(k)'
             PROVE  (Inputs(k) /\ Reads(k) /\ Results(k) /\ Records(k))'
  BY DEF Story
<1>1. TypeOK /\ quiet[k]
  BY QuietAlone DEF IInv
<1>. DEFINE Told == Inputs(k) /\ Reads(k) /\ Results(k) /\ Records(k)
<1>3. pc[k] \notin {"idle", "stopped"} => Told
  BY <1>1 DEF Story, Going
<1>. HIDE DEF Told
<1>. USE <1>1, <1>3 DEF TypeOK, Step, Later, Verifying, Early
<1>2. CASE Still
  <2>. USE <1>2 DEF Still, files, reads, checks
  <2>1. Told
    BY DEF Going
  <2>2. Inputs(k)' /\ Reads(k)'
    BY <2>1 DEF Told, Inputs, Reads
  <2>3. Results(k)'
    <3>1. \A h \in bundle : Made(k, h)' = Made(k, h)
      BY DEF Made
    <3>. QED  BY <2>1, <3>1 DEF Told, Results, Ours, Torn
  <2>4. Records(k)'
    BY <2>1 DEF Told, Records
  <2>. QED  BY <2>2, <2>3, <2>4
<1>4. CASE Start(k)
  BY <1>4 DEF Start, files, reads, checks, Inputs, Reads, Results, Records
<1>5. CASE Build(k)
  BY <1>5 DEF Build, reads, checks, Told, Inputs, Reads, Results, Records
<1>6. CASE Preflight(k)
  BY <1>6 DEF Preflight, files, reads, checks, Told, Inputs, Reads, Results, Records
<1>28. CASE ReadBinary(k)
  BY <1>28 DEF ReadBinary, files, checks, Told, Inputs, Reads, Results, Records, Early
<1>29. CASE ReadInputs(k)
  BY <1>29 DEF ReadInputs, files, checks, Told, Inputs, Reads, Results, Records, Early
<1>7. CASE CreateBundle(k)
  <2>1. Told /\ canon' = {source'}
    BY <1>7 DEF CreateBundle, Told, Inputs
  <2>2. control[k] = source' /\ policySum[k] = policy'
    BY <1>7, <2>1 DEF CreateBundle, Told, Inputs
  <2>3. PICK b \in {Torn(Archive(k))} : bundle' = {b}
    BY <1>7 DEF CreateBundle
  <2>4. b.by = k /\ b.others = {} /\ b.canon = source' /\ b.policy = policy'
    BY <2>2, <2>3 DEF Torn, Archive
  <2>5. Inputs(k)'
    BY <1>7, <2>1, <2>2, <2>3, <2>4 DEF CreateBundle, reads, Inputs
  <2>. QED  BY <1>7, <2>1, <2>5 DEF CreateBundle, reads, checks, Told, Reads, Results,
       Records
<1>8. CASE Pack(k)
  <2>1. Told /\ pc[k] \notin Early
    BY <1>8 DEF Pack, Early
  <2>2. PICK b \in bundle : /\ bundle = {b} /\ b.by = k /\ b.others = {}
                            /\ b.canon = source /\ b.policy = policy
    BY <2>1 DEF Told, Inputs
  <2>3. PICK c \in {b, Archive(k)} : bundle' = {c}
    BY <1>8, <2>2 DEF Pack
  <2>4. c.by = k /\ c.others = {} /\ c.canon = source' /\ c.policy = policy'
    BY <1>8, <2>1, <2>2, <2>3 DEF Pack, Archive, Told, Inputs
  <2>5. Inputs(k)'
    BY <1>8, <2>1, <2>3, <2>4 DEF Pack, Told, Inputs
  <2>. QED  BY <1>8, <2>1, <2>5 DEF Pack, checks, Forget, Told, Reads, Results, Records
<1>9. CASE LoadPolicy(k)
  BY <1>9 DEF LoadPolicy, files, checks, Told, Inputs, Reads, Results, Records
<1>10. CASE ReadManifest(k)
  BY <1>10 DEF ReadManifest, files, checks, Told, Inputs, Reads, Results, Records
<1>11. CASE HashBundle(k)
  BY <1>11 DEF HashBundle, files, checks, Told, Inputs, Reads, Results, Records
<1>12. CASE HashPolicy(k)
  BY <1>12 DEF HashPolicy, files, checks, Told, Inputs, Reads, Results, Records
<1>13. CASE Replay(k)
  BY <1>13 DEF Replay, files, checks, Told, Inputs, Reads, Results, Records
<1>14. CASE BeginEvidence(k)
  <2>1. Told
    BY <1>14 DEF BeginEvidence
  <2>2. Inputs(k)' /\ Reads(k)' /\ Records(k)'
    BY <1>14, <2>1 DEF BeginEvidence, reads, checks, Told, Inputs, Reads, Records
  <2>3. PICK h \in hashed[k] : evidence' = {Torn(Made(k, h))}
    BY <1>14 DEF BeginEvidence
  <2>4. h \in bundle'
    BY <1>14, <2>1 DEF BeginEvidence, Told, Reads
  <2>5. Made(k, h)' = Made(k, h)
    BY <1>14 DEF BeginEvidence, reads, Made
  <2>6. Results(k)'
    BY <1>14, <2>3, <2>4, <2>5 DEF BeginEvidence, Results, Torn
  <2>. QED  BY <2>2, <2>6
<1>15. CASE EndEvidence(k)
  <2>1. Told
    BY <1>15 DEF EndEvidence
  <2>2. Inputs(k)' /\ Reads(k)' /\ Records(k)'
    BY <1>15, <2>1 DEF EndEvidence, Told, Inputs, Reads, Records
  <2>3. PICK b \in bundle : bundle = {b} /\ evidence = {Torn(Made(k, b))} /\ hashed[k] = {b}
    BY <1>15, <2>1 DEF EndEvidence, Told, Inputs, Reads, Results
  <2>4. PICK e \in {Made(k, b)} : evidence' = {e}
    BY <1>15, <2>3 DEF EndEvidence
  <2>5. Ours(k, e)'
    <3>1. /\ bundle' = bundle /\ source' = source /\ policy' = policy
          /\ control[k] = source /\ policySum[k] = policy /\ commit'[k] = commit[k]
      BY <1>15, <2>1 DEF EndEvidence, Told, Inputs, Reads
    <3>2. /\ e.by = k /\ e.bundle = b /\ e.control = control[k]
          /\ e.commit = commit[k] /\ e.policySum = policySum[k]
      BY DEF Made
    <3>. QED  BY <2>3, <3>1, <3>2 DEF Ours
  <2>6. Results(k)'
    BY <1>15, <2>4, <2>5 DEF EndEvidence, Results
  <2>. QED  BY <2>2, <2>6
<1>16. CASE BeginVerify(k)
  BY <1>16 DEF BeginVerify, files, Told, Inputs, Reads, Results, Records, Ours
<1>17. CASE LoadEvidence(k)
  BY <1>17 DEF LoadEvidence, files, checks, Told, Inputs, Reads, Results, Records, Ours
<1>18. CASE VerifyBundleSum(k)
  BY <1>18 DEF VerifyBundleSum, files, checks, Told, Inputs, Reads, Results, Records, Ours
<1>19. CASE VerifyCanonSum(k)
  BY <1>19 DEF VerifyCanonSum, files, checks, Told, Inputs, Reads, Results, Records, Ours
<1>20. CASE Validate(k)
  BY <1>20 DEF Validate, files, Told, Inputs, Reads, Results, Records, Ours
<1>21. CASE Report(k)
  BY <1>21 DEF Report, files, checks, Told, Inputs, Reads, Results, Records, Ours
<1>22. CASE WriteAudit(k)
  BY <1>22 DEF WriteAudit, checks, Told, Inputs, Reads, Results, Records, Ours
<1>23. CASE ReleaseGate(k)
  BY <1>23 DEF ReleaseGate, files, reads, Told, Inputs, Reads, Results, Records, Ours
<1>24. CASE SkipGate(k)
  BY <1>24 DEF SkipGate, files, reads, checks, Told, Inputs, Reads, Results, Records, Ours
<1>25. CASE WriteSums(k)
  BY <1>25 DEF WriteSums, reads, checks, Told, Inputs, Reads, Results, Records, Ours
<1>26. CASE Pass(k)
  BY <1>26 DEF Pass, reads, checks, Told, Inputs, Reads, Results, Records, Ours
<1>27. CASE Stop(k)
  BY <1>27 DEF Stop, Halt, Going
<1>30. CASE StopInPack(k) \/ StopInEvidence(k)
  BY <1>30 DEF StopInPack, StopInEvidence, Halt, Going
<1>. QED
  BY <1>2, <1>4, <1>5, <1>6, <1>7, <1>8, <1>9, <1>10, <1>11, <1>12, <1>13, <1>14,
     <1>15, <1>16, <1>17, <1>18, <1>19, <1>20, <1>21, <1>22, <1>23, <1>24, <1>25, <1>26,
          <1>27,
     <1>28, <1>29, <1>30, QuietAlone DEF Own

(* An invocation that passes undisturbed leaves a directory in which       *)
(* everything is its own and fits together, whatever it found there.       *)
THEOREM PassingIsCoherent == Spec => []PassIsCoherent
<1> DEFINE J == \A k \in Runs : Story(k)
<1>1. Init => J
  BY DEF Init, Story, Going
<1>2. IInv /\ J /\ [Next]_vars => J'
  BY StoryGoesOn
<1>3. J => PassIsCoherent
  <2> SUFFICES ASSUME J, NEW k \in Runs, pc[k] = "passed", quiet[k]
               PROVE  Coherent(k) /\ index = {k}
    BY DEF PassIsCoherent
  <2>1. Inputs(k) /\ Results(k) /\ Records(k)
    BY DEF Story, Going
  <2>2. PICK b \in bundle : bundle = {b} /\ b.by = k /\ b.canon = source /\ b.policy = policy
    BY <2>1 DEF Inputs, Early
  <2>3. PICK e \in evidence : evidence = {e} /\ Ours(k, e)
    BY <2>1 DEF Results, Later
  <2>4. e.bundle = b /\ accepted[k] = {e}
    BY <2>1, <2>2, <2>3 DEF Results, Ours
  <2>5. audit = {<<e, e>>} /\ sums = {<<b, e>>} /\ index = {k} /\ canon = {source}
    BY <2>1, <2>2, <2>3 DEF Records, Inputs
  <2>. QED  BY <2>2, <2>3, <2>4, <2>5 DEF Coherent, Ours
<1>. QED  BY <1>1, <1>2, <1>3, Invariance, PTL DEF Spec
=============================================================================
