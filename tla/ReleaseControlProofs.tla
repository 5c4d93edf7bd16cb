------------------------ MODULE ReleaseControlProofs ------------------------
(***************************************************************************)
(* Theorems about the release controller, for any number of jobs, runs,    *)
(* candidate documents and services.                                       *)
(***************************************************************************)
EXTENDS ReleaseControl, TLAPS

USE DEF Validate, Staging, Rehearsal, Canary

LEMMA AnyDispatchIn ==
  ASSUME NEW j \in Jobs
  PROVE  AnyDispatch(j) \in Dispatches[j] /\ AnyDispatch(j) \in Context
<1>1. Dispatches[j] # {} /\ Dispatches[j] \subseteq Context
  BY DispatchAssumption
<1> QED
  BY <1>1 DEF AnyDispatch

LEMMA InitType == Init => TypeOK
<1> SUFFICES ASSUME Init PROVE TypeOK
  OBVIOUS
<1>1. host \in [Workloads -> Images]
  BY ImageAssumption DEF Init
<1>2. ctx \in Dispatched
  BY AnyDispatchIn DEF Init, Dispatched
<1> QED
  BY <1>1, <1>2 DEF Init, TypeOK, Labels

\* A gate that passes keeps the types: it changes pc, gates and perhaps todo.
LEMMA PassType ==
  ASSUME TypeOK, NEW j \in Jobs, NEW from, NEW to \in Labels,
         NEW g \in SUBSET Gates, Pass(j, from, to, g)
  PROVE  TypeOK'
<1>1. UNCHANGED <<host, canary, moved, backups, evidence, ctx, todo, rollback,
                  changed>>
  BY DEF Pass, world
<1>2. pc' \in [Jobs -> Labels]
  BY DEF Pass, Goto, TypeOK
<1>3. gates' \in [Jobs -> SUBSET Gates]
  BY DEF Pass, Record, TypeOK
<1> QED
  BY <1>1, <1>2, <1>3 DEF TypeOK

LEMMA PassToType ==
  ASSUME TypeOK, NEW j \in Jobs, NEW from, NEW to \in Labels,
         NEW g \in SUBSET Gates, PassTo(j, from, to, g)
  PROVE  TypeOK'
<1>1. UNCHANGED <<host, canary, moved, backups, evidence, ctx, rollback,
                  changed>>
  BY DEF PassTo, world
<1>2. pc' \in [Jobs -> Labels]
  BY DEF PassTo, Goto, TypeOK
<1>3. gates' \in [Jobs -> SUBSET Gates]
  BY DEF PassTo, Record, TypeOK
<1>4. todo' \in [Jobs -> SUBSET Workloads]
  BY DEF PassTo, Remaining, TypeOK
<1> QED
  BY <1>1, <1>2, <1>3, <1>4 DEF TypeOK

\* The gates and the modes the steps name are gates and modes.
LEMMA GateSets ==
  /\ {} \subseteq Gates
  /\ StagingGates \subseteq Gates /\ RehearsalGates \subseteq Gates
  /\ CanaryGates \subseteq Gates /\ OtherGates \subseteq Gates
  BY DEF Gates

LEMMA ModeOf ==
  ASSUME TypeOK, NEW j \in Jobs
  PROVE  /\ ctx[j] \in Dispatches[j] /\ ctx[j].mode \in Modes
         /\ ctx[j].doc \in Manifests /\ ctx[j].producer \in Runs
  BY DEF TypeOK, Dispatched, Context

LEMMA ExitType ==
  ASSUME TypeOK, NEW j \in Jobs, NEW l \in Labels, Exit(j, l)
  PROVE  /\ pc' \in [Jobs -> Labels] /\ ctx' \in Dispatched
         /\ todo' \in [Jobs -> SUBSET Workloads]
         /\ gates' \in [Jobs -> SUBSET Gates]
         /\ rollback' \in [Jobs -> {"none", "attempted", "performed"}]
         /\ changed' \in [Jobs -> BOOLEAN]
<1>1. AnyDispatch(j) \in Dispatches[j] /\ AnyDispatch(j) \in Context
  BY AnyDispatchIn
<1>2. ctx' \in Dispatched
  BY <1>1 DEF TypeOK, Dispatched, Exit
<1> QED
  BY <1>2 DEF TypeOK, Exit, Goto, Remaining

LEMMA EvidenceType ==
  ASSUME TypeOK, NEW j \in Jobs, NEW v \in {"GO", "NO_GO"},
         NEW g \in SUBSET Gates
  PROVE  EvidenceOf(j, v, g) \in Evidence
  BY DEF TypeOK, Dispatched, EvidenceOf, Evidence, Context

LEMMA TargetType ==
  ASSUME TypeOK, NEW j \in Jobs
  PROVE  Target(j) \in [Workloads -> Images]
  BY ModeOf, ImageAssumption DEF Target

LEMMA StepType ==
  ASSUME TypeOK, NEW j \in Jobs, Step(j)
  PROVE  TypeOK'
<1> USE DEF Labels
<1>1. CASE Load(j)
  <2>1. /\ {"release-control-policy"} \in SUBSET Gates
        /\ {"protected-environment-target-manifest-and-credentials"}
             \in SUBSET Gates
    BY GateSets DEF OtherGates
  <2>2. CASE ctx[j].mode = Validate
    BY <1>1, <2>1, <2>2, PassType DEF Load
  <2>3. CASE ctx[j].mode # Validate
    <3>1. PICK to \in Labels : Pass(j, "load", to,
                {"protected-environment-target-manifest-and-credentials"})
      BY <1>1, <2>3, ModeOf DEF Load, Modes
    <3> QED
      BY <2>1, <3>1, PassType
  <2> QED
    BY <2>2, <2>3
<1>2. CASE VerifyImages(j)
  <2>1. {"immutable-image-source-readback", "compose-image-digest-lock"}
          \in SUBSET Gates
    BY GateSets DEF OtherGates
  <2> QED
    BY <1>2, <2>1, PassType DEF VerifyImages
<1>3. CASE RehearsalPrerequisite(j)
  <2>1. {"exact-successful-staging-prerequisite"} \in SUBSET Gates
    BY GateSets DEF OtherGates
  <2> QED
    BY <1>3, <2>1, PassToType DEF RehearsalPrerequisite
<1>4. CASE CanaryPrerequisites(j)
  BY <1>4, PassType, GateSets DEF CanaryPrerequisites
<1>5. CASE ReadBaseline(j)
  <2>1. {"zero-live-effect-baseline"} \in SUBSET Gates
    BY GateSets DEF OtherGates
  <2>2. PICK to \in Labels, g \in SUBSET Gates : Pass(j, "baseline", to, g)
    BY <1>5, <2>1, GateSets DEF ReadBaseline
  <2> QED
    BY <2>2, PassType
<1>6. CASE CreateBackup(j)
  <2>1. {"paired-local-off-host-and-restore-verified-backup"} \in SUBSET Gates
    BY GateSets DEF StagingGates
  <2>2. pc' \in [Jobs -> Labels]
    BY <1>6 DEF CreateBackup, TypeOK, Goto
  <2>3. gates' \in [Jobs -> SUBSET Gates]
    BY <1>6, <2>1 DEF CreateBackup, TypeOK, Record
  <2> QED
    BY <1>6, <2>2, <2>3 DEF CreateBackup, TypeOK, Remaining
<1>7. CASE RecreateService(j)
  <2>1. PICK w \in todo[j] : /\ host' = [host EXCEPT ![w] = Target(j)[w]]
                             /\ Remaining(j, todo[j] \ {w})
    BY <1>7 DEF RecreateService
  <2>2. w \in Workloads /\ host' \in [Workloads -> Images]
    BY <2>1, TargetType DEF TypeOK
  <2> QED
    BY <1>7, <2>1, <2>2 DEF RecreateService, TypeOK, Remaining
<1>8. CASE DeployDone(j)
  <2>1. {"immutable-staging-deployment"} \in SUBSET Gates
    BY GateSets DEF OtherGates
  <2> QED
    BY <1>8, <2>1, PassToType, GateSets DEF DeployDone
<1>9. CASE CheckWorkload(j)
  BY <1>9 DEF CheckWorkload, TypeOK, Remaining, world
<1>10. CASE ChecksDone(j)
  <2>1. /\ {"initial-candidate-readback"} \in SUBSET Gates
        /\ {"source-digest-readiness-capabilities-metrics-migrations",
            "keycloak-issuer", "kong-29-route-smoke"} \in SUBSET Gates
    BY GateSets DEF OtherGates, StagingGates
  <2> QED
    BY <1>10, <2>1, PassType, PassToType, GateSets DEF ChecksDone
<1>11. CASE FilestoreIntegrity(j) \/ BaselineProbe(j) \/ CanaryProbe(j)
  BY <1>11, PassType, GateSets
     DEF FilestoreIntegrity, BaselineProbe, CanaryProbe
<1>12. CASE ReceiptValid(j)
  BY <1>12, PassToType, GateSets DEF ReceiptValid
<1>13. CASE ApplyCanary(j)
  BY <1>13, ModeOf DEF ApplyCanary, TypeOK, Goto
<1>14. CASE ReadAfter(j)
  <2>1. {"zero-calls-emails-sms"} \in SUBSET Gates
    BY GateSets DEF StagingGates
  <2>2. PICK g \in SUBSET Gates : Pass(j, "after", "verdict", g)
    BY <1>14, <2>1, GateSets DEF ReadAfter
  <2> QED
    BY <2>2, PassType
<1>15. CASE Go(j)
  BY <1>15, ExitType, EvidenceType DEF Go, TypeOK
<1>16. CASE Raise(j)
  <2>1. UNCHANGED <<host, canary, moved, backups, evidence, ctx, gates, changed>>
    BY <1>16 DEF Raise, world
  <2>2. pc' \in [Jobs -> Labels] /\ todo' \in [Jobs -> SUBSET Workloads]
    BY <1>16 DEF Raise, Goto, Remaining, TypeOK
  <2>3. rollback' \in [Jobs -> {"none", "attempted", "performed"}]
    BY <1>16 DEF Raise, TypeOK
  <2> QED
    BY <2>1, <2>2, <2>3 DEF TypeOK
<1>17. CASE StagingRolledBack(j) \/ CanaryRolledBack(j)
  BY <1>17 DEF StagingRolledBack, CanaryRolledBack, RollbackPerformed, TypeOK,
               Goto, world
<1>18. CASE WithdrawCanary(j)
  BY <1>18 DEF WithdrawCanary, TypeOK, Goto, local
<1>19. CASE NoGo(j)
  BY <1>19, ExitType, EvidenceType, GateSets DEF NoGo, TypeOK
<1>20. CASE Escape(j)
  BY <1>20, ExitType DEF Escape, TypeOK, world
<1> QED
  BY <1>1, <1>2, <1>3, <1>4, <1>5, <1>6, <1>7, <1>8, <1>9, <1>10, <1>11,
     <1>12, <1>13, <1>14, <1>15, <1>16, <1>17, <1>18, <1>19, <1>20 DEF Step

LEMMA NextType == TypeOK /\ [Next]_vars => TypeOK'
<1> SUFFICES ASSUME TypeOK, [Next]_vars PROVE TypeOK'
  OBVIOUS
<1>1. ASSUME NEW j \in Jobs, Start(j) PROVE TypeOK'
  <2>1. PICK d \in Dispatches[j] : ctx' = [ctx EXCEPT ![j] = d]
    BY <1>1 DEF Start
  <2>2. d \in Context
    BY DispatchAssumption
  <2>3. ctx' \in Dispatched
    BY <2>1, <2>2 DEF TypeOK, Dispatched
  <2> QED
    BY <1>1, <2>3 DEF Start, TypeOK, Goto, Labels, world
<1>2. ASSUME NEW j \in Jobs, Kill(j) PROVE TypeOK'
  BY <1>2, ExitType DEF Kill, TypeOK, Labels, world
<1>3. ASSUME NEW env \in {"staging", "production"}, LiveEffect(env)
      PROVE  TypeOK'
  BY <1>3 DEF LiveEffect, TypeOK, local
<1>4. CASE UNCHANGED vars
  BY <1>4 DEF vars, world, local, TypeOK
<1> QED
  BY <1>1, <1>2, <1>3, <1>4, StepType DEF Next, AllEnded

\* Every variable of the controller keeps its type.
THEOREM TypeCorrect == Spec => []TypeOK
  BY InitType, NextType, PTL DEF Spec

(***************************************************************************)
(* The inductive invariant.  A step of one job leaves what is known of the *)
(* others alone, so each action is checked for its own job only.           *)
(***************************************************************************)

\* What LabelsFitModes, RecoverableChanges and HasPrerequisites say of one job.
Prepared(j) ==
  /\ Active(j) => pc[j] \in ModeLabels(ctx[j].mode)
  /\ OnStaging(j) /\ pc[j] \in DeployLabels => j \in backups
  /\ /\ ctx[j].mode = Rehearsal /\ Active(j)
     /\ pc[j] \notin {"load", "prerequisite", "raise"}
     => StagingCertified(ctx[j])
  /\ /\ ctx[j].mode = Canary /\ Active(j)
     /\ pc[j] \notin {"load", "controller", "raise"}
     => StagingCertified(ctx[j]) /\ RehearsalCertified(ctx[j])

LEMMA PreparedJobs ==
  (\A j \in Jobs : Prepared(j))
    <=> LabelsFitModes /\ RecoverableChanges /\ HasPrerequisites
  BY DEF Prepared, LabelsFitModes, RecoverableChanges, HasPrerequisites

\* Steps that touch neither the place nor the context of a job.
LEMMA PreparedLasts ==
  ASSUME NEW k \in Jobs, Prepared(k), evidence \subseteq evidence',
         backups \subseteq backups', pc'[k] = pc[k], ctx'[k] = ctx[k]
  PROVE  Prepared(k)'
<1>1. StagingCertified(ctx[k]) => StagingCertified(ctx[k])'
  BY DEF StagingCertified
<1>2. RehearsalCertified(ctx[k]) => RehearsalCertified(ctx[k])'
  BY DEF RehearsalCertified
<1> QED
  BY <1>1, <1>2 DEF Prepared, Active, OnStaging

\* What every step of a job does, whatever it is.
Framed(j) ==
  /\ evidence \subseteq evidence' /\ backups \subseteq backups'
  /\ \A k \in Jobs \ {j} : /\ pc'[k] = pc[k] /\ ctx'[k] = ctx[k]
                           /\ todo'[k] = todo[k]
  /\ Active(j) /\ (pc'[j] \in Ended \/ ctx'[j] = ctx[j])

LEMMA PassFrame ==
  ASSUME TypeOK, NEW j \in Jobs, NEW from \in Labels, NEW to, NEW g,
         Pass(j, from, to, g) \/ PassTo(j, from, to, g),
         from \notin Ended \cup {"idle"}
  PROVE  /\ Framed(j) /\ pc[j] = from /\ pc'[j] = to /\ ctx' = ctx
         /\ evidence' = evidence /\ backups' = backups
         /\ host' = host /\ canary' = canary
<1>1. UNCHANGED world /\ pc[j] = from /\ Goto(j, to) /\ ctx' = ctx
  BY DEF Pass, PassTo
<1>2. pc'[j] = to /\ \A k \in Jobs \ {j} : pc'[k] = pc[k]
  BY <1>1 DEF TypeOK, Goto
<1>3. \A k \in Jobs \ {j} : todo'[k] = todo[k]
  BY DEF TypeOK, Pass, PassTo, Remaining
<1> QED
  BY <1>1, <1>2, <1>3 DEF Framed, Active, world

LEMMA ExitFrame ==
  ASSUME TypeOK, NEW j \in Jobs, NEW l \in Ended, Exit(j, l), Active(j),
         evidence \subseteq evidence', backups \subseteq backups'
  PROVE  Framed(j) /\ pc'[j] = l
<1>1. pc'[j] = l /\ \A k \in Jobs \ {j} : pc'[k] = pc[k]
  BY DEF TypeOK, Exit, Goto
<1>2. \A k \in Jobs \ {j} : ctx'[k] = ctx[k] /\ todo'[k] = todo[k]
  BY DEF TypeOK, Exit, Remaining
<1> QED
  BY <1>1, <1>2 DEF Framed

\* Every action of a job is framed; the actions that pass a gate say from where
\* to where, the others are taken one by one.
PassAction(j) ==
  \/ Load(j) \/ VerifyImages(j) \/ RehearsalPrerequisite(j)
  \/ CanaryPrerequisites(j) \/ ReadBaseline(j) \/ DeployDone(j)
  \/ ChecksDone(j) \/ FilestoreIntegrity(j) \/ BaselineProbe(j)
  \/ ReceiptValid(j) \/ CanaryProbe(j) \/ ReadAfter(j)

LEMMA PassActionPasses ==
  ASSUME NEW j \in Jobs, PassAction(j)
  PROVE  \E from \in Labels \ (Ended \cup {"idle"}) : \E to, g :
           Pass(j, from, to, g) \/ PassTo(j, from, to, g)
<1> USE DEF Labels, Ended
<1>1. CASE Load(j)
  BY <1>1 DEF Load
<1>2. CASE VerifyImages(j) \/ FilestoreIntegrity(j) \/ BaselineProbe(j)
             \/ CanaryProbe(j)
  BY <1>2 DEF VerifyImages, FilestoreIntegrity, BaselineProbe, CanaryProbe
<1>3. CASE RehearsalPrerequisite(j) \/ ReceiptValid(j)
  BY <1>3 DEF RehearsalPrerequisite, ReceiptValid
<1>4. CASE CanaryPrerequisites(j)
  BY <1>4 DEF CanaryPrerequisites
<1>5. CASE ReadBaseline(j)
  BY <1>5 DEF ReadBaseline
<1>6. CASE DeployDone(j)
  BY <1>6 DEF DeployDone
<1>7. CASE ChecksDone(j)
  BY <1>7 DEF ChecksDone
<1>8. CASE ReadAfter(j)
  BY <1>8 DEF ReadAfter
<1> QED
  BY <1>1, <1>2, <1>3, <1>4, <1>5, <1>6, <1>7, <1>8 DEF PassAction

LEMMA StepFrame ==
  ASSUME TypeOK, NEW j \in Jobs, Step(j)
  PROVE  Framed(j)
<1>1. CASE PassAction(j)
  BY <1>1, PassActionPasses, PassFrame
<1>2. CASE CreateBackup(j)
  <2>1. pc[j] = "backup" /\ \A k \in Jobs \ {j} : pc'[k] = pc[k]
    BY <1>2 DEF CreateBackup, Goto, TypeOK
  <2> QED
    BY <1>2, <2>1 DEF CreateBackup, Remaining, TypeOK, Framed, Active, Ended
<1>3. CASE RecreateService(j)
  BY <1>3 DEF RecreateService, Remaining, TypeOK, Framed, Active, Ended, UpLabels
<1>4. CASE CheckWorkload(j)
  BY <1>4 DEF CheckWorkload, Remaining, TypeOK, Framed, Active, Ended,
              CheckLabels, world
<1>5. CASE ApplyCanary(j)
  BY <1>5 DEF ApplyCanary, Goto, TypeOK, Framed, Active, Ended
<1>6. CASE Go(j)
  <2>1. Active(j)
    BY <1>6 DEF Go, Active, Ended
  <2> QED
    BY <1>6, <2>1, ExitFrame DEF Go, Ended
<1>7. CASE Raise(j)
  BY <1>7 DEF Raise, Goto, Remaining, TypeOK, Framed, world
<1>8. CASE StagingRolledBack(j) \/ CanaryRolledBack(j)
  BY <1>8 DEF StagingRolledBack, CanaryRolledBack, RollbackPerformed, Goto,
              TypeOK, Framed, Active, Ended, world
<1>9. CASE WithdrawCanary(j)
  BY <1>9 DEF WithdrawCanary, Goto, TypeOK, Framed, Active, Ended, local
<1>10. CASE NoGo(j)
  <2>1. Active(j)
    BY <1>10 DEF NoGo, Active, Ended
  <2> QED
    BY <1>10, <2>1, ExitFrame DEF NoGo, Ended
<1>11. CASE Escape(j)
  <2>1. Active(j)
    BY <1>11 DEF Escape, Active, Ended
  <2> QED
    BY <1>11, <2>1, ExitFrame DEF Escape, Ended, world
<1> QED
  BY <1>1, <1>2, <1>3, <1>4, <1>5, <1>6, <1>7, <1>8, <1>9, <1>10, <1>11
     DEF Step, PassAction

\* A gate passes between two places of its mode; behind the backup gate the
\* job has a recovery point, behind the prerequisite gate the evidence.
LEMMA PassPrepared ==
  ASSUME TypeOK, NEW j \in Jobs, Prepared(j), PassAction(j)
  PROVE  Prepared(j)'
<1> DEFINE Went(from, to) ==
      /\ Framed(j) /\ pc[j] = from /\ pc'[j] = to /\ ctx' = ctx
      /\ evidence' = evidence /\ backups' = backups
<1> USE DEF Labels, Ended
<1>1. /\ StagingCertified(ctx[j]) /\ Framed(j) /\ ctx'[j] = ctx[j]
           => StagingCertified(ctx[j])'
      /\ RehearsalCertified(ctx[j]) /\ Framed(j) /\ ctx'[j] = ctx[j]
           => RehearsalCertified(ctx[j])'
  BY DEF StagingCertified, RehearsalCertified, Framed
<1>2. ctx[j].mode \in Modes
  BY ModeOf
<1> HIDE DEF Went
<1> USE DEF Active, OnStaging, ModeLabels, DeployLabels, Modes
<1>3. CASE Load(j)
  <2>1. \/ ctx[j].mode = Validate  /\ Went("load", "verdict")
        \/ ctx[j].mode = Staging   /\ Went("load", "images")
        \/ ctx[j].mode = Rehearsal /\ Went("load", "prerequisite")
        \/ ctx[j].mode = Canary    /\ Went("load", "controller")
    BY <1>2, <1>3, PassFrame DEF Load, Went
  <2> QED
    BY <2>1, <1>1 DEF Prepared, Went
<1>4. CASE VerifyImages(j)
  <2>1. Went("images", "baseline")
    BY <1>4, PassFrame DEF VerifyImages, Went
  <2> QED
    BY <2>1, <1>1, <1>2 DEF Prepared, Went
<1>5. CASE RehearsalPrerequisite(j)
  <2>1. Went("prerequisite", "initial") /\ StagingCertified(ctx[j])
    BY <1>5, PassFrame DEF RehearsalPrerequisite, Went
  <2> QED
    BY <2>1, <1>1, <1>2 DEF Prepared, Went
<1>6. CASE CanaryPrerequisites(j)
  <2>1. /\ Went("controller", "baseline")
        /\ StagingCertified(ctx[j]) /\ RehearsalCertified(ctx[j])
    BY <1>6, PassFrame DEF CanaryPrerequisites, Went
  <2> QED
    BY <2>1, <1>1, <1>2 DEF Prepared, Went
<1>7. CASE ReadBaseline(j)
  <2>1. \/ ctx[j].mode \in {Staging, Rehearsal} /\ Went("baseline", "backup")
        \/ ctx[j].mode = Canary /\ Went("baseline", "probe")
    BY <1>7, PassFrame DEF ReadBaseline, Went
  <2> QED
    BY <2>1, <1>1, <1>2 DEF Prepared, Went
<1>8. CASE DeployDone(j)
  <2>1. \/ Went("up", "check") \/ Went("up_previous", "check_previous")
        \/ Went("rb_up", "rb_check")
    BY <1>8, PassFrame DEF DeployDone, Went
  <2> QED
    BY <2>1, <1>1, <1>2 DEF Prepared, Went
<1>9. CASE ChecksDone(j)
  <2>1. \/ Went("initial", "baseline") \/ Went("check_previous", "up")
        \/ ctx[j].mode = Staging /\ Went("check", "after")
        \/ ctx[j].mode = Rehearsal /\ Went("check", "integrity")
        \/ ctx[j].mode = Canary /\ Went("check", "canary_probe")
    BY <1>9, PassFrame DEF ChecksDone, Went
  <2> QED
    BY <2>1, <1>1, <1>2 DEF Prepared, Went
<1>10. CASE FilestoreIntegrity(j)
  <2>1. Went("integrity", "after")
    BY <1>10, PassFrame DEF FilestoreIntegrity, Went
  <2> QED
    BY <2>1, <1>1, <1>2 DEF Prepared, Went
<1>11. CASE BaselineProbe(j)
  <2>1. Went("probe", "apply")
    BY <1>11, PassFrame DEF BaselineProbe, Went
  <2> QED
    BY <2>1, <1>1, <1>2 DEF Prepared, Went
<1>12. CASE ReceiptValid(j)
  <2>1. Went("receipt", "check")
    BY <1>12, PassFrame DEF ReceiptValid, Went
  <2> QED
    BY <2>1, <1>1, <1>2 DEF Prepared, Went
<1>13. CASE CanaryProbe(j)
  <2>1. Went("canary_probe", "after")
    BY <1>13, PassFrame DEF CanaryProbe, Went
  <2> QED
    BY <2>1, <1>1, <1>2 DEF Prepared, Went
<1>14. CASE ReadAfter(j)
  <2>1. Went("after", "verdict")
    BY <1>14, PassFrame DEF ReadAfter, Went
  <2> QED
    BY <2>1, <1>1, <1>2 DEF Prepared, Went
<1> QED
  BY <1>3, <1>4, <1>5, <1>6, <1>7, <1>8, <1>9, <1>10, <1>11, <1>12, <1>13,
     <1>14 DEF PassAction

LEMMA StepPrepared ==
  ASSUME TypeOK, NEW j \in Jobs, Prepared(j), Step(j)
  PROVE  Prepared(j)'
<1>1. Framed(j)
  BY StepFrame
<1>2. /\ StagingCertified(ctx[j]) /\ ctx'[j] = ctx[j] => StagingCertified(ctx[j])'
      /\ RehearsalCertified(ctx[j]) /\ ctx'[j] = ctx[j]
           => RehearsalCertified(ctx[j])'
  BY <1>1 DEF StagingCertified, RehearsalCertified, Framed
<1>3. ctx[j].mode \in Modes
  BY ModeOf
<1> USE DEF Labels, Ended, Active, OnStaging, ModeLabels, DeployLabels, Modes
<1>4. ASSUME pc'[j] \in Ended PROVE Prepared(j)'
  BY <1>4 DEF Prepared
<1>5. CASE PassAction(j)
  BY <1>5, PassPrepared
<1>6. CASE CreateBackup(j)
  <2>1. /\ pc[j] = "backup" /\ pc'[j] \in {"up", "up_previous"}
        /\ ctx'[j] = ctx[j] /\ j \in backups'
        /\ pc'[j] = "up" <=> ctx[j].mode = Staging
    BY <1>6 DEF CreateBackup, Goto, TypeOK
  <2> QED
    BY <2>1, <1>2, <1>3 DEF Prepared
<1>7. CASE RecreateService(j) \/ CheckWorkload(j)
  <2>1. pc'[j] = pc[j] /\ ctx'[j] = ctx[j]
    BY <1>7 DEF RecreateService, CheckWorkload
  <2> QED
    BY <2>1, <1>1, PreparedLasts DEF Framed
<1>8. CASE ApplyCanary(j)
  <2>1. pc[j] = "apply" /\ pc'[j] = "receipt" /\ ctx'[j] = ctx[j]
    BY <1>8 DEF ApplyCanary, Goto, TypeOK
  <2> QED
    BY <2>1, <1>2, <1>3 DEF Prepared
<1>9. CASE Raise(j)
  <2>1. /\ ctx'[j] = ctx[j] /\ backups' = backups
        /\ \/ InStagingTry(j) /\ pc'[j] = "rb_up"
           \/ InCanaryTry(j) /\ pc'[j] = "rb_run"
           \/ pc'[j] = "raise"
    BY <1>9 DEF Raise, Goto, TypeOK, world
  <2> QED
    BY <2>1, <1>2, <1>3 DEF Prepared, InStagingTry, InCanaryTry
<1>10. CASE StagingRolledBack(j) \/ CanaryRolledBack(j)
  <2>1. pc'[j] = "raise" /\ ctx'[j] = ctx[j]
    BY <1>10 DEF StagingRolledBack, CanaryRolledBack, RollbackPerformed, Goto,
                 TypeOK
  <2> QED
    BY <2>1, <1>3 DEF Prepared
<1>11. CASE WithdrawCanary(j)
  <2>1. pc[j] = "rb_run" /\ pc'[j] = "rb_receipt" /\ ctx'[j] = ctx[j]
    BY <1>11 DEF WithdrawCanary, Goto, TypeOK, local
  <2> QED
    BY <2>1, <1>2, <1>3 DEF Prepared
<1>12. CASE Go(j) \/ NoGo(j) \/ Escape(j)
  <2>1. pc'[j] \in {"done", "crashed"}
    BY <1>12 DEF Go, NoGo, Escape, Exit, Goto, TypeOK
  <2> QED
    BY <2>1, <1>4
<1> QED
  BY <1>5, <1>6, <1>7, <1>8, <1>9, <1>10, <1>11, <1>12 DEF Step, PassAction

\* The parts of IInv that hold with any number of runners.
Safe == TypeOK /\ LabelsFitModes /\ OneJobPerRunner /\ RecoverableChanges
          /\ HasPrerequisites

LEMMA SafeInit == Init => Safe
  BY InitType DEF Init, Safe, LabelsFitModes, OneJobPerRunner, Active, Ended,
     RecoverableChanges, HasPrerequisites, DeployLabels

LEMMA SafeNext == Safe /\ [Next]_vars => Safe'
<1> SUFFICES ASSUME Safe, [Next]_vars PROVE Safe'
  OBVIOUS
<1>1. TypeOK /\ TypeOK' /\ OneJobPerRunner /\ \A k \in Jobs : Prepared(k)
  BY NextType, PreparedJobs DEF Safe
<1> SUFFICES OneJobPerRunner' /\ \A k \in Jobs : Prepared(k)'
  BY <1>1, PreparedJobs DEF Safe, Prepared, LabelsFitModes, RecoverableChanges,
     HasPrerequisites
<1>2. ASSUME NEW j \in Jobs, Framed(j), Prepared(j)'
      PROVE  OneJobPerRunner' /\ \A k \in Jobs : Prepared(k)'
  <2>1. \A k \in Jobs \ {j} : Prepared(k)'
    BY <1>1, <1>2, PreparedLasts DEF Framed
  <2>2. \A k \in Jobs : Active(k)' => Active(k) /\ ctx'[k] = ctx[k]
    BY <1>2 DEF Framed, Active
  <2> QED
    BY <1>1, <1>2, <2>1, <2>2 DEF OneJobPerRunner
<1>3. ASSUME NEW j \in Jobs, Step(j)
      PROVE  OneJobPerRunner' /\ \A k \in Jobs : Prepared(k)'
  BY <1>1, <1>2, <1>3, StepFrame, StepPrepared
<1>4. ASSUME NEW j \in Jobs, Kill(j)
      PROVE  OneJobPerRunner' /\ \A k \in Jobs : Prepared(k)'
  <2>1. Framed(j) /\ pc'[j] = "killed"
    BY <1>1, <1>4, ExitFrame DEF Kill, Ended, world
  <2>2. Prepared(j)'
    BY <2>1 DEF Prepared, Active, Ended, DeployLabels
  <2> QED
    BY <1>2, <2>1, <2>2
<1>5. ASSUME NEW j \in Jobs, Start(j)
      PROVE  OneJobPerRunner' /\ \A k \in Jobs : Prepared(k)'
  <2>1. /\ pc'[j] = "load"
        /\ \A k \in Jobs \ {j} : pc'[k] = pc[k] /\ ctx'[k] = ctx[k]
        /\ evidence' = evidence /\ backups' = backups
    BY <1>1, <1>5 DEF Start, Goto, TypeOK, Dispatched, world
  <2>2. \A k \in Jobs \ {j} : Active(k) => ctx[k].runner # ctx'[j].runner
    BY <1>1, <1>5 DEF Start, TypeOK, Dispatched
  <2>3. OneJobPerRunner'
    BY <1>1, <2>1, <2>2 DEF OneJobPerRunner, Active
  <2>4. \A k \in Jobs \ {j} : Prepared(k)'
    BY <1>1, <2>1, PreparedLasts
  <2>5. Prepared(j)'
    BY <2>1 DEF Prepared, Active, Ended, DeployLabels, ModeLabels
  <2> QED
    BY <2>3, <2>4, <2>5
<1>6. CASE pc' = pc /\ ctx' = ctx /\ evidence' = evidence /\ backups' = backups
  <2>1. \A k \in Jobs : Prepared(k)'
    BY <1>1, <1>6, PreparedLasts
  <2> QED
    BY <1>1, <1>6, <2>1 DEF OneJobPerRunner, Active
<1> QED
  BY <1>3, <1>4, <1>5, <1>6 DEF Next, LiveEffect, AllEnded, local, vars, world

(***************************************************************************)
(* With one runner of each label, what a job has deployed is still there.  *)
(***************************************************************************)

\* What HostIsTarget and CanaryIsCandidate say of one job.
HostPlaced(j) ==
  OnStaging(j) =>
    /\ pc[j] \in UpLabels =>
         \A w \in Workloads \ todo[j] : host[w] = Target(j)[w]
    /\ pc[j] \in {"check", "integrity", "after", "verdict"} =>
         host = CandidateImage[ctx[j].doc]
    /\ pc[j] \in {"check_previous", "rb_check"} =>
         host = PreviousImage[ctx[j].doc]
CanaryPlaced(j) ==
  ctx[j].mode = Canary =>
    /\ pc[j] \in {"receipt", "check", "canary_probe", "after", "verdict",
                  "rb_run"} => canary = ctx[j].doc
    /\ pc[j] = "rb_receipt" => canary # ctx[j].doc

LEMMA PlacedJobs ==
  /\ HostIsTarget <=> \A j \in Jobs : HostPlaced(j)
  /\ CanaryIsCandidate <=> \A j \in Jobs : CanaryPlaced(j)
  BY DEF HostIsTarget, CanaryIsCandidate, HostPlaced, CanaryPlaced

\* Two running jobs never share an environment.
LEMMA OneJobPerEnvironment ==
  ASSUME Safe, SingleRunners, NEW j \in Jobs, NEW k \in Jobs,
         Active(j), Active(k),
         \/ OnStaging(j) /\ OnStaging(k)
         \/ ctx[j].mode = Canary /\ ctx[k].mode = Canary
  PROVE  j = k
<1>1. ctx[j] \in Dispatches[j] /\ ctx[k] \in Dispatches[k]
  BY DEF Safe, TypeOK, Dispatched
<1>2. ctx[j].runner = ctx[k].runner
  BY <1>1, DispatchAssumption DEF SingleRunners, OnStaging
<1> QED
  BY <1>2 DEF Safe, OneJobPerRunner

\* Only a compose up changes the host, only the external controller the canary.
LEMMA WhoChanges ==
  ASSUME Safe, NEW j \in Jobs, Step(j)
  PROVE  /\ host' # host => RecreateService(j) /\ OnStaging(j) /\ Active(j)
         /\ canary' # canary => /\ ApplyCanary(j) \/ WithdrawCanary(j)
                               /\ ctx[j].mode = Canary /\ Active(j)
<1>1. Prepared(j) /\ TypeOK
  BY PreparedJobs DEF Safe
<1>2. ctx[j].mode \in Modes
  BY <1>1, ModeOf
<1>3. RecreateService(j) => OnStaging(j) /\ Active(j)
  BY <1>1, <1>2 DEF RecreateService, Prepared, OnStaging, Active, ModeLabels,
     UpLabels, Ended, Modes
<1>4. ApplyCanary(j) \/ WithdrawCanary(j) => ctx[j].mode = Canary /\ Active(j)
  BY <1>1, <1>2 DEF ApplyCanary, WithdrawCanary, Prepared, Active,
     ModeLabels, Ended, Modes
<1>5. CASE PassAction(j)
  BY <1>1, <1>5, PassActionPasses, PassFrame
<1>6. CASE CreateBackup(j) \/ CheckWorkload(j) \/ Go(j) \/ Raise(j) \/ NoGo(j)
            \/ Escape(j)
  BY <1>6 DEF CreateBackup, CheckWorkload, Go, Raise, NoGo, Escape, world
<1>7. CASE StagingRolledBack(j) \/ CanaryRolledBack(j)
  BY <1>7 DEF StagingRolledBack, CanaryRolledBack, RollbackPerformed, world
<1>8. RecreateService(j) => canary' = canary
  BY DEF RecreateService
<1>9. ApplyCanary(j) \/ WithdrawCanary(j) => host' = host
  BY DEF ApplyCanary, WithdrawCanary
<1> QED
  BY <1>3, <1>4, <1>5, <1>6, <1>7, <1>8, <1>9 DEF Step, PassAction

LEMMA OthersPlaced ==
  ASSUME Safe, SingleRunners, NEW j \in Jobs, Step(j),
         NEW k \in Jobs \ {j}, HostPlaced(k), CanaryPlaced(k)
  PROVE  HostPlaced(k)' /\ CanaryPlaced(k)'
<1>1. pc'[k] = pc[k] /\ ctx'[k] = ctx[k] /\ todo'[k] = todo[k]
  BY StepFrame DEF Framed, Safe
<1>2. OnStaging(k) /\ Active(k) => host' = host
  BY WhoChanges, OneJobPerEnvironment
<1>3. ctx[k].mode = Canary /\ Active(k) => canary' = canary
  BY WhoChanges, OneJobPerEnvironment
<1>4. HostPlaced(k)'
  BY <1>1, <1>2 DEF HostPlaced, OnStaging, Target, Active, Ended, UpLabels
<1>5. CanaryPlaced(k)'
  BY <1>1, <1>3 DEF CanaryPlaced, Active, Ended
<1> QED
  BY <1>4, <1>5

\* The job's own step: compose up works through the services, and the places
\* behind it are reached from a completed one.
LEMMA OwnPlaced ==
  ASSUME Safe, NEW j \in Jobs, Step(j), HostPlaced(j), CanaryPlaced(j)
  PROVE  HostPlaced(j)' /\ CanaryPlaced(j)'
<1>1. TypeOK /\ Prepared(j) /\ ctx[j].mode \in Modes /\ Framed(j)
  BY PreparedJobs, ModeOf, StepFrame DEF Safe
<1>2. ctx[j].doc \in Manifests
  BY <1>1, ModeOf
<1> USE DEF Modes, UpLabels, OnStaging
<1>3. ASSUME pc'[j] \in Ended \cup {"raise"} PROVE HostPlaced(j)' /\ CanaryPlaced(j)'
  BY <1>3 DEF HostPlaced, CanaryPlaced, Ended
<1>4. CASE DeployDone(j)
  <2>1. /\ todo[j] = {} /\ ctx' = ctx /\ host' = host /\ canary' = canary
        /\ \/ pc[j] = "up" /\ pc'[j] = "check"
           \/ pc[j] = "up_previous" /\ pc'[j] = "check_previous"
           \/ pc[j] = "rb_up" /\ pc'[j] = "rb_check"
    BY <1>1, <1>4, PassFrame DEF DeployDone, Labels, Ended
  <2>2. OnStaging(j)
    BY <1>1, <2>1 DEF Prepared, Active, ModeLabels, Ended
  <2>3. /\ host \in [Workloads -> Images] /\ Target(j) \in [Workloads -> Images]
        /\ \A w \in Workloads : host[w] = Target(j)[w]
    BY <1>1, <2>1, <2>2, TargetType DEF HostPlaced, TypeOK
  <2>4. host = Target(j)
    BY <2>3
  <2> QED
    BY <2>1, <2>2, <2>4 DEF HostPlaced, CanaryPlaced, Target
<1>5. CASE PassAction(j) /\ ~DeployDone(j)
  <2>1. ctx' = ctx /\ host' = host /\ canary' = canary
    BY <1>1, <1>5, PassActionPasses, PassFrame
  <2>2. CASE RehearsalPrerequisite(j) \/ ReceiptValid(j)
    <3>1. \/ pc'[j] = "initial"
          \/ pc[j] = "receipt" /\ pc'[j] = "check"
      BY <1>1, <2>2, PassFrame DEF RehearsalPrerequisite, ReceiptValid, Labels,
         Ended
    <3>2. pc[j] = "receipt" => ctx[j].mode = Canary
      BY <1>1 DEF Prepared, Active, ModeLabels, Ended
    <3> QED
      BY <2>1, <3>1, <3>2 DEF HostPlaced, CanaryPlaced
  <2>3. CASE ChecksDone(j)
    <3>1. \/ pc[j] = "initial" /\ pc'[j] = "baseline"
          \/ /\ pc[j] = "check_previous" /\ pc'[j] = "up"
             /\ todo'[j] = Workloads
          \/ /\ pc[j] = "check"
             /\ pc'[j] \in {"after", "integrity", "canary_probe"}
      <4>1. \A from \in {"initial", "check_previous", "check"} : \A to, g :
               Pass(j, from, to, g) \/ PassTo(j, from, to, g)
                 => pc[j] = from /\ pc'[j] = to
        BY <1>1, PassFrame DEF Labels, Ended
      <4>2. ASSUME PassTo(j, "check_previous", "up", {})
            PROVE  todo'[j] = Workloads
        BY <1>1, <4>2 DEF PassTo, Remaining, TypeOK
      <4> QED
        BY <2>3, <4>1, <4>2 DEF ChecksDone
    <3> QED
      BY <1>1, <2>1, <3>1 DEF HostPlaced, CanaryPlaced
  <2>4. CASE Load(j) \/ VerifyImages(j) \/ CanaryPrerequisites(j)
              \/ ReadBaseline(j) \/ BaselineProbe(j)
    <3>1. \/ pc'[j] \in {"images", "prerequisite", "controller", "baseline",
                         "backup", "probe", "apply"}
          \/ ctx[j].mode = Validate
      <4>1. \A from \in {"load", "images", "controller", "baseline", "probe"} :
             \A to, g : Pass(j, from, to, g) => pc'[j] = to
        BY <1>1, PassFrame DEF Labels, Ended
      <4> QED
        BY <1>1, <2>4, <4>1 DEF Load, VerifyImages, CanaryPrerequisites,
           ReadBaseline, BaselineProbe
    <3> QED
      BY <2>1, <3>1 DEF HostPlaced, CanaryPlaced
  <2>5. CASE FilestoreIntegrity(j) \/ CanaryProbe(j) \/ ReadAfter(j)
    <3>1. /\ pc[j] \in {"integrity", "canary_probe", "after"}
          /\ pc'[j] \in {"after", "verdict"}
          /\ pc[j] = "canary_probe" => ctx[j].mode = Canary
          /\ pc[j] = "integrity" => ctx[j].mode = Rehearsal
      <4>1. \A from \in {"integrity", "canary_probe", "after"} : \A to, g :
               Pass(j, from, to, g) => pc[j] = from /\ pc'[j] = to
        BY <1>1, PassFrame DEF Labels, Ended
      <4>2. /\ pc[j] = "canary_probe" => ctx[j].mode = Canary
            /\ pc[j] = "integrity" => ctx[j].mode = Rehearsal
        BY <1>1 DEF Prepared, Active, ModeLabels, Ended
      <4> QED
        BY <2>5, <4>1, <4>2 DEF FilestoreIntegrity, CanaryProbe, ReadAfter
    <3> QED
      BY <2>1, <3>1 DEF HostPlaced, CanaryPlaced
  <2> QED
    BY <1>5, <2>2, <2>3, <2>4, <2>5 DEF PassAction
<1>6. CASE CreateBackup(j)
  <2>1. /\ pc'[j] \in {"up", "up_previous"} /\ todo'[j] = Workloads
        /\ ctx' = ctx
    BY <1>1, <1>6 DEF CreateBackup, Goto, Remaining, TypeOK
  <2> QED
    BY <2>1 DEF HostPlaced, CanaryPlaced
<1>7. CASE RecreateService(j)
  <2>1. PICK w \in todo[j] : /\ host' = [host EXCEPT ![w] = Target(j)[w]]
                             /\ todo'[j] = todo[j] \ {w}
    BY <1>1, <1>7 DEF RecreateService, Remaining, TypeOK
  <2>2. pc' = pc /\ ctx' = ctx /\ canary' = canary /\ Target(j)' = Target(j)
    BY <1>7 DEF RecreateService, Target
  <2>3. pc[j] \in UpLabels /\ OnStaging(j)
    BY <1>7, WhoChanges, <1>1 DEF RecreateService, Prepared, Active, ModeLabels,
       Ended
  <2>4. \A x \in Workloads \ todo'[j] : host'[x] = Target(j)[x]
    BY <1>1, <2>1, <2>3 DEF HostPlaced, TypeOK
  <2> QED
    BY <2>2, <2>3, <2>4 DEF HostPlaced, CanaryPlaced
<1>8. CASE CheckWorkload(j)
  <2>1. UNCHANGED <<host, canary, pc, ctx>> /\ pc[j] \in CheckLabels
    BY <1>8 DEF CheckWorkload, world
  <2> QED
    BY <2>1 DEF HostPlaced, CanaryPlaced, CheckLabels
<1>9. CASE ApplyCanary(j)
  <2>1. pc'[j] = "receipt" /\ ctx' = ctx /\ canary' = ctx[j].doc
        /\ pc[j] = "apply"
    BY <1>1, <1>9 DEF ApplyCanary, Goto, TypeOK
  <2> QED
    BY <2>1 DEF HostPlaced, CanaryPlaced
<1>10. CASE Raise(j)
  <2>1. /\ UNCHANGED <<host, canary, ctx>>
        /\ \/ InStagingTry(j) /\ pc'[j] = "rb_up" /\ todo'[j] = Workloads
           \/ InCanaryTry(j) /\ pc'[j] = "rb_run"
           \/ pc'[j] = "raise"
    BY <1>1, <1>10 DEF Raise, Goto, Remaining, TypeOK, world
  <2> QED
    BY <2>1 DEF HostPlaced, CanaryPlaced, InStagingTry, InCanaryTry
<1>11. CASE WithdrawCanary(j)
  <2>1. /\ pc'[j] = "rb_receipt" /\ ctx' = ctx /\ canary' # ctx[j].doc
    BY <1>1, <1>2, <1>11, NoneAssumption DEF WithdrawCanary, Goto, TypeOK, local
  <2> QED
    BY <2>1 DEF HostPlaced, CanaryPlaced
<1>12. CASE StagingRolledBack(j) \/ CanaryRolledBack(j) \/ Go(j) \/ NoGo(j)
             \/ Escape(j)
  <2>1. pc'[j] \in {"raise", "done", "crashed"}
    BY <1>1, <1>12 DEF StagingRolledBack, CanaryRolledBack, RollbackPerformed,
       Go, NoGo, Escape, Exit, Goto, TypeOK
  <2> QED
    BY <2>1, <1>3 DEF Ended
<1> QED
  BY <1>4, <1>5, <1>6, <1>7, <1>8, <1>9, <1>10, <1>11, <1>12
     DEF Step, PassAction

LEMMA PlacedNext ==
  ASSUME SingleRunners
  PROVE  Safe /\ HostIsTarget /\ CanaryIsCandidate /\ [Next]_vars
           => HostIsTarget' /\ CanaryIsCandidate'
<1> SUFFICES ASSUME Safe, [Next]_vars,
                    \A j \in Jobs : HostPlaced(j) /\ CanaryPlaced(j)
             PROVE  \A j \in Jobs : HostPlaced(j)' /\ CanaryPlaced(j)'
  BY PlacedJobs DEF HostIsTarget, CanaryIsCandidate, HostPlaced, CanaryPlaced
<1>1. TypeOK
  BY DEF Safe
<1>2. ASSUME NEW j \in Jobs, Step(j)
      PROVE  \A k \in Jobs : HostPlaced(k)' /\ CanaryPlaced(k)'
  BY <1>2, OthersPlaced, OwnPlaced
<1>3. ASSUME NEW j \in Jobs, Start(j) \/ Kill(j)
      PROVE  \A k \in Jobs : HostPlaced(k)' /\ CanaryPlaced(k)'
  <2>1. /\ pc'[j] \in {"load", "killed"} /\ host' = host /\ canary' = canary
        /\ \A k \in Jobs \ {j} : /\ pc'[k] = pc[k] /\ ctx'[k] = ctx[k]
                                 /\ todo'[k] = todo[k]
    BY <1>1, <1>3 DEF Start, Kill, Exit, Goto, Remaining, TypeOK, Dispatched,
                           world
  <2>2. HostPlaced(j)' /\ CanaryPlaced(j)'
    BY <2>1 DEF HostPlaced, CanaryPlaced, UpLabels
  <2>3. ASSUME NEW k \in Jobs \ {j} PROVE HostPlaced(k)' /\ CanaryPlaced(k)'
    BY <2>1 DEF HostPlaced, CanaryPlaced, OnStaging, Target
  <2> QED
    BY <2>2, <2>3
<1>4. CASE UNCHANGED <<host, canary, pc, ctx, todo>>
  BY <1>4 DEF HostPlaced, CanaryPlaced, OnStaging, Target
<1> QED
  BY <1>2, <1>3, <1>4 DEF Next, LiveEffect, AllEnded, local, vars, world

LEMMA SafeAlways == Spec => []Safe
  BY SafeInit, SafeNext, PTL DEF Spec

LEMMA PlacedInit == Init => HostIsTarget /\ CanaryIsCandidate
  BY DEF Init, HostIsTarget, CanaryIsCandidate, UpLabels

LEMMA PlacedAlways ==
  ASSUME SingleRunners
  PROVE  Spec => [](Safe /\ HostIsTarget /\ CanaryIsCandidate)
<1>1. Init => Safe /\ HostIsTarget /\ CanaryIsCandidate
  BY SafeInit, PlacedInit
<1>2. Safe /\ HostIsTarget /\ CanaryIsCandidate /\ [Next]_vars
        => (Safe /\ HostIsTarget /\ CanaryIsCandidate)'
  BY SafeNext, PlacedNext
<1> QED
  BY <1>1, <1>2, PTL DEF Spec

\* Where a job is tells what is true of the world: it holds a recovery point
\* before it touches staging, the evidence its prerequisite gate demands, and,
\* with one runner per environment, the host runs what it deployed.
THEOREM InductiveInvariant == Spec => []IInv
<1>1. CASE SingleRunners
  <2>1. Safe /\ HostIsTarget /\ CanaryIsCandidate => IInv
    BY DEF Safe, IInv
  <2> QED
    BY <1>1, <2>1, PlacedAlways, PTL
<1>2. CASE ~SingleRunners
  <2>1. Safe => IInv
    BY <1>2 DEF Safe, IInv
  <2> QED
    BY <2>1, SafeAlways, PTL
<1> QED
  BY <1>1, <1>2

(***************************************************************************)
(* What a step may never do.                                               *)
(***************************************************************************)

LEMMA NextCases ==
  ASSUME [Next]_vars
  PROVE  \/ \E j \in Jobs : Step(j)
         \/ \E j \in Jobs : Start(j) \/ Kill(j)
         \/ UNCHANGED <<host, canary, backups, evidence, pc, local>>
  BY DEF Next, LiveEffect, AllEnded, vars, world, local

\* No service of staging is touched but under a verified recovery point, and by
\* a rehearsal only behind a GO staging certificate of the same document.
THEOREM StagingIsProtected == Spec => HostChangesAreProtected
<1>1. ASSUME Safe, [Next]_vars, host' # host
      PROVE  \E j \in Jobs :
               /\ Active(j) /\ changed'[j] /\ j \in backups
               /\ ctx[j].mode # Canary
               /\ ctx[j].mode = Rehearsal =>
                    \E e \in evidence : e.mode = Staging /\ e.doc = ctx[j].doc
                                        /\ e.verdict = "GO"
  <2>1. PICK j \in Jobs : RecreateService(j) /\ OnStaging(j) /\ Active(j)
    BY <1>1, NextCases, WhoChanges DEF Start, Kill, world
  <2>2. pc[j] \in UpLabels /\ changed'[j]
    BY <1>1, <2>1 DEF RecreateService, Safe, TypeOK
  <2>3. j \in backups
    BY <1>1, <2>1, <2>2 DEF Safe, RecoverableChanges, DeployLabels, UpLabels
  <2>4. ctx[j].mode = Rehearsal => StagingCertified(ctx[j])
    BY <1>1, <2>1, <2>2 DEF Safe, HasPrerequisites, UpLabels
  <2>5. ctx[j].mode = Rehearsal =>
          \E e \in evidence : e.mode = Staging /\ e.doc = ctx[j].doc
                              /\ e.verdict = "GO"
    BY <2>4 DEF StagingCertified, ValidEvidence
  <2> QED
    BY <2>1, <2>2, <2>3, <2>5 DEF OnStaging
<1> QED
  BY <1>1, SafeAlways, PTL DEF HostChangesAreProtected, Spec

\* Canary traffic only ever reaches a document with GO evidence of staging and
\* of the rehearsal, from the very runs its dispatch named.
THEOREM CanaryIsCertified == Spec => CanaryOnlyCertified
<1>1. ASSUME Safe, [Next]_vars, canary' # canary, canary' # NoManifest
      PROVE  \E j \in Jobs : \E s, r \in evidence :
               /\ pc[j] = "apply" /\ ctx[j].doc = canary'
               /\ s.doc = canary' /\ s.mode = Staging /\ s.verdict = "GO"
               /\ s.producer = ctx[j].stagingRun
               /\ r.doc = canary' /\ r.mode = Rehearsal /\ r.verdict = "GO"
               /\ r.producer = ctx[j].rollbackRun
  <2>1. PICK j \in Jobs : /\ ApplyCanary(j) \/ WithdrawCanary(j)
                          /\ ctx[j].mode = Canary /\ Active(j)
    BY <1>1, NextCases, WhoChanges DEF Start, Kill, world
  <2>2. pc[j] = "apply" /\ canary' = ctx[j].doc
    BY <1>1, <2>1 DEF ApplyCanary, WithdrawCanary
  <2>3. StagingCertified(ctx[j]) /\ RehearsalCertified(ctx[j])
    BY <1>1, <2>1, <2>2 DEF Safe, HasPrerequisites
  <2> QED
    BY <2>2, <2>3 DEF StagingCertified, RehearsalCertified, ValidEvidence
<1> QED
  BY <1>1, SafeAlways, PTL DEF CanaryOnlyCertified, Spec

\* The only way to a GO is the Go step, and it keeps the world.
LEMMA GoSteps ==
  ASSUME Safe, [Next]_vars, NEW j \in Jobs, Issues(j, "GO")
  PROVE  pc[j] = "verdict" /\ Prepared(j) /\ Active(j)
         /\ ctx[j].mode \in Modes
  BY PreparedJobs, ModeOf DEF Issues, Safe

\* With one runner of each label, GO is only written in a state it describes:
\* staging runs exactly the candidate behind that job's recovery point, or the
\* canary is the candidate.
THEOREM GoTruth == SingleRunners => (Spec => GoIsTruthful)
<1> SUFFICES ASSUME SingleRunners PROVE Spec => GoIsTruthful
  OBVIOUS
<1>1. ASSUME Safe /\ HostIsTarget /\ CanaryIsCandidate, [Next]_vars,
             NEW j \in Jobs, Issues(j, "GO"), ctx[j].mode # Validate
      PROVE  IF ctx[j].mode = Canary
               THEN canary = ctx[j].doc
               ELSE host = CandidateImage[ctx[j].doc] /\ j \in backups
  <2>1. pc[j] = "verdict" /\ Prepared(j) /\ ctx[j].mode \in Modes
    BY <1>1, GoSteps
  <2> QED
    BY <1>1, <2>1 DEF HostIsTarget, CanaryIsCandidate, Prepared, OnStaging,
       DeployLabels, Modes
<1>2. Safe /\ HostIsTarget /\ CanaryIsCandidate /\ [Next]_vars =>
        \A j \in Jobs : Issues(j, "GO") /\ ctx[j].mode # Validate =>
          IF ctx[j].mode = Canary
            THEN canary = ctx[j].doc
            ELSE host = CandidateImage[ctx[j].doc] /\ j \in backups
  BY <1>1
<1> QED
  BY <1>2, PlacedAlways, PTL DEF GoIsTruthful, Spec

\* With one runner of each label, rollback_performed is never claimed unless
\* the complete previous set runs, or the canary is withdrawn.
THEOREM RollbackTruth == SingleRunners => (Spec => RollbackIsTruthful)
<1> SUFFICES ASSUME SingleRunners PROVE Spec => RollbackIsTruthful
  OBVIOUS
<1>1. ASSUME Safe /\ HostIsTarget /\ CanaryIsCandidate, [Next]_vars,
             NEW j \in Jobs, rollback[j] # "performed",
             rollback'[j] = "performed"
      PROVE  IF ctx[j].mode = Canary
               THEN canary # ctx[j].doc
               ELSE host = PreviousImage[ctx[j].doc]
  <2>1. TypeOK /\ Prepared(j) /\ ctx[j].mode \in Modes
    BY <1>1, PreparedJobs, ModeOf DEF Safe
  <2>2. pc[j] \in {"rb_check", "rb_receipt"}
    <3>1. ASSUME NEW k \in Jobs, Step(k) PROVE pc[j] \in {"rb_check", "rb_receipt"}
      <4>1. CASE PassAction(k)
        <5>1. rollback' = rollback
          BY <4>1, PassActionPasses DEF Pass, PassTo
        <5> QED
          BY <5>1, <1>1
      <4>2. CASE StagingRolledBack(k) \/ CanaryRolledBack(k)
        BY <1>1, <2>1, <4>2 DEF StagingRolledBack, CanaryRolledBack,
           RollbackPerformed, TypeOK
      <4>3. CASE Raise(k)
        BY <1>1, <2>1, <4>3 DEF Raise, TypeOK
      <4>4. CASE Go(k) \/ NoGo(k) \/ Escape(k)
        BY <1>1, <2>1, <4>4 DEF Go, NoGo, Escape, Exit, TypeOK
      <4>5. CASE CreateBackup(k) \/ RecreateService(k) \/ CheckWorkload(k)
                   \/ ApplyCanary(k) \/ WithdrawCanary(k)
        BY <1>1, <4>5 DEF CreateBackup, RecreateService, CheckWorkload,
           ApplyCanary, WithdrawCanary, local
      <4> QED
        BY <3>1, <4>1, <4>2, <4>3, <4>4, <4>5 DEF Step, PassAction
    <3>2. ASSUME NEW k \in Jobs, Start(k) \/ Kill(k) PROVE FALSE
      BY <1>1, <2>1, <3>2 DEF Start, Kill, Exit, TypeOK
    <3> QED
      BY <1>1, <3>1, <3>2, NextCases DEF local
  <2>3. /\ pc[j] = "rb_check" => ctx[j].mode = Staging
        /\ pc[j] = "rb_receipt" => ctx[j].mode = Canary
    BY <2>1, <2>2 DEF Prepared, Active, Ended, ModeLabels, Modes
  <2> QED
    BY <1>1, <2>2, <2>3 DEF HostIsTarget, CanaryIsCandidate, OnStaging
<1>2. Safe /\ HostIsTarget /\ CanaryIsCandidate /\ [Next]_vars =>
        \A j \in Jobs :
          rollback[j] # "performed" /\ rollback'[j] = "performed" =>
            IF ctx[j].mode = Canary
              THEN canary # ctx[j].doc
              ELSE host = PreviousImage[ctx[j].doc]
  BY <1>1
<1> QED
  BY <1>2, PlacedAlways, PTL DEF RollbackIsTruthful, Spec

(***************************************************************************)
(* What a staging job leaves behind.                                       *)
(***************************************************************************)

\* The places of a staging job before it touches the host.
Before == {"load", "images", "baseline", "backup"}

\* The gates of StagingGates that are recorded when a staging job is at a place.
Earned(place) ==
  CASE place \in {"up", "check"} ->
         {"paired-local-off-host-and-restore-verified-backup"}
    [] place = "after"   -> StagingGates \ {"zero-calls-emails-sms"}
    [] place = "verdict" -> StagingGates
    [] OTHER             -> {}

\* What its place says of the memory of a job: a staging job that has changed the
\* host and raised has all its gates, or has been through the except branch.
Accounted(j) ==
  /\ pc[j] = "idle" => ~changed[j] /\ rollback[j] = "none"
  /\ ctx[j].mode = Staging =>
       /\ Earned(pc[j]) \subseteq gates[j]
       /\ pc[j] \in Before => ~changed[j]
       /\ pc[j] \in Before \cup {"up", "check", "after", "verdict"} =>
            rollback[j] = "none"
       /\ pc[j] \in {"rb_up", "rb_check"} => rollback[j] = "attempted"
       /\ pc[j] = "raise" /\ changed[j] =>
            StagingGates \subseteq gates[j] \/ rollback[j] # "none"

\* And of the host: a staging job that raised with no rollback, or with a complete
\* one, leaves a complete release.
Released(j) ==
  ctx[j].mode = Staging /\ pc[j] = "raise" /\ changed[j]
    /\ rollback[j] # "attempted" =>
      host \in {CandidateImage[ctx[j].doc], PreviousImage[ctx[j].doc]}

\* A gate that passes adds to the gates of its own job, and to nothing else.
LEMMA PassRecords ==
  ASSUME TypeOK, NEW j \in Jobs, NEW from, NEW to, NEW g,
         Pass(j, from, to, g) \/ PassTo(j, from, to, g)
  PROVE  /\ rollback' = rollback /\ changed' = changed
         /\ gates'[j] = gates[j] \cup g
         /\ \A k \in Jobs \ {j} : gates'[k] = gates[k]
  BY DEF TypeOK, Pass, PassTo, Record

\* The memory of a job is its own.
LEMMA OwnMemory ==
  ASSUME TypeOK, NEW j \in Jobs, Step(j) \/ Start(j) \/ Kill(j), NEW k \in Jobs \ {j}
  PROVE  gates'[k] = gates[k] /\ rollback'[k] = rollback[k] /\ changed'[k] = changed[k]
<1>1. CASE PassAction(j)
  BY <1>1, PassActionPasses, PassRecords
<1>2. CASE CreateBackup(j) \/ RecreateService(j) \/ CheckWorkload(j)
  BY <1>2 DEF CreateBackup, RecreateService, CheckWorkload, Record, TypeOK
<1>3. CASE ApplyCanary(j) \/ WithdrawCanary(j)
  BY <1>3 DEF ApplyCanary, WithdrawCanary, local, TypeOK
<1>4. CASE Raise(j)
  BY <1>4 DEF Raise, TypeOK
<1>5. CASE StagingRolledBack(j) \/ CanaryRolledBack(j)
  BY <1>5 DEF StagingRolledBack, CanaryRolledBack, RollbackPerformed, TypeOK
<1>6. CASE Go(j) \/ NoGo(j) \/ Escape(j) \/ Kill(j)
  BY <1>6 DEF Go, NoGo, Escape, Kill, Exit, TypeOK
<1>7. CASE Start(j)
  BY <1>7 DEF Start
<1> QED
  BY <1>1, <1>2, <1>3, <1>4, <1>5, <1>6, <1>7 DEF Step, PassAction

\* What is known of a job stays known while its place, context and memory do.
LEMMA AccountedLasts ==
  ASSUME NEW k \in Jobs, Accounted(k), pc'[k] = pc[k], ctx'[k] = ctx[k],
         gates'[k] = gates[k], rollback'[k] = rollback[k], changed'[k] = changed[k]
  PROVE  Accounted(k)' /\ (host' = host /\ Released(k) => Released(k)')
  BY DEF Accounted, Released

\* A gate of a staging job is recorded where Earned expects it.
LEMMA PassAccounted ==
  ASSUME TypeOK, NEW j \in Jobs, Prepared(j), Accounted(j), PassAction(j)
  PROVE  Accounted(j)' /\ pc'[j] \notin Ended \cup {"raise"}
<1> DEFINE Went(from, to, g) ==
      /\ pc[j] = from /\ pc'[j] = to /\ ctx'[j] = ctx[j]
      /\ rollback'[j] = rollback[j] /\ changed'[j] = changed[j]
      /\ gates'[j] = gates[j] \cup g
<1>1. ASSUME NEW from \in Labels \ (Ended \cup {"idle"}), NEW to, NEW g,
             Pass(j, from, to, g) \/ PassTo(j, from, to, g)
      PROVE  Went(from, to, g)
  BY <1>1, PassFrame, PassRecords
<1>2. ctx[j].mode \in Modes
  BY ModeOf
<1> HIDE DEF Went
<1> USE DEF Labels, Ended
<1>3. ASSUME NEW from, NEW to, NEW g, Went(from, to, g), ctx[j].mode # Staging,
             to \notin Ended \cup {"idle", "raise"}
      PROVE  Accounted(j)' /\ pc'[j] \notin Ended \cup {"raise"}
  BY <1>3 DEF Accounted, Went
<1>4. ASSUME NEW from, NEW to, NEW g, Went(from, to, g), ctx[j].mode = Staging,
             \/ from \in Before /\ to \in Before
             \/ from = "up" /\ to = "check"
             \/ from = "rb_up" /\ to = "rb_check"
      PROVE  Accounted(j)' /\ pc'[j] \notin Ended \cup {"raise"}
  BY <1>4 DEF Accounted, Went, Before, Earned
<1>5. CASE Load(j)
  <2>1. \E g : \/ ctx[j].mode = Staging /\ Went("load", "images", g)
               \/ ctx[j].mode # Staging /\ \E to \in {"verdict", "prerequisite", "controller"} :
                                             Went("load", to, g)
    BY <1>1, <1>2, <1>5 DEF Load, Modes
  <2> QED
    BY <2>1, <1>3, <1>4 DEF Before
<1>6. CASE VerifyImages(j)
  <2>1. \E g : Went("images", "baseline", g)
    BY <1>1, <1>6 DEF VerifyImages
  <2> QED
    BY <2>1, <1>3, <1>4 DEF Before
<1>7. CASE ReadBaseline(j)
  <2>1. \E g : \/ Went("baseline", "backup", g)
               \/ ctx[j].mode = Canary /\ Went("baseline", "probe", g)
    BY <1>1, <1>7 DEF ReadBaseline
  <2> QED
    BY <2>1, <1>3, <1>4 DEF Before
<1>8. CASE DeployDone(j)
  <2>1. \E g : \/ Went("up", "check", g)
               \/ Went("up_previous", "check_previous", g)
               \/ Went("rb_up", "rb_check", g)
    BY <1>1, <1>8 DEF DeployDone
  <2>2. pc[j] = "up_previous" => ctx[j].mode # Staging
    BY DEF Prepared, Active, ModeLabels
  <2> QED
    BY <2>1, <2>2, <1>3, <1>4 DEF Went
<1>9. CASE ChecksDone(j)
  <2>1. \/ \E g : \/ Went("initial", "baseline", g)
                  \/ Went("check_previous", "up", g)
        \/ /\ ctx[j].mode = Staging
           /\ Went("check", "after",
                   {"source-digest-readiness-capabilities-metrics-migrations",
                    "keycloak-issuer", "kong-29-route-smoke"})
        \/ /\ ctx[j].mode # Staging
           /\ \E g : Went("check", "integrity", g) \/ Went("check", "canary_probe", g)
    BY <1>1, <1>9 DEF ChecksDone
  <2>2. pc[j] \in {"initial", "check_previous"} => ctx[j].mode # Staging
    BY DEF Prepared, Active, ModeLabels
  <2>3. CASE /\ ctx[j].mode = Staging
             /\ Went("check", "after",
                     {"source-digest-readiness-capabilities-metrics-migrations",
                      "keycloak-issuer", "kong-29-route-smoke"})
    BY <2>3 DEF Accounted, Went, Before, Earned, StagingGates
  <2> QED
    BY <2>1, <2>2, <2>3, <1>3 DEF Went
<1>10. CASE ReadAfter(j)
  <2>1. \/ ctx[j].mode = Staging /\ Went("after", "verdict", {"zero-calls-emails-sms"})
        \/ ctx[j].mode # Staging /\ \E g : Went("after", "verdict", g)
    BY <1>1, <1>10 DEF ReadAfter
  <2>2. CASE ctx[j].mode = Staging /\ Went("after", "verdict", {"zero-calls-emails-sms"})
    BY <2>2 DEF Accounted, Went, Before, Earned
  <2> QED
    BY <2>1, <2>2, <1>3
<1>11. CASE RehearsalPrerequisite(j) \/ CanaryPrerequisites(j) \/ FilestoreIntegrity(j)
              \/ BaselineProbe(j) \/ ReceiptValid(j) \/ CanaryProbe(j)
  <2>1. /\ pc[j] \in {"prerequisite", "controller", "integrity", "probe", "receipt",
                      "canary_probe"}
        /\ \E to \in {"initial", "baseline", "after", "apply", "check"} : \E g :
             Went(pc[j], to, g)
    BY <1>1, <1>11 DEF RehearsalPrerequisite, CanaryPrerequisites, FilestoreIntegrity,
       BaselineProbe, ReceiptValid, CanaryProbe, Pass, PassTo
  <2>2. ctx[j].mode # Staging
    BY <2>1 DEF Prepared, Active, ModeLabels
  <2> QED
    BY <2>1, <2>2, <1>3
<1> QED
  BY <1>5, <1>6, <1>7, <1>8, <1>9, <1>10, <1>11 DEF PassAction

\* A job comes to the handler of main() before it touched the host, with all its
\* gates, or through the except branch, which it leaves on the previous release if
\* its rollback returns.
LEMMA StepAccounted ==
  ASSUME TypeOK, NEW j \in Jobs, Prepared(j), HostPlaced(j), Accounted(j), Released(j),
         Step(j)
  PROVE  Accounted(j)' /\ Released(j)'
<1> USE DEF Labels, Ended
<1>1. ASSUME pc'[j] # "raise" PROVE Released(j)'
  BY <1>1 DEF Released
<1>2. ASSUME pc'[j] \in Ended PROVE Accounted(j)'
  BY <1>2 DEF Accounted, Before, Earned
<1>3. CASE PassAction(j)
  BY <1>1, <1>3, PassAccounted
<1>4. CASE CreateBackup(j)
  <2>1. /\ pc[j] = "backup" /\ ctx'[j] = ctx[j] /\ rollback'[j] = rollback[j]
        /\ \/ /\ ctx[j].mode = Staging /\ pc'[j] = "up"
              /\ gates'[j] = gates[j]
                   \cup {"paired-local-off-host-and-restore-verified-backup"}
           \/ ctx[j].mode # Staging /\ pc'[j] = "up_previous"
    BY <1>4 DEF CreateBackup, Goto, Record, TypeOK
  <2> QED
    BY <1>1, <2>1 DEF Accounted, Before, Earned
<1>5. CASE RecreateService(j) \/ CheckWorkload(j)
  <2>1. /\ pc'[j] = pc[j] /\ ctx'[j] = ctx[j] /\ gates'[j] = gates[j]
        /\ rollback'[j] = rollback[j]
        /\ changed'[j] = changed[j] \/ pc[j] \in UpLabels
        /\ pc[j] \in UpLabels \cup CheckLabels
    BY <1>5 DEF RecreateService, CheckWorkload, TypeOK
  <2> QED
    BY <1>1, <2>1 DEF Accounted, Before, Earned, UpLabels, CheckLabels
<1>6. CASE ApplyCanary(j) \/ WithdrawCanary(j)
  <2>1. /\ ctx[j].mode # Staging /\ ctx'[j] = ctx[j]
        /\ pc'[j] \in {"receipt", "rb_receipt"}
    BY <1>6 DEF ApplyCanary, WithdrawCanary, Prepared, Active, ModeLabels, Goto, TypeOK,
       local
  <2> QED
    BY <1>1, <2>1 DEF Accounted
<1>7. CASE Raise(j)
  <2>1. /\ ctx'[j] = ctx[j] /\ gates'[j] = gates[j] /\ changed'[j] = changed[j]
        /\ host' = host
        /\ \/ InStagingTry(j) /\ pc'[j] = "rb_up" /\ rollback'[j] = "attempted"
           \/ InCanaryTry(j) /\ pc'[j] = "rb_run"
           \/ /\ ~InStagingTry(j) /\ pc'[j] = "raise" /\ rollback'[j] = rollback[j]
              /\ Active(j) /\ pc[j] # "raise"
    BY <1>7 DEF Raise, Goto, TypeOK, world
  <2>2. CASE ctx[j].mode # Staging
    BY <2>1, <2>2 DEF Accounted, Released
  <2>3. CASE ctx[j].mode = Staging /\ pc'[j] # "raise"
    BY <1>1, <2>1, <2>3 DEF Accounted, InCanaryTry, Earned, Before
  <2>4. CASE ctx[j].mode = Staging /\ pc'[j] = "raise"
    <3>1. pc[j] \in Before \cup {"verdict", "rb_up", "rb_check"}
      BY <2>1, <2>4 DEF InStagingTry, Prepared, Active, ModeLabels, Before
    <3>2. CASE pc[j] \in Before
      BY <2>1, <2>4, <3>2 DEF Accounted, Released, Earned, Before
    <3>3. CASE pc[j] = "verdict"
      <4>1. host = CandidateImage[ctx[j].doc]
        BY <2>4, <3>3 DEF HostPlaced, OnStaging
      <4> QED
        BY <2>1, <2>4, <3>3, <4>1 DEF Accounted, Released, Earned, Before
    <3>4. CASE pc[j] \in {"rb_up", "rb_check"}
      BY <2>1, <2>4, <3>4 DEF Accounted, Released, Earned, Before
    <3> QED
      BY <3>1, <3>2, <3>3, <3>4
  <2> QED
    BY <2>2, <2>3, <2>4
<1>8. CASE StagingRolledBack(j) \/ CanaryRolledBack(j)
  <2>1. /\ ctx'[j] = ctx[j] /\ pc'[j] = "raise" /\ rollback'[j] = "performed"
        /\ host' = host /\ pc[j] \in {"rb_check", "rb_receipt"}
    BY <1>8 DEF StagingRolledBack, CanaryRolledBack, RollbackPerformed, Goto, TypeOK,
       world
  <2>2. ctx[j].mode = Staging => host = PreviousImage[ctx[j].doc]
    BY <2>1 DEF HostPlaced, OnStaging, Prepared, Active, ModeLabels
  <2> QED
    BY <2>1, <2>2 DEF Accounted, Released, Earned, Before
<1>9. CASE Go(j) \/ NoGo(j) \/ Escape(j)
  <2>1. pc'[j] \in {"done", "crashed"}
    BY <1>9 DEF Go, NoGo, Escape, Exit, Goto, TypeOK
  <2> QED
    BY <1>1, <1>2, <2>1
<1> QED
  BY <1>3, <1>4, <1>5, <1>6, <1>7, <1>8, <1>9 DEF Step, PassAction

\* No job has begun.
LEMMA SettlingInit == Init => \A j \in Jobs : Accounted(j) /\ Released(j)
  BY DEF Init, Accounted, Released, Earned, Before

\* Every step keeps the account of all jobs: nobody else changes the host of a job
\* that is still running.
LEMMA SettlingNext ==
  ASSUME Safe, SingleRunners, HostIsTarget, [Next]_vars,
         \A j \in Jobs : Accounted(j) /\ Released(j)
  PROVE  \A j \in Jobs : Accounted(j)' /\ Released(j)'
<1>1. TypeOK /\ (\A k \in Jobs : Prepared(k)) /\ (\A k \in Jobs : HostPlaced(k))
  BY PreparedJobs, PlacedJobs DEF Safe
<1>2. ASSUME NEW j \in Jobs, Step(j), NEW k \in Jobs PROVE Accounted(k)' /\ Released(k)'
  <2>1. CASE k = j
    BY <1>1, <1>2, <2>1, StepAccounted
  <2>2. CASE k # j
    <3>1. pc'[k] = pc[k] /\ ctx'[k] = ctx[k]
      BY <1>1, <1>2, <2>2, StepFrame DEF Framed
    <3>2. gates'[k] = gates[k] /\ rollback'[k] = rollback[k] /\ changed'[k] = changed[k]
      BY <1>1, <1>2, <2>2, OwnMemory
    <3>3. OnStaging(k) /\ Active(k) => host' = host
      BY <1>2, <2>2, WhoChanges, OneJobPerEnvironment
    <3>4. Accounted(k)' /\ (host' = host => Released(k)')
      BY <3>1, <3>2, AccountedLasts
    <3>5. host' # host => Released(k)'
      BY <3>1, <3>3 DEF Released, OnStaging, Active, Ended
    <3> QED
      BY <3>4, <3>5
  <2> QED
    BY <2>1, <2>2
<1>3. ASSUME NEW j \in Jobs, Start(j) \/ Kill(j), NEW k \in Jobs
      PROVE  Accounted(k)' /\ Released(k)'
  <2>1. host' = host /\ \A i \in Jobs \ {j} : pc'[i] = pc[i] /\ ctx'[i] = ctx[i]
    BY <1>1, <1>3 DEF Start, Kill, Exit, Goto, TypeOK, Dispatched, world
  <2>2. CASE k # j
    <3>1. gates'[k] = gates[k] /\ rollback'[k] = rollback[k] /\ changed'[k] = changed[k]
      BY <1>1, <1>3, <2>2, OwnMemory
    <3> QED
      BY <2>1, <2>2, <3>1, AccountedLasts
  <2>3. CASE k = j /\ Start(j)
    <3>1. /\ pc[j] = "idle" /\ pc'[j] = "load"
          /\ rollback' = rollback /\ changed' = changed
      BY <1>1, <2>3 DEF Start, Goto, TypeOK
    <3> QED
      BY <2>3, <3>1 DEF Accounted, Released, Earned, Before
  <2>4. CASE k = j /\ Kill(j)
    <3>1. pc'[j] = "killed"
      BY <1>1, <2>4 DEF Kill, Exit, Goto, TypeOK
    <3> QED
      BY <2>4, <3>1 DEF Accounted, Released, Earned, Before
  <2> QED
    BY <1>3, <2>2, <2>3, <2>4
<1>4. CASE UNCHANGED <<host, canary, backups, evidence, pc, local>>
  BY <1>4, AccountedLasts DEF local
<1> QED
  BY <1>2, <1>3, <1>4, NextCases

\* With one runner of each label, a staging job that touched the host and is not
\* killed ends with all its gates or behind a rollback, and unless the rollback
\* failed on a complete release.
THEOREM StagingSettled == SingleRunners => (Spec => StagingSettles)
<1> SUFFICES ASSUME SingleRunners PROVE Spec => StagingSettles
  OBVIOUS
<1> DEFINE Inv == /\ Safe /\ HostIsTarget /\ CanaryIsCandidate
                  /\ \A j \in Jobs : Accounted(j) /\ Released(j)
<1>1. Init => Inv
  BY SafeInit, PlacedInit, SettlingInit
<1>2. Inv /\ [Next]_vars => Inv'
  BY SafeNext, PlacedNext, SettlingNext
<1>3. ASSUME Inv, [Next]_vars, NEW j \in Jobs,
             Active(j), pc'[j] \in {"done", "crashed"}, changed[j],
             ctx[j].mode = Staging
      PROVE  /\ StagingGates \subseteq gates[j] \/ rollback[j] # "none"
             /\ rollback[j] # "attempted" =>
                  host \in {CandidateImage[ctx[j].doc], PreviousImage[ctx[j].doc]}
  <2>1. TypeOK /\ Prepared(j) /\ HostPlaced(j) /\ Accounted(j) /\ Released(j)
    BY <1>3, PreparedJobs, PlacedJobs DEF Safe
  <2>2. pc[j] \in {"verdict", "raise"}
    <3>1. ASSUME NEW k \in Jobs, Step(k), k # j PROVE FALSE
      BY <1>3, <2>1, <3>1, StepFrame DEF Framed, Active, Ended
    <3>2. ASSUME Step(j) PROVE pc[j] \in {"verdict", "raise"}
      <4>1. CASE PassAction(j)
        BY <1>3, <2>1, <4>1, PassAccounted DEF Ended
      <4>2. CASE CreateBackup(j) \/ RecreateService(j) \/ CheckWorkload(j)
        BY <1>3, <2>1, <4>2 DEF CreateBackup, RecreateService, CheckWorkload, Goto,
           TypeOK, Active, Ended
      <4>3. CASE Raise(j) \/ ApplyCanary(j) \/ WithdrawCanary(j)
        BY <1>3, <2>1, <4>3 DEF Raise, ApplyCanary, WithdrawCanary, Goto, TypeOK
      <4>4. CASE StagingRolledBack(j) \/ CanaryRolledBack(j)
        BY <1>3, <2>1, <4>4 DEF StagingRolledBack, CanaryRolledBack,
           RollbackPerformed, Goto, TypeOK
      <4>5. CASE Go(j) \/ NoGo(j) \/ Escape(j)
        BY <4>5 DEF Go, NoGo, Escape
      <4> QED
        BY <3>2, <4>1, <4>2, <4>3, <4>4, <4>5 DEF Step, PassAction
    <3>3. ASSUME NEW k \in Jobs, Start(k) \/ Kill(k) PROVE FALSE
      BY <1>3, <2>1, <3>3 DEF Start, Kill, Exit, Goto, TypeOK, Active, Ended
    <3> QED
      BY <1>3, <3>1, <3>2, <3>3, NextCases DEF Active, Ended
  <2>3. CASE pc[j] = "verdict"
    BY <1>3, <2>1, <2>3 DEF Accounted, HostPlaced, OnStaging, Earned
  <2>4. CASE pc[j] = "raise"
    BY <1>3, <2>1, <2>4 DEF Accounted, Released
  <2> QED
    BY <2>2, <2>3, <2>4
<1>4. Inv /\ [Next]_vars =>
        \A j \in Jobs :
          Active(j) /\ pc'[j] \in {"done", "crashed"} /\ changed[j]
            /\ ctx[j].mode = Staging =>
          /\ StagingGates \subseteq gates[j] \/ rollback[j] # "none"
          /\ rollback[j] # "attempted" =>
               host \in {CandidateImage[ctx[j].doc], PreviousImage[ctx[j].doc]}
  <2> HIDE DEF Inv
  <2> QED
    BY <1>3
<1> HIDE DEF Inv
<1> QED
  BY <1>1, <1>2, <1>4, PTL DEF StagingSettles, Spec

(***************************************************************************)
(* The controller implements CertifiedRelease.                             *)
(***************************************************************************)

LEMMA PromiseInit == Init => Promise!Init
<1> SUFFICES ASSUME Init PROVE Promise!Init
  OBVIOUS
<1>1. host \in [Workloads -> Images]
  BY InitType DEF TypeOK
<1>2. Certificates = {}
  BY DEF Init, Certificates
<1> QED
  BY <1>1, <1>2 DEF Init, Promise!Init

\* A GO adds the certificate of its mode, except a GO of mode validate.
LEMMA GoCertifies ==
  ASSUME NEW j \in Jobs, Go(j)
  PROVE  Certificates' =
           IF ctx[j].mode = Validate
             THEN Certificates
             ELSE Certificates \cup {<<ctx[j].mode, ctx[j].doc>>}
<1> DEFINE new == EvidenceOf(j, "GO", gates[j])
<1>1. /\ evidence' = evidence \cup {new}
      /\ new.verdict = "GO" /\ new.mode = ctx[j].mode /\ new.doc = ctx[j].doc
  BY DEF Go, EvidenceOf
<1> HIDE DEF new
<1>2. \A x : x \in Certificates' <=>
        \/ x \in Certificates
        \/ ctx[j].mode # Validate /\ x = <<ctx[j].mode, ctx[j].doc>>
  BY <1>1 DEF Certificates
<1> QED
  BY <1>2

LEMMA NoGoCertifiesNothing ==
  ASSUME NEW j \in Jobs, NoGo(j)
  PROVE  Certificates' = Certificates
<1>1. \A e \in evidence' \ evidence : e.verdict = "NO_GO"
  BY DEF NoGo, EvidenceOf
<1>2. evidence \subseteq evidence'
  BY DEF NoGo
<1> QED
  BY <1>1, <1>2 DEF Certificates

LEMMA PromiseGo ==
  ASSUME Safe, HostIsTarget, CanaryIsCandidate, NEW j \in Jobs, Go(j)
  PROVE  Promise!Next \/ UNCHANGED Promise!vars
<1>1. TypeOK /\ Prepared(j) /\ ctx[j].mode \in Modes /\ ctx[j].doc \in Manifests
  BY PreparedJobs, ModeOf DEF Safe
<1>2. pc[j] = "verdict" /\ host' = host /\ canary' = canary /\ Active(j)
  BY DEF Go, Active, Ended
<1>3. CASE ctx[j].mode = Validate
  BY <1>2, <1>3, GoCertifies DEF Promise!vars
<1>4. CASE ctx[j].mode = Staging
  <2>1. host = CandidateImage[ctx[j].doc]
    BY <1>2, <1>4 DEF HostIsTarget, OnStaging
  <2>2. Promise!CertifyStaging(ctx[j].doc)
    BY <1>2, <1>4, <2>1, GoCertifies DEF Promise!CertifyStaging
  <2> QED
    BY <1>1, <2>2 DEF Promise!Next
<1>5. CASE ctx[j].mode = Rehearsal
  <2>1. host = CandidateImage[ctx[j].doc]
    BY <1>2, <1>5 DEF HostIsTarget, OnStaging
  <2>2. StagingCertified(ctx[j])
    BY <1>1, <1>2, <1>5 DEF Prepared
  <2>3. <<"staging", ctx[j].doc>> \in Certificates
    BY <2>2 DEF StagingCertified, ValidEvidence, Certificates
  <2>4. Promise!CertifyRehearsal(ctx[j].doc)
    BY <1>2, <1>5, <2>1, <2>3, GoCertifies DEF Promise!CertifyRehearsal
  <2> QED
    BY <1>1, <2>4 DEF Promise!Next
<1>6. CASE ctx[j].mode = Canary
  <2>1. canary = ctx[j].doc
    BY <1>2, <1>6 DEF CanaryIsCandidate
  <2>2. Promise!CertifyCanary(ctx[j].doc)
    BY <1>2, <1>6, <2>1, GoCertifies DEF Promise!CertifyCanary
  <2> QED
    BY <1>1, <2>2 DEF Promise!Next
<1> QED
  BY <1>1, <1>3, <1>4, <1>5, <1>6 DEF Modes

LEMMA PromiseStep ==
  ASSUME Safe, HostIsTarget, CanaryIsCandidate, TypeOK', NEW j \in Jobs, Step(j)
  PROVE  Promise!Next \/ UNCHANGED Promise!vars
<1>1. TypeOK /\ ctx[j].doc \in Manifests
  BY ModeOf DEF Safe
<1>2. CASE PassAction(j)
  <2>1. host' = host /\ canary' = canary /\ evidence' = evidence
    BY <1>1, <1>2, PassActionPasses, PassFrame
  <2> QED
    BY <2>1 DEF Promise!vars, Certificates
<1>3. CASE RecreateService(j)
  <2>1. canary' = canary /\ evidence' = evidence /\ host' \in [Workloads -> Images]
    BY <1>3 DEF RecreateService, TypeOK
  <2> QED
    BY <2>1 DEF Promise!Next, Promise!Redeploy, Certificates
<1>4. CASE ApplyCanary(j)
  <2>1. /\ host' = host /\ evidence' = evidence /\ canary' = ctx[j].doc
        /\ pc[j] = "apply" /\ Active(j) /\ ctx[j].mode = Canary
    BY <1>1, <1>4, PreparedJobs, WhoChanges, ModeOf, NoneAssumption, StepFrame
       DEF ApplyCanary, Active, Ended, Safe, Prepared, ModeLabels, Modes
  <2>2. StagingCertified(ctx[j]) /\ RehearsalCertified(ctx[j])
    BY <2>1 DEF Safe, HasPrerequisites
  <2>3. /\ <<"staging", ctx[j].doc>> \in Certificates
        /\ <<"rollback-rehearsal", ctx[j].doc>> \in Certificates
    BY <2>2 DEF StagingCertified, RehearsalCertified, ValidEvidence, Certificates
  <2>4. Promise!GoLive(ctx[j].doc)
    BY <2>1, <2>3 DEF Promise!GoLive, Certificates
  <2> QED
    BY <1>1, <2>4 DEF Promise!Next
<1>5. CASE WithdrawCanary(j)
  <2>1. /\ host' = host /\ evidence' = evidence
        /\ canary' = canary \/ canary' = NoManifest
    BY <1>5 DEF WithdrawCanary
  <2> QED
    BY <2>1 DEF Promise!Next, Promise!Withdraw, Promise!vars, Certificates
<1>6. CASE Go(j)
  BY <1>6, PromiseGo
<1>7. CASE NoGo(j)
  <2>1. host' = host /\ canary' = canary
    BY <1>7 DEF NoGo
  <2> QED
    BY <1>7, <2>1, NoGoCertifiesNothing DEF Promise!vars
<1>8. CASE CreateBackup(j) \/ CheckWorkload(j) \/ Raise(j) \/ Escape(j)
             \/ StagingRolledBack(j) \/ CanaryRolledBack(j)
  <2>1. host' = host /\ canary' = canary /\ evidence' = evidence
    BY <1>8 DEF CreateBackup, CheckWorkload, Raise, Escape, StagingRolledBack,
       CanaryRolledBack, RollbackPerformed, world
  <2> QED
    BY <2>1 DEF Promise!vars, Certificates
<1> QED
  BY <1>2, <1>3, <1>4, <1>5, <1>6, <1>7, <1>8 DEF Step, PassAction

\* With one runner of each label the controller implements the abstract
\* promise: every step certifies truthfully, goes live only when certified
\* twice, or says nothing.
THEOREM PromiseKept == SingleRunners => (Spec => KeepsPromise)
<1> SUFFICES ASSUME SingleRunners PROVE Spec => KeepsPromise
  OBVIOUS
<1>1. ASSUME Safe /\ HostIsTarget /\ CanaryIsCandidate, [Next]_vars
      PROVE  Promise!Next \/ UNCHANGED Promise!vars
  <2>1. TypeOK'
    BY <1>1, NextType DEF Safe
  <2>2. CASE \E j \in Jobs : Step(j)
    BY <1>1, <2>1, <2>2, PromiseStep
  <2>3. CASE host' = host /\ canary' = canary /\ evidence' = evidence
    BY <2>3 DEF Promise!vars, Certificates
  <2> QED
    BY <1>1, <2>2, <2>3, NextCases DEF Start, Kill, world
<1>2. Safe /\ HostIsTarget /\ CanaryIsCandidate /\ [Next]_vars
        => [Promise!Next]_(Promise!vars)
  BY <1>1
<1> QED
  BY <1>2, PromiseInit, PlacedAlways, PTL DEF KeepsPromise, Promise!Spec, Spec
=============================================================================
