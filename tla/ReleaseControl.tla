--------------------------- MODULE ReleaseControl ---------------------------
(***************************************************************************)
(* The release controller: executions of release_control_v2.main() against *)
(* the staging host, the production canary and the evidence store.         *)
(*                                                                         *)
(* One job is one execution of the controller in one mode.  A job walks    *)
(* through the gates of its mode; every gate may raise, and the process    *)
(* may be killed at any point (job timeout, cancellation, host loss).      *)
(* Jobs run on self-hosted runners, one job at a time per runner.          *)
(***************************************************************************)

CONSTANTS
  Jobs,             \* executions of the controller
  Runs,             \* producer identities: run id, attempt, head, workflow
  Manifests,        \* candidate documents, named by their SHA-256
  Workloads,        \* compose services
  Images,           \* digest-qualified images
  CandidateImage,   \* candidate["workloads"]: manifest -> service -> image
  PreviousImage,    \* candidate["rollback"]["workloads"], likewise
  Runners,          \* runners, hosted and self-hosted
  StagingRunners,   \* those labelled codestra-staging
  CanaryRunners,    \* those labelled codestra-production-canary
  Dispatches,       \* the contexts in which each job may be dispatched
  NoManifest,       \* no canary is applied
  NoRun             \* an unset *_EVIDENCE_RUN_ID environment variable

Validate  == "validate"
Staging   == "staging"
Rehearsal == "rollback-rehearsal"
Canary    == "production-readonly-canary"
Modes     == {Validate, Staging, Rehearsal, Canary}

\* What the workflow gives a job: arguments, environment and runner.
Context == [mode : Modes, doc : Manifests, producer : Runs,
            stagingRun : Runs \cup {NoRun}, rollbackRun : Runs \cup {NoRun},
            runner : Runners]

ASSUME ImageAssumption ==
  /\ CandidateImage \in [Manifests -> [Workloads -> Images]]
  /\ PreviousImage  \in [Manifests -> [Workloads -> Images]]

ASSUME DispatchAssumption ==
  /\ Dispatches \in [Jobs -> (SUBSET Context) \ {{}}]
  /\ \A j \in Jobs : \A d \in Dispatches[j] :
       /\ d.mode = Canary => d.runner \in CanaryRunners
       /\ d.mode \in {Staging, Rehearsal} => d.runner \in StagingRunners

\* The contexts jobs may have, all at once.
Dispatched == {c \in [Jobs -> Context] : \A j \in Jobs : c[j] \in Dispatches[j]}

ASSUME NoneAssumption == NoManifest \notin Manifests /\ NoRun \notin Runs

\* The gates whose PASS a later mode demands of the evidence it is given.
StagingGates ==
  {"paired-local-off-host-and-restore-verified-backup",
   "source-digest-readiness-capabilities-metrics-migrations",
   "keycloak-issuer", "kong-29-route-smoke", "zero-calls-emails-sms"}
RehearsalGates ==
  {"rollback-to-previous-exact-identities", "candidate-redeployment",
   "database-filestore-configuration-integrity",
   "rollback-health-readiness-version-digest",
   "zero-live-effects-during-rehearsal"}
CanaryGates ==
  {"production-readonly-canary",
   "latency-error-readiness-monitoring-and-database",
   "zero-live-effect-counter-movement"}
OtherGates ==
  {"release-control-policy",
   "protected-environment-target-manifest-and-credentials",
   "immutable-image-source-readback", "compose-image-digest-lock",
   "zero-live-effect-baseline", "immutable-staging-deployment",
   "exact-successful-staging-prerequisite", "initial-candidate-readback"}
Gates == StagingGates \cup RehearsalGates \cup CanaryGates \cup OtherGates

\* The evidence file, reduced to what validate_run_evidence reads in it: gates
\* is the set of recorded gates, or {} if one of them is not PASS.
Evidence == [mode : Modes, doc : Manifests, producer : Runs,
             verdict : {"GO", "NO_GO"}, gates : SUBSET Gates]

VARIABLES
  host,      \* the image of each service's container on the staging host
  canary,    \* the candidate production canary traffic is sent to
  moved,     \* environments where a call, email or SMS counter left zero
  backups,   \* jobs whose recovery point was verified by a restore
  evidence,  \* evidence files written
  pc,        \* where each job is
  ctx,       \* the context of each started job
  todo,      \* services the current up or check loop has still to handle
  gates,     \* evidence.gates of each job
  rollback,  \* "none", "attempted", "performed" (evidence.rollback_performed)
  changed    \* the job has changed the host or the canary

world == <<host, canary, moved, backups, evidence>>
local == <<ctx, todo, gates, rollback, changed>>
vars  == <<world, pc, local>>

Labels ==
  {"idle", "load", "images", "prerequisite", "initial", "controller",
   "baseline", "backup", "probe", "apply", "receipt", "up_previous",
   "check_previous", "up", "check", "integrity", "canary_probe", "after",
   "verdict", "rb_up", "rb_check", "rb_run", "rb_receipt", "raise",
   "done", "crashed", "killed"}
Ended     == {"done", "crashed", "killed"}
UpLabels  == {"up", "up_previous", "rb_up"}
CheckLabels == {"initial", "check", "check_previous", "rb_check"}

Active(j) == pc[j] \notin Ended \cup {"idle"}
Environment(j) == IF ctx[j].mode = Canary THEN "production" ELSE "staging"

\* Mutant: automatic_rollback() is given the candidate.
TargetCandidate(j) ==
  IF pc[j] \in {"up_previous", "check_previous"}
    THEN PreviousImage[ctx[j].doc] ELSE CandidateImage[ctx[j].doc]

\* The image set the current deploy() or run_all_checks() of j is about.
Target(j) == IF pc[j] \in {"up_previous", "check_previous", "rb_up", "rb_check"}
               THEN PreviousImage[ctx[j].doc]
               ELSE CandidateImage[ctx[j].doc]

Goto(j, l)  == pc' = [pc EXCEPT ![j] = l]
Record(j, g) == gates' = [gates EXCEPT ![j] = @ \cup g]
Remaining(j, s) == todo' = [todo EXCEPT ![j] = s]

\* The context of a job that is not running says nothing.
AnyDispatch(j) == CHOOSE d \in Dispatches[j] : TRUE

Init ==
  /\ host \in {PreviousImage[m] : m \in Manifests}
  /\ canary = NoManifest
  /\ moved = {}
  /\ backups = {}
  /\ evidence = {}
  /\ pc = [j \in Jobs |-> "idle"]
  /\ ctx = [j \in Jobs |-> AnyDispatch(j)]
  /\ todo = [j \in Jobs |-> {}]
  /\ gates = [j \in Jobs |-> {}]
  /\ rollback = [j \in Jobs |-> "none"]
  /\ changed = [j \in Jobs |-> FALSE]

(***************************************************************************)
(* Starting, and the steps all modes share.                                *)
(***************************************************************************)

\* A dispatched job gets a free runner carrying the label its mode asks for.
Start(j) ==
  /\ pc[j] = "idle"
  /\ \E d \in Dispatches[j] :
       /\ \A k \in Jobs : Active(k) => ctx[k].runner # d.runner
       /\ ctx' = [ctx EXCEPT ![j] = d]
  /\ Goto(j, "load")
  /\ UNCHANGED <<world, todo, gates, rollback, changed>>

\* The process is gone, and its memory with it.
Exit(j, l) ==
  /\ Goto(j, l)
  /\ ctx' = [ctx EXCEPT ![j] = AnyDispatch(j)]
  /\ Remaining(j, {})
  /\ gates' = [gates EXCEPT ![j] = {}]
  /\ rollback' = [rollback EXCEPT ![j] = "none"]
  /\ changed' = [changed EXCEPT ![j] = FALSE]

\* A gate that reads, passes and is recorded.
Pass(j, from, to, recorded) ==
  /\ pc[j] = from
  /\ Goto(j, to)
  /\ Record(j, recorded)
  /\ UNCHANGED <<world, ctx, todo, rollback, changed>>

\* A gate that passes and begins a loop over the services.
PassTo(j, from, to, recorded) ==
  /\ pc[j] = from
  /\ Goto(j, to)
  /\ Record(j, recorded)
  /\ Remaining(j, Workloads)
  /\ UNCHANGED <<world, ctx, rollback, changed>>

\* main(): candidate, endpoint manifest and confirmations are accepted; mode
\* validate has nothing more to do.
Load(j) ==
  \/ /\ ctx[j].mode = Validate
     /\ Pass(j, "load", "verdict", {"release-control-policy"})
  \/ /\ ctx[j].mode # Validate
     /\ Pass(j, "load",
             CASE ctx[j].mode = Staging   -> "images"
               [] ctx[j].mode = Rehearsal -> "prerequisite"
               [] ctx[j].mode = Canary    -> "controller",
             {"protected-environment-target-manifest-and-credentials"})

\* Mutant: the SHA-256 of the candidate is not compared.
ValidEvidenceAnyDoc(e, doc, mode, run, required) ==
  /\ e.mode = mode /\ e.verdict = "GO"
  /\ e.gates # {} /\ required \subseteq e.gates
  /\ run # NoRun /\ e.producer = run

\* validate_run_evidence(): the file is about exactly this candidate, a GO of
\* the mode asked for with all required gates PASS, from the expected run.
ValidEvidence(e, doc, mode, run, required) ==
  /\ e.doc = doc
  /\ e.mode = mode /\ e.verdict = "GO"
  /\ e.gates # {} /\ required \subseteq e.gates
  /\ run # NoRun /\ e.producer = run

StagingCertified(d) ==
  \E e \in evidence :
    ValidEvidence(e, d.doc, Staging, d.stagingRun, StagingGates)
RehearsalCertified(d) ==
  \E e \in evidence :
    ValidEvidence(e, d.doc, Rehearsal, d.rollbackRun, RehearsalGates)

\* One service of `docker compose up` is recreated with its target image.
RecreateService(j) ==
  /\ pc[j] \in UpLabels
  /\ \E w \in todo[j] :
       /\ host' = [host EXCEPT ![w] = Target(j)[w]]
       /\ Remaining(j, todo[j] \ {w})
  /\ changed' = [changed EXCEPT ![j] = TRUE]
  /\ UNCHANGED <<canary, moved, backups, evidence, pc, ctx, gates, rollback>>

\* deploy() returns: compose reports every service up.
DeployDone(j) ==
  /\ todo[j] = {}
  /\ \/ PassTo(j, "up", "check", IF ctx[j].mode = Staging
                                   THEN {"immutable-staging-deployment"}
                                   ELSE {})
     \/ PassTo(j, "up_previous", "check_previous", {})
     \/ PassTo(j, "rb_up", "rb_check", {})

\* check_workload(): the version endpoint reads back the exact image.  The
\* production canary endpoints answer for the candidate traffic is sent to.
CheckWorkload(j) ==
  /\ pc[j] \in CheckLabels
  /\ \E w \in todo[j] :
       /\ IF ctx[j].mode = Canary THEN canary = ctx[j].doc
                                  ELSE host[w] = Target(j)[w]
       /\ Remaining(j, todo[j] \ {w})
  /\ UNCHANGED <<world, pc, ctx, gates, rollback, changed>>

\* Mutant: a rehearsal forgets to deploy the candidate again.
ChecksDoneNoRedeploy(j) ==
  /\ todo[j] = {}
  /\ \/ Pass(j, "initial", "baseline", {"initial-candidate-readback"})
     \/ Pass(j, "check_previous", "integrity", {})
     \/ /\ ctx[j].mode = Staging
        /\ Pass(j, "check", "after",
                {"source-digest-readiness-capabilities-metrics-migrations",
                 "keycloak-issuer", "kong-29-route-smoke"})
     \/ ctx[j].mode = Rehearsal /\ Pass(j, "check", "integrity", {})
     \/ ctx[j].mode = Canary    /\ Pass(j, "check", "canary_probe", {})

\* run_all_checks() returns: the services, Keycloak and the 29 routes passed.
ChecksDone(j) ==
  /\ todo[j] = {}
  /\ \/ Pass(j, "initial", "baseline", {"initial-candidate-readback"})
     \/ PassTo(j, "check_previous", "up", {})
     \/ /\ ctx[j].mode = Staging
        /\ Pass(j, "check", "after",
                {"source-digest-readiness-capabilities-metrics-migrations",
                 "keycloak-issuer", "kong-29-route-smoke"})
     \/ ctx[j].mode = Rehearsal /\ Pass(j, "check", "integrity", {})
     \/ ctx[j].mode = Canary    /\ Pass(j, "check", "canary_probe", {})

\* read_counters() and assert_zero_and_unchanged(), before any change.
ReadBaseline(j) ==
  /\ Environment(j) \notin moved
  /\ \/ /\ ctx[j].mode = Staging
        /\ Pass(j, "baseline", "backup", {"zero-live-effect-baseline"})
     \/ ctx[j].mode = Rehearsal /\ Pass(j, "baseline", "backup", {})
     \/ ctx[j].mode = Canary    /\ Pass(j, "baseline", "probe", {})

\* The same after the change; the last gates of the mode are recorded.
ReadAfter(j) ==
  /\ Environment(j) \notin moved
  /\ \/ /\ ctx[j].mode = Staging
        /\ Pass(j, "after", "verdict", {"zero-calls-emails-sms"})
     \/ ctx[j].mode = Rehearsal /\ Pass(j, "after", "verdict", RehearsalGates)
     \/ ctx[j].mode = Canary    /\ Pass(j, "after", "verdict", CanaryGates)

\* Mutant: verify_recovery_point() is not called.
CreateBackupUnverified(j) ==
  /\ pc[j] = "backup"
  /\ IF ctx[j].mode = Staging
       THEN Goto(j, "up") /\ Record(j,
              {"paired-local-off-host-and-restore-verified-backup"})
       ELSE Goto(j, "up_previous") /\ UNCHANGED gates
  /\ Remaining(j, Workloads)
  /\ UNCHANGED <<world, ctx, rollback, changed>>

\* create_backup(): a recovery point is taken, restored and compared.
CreateBackup(j) ==
  /\ backups' = backups \cup {j}
  /\ pc[j] = "backup"
  /\ IF ctx[j].mode = Staging
       THEN Goto(j, "up") /\ Record(j,
              {"paired-local-off-host-and-restore-verified-backup"})
       ELSE Goto(j, "up_previous") /\ UNCHANGED gates
  /\ Remaining(j, Workloads)
  /\ UNCHANGED <<host, canary, moved, evidence, ctx, rollback, changed>>

(***************************************************************************)
(* The steps of one mode only.                                             *)
(***************************************************************************)

\* verify_images() of both image sets and the rendered compose image set.
VerifyImages(j) ==
  Pass(j, "images", "baseline",
       {"immutable-image-source-readback", "compose-image-digest-lock"})

\* Mutant: the staging evidence is not read.
RehearsalUnchecked(j) ==
  PassTo(j, "prerequisite", "initial",
         {"exact-successful-staging-prerequisite"})

RehearsalPrerequisite(j) ==
  /\ StagingCertified(ctx[j])
  /\ PassTo(j, "prerequisite", "initial",
            {"exact-successful-staging-prerequisite"})

\* _directory_hashes() of the Odoo filestore agree before and after.
FilestoreIntegrity(j) == Pass(j, "integrity", "after", {})

\* Mutant: the rehearsal evidence is not read.
CanaryWithoutRehearsal(j) ==
  StagingCertified(ctx[j]) /\ Pass(j, "controller", "baseline", {})

\* Evidence, percentage, controller file and images are accepted.
CanaryPrerequisites(j) ==
  /\ StagingCertified(ctx[j]) /\ RehearsalCertified(ctx[j])
  /\ Pass(j, "controller", "baseline", {})

BaselineProbe(j) == Pass(j, "probe", "apply", {})

\* The external canary controller applies the candidate.
ApplyCanary(j) ==
  /\ pc[j] = "apply"
  /\ canary' = ctx[j].doc
  /\ changed' = [changed EXCEPT ![j] = TRUE]
  /\ Goto(j, "receipt")
  /\ UNCHANGED <<host, moved, backups, evidence, ctx, todo, gates, rollback>>

\* validate_canary_receipt(): an honest controller attests what it applied.
ReceiptValid(j) == PassTo(j, "receipt", "check", {})

\* Error rate, p95 and regression stay under the ceilings.
CanaryProbe(j) == Pass(j, "canary_probe", "after", {})

(***************************************************************************)
(* Verdicts, exceptions and rollback.                                      *)
(***************************************************************************)

\* Mutant: the failed release-control gate counts as passed.
EvidenceOfFailed(j, verdict, passed) ==
  [mode |-> ctx[j].mode, doc |-> ctx[j].doc, producer |-> ctx[j].producer,
   verdict |-> verdict, gates |-> passed \cup {"release-control"}]

EvidenceOf(j, verdict, passed) ==
  [mode |-> ctx[j].mode, doc |-> ctx[j].doc, producer |-> ctx[j].producer,
   verdict |-> verdict, gates |-> passed]

\* finish("GO") and the atomic replacement of the evidence file.
Go(j) ==
  /\ pc[j] = "verdict"
  /\ evidence' = evidence \cup {EvidenceOf(j, "GO", gates[j])}
  /\ Exit(j, "done")
  /\ UNCHANGED <<host, canary, moved, backups>>

\* Mutant: the counters are read after the try block.
InStagingTryShort(j) == ctx[j].mode = Staging /\ pc[j] \in {"up", "check"}

\* Where `except Exception` of execute_staging and execute_canary catches.
InStagingTry(j) ==
  ctx[j].mode = Staging /\ pc[j] \in {"up", "check", "after"}
InCanaryTry(j) ==
  ctx[j].mode = Canary /\ pc[j] \in {"check", "canary_probe", "after"}

\* Mutant: a moved counter is read again and again instead of raising.
RaiseNotCounting(j) ==
  /\ Active(j) /\ pc[j] \notin {"baseline", "after", "raise"}
  /\ \/ /\ InStagingTry(j)
        /\ Goto(j, "rb_up") /\ Remaining(j, Workloads)
        /\ rollback' = [rollback EXCEPT ![j] = "attempted"]
     \/ /\ InCanaryTry(j)
        /\ Goto(j, "rb_run") /\ UNCHANGED todo
        /\ rollback' = [rollback EXCEPT ![j] = "attempted"]
     \/ /\ ~InStagingTry(j) /\ ~InCanaryTry(j)
        /\ Goto(j, "raise") /\ UNCHANGED <<todo, rollback>>
  /\ UNCHANGED <<world, ctx, gates, changed>>

\* Any call of the current step raises, write_evidence() of a GO included.
Raise(j) ==
  /\ Active(j) /\ pc[j] # "raise"
  /\ \/ /\ InStagingTry(j)
        /\ Goto(j, "rb_up") /\ Remaining(j, Workloads)
        /\ rollback' = [rollback EXCEPT ![j] = "attempted"]
     \/ /\ InCanaryTry(j)
        /\ Goto(j, "rb_run") /\ UNCHANGED todo
        /\ rollback' = [rollback EXCEPT ![j] = "attempted"]
     \/ /\ ~InStagingTry(j) /\ ~InCanaryTry(j)
        /\ Goto(j, "raise") /\ UNCHANGED <<todo, rollback>>
  /\ UNCHANGED <<world, ctx, gates, changed>>

\* rollback_performed = True; the original exception is raised again.
RollbackPerformed(j) ==
  /\ Goto(j, "raise")
  /\ rollback' = [rollback EXCEPT ![j] = "performed"]
  /\ UNCHANGED <<world, ctx, todo, gates, changed>>

\* automatic_rollback() returns: the previous set is deployed and checked.
StagingRolledBack(j) ==
  /\ pc[j] = "rb_check" /\ todo[j] = {}
  /\ RollbackPerformed(j)

\* The external controller withdraws the candidate ...
WithdrawCanary(j) ==
  /\ pc[j] = "rb_run"
  /\ canary' = IF canary = ctx[j].doc THEN NoManifest ELSE canary
  /\ Goto(j, "rb_receipt")
  /\ UNCHANGED <<host, moved, backups, evidence, local>>

\* ... and validate_rollback_receipt() accepts its receipt.
CanaryRolledBack(j) == pc[j] = "rb_receipt" /\ RollbackPerformed(j)

\* main() handles the exception: the release-control gate is recorded FAIL and
\* NO_GO evidence is written, unless the write fails too.
NoGo(j) ==
  /\ pc[j] = "raise"
  /\ evidence' \in {evidence, evidence \cup {EvidenceOf(j, "NO_GO", {})}}
  /\ Exit(j, "done")
  /\ UNCHANGED <<host, canary, moved, backups>>

\* An exception of a type main() does not list: no evidence is written.
Escape(j) == pc[j] = "raise" /\ Exit(j, "crashed") /\ UNCHANGED world

(***************************************************************************)
(* The environment, and the specification.                                 *)
(***************************************************************************)

\* Cancellation, job timeout or loss of the runner: no handler runs.
Kill(j) == Active(j) /\ Exit(j, "killed") /\ UNCHANGED world

\* A call, an email or an SMS is made: its counter never returns to zero.
LiveEffect(env) ==
  /\ env \notin moved
  /\ moved' = moved \cup {env}
  /\ UNCHANGED <<host, canary, backups, evidence, pc, local>>

Step(j) ==
  \/ Load(j) \/ VerifyImages(j) \/ RehearsalPrerequisite(j)
  \/ CanaryPrerequisites(j) \/ ReadBaseline(j) \/ CreateBackup(j)
  \/ RecreateService(j) \/ DeployDone(j) \/ CheckWorkload(j) \/ ChecksDone(j)
  \/ FilestoreIntegrity(j) \/ BaselineProbe(j) \/ ApplyCanary(j)
  \/ ReceiptValid(j) \/ CanaryProbe(j) \/ ReadAfter(j) \/ Go(j) \/ Raise(j)
  \/ StagingRolledBack(j) \/ WithdrawCanary(j) \/ CanaryRolledBack(j)
  \/ NoGo(j) \/ Escape(j)

\* Every job has ended and no more is dispatched.
AllEnded == (\A j \in Jobs : pc[j] \in Ended) /\ UNCHANGED vars

Next ==
  \/ \E j \in Jobs : Start(j) \/ Step(j) \/ Kill(j)
  \/ \E env \in {"staging", "production"} : LiveEffect(env)
  \/ AllEnded

Spec == Init /\ [][Next]_vars
FairSpec == Spec /\ \A j \in Jobs : WF_vars(Start(j) \/ Step(j))

(***************************************************************************)
(* Types.                                                                  *)
(***************************************************************************)

\* Every variable holds a value of its kind.
TypeOK ==
  /\ host \in [Workloads -> Images]
  /\ canary \in Manifests \cup {NoManifest}
  /\ moved \subseteq {"staging", "production"}
  /\ backups \subseteq Jobs
  /\ evidence \subseteq Evidence
  /\ pc \in [Jobs -> Labels]
  /\ ctx \in Dispatched
  /\ todo \in [Jobs -> SUBSET Workloads]
  /\ gates \in [Jobs -> SUBSET Gates]
  /\ rollback \in [Jobs -> {"none", "attempted", "performed"}]
  /\ changed \in [Jobs -> BOOLEAN]

(***************************************************************************)
(* The inductive invariant: where each job is tells what must be true of   *)
(* the world.  Its last two parts need a single runner of each kind.       *)
(***************************************************************************)

\* The labels a running job of each mode can be at.
ModeLabels(mode) ==
  {"load", "raise", "verdict"} \cup
  CASE mode = Validate  -> {}
    [] mode = Staging   -> {"images", "baseline", "backup", "up", "check",
                            "after", "rb_up", "rb_check"}
    [] mode = Rehearsal -> {"prerequisite", "initial", "baseline", "backup",
                            "up_previous", "check_previous", "up", "check",
                            "integrity", "after"}
    [] mode = Canary    -> {"controller", "baseline", "probe", "apply",
                            "receipt", "check", "canary_probe", "after",
                            "rb_run", "rb_receipt"}
LabelsFitModes == \A j \in Jobs : Active(j) => pc[j] \in ModeLabels(ctx[j].mode)

\* A runner runs one job at a time.
OneJobPerRunner ==
  \A j, k \in Jobs : Active(j) /\ Active(k) /\ j # k =>
                       ctx[j].runner # ctx[k].runner

\* A staging or rehearsal job at or behind its first compose up holds a
\* verified recovery point.
DeployLabels == {"up_previous", "check_previous", "up", "check", "integrity",
                 "after", "verdict", "rb_up", "rb_check"}
OnStaging(j) == ctx[j].mode \in {Staging, Rehearsal}
RecoverableChanges ==
  \A j \in Jobs : OnStaging(j) /\ pc[j] \in DeployLabels => j \in backups

\* A job behind its prerequisite gate has the evidence that gate asked for.
HasPrerequisites ==
  \A j \in Jobs :
    /\ /\ ctx[j].mode = Rehearsal /\ Active(j)
       /\ pc[j] \notin {"load", "prerequisite", "raise"}
       => StagingCertified(ctx[j])
    /\ /\ ctx[j].mode = Canary /\ Active(j)
       /\ pc[j] \notin {"load", "controller", "raise"}
       => StagingCertified(ctx[j]) /\ RehearsalCertified(ctx[j])

\* Behind a completed compose up the host runs the complete image set.
HostIsTarget ==
  \A j \in Jobs : OnStaging(j) =>
    /\ pc[j] \in UpLabels =>
         \A w \in Workloads \ todo[j] : host[w] = Target(j)[w]
    /\ pc[j] \in {"check", "integrity", "after", "verdict"} =>
         host = CandidateImage[ctx[j].doc]
    /\ pc[j] \in {"check_previous", "rb_check"} =>
         host = PreviousImage[ctx[j].doc]

\* Between the apply and the withdrawal the canary is the job's candidate.
CanaryIsCandidate ==
  \A j \in Jobs : ctx[j].mode = Canary =>
    /\ pc[j] \in {"receipt", "check", "canary_probe", "after", "verdict",
                  "rb_run"} => canary = ctx[j].doc
    /\ pc[j] = "rb_receipt" => canary # ctx[j].doc

\* One runner with the label codestra-staging, one for the production canary.
SingleRunners ==
  /\ \A a, b \in StagingRunners : a = b
  /\ \A a, b \in CanaryRunners : a = b

IInv ==
  /\ TypeOK
  /\ LabelsFitModes /\ OneJobPerRunner
  /\ RecoverableChanges /\ HasPrerequisites
  /\ SingleRunners => HostIsTarget /\ CanaryIsCandidate

(***************************************************************************)
(* What must hold.                                                         *)
(***************************************************************************)

\* Job j ends with that verdict.
Issues(j, verdict) ==
  /\ Active(j) /\ pc'[j] = "done"
  /\ (verdict = "GO") <=> (pc[j] = "verdict")

\* GO is only ever written in a state it describes: staging runs exactly the
\* candidate, behind a recovery point of that very job, or the canary is the
\* candidate; although other jobs come and go, die half-way through a compose
\* up, or fail to roll back.
GoIsTruthful ==
  [][\A j \in Jobs : Issues(j, "GO") /\ ctx[j].mode # Validate =>
       IF ctx[j].mode = Canary
         THEN canary = ctx[j].doc
         ELSE host = CandidateImage[ctx[j].doc] /\ j \in backups]_vars

\* rollback_performed is never claimed unless the complete previous image set
\* runs, or the candidate no longer receives canary traffic.
RollbackIsTruthful ==
  [][\A j \in Jobs : rollback[j] # "performed" /\ rollback'[j] = "performed" =>
       IF ctx[j].mode = Canary
         THEN canary # ctx[j].doc
         ELSE host = PreviousImage[ctx[j].doc]]_vars

\* No service of staging is touched but by a job holding a verified recovery
\* point, and by a rehearsal only once the same document, to the byte, has a
\* GO staging certificate.
HostChangesAreProtected ==
  [][host' # host =>
       \E j \in Jobs :
         /\ Active(j) /\ changed'[j] /\ j \in backups
         /\ ctx[j].mode # Canary
         /\ ctx[j].mode = Rehearsal =>
              \E e \in evidence : e.mode = Staging /\ e.doc = ctx[j].doc
                                  /\ e.verdict = "GO"]_vars

\* Canary traffic only ever reaches a document that has GO evidence of both
\* earlier modes from the very runs the dispatch named.
CanaryOnlyCertified ==
  [][canary' # canary /\ canary' # NoManifest =>
       \E j \in Jobs : \E s, r \in evidence :
         /\ pc[j] = "apply" /\ ctx[j].doc = canary'
         /\ s.doc = canary' /\ s.mode = Staging /\ s.verdict = "GO"
         /\ s.producer = ctx[j].stagingRun
         /\ r.doc = canary' /\ r.mode = Rehearsal /\ r.verdict = "GO"
         /\ r.producer = ctx[j].rollbackRun]_vars

\* A staging job that touched the host ends, unless it is killed, with all its
\* gates passed, or with a rollback attempted; and if that rollback did not
\* fail, on a complete release, never on a mixture of two.
StagingSettles ==
  [][\A j \in Jobs :
       Active(j) /\ pc'[j] \in {"done", "crashed"} /\ changed[j]
         /\ ctx[j].mode = Staging =>
       /\ StagingGates \subseteq gates[j] \/ rollback[j] # "none"
       /\ rollback[j] # "attempted" =>
            host \in {CandidateImage[ctx[j].doc], PreviousImage[ctx[j].doc]}
     ]_vars

\* The certificates in the evidence store, as the abstract specification sees
\* them.
Certificates ==
  {<<e.mode, e.doc>> :
     e \in {f \in evidence : f.verdict = "GO" /\ f.mode # Validate}}

Promise ==
  INSTANCE CertifiedRelease WITH
    Environments <- [Workloads -> Images], Candidate <- CandidateImage,
    None <- NoManifest, staging <- host, live <- canary,
    certified <- Certificates

\* The controller keeps the promise of CertifiedRelease.
KeepsPromise == Promise!Spec

\* A queued job is run and ends: no gate waits for ever, no runner is kept by
\* a job that cannot go on.
QueuedJobsEnd == \A j \in Jobs : pc[j] = "idle" ~> pc[j] \in Ended

\* "The canary controller rolls back immediately on any source SHA or image
\* digest mismatch", a wrong method or a percentage above the ceiling: no job
\* that changed the canary ends with NO_GO without a rollback.
CanaryFailureRollsBack ==
  [][\A j \in Jobs : Issues(j, "NO_GO") /\ changed[j] /\ ctx[j].mode = Canary =>
                      rollback[j] # "none"]_vars
=============================================================================
