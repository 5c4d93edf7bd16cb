# A verification project for the Codestra infrastructure authority

The repository is the infrastructure authority of one platform: Python and
shell programs, and GitHub Actions workflows that run them, which certify a
release in staging, rehearse its rollback, expose it to read-only production
traffic, back up and restore staging, install runners and a TLS edge, and
reconcile an inventory of hosts with reviewed plans. Its programs are short,
sequential and full of gates. What is hard about them is everything around the
straight line: a gate that raises after something was changed, a rollback that
fails itself, a process that is killed between two steps, evidence of one run
offered to another, several jobs competing for one host.

This directory holds TLA+ modules translated from that code, the TLC
configurations that check them on small instances, and proofs for TLAPS.
Paths below are relative to the repository.

## 1. Inventory

| Component | State it keeps | Operations | Who it talks to |
|---|---|---|---|
| Release controller, `operations/staging-readonly/release_control_v2.py` over `release_control_core.py` | containers of the staging host, canary traffic, evidence file | `main` in modes validate, staging, rollback-rehearsal, production-readonly-canary | compose, registry, service endpoints, external canary controller |
| Recovery point, `create_backup` / `verify_recovery_point` in the same files | backup directory, restic snapshot, a throw-away container and volume | dump, archive, checksum, upload, restore, compare | PostgreSQL, Odoo filestore, docker, restic |
| Release chain, `.github/workflows/full-readonly-release-chain.yml`, `staging-readonly-certification.yml`, `one-click-go-live.yml`, `release_control_chain.py` | runs, attempts, artifacts, protected secrets | dispatch, job, artifact upload and download, attempt binding | the controller, GitHub |
| Klyrow stack operator, `operators/klyrow-stack` | recovery markers, plans, running core services | preflight, stage, deploy, rollback, readback | compose, klyrow services |
| Gateway cutover, `deploy/production/websocket-gateway/cutover.sh` | gateway container and its predecessor | cutover with a rollback trap | docker, health endpoint |
| Intake observability staging, `scripts/deploy_intake_observability_staging.sh` | secrets, certificates, runtime context, containers | deploy, rollback, reset | compose, Kong, Keycloak |
| Stage 6 backup, `scripts/backup_stage6_staging.sh`, `verify_stage6_staging_backup.sh` | archive, checksum manifest | back up, verify | docker, file system |
| Caddy CI runner, `scripts/install_caddy_actions_runner.sh`, `configure_caddy_ci_cd_runner.sh` | runner directory, systemd unit, sudoers rule | install, configure, roll back | GitHub, systemd |
| Stage 6 inventory, `scripts/stage6_inventory_*.py`, `collect_stage6_hetzner_inventory.py` | what its GETs returned, the resolution | collect, resolve, write | Hetzner |
| Stage 6 plan and apply, `stage6-provision-staging-host.yml`, `stage6-apply-reviewed-plan.yml`, `scripts/validate_stage6_*.py`, `infra/hetzner` | saved plan, digest pinned on main, remote state and its lock | plan, pin, verify, apply | OpenTofu, Hetzner |
| Repository name transition, `scripts/validate_repository_name_*.py`, `certify_marketing_stage9.py` | manifest of names and every document that uses one | validate a tree, and its step from the base | pull requests, main |
| Observability gates, `scripts/validate-observability-*.py`, `collect-observability-readonly-inventory.py` | registry, locks, manifests, topology, evidence template | validate a tree | pull requests, main |
| Superset, platform API, artifact validators, `scripts/` and `tools/` | contracts | validate one document | pull requests, main |
| Reports, evidence and documents, `reports/`, `evidence/`, `docs/` | text and recorded JSON | none | none |

What makes each hard, and what makes it correct:

* **Release controller.** A gate may raise at any point, compose may recreate
  some services only, the handler may raise in its turn, the process may be
  killed. Correct when a GO is only written while the environment is what it
  certifies, `rollback_performed` is only claimed when it happened, nothing is
  touched without a verified recovery point, and production traffic reaches only
  documents with both earlier certificates.
* **Recovery point.** The database dump and the filestore archive are taken at
  different times while the system may be written to. Correct when an accepted
  recovery point is a state the system was in at one moment, its off-host copy
  is the verified one, and what is left of the restore is only what docker itself
  failed to remove.
* **Release chain.** Artifacts are bound to a run and an attempt; one-click finds
  its child run by time. Correct when a mode only ever consumes evidence of its
  own chain, and when the chain can reach a GO at all.
* **Klyrow operator.** Recovery markers expire after four hours while a deploy
  runs. Correct when a deploy that fails ends on the known-good release, or its
  rollback was refused for a reason that is there.
* **Gateway cutover, intake deployment, stage 6 backup, runner installation.**
  Shell traps: what is restored for a failure or a signal at each line.
* **Plan and inventory.** A plan is reviewed long before it is applied, by two
  workflows that do not exclude each other, to a cloud that administrators change
  as well; an inventory reads that cloud piece by piece. Correct when no apply
  takes away what exists, and when a PASS is true of the cloud although its
  pieces are of different moments.
* **Validators.** Each is a pure function of a tree; the hard part is that main is
  made of several pull requests, each checked against the main of another moment
  and by those workflows only whose path filter it meets. Correct when the
  documents of main still agree with each other, no status takes a forbidden
  step, and the validators leave a way for the migration they guard.

## 2. Plan

1. `ReleaseControl`, with the abstract specification `CertifiedRelease`, its
   instances `MCReleaseControl` and `ReleaseControlProofs`. *Done.*
2. `RecoveryPoint`: what one atomic step of `ReleaseControl`, `CreateBackup`, is
   made of; theorem: an accepted recovery point is one moment's state. *Done,
   see section 4.*
3. `ReleaseChain`: workflow runs, attempts, artifacts, the concurrency group and
   the choice of the child run by one-click. *Done, see section 5.*
4. `KlyrowStack`: the operator with expiring markers. *Done, see section 6.*
5. `GatewayCutover`, `IntakeDeploy`, `Stage6Backup`, composed by `HostScripts`.
   *Done, see section 7.*
6. `ReviewedPlan` and `Stage6Inventory` over one cloud, `StagingCloud`: the two
   workflows that plan and apply, and the inventory that reads while they do.
   They are a fourth host of `HostScripts`. *Done, see section 7.*
7. `RepositoryGates` over `GovernedBranch`: the validators of names, exporter
   privacy, release train, topology, preparation, evidence and the Superset
   contract, as the gates of main. *Done, see section 8.*
8. Left: `CaddyRunner`, and the pure algorithms without a state of their own, as
   the percentile of the canary probe.

Theorems. Done: type correctness of every module, and every safety and action
property of the passing runs, with the refinement of `CertifiedRelease`
(section 9). To come: the step from the controller's evidence rules to the
chain's, that the job of `ReleaseChain` is an abstraction of the one of
`ReleaseControl`.

## 3. The release controller

### State

| Variable | Code |
|---|---|
| `host` | the image digest each service's container runs, as the version endpoint reports it |
| `canary` | the candidate the external canary controller sends traffic to |
| `moved` | environments in which a live-effect counter (calls, emails, SMS) left zero |
| `backups` | jobs whose `create_backup()` returned |
| `evidence` | evidence files written by `write_evidence()`; a later job sees those of its dispatch |
| `pc`, `ctx` | the position of a job in `main()`, and its arguments, environment and runner |
| `todo` | services a compose up or a check loop has still to handle |
| `gates` | names recorded PASS in `evidence.gates` |
| `rollback` | whether the except branch was entered, and `evidence.rollback_performed` |
| `changed` | `deployment_started` / `canary_applied`: the job changed its environment |

### Actions

Every action is one call of the code with the gate it records. `Start` is the
workflow handing a job to a free runner; `Load` is `main()` up to the dispatch
on the mode; `RecreateService` and `DeployDone` are `deploy()`, one service at a
time, since compose recreates containers one after the other and may stop in
between; `CheckWorkload` and `ChecksDone` are `run_all_checks()`; `ReadBaseline`
and `ReadAfter` are the live-effect counters; `Raise` is any exception of the
step a job is at, and goes where the code's handlers send it; `rb_*` labels are
the handlers; `NoGo` and `Escape` are the end of `main()` for exceptions it
lists and for those it does not; `Kill` is the loss of the process. Workloads
other than the compose services, HTTP, JSON schemas and measurements are
abstracted to pass or raise. `LiveEffect` is the rest of the platform.

### Runs

| Run | Instance | Shows |
|---|---|---|
| `chain` | 3 jobs of any mode, 2 documents, 2 services, 3 images, one runner per label | types, the inductive invariant, `GoIsTruthful`, `RollbackIsTruthful`, `HostChangesAreProtected`, `CanaryOnlyCertified`, `StagingSettles`, and that the controller implements `CertifiedRelease` |
| `live` | 3 jobs of one dispatch: staging, rehearsal, and a canary or a second staging; 1 service | `QueuedJobsEnd` |
| `canary_failure` | as `chain` | a documented promise the code does not keep (section 10) |

Three jobs are the fewest that reach a canary GO (each mode needs the evidence
of the one before) and already let a job die and another follow it; two
documents sharing an image on one service let a half-finished compose up look
right for one service and wrong for the other; two services are the fewest a
deployment can stop between. A canary of the second document dispatched with the
runs of the first is among the dispatches, so that evidence of another document
is really offered. Jobs are symmetric; the liveness run uses no symmetry.

Deadlock is checked: a state in which a job has not ended and nothing can happen
is an error. The disjunct `AllEnded` stands for the controller's normal end.

### Fairness

`live` assumes weak fairness of `Start(j) \/ Step(j)` for each job: a free runner
takes a queued job, and the process of a running job goes on. HTTP requests have
timeouts after which they raise; `core.run()` waits for its command without one,
so the assumption is that docker, tar, restic and the external controller
return. One that never does is ended by the job's `timeout-minutes`, which is
`Kill` and ends the job as well. `Start` of two jobs may compete for one runner;
weak fairness is enough because a runner is taken only once per job. Nothing
assumes that a gate passes, and nothing assumes that nobody kills.

## 4. The recovery point

`RecoveryPoint` opens up the one step `CreateBackup` of `ReleaseControl`. Its
actions follow the two functions command by command: `DumpDatabase`, the files
read by tar one at a time (`ArchiveFile`), `WriteSums`, `CheckSums` (before the
upload and again before the restore), `Upload`, `Extract`, the source files
hashed one at a time (`HashFile`), `CompareFilestore`, the two plain dumps of
the source (`ReadSource`), the isolated volume and container, the wait for
readiness, `RestoreAndCompare`, and the `finally` clause in its order. Each
docker command may fail: `DockerFails` is a `docker volume create` or `docker run`
that raises, the latter perhaps with the container there, and `RemoveContainer`
and `RemoveVolume` run with `check=False`, so that one that fails is passed over
and what it should have removed stays. `broken` remembers which commands failed. Beside
them the source is written to (`WriteDatabase`, `WriteFile`), a piece of the
backup directory is damaged (`Damage`), the isolated server starts or does not
(`ServerStarts`), and the process is killed.

Content is a version that grows with every write. That is the one abstraction
with consequences: content that is changed and changed back byte for byte while
a recovery point is taken would be accepted. Sequences, ids and write dates of
the database do not go back, and Odoo names filestore files by their content.

| Run | Instance | Shows |
|---|---|---|
| `recovery` | 2 files, one write to the schema, the data and each file | types, `AcceptedIsOneMoment`, `OffsiteIsVerified`, `NothingLeftBehind`, and `Ends` under weak fairness of the job's steps; the server need never start |

One write per component is enough: every comparison is between two readings of
one component, and one write placed before, between or after them makes them
equal or different. `moment` is a history variable: the source at the time the
archive was complete. Deadlock is not checked: when the job has ended and the
bounded writes are used up, the system has stopped.

`Ends` needs the deadline of the readiness loop; the fairness of `Step` is the
operating system's towards a process that can run, with the same reservation
for commands without a timeout as in section 3.

`NothingLeftBehind` names the culprit of whatever is left: a container stays only
behind a `docker run` that failed after starting it or a failed `docker rm`, a volume
only behind a failed command on either of the two. What the code does not promise is a clean
host: an accepted verification may leave both, and no later run looks for them.

The snapshot taken by restic precedes the verification and stays off-host when
it fails; the code records it under `artifacts` also in NO_GO evidence. What is
checked is that an accepted one is right.

## 5. The release chain

`ReleaseChain` is the layer above the controller: GitHub runs of
`full-readonly-release-chain.yml`, and the runs of `one-click-go-live.yml` that
dispatch one and wait for it. A job of the chain is here a thing that passes or
fails; what it does between is `ReleaseControl`. What this module adds is where
the evidence comes from.

| Variable | Code |
|---|---|
| `secret` | the candidate in the protected secrets of the two environments |
| `main`, `now` | the head of main; `created_at`, in seconds |
| `status`, `origin`, `attempt` | of each run: its state in the concurrency group; event, commit and time of its creation; `github.run_attempt` |
| `job`, `held`, `output` | `needs.*.result` of its three jobs; the candidate a running job materialized; the `candidate_sha256` output of the staging job |
| `artifact` | the last evidence uploaded under each name: an attempt overwrites the one before |
| `staged` | whose staging job had the staging host last |
| `click`, `asked`, `watched` | where a one-click run is; its commit and `started_at`; the run it located |

`StartRun` is the policy job with the conditions of the jobs behind it: a run of
a pull request or of another branch skips them and is green. `StartJob` is the
part of a job up to the comparison with the staging job's candidate, `PassJob`
and `FailJob` the controller with the upload that follows it always,
`DropJob` a job that fails before it holds a candidate or is skipped. `Accepts`
is `validate_run_evidence()`: candidate, run (by construction of
download-artifact) and attempt. `Validate`, `Clock`, `Dispatch`, `Locate` and
`Watch` are the steps of one-click. GitHub itself (`FinishRun`, `Rerun`, and
the queue in `Queued`: one run runs, one waits, a third cancels the second) and the
people around it (`Trigger`, `Rotate`, `Push`, `Tick`) are external: modelled as
the workflows rely on them.

| Run | Instance | Shows |
|---|---|---|
| `chain_runs` | 2 runs, 2 attempts each, 2 candidates, secrets that rotate at any moment | types, and that a job that succeeded left its evidence (`TypeOK`), `CanaryIsOfItsRun`, `StagingIsItsOwn` |
| `chain_click` | 1 click, 2 runs, 2 commits, 2 seconds, 1 attempt | `ClickIsTrue` |
| `chain_child` | 1 click, 2 runs, 1 commit | a documented promise the code does not keep (section 10) |

Two runs suffice for one to displace the other, two attempts for evidence of an
earlier one to be offered, two candidates for a rotation to be visible. Nothing
in `chain_runs` reads the clock, so it stands still there; in `chain_click`
two seconds separate "created before" from "created since". Re-runs and clicks
are not crossed in TLC, where the product is too large; the theorem has no such
bound.

Deadlock is not checked: when every run and click has ended and the attempts
are used up the system has stopped. The module has no liveness property: nothing
in the workflows forces a queued run to start, and that a job ends is
`QueuedJobsEnd` of `ReleaseControl`. `staging-readonly-certification.yml` has a
concurrency group of its own, so its staging jobs run beside the chain's; this is
in `ReleaseControl`, where they compete for the runner, and `StagingIsItsOwn`
speaks of the chain's runs only.

## 6. The Klyrow stack operator

`KlyrowStack` is `operators/klyrow-stack`, the program sudo lets administrators
run, with its checks in the order of `do_preflight()`, `do_stage()`,
`do_deploy()` and `do_rollback()`. `pc` names the check an invocation is at;
`Check` passes it, `Refuse` fails it, `Follows` is the order, `Raises` where an
exception goes: from the `try` block of the deployment into the rollback, from
everywhere else, the rollback included, out of the program. A compose up is
`Remove` and `Create` of one container after the other, and may stop in between
(`Fault`). `image`, `health` and `safe` are what docker and the gateway's
readback report; `marker`, `clean` and `outbox` are the files and the queue the
checks read, which `Approve`, `Expire`, `Edit` and `Mail` change at any moment.
`Disturbances` says which of these a run lets happen.

| Run | Instance | Shows |
|---|---|---|
| `klyrow` | 2 invocations one after the other, 2 services, every disturbance, the failure of any command among them | types, `PassIsTrue`, `DeploySettles` |
| `klyrow_overlap` | 2 invocations at the same time, failures of any command, kills, expiry | `UnapprovedUntouched`, `Ends` |
| `klyrow_expiry` | 1 invocation, expiry only | a documented promise the code does not keep (section 10) |

Two services, one of them the gateway: the readback asks the gateway alone, so
the second one is what it cannot see. Two invocations: the second finds what a
failed or killed first one left. `PassIsTrue` is about invocations one at a time
because nothing in the operator serialises them; two overlapping ones can undo
what the other checked, and the theorem carries this as its hypothesis `Alone`.

Fairness is weak, for the steps of each invocation and for each container's
settling into healthy or unhealthy: the program has no waits but compose's, which
has a timeout. None is assumed of failures, kills or the administrators.
`DeploySettles` is about the step in which a failed deploy ends: from the start of its
compose up, through the wait for health and the readback, to the end of the rollback.
It ends with the known-good release on every service; unless the rollback was refused
because the worktree or the marker is not what it was, or a command of the
rollback failed up to and including its compose up (line 243), which nothing in the
code repairs. A process that is killed has not ended in this sense, and what it leaves
is the next invocation's.
That the known-good override comes up in safe mode is an assumption: it is a reviewed
file pinned by digest. The candidate may come up either way.

## 7. The scripts of the hosts

Three shell scripts that replace or copy something and must cope with what an
earlier run left: `GatewayCutover`, `IntakeDeploy` and `Stage6Backup`, each the
whole script, command by command where commands change something; and
`Stage6Staging`, the workflows that build the Stage 6 host. They run on
different state and never meet, so `HostScripts` only puts them side by side:
the variable `host` says whose behaviour this is, and the others stand still. A
run of the backup with administrators who do not wait for the first to end
(`backups`) is a host of its own.

* **`GatewayCutover`.** `image` and `serving` are the container; `pc`, `tries`
  and `leaving` the script, the last telling whether the EXIT trap is running.
  The trap handles HUP, INT and TERM with the function that handles EXIT. A shell
  runs it when the command at hand returns, and it looks at `$?`: if that command
  succeeded, the handler returns and the signal is lost, and the model has no
  step for it; if it failed, `Signal` starts the rollback, whose `exit` runs the
  EXIT trap and so the rollback again (`Verify`), and a further signal can restart
  it. dash and bash both do so. The three probes are asked one after another and
  `answer` keeps which image answered each; the greps over them (`Match`) and PASS
  come later, and the container may stop, or be replaced by a rollback that a
  signal starts, at any step between.
* **`IntakeDeploy`.** `secret`, `caKey`, `caCert`, `key`, `cert` and `env` are the
  files that persist, each holding a value; a new one is one that nothing refers
  to, so that no counter is needed. openssl writes a key before its certificate,
  and `Kill` may come between. `Partly` is what a command that fails may have done.
  `Fail` follows the EXIT trap, which is set from the first compose down to the
  context file. `volume` is the password postgres was initialised with.
* **`Stage6Backup`.** `copied` is what the partial directory holds, `sums` what its
  checksums list, `published` the names. `mv` onto a name that has come to exist
  since the test moves *into* that directory (`Move`, `inside`).

* **`ReviewedPlan`.** `cloud` is what exists at Hetzner, `remote` the state in the
  bucket (lineage, serial and the ids it knows), `lock` the lock file, `pinned`
  the plan whose digest main names. `step` and `plan` are the runs of the two
  workflows, `todo` and `work` those of the one that applies. `PlanRemote` is the
  plan job, `VerifyReviewed` the job before the approval, `Check` the checks of
  the apply job, which the approval may hold up for as long as the artifact
  lives; between `Check` and `Apply` the state may still move, and OpenTofu
  compares serial and lineage itself once it has the lock. `Call` is one call of
  the API in the order of the references, `Kill` leaves the lock file and
  perhaps an outdated state behind. Names are taken once: what is in no state but
  exists makes a creation fail. An administrator removes, alters or builds
  anything by hand, or loses the state (`Administrate`).
* **`Stage6Inventory`.** `Get` reads one collection, `Resolve` compares. The ids
  in one collection (the network of a server, the server of a firewall) are
  compared with those in another, which is what makes a PASS of pieces true.

| Run | Instance | Shows |
|---|---|---|
| `hosts` | 2 cutovers, 2 probes, 2 signals each; 3 invocations, 2 polls; 2 backups, 2 databases, 1 archive, 2 seconds; 4 dispatches and acts of administrators on the Stage 6 host | types; `PassWasAnswered`, `RestoredOrTold`, `DriftIsKept`; `RedeployFits`, `DataSurvives`, `IntakePassIsServed`; `PublishedIsWhole`, `PassNamesItsOwn`; `AppliedAsReviewed`, `InventoryIsTrue` |

Two runs of a cutover: the second finds what the first left. Two signals: one
that starts a rollback and one that restarts it. Three invocations: one that is
killed, one that fails on what is left, one that repairs it. Two seconds: two
backups with the same name, and with different ones. Four events on the Stage 6
host, in any order: a plan and its apply, an act that wears out what it built, a
second plan, and an inventory at any time between; or a plan that is pinned, one
that is applied before it, and the attempt to apply the first. The waits of these scripts
are bounded loops, so there is no liveness property and no fairness.

What the modules show and nobody should expect otherwise: a failed redeploy
leaves the `runtime-context.json` of the one before, which says PASS, beside a
stack that is down; a TERM or HUP in the middle of it runs the EXIT trap with
status 0 in most places and leaves the stack half replaced (`Kill`); the list of
databases comes from a process substitution, so that one that is cut off is
taken for the whole (`List`), and `PublishedIsWhole` is about the databases
listed; and of two backups that overlap in one second the later one ends up inside the
earlier one, unlisted in its `SHA256SUMS`, and its STAGE6_BACKUP names the other's
directory. `PublishedIsWhole` says what is true of both then, each being complete
with its own checksums, and `PassNamesItsOwn`, that the directory named is one's own
and holds nothing else, is stated for one at a time. PASS of a cutover is of a
candidate that has answered; whether it still does when the line is printed
nobody looks. An apply
that is killed leaves the lock, and resources that are in no state: every later
plan wants to create them and fails on their names until somebody imports or
removes them. The currency check of the reviewed workflow is not what keeps a
stale plan from being applied, since OpenTofu repeats it; nor does
`AppliedAsReviewed` need it, for a plan of creations alone takes nothing away
whatever it meets. A PASS of the inventory says nothing of a second firewall on
the same server, which it does not look for. It excuses changes made by hand during or
after the collection, about which no promise could be kept. A firewall applied by a
label selector, which the code would also accept, is left out: `main.tf` applies it
to the server by its id.

Left out: the 30 days after which the private authority of `IntakeDeploy`
expires. It is never made anew, so from then on every deployment is refused,
before anything is taken down.

## 8. The gates of the main branch

The validators of `scripts/` run in pull requests. `GovernedBranch` is what is
around them: `main` and each author's pull request as trees of cells
`<<document, field>>`; the events of a pull request (`Open`, `Recheck`,
`Update`), at which the workflows whose path filter meets it check its head or
its merge result with the main of that moment; and `Merge`, which may come later,
when main has moved on, unless protection is `strict` (requires branches to be up
to date). `docs/BRANCH-PROTECTION-DESIRED-STATE.md` requires the checks and says
nothing of that, so both are behaviours of the model.

The validators themselves are operators on trees, in the order of their code:

| Module | Code | Documents |
|---|---|---|
| `RepositoryNames` | `validate_repository_name_aliases.py`, `validate_repository_name_transition.py`, `certify_marketing_stage9.py`, `tests/test_repository_name_aliases.py` | manifest with its statuses, locks, matrix, records, sources, certifier; the names in the test of this validator and in the documents and literals of two others |
| `ExporterPrivacy` | the exporter's part of `validate_repository_name_aliases.py` | Service, rules, compose file, script, gateway, DNS |
| `ReleaseTrain` | `validate-observability-release-train.py`, `validate-observability-topology.py` | registry, branch lock, manifest, docs; topology, communication, firewall |
| `StagingReadiness` | `validate-observability-staging-preparation.py`, `-evidence.py` and the assertions of their workflows | manifest, evidence template |
| `SupersetContract` | `validate_superset_bounded_release_contract.py`, `tests/test_superset_bounded_release_contract.py` | contract, and the state its tests are written for |

`RepositoryGates` ties them to their workflows (`Paths`, `Sees`, `Accepts`); a workflow
that runs tests of its validator accepts only what these accept as well. The
documents fall into seven families; a behaviour starts from a tree of one family. The
families do meet, in the scan of names: it reads every operational source, the
validators of other families included, and two of these
(`validate-observability-staging-evidence.py:325` and
`validate_superset_bounded_release_contract.py:117`) compare this repository's name
with a literal of their own. What is compared there (`Pinned`) is
therefore in the family of names, and the workflows `evidence` and `superset` are called for it; the
other cells of the two documents are in families of their own, and no rule relates
them to a name. What a validator compares with a literal of its
own (and there are hundreds) is one `fixed` cell of its document: it can be
altered like any other, and the validator refuses it. A repository, component or
flow that is checked like its neighbours and apart from them is stood for by
three, two or one. Regular expressions are taken for what they find. Authors
propose what somebody who reads the tree may want (`Intended`), whole or with one
cell forgotten (`Edits`).

| Run | Instance | Shows |
|---|---|---|
| `gates` | 2 authors, 3 pull requests, 3 of six repositories | types; `DocumentsAgree`, `FreezeHolds`, `CutoverStaysOpen`, `StatusEdges`, `OneCutover` |

Two authors are what it takes for one pull request to be checked against a main
that the other changes; the third lets main change twice meanwhile, so that it may
come back to a value it had. Three repositories: one that was renamed, one being
renamed, one still to come, which is the least for a partly renamed account to
stay one. Authors are symmetric. Deadlock is not checked, because the pull requests
are used up; there is no liveness, since nothing obliges anyone to merge.

`FreezeHolds` and `StatusEdges` hold strict or not. `DocumentsAgree`, `OneCutover`
and `CutoverStaysOpen` are stated for strict protection, and without it TLC
violates the agreement of names, exporter, train, preparation and Superset contract:
each of two changes is right where it was checked and wrong where it lands.
`OneCutover` falls to a pull request with two status changes that was checked
against a main on which one of them had been done, and merged when that was
rolled back. The account status falls to two cutovers merged one after the other.
Under strict protection all repositories renamed, a certified Superset contract and
complete artifact evidence are all reachable, so the agreement is not that of a
frozen branch, but not with changes to the documents alone. The tests of the Superset
contract assert that the candidate is PENDING, so each of its steps has to rewrite them
(`superset_tests`). And `CutoverStaysOpen` is about a pull request that rewrites more
than the documents: once the Social repository is renamed, `name_tests`
replaces a name the release matrix no longer holds, so that the expected refusal
does not come and the required workflow fails; and once this repository is renamed,
the evidence and Superset validators require the very name that the names validator
forbids, as their literals are operational sources too. A cutover is accepted only if the
tests and those literals change in the same pull request, and the property says
that such a pull request is always there.

`TopologyAgrees` says of the firewall what its validator does: flows to a component the
firewall lists are in its allowlist. The read model that Superset queries is not listed,
the validator passes over it (`continue`, line 251), and nothing in the
firewall document speaks of it.

All of this rests on the workflows being required checks and on the protection being
as its document desires it; nothing in the repository shows that either is in force.
The check against a main that has moved (the hazards of two cutovers, of heads that
move, of the exporter) is shown for `strict`, which excludes it; without it the
properties fail as described.

## 9. What is proved

`ReleaseControlProofs` proves, for any number of jobs, documents, services,
images and runners:

* `TypeCorrect`: `Spec => []TypeOK`;
* `InductiveInvariant`: `Spec => []IInv`;
* `StagingIsProtected` and `CanaryIsCertified`: `HostChangesAreProtected` and
  `CanaryOnlyCertified`, with any number of runners;
* `GoTruth`, `RollbackTruth`, `StagingSettled` and `PromiseKept`: `GoIsTruthful`,
  `RollbackIsTruthful`, `StagingSettles` and the refinement of `CertifiedRelease`,
  under `SingleRunners`: one runner carries each of the two labels. With two
  staging runners the workflows' separate concurrency groups let two deployments
  interleave, and none of the four holds.

The assumptions are those of the module: images are given for every service of
every document, a job runs on a runner with the label of its mode, and the null
values are not documents or runs.

The argument. None of the properties is inductive: that a GO tells the truth
depends on where the job has been. `IInv` ties the place of a job (`pc`) to the
world: `LabelsFitModes` (a job is only ever at places of its mode),
`OneJobPerRunner`, `RecoverableChanges` (behind the backup gate the job is in
`backups`), `HasPrerequisites` (behind the prerequisite gate the evidence it
asked for exists; evidence is never removed), and `HostIsTarget` and
`CanaryIsCandidate` (behind a completed compose up the host is the job's target,
behind the apply the canary is its document). The last two survive the steps of
other jobs only because two jobs on one environment would share its one runner,
which is where `SingleRunners` enters. A step of one job is shown once
(`StepFrame`) to leave the place and context of all others alone, so each action
is then checked for its own job only.

`StagingSettles` also needs to know what a job remembers, which `IInv` does not
say: `Accounted` ties the recorded gates, `changed` and `rollback` to the place (a
job whose gate passes has recorded it, one in the except branch has attempted its
rollback, one that raised has not touched the host, or has all its gates, or comes
from the except branch), and `Released` says of the last two that the host is one
complete release when `main()` gets to write its evidence.

`RecoveryPointProofs` proves, for any set of files and any number of writes,
`RecoveryTypes`, `OneMoment`, `OffsiteVerified` and `NothingLeft`. The invariant
orders the readings around the moment the archive was complete (`Ordered`): what
was read before is not newer than that moment, what was read after it is not
older, so readings that compare equal are that moment's. `Copied` says that
damage only grows, so that what is intact late was intact when it was copied,
and `Isolated` ties the container, the volume and the docker commands that failed
so far to the places of the `try` block and its `finally`.

`KlyrowStackProofs` proves, for any set of services and invocations and any
disturbances, `KlyrowTypes`, `Untouched` (`UnapprovedUntouched`, invocations
overlapping at will) and, under `Alone` (`AtOnce = 1`), `TruePass`
(`PassIsTrue`) and `DeploysSettle` (`DeploySettles`). The step from a checked gateway to all services is what needs an
invariant: behind a completed compose up every service is of its release, which
holds because nothing else changes an image while one invocation is active.

`ReleaseChainProofs` proves, for any number of runs, clicks, candidates, commits
and attempts, `ChainTypes`, `CanaryProvenance`, `CanaryFollowsStaging` and
`GreenClick`. `ChainTypes` carries `EvidenceLeft` along: a job that succeeded, be it in
an earlier attempt, left a GO. The invariant `ChainInv` says that
one run is running at a time (`OneRun`), that the jobs a running job needs have
succeeded (`NeedsMet`), that a run nobody created has touched nothing (`Fresh`),
that on main a job is skipped only because another failed
(`SkipFollowsFailure`), and that a green run on main has passed its canary
(`GreenRun`). For staging come the age of evidence (`EvidenceAge`: a queued run
has none of its current attempt) and that the running run had the host last as
soon as this attempt of it has staged (`OwnStaging`); for clicks, that what is
watched is a run on main of the commit asked for (`Watching`).
`GreenClick` also covers a watched run that is re-run before the watcher looks
again, which the instance of `chain_click` does not.

`GovernedBranchProofs` proves, for any validators, path filters, authors and
trees, `StrictMergesAreJudged`: with strict protection every workflow whose path
filter names a document that a step of main changes has accepted the very tree
main becomes, against the very tree it was. The invariant is `VerdictsHold`: the
verdict kept with a pull request is that of its change, as it is now, on the main
it was given for. It therefore survives main moving away and back, and a merge
into the main it was given for merges what was judged. `BranchTyped`
adds the shape of trees (`ShapeInv`): changes and bases have the cells of main,
and the tree a verdict was given for is one the change could be merged into.

`RepositoryGatesProofs` proves, for any number of authors and pull requests, what
the validators make of that; the trees, workflows and path filters are those of
the module. `GatesTyped`, `FreezeHeld` and `StatusesGoAlongEdges` need no strict
protection, `OneCutoverAtATime`, `CutoverKeepsOpen` and `DocumentsKeepAgreeing` are
stated under it, as the properties are.

* `FreezeHolds` is about single cells: each stands in a document whose workflow
  insists on its value (`Insistent`), and a merge puts into main the very value
  that was looked at, whatever main has become. `FreezeInv` adds to it that main
  is of one family.
* `StatusEdges` without strict protection is not inductive, for a verdict may be
  old. `EdgeInv` ranks the statuses (absent, prepared, then renamed and rolled
  back alike) and says that no repository is further in the tree a pull request
  branched from than in the one it was tested against, nor in that than in main;
  an edge that was allowed when it was judged is then allowed when it lands.
* `OneCutover` follows from the accepted verdict on the tree main becomes.
* `CutoverStaysOpen` needs that main is `Settled` (no repository has a status, or
  all have): then the pull request that moves one repository in all documents is
  computed, and the four workflows it calls accept it (`StepsArePossible`), their tests
  included. The pull request that
  sets the first status is judged on a tree in which all have one.
* `DocumentsAgree`: in each family one workflow has a path filter naming every
  document that has to agree with another, and its acceptance implies agreement
  (`JudgedAgrees`, one lemma for each validator). `AgreeInv` carries along which
  values a cell can hold (`Typed`), since some validators only reject what they
  know: a type of Service they have no pattern for passes.

`HostScriptsProofs` and `Stage6Proofs` prove all properties of the run `hosts`, for
any cutovers, invocations and backups, probes, polls, signals, databases, archives
and events. Each host is proved for itself: a step of `HostScripts` is one of that
host, or leaves its variables alone.

* Cutovers: `GatewayAnswered`, `GatewayRestores`, `GatewayKeepsDrift`. `GatewayInv`
  says that one cutover is active at a time, that between the check of the
  recorded image and the first command that changes anything that image still
  runs, and that behind the compose up, while no rollback has begun, the container is
  the candidate's and so was every answer so far.
* Deployments: `IntakeFits`, `IntakeDataSurvives`, `IntakeServes`. `RedeployFits` is
  an invariant but not an inductive one: `Placed` says what an invocation may rely
  on at its place, as that a certificate is only written when its key is there and
  no certificate is, so that a kill between openssl's two files leaves what the
  next run completes.
* Backups: `BackupsAreWhole` with any overlap, of the directories at a final name and
  of those moved into them, from how far each one is at its place (`Made`); `BackupsAreNamed` for one at a time, from the chosen name being free
  until `mv`. With overlap it does not hold (section 7).
* Plans: `PlansApplyAsReviewed`. A plan that has passed the checks creates or updates
  only, and the reviewed one only creates (`Admitted`); what is left to do is of the
  plan of the one workflow that applies (`AppliesOK`); creating needs that nothing is
  there. `CloudOK` keeps references to what exists, which is what makes the removal
  of something referred to impossible.
* Inventories: `InventoriesAreTrue`. What has been read still holds of the cloud,
  but for what was built or mended since, unless somebody acted by hand (`Held`); so a
  comparison of collections of different moments is one of the cloud of now. That
  an apply does not disturb it is `PlanInv` again.
* `HostsAreTyped` is the conjunction.

The assumptions are those the modules declare: the sets of cutovers and backups
are finite, since the model counts those that are active, and the bounds are
natural numbers.

Only model-checked: the liveness properties `QueuedJobsEnd` and the two called `Ends`.
Proofs under fairness are out of the prover's reach, and so
are `ENABLED` and what a recursive definition computes for every input; no module a
theorem is about has a RECURSIVE operator. The three documented promises of
section 10 are refuted by a counterexample of TLC each.

## 10. Where the code and its documents disagree

* `canary_failure`: the README of the controller (lines 138-148) promises a rollback on an
  identity mismatch or a wrong method; the receipt that attests these is checked
  before the `try`, so a canary that was applied stays applied.
* `chain_child`: `docs/ONE-CLICK-GO-LIVE.md` says that the wrapper waits for the
  exact run it dispatched. It takes the youngest run of the same commit created
  since `started_at`, which is another one if an operator dispatches the chain at
  the same time. `ClickIsTrue` is what remains true: it is a run of the chain
  for that commit, whose canary passed.
* `klyrow_expiry`: `operators/README.md` says that a deploy whose readback fails
  is rolled back automatically. The rollback looks at the marker again; when its
  four hours have passed in between, the deployment ends BLOCKED with the
  candidate running.

Two more are visible in the model without a run of their own. An exception while
the GO evidence is written comes after the `try` block of `execute_staging` and
is answered by NO_GO without the rollback; and a rollback rehearsal that fails
has no handler at all and leaves the host as it is. `StagingSettles` is stated so
as to allow both.

Of the gates, read from the code beside `RepositoryGates`:

* `docs/OBSERVABILITY-STAGING-EVIDENCE-CONTRACT.md` binds an approval to the digest
  of the manifest; `validate_approval` asks for a digest and compares it with nothing.
* The branch lock has fourteen entries for fourteen repositories, of which two may
  be of one repository: another then has none.
* The firewall may allow sources for which the communication matrix has no flow, and
  has no entry at all for one destination of the matrix, `curated-analytics-read-model`.
* After a rename the required workflows refuse a pull request that leaves the tests and
  the literals of other validators alone, see section 8.
* A manifest with a full GO passes the preparation validator, and the assertions of
  its own workflow refuse it: it cannot be merged before the workflow is changed.
* The source SHA of a component is not compared with the head the registry names.
* The evidence of the Superset contract is not invalidated by a later change of the
  image it was made for.
* Train, topology and Superset contract are checked on pull requests only; nothing
  looks at main after a merge.

## 11. Not modelled

HTTP, TLS, JSON schemas, logging and measurements; the contents of the protected
secrets; the external canary controller beyond its two commands and receipts;
`release_control_core.main` and its `execute_*`, which the entry point replaces by
those of v2; OpenTofu and the Hetzner API beyond what the workflows rely on; the
shape of documents and the regular expressions of the validators; validators that
compare one file with constants and exit, for which a model would be a copy; the
collector and the smoke test of the observability edge, which only report. The Caddy
runner's installation is left for later. Every component and its status is in
`PROJECT.json`, with the reason where it is `not_modelled`.
