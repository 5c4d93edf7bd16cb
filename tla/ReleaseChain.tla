---------------------------- MODULE ReleaseChain ----------------------------
(***************************************************************************)
(* The workflows around the release controller: runs of                    *)
(* full-readonly-release-chain.yml with their jobs, attempts and           *)
(* artifacts, and one-click-go-live.yml, which dispatches one and waits.   *)
(*                                                                         *)
(* What the controller does in a job is ReleaseControl; here a job passes  *)
(* or fails, and passes only with the evidence validate_run_evidence()     *)
(* accepts.  The protected secrets hold the candidates, and may change     *)
(* between any two jobs.                                                   *)
(***************************************************************************)
EXTENDS Naturals, FiniteSets

CONSTANTS
  Runs,         \* runs of the chain workflow
  Clicks,       \* runs of the one-click workflow
  Candidates,   \* candidate documents, each with its id and SHA-256
  Heads,        \* commits main may be at
  MaxAttempt,   \* bound: attempts of a run
  MaxTime,      \* bound: seconds of the created_at clock
  Nothing       \* no candidate, no evidence, no run

ASSUME BoundAssumption == MaxAttempt \in Nat \ {0} /\ MaxTime \in Nat
ASSUME NothingAssumption == Nothing \notin Candidates \cup Runs
ASSUME NameAssumption == "operator" \notin Clicks

Jobs == {"staging", "rehearsal", "canary"}
Needs == [staging |-> {}, rehearsal |-> {"staging"},
          canary |-> {"staging", "rehearsal"}]
\* The protected environment a job takes its candidate from.
Protected == [staging |-> "staging", rehearsal |-> "staging", canary |-> "production"]
\* What started a run: a dispatch on main or on a branch, or a pull request.
Events == {"main", "branch", "pull_request"}

VARIABLES
  secret,     \* the candidate in each protected environment
  main,       \* the head of main
  now,        \* the clock, in seconds
  status,     \* of each run
  origin,     \* what created it, at which commit and when
  attempt,    \* its current attempt
  job,        \* of each run and job: its status
  held,       \* the candidate each running job has materialized
  output,     \* candidate_sha256 of the last staging job to materialize
  artifact,   \* of each run and job: the evidence last uploaded
  staged,     \* the run whose staging job last had the staging host
  click,      \* of each one-click run: where it is
  asked,      \* its commit and started_at
  watched     \* the run it located

chain == <<status, origin, attempt, job, held, output, artifact, staged>>
wrapper == <<click, asked, watched>>
world == <<secret, main, now>>
vars == <<world, chain, wrapper>>

Idle == [s \in Jobs |-> "waiting"]
Origin == [by : Clicks \cup {"operator"}, event : Events, sha : Heads,
           created : 0 .. MaxTime]
Evidence == [candidate : Candidates, attempt : 1 .. MaxAttempt,
             verdict : {"GO", "NO_GO"}]
JobStatus == {"waiting", "running", "success", "failure", "skipped"}
RunDone == {"success", "failure", "cancelled"}
ClickDone == {"success", "failure"}

Init ==
  /\ secret \in [{"staging", "production"} -> Candidates]
  /\ main \in Heads /\ now = 0
  /\ status = [r \in Runs |-> "none"]
  /\ origin \in [Runs -> {[by |-> "operator", event |-> "main", sha |-> main,
                           created |-> 0]}]
  /\ attempt = [r \in Runs |-> 1]
  /\ job = [r \in Runs |-> Idle]
  /\ held = [r \in Runs |-> [s \in Jobs |-> Nothing]]
  /\ output = [r \in Runs |-> Nothing]
  /\ artifact = [r \in Runs |-> [s \in Jobs |-> Nothing]]
  /\ staged = Nothing
  /\ click = [c \in Clicks |-> "idle"]
  /\ asked = [c \in Clicks |-> [sha |-> main, since |-> 0]]
  /\ watched = [c \in Clicks |-> Nothing]

(***************************************************************************)
(* The chain.                                                              *)
(***************************************************************************)

\* A run queues in the workflow's concurrency group.  One may be pending: a
\* newer one cancels it.
Queued(r) ==
  [q \in Runs |-> IF q = r THEN "pending"
                  ELSE IF status[q] = "pending" THEN "cancelled" ELSE status[q]]

\* A dispatch, or the pull_request trigger.
Create(r, by, event) ==
  /\ status[r] = "none" /\ status' = Queued(r)
  /\ origin' = [origin EXCEPT ![r] = [by |-> by, event |-> event, sha |-> main,
                                      created |-> now]]
  /\ UNCHANGED <<attempt, job, held, output, artifact, staged>>

Trigger(r) ==
  /\ \E event \in Events : Create(r, "operator", event)
  /\ UNCHANGED <<world, wrapper>>

\* Mutant: the workflow has no concurrency group.
StartRunAtOnce(r) ==
  /\ status[r] = "pending"
  /\ status' = [status EXCEPT ![r] = "running"]
  /\ UNCHANGED <<origin, attempt, job, held, output, artifact, staged,
                 wrapper, world>>

\* The group is free and the policy job runs, whose failure is counted as that
\* of the jobs behind it; they are for dispatches on main.
StartRun(r) ==
  /\ status[r] = "pending" /\ \A q \in Runs : status[q] # "running"
  /\ status' = [status EXCEPT ![r] = "running"]
  /\ \E policy \in BOOLEAN :
       job' = IF policy /\ origin[r].event = "main" THEN job
              ELSE [job EXCEPT ![r] = [s \in Jobs |->
                      IF job[r][s] # "waiting" THEN job[r][s]
                      ELSE IF policy THEN "skipped" ELSE "failure"]]
  /\ UNCHANGED <<origin, attempt, held, output, artifact, staged, wrapper, world>>

\* The job materializes its candidate; all but the staging job compare it with
\* the staging job's, which publishes it.
StartJob(r, s) ==
  /\ status[r] = "running" /\ job[r][s] = "waiting"
  /\ \A n \in Needs[s] : job[r][n] = "success"
  /\ s # "staging" => secret[Protected[s]] = output[r]
  /\ held' = [held EXCEPT ![r][s] = secret[Protected[s]]]
  /\ output' = IF s = "staging" THEN [output EXCEPT ![r] = secret["staging"]]
               ELSE output
  /\ job' = [job EXCEPT ![r][s] = "running"]
  /\ staged' = IF s = "staging" THEN r ELSE staged
  /\ UNCHANGED <<status, origin, attempt, artifact, wrapper, world>>

\* Mutant: the attempt that produced the evidence is not compared.
AcceptsAnyAttempt(r, s) ==
  \A n \in Needs[s] :
    /\ artifact[r][n] # Nothing
    /\ artifact[r][n].verdict = "GO" /\ artifact[r][n].candidate = held[r][s]

\* download-artifact finds the evidence of this run, and the controller accepts
\* it: a GO for this candidate by this attempt.
Accepts(r, s) ==
  \A n \in Needs[s] :
    /\ artifact[r][n] # Nothing
    /\ artifact[r][n].verdict = "GO" /\ artifact[r][n].candidate = held[r][s]
    /\ artifact[r][n].attempt = attempt[r]

\* Mutant: the attempt is counted from the one that follows.
EvidenceOfNext(r, s, verdict) ==
  [candidate |-> held[r][s], attempt |-> attempt[r] + 1, verdict |-> verdict]

\* The evidence names its producer: candidate, run and attempt.
EvidenceOf(r, s, verdict) ==
  [candidate |-> held[r][s], attempt |-> attempt[r], verdict |-> verdict]

PassJob(r, s) ==
  /\ job[r][s] = "running" /\ Accepts(r, s)
  /\ job' = [job EXCEPT ![r][s] = "success"]
  /\ held' = [held EXCEPT ![r][s] = Nothing]
  /\ artifact' = [artifact EXCEPT ![r][s] = EvidenceOf(r, s, "GO")]
  /\ UNCHANGED <<status, origin, attempt, output, staged, wrapper, world>>

\* The job fails, is cancelled or loses its runner; what it had written by then
\* is uploaded or lost.
FailJob(r, s) ==
  /\ job[r][s] = "running"
  /\ job' = [job EXCEPT ![r][s] = "failure"]
  /\ held' = [held EXCEPT ![r][s] = Nothing]
  /\ \/ artifact' = artifact
     \/ \E verdict \in {"GO", "NO_GO"} :
          /\ verdict = "GO" => Accepts(r, s)
          /\ artifact' = [artifact EXCEPT ![r][s] = EvidenceOf(r, s, verdict)]
  /\ UNCHANGED <<status, origin, attempt, output, staged, wrapper, world>>

\* A job fails before it has a candidate: a missing secret, a candidate that is
\* not the staging job's, no runner.  One that needs a job without success is
\* skipped.
DropJob(r, s) ==
  /\ status[r] = "running" /\ job[r][s] = "waiting"
  /\ \/ /\ \A n \in Needs[s] : job[r][n] = "success"
        /\ job' = [job EXCEPT ![r][s] = "failure"]
     \/ /\ \E n \in Needs[s] : job[r][n] \in {"failure", "skipped"}
        /\ job' = [job EXCEPT ![r][s] = "skipped"]
  /\ UNCHANGED <<status, origin, attempt, held, output, artifact, staged,
                 wrapper, world>>

FinishRun(r) ==
  /\ status[r] = "running"
  /\ \A s \in Jobs : job[r][s] \notin {"waiting", "running"}
  /\ status' = [status EXCEPT ![r] =
                  IF \E s \in Jobs : job[r][s] = "failure" THEN "failure"
                  ELSE "success"]
  /\ UNCHANGED <<origin, attempt, job, held, output, artifact, staged,
                 wrapper, world>>

\* "Re-run all jobs", or "Re-run failed jobs", which keeps the successful ones
\* with their outputs and artifacts.
Rerun(r) ==
  /\ status[r] \in RunDone /\ attempt[r] < MaxAttempt
  /\ attempt' = [attempt EXCEPT ![r] = @ + 1]
  /\ \E kept \in {{}, {s \in Jobs : job[r][s] = "success"}} :
       job' = [job EXCEPT ![r] = [s \in Jobs |-> IF s \in kept THEN "success"
                                                 ELSE "waiting"]]
  /\ status' = Queued(r)
  /\ UNCHANGED <<origin, held, output, artifact, staged, wrapper, world>>

(***************************************************************************)
(* One click.                                                              *)
(***************************************************************************)

\* Its own concurrency group lets one run at a time validate that main has not
\* moved, ...
Validate(c) ==
  /\ click[c] = "idle"
  /\ \A d \in Clicks : click[d] \in {"idle"} \cup ClickDone
  /\ click' = [click EXCEPT ![c] = "started"]
  /\ asked' = [asked EXCEPT ![c] = [sha |-> main, since |-> now]]
  /\ UNCHANGED <<watched, chain, world>>

\* ... note the time and ...
Clock(c) ==
  /\ click[c] = "started"
  /\ click' = [click EXCEPT ![c] = "dispatch"]
  /\ asked' = [asked EXCEPT ![c].since = now]
  /\ UNCHANGED <<watched, chain, world>>

\* ... dispatch the chain on main.
Dispatch(c) ==
  /\ click[c] = "dispatch"
  /\ click' = [click EXCEPT ![c] = "locate"]
  /\ \E r \in Runs : Create(r, c, "main")
  /\ UNCHANGED <<asked, watched, world>>

\* Mutant: runs of any event on any branch are found.
FoundAnyEvent(c) ==
  {r \in Runs : /\ status[r] # "none" /\ origin[r].sha = asked[c].sha
                /\ origin[r].created >= asked[c].since}

\* The dispatched runs on main of this commit, created since.
Found(c) ==
  {r \in Runs : /\ status[r] # "none" /\ origin[r].event = "main"
                /\ origin[r].sha = asked[c].sha
                /\ origin[r].created >= asked[c].since}

\* The youngest of them is taken for the child.
Locate(c) ==
  /\ click[c] = "locate"
  /\ \E r \in Found(c) :
       /\ \A q \in Found(c) : origin[q].created =< origin[r].created
       /\ watched' = [watched EXCEPT ![c] = r]
  /\ click' = [click EXCEPT ![c] = "watch"]
  /\ UNCHANGED <<asked, chain, world>>

\* gh run watch --exit-status
Watch(c) ==
  /\ click[c] = "watch" /\ status[watched[c]] \in RunDone
  /\ click' = [click EXCEPT ![c] =
                 IF status[watched[c]] = "success" THEN "success" ELSE "failure"]
  /\ UNCHANGED <<asked, watched, chain, world>>

\* A step fails: main has moved, the API is down, ninety polls or 360 minutes
\* have passed.
FailClick(c) ==
  /\ click[c] \notin {"idle"} \cup ClickDone
  /\ click' = [click EXCEPT ![c] = "failure"]
  /\ UNCHANGED <<asked, watched, chain, world>>

(***************************************************************************)
(* The world around, and the specification.                                *)
(***************************************************************************)

Tick ==
  /\ now < MaxTime /\ now' = now + 1
  /\ UNCHANGED <<secret, main, chain, wrapper>>
Rotate ==
  /\ \E e \in DOMAIN secret, c \in Candidates : secret' = [secret EXCEPT ![e] = c]
  /\ UNCHANGED <<main, now, chain, wrapper>>
Push ==
  /\ main' \in Heads
  /\ UNCHANGED <<secret, now, chain, wrapper>>

JobStep(r) ==
  \E s \in Jobs : StartJob(r, s) \/ PassJob(r, s) \/ FailJob(r, s) \/ DropJob(r, s)
ClickStep(c) ==
  Validate(c) \/ Clock(c) \/ Dispatch(c) \/ Locate(c) \/ Watch(c) \/ FailClick(c)

Next ==
  \/ \E r \in Runs :
       Trigger(r) \/ StartRun(r) \/ JobStep(r) \/ FinishRun(r) \/ Rerun(r)
  \/ \E c \in Clicks : ClickStep(c)
  \/ Tick \/ Rotate \/ Push

Spec == Init /\ [][Next]_vars

(***************************************************************************)
(* What must hold.                                                         *)
(***************************************************************************)

\* Every variable holds a value of its kind, jobs hold a candidate while they run,
\* and a job that succeeded, be it in an earlier attempt, left a GO of then.
TypeOK ==
  /\ secret \in [{"staging", "production"} -> Candidates]
  /\ main \in Heads /\ now \in 0 .. MaxTime
  /\ status \in [Runs -> {"none", "pending", "running"} \cup RunDone]
  /\ origin \in [Runs -> Origin]
  /\ attempt \in [Runs -> 1 .. MaxAttempt]
  /\ job \in [Runs -> [Jobs -> JobStatus]]
  /\ held \in [Runs -> [Jobs -> Candidates \cup {Nothing}]]
  /\ output \in [Runs -> Candidates \cup {Nothing}]
  /\ artifact \in [Runs -> [Jobs -> Evidence \cup {Nothing}]]
  /\ staged \in Runs \cup {Nothing}
  /\ click \in [Clicks -> {"idle", "started", "dispatch", "locate", "watch"}
                            \cup ClickDone]
  /\ asked \in [Clicks -> [sha : Heads, since : 0 .. MaxTime]]
  /\ watched \in [Clicks -> Runs \cup {Nothing}]
  /\ \A r \in Runs, s \in Jobs : job[r][s] = "running" <=> held[r][s] # Nothing
  /\ \A r \in Runs, s \in Jobs : job[r][s] = "success" =>
       /\ artifact[r][s] \in Evidence /\ artifact[r][s].verdict = "GO"
       /\ artifact[r][s].attempt =< attempt[r]

\* A canary only passes for the candidate that the same attempt of the same run
\* certified in staging and rehearsed, whatever was re-run, and although both
\* protected environments may have been given another candidate meanwhile.
CanaryIsOfItsRun ==
  [][\A r \in Runs : job[r]["canary"] # "success" /\ job'[r]["canary"] = "success"
       /\ attempt'[r] = attempt[r] =>
         \A n \in {"staging", "rehearsal"} :
           /\ job[r][n] = "success"
           /\ artifact[r][n] = [candidate |-> held[r]["canary"],
                                attempt |-> attempt[r], verdict |-> "GO"]]_vars

\* And no other run has had the staging host since: what the canary applies is
\* what runs in staging.
StagingIsItsOwn ==
  [][\A r \in Runs : job[r]["canary"] # "success" /\ job'[r]["canary"] = "success"
       /\ attempt'[r] = attempt[r] => staged = r]_vars

\* A green click means that a canary passed for the commit it was started on:
\* a run that only skipped its jobs is not taken for the child.
ClickIsTrue ==
  [][\A c \in Clicks : click[c] # "success" /\ click'[c] = "success" =>
       /\ origin[watched[c]].sha = asked[c].sha
       /\ job[watched[c]]["canary"] = "success"]_vars

\* "It dispatches the exact protected-main child workflow and waits for the
\* exact run to finish." (docs/ONE-CLICK-GO-LIVE.md)
ClickWatchesItsRun ==
  \A c \in Clicks : watched[c] # Nothing => origin[watched[c]].by = c
=============================================================================
