------------------------- MODULE ReleaseChainProofs -------------------------
(***************************************************************************)
(* What holds of ReleaseChain for any number of runs, attempts and clicks. *)
(***************************************************************************)
EXTENDS ReleaseChain, TLAPS

(***************************************************************************)
(* Types.  The three groups of variables are typed apart.                  *)
(***************************************************************************)

WorldType ==
  /\ secret \in [{"staging", "production"} -> Candidates]
  /\ main \in Heads /\ now \in 0 .. MaxTime
RunType ==
  /\ status \in [Runs -> {"none", "pending", "running"} \cup RunDone]
  /\ origin \in [Runs -> Origin]
  /\ attempt \in [Runs -> 1 .. MaxAttempt]
  /\ job \in [Runs -> [Jobs -> JobStatus]]
  /\ output \in [Runs -> Candidates \cup {Nothing}]
  /\ artifact \in [Runs -> [Jobs -> Evidence \cup {Nothing}]]
  /\ staged \in Runs \cup {Nothing}
HeldType ==
  /\ held \in [Runs -> [Jobs -> Candidates \cup {Nothing}]]
  /\ \A r \in Runs, s \in Jobs : job[r][s] = "running" <=> held[r][s] # Nothing
ClickType ==
  /\ click \in [Clicks -> {"idle", "started", "dispatch", "locate", "watch"}
                            \cup ClickDone]
  /\ asked \in [Clicks -> [sha : Heads, since : 0 .. MaxTime]]
  /\ watched \in [Clicks -> Runs \cup {Nothing}]
\* A run has running jobs only while it runs itself.
JobsOfRuns ==
  \A r \in Runs, s \in Jobs : job[r][s] = "running" => status[r] = "running"
Typed == WorldType /\ RunType /\ HeldType /\ ClickType /\ JobsOfRuns

USE DEF Jobs

LEMMA ProtectedType ==
  ASSUME WorldType, NEW s \in Jobs
  PROVE  secret[Protected[s]] \in Candidates /\ secret["staging"] \in Candidates
  BY DEF WorldType, Protected

LEMMA EvidenceType ==
  ASSUME Typed, NEW r \in Runs, NEW s \in Jobs, NEW v \in {"GO", "NO_GO"},
         job[r][s] = "running"
  PROVE  EvidenceOf(r, s, v) \in Evidence
<1>1. held[r][s] \in Candidates
  BY DEF Typed, HeldType
<1> QED
  BY <1>1 DEF Typed, RunType, EvidenceOf, Evidence

LEMMA CreateType ==
  ASSUME Typed, NEW r \in Runs, NEW by \in Clicks \cup {"operator"},
         NEW event \in Events, Create(r, by, event)
  PROVE  RunType' /\ HeldType' /\ JobsOfRuns'
<1>1. status' \in [Runs -> {"none", "pending", "running"} \cup RunDone]
  BY DEF Create, Queued, Typed, RunType, RunDone
<1>2. origin' \in [Runs -> Origin]
  BY DEF Create, Typed, RunType, WorldType, Origin
<1>3. JobsOfRuns'
  BY DEF Create, Queued, Typed, RunType, JobsOfRuns
<1> QED
  BY <1>1, <1>2, <1>3 DEF Create, Typed, RunType, HeldType

LEMMA StartRunType ==
  ASSUME Typed, NEW r \in Runs, StartRun(r)
  PROVE  RunType' /\ HeldType' /\ JobsOfRuns'
<1>1. status' \in [Runs -> {"none", "pending", "running"} \cup RunDone]
  BY DEF StartRun, Typed, RunType
<1>2. job' \in [Runs -> [Jobs -> JobStatus]]
  BY DEF StartRun, Typed, RunType, JobStatus
<1>3. \A q \in Runs, s \in Jobs : job'[q][s] = "running" <=> job[q][s] = "running"
  BY DEF StartRun, Typed, RunType
<1>4. HeldType'
  BY <1>3 DEF StartRun, Typed, HeldType
<1>5. JobsOfRuns'
  BY <1>3 DEF StartRun, Typed, RunType, JobsOfRuns
<1> QED
  BY <1>1, <1>2, <1>4, <1>5 DEF StartRun, Typed, RunType

\* What one job's step may do to the functions of runs and jobs.
LEMMA JobUpdate ==
  ASSUME Typed, NEW r \in Runs, NEW s \in Jobs, NEW v \in JobStatus,
         job' = [job EXCEPT ![r][s] = v]
  PROVE  /\ job' \in [Runs -> [Jobs -> JobStatus]]
         /\ job'[r][s] = v
         /\ \A q \in Runs, t \in Jobs : q # r \/ t # s => job'[q][t] = job[q][t]
  BY DEF Typed, RunType

\* A job holds a candidate from its start to its end.
LEMMA HeldWhileRunning ==
  ASSUME Typed, NEW r \in Runs, NEW s \in Jobs, NEW v \in JobStatus,
         NEW c \in Candidates \cup {Nothing}, v = "running" <=> c # Nothing,
         job' = [job EXCEPT ![r][s] = v], held' = [held EXCEPT ![r][s] = c]
  PROVE  HeldType'
<1>1. /\ job'[r][s] = v
      /\ \A q \in Runs, t \in Jobs : q # r \/ t # s => job'[q][t] = job[q][t]
  BY DEF Typed, RunType
<1>2. /\ held' \in [Runs -> [Jobs -> Candidates \cup {Nothing}]]
      /\ held'[r][s] = c
      /\ \A q \in Runs, t \in Jobs : q # r \/ t # s => held'[q][t] = held[q][t]
  BY DEF Typed, HeldType
<1>3. ASSUME NEW q \in Runs, NEW t \in Jobs
      PROVE  job'[q][t] = "running" <=> held'[q][t] # Nothing
  <2>1. CASE q = r /\ t = s
    BY <2>1, <1>1, <1>2
  <2>2. CASE q # r \/ t # s
    BY <2>2, <1>1, <1>2 DEF Typed, HeldType
  <2> QED
    BY <2>1, <2>2
<1> QED
  BY <1>2, <1>3 DEF HeldType

LEMMA StartJobType ==
  ASSUME Typed, NEW r \in Runs, NEW s \in Jobs, StartJob(r, s)
  PROVE  RunType' /\ HeldType' /\ JobsOfRuns'
<1>1. secret[Protected[s]] \in Candidates /\ secret["staging"] \in Candidates
  BY ProtectedType DEF Typed
<1>2. secret[Protected[s]] # Nothing
  BY <1>1, NothingAssumption
<1>3. job' = [job EXCEPT ![r][s] = "running"] /\ "running" \in JobStatus
  BY DEF StartJob, JobStatus
<1>4. held' = [held EXCEPT ![r][s] = secret[Protected[s]]]
  BY DEF StartJob
<1>5. HeldType'
  BY <1>1, <1>2, <1>3, <1>4, HeldWhileRunning
<1>6. JobsOfRuns'
  BY <1>3, JobUpdate DEF StartJob, Typed, JobsOfRuns
<1>7. output' \in [Runs -> Candidates \cup {Nothing}]
  BY <1>1 DEF StartJob, Typed, RunType
<1> QED
  BY <1>3, <1>5, <1>6, <1>7, JobUpdate DEF StartJob, Typed, RunType

LEMMA EndJobType ==
  ASSUME Typed, NEW r \in Runs, NEW s \in Jobs, PassJob(r, s) \/ FailJob(r, s)
  PROVE  RunType' /\ HeldType' /\ JobsOfRuns'
<1>1. PICK v \in {"success", "failure"} : job' = [job EXCEPT ![r][s] = v]
  BY DEF PassJob, FailJob
<1>2. /\ v \in JobStatus /\ held' = [held EXCEPT ![r][s] = Nothing]
      /\ Nothing \in Candidates \cup {Nothing}
  BY DEF PassJob, FailJob, JobStatus
<1>3. HeldType'
  BY <1>1, <1>2, HeldWhileRunning
<1>4. JobsOfRuns'
  BY <1>1, <1>2, JobUpdate DEF PassJob, FailJob, Typed, JobsOfRuns
<1>5. \A w \in {"GO", "NO_GO"} : EvidenceOf(r, s, w) \in Evidence
  BY EvidenceType DEF PassJob, FailJob
<1>6. artifact' \in [Runs -> [Jobs -> Evidence \cup {Nothing}]]
  <2>1. artifact' = artifact \/ \E e \in Evidence :
                                  artifact' = [artifact EXCEPT ![r][s] = e]
    BY <1>5 DEF PassJob, FailJob
  <2> QED
    <3>1. ASSUME NEW e \in Evidence, artifact' = [artifact EXCEPT ![r][s] = e]
          PROVE  artifact' \in [Runs -> [Jobs -> Evidence \cup {Nothing}]]
      BY <3>1 DEF Typed, RunType
    <3> QED
      BY <2>1, <3>1 DEF Typed, RunType
<1> QED
  BY <1>1, <1>2, <1>3, <1>4, <1>6, JobUpdate DEF PassJob, FailJob, Typed, RunType

LEMMA DropJobType ==
  ASSUME Typed, NEW r \in Runs, NEW s \in Jobs, DropJob(r, s)
  PROVE  RunType' /\ HeldType' /\ JobsOfRuns'
<1>1. PICK v \in {"failure", "skipped"} : job' = [job EXCEPT ![r][s] = v]
  BY DEF DropJob
<1>2. v \in JobStatus
  BY DEF JobStatus
<1>3. HeldType'
  BY <1>1, <1>2, JobUpdate DEF DropJob, Typed, HeldType
<1>4. JobsOfRuns'
  BY <1>1, <1>2, JobUpdate DEF DropJob, Typed, JobsOfRuns
<1> QED
  BY <1>1, <1>2, <1>3, <1>4, JobUpdate DEF DropJob, Typed, RunType

LEMMA FinishRunType ==
  ASSUME Typed, NEW r \in Runs, FinishRun(r)
  PROVE  RunType' /\ HeldType' /\ JobsOfRuns'
<1>1. JobsOfRuns'
  BY DEF FinishRun, Typed, RunType, JobsOfRuns
<1> QED
  BY <1>1 DEF FinishRun, Typed, RunType, HeldType, RunDone

LEMMA RerunType ==
  ASSUME Typed, NEW r \in Runs, Rerun(r)
  PROVE  RunType' /\ HeldType' /\ JobsOfRuns'
<1>1. \A s \in Jobs : job[r][s] # "running" /\ job'[r][s] \in {"success", "waiting"}
  BY DEF Rerun, Typed, RunType, JobsOfRuns, RunDone
<1>2. \A q \in Runs \ {r} : job'[q] = job[q]
  BY DEF Rerun, Typed, RunType
<1>3. job' \in [Runs -> [Jobs -> JobStatus]]
  BY DEF Rerun, Typed, RunType, JobStatus
<1>4. HeldType'
  BY <1>1, <1>2 DEF Rerun, Typed, HeldType
<1>5. JobsOfRuns'
  BY <1>1, <1>2 DEF Rerun, Queued, Typed, RunType, JobsOfRuns
<1>6. attempt' \in [Runs -> 1 .. MaxAttempt]
  BY BoundAssumption DEF Rerun, Typed, RunType
<1>7. status' \in [Runs -> {"none", "pending", "running"} \cup RunDone]
  BY DEF Rerun, Queued, Typed, RunType, RunDone
<1> QED
  BY <1>3, <1>4, <1>5, <1>6, <1>7 DEF Rerun, Typed, RunType

LEMMA ClickStepType ==
  ASSUME Typed, NEW c \in Clicks, ClickStep(c)
  PROVE  Typed'
<1>1. CASE Dispatch(c)
  <2>1. PICK r \in Runs : Create(r, c, "main")
    BY <1>1 DEF Dispatch
  <2>2. RunType' /\ HeldType' /\ JobsOfRuns'
    BY <2>1, CreateType DEF Events
  <2> QED
    BY <1>1, <2>2 DEF Dispatch, Typed, WorldType, ClickType, world
<1>2. CASE \/ Validate(c) \/ Clock(c) \/ Locate(c) \/ Watch(c) \/ FailClick(c)
  <2>1. Typed /\ UNCHANGED <<chain, world>>
    BY <1>2 DEF Validate, Clock, Locate, Watch, FailClick
  <2>2. WorldType' /\ RunType' /\ HeldType' /\ JobsOfRuns'
    BY <2>1 DEF Typed, WorldType, RunType, HeldType, JobsOfRuns, chain, world
  <2>3. watched' \in [Clicks -> Runs \cup {Nothing}]
    BY <1>2 DEF Validate, Clock, Locate, Found, Watch, FailClick, Typed, ClickType
  <2>4. asked' \in [Clicks -> [sha : Heads, since : 0 .. MaxTime]]
    BY <1>2 DEF Validate, Clock, Locate, Watch, FailClick, Typed, ClickType,
                WorldType
  <2>5. click' \in [Clicks -> {"idle", "started", "dispatch", "locate", "watch"}
                                \cup ClickDone]
    BY <1>2 DEF Validate, Clock, Locate, Watch, FailClick, Typed, ClickType,
                ClickDone
  <2> QED
    BY <2>2, <2>3, <2>4, <2>5 DEF Typed, ClickType
<1> QED
  BY <1>1, <1>2 DEF ClickStep

LEMMA NextType == Typed /\ [Next]_vars => Typed'
<1> SUFFICES ASSUME Typed, [Next]_vars PROVE Typed'
  OBVIOUS
<1>1. ASSUME NEW r \in Runs,
             Trigger(r) \/ StartRun(r) \/ JobStep(r) \/ FinishRun(r) \/ Rerun(r)
      PROVE  Typed'
  <2>1. UNCHANGED <<wrapper, world>>
    BY <1>1 DEF Trigger, StartRun, JobStep, StartJob, PassJob, FailJob, DropJob,
                FinishRun, Rerun
  <2>2. CASE Trigger(r)
    BY <2>2, CreateType DEF Trigger, Typed, WorldType, ClickType, wrapper, world
  <2>3. (RunType' /\ HeldType' /\ JobsOfRuns') \/ Trigger(r)
    BY <1>1, StartRunType, StartJobType, EndJobType, DropJobType, FinishRunType,
       RerunType DEF JobStep
  <2> QED
    BY <2>1, <2>2, <2>3 DEF Typed, WorldType, ClickType, wrapper, world
<1>2. CASE Tick \/ Rotate \/ Push
  <2>1. ASSUME Tick PROVE WorldType'
    BY <2>1, BoundAssumption DEF Tick, Typed, WorldType
  <2>2. ASSUME Rotate PROVE WorldType'
    BY <2>2 DEF Rotate, Typed, WorldType
  <2>3. ASSUME Push PROVE WorldType'
    BY <2>3 DEF Push, Typed, WorldType
  <2>4. WorldType'
    BY <1>2, <2>1, <2>2, <2>3
  <2> QED
    BY <1>2, <2>4 DEF Tick, Rotate, Push, Typed, RunType, HeldType, ClickType,
                      JobsOfRuns, chain, wrapper
<1>3. CASE UNCHANGED vars
  BY <1>3 DEF vars, chain, wrapper, world, Typed, WorldType, RunType, HeldType,
              ClickType, JobsOfRuns
<1> QED
  BY <1>1, <1>2, <1>3, ClickStepType DEF Next

LEMMA InitType == Init => Typed
<1> SUFFICES ASSUME Init PROVE Typed
  OBVIOUS
<1>1. WorldType
  BY BoundAssumption DEF Init, WorldType
<1>2. origin \in [Runs -> Origin]
  BY BoundAssumption DEF Init, Origin, Events
<1>3. RunType
  BY <1>2, BoundAssumption DEF Init, RunType, Idle, JobStatus
<1>4. HeldType /\ JobsOfRuns
  BY DEF Init, HeldType, JobsOfRuns, Idle
<1>5. ClickType
  BY BoundAssumption DEF Init, ClickType
<1> QED
  BY <1>1, <1>3, <1>4, <1>5 DEF Typed

\* A job that succeeded, be it in an earlier attempt, left a GO of then.
EvidenceLeft ==
  \A r \in Runs, s \in Jobs : job[r][s] = "success" =>
    /\ artifact[r][s] \in Evidence /\ artifact[r][s].verdict = "GO"
    /\ artifact[r][s].attempt =< attempt[r]

\* What writing one job's evidence does to the evidence of the others.
LEMMA ArtifactUpdate ==
  ASSUME Typed, NEW r \in Runs, NEW s \in Jobs, NEW e \in Evidence,
         artifact' = [artifact EXCEPT ![r][s] = e]
  PROVE  /\ artifact'[r][s] = e
         /\ \A q \in Runs, t \in Jobs : q # r \/ t # s => artifact'[q][t] = artifact[q][t]
  BY DEF Typed, RunType

\* What a job of one run does keeps it: a pass leaves its GO, and nothing else
\* touches what a job that succeeded left.
LEMMA EvidenceOfJobs ==
  ASSUME Typed, EvidenceLeft, NEW r \in Runs, NEW s \in Jobs,
         StartJob(r, s) \/ PassJob(r, s) \/ FailJob(r, s) \/ DropJob(r, s)
  PROVE  EvidenceLeft'
<1>1. /\ PassJob(r, s) \/ job'[r][s] # "success"
      /\ \A q \in Runs, t \in Jobs : q # r \/ t # s => job'[q][t] = job[q][t]
  <2>1. ASSUME NEW v \in JobStatus, job' = [job EXCEPT ![r][s] = v]
        PROVE  /\ job'[r][s] = v
               /\ \A q \in Runs, t \in Jobs : q # r \/ t # s => job'[q][t] = job[q][t]
    BY <2>1 DEF Typed, RunType
  <2>2. CASE PassJob(r, s)
    BY <2>1, <2>2 DEF PassJob, JobStatus
  <2>3. CASE StartJob(r, s) \/ FailJob(r, s) \/ DropJob(r, s)
    BY <2>1, <2>3 DEF StartJob, FailJob, DropJob, JobStatus
  <2> QED
    BY <2>2, <2>3
<1>2. attempt' = attempt
  BY DEF StartJob, PassJob, FailJob, DropJob, world
<1>3. \/ artifact' = artifact
      \/ \E w \in {"GO", "NO_GO"} :
           /\ job[r][s] = "running"
           /\ artifact' = [artifact EXCEPT ![r][s] = EvidenceOf(r, s, w)]
  BY DEF StartJob, PassJob, FailJob, DropJob
<1>4. \A q \in Runs, t \in Jobs : q # r \/ t # s => artifact'[q][t] = artifact[q][t]
  BY <1>3, EvidenceType, ArtifactUpdate
<1>5. ASSUME NEW q \in Runs, NEW t \in Jobs, job'[q][t] = "success", q # r \/ t # s
      PROVE  /\ artifact'[q][t] \in Evidence /\ artifact'[q][t].verdict = "GO"
             /\ artifact'[q][t].attempt =< attempt'[q]
  <2>1. job[q][t] = "success" /\ artifact'[q][t] = artifact[q][t]
    BY <1>1, <1>4, <1>5
  <2> QED
    BY <1>2, <2>1 DEF EvidenceLeft
<1>6. ASSUME job'[r][s] = "success"
      PROVE  /\ artifact'[r][s] \in Evidence /\ artifact'[r][s].verdict = "GO"
             /\ artifact'[r][s].attempt =< attempt'[r]
  <2>1. PassJob(r, s)
    BY <1>1, <1>6
  <2>2. EvidenceOf(r, s, "GO") \in Evidence
    BY <2>1, EvidenceType DEF PassJob
  <2>3. artifact' = [artifact EXCEPT ![r][s] = EvidenceOf(r, s, "GO")]
    BY <2>1 DEF PassJob
  <2>5. artifact'[r][s] = EvidenceOf(r, s, "GO")
    BY <2>2, <2>3 DEF Typed, RunType
  <2>4. attempt[r] \in Nat
    BY BoundAssumption DEF Typed, RunType
  <2> QED
    BY <1>2, <2>2, <2>4, <2>5 DEF EvidenceOf
<1> QED
  BY <1>5, <1>6 DEF EvidenceLeft

\* And so does every step.
LEMMA EvidenceStep == Typed /\ EvidenceLeft /\ [Next]_vars => EvidenceLeft'
<1> SUFFICES ASSUME Typed, EvidenceLeft, [Next]_vars PROVE EvidenceLeft'
  OBVIOUS
<1>1. ASSUME UNCHANGED <<job, artifact, attempt>> PROVE EvidenceLeft'
  BY <1>1 DEF EvidenceLeft
<1>2. ASSUME NEW r \in Runs, StartRun(r) PROVE EvidenceLeft'
  <2>1. \A q \in Runs, t \in Jobs : job'[q][t] = "success" => job[q][t] = "success"
    BY <1>2 DEF StartRun, Typed, RunType
  <2> QED
    BY <1>2, <2>1 DEF StartRun, EvidenceLeft
<1>3. ASSUME NEW r \in Runs, Rerun(r) PROVE EvidenceLeft'
  <2>1. \A q \in Runs, t \in Jobs : job'[q][t] = "success" => job[q][t] = "success"
    BY <1>3 DEF Rerun, Typed, RunType
  <2>2. \A q \in Runs : attempt[q] \in Nat /\ attempt'[q] \in {attempt[q], attempt[q] + 1}
    BY <1>3 DEF Rerun, Typed, RunType
  <2>3. \A q \in Runs, t \in Jobs : artifact[q][t] \in Evidence => artifact[q][t].attempt \in Nat
    BY BoundAssumption DEF Evidence
  <2> QED
    BY <1>3, <2>1, <2>2, <2>3 DEF Rerun, EvidenceLeft
<1>4. ASSUME NEW r \in Runs, JobStep(r) PROVE EvidenceLeft'
  BY <1>4, EvidenceOfJobs DEF JobStep
<1>5. ASSUME NEW r \in Runs, Trigger(r) \/ FinishRun(r) PROVE EvidenceLeft'
  BY <1>1, <1>5 DEF Trigger, Create, FinishRun
<1>6. ASSUME NEW c \in Clicks, ClickStep(c) PROVE EvidenceLeft'
  BY <1>1, <1>6 DEF ClickStep, Validate, Clock, Dispatch, Create, Locate, Watch, FailClick, chain
<1>7. CASE Tick \/ Rotate \/ Push \/ UNCHANGED vars
  BY <1>1, <1>7 DEF Tick, Rotate, Push, vars, chain
<1> QED
  BY <1>2, <1>3, <1>4, <1>5, <1>6, <1>7 DEF Next

\* Every variable holds a value of its kind, only running jobs hold a candidate,
\* and a job that succeeded left a GO.
THEOREM ChainTypes == Spec => []TypeOK
<1>1. Typed /\ EvidenceLeft => TypeOK
  BY DEF Typed, WorldType, RunType, HeldType, ClickType, EvidenceLeft, TypeOK
<1>2. Init => EvidenceLeft
  BY DEF Init, EvidenceLeft, Idle
<1> QED
  BY <1>1, <1>2, InitType, NextType, EvidenceStep, PTL DEF Spec

(***************************************************************************)
(* One run at a time, each job after those it needs, and what success of a *)
(* run means.                                                              *)
(***************************************************************************)

\* One run of the chain runs at a time.
OneRun == \A q, r \in Runs : status[q] = "running" /\ status[r] = "running" => q = r
\* A running job needed others, which succeeded.
NeedsMet ==
  \A r \in Runs, s \in Jobs : job[r][s] = "running" =>
    \A n \in Needs[s] : job[r][n] = "success"
\* A run that was never created has not touched its jobs.
Fresh == \A r \in Runs, s \in Jobs : status[r] = "none" => job[r][s] = "waiting"
\* On main, a job is skipped only because another failed.
SkipFollowsFailure ==
  \A r \in Runs, s \in Jobs : origin[r].event = "main" /\ job[r][s] = "skipped" =>
    \E t \in Jobs : job[r][t] = "failure"
\* On main, a run succeeds with its canary.
GreenRun ==
  \A r \in Runs : status[r] = "success" /\ origin[r].event = "main" =>
    job[r]["canary"] = "success"
ChainInv == Typed /\ OneRun /\ NeedsMet /\ Fresh /\ SkipFollowsFailure /\ GreenRun

LEMMA NeedsSet ==
  ASSUME NEW s \in Jobs PROVE Needs[s] \subseteq Jobs \ {s}
  BY DEF Needs

\* Queueing starts nothing and ends nothing.
LEMMA QueuedRuns ==
  ASSUME Typed, NEW r \in Runs, status' = Queued(r), NEW q \in Runs
  PROVE  /\ status'[q] \notin {"running", "success", "none"} \/ status'[q] = status[q]
         /\ status'[r] = "pending"
  BY DEF Queued, Typed, RunType

LEMMA CreateInv ==
  ASSUME ChainInv, NEW r \in Runs, NEW by \in Clicks \cup {"operator"},
         NEW event \in Events, Create(r, by, event)
  PROVE  OneRun' /\ NeedsMet' /\ Fresh' /\ SkipFollowsFailure' /\ GreenRun'
<1>1. /\ \A q \in Runs : status'[q] \notin {"running", "success", "none"}
                           \/ status'[q] = status[q]
      /\ status'[r] = "pending" /\ status[r] = "none" /\ job' = job
  BY QueuedRuns DEF ChainInv, Create
<1>2. \A q \in Runs \ {r} : origin'[q] = origin[q]
  BY DEF Create, ChainInv, Typed, RunType
<1>3. \A s \in Jobs : job'[r][s] = "waiting"
  BY <1>1 DEF ChainInv, Fresh
<1>4. SkipFollowsFailure' /\ GreenRun'
  BY <1>1, <1>2, <1>3 DEF ChainInv, SkipFollowsFailure, GreenRun
<1> QED
  BY <1>1, <1>4 DEF ChainInv, OneRun, NeedsMet, Fresh

LEMMA StartRunInv ==
  ASSUME ChainInv, NEW r \in Runs, StartRun(r)
  PROVE  OneRun' /\ NeedsMet' /\ Fresh' /\ SkipFollowsFailure' /\ GreenRun'
<1>1. /\ \A q \in Runs \ {r} : status'[q] = status[q] /\ status[q] # "running"
      /\ status'[r] = "running" /\ origin' = origin
  BY DEF StartRun, ChainInv, Typed, RunType
<1>2. \A q \in Runs \ {r} : job'[q] = job[q]
  BY DEF StartRun, ChainInv, Typed, RunType
<1>3. \A s \in Jobs : \/ job'[r][s] = job[r][s]
                      \/ job[r][s] = "waiting" /\ job'[r][s] = "failure"
                      \/ /\ job[r][s] = "waiting" /\ job'[r][s] = "skipped"
                         /\ origin[r].event # "main"
  BY DEF StartRun, ChainInv, Typed, RunType
<1>4. OneRun'
  BY <1>1 DEF OneRun
<1>5. \A s \in Jobs : job'[r][s] # "running"
  BY <1>1, <1>3 DEF StartRun, ChainInv, Typed, JobsOfRuns
<1>6. NeedsMet'
  BY <1>2, <1>5 DEF ChainInv, NeedsMet
<1>7. Fresh' /\ GreenRun'
  BY <1>1, <1>2 DEF ChainInv, Fresh, GreenRun
<1>8. SkipFollowsFailure'
  BY <1>1, <1>2, <1>3 DEF ChainInv, SkipFollowsFailure
<1> QED
  BY <1>4, <1>6, <1>7, <1>8

LEMMA JobStepInv ==
  ASSUME ChainInv, NEW r \in Runs, JobStep(r)
  PROVE  OneRun' /\ NeedsMet' /\ Fresh' /\ SkipFollowsFailure' /\ GreenRun'
<1>1. PICK s \in Jobs :
        StartJob(r, s) \/ PassJob(r, s) \/ FailJob(r, s) \/ DropJob(r, s)
  BY DEF JobStep
<1>2. UNCHANGED <<status, origin>> /\ status[r] = "running"
  BY <1>1 DEF StartJob, PassJob, FailJob, DropJob, ChainInv, Typed, JobsOfRuns
<1>3. PICK v \in JobStatus :
        /\ job' = [job EXCEPT ![r][s] = v]
        /\ job[r][s] \in {"waiting", "running"}
        /\ v = "running" => \A n \in Needs[s] : job[r][n] = "success"
        /\ v = "skipped" => \E n \in Needs[s] : job[r][n] \in {"failure", "skipped"}
  BY <1>1 DEF StartJob, PassJob, FailJob, DropJob, JobStatus
<1>4. /\ job'[r][s] = v
      /\ \A q \in Runs, t \in Jobs : q # r \/ t # s => job'[q][t] = job[q][t]
  BY <1>3 DEF ChainInv, Typed, RunType
<1>5. ASSUME NEW q \in Runs, NEW t \in Jobs, job'[q][t] = "running",
             NEW n \in Needs[t]
      PROVE  job'[q][n] = "success"
  <2>1. n \in Jobs \ {t}
    BY NeedsSet
  <2>2. job[q][n] = "success"
    BY <1>3, <1>4, <1>5 DEF ChainInv, NeedsMet
  <2>3. q # r \/ n # s
    BY <2>2, <1>3
  <2> QED
    BY <2>1, <2>2, <2>3, <1>4
<1>6. ASSUME NEW q \in Runs, NEW t \in Jobs, origin[q].event = "main",
             job'[q][t] = "skipped"
      PROVE  \E u \in Jobs : job'[q][u] = "failure"
  <2>1. PICK u \in Jobs : job[q][u] = "failure"
    <3>1. CASE q = r /\ t = s
      <4>1. PICK n \in Jobs : job[r][n] \in {"failure", "skipped"}
        BY <3>1, <1>3, <1>4, <1>6, NeedsSet
      <4> QED
        BY <4>1, <3>1, <1>6 DEF ChainInv, SkipFollowsFailure
    <3>2. CASE q # r \/ t # s
      BY <3>2, <1>4, <1>6 DEF ChainInv, SkipFollowsFailure
    <3> QED
      BY <3>1, <3>2
  <2> QED
    BY <2>1, <1>3, <1>4
<1>7. OneRun' /\ Fresh' /\ GreenRun'
  BY <1>2, <1>4 DEF ChainInv, OneRun, Fresh, GreenRun
<1> QED
  BY <1>2, <1>5, <1>6, <1>7 DEF NeedsMet, SkipFollowsFailure

LEMMA FinishRunInv ==
  ASSUME ChainInv, NEW r \in Runs, FinishRun(r)
  PROVE  OneRun' /\ NeedsMet' /\ Fresh' /\ SkipFollowsFailure' /\ GreenRun'
<1>1. /\ UNCHANGED <<job, origin>>
      /\ \A q \in Runs \ {r} : status'[q] = status[q]
      /\ status'[r] \in {"success", "failure"}
      /\ status'[r] = "success" => \A s \in Jobs : job[r][s] # "failure"
      /\ \A s \in Jobs : job[r][s] \notin {"waiting", "running"}
  BY DEF FinishRun, ChainInv, Typed, RunType
<1>2. ASSUME status'[r] = "success", origin[r].event = "main"
      PROVE  job[r]["canary"] = "success"
  <2>1. job[r]["canary"] \in JobStatus
    BY DEF ChainInv, Typed, RunType
  <2>2. job[r]["canary"] # "skipped"
    BY <1>1, <1>2 DEF ChainInv, SkipFollowsFailure
  <2> QED
    BY <2>1, <2>2, <1>1, <1>2 DEF JobStatus
<1>3. GreenRun'
  BY <1>1, <1>2 DEF ChainInv, GreenRun
<1> QED
  BY <1>1, <1>3 DEF ChainInv, OneRun, NeedsMet, Fresh, SkipFollowsFailure

LEMMA RerunInv ==
  ASSUME ChainInv, NEW r \in Runs, Rerun(r)
  PROVE  OneRun' /\ NeedsMet' /\ Fresh' /\ SkipFollowsFailure' /\ GreenRun'
<1>1. /\ \A q \in Runs : status'[q] \notin {"running", "success", "none"}
                           \/ status'[q] = status[q]
      /\ status'[r] = "pending" /\ origin' = origin
  BY QueuedRuns DEF ChainInv, Rerun
<1>2. /\ \A q \in Runs \ {r} : job'[q] = job[q]
      /\ \A s \in Jobs : job'[r][s] \in {"success", "waiting"}
  BY DEF Rerun, ChainInv, Typed, RunType
<1> QED
  BY <1>1, <1>2 DEF ChainInv, OneRun, NeedsMet, Fresh, SkipFollowsFailure, GreenRun

LEMMA ChainUnchanged ==
  ASSUME ChainInv, UNCHANGED chain
  PROVE  OneRun' /\ NeedsMet' /\ Fresh' /\ SkipFollowsFailure' /\ GreenRun'
  BY DEF ChainInv, chain, OneRun, NeedsMet, Fresh, SkipFollowsFailure, GreenRun

LEMMA ClickStepInv ==
  ASSUME ChainInv, NEW c \in Clicks, ClickStep(c)
  PROVE  OneRun' /\ NeedsMet' /\ Fresh' /\ SkipFollowsFailure' /\ GreenRun'
<1>1. CASE Dispatch(c)
  BY <1>1, CreateInv DEF Dispatch, Events
<1>2. CASE Validate(c) \/ Clock(c) \/ Locate(c) \/ Watch(c) \/ FailClick(c)
  BY <1>2, ChainUnchanged DEF Validate, Clock, Locate, Watch, FailClick
<1> QED
  BY <1>1, <1>2 DEF ClickStep

LEMMA ChainInvariant == Spec => []ChainInv
<1>1. Init => ChainInv
  <2> SUFFICES ASSUME Init PROVE ChainInv
    OBVIOUS
  <2>1. OneRun /\ NeedsMet /\ Fresh /\ SkipFollowsFailure /\ GreenRun
    BY DEF Init, Idle, OneRun, NeedsMet, Fresh, SkipFollowsFailure, GreenRun
  <2> QED
    BY <2>1, InitType DEF ChainInv
<1>2. ChainInv /\ [Next]_vars => ChainInv'
  <2> SUFFICES ASSUME ChainInv, [Next]_vars PROVE ChainInv'
    OBVIOUS
  <2>1. Typed'
    BY NextType DEF ChainInv
  <2>2. ASSUME NEW r \in Runs,
               Trigger(r) \/ StartRun(r) \/ JobStep(r) \/ FinishRun(r) \/ Rerun(r)
        PROVE  ChainInv'
    BY <2>1, <2>2, CreateInv, StartRunInv, JobStepInv, FinishRunInv, RerunInv
       DEF Trigger, ChainInv
  <2>3. ASSUME NEW c \in Clicks, ClickStep(c)
        PROVE  ChainInv'
    BY <2>1, <2>3, ClickStepInv DEF ChainInv
  <2>4. ASSUME Tick \/ Rotate \/ Push \/ UNCHANGED vars
        PROVE  ChainInv'
    BY <2>1, <2>4, ChainUnchanged DEF Tick, Rotate, Push, vars, ChainInv
  <2> QED
    BY <2>2, <2>3, <2>4 DEF Next
<1> QED
  BY <1>1, <1>2, PTL DEF Spec

\* Only its own pass makes a canary succeed, unless its run is re-run.
LEMMA CanaryPass ==
  ASSUME ChainInv, [Next]_vars, NEW r \in Runs, job[r]["canary"] # "success",
         job'[r]["canary"] = "success", attempt'[r] = attempt[r]
  PROVE  PassJob(r, "canary")
<1>1. PICK q \in Runs : StartRun(q) \/ JobStep(q) \/ Rerun(q)
  BY DEF Next, Trigger, Create, FinishRun, ClickStep, Validate, Clock, Dispatch,
         Locate, Watch, FailClick, Tick, Rotate, Push, vars, chain
<1>2. ~ Rerun(q)
  BY DEF Rerun, ChainInv, Typed, RunType
<1>3. ~ StartRun(q)
  BY DEF StartRun, ChainInv, Typed, RunType
<1>4. PICK s \in Jobs :
        StartJob(q, s) \/ PassJob(q, s) \/ FailJob(q, s) \/ DropJob(q, s)
  BY <1>1, <1>2, <1>3 DEF JobStep
<1>5. PICK v \in JobStatus : /\ job' = [job EXCEPT ![q][s] = v]
                             /\ v = "success" => PassJob(q, s)
  BY <1>4 DEF StartJob, PassJob, FailJob, DropJob, JobStatus
<1>6. q = r /\ s = "canary" /\ v = "success"
  BY <1>5 DEF ChainInv, Typed, RunType
<1> QED
  BY <1>5, <1>6

\* However runs are re-run and secrets replaced, a canary passes only on the
\* evidence of its own attempt, of both jobs before it, for its candidate.
THEOREM CanaryProvenance == Spec => CanaryIsOfItsRun
<1> DEFINE Step == \A r \in Runs : job[r]["canary"] # "success"
              /\ job'[r]["canary"] = "success" /\ attempt'[r] = attempt[r] =>
         \A n \in {"staging", "rehearsal"} :
           /\ job[r][n] = "success"
           /\ artifact[r][n] = [candidate |-> held[r]["canary"],
                                attempt |-> attempt[r], verdict |-> "GO"]
<1>1. ASSUME ChainInv, [Next]_vars, NEW r \in Runs, job[r]["canary"] # "success",
             job'[r]["canary"] = "success", attempt'[r] = attempt[r],
             NEW n \in {"staging", "rehearsal"}
      PROVE  /\ job[r][n] = "success"
             /\ artifact[r][n] = [candidate |-> held[r]["canary"],
                                  attempt |-> attempt[r], verdict |-> "GO"]
  <2>1. PassJob(r, "canary")
    BY <1>1, CanaryPass
  <2>2. n \in Needs["canary"] /\ n \in Jobs
    BY DEF Needs
  <2>3. job[r][n] = "success"
    BY <1>1, <2>1, <2>2 DEF PassJob, ChainInv, NeedsMet
  <2>4. artifact[r][n] \in Evidence
    BY <1>1, <2>1, <2>2 DEF PassJob, Accepts, ChainInv, Typed, RunType
  <2> QED
    BY <2>1, <2>2, <2>3, <2>4 DEF PassJob, Accepts, Evidence
<1>2. ChainInv /\ [Next]_vars => [Step]_vars
  BY <1>1
<1> QED
  BY <1>2, ChainInvariant, PTL DEF Spec, CanaryIsOfItsRun

(***************************************************************************)
(* Whose release the staging host has.                                     *)
(***************************************************************************)

\* Evidence is of no later attempt than the run's; a queued run has none of its
\* current attempt.
EvidenceAge ==
  \A r \in Runs : artifact[r]["staging"] # Nothing =>
    /\ artifact[r]["staging"].attempt =< attempt[r]
    /\ status[r] # "none"
    /\ status[r] = "pending" => artifact[r]["staging"].attempt < attempt[r]
\* The running run had the host last, if this attempt of it has staged at all.
StagedHere(r) ==
  \/ job[r]["staging"] = "running"
  \/ /\ artifact[r]["staging"] # Nothing
     /\ artifact[r]["staging"].attempt = attempt[r]
OwnStaging ==
  \A r \in Runs : status[r] = "running" /\ StagedHere(r) => staged = r

LEMMA StagingUnchanged ==
  ASSUME EvidenceAge, OwnStaging, UNCHANGED chain
  PROVE  EvidenceAge' /\ OwnStaging'
  BY DEF chain, EvidenceAge, OwnStaging, StagedHere

LEMMA CreateStaging ==
  ASSUME ChainInv, EvidenceAge, OwnStaging, NEW r \in Runs, NEW by, NEW event,
         Create(r, by, event)
  PROVE  EvidenceAge' /\ OwnStaging'
<1>1. /\ \A q \in Runs : status'[q] \notin {"running", "success", "none"}
                           \/ status'[q] = status[q]
      /\ \A q \in Runs \ {r} : status'[q] = "pending" => status[q] = "pending"
      /\ status[r] = "none" /\ status'[r] = "pending"
      /\ UNCHANGED <<job, attempt, artifact, staged>>
  BY DEF Create, Queued, ChainInv, Typed, RunType
<1> QED
  BY <1>1 DEF EvidenceAge, OwnStaging, StagedHere

LEMMA StartRunStaging ==
  ASSUME ChainInv, EvidenceAge, OwnStaging, NEW r \in Runs, StartRun(r)
  PROVE  EvidenceAge' /\ OwnStaging'
<1>1. /\ status[r] = "pending" /\ UNCHANGED <<attempt, artifact, staged>>
      /\ \A q \in Runs \ {r} : status'[q] = status[q] /\ job'[q] = job[q]
      /\ status'[r] = "running" /\ job'[r]["staging"] # "running"
  BY DEF StartRun, ChainInv, Typed, RunType, JobsOfRuns
<1>2. attempt[r] \in Nat /\ (artifact[r]["staging"] # Nothing =>
        artifact[r]["staging"].attempt \in Nat)
  BY DEF ChainInv, Typed, RunType, Evidence
<1> QED
  BY <1>1, <1>2 DEF EvidenceAge, OwnStaging, StagedHere

LEMMA JobStepStaging ==
  ASSUME ChainInv, EvidenceAge, OwnStaging, NEW r \in Runs, JobStep(r)
  PROVE  EvidenceAge' /\ OwnStaging'
<1>1. PICK s \in Jobs :
        StartJob(r, s) \/ PassJob(r, s) \/ FailJob(r, s) \/ DropJob(r, s)
  BY DEF JobStep
<1>2. UNCHANGED <<status, attempt>> /\ status[r] = "running"
  BY <1>1 DEF StartJob, PassJob, FailJob, DropJob, ChainInv, Typed, JobsOfRuns
<1>3. \A q \in Runs \ {r} : job'[q] = job[q] /\ artifact'[q] = artifact[q]
  BY <1>1 DEF StartJob, PassJob, FailJob, DropJob, ChainInv, Typed, RunType
<1>4. attempt[r] \in Nat
  BY DEF ChainInv, Typed, RunType
<1>5. \/ artifact'[r]["staging"] = artifact[r]["staging"]
      \/ /\ artifact'[r]["staging"].attempt = attempt[r]
         /\ job[r]["staging"] = "running" /\ staged' = staged
  BY <1>1 DEF StartJob, PassJob, FailJob, DropJob, EvidenceOf, ChainInv, Typed,
              RunType
<1>6. \/ staged' = staged /\ (job'[r]["staging"] = "running" =>
                                job[r]["staging"] = "running")
      \/ staged' = r
  BY <1>1 DEF StartJob, PassJob, FailJob, DropJob, ChainInv, Typed, RunType
<1>7. EvidenceAge'
  BY <1>2, <1>3, <1>4, <1>5 DEF EvidenceAge
<1>8. \A q \in Runs \ {r} : status[q] # "running"
  BY <1>2 DEF ChainInv, OneRun
<1>9. StagedHere(r)' => staged' = r
  BY <1>2, <1>5, <1>6 DEF OwnStaging, StagedHere
<1> QED
  BY <1>2, <1>7, <1>8, <1>9 DEF OwnStaging

LEMMA FinishRunStaging ==
  ASSUME ChainInv, EvidenceAge, OwnStaging, NEW r \in Runs, FinishRun(r)
  PROVE  EvidenceAge' /\ OwnStaging'
<1>1. /\ UNCHANGED <<job, attempt, artifact, staged>>
      /\ \A q \in Runs \ {r} : status'[q] = status[q]
      /\ status'[r] \in {"success", "failure"}
  BY DEF FinishRun, ChainInv, Typed, RunType
<1> QED
  BY <1>1 DEF EvidenceAge, OwnStaging, StagedHere

LEMMA RerunStaging ==
  ASSUME ChainInv, EvidenceAge, OwnStaging, NEW r \in Runs, Rerun(r)
  PROVE  EvidenceAge' /\ OwnStaging'
<1>1. /\ UNCHANGED <<artifact, staged>>
      /\ \A q \in Runs \ {r} : /\ job'[q] = job[q] /\ attempt'[q] = attempt[q]
                               /\ status'[q] = "running" => status[q] = "running"
                               /\ status'[q] = "pending" => status[q] = "pending"
                               /\ status[q] # "none" => status'[q] # "none"
      /\ status'[r] = "pending" /\ attempt'[r] = attempt[r] + 1
  BY DEF Rerun, Queued, ChainInv, Typed, RunType
<1>2. attempt[r] \in Nat /\ (artifact[r]["staging"] # Nothing =>
        artifact[r]["staging"].attempt \in Nat)
  BY DEF ChainInv, Typed, RunType, Evidence
<1>3. EvidenceAge'
  BY <1>1, <1>2 DEF EvidenceAge
<1>4. OwnStaging'
  BY <1>1 DEF OwnStaging, StagedHere
<1> QED
  BY <1>3, <1>4

\* The canary is applied while the staging host still has what this run put
\* there: no other run of the chain deployed in between.
THEOREM CanaryFollowsStaging == Spec => StagingIsItsOwn
<1> DEFINE Step == \A r \in Runs : job[r]["canary"] # "success"
              /\ job'[r]["canary"] = "success" /\ attempt'[r] = attempt[r]
                 => staged = r
<1>1. Init => EvidenceAge /\ OwnStaging
  BY DEF Init, Idle, EvidenceAge, OwnStaging
<1>2. ChainInv /\ EvidenceAge /\ OwnStaging /\ [Next]_vars
        => EvidenceAge' /\ OwnStaging'
  <2> SUFFICES ASSUME ChainInv, EvidenceAge, OwnStaging, [Next]_vars
               PROVE  EvidenceAge' /\ OwnStaging'
    OBVIOUS
  <2>1. ASSUME NEW r \in Runs,
               Trigger(r) \/ StartRun(r) \/ JobStep(r) \/ FinishRun(r) \/ Rerun(r)
        PROVE  EvidenceAge' /\ OwnStaging'
    BY <2>1, CreateStaging, StartRunStaging, JobStepStaging, FinishRunStaging,
       RerunStaging DEF Trigger
  <2>2. ASSUME NEW c \in Clicks, ClickStep(c)
        PROVE  EvidenceAge' /\ OwnStaging'
    <3>1. CASE Dispatch(c)
      BY <3>1, CreateStaging DEF Dispatch
    <3>2. CASE Validate(c) \/ Clock(c) \/ Locate(c) \/ Watch(c) \/ FailClick(c)
      BY <3>2, StagingUnchanged DEF Validate, Clock, Locate, Watch, FailClick
    <3> QED
      BY <2>2, <3>1, <3>2 DEF ClickStep
  <2>3. ASSUME Tick \/ Rotate \/ Push \/ UNCHANGED vars
        PROVE  EvidenceAge' /\ OwnStaging'
    BY <2>3, StagingUnchanged DEF Tick, Rotate, Push, vars
  <2> QED
    BY <2>1, <2>2, <2>3 DEF Next
<1>3. ASSUME ChainInv, OwnStaging, [Next]_vars, NEW r \in Runs,
             job[r]["canary"] # "success", job'[r]["canary"] = "success",
             attempt'[r] = attempt[r]
      PROVE  staged = r
  <2>1. PassJob(r, "canary")
    BY <1>3, CanaryPass
  <2>2. status[r] = "running"
    BY <1>3, <2>1 DEF PassJob, ChainInv, Typed, JobsOfRuns
  <2>3. StagedHere(r)
    BY <2>1 DEF PassJob, Accepts, Needs, StagedHere
  <2> QED
    BY <1>3, <2>2, <2>3 DEF OwnStaging
<1>4. ChainInv /\ OwnStaging /\ [Next]_vars => [Step]_vars
  BY <1>3
<1> QED
  BY <1>1, <1>2, <1>4, ChainInvariant, PTL DEF Spec, StagingIsItsOwn

(***************************************************************************)
(* One click.                                                              *)
(***************************************************************************)

\* Who watches, watches a dispatched run of its commit on main.
Watching ==
  \A c \in Clicks : click[c] = "watch" =>
    /\ watched[c] \in Runs /\ status[watched[c]] # "none"
    /\ origin[watched[c]].event = "main" /\ origin[watched[c]].sha = asked[c].sha

LEMMA OriginStays ==
  ASSUME ChainInv, [Next]_vars, NEW r \in Runs, status[r] # "none"
  PROVE  origin'[r] = origin[r] /\ status'[r] # "none"
<1>1. ASSUME NEW q \in Runs, NEW by, NEW event, Create(q, by, event)
      PROVE  origin'[r] = origin[r] /\ status'[r] # "none"
  <2>1. q # r
    BY <1>1
       DEF Create
  <2> QED
    BY <1>1, <2>1 DEF Create, Queued, ChainInv, Typed, RunType
<1>2. ASSUME NEW q \in Runs, StartRun(q) \/ JobStep(q) \/ FinishRun(q) \/ Rerun(q)
      PROVE  origin'[r] = origin[r] /\ status'[r] # "none"
  BY <1>2 DEF StartRun, JobStep, StartJob, PassJob, FailJob, DropJob, FinishRun,
              Rerun, Queued, ChainInv, Typed, RunType
<1>3. ASSUME UNCHANGED chain
      PROVE  origin'[r] = origin[r] /\ status'[r] # "none"
  BY <1>3 DEF chain
<1> QED
  BY <1>1, <1>2, <1>3 DEF Next, Trigger, ClickStep, Validate, Clock, Dispatch,
     Locate, Watch, FailClick, Tick, Rotate, Push, vars

LEMMA WatchingStep ==
  ASSUME ChainInv, Watching, [Next]_vars PROVE Watching'
<1> SUFFICES ASSUME NEW c \in Clicks, click'[c] = "watch"
             PROVE  /\ watched'[c] \in Runs /\ status'[watched'[c]] # "none"
                    /\ origin'[watched'[c]].event = "main"
                    /\ origin'[watched'[c]].sha = asked'[c].sha
  BY DEF Watching
<1>1. CASE Locate(c)
  BY <1>1 DEF Locate, Found, ChainInv, Typed, ClickType, chain
<1>2. CASE ~ Locate(c)
  <2>1. click[c] = "watch" /\ watched'[c] = watched[c] /\ asked'[c] = asked[c]
    <3>1. CASE UNCHANGED wrapper
      BY <3>1 DEF wrapper
    <3>2. ASSUME NEW d \in Clicks, ClickStep(d)
          PROVE  click[c] = "watch" /\ watched'[c] = watched[c]
                 /\ asked'[c] = asked[c]
      BY <3>2, <1>2 DEF ClickStep, Validate, Clock, Dispatch, Locate, Watch,
         FailClick, ChainInv, Typed, ClickType, ClickDone
    <3> QED
      BY <3>1, <3>2 DEF Next, Trigger, StartRun, JobStep, StartJob, PassJob,
         FailJob, DropJob, FinishRun, Rerun, Tick, Rotate, Push, vars
  <2> QED
    BY <2>1, OriginStays DEF Watching
<1> QED
  BY <1>1, <1>2

\* A green click stands for a canary that passed on the commit it was started
\* on.
THEOREM GreenClick == Spec => ClickIsTrue
<1> DEFINE Step == \A c \in Clicks : click[c] # "success" /\ click'[c] = "success" =>
                     /\ origin[watched[c]].sha = asked[c].sha
                     /\ job[watched[c]]["canary"] = "success"
<1>1. Init => Watching
  BY DEF Init, Watching
<1>2. ChainInv /\ Watching /\ [Next]_vars => Watching'
  BY WatchingStep
<1>3. ASSUME ChainInv, Watching, [Next]_vars, NEW c \in Clicks,
             click[c] # "success", click'[c] = "success"
      PROVE  /\ origin[watched[c]].sha = asked[c].sha
             /\ job[watched[c]]["canary"] = "success"
  <2>1. Watch(c)
    <3>1. PICK d \in Clicks : ClickStep(d)
      BY <1>3 DEF Next, Trigger, StartRun, JobStep, StartJob, PassJob, FailJob,
                  DropJob, FinishRun, Rerun, Tick, Rotate, Push, vars, wrapper
    <3> QED
      BY <1>3, <3>1 DEF ClickStep, Validate, Clock, Dispatch, Locate, Watch,
                        FailClick, ChainInv, Typed, ClickType
  <2>2. click[c] = "watch" /\ status[watched[c]] = "success"
    BY <1>3, <2>1 DEF Watch, ChainInv, Typed, ClickType
  <2> QED
    BY <1>3, <2>2 DEF Watching, ChainInv, GreenRun
<1>4. ChainInv /\ Watching /\ [Next]_vars => [Step]_vars
  BY <1>3
<1> QED
  BY <1>1, <1>2, <1>4, ChainInvariant, PTL DEF Spec, ClickIsTrue
=============================================================================
