---------------------------- MODULE ReviewedPlan ----------------------------
(***************************************************************************)
(* stage6-provision-staging-host.yml and stage6-apply-reviewed-plan.yml:   *)
(* plans of OpenTofu made from the remote state, reviewed, and applied     *)
(* after an approval that may come much later.  The two workflows are in   *)
(* different concurrency groups, and share the state, its lock file and    *)
(* the cloud, which administrators change by hand as well.                 *)
(***************************************************************************)
EXTENDS StagingCloud

CONSTANT MaxEvents

VARIABLES
  cloud,
  remote,      \* lineage, serial and entries of the state; lineage 0: no file
  lock,        \* the lock file exists (use_lockfile)
  pinned,      \* the plan whose digest main names (REVIEWED_ARTIFACT_DIGEST)
  step, plan,  \* of each workflow: where its run is, and the plan it holds
  todo, work,  \* of the run that applies: what is left, what it has changed
  events       \* dispatches of workflows and acts of administrators

vars == <<cloud, remote, lock, pinned, step, plan, todo, work, events>>

PlanAssumption == MaxEvents \in Nat

Workflow == {"provision", "reviewed"}
NoPlan == [lineage |-> 0, serial |-> 0, has |-> {}, change |-> [a \in Address |-> "none"]]

Init == /\ cloud = Empty
        /\ remote = [lineage |-> 0, serial |-> 0, has |-> {}, used |-> 0]
        /\ lock = FALSE /\ pinned = NoPlan
        /\ step = [w \in Workflow |-> "idle"] /\ plan = [w \in Workflow |-> NoPlan]
        /\ todo = {} /\ work = {} /\ events = 0

\* The state knows the resource that is there.
Managed(a) == Exists(cloud, a) /\ Entry(cloud, a) \in remote.has

\* tofu plan: the state, refreshed from the cloud, against the configuration.
Planned ==
  [lineage |-> remote.lineage, serial |-> remote.serial,
   has |-> {a \in Address : Managed(a)},
   change |-> [a \in Address |->
     IF ~Managed(a) THEN "create"
     ELSE IF cloud.fit[a] = "worn" THEN "replace"
     ELSE IF cloud.fit[a] = "drifted" \/ (a = "server" /\ cloud.under = 0) THEN "update"
     ELSE "no-op"]]

\* lifecycle { prevent_destroy = true }
Destroys(p) == \E a \in {"network", "server"} : p.change[a] = "replace"

\* Mutant: a plan that replaces a resource is accepted.
ProvisionAcceptsAll(p) ==
  \A a \in Address : p.change[a] \in {"create", "update", "no-op", "replace"}

\* The jq conditions of plan-remote, and of apply once more.
ProvisionAccepts(p) ==
  \A a \in Address : p.change[a] \in {"create", "update", "no-op"}

\* validate_stage6_reviewed_plan.py
ReviewedAccepts(p) ==
  /\ \A a \in Address : p.change[a] = "create"
  /\ p.has = {}

\* validate_stage6_state_currency.py
Current(p) ==
  IF remote.lineage = 0 THEN p.serial = 0 /\ p.lineage = 0
                        ELSE p.serial = remote.serial /\ p.lineage = remote.lineage

Accepts(w, p) == CASE w = "provision" -> ProvisionAccepts(p)
                   [] w = "reviewed" -> ReviewedAccepts(p) /\ Current(p)

\* PLAN_ or APPLY_STAGE6_ISOLATED_HOST up to the artifact; a plan that was only
\* made may be pinned by a commit to main.
PlanRemote ==
  /\ step["provision"] = "idle" /\ events < MaxEvents /\ ~lock
  /\ ~Destroys(Planned) /\ ProvisionAccepts(Planned)
  /\ events' = events + 1
  /\ \/ /\ step' = [step EXCEPT !["provision"] = "waiting"]
        /\ plan' = [plan EXCEPT !["provision"] = Planned]
        /\ UNCHANGED pinned
     \/ pinned' = Planned /\ pinned # Planned /\ UNCHANGED <<step, plan>>
  /\ UNCHANGED <<cloud, remote, lock, todo, work>>

\* verify-reviewed-plan, for the artifact main names.
VerifyReviewed ==
  /\ step["reviewed"] = "idle" /\ events < MaxEvents
  /\ pinned # NoPlan /\ Accepts("reviewed", pinned)
  /\ events' = events + 1
  /\ step' = [step EXCEPT !["reviewed"] = "waiting"]
  /\ plan' = [plan EXCEPT !["reviewed"] = pinned]
  /\ UNCHANGED <<cloud, remote, lock, pinned, todo, work>>

\* The environment is approved, and the apply job checks the plan again.
Check(w) ==
  /\ step[w] = "waiting" /\ Accepts(w, plan[w])
  /\ step' = [step EXCEPT ![w] = "checked"]
  /\ UNCHANGED <<cloud, remote, lock, pinned, plan, todo, work, events>>

Ended(w) == /\ step' = [step EXCEPT ![w] = "idle"]
            /\ plan' = [plan EXCEPT ![w] = NoPlan]

\* It is not approved, the artifact has expired (retention-days: 1), a check
\* fails, the state is locked or has moved on.
Refuse(w) ==
  /\ step[w] \in {"waiting", "checked"}
  /\ Ended(w)
  /\ UNCHANGED <<cloud, remote, lock, pinned, todo, work, events>>

\* tofu apply takes the lock, and compares serial and lineage itself, except
\* the lineage of a plan that was made before there was one.
Apply(w) ==
  /\ step[w] = "checked" /\ ~lock
  /\ plan[w].serial = remote.serial
  /\ plan[w].lineage \in {0, remote.lineage}
  /\ lock' = TRUE
  /\ step' = [step EXCEPT ![w] = "applying"]
  /\ todo' = {a \in Address : plan[w].change[a] # "no-op"}
  /\ UNCHANGED <<cloud, remote, pinned, plan, work, events>>

\* One call of the API, after those it needs.  What is replaced is removed by one
\* call and built by the next.  Where a call fails, so does what needs it, and
\* the rest goes on.
Call(w, a) ==
  LET change == plan[w].change[a]
      next == CASE change = "update" -> Mended(cloud, a)
                [] change = "replace" /\ Managed(a) -> Removed(cloud, a)
                [] OTHER -> Built(cloud, a)
      works == IF change = "create" THEN CanBuild(cloud, a)
               ELSE Managed(a) \/ (change = "replace" /\ CanBuild(cloud, a))
  IN
  /\ step[w] = "applying" /\ a \in todo /\ Needs(a) \cap todo = {}
  /\ IF works
     THEN /\ cloud' = next
          /\ work' = work \cup {Entry(next, a)}
          /\ todo' = IF Exists(next, a) THEN todo \ {a} ELSE todo
     ELSE todo' = todo \ ({a} \cup Dependents(a)) /\ UNCHANGED <<cloud, work>>
  /\ UNCHANGED <<remote, lock, pinned, step, plan, events>>

Written == [remote EXCEPT !.serial = @ + 1,
                          !.has = {e \in @ : \A f \in work : e[1] # f[1]} \cup work,
                          !.lineage = IF @ = 0 THEN remote.used + 1 ELSE @,
                          !.used = IF remote.lineage = 0 THEN @ + 1 ELSE @]

\* The apply writes the state and gives up the lock, whether it succeeded or not.
End(w) ==
  /\ step[w] = "applying" /\ todo = {}
  /\ remote' = IF work = {} THEN remote ELSE Written
  /\ lock' = FALSE /\ work' = {}
  /\ Ended(w)
  /\ UNCHANGED <<cloud, pinned, todo, events>>

\* The job is cancelled or runs into its 20 minutes: the lock file stays, and
\* what was changed is in the state only where that was written before.
Kill(w) ==
  /\ step[w] = "applying"
  /\ \/ remote' = remote
     \/ work # {} /\ remote' = Written
  /\ todo' = {} /\ work' = {}
  /\ Ended(w)
  /\ UNCHANGED <<cloud, lock, pinned, events>>

\* tofu force-unlock, when nobody applies.
Unlock ==
  /\ lock /\ \A w \in Workflow : step[w] # "applying"
  /\ lock' = FALSE
  /\ UNCHANGED <<cloud, remote, pinned, step, plan, todo, work, events>>

\* An administrator changes the cloud, or the state is lost.
Administrate ==
  /\ events < MaxEvents /\ events' = events + 1
  /\ \/ cloud' \in ByHand(cloud) /\ UNCHANGED remote
     \/ /\ remote.lineage # 0 /\ ~lock
        /\ remote' = [remote EXCEPT !.lineage = 0, !.serial = 0, !.has = {}]
        /\ UNCHANGED cloud
  /\ UNCHANGED <<lock, pinned, step, plan, todo, work>>

Run(w) == \/ Check(w) \/ Refuse(w) \/ Apply(w) \/ End(w) \/ Kill(w)
          \/ \E a \in Address : Call(w, a)

Next == \/ PlanRemote \/ VerifyReviewed \/ Unlock \/ Administrate
        \/ \E w \in Workflow : Run(w)

Spec == Init /\ [][Next]_vars

TypeOK ==
  /\ IsCloud(cloud)
  /\ remote.lineage \in 0..remote.used /\ remote.used \in Nat
  /\ remote.serial \in Nat /\ \A e \in remote.has \cup work : e[1] \in Address
  /\ remote.lineage = 0 => remote.serial = 0 /\ remote.has = {}
  /\ lock \in BOOLEAN
  /\ step \in [Workflow -> {"idle", "waiting", "checked", "applying"}]
  /\ \A w \in Workflow : step[w] = "idle" <=> plan[w] = NoPlan
  /\ \A w \in Workflow : step[w] = "applying" => lock
  /\ todo \cup work # {} => \E w \in Workflow : step[w] = "applying"
  /\ events \in 0..MaxEvents

\* Whatever was planned when, and whoever applies it on which state and cloud:
\* no apply removes or replaces what exists, or spoils it, and the workflow of
\* the reviewed plan changes nothing that was there.
AppliedAsReviewed ==
  [][events' = events =>
       \A a \in Address : Exists(cloud, a) =>
         /\ cloud'.id[a] = cloud.id[a]
         /\ cloud'.fit[a] \in {cloud.fit[a], "right"}
         /\ step["reviewed"] = "applying" => cloud'.fit[a] = cloud.fit[a]]_cloud
=============================================================================
