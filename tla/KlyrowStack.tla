----------------------------- MODULE KlyrowStack -----------------------------
(***************************************************************************)
(* operators/klyrow-stack, the root operator of one compose project: its   *)
(* subcommands that act (stage, deploy, rollback) and preflight, which     *)
(* deploy and stage begin with.  status, plan and rollback-plan only read. *)
(*                                                                         *)
(* Approval is a marker file that lives at most four hours.  Nothing       *)
(* serialises invocations: sudo starts as many as it is asked for.         *)
(***************************************************************************)
EXTENDS Naturals, FiniteSets

CONSTANTS
  Invocations,   \* runs of the operator
  AtOnce,        \* how many of them the administrators let overlap
  Services,      \* FIXED: the fixed-name containers
  Gateway,       \* the one that answers /v1/health and /version
  Disturbances   \* what the world does meanwhile, see below

ASSUME InvocationAssumption == IsFiniteSet(Invocations) /\ AtOnce \in Nat
ASSUME ServiceAssumption == Gateway \in Services
ASSUME DisturbanceAssumption ==
  Disturbances \subseteq {"fault", "kill", "expire", "inputs", "mail"}

VARIABLES
  image,     \* what each container runs: "current" (CURRENT_SHA with the
             \* known-good override), "candidate" (TARGET_SHA), or "absent"
  health,    \* health of each container
  safe,      \* the gateway reads safe_mode and a closed production gate
  outbox,    \* outbox_active # 0
  marker,    \* the approval marker
  clean,     \* the deployment inputs are those of TARGET_SHA
  pc, op,    \* where each invocation is, and its subcommand
  todo       \* services its compose up has still to recreate

stack  == <<image, health, safe>>
world  == <<outbox, marker, clean>>
vars   == <<stack, world, pc, op, todo>>

Subcommands == {"preflight", "stage", "deploy", "rollback"}
\* blocked by a check, or failed with a command.
Ended == {"passed", "blocked", "failed", "killed"}
\* The try block of do_deploy(), and do_rollback().
InTry == {"up", "wait", "safe", "retain"}
InRollback == {"rb_clean", "rb_core", "rb_marker", "rb_own", "rb_dry", "rb_up",
               "rb_safe"}
Labels == {"idle", "clean", "core", "marker", "dry", "own", "read", "pull"}
            \cup InTry \cup InRollback \cup Ended
Active(p) == pc[p] \notin Ended \cup {"idle"}

Init ==
  /\ image = [s \in Services |-> "current"]
  /\ health = [s \in Services |-> "healthy"]
  /\ safe = TRUE /\ outbox = FALSE
  /\ marker = "absent" /\ clean = TRUE
  /\ pc = [p \in Invocations |-> "idle"]
  /\ op = [p \in Invocations |-> "preflight"]
  /\ todo = [p \in Invocations |-> {}]

Goto(p, l) == pc' = [pc EXCEPT ![p] = l]

\* COMMANDS[sys.argv[1]]()
Invoke(p) ==
  /\ pc[p] = "idle"
  /\ Cardinality({q \in Invocations : Active(q)}) < AtOnce
  /\ \E c \in Subcommands :
       /\ op' = [op EXCEPT ![p] = c]
       /\ Goto(p, IF c = "rollback" THEN "rb_clean" ELSE "clean")
  /\ UNCHANGED <<stack, world, todo>>

(***************************************************************************)
(* The checks, in the order of do_preflight(), do_deploy() and             *)
(* do_rollback().                                                          *)
(***************************************************************************)

\* Mutant: the approval is not looked at again for a rollback on its own.
FollowsNoMarker(p) ==
  [clean |-> "core", core |-> "marker", marker |-> "dry", dry |-> "own",
   own |-> "read",
   read |-> CASE op[p] = "deploy" -> "up" [] op[p] = "stage" -> "pull"
              [] OTHER -> "passed",
   pull |-> "passed",
   wait |-> "safe", safe |-> "retain", retain |-> "passed",
   rb_clean |-> "rb_core", rb_core |-> "rb_own", rb_marker |-> "rb_own",
   rb_own |-> "rb_dry", rb_dry |-> "rb_up",
   rb_safe |-> IF op[p] = "rollback" THEN "passed" ELSE "blocked"][pc[p]]

\* The step behind a check that passes; after its rollback a deploy raises.
Follows(p) ==
  [clean |-> "core", core |-> "marker", marker |-> "dry", dry |-> "own",
   own |-> "read",
   read |-> CASE op[p] = "deploy" -> "up" [] op[p] = "stage" -> "pull"
              [] OTHER -> "passed",
   pull |-> "passed",
   wait |-> "safe", safe |-> "retain", retain |-> "passed",
   rb_clean |-> "rb_core", rb_core |-> "rb_marker", rb_marker |-> "rb_own",
   rb_own |-> "rb_dry", rb_dry |-> "rb_up",
   rb_safe |-> IF op[p] = "rollback" THEN "passed" ELSE "blocked"][pc[p]]

\* clean_approved_worktree(): TARGET_SHA is checked out and unmodified.
CleanWorktree == clean

\* marker_ok(): written, matching and not expired.
MarkerOk == marker = "valid"

\* Mutant: allow_absent is forgotten.
OwnershipStrict(allowAbsent) == \A s \in Services : image[s] # "absent"

\* ownership(): every fixed container is there, or may be absent.
Ownership(allowAbsent) == allowAbsent \/ \A s \in Services : image[s] # "absent"

\* readback() answers once the gateway serves; revision is the gateway's.
Readback(revision) == health[Gateway] # "starting" /\ image[Gateway] = revision

VerifySafe(revision) == Readback(revision) /\ ~outbox /\ safe

\* Whether the check of label l passes.  The override and the backup are
\* pinned by path and digest: losing them is a fault.
Passes(l) ==
  CASE l \in {"clean", "rb_clean"} -> CleanWorktree
    [] l \in {"marker", "rb_marker"} -> MarkerOk
    [] l \in {"own", "retain"} -> Ownership(FALSE)
    [] l = "rb_own" -> Ownership(TRUE)
    [] l = "read" -> Readback("current") /\ ~outbox
    [] l = "wait" -> Ownership(FALSE) /\ \A s \in Services : health[s] = "healthy"
    [] l = "safe" -> VerifySafe("candidate")
    [] l = "rb_safe" -> VerifySafe("current")
    [] OTHER -> TRUE

Checks == Labels \ ({"idle", "up", "rb_up"} \cup Ended)
Image(l) == IF l = "up" THEN "candidate" ELSE "current"

\* Mutant: compose is asked for the gateway only.
StaleGateway(l) == {s \in {Gateway} : image[s] # Image(l)}

\* What a compose up of the candidate or of the known-good override replaces.
Stale(l) == {s \in Services : image[s] # Image(l)}

Check(p) ==
  /\ pc[p] \in Checks /\ Passes(pc[p])
  /\ Goto(p, Follows(p))
  /\ todo' = [todo EXCEPT ![p] = IF Follows(p) \in {"up", "rb_up"}
                                   THEN Stale(Follows(p)) ELSE {}]
  /\ UNCHANGED <<stack, world, op>>

(***************************************************************************)
(* docker compose up, container by container.                              *)
(***************************************************************************)

Remove(p, s) ==
  /\ pc[p] \in {"up", "rb_up"} /\ s \in todo[p] /\ image[s] # "absent"
  /\ image' = [image EXCEPT ![s] = "absent"]
  /\ UNCHANGED <<health, safe, world, pc, op, todo>>

\* Whether a candidate comes up safe is for the readback to tell; the override
\* is the reviewed known-good one.
Create(p, s) ==
  /\ pc[p] \in {"up", "rb_up"} /\ s \in todo[p] /\ image[s] = "absent"
  /\ image' = [image EXCEPT ![s] = Image(pc[p])]
  /\ health' = [health EXCEPT ![s] = "starting"]
  /\ safe' \in IF s # Gateway THEN {safe}
               ELSE IF pc[p] = "up" THEN BOOLEAN ELSE {TRUE}
  /\ todo' = [todo EXCEPT ![p] = @ \ {s}]
  /\ UNCHANGED <<world, pc, op>>

\* Only the deployment waits for health.
UpDone(p) ==
  /\ pc[p] \in {"up", "rb_up"} /\ todo[p] = {}
  /\ Goto(p, IF pc[p] = "up" THEN "wait" ELSE "rb_safe")
  /\ UNCHANGED <<stack, world, op, todo>>

(***************************************************************************)
(* Failures.                                                               *)
(***************************************************************************)

\* Mutant: a failing rollback is started again.
RaisesRetried(p, end) ==
  /\ Goto(p, IF pc[p] \in InTry \cup InRollback THEN "rb_clean" ELSE end)
  /\ todo' = [todo EXCEPT ![p] = {}]
  /\ UNCHANGED <<stack, world, op>>

\* Mutant: what a failed compose up had left is still to be done.
RaisesUnfinished(p, end) ==
  /\ Goto(p, IF pc[p] \in InTry THEN "rb_clean" ELSE end)
  /\ UNCHANGED <<stack, world, op, todo>>

\* Every exception of the try block leads to the rollback; every other one,
\* those of the rollback included, ends the program.
Raises(p, end) ==
  /\ Goto(p, IF pc[p] \in InTry THEN "rb_clean" ELSE end)
  /\ todo' = [todo EXCEPT ![p] = {}]
  /\ UNCHANGED <<stack, world, op>>

\* A check does not pass; compose waits for as long as the containers may all
\* become healthy.
Refuse(p) ==
  /\ pc[p] \in Checks /\ ~Passes(pc[p])
  /\ pc[p] = "wait" =>
       \E s \in Services : health[s] = "unhealthy" \/ image[s] = "absent"
  /\ Raises(p, "blocked")

\* A command fails, a compose up wherever it is included.
Fault(p) ==
  /\ "fault" \in Disturbances /\ Active(p)
  /\ Raises(p, "failed")

Kill(p) ==
  /\ "kill" \in Disturbances /\ Active(p)
  /\ Goto(p, "killed")
  /\ todo' = [todo EXCEPT ![p] = {}]
  /\ UNCHANGED <<stack, world, op>>

(***************************************************************************)
(* The world around.                                                       *)
(***************************************************************************)

\* A container that starts becomes healthy, or does not.
Settle(s) ==
  /\ image[s] # "absent" /\ health[s] = "starting"
  /\ \E h \in {"healthy", "unhealthy"} : health' = [health EXCEPT ![s] = h]
  /\ UNCHANGED <<image, safe, world, pc, op, todo>>

\* The root administrator writes a marker; four hours pass.
Approve ==
  /\ marker # "valid" /\ marker' = "valid"
  /\ UNCHANGED <<stack, outbox, clean, pc, op, todo>>
Expire ==
  /\ "expire" \in Disturbances
  /\ marker = "valid" /\ marker' = "expired"
  /\ UNCHANGED <<stack, outbox, clean, pc, op, todo>>

\* Mail is queued and sent; the worktree is edited and restored.
Mail ==
  /\ "mail" \in Disturbances /\ outbox' = ~outbox
  /\ UNCHANGED <<stack, marker, clean, pc, op, todo>>
Edit ==
  /\ "inputs" \in Disturbances /\ clean' = ~clean
  /\ UNCHANGED <<stack, outbox, marker, pc, op, todo>>

Step(p) ==
  \/ Check(p) \/ UpDone(p) \/ Refuse(p)
  \/ \E s \in Services : Remove(p, s) \/ Create(p, s)

AllEnded == (\A p \in Invocations : pc[p] \in Ended) /\ UNCHANGED vars

Next ==
  \/ \E p \in Invocations : Invoke(p) \/ Step(p) \/ Fault(p) \/ Kill(p)
  \/ \E s \in Services : Settle(s)
  \/ Approve \/ Expire \/ Mail \/ Edit \/ AllEnded

Spec == Init /\ [][Next]_vars
FairSpec ==
  /\ Spec
  /\ \A p \in Invocations : WF_vars(Step(p))
  /\ \A s \in Services : WF_vars(Settle(s))

(***************************************************************************)
(* What must hold.                                                         *)
(***************************************************************************)

\* Every variable holds a value of its kind.
TypeOK ==
  /\ image \in [Services -> {"current", "candidate", "absent"}]
  /\ health \in [Services -> {"starting", "healthy", "unhealthy"}]
  /\ safe \in BOOLEAN /\ outbox \in BOOLEAN /\ clean \in BOOLEAN
  /\ marker \in {"absent", "valid", "expired"}
  /\ pc \in [Invocations -> Labels]
  /\ op \in [Invocations -> Subcommands]
  /\ todo \in [Invocations -> SUBSET Services]
  /\ \A p \in Invocations : pc[p] \notin {"up", "rb_up"} => todo[p] = {}

Runs(i) == \A s \in Services : image[s] = i
\* An invocation past its own check of the marker.
Approved(p) == pc[p] \in {"dry", "own", "read", "pull", "passed"} \cup InTry
                           \cup (InRollback \ {"rb_clean", "rb_core", "rb_marker"})

\* Until the root administrator has written a marker no container is touched,
\* however many invocations overlap: every path to a compose up, the rollback
\* of a failed deploy included, reads the marker first.
UnapprovedUntouched ==
  marker = "absent" => Runs("current") /\ \A p \in Invocations : ~Approved(p)

\* DEPLOY=PASS is printed while every service, and not only the gateway whose
\* revision is read back, runs the candidate in safe mode; ROLLBACK=PASS while
\* every service runs the known-good release.  One invocation at a time:
\* nothing in the operator keeps a second one from undoing what it checked.
PassIsTrue ==
  [][\A p \in Invocations : pc[p] # "passed" /\ pc'[p] = "passed" =>
       /\ op[p] = "deploy" => Runs("candidate") /\ safe
       /\ op[p] = "rollback" => Runs("current") /\ safe]_vars

\* Every invocation ends: compose gives up on a container that is unhealthy,
\* and a failing rollback is not retried.
Ends == \A p \in Invocations : Active(p) ~> pc[p] \in Ended

\* A deploy that fails once its compose up has begun, in it, in the wait for
\* health or in a readback, ends with the known-good release on all services,
\* although compose may have stopped between removing and creating a container;
\* unless its rollback was refused, for the worktree or the marker as they were
\* then, or a command of the rollback up to its compose up failed.  What the
\* readback behind that finds does not matter.
DeploySettles ==
  [][\A p \in Invocations :
       op[p] = "deploy" /\ pc[p] \in InTry \cup InRollback
         /\ pc'[p] \in {"blocked", "failed"}
       => \/ Runs("current")
          \/ pc'[p] = "blocked" /\ pc[p] = "rb_clean" /\ ~CleanWorktree
          \/ pc'[p] = "blocked" /\ pc[p] = "rb_marker" /\ ~MarkerOk
          \/ pc'[p] = "failed" /\ pc[p] # "rb_safe"]_vars

\* "automatically invokes the restricted rollback if health/safety readback
\* fails" (operators/README.md): a failed deploy does not end with candidates.
FailedDeployIsRolledBack ==
  [][\A p \in Invocations :
       op[p] = "deploy" /\ pc[p] \in InTry \cup InRollback /\ pc'[p] = "blocked"
         => Runs("current")]_vars
==============================================================================
