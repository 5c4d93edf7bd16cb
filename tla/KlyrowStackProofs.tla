-------------------------- MODULE KlyrowStackProofs --------------------------
(***************************************************************************)
(* What holds of KlyrowStack for any number of invocations and services.   *)
(***************************************************************************)
EXTENDS KlyrowStack, FiniteSetTheorems, TLAPS

UpLabels == {"up", "rb_up"}

\* Where a passing check leads is a label, and never back to the start.
LEMMA FollowsType ==
  ASSUME TypeOK, NEW p \in Invocations, pc[p] \in Checks
  PROVE  Follows(p) \in Labels \ {"idle", "killed"}
<1>1. pc[p] \in {"clean", "core", "marker", "dry", "own", "read", "pull", "wait",
                 "safe", "retain", "rb_clean", "rb_core", "rb_marker", "rb_own",
                 "rb_dry", "rb_safe"}
  BY DEF Checks, Labels, InTry, InRollback, Ended
<1>2. CASE pc[p] = "read"
  BY <1>2 DEF Follows, Labels, InTry, InRollback, Ended
<1>3. CASE pc[p] # "read"
  BY <1>1, <1>3 DEF Follows, Labels, InTry, InRollback, Ended
<1> QED
  BY <1>2, <1>3

LEMMA InitType == Init => TypeOK
<1> SUFFICES ASSUME Init PROVE TypeOK
  OBVIOUS
<1>1. safe \in BOOLEAN /\ outbox \in BOOLEAN /\ clean \in BOOLEAN
  BY DEF Init
<1>2. pc \in [Invocations -> Labels] /\ op \in [Invocations -> Subcommands]
  BY DEF Init, Labels, Subcommands
<1> QED
  BY <1>1, <1>2 DEF Init, TypeOK

LEMMA CheckType ==
  ASSUME TypeOK, NEW p \in Invocations, Check(p)
  PROVE  TypeOK'
<1>1. Follows(p) \in Labels
  BY FollowsType DEF Check
<1>2. pc' = [pc EXCEPT ![p] = Follows(p)] /\ pc' \in [Invocations -> Labels]
  BY <1>1 DEF Check, Goto, TypeOK
<1>3. todo' \in [Invocations -> SUBSET Services]
  BY DEF Check, Stale, TypeOK
<1>4. \A q \in Invocations : pc'[q] \notin UpLabels => todo'[q] = {}
  BY <1>2 DEF Check, TypeOK, UpLabels
<1> QED
  BY <1>2, <1>3, <1>4 DEF Check, TypeOK, stack, world, UpLabels

LEMMA UpType ==
  ASSUME TypeOK, NEW p \in Invocations, NEW s \in Services,
         Remove(p, s) \/ Create(p, s)
  PROVE  TypeOK'
<1>1. CASE Remove(p, s)
  BY <1>1 DEF Remove, TypeOK, world
<1>2. CASE Create(p, s)
  <2>1. Image(pc[p]) \in {"current", "candidate"}
    BY DEF Image
  <2>2. safe' \in BOOLEAN
    BY <1>2 DEF Create, TypeOK
  <2>3. image' \in [Services -> {"current", "candidate", "absent"}]
    BY <1>2, <2>1 DEF Create, TypeOK
  <2> QED
    BY <1>2, <2>2, <2>3 DEF Create, TypeOK, world
<1> QED
  BY <1>1, <1>2

\* A program that raises goes to its rollback or ends.
LEMMA RaisesType ==
  ASSUME TypeOK, NEW p \in Invocations, NEW end \in {"blocked", "failed"},
         Raises(p, end)
  PROVE  TypeOK'
  BY DEF Raises, Goto, TypeOK, stack, world, Labels, InRollback, Ended

LEMMA NextType == TypeOK /\ [Next]_vars => TypeOK'
<1> SUFFICES ASSUME TypeOK, [Next]_vars PROVE TypeOK'
  OBVIOUS
<1>1. ASSUME NEW p \in Invocations, Invoke(p) PROVE TypeOK'
  BY <1>1 DEF Invoke, Goto, TypeOK, stack, world, Labels, InRollback
<1>2. ASSUME NEW p \in Invocations, Step(p) PROVE TypeOK'
  <2>1. CASE UpDone(p)
    BY <2>1 DEF UpDone, Goto, TypeOK, stack, world, Labels, InTry, InRollback
  <2> QED
    BY <1>2, <2>1, CheckType, UpType, RaisesType DEF Step, Refuse
<1>3. ASSUME NEW p \in Invocations, Fault(p) PROVE TypeOK'
  BY <1>3, RaisesType DEF Fault
<1>4. ASSUME NEW p \in Invocations, Kill(p) PROVE TypeOK'
  BY <1>4 DEF Kill, Goto, TypeOK, stack, world, Labels, Ended
<1>5. ASSUME NEW s \in Services, Settle(s) PROVE TypeOK'
  BY <1>5 DEF Settle, TypeOK, world
<1>6. CASE Approve \/ Expire \/ Mail \/ Edit
  BY <1>6 DEF Approve, Expire, Mail, Edit, TypeOK, stack
<1>7. CASE UNCHANGED vars
  BY <1>7 DEF vars, TypeOK, stack, world
<1> QED
  BY <1>1, <1>2, <1>3, <1>4, <1>5, <1>6, <1>7 DEF Next, AllEnded

\* Every variable holds a value of its kind, whatever the world does.
THEOREM KlyrowTypes == Spec => []TypeOK
  BY InitType, NextType, PTL DEF Spec

(***************************************************************************)
(* No container is touched without an approval.                            *)
(***************************************************************************)

\* Only a check of the marker leads to the steps behind it.
LEMMA FollowsApproved ==
  ASSUME TypeOK, NEW p \in Invocations, pc[p] \in Checks, Passes(pc[p]),
         marker = "absent", ~Approved(p)
  PROVE  Follows(p) \in {"core", "marker", "rb_core", "rb_marker"}
<1>1. pc[p] \in {"clean", "core", "marker", "rb_clean", "rb_core", "rb_marker"}
  BY DEF Checks, Labels, Approved, InTry, InRollback, Ended
<1>2. pc[p] \notin {"marker", "rb_marker"}
  BY DEF Passes, MarkerOk
<1> QED
  BY <1>1, <1>2 DEF Follows

LEMMA NextUntouched ==
  TypeOK /\ UnapprovedUntouched /\ [Next]_vars => UnapprovedUntouched'
<1> SUFFICES ASSUME TypeOK, UnapprovedUntouched, [Next]_vars, marker' = "absent"
             PROVE  Runs("current")' /\ \A p \in Invocations : ~Approved(p)'
  BY DEF UnapprovedUntouched
<1>1. ASSUME marker = "absent", image' = image, NEW p \in Invocations,
             pc' = [pc EXCEPT ![p] = pc'[p]],
             pc'[p] \in {"clean", "core", "marker", "rb_clean", "rb_core",
                         "rb_marker", "blocked", "failed", "killed"}
      PROVE  Runs("current")' /\ \A q \in Invocations : ~Approved(q)'
  BY <1>1 DEF UnapprovedUntouched, TypeOK, Runs, Approved, InTry, InRollback
<1>2. ASSUME NEW p \in Invocations, ~Approved(p)
      PROVE  pc[p] \notin InTry \cup {"rb_up"}
  BY <1>2 DEF Approved, InTry, InRollback
<1>3. ASSUME NEW p \in Invocations, Invoke(p)
      PROVE  Runs("current")' /\ \A q \in Invocations : ~Approved(q)'
  BY <1>1, <1>3 DEF Invoke, Goto, TypeOK, stack, world
<1>4. ASSUME NEW p \in Invocations, Step(p) \/ Fault(p)
      PROVE  Runs("current")' /\ \A q \in Invocations : ~Approved(q)'
  <2>1. marker = "absent" /\ ~Approved(p) /\ pc[p] \notin InTry \cup {"rb_up"}
    BY <1>2, <1>4 DEF Step, Fault, Check, UpDone, Refuse, Raises, Remove, Create,
                      world, UnapprovedUntouched
  <2>2. CASE Check(p)
    BY <1>1, <2>1, <2>2, FollowsApproved DEF Check, Goto, TypeOK, stack
  <2>3. CASE Raises(p, "blocked") \/ Raises(p, "failed")
    BY <1>1, <2>1, <2>3 DEF Raises, Goto, TypeOK, stack
  <2> QED
    BY <1>4, <2>1, <2>2, <2>3
      DEF Step, Fault, UpDone, Refuse, Remove, Create, InTry
<1>5. ASSUME NEW p \in Invocations, Kill(p)
      PROVE  Runs("current")' /\ \A q \in Invocations : ~Approved(q)'
  BY <1>1, <1>5 DEF Kill, Goto, TypeOK, stack, world
<1>6. CASE \/ Approve \/ Expire \/ Mail \/ Edit \/ UNCHANGED vars
           \/ \E s \in Services : Settle(s)
  BY <1>6 DEF Approve, Expire, Mail, Edit, Settle, vars, stack, world,
              UnapprovedUntouched, Runs, Approved
<1> QED
  BY <1>3, <1>4, <1>5, <1>6 DEF Next, AllEnded

\* Until an approval is written no container is touched, for any number of
\* overlapping invocations.
THEOREM Untouched == Spec => []UnapprovedUntouched
<1>1. Init => UnapprovedUntouched
  BY DEF Init, UnapprovedUntouched, Runs, Approved, InTry, InRollback
<1> QED
  BY <1>1, NextUntouched, KlyrowTypes, PTL DEF Spec

(***************************************************************************)
(* A PASS is true, one invocation at a time.                               *)
(***************************************************************************)

Alone == AtOnce = 1

\* What an invocation has established where it is.
Placed(p) ==
  /\ pc[p] \in UpLabels => \A s \in Services \ todo[p] : image[s] = Image(pc[p])
  /\ pc[p] \in {"wait", "safe", "retain"} => Runs("candidate")
  /\ pc[p] = "retain" => safe
  /\ pc[p] = "rb_safe" => Runs("current")
  /\ pc[p] \in InTry => op[p] = "deploy"
  /\ pc[p] = "pull" => op[p] = "stage"
  /\ pc[p] \in {"clean", "core", "marker", "dry", "own", "read"} =>
       op[p] # "rollback"

OneActive == \A p, q \in Invocations : Active(p) /\ Active(q) => p = q

PInv == TypeOK /\ OneActive /\ \A p \in Invocations : Placed(p)

\* An invocation that is not active has established nothing.
LEMMA IdlePlaced ==
  ASSUME NEW p \in Invocations, ~Active(p)
  PROVE  Placed(p)
  BY DEF Active, Placed, UpLabels, InTry, Ended

\* A step of one invocation leaves the others what they were.
LEMMA OthersStay ==
  ASSUME PInv, NEW p \in Invocations, Active(p), TypeOK',
         \A q \in Invocations \ {p} : pc'[q] = pc[q], Placed(p)'
  PROVE  PInv'
<1>1. \A q \in Invocations \ {p} : ~Active(q) /\ ~Active(q)'
  BY DEF PInv, OneActive, Active
<1>2. OneActive'
  BY <1>1 DEF OneActive
<1>3. \A q \in Invocations \ {p} : Placed(q)'
  BY <1>1 DEF Active, Placed, UpLabels, InTry, Ended
<1> QED
  BY <1>2, <1>3 DEF PInv

LEMMA CheckPlaced ==
  ASSUME PInv, NEW p \in Invocations, Check(p)
  PROVE  Placed(p)'
<1>1. /\ pc'[p] = Follows(p) /\ image' = image /\ safe' = safe /\ op' = op
      /\ todo'[p] = IF Follows(p) \in UpLabels THEN Stale(Follows(p)) ELSE {}
      /\ Passes(pc[p])
  BY DEF Check, Goto, PInv, TypeOK, stack, UpLabels
<1>2. pc[p] \in {"clean", "core", "marker", "dry", "own", "read", "pull", "wait",
                 "safe", "retain", "rb_clean", "rb_core", "rb_marker", "rb_own",
                 "rb_dry", "rb_safe"}
  BY DEF Check, Checks, PInv, TypeOK, Labels, InTry, InRollback, Ended
<1>3. CASE pc[p] = "read"
  BY <1>1, <1>3 DEF Follows, PInv, Placed, UpLabels, InTry, Stale
<1>4. CASE pc[p] = "safe"
  <2>1. safe
    BY <1>1, <1>4 DEF Passes, VerifySafe
  <2> QED
    BY <1>1, <1>4, <2>1 DEF Follows, PInv, Placed, UpLabels, InTry, Runs
<1>5. CASE pc[p] \notin {"read", "safe"}
  BY <1>1, <1>2, <1>5 DEF Follows, PInv, Placed, UpLabels, InTry, Stale, Runs
<1> QED
  BY <1>3, <1>4, <1>5

LEMMA UpPlaced ==
  ASSUME PInv, NEW p \in Invocations, NEW s \in Services,
         Remove(p, s) \/ Create(p, s)
  PROVE  Placed(p)'
<1>1. pc' = pc /\ op' = op /\ pc[p] \in UpLabels /\ todo[p] \subseteq Services
  BY DEF Remove, Create, PInv, TypeOK, UpLabels
<1>2. \A t \in Services \ todo[p] : image[t] = Image(pc[p])
  BY <1>1 DEF PInv, Placed
<1>3. CASE Remove(p, s)
  BY <1>1, <1>2, <1>3 DEF Remove, PInv, TypeOK, Placed, UpLabels, InTry
<1>4. CASE Create(p, s)
  <2>1. todo'[p] = todo[p] \ {s} /\ image' = [image EXCEPT ![s] = Image(pc[p])]
    BY <1>4 DEF Create, PInv, TypeOK
  <2>2. \A t \in Services \ todo'[p] : image'[t] = Image(pc[p])
    BY <1>2, <2>1 DEF PInv, TypeOK
  <2> QED
    BY <1>1, <2>2 DEF PInv, Placed, UpLabels, InTry
<1> QED
  BY <1>3, <1>4

LEMMA UpDonePlaced ==
  ASSUME PInv, NEW p \in Invocations, UpDone(p)
  PROVE  Placed(p)'
  BY DEF UpDone, Goto, PInv, TypeOK, Placed, UpLabels, InTry, Runs, Image, stack

LEMMA RaisesPlaced ==
  ASSUME PInv, NEW p \in Invocations, NEW end \in {"blocked", "failed"},
         Raises(p, end)
  PROVE  Placed(p)'
  BY DEF Raises, Goto, PInv, TypeOK, Placed, UpLabels, InTry

\* An invocation starts when no other is active.
LEMMA InvokePlaced ==
  ASSUME Alone, PInv, NEW p \in Invocations, Invoke(p)
  PROVE  PInv'
<1>1. TypeOK'
  BY NextType DEF Next, PInv
<1>2. \A q \in Invocations : ~Active(q)
  <2> DEFINE A == {q \in Invocations : Active(q)}
  <2>1. IsFiniteSet(A) /\ Cardinality(A) \in Nat /\ Cardinality(A) < 1
    BY InvocationAssumption, FS_Subset, FS_CardinalityType DEF Invoke, Alone
  <2>2. A = {}
    BY <2>1, FS_EmptySet
  <2> QED
    BY <2>2
<1>3. /\ \A q \in Invocations \ {p} : pc'[q] = pc[q] /\ ~Active(q)'
      /\ \/ op'[p] = "rollback" /\ pc'[p] = "rb_clean"
         \/ op'[p] # "rollback" /\ pc'[p] = "clean"
  BY <1>2 DEF Invoke, Goto, PInv, TypeOK, Active
<1>4. OneActive'
  BY <1>3 DEF OneActive
<1>5. Placed(p)'
  BY <1>3 DEF Placed, UpLabels, InTry
<1>6. \A q \in Invocations \ {p} : Placed(q)'
  BY <1>3 DEF Active, Placed, UpLabels, InTry, Ended
<1> QED
  BY <1>1, <1>4, <1>5, <1>6 DEF PInv

LEMMA NextPlaced == Alone /\ PInv /\ [Next]_vars => PInv'
<1> SUFFICES ASSUME Alone, PInv, [Next]_vars PROVE PInv'
  OBVIOUS
<1>1. TypeOK'
  BY NextType DEF PInv
<1>2. ASSUME NEW p \in Invocations, Step(p) \/ Fault(p) PROVE PInv'
  <2>1. Active(p) /\ \A q \in Invocations \ {p} : pc'[q] = pc[q]
    BY <1>2 DEF Step, Fault, Check, Checks, UpDone, Refuse, Raises, Remove, Create,
                Goto, PInv, TypeOK, Active, Ended
  <2>2. Placed(p)'
    BY <1>2, CheckPlaced, UpPlaced, UpDonePlaced, RaisesPlaced
      DEF Step, Fault, Refuse
  <2> QED
    BY <1>1, <2>1, <2>2, OthersStay
<1>3. ASSUME NEW p \in Invocations, Kill(p) PROVE PInv'
  <2>1. /\ Active(p) /\ pc'[p] = "killed"
        /\ \A q \in Invocations \ {p} : pc'[q] = pc[q]
    BY <1>3 DEF Kill, Goto, PInv, TypeOK
  <2>2. Placed(p)'
    BY <2>1 DEF Placed, UpLabels, InTry
  <2> QED
    BY <1>1, <2>1, <2>2, OthersStay
<1>4. CASE \/ Approve \/ Expire \/ Mail \/ Edit \/ UNCHANGED vars
           \/ \E s \in Services : Settle(s)
  BY <1>1, <1>4 DEF Approve, Expire, Mail, Edit, Settle, vars, stack, world, PInv,
       OneActive, Active, Placed, Runs
<1> QED
  BY <1>2, <1>3, <1>4, InvokePlaced DEF Next, AllEnded

\* The step that prints PASS finds what it claims.
LEMMA PassStep ==
  ASSUME PInv, [Next]_vars, NEW p \in Invocations, pc[p] # "passed",
         pc'[p] = "passed"
  PROVE  /\ op[p] = "deploy" => Runs("candidate") /\ safe
         /\ op[p] = "rollback" => Runs("current") /\ safe
<1>1. Check(p)
  BY DEF Next, AllEnded, Step, Check, UpDone, Refuse, Raises, Remove, Create, Fault,
         Kill, Invoke, Settle, Approve, Expire, Mail, Edit, Goto, vars, PInv, TypeOK
<1>2. Follows(p) = "passed" /\ Passes(pc[p])
  BY <1>1 DEF Check, Goto, PInv, TypeOK
<1>3. pc[p] \in {"clean", "core", "marker", "dry", "own", "read", "pull", "wait",
                 "safe", "retain", "rb_clean", "rb_core", "rb_marker", "rb_own",
                 "rb_dry", "rb_safe"}
  BY <1>1 DEF Check, Checks, PInv, TypeOK, Labels, InTry, InRollback, Ended
<1>4. CASE pc[p] = "read"
  BY <1>2, <1>4 DEF Follows, PInv, Placed
<1>5. CASE pc[p] = "rb_safe"
  <2>1. safe
    BY <1>2, <1>5 DEF Passes, VerifySafe
  <2> QED
    BY <1>2, <1>5, <2>1 DEF Follows, PInv, Placed
<1>6. CASE pc[p] \in {"pull", "retain"}
  BY <1>6 DEF PInv, Placed, InTry
<1> QED
  BY <1>2, <1>3, <1>4, <1>5, <1>6 DEF Follows

\* One invocation at a time, DEPLOY=PASS and ROLLBACK=PASS are true of every
\* service, for any number of services.
THEOREM TruePass == ASSUME Alone PROVE Spec => PassIsTrue
<1>1. Init => PInv
  BY InitType DEF Init, PInv, OneActive, Active, Placed, UpLabels, InTry
<1>2. PInv /\ [Next]_vars => PInv'
  BY NextPlaced
<1>3. PInv /\ [Next]_vars =>
        [\A p \in Invocations : pc[p] # "passed" /\ pc'[p] = "passed" =>
           /\ op[p] = "deploy" => Runs("candidate") /\ safe
           /\ op[p] = "rollback" => Runs("current") /\ safe]_vars
  BY PassStep
<1> QED
  BY <1>1, <1>2, <1>3, PTL DEF Spec, PassIsTrue

(***************************************************************************)
(* A failed deploy ends where it began, one invocation at a time.          *)
(***************************************************************************)

\* What ends a deploy behind its compose up without a PASS.
LEMMA SettleStep ==
  ASSUME PInv, [Next]_vars, NEW p \in Invocations, op[p] = "deploy",
         pc[p] \in InTry \cup InRollback, pc'[p] \in {"blocked", "failed"}
  PROVE  \/ Runs("current")
         \/ pc'[p] = "blocked" /\ pc[p] = "rb_clean" /\ ~CleanWorktree
         \/ pc'[p] = "blocked" /\ pc[p] = "rb_marker" /\ ~MarkerOk
         \/ pc'[p] = "failed" /\ pc[p] # "rb_safe"
<1>1. CASE pc[p] = "rb_safe"
  BY <1>1 DEF PInv, Placed
<1>2. CASE pc[p] # "rb_safe"
  <2>1. Check(p) \/ Refuse(p) \/ Fault(p)
    <3>1. /\ pc[p] \notin {"idle", "passed", "blocked", "failed", "killed"}
          /\ pc'[p] # pc[p]
      BY DEF InTry, InRollback
    <3>2. ~(\E s \in Services : Settle(s))
            /\ ~Approve /\ ~Expire /\ ~Mail /\ ~Edit /\ ~AllEnded /\ pc' # pc
      BY <3>1 DEF Settle, Approve, Expire, Mail, Edit, AllEnded, vars
    <3>3. PICK q \in Invocations : Invoke(q) \/ Step(q) \/ Fault(q) \/ Kill(q)
      BY <3>2 DEF Next, vars
    <3>4. q # p => pc'[p] = pc[p]
      BY <3>3 DEF Invoke, Step, Check, UpDone, Refuse, Remove, Create, Fault, Kill,
                  Raises, Goto, PInv, TypeOK
    <3> QED
      BY <3>1, <3>3, <3>4 DEF Invoke, Step, UpDone, Remove, Create, Kill, Goto, PInv,
                              TypeOK
  <2>2. pc[p] \in {"up", "wait", "safe", "retain", "rb_clean", "rb_core", "rb_marker",
                   "rb_own", "rb_dry", "rb_up"}
    BY <1>2 DEF InTry, InRollback
  <2>3. CASE Check(p)
    <3>1. Follows(p) \in {"blocked", "failed"} /\ pc[p] \in Checks
      BY <2>3 DEF Check, Goto, PInv, TypeOK
    <3>2. pc[p] \in {"wait", "safe", "retain", "rb_clean", "rb_core", "rb_marker",
                     "rb_own", "rb_dry"}
      BY <2>2, <3>1 DEF Checks
    <3> QED
      BY <3>1, <3>2 DEF Follows
  <2>4. CASE Refuse(p)
    <3>1. pc[p] \in Checks /\ ~Passes(pc[p]) /\ pc'[p] = "blocked" /\ pc[p] \notin InTry
      BY <2>4 DEF Refuse, Raises, Goto, PInv, TypeOK, InTry
    <3>2. pc[p] \in {"rb_clean", "rb_core", "rb_marker", "rb_own", "rb_dry"}
      BY <2>2, <3>1 DEF Checks, InTry
    <3>3. Ownership(TRUE)
      BY DEF Ownership
    <3>4. pc[p] \in {"rb_clean", "rb_marker"}
      BY <3>1, <3>2, <3>3 DEF Passes
    <3>5. pc[p] = "rb_clean" => ~CleanWorktree
      BY <3>1 DEF Passes
    <3>6. pc[p] = "rb_marker" => ~MarkerOk
      BY <3>1 DEF Passes
    <3> QED
      BY <3>1, <3>4, <3>5, <3>6
  <2>5. CASE Fault(p)
    BY <1>2, <2>5 DEF Fault, Raises, Goto, PInv, TypeOK, InTry
  <2> QED
    BY <2>1, <2>3, <2>4, <2>5
<1> QED
  BY <1>1, <1>2

\* One invocation at a time, a deploy that fails behind its compose up ends with the
\* known-good release on every service, or its rollback was refused for the worktree
\* or the marker, or a command of the rollback failed.
THEOREM DeploysSettle == ASSUME Alone PROVE Spec => DeploySettles
<1>1. Init => PInv
  BY InitType DEF Init, PInv, OneActive, Active, Placed, UpLabels, InTry
<1>2. PInv /\ [Next]_vars => PInv'
  BY NextPlaced
<1>3. PInv /\ [Next]_vars =>
        [\A p \in Invocations :
           op[p] = "deploy" /\ pc[p] \in InTry \cup InRollback
             /\ pc'[p] \in {"blocked", "failed"}
           => \/ Runs("current")
              \/ pc'[p] = "blocked" /\ pc[p] = "rb_clean" /\ ~CleanWorktree
              \/ pc'[p] = "blocked" /\ pc[p] = "rb_marker" /\ ~MarkerOk
              \/ pc'[p] = "failed" /\ pc[p] # "rb_safe"]_vars
  BY SettleStep
<1> QED
  BY <1>1, <1>2, <1>3, PTL DEF Spec, DeploySettles
==============================================================================
