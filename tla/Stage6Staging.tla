--------------------------- MODULE Stage6Staging ---------------------------
(***************************************************************************)
(* The workflows of the Stage 6 host over one cloud: plans are made and    *)
(* applied, administrators interfere, and inventories are collected.       *)
(***************************************************************************)
EXTENDS Naturals, Sequences

CONSTANT MaxEvents

VARIABLES cloud, remote, lock, pinned, step, plan, todo, work, events,
          seen, verdict, moved

Plan == INSTANCE ReviewedPlan
Inventory == INSTANCE Stage6Inventory

plans == <<remote, lock, pinned, step, plan, todo, work>>
vars == <<cloud, plans, events, seen, verdict, moved>>

StagingAssumption == Plan!PlanAssumption

Init == Plan!Init /\ Inventory!Init

Move == /\ Plan!Next
        /\ moved' = IF verdict = "none" \/ cloud' = cloud THEN moved
                    ELSE IF events' # events \/ moved = "by hand" THEN "by hand"
                    ELSE "applied"
        /\ UNCHANGED <<seen, verdict>>

\* An inventory counts as a dispatch.
Collect == /\ Inventory!Next /\ UNCHANGED plans
           /\ events' = IF verdict = "none" THEN events + 1 ELSE events
           /\ events' <= MaxEvents

AllEnded == /\ events = MaxEvents /\ ~lock /\ verdict = "none"
            /\ \A w \in Plan!Workflow : step[w] = "idle"
            /\ UNCHANGED vars

Next == Move \/ Collect \/ AllEnded

Spec == Init /\ [][Next]_vars

TypeOK == Plan!TypeOK /\ Inventory!TypeOK
AppliedAsReviewed == Plan!AppliedAsReviewed
InventoryIsTrue == Inventory!InventoryIsTrue
=============================================================================
