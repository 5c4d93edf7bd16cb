---------------------------- MODULE HostScripts -----------------------------
(***************************************************************************)
(* The deployment and backup scripts of the hosts, and the workflows that  *)
(* build the Stage 6 host, side by side.  They share nothing: a behaviour  *)
(* is one of one host, and the other variables stand still.                *)
(***************************************************************************)
EXTENDS Naturals, FiniteSets

CONSTANTS
  Cutovers, Attempts, MaxSignals,          \* of GatewayCutover
  Invocations, Polls,                      \* of IntakeDeploy
  Backups, Databases, Archives, MaxTime,   \* of Stage6Backup
  MaxEvents                                \* of Stage6Staging

VARIABLES
  host,
  image, serving, pc, tries, answer, leaving, told, signals,
  secret, caKey, caCert, key, cert, env, volume, running, context, ipc, op, polls,
  now, bpc, listed, copied, sums, name, published,
  cloud, remote, lock, pinned, step, plan, todo, work, events, seen, verdict, moved

gateway == <<image, serving, pc, tries, answer, leaving, told, signals>>
intake == <<secret, caKey, caCert, key, cert, env, volume, running, context, ipc, op,
            polls>>
backup == <<now, bpc, listed, copied, sums, name, published>>
staging == <<cloud, remote, lock, pinned, step, plan, todo, work, events, seen, verdict,
             moved>>
vars == <<host, gateway, intake, backup, staging>>

Gateway == INSTANCE GatewayCutover WITH AtOnce <- 1
Intake == INSTANCE IntakeDeploy WITH pc <- ipc
Backup(atOnce) == INSTANCE Stage6Backup WITH pc <- bpc, AtOnce <- atOnce
Staging == INSTANCE Stage6Staging

ASSUME HostAssumption ==
  /\ Gateway!CutoverAssumption /\ Intake!IntakeAssumption
  /\ Backup(2)!BackupAssumption /\ Staging!StagingAssumption

\* The hosts: of the gateway, of intake observability, of the backup, once with
\* administrators who wait for a backup to end and once with such as do not, and
\* the Stage 6 host that is yet to be built.
Hosts == {"gateway", "intake", "backup", "backups", "stage6"}

Init == /\ host \in Hosts
        /\ Gateway!Init /\ Intake!Init /\ Backup(1)!Init /\ Staging!Init

GatewayNext == host = "gateway" /\ Gateway!Next /\ UNCHANGED <<host, intake, backup, staging>>
IntakeNext == host = "intake" /\ Intake!Next /\ UNCHANGED <<host, gateway, backup, staging>>
BackupNext ==
  /\ \/ host = "backup" /\ Backup(1)!Next
     \/ host = "backups" /\ Backup(2)!Next
  /\ UNCHANGED <<host, gateway, intake, staging>>
StagingNext == host = "stage6" /\ Staging!Next /\ UNCHANGED <<host, gateway, intake, backup>>

Next == GatewayNext \/ IntakeNext \/ BackupNext \/ StagingNext

Spec == Init /\ [][Next]_vars

\* Every variable holds a value of its kind.
TypeOK == /\ host \in Hosts
          /\ Gateway!TypeOK /\ Intake!TypeOK /\ Backup(1)!TypeOK
          /\ Staging!TypeOK

\* What must hold of cutover.sh, see GatewayCutover.
PassWasAnswered == Gateway!PassWasAnswered
RestoredOrTold == Gateway!RestoredOrTold
DriftIsKept == Gateway!DriftIsKept

\* What must hold of deploy_intake_observability_staging.sh, see IntakeDeploy.
RedeployFits == Intake!RedeployFits
DataSurvives == Intake!DataSurvives
IntakePassIsServed == Intake!PassIsServed

\* What must hold of backup_stage6_staging.sh, see Stage6Backup.
PublishedIsWhole == Backup(1)!PublishedIsWhole
PassNamesItsOwn == host = "backup" => Backup(1)!PassNamesItsOwn

\* What must hold of the plans of the Stage 6 host, see ReviewedPlan, and of the
\* inventory of its cloud, see Stage6Inventory.
AppliedAsReviewed == Staging!AppliedAsReviewed
InventoryIsTrue == Staging!InventoryIsTrue
=============================================================================
