---------------------------- MODULE Stage6Backup ----------------------------
(***************************************************************************)
(* scripts/backup_stage6_staging.sh: copy databases, volumes,              *)
(* configuration and inspections of running containers into a partial      *)
(* directory, checksum it, and publish it by a rename to a name made of    *)
(* the source lock and the second.                                         *)
(***************************************************************************)
EXTENDS Naturals, FiniteSets

CONSTANTS
  Backups,     \* runs of the script
  AtOnce,      \* how many of them overlap
  Databases,   \* databases of the three clusters
  Archives,    \* volumes, configuration, inspections
  MaxTime      \* bound: seconds

BackupAssumption == IsFiniteSet(Backups) /\ AtOnce \in Nat /\ MaxTime \in Nat

VARIABLES
  now,         \* the second
  pc,          \* where each run is
  listed,      \* databases psql listed for it
  copied,      \* files in its directory: copies, "MANIFEST", "FAILED"
  sums,        \* files SHA256SUMS lists
  name,        \* the final name it has chosen
  published    \* of each name: the directory there, and those moved into it

vars == <<now, pc, listed, copied, sums, name, published>>

Times == 0 .. MaxTime
Ended == {"passed", "failed", "killed"}
Labels == {"idle", "checks", "list", "copy", "manifest", "sums", "name", "move"}
            \cup Ended
Active(b) == pc[b] \notin Ended \cup {"idle"}
Nowhere == [dir |-> {}, inside |-> {}]

Init ==
  /\ now = 0
  /\ pc = [b \in Backups |-> "idle"]
  /\ listed = [b \in Backups |-> {}]
  /\ copied = [b \in Backups |-> {}]
  /\ sums = [b \in Backups |-> {}]
  /\ name = [b \in Backups |-> 0]
  /\ published = [t \in Times |-> Nowhere]

Goto(b, l, m) == pc[b] = l /\ pc' = [pc EXCEPT ![b] = m]

Begin(b) ==
  /\ Goto(b, "idle", "checks")
  /\ Cardinality({c \in Backups : Active(c)}) < AtOnce
  /\ UNCHANGED <<now, listed, copied, sums, name, published>>

\* Arguments, source lock and running containers; then mktemp.
Checked(b) ==
  /\ Goto(b, "checks", "list")
  /\ UNCHANGED <<now, listed, copied, sums, name, published>>

\* psql runs in a process substitution, whose status nobody sees: a list that
\* is cut off is taken for the list unless nothing is left of it.
List(b) ==
  /\ Goto(b, "list", "copy")
  /\ \E l \in SUBSET Databases \ {{}} : listed' = [listed EXCEPT ![b] = l]
  /\ UNCHANGED <<now, copied, sums, name, published>>

Wanted(b) == listed[b] \cup Archives

\* pg_dump, tar, docker inspect: one after the other.
Copy(b) ==
  /\ pc[b] = "copy"
  /\ \E f \in Wanted(b) \ copied[b] : copied' = [copied EXCEPT ![b] = @ \cup {f}]
  /\ UNCHANGED <<now, pc, listed, sums, name, published>>

\* Mutant: a copy that fails is passed over.
CopiedSome(b) ==
  /\ Goto(b, "copy", "manifest")
  /\ UNCHANGED <<now, listed, copied, sums, name, published>>

CopyDone(b) ==
  /\ Goto(b, "copy", "manifest") /\ Wanted(b) \subseteq copied[b]
  /\ UNCHANGED <<now, listed, copied, sums, name, published>>

WriteManifest(b) ==
  /\ Goto(b, "manifest", "sums")
  /\ copied' = [copied EXCEPT ![b] = @ \cup {"MANIFEST"}]
  /\ UNCHANGED <<now, listed, sums, name, published>>

\* Checksums of every file there is, compared at once.
WriteSums(b) ==
  /\ Goto(b, "sums", "name")
  /\ sums' = [sums EXCEPT ![b] = copied[b]]
  /\ UNCHANGED <<now, listed, copied, name, published>>

\* Mutant: a name that exists is not refused.
ChooseAnyName(b) ==
  /\ Goto(b, "name", "move")
  /\ name' = [name EXCEPT ![b] = now]
  /\ UNCHANGED <<now, listed, copied, sums, published>>

\* [[ ! -e "$final" ]]
ChooseName(b) ==
  /\ Goto(b, "name", "move") /\ published[now].dir = {}
  /\ name' = [name EXCEPT ![b] = now]
  /\ UNCHANGED <<now, listed, copied, sums, published>>

\* mv renames, or moves into a directory that has come into being meanwhile.
Move(b) ==
  /\ Goto(b, "move", "passed")
  /\ published' = IF published[name[b]].dir = {}
                  THEN [published EXCEPT ![name[b]].dir = {b}]
                  ELSE [published EXCEPT ![name[b]].inside = @ \cup {b}]
  /\ UNCHANGED <<now, listed, copied, sums, name>>

\* A command fails, and the ERR trap marks the directory; fail() does not run
\* that trap, and neither is there a directory before mktemp.
Fail(b) ==
  /\ Active(b) /\ pc' = [pc EXCEPT ![b] = "failed"]
  /\ copied' \in {copied} \cup
       (IF pc[b] = "checks" THEN {} ELSE {[copied EXCEPT ![b] = @ \cup {"FAILED"}]})
  /\ UNCHANGED <<now, listed, sums, name, published>>

Kill(b) ==
  /\ Active(b) /\ pc' = [pc EXCEPT ![b] = "killed"]
  /\ UNCHANGED <<now, listed, copied, sums, name, published>>

Tick ==
  /\ now < MaxTime /\ now' = now + 1
  /\ UNCHANGED <<pc, listed, copied, sums, name, published>>

Step(b) ==
  \/ Checked(b) \/ List(b) \/ Copy(b) \/ CopyDone(b) \/ WriteManifest(b)
  \/ WriteSums(b) \/ ChooseName(b) \/ Move(b) \/ Fail(b)

AllEnded == (\A b \in Backups : pc[b] \in Ended) /\ UNCHANGED vars

Next == (\E b \in Backups : Begin(b) \/ Step(b) \/ Kill(b)) \/ Tick \/ AllEnded

Spec == Init /\ [][Next]_vars

\* Every variable holds a value of its kind.
TypeOK ==
  /\ now \in Times /\ name \in [Backups -> Times]
  /\ pc \in [Backups -> Labels]
  /\ listed \in [Backups -> SUBSET Databases]
  /\ {copied, sums} \subseteq
       [Backups -> SUBSET (Databases \cup Archives \cup {"MANIFEST", "FAILED"})]
  /\ published \in [Times -> [dir : SUBSET Backups, inside : SUBSET Backups]]

\* Whatever fails or is killed, and however runs overlap: all that is at a final
\* name are whole backups of runs that passed and chose it, each with every piece,
\* its manifest and checksums of all of it, and no mark of a failure; and no run
\* passes whose backup is not there.  Runs that overlap within a second share the
\* name: the later directory lies in the earlier one, in whose SHA256SUMS it is not.
PublishedIsWhole ==
  /\ \A t \in Times :
       /\ \A b \in published[t].dir \cup published[t].inside :
            /\ pc[b] = "passed" /\ name[b] = t
            /\ copied[b] = Wanted(b) \cup {"MANIFEST"} /\ sums[b] = copied[b]
       /\ \A b, c \in published[t].dir : b = c
       /\ published[t].inside # {} => published[t].dir # {}
  /\ \A b \in Backups : pc[b] = "passed" =>
       b \in published[name[b]].dir \cup published[name[b]].inside

\* STAGE6_BACKUP names a directory that is this run's backup and holds nothing that
\* its SHA256SUMS does not list, also if one follows another within the second; one
\* run at a time, for mv is not atomic with the test.
PassNamesItsOwn == \A b \in Backups : pc[b] = "passed" =>
  published[name[b]].dir = {b} /\ published[name[b]].inside = {}
=============================================================================
