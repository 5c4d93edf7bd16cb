---------------------------- MODULE Stage6Proofs ----------------------------
(***************************************************************************)
(* What holds of the Stage 6 host, for any number of backups, databases,   *)
(* archives, seconds and events: of the backups made on it, of the plans   *)
(* that build it, and of the inventory of its cloud.                       *)
(***************************************************************************)
EXTENDS HostScriptsProofs, Sequences, FiniteSetTheorems, TLAPS

-----------------------------------------------------------------------------
(* Backups.                                                                 *)

\* What a backup has made of itself at its place.
Made(b) ==
  /\ bpc[b] \in {"idle", "checks", "list"} => copied[b] = {}
  /\ bpc[b] \in {"copy", "manifest"} => copied[b] \subseteq Backup(1)!Wanted(b)
  /\ bpc[b] = "manifest" => Backup(1)!Wanted(b) \subseteq copied[b]
  /\ bpc[b] \in {"sums", "name", "move", "passed"} =>
       copied[b] = Backup(1)!Wanted(b) \cup {"MANIFEST"}
  /\ bpc[b] \in {"name", "move", "passed"} => sums[b] = copied[b]

\* At a name are backups that passed and chose it, one of them at the top.
Kept(t) ==
  /\ \A b \in published[t].dir \cup published[t].inside : bpc[b] = "passed" /\ name[b] = t
  /\ \A b, c \in published[t].dir : b = c
  /\ published[t].inside # {} => published[t].dir # {}

\* A backup that passed is at its name.
Landed(b) ==
  bpc[b] = "passed" => b \in published[name[b]].dir \cup published[name[b]].inside

\* However backups overlap, each is as far as it is, and where it says.
BackupInv ==
  /\ Backup(1)!TypeOK
  /\ \A b \in Backups : Made(b) /\ Landed(b)
  /\ \A t \in Backup(1)!Times : Kept(t)

\* One backup at a time: the name it has chosen is free until it has moved there.
NamesInv ==
  /\ \A b, c \in Backups : Backup(1)!Active(b) /\ Backup(1)!Active(c) => b = c
  /\ \A b \in Backups : bpc[b] = "move" => published[name[b]].dir = {}
  /\ \A b \in Backups : bpc[b] = "passed" => published[name[b]].dir = {b}
  /\ \A t \in Backup(1)!Times : published[t].inside = {}

\* A step of backups, however many of them overlap.
BackupBegin(b) ==
  /\ Backup(1)!Goto(b, "idle", "checks")
  /\ UNCHANGED <<now, listed, copied, sums, name, published>>
BackupStep ==
  \/ \E b \in Backups : BackupBegin(b) \/ Backup(1)!Step(b) \/ Backup(1)!Kill(b)
  \/ Backup(1)!Tick

\* A step of the hosts is a step of the backups, or leaves them alone.
LEMMA BackupSteps ==
  ASSUME [Next]_vars
  PROVE  /\ [BackupStep]_backup
         /\ host = "backup" => [Backup(1)!Next]_backup
         /\ host' = host
<1>1. ASSUME Backup(1)!Next PROVE BackupStep \/ UNCHANGED backup
  BY <1>1 DEF Backup!Next, Backup!Begin, Backup!AllEnded, BackupStep, BackupBegin,
    backup, Backup!vars
<1>2. ASSUME Backup(2)!Next PROVE BackupStep \/ UNCHANGED backup
  <2>1. CASE Backup(2)!AllEnded
    BY <2>1 DEF Backup!AllEnded, Backup!vars, backup
  <2>2. CASE Backup(2)!Tick
    BY <2>2 DEF Backup!Tick, BackupStep
  <2>3. CASE \E b \in Backups : Backup(2)!Begin(b) \/ Backup(2)!Step(b) \/ Backup(2)!Kill(b)
    BY <2>3 DEF BackupStep, BackupBegin, Backup!Begin, Backup!Goto, Backup!Step,
      Backup!Kill, Backup!Checked, Backup!List, Backup!Copy, Backup!Wanted,
      Backup!CopyDone, Backup!WriteManifest, Backup!WriteSums, Backup!ChooseName,
      Backup!Move, Backup!Fail, Backup!Active, Backup!Ended
  <2> QED
    BY <1>2, <2>1, <2>2, <2>3 DEF Backup!Next
<1> QED
  BY <1>1, <1>2 DEF Next, GatewayNext, IntakeNext, BackupNext, StagingNext, vars, backup

\* Before the first backup no place and no name is taken.
LEMMA BackupInit == Init => BackupInv /\ NamesInv
<1> SUFFICES ASSUME Backup(1)!Init PROVE BackupInv /\ NamesInv
  BY DEF Init
<1>1. 0 \in Backup(1)!Times
  BY HostAssumption DEF Backup!BackupAssumption, Backup!Times
<1>2. Backup(1)!TypeOK
  BY <1>1 DEF Backup!Init, Backup!TypeOK, Backup!Labels, Backup!Nowhere
<1>3. \A b \in Backups : bpc[b] = "idle" /\ copied[b] = {}
  BY DEF Backup!Init
<1>4. \A t \in Backup(1)!Times : published[t].dir = {} /\ published[t].inside = {}
  BY DEF Backup!Init, Backup!Nowhere
<1>5. BackupInv
  BY <1>2, <1>3, <1>4 DEF BackupInv, Made, Kept, Landed
<1>6. NamesInv
  BY <1>3, <1>4 DEF NamesInv, Backup!Active
<1> QED
  BY <1>5, <1>6

\* The variables of backups stay in their sets.
LEMMA BackupType ==
  ASSUME Backup(1)!TypeOK, [BackupStep]_backup
  PROVE  Backup(1)!TypeOK'
<1> DEFINE Files == SUBSET (Databases \cup Archives \cup {"MANIFEST", "FAILED"})
<1> USE DEF Backup!TypeOK, Backup!Labels, Backup!Ended, Backup!Goto
<1>1. ASSUME NEW b \in Backups,
             \/ BackupBegin(b) \/ Backup(1)!Checked(b) \/ Backup(1)!CopyDone(b)
             \/ Backup(1)!Kill(b)
      PROVE Backup(1)!TypeOK'
  BY <1>1 DEF BackupBegin, Backup!Checked, Backup!CopyDone, Backup!Kill
<1>2. ASSUME NEW b \in Backups, Backup(1)!List(b) PROVE Backup(1)!TypeOK'
  BY <1>2 DEF Backup!List
<1>3. ASSUME NEW b \in Backups, NEW f \in Databases \cup Archives \cup {"MANIFEST", "FAILED"},
             copied' = [copied EXCEPT ![b] = @ \cup {f}]
      PROVE copied' \in [Backups -> Files]
  BY <1>3
<1>4. ASSUME NEW b \in Backups,
             Backup(1)!Copy(b) \/ Backup(1)!WriteManifest(b) \/ Backup(1)!Fail(b)
      PROVE Backup(1)!TypeOK'
  <2>1. copied' \in [Backups -> Files]
    BY <1>3, <1>4 DEF Backup!Copy, Backup!WriteManifest, Backup!Fail, Backup!Wanted
  <2>2. bpc' \in [Backups -> Backup(1)!Labels]
    BY <1>4 DEF Backup!Copy, Backup!WriteManifest, Backup!Fail
  <2> QED
    BY <1>4, <2>1, <2>2 DEF Backup!Copy, Backup!WriteManifest, Backup!Fail
<1>5. ASSUME NEW b \in Backups, Backup(1)!WriteSums(b) PROVE Backup(1)!TypeOK'
  <2>1. copied \in [Backups -> Files] /\ sums' \in [Backups -> Files]
    BY <1>5 DEF Backup!WriteSums
  <2> QED
    BY <1>5, <2>1 DEF Backup!WriteSums
<1>6. ASSUME NEW b \in Backups, Backup(1)!ChooseName(b) PROVE Backup(1)!TypeOK'
  BY <1>6 DEF Backup!ChooseName
<1>7. ASSUME NEW b \in Backups, Backup(1)!Move(b) PROVE Backup(1)!TypeOK'
  <2>1. published' \in [Backup(1)!Times -> [dir : SUBSET Backups, inside : SUBSET Backups]]
    BY <1>7 DEF Backup!Move
  <2> QED
    BY <1>7, <2>1 DEF Backup!Move
<1>8. CASE Backup(1)!Tick
  BY <1>8, HostAssumption DEF Backup!Tick, Backup!Times, Backup!BackupAssumption
<1>9. CASE UNCHANGED backup
  BY <1>9 DEF backup
<1> QED
  BY <1>1, <1>2, <1>4, <1>5, <1>6, <1>7, <1>8, <1>9 DEF BackupStep, Backup!Step

\* A backup's own step makes of it what its next place promises, and the others
\* are as they were.
LEMMA MadeKept ==
  ASSUME BackupInv, [BackupStep]_backup, NEW b \in Backups
  PROVE  Made(b)'
<1> USE DEF BackupInv, Backup!TypeOK, Backup!Goto, Made, Backup!Wanted
<1>1. ASSUME NEW c \in Backups, BackupBegin(c) \/ Backup(1)!Checked(c) \/ Backup(1)!List(c)
      PROVE Made(b)'
  BY <1>1 DEF BackupBegin, Backup!Checked, Backup!List
<1>2. ASSUME NEW c \in Backups, Backup(1)!Copy(c) PROVE Made(b)'
  BY <1>2 DEF Backup!Copy
<1>3. ASSUME NEW c \in Backups, Backup(1)!CopyDone(c) PROVE Made(b)'
  BY <1>3 DEF Backup!CopyDone
<1>4. ASSUME NEW c \in Backups, Backup(1)!WriteManifest(c) PROVE Made(b)'
  BY <1>4 DEF Backup!WriteManifest
<1>5. ASSUME NEW c \in Backups, Backup(1)!WriteSums(c) PROVE Made(b)'
  BY <1>5 DEF Backup!WriteSums
<1>6. ASSUME NEW c \in Backups, Backup(1)!ChooseName(c) \/ Backup(1)!Move(c) PROVE Made(b)'
  BY <1>6 DEF Backup!ChooseName, Backup!Move
<1>7. ASSUME NEW c \in Backups, Backup(1)!Fail(c) \/ Backup(1)!Kill(c) PROVE Made(b)'
  BY <1>7 DEF Backup!Fail, Backup!Kill
<1>8. CASE Backup(1)!Tick \/ UNCHANGED backup
  BY <1>8 DEF Backup!Tick, backup
<1> QED
  BY <1>1, <1>2, <1>3, <1>4, <1>5, <1>6, <1>7, <1>8 DEF BackupStep, Backup!Step

\* A move puts the backup at its name, or into what is there.
LEMMA MoveKeeps ==
  ASSUME BackupInv, NEW c \in Backups, Backup(1)!Move(c)
  PROVE  /\ \A b \in Backups : Landed(b)'
         /\ \A t \in Backup(1)!Times : Kept(t)'
<1> USE DEF BackupInv, Backup!TypeOK, Backup!Goto
<1>0. PICK n \in Backup(1)!Times : n = name[c]
  OBVIOUS
<1>1. /\ name' = name /\ bpc' = [bpc EXCEPT ![c] = "passed"] /\ bpc[c] = "move"
      /\ \A t \in Backup(1)!Times \ {n} : published'[t] = published[t]
  BY <1>0 DEF Backup!Move
<1>2. published[n].dir = {} =>
        published'[n].dir = {c} /\ published'[n].inside = published[n].inside
  BY <1>0 DEF Backup!Move
<1>3. published[n].dir # {} =>
        published'[n].dir = published[n].dir
        /\ published'[n].inside = published[n].inside \cup {c}
  BY <1>0 DEF Backup!Move
<1>4. \A b \in Backups : bpc'[b] = "passed" => b = c \/ bpc[b] = "passed"
  BY <1>1
<1>5. \A b \in Backups : bpc[b] = "passed" => bpc'[b] = "passed"
  BY <1>1
<1>6. Kept(n)'
  <2>1. Kept(n)
    BY <1>1
  <2>2. c \in Backups /\ bpc'[c] = "passed" /\ name'[c] = n
    BY <1>0, <1>1
  <2> QED
    BY <1>1, <1>2, <1>3, <1>5, <2>1, <2>2 DEF Kept
<1>7. ASSUME NEW t \in Backup(1)!Times, t # n PROVE Kept(t)'
  <2>1. Kept(t) /\ published'[t] = published[t]
    BY <1>1, <1>7
  <2> QED
    BY <1>1, <1>5, <2>1 DEF Kept
<1>8. ASSUME NEW b \in Backups PROVE Landed(b)'
  <2>1. CASE b = c
    BY <1>0, <1>1, <1>2, <1>3, <2>1 DEF Landed
  <2>2. CASE b # c
    <3>1. Landed(b) /\ name'[b] = name[b] /\ (bpc'[b] = "passed" => bpc[b] = "passed")
      BY <1>1, <1>4, <2>2
    <3>2. CASE name[b] = n
      BY <1>2, <1>3, <3>1, <3>2 DEF Landed
    <3>3. CASE name[b] # n
      <4>1. published'[name[b]] = published[name[b]]
        BY <1>1, <3>3
      <4> QED
        BY <3>1, <4>1 DEF Landed
    <3> QED
      BY <3>2, <3>3
  <2> QED
    BY <2>1, <2>2
<1> QED
  BY <1>6, <1>7, <1>8

\* Every step of the backups keeps BackupInv.
LEMMA BackupPreserved ==
  ASSUME BackupInv, [BackupStep]_backup
  PROVE  BackupInv'
<1> DEFINE Names == /\ \A b \in Backups : Landed(b)
                    /\ \A t \in Backup(1)!Times : Kept(t)
           Stays == /\ UNCHANGED published
                    /\ \A b \in Backups : bpc'[b] = "passed" <=> bpc[b] = "passed"
                    /\ \A b \in Backups : bpc[b] = "passed" => name'[b] = name[b]
<1>1. Backup(1)!TypeOK' /\ \A b \in Backups : Made(b)'
  BY BackupType, MadeKept DEF BackupInv
<1> USE DEF BackupInv, Backup!TypeOK, Backup!Goto
<1>2. ASSUME Stays PROVE Names'
  <2>1. ASSUME NEW b \in Backups PROVE Landed(b)'
    BY <1>2, <2>1 DEF Landed
  <2>2. ASSUME NEW t \in Backup(1)!Times PROVE Kept(t)'
    BY <1>2, <2>2 DEF Kept
  <2> QED
    BY <2>1, <2>2
<1>3. ASSUME NEW c \in Backups, Backup(1)!Move(c) PROVE Names'
  BY <1>3, MoveKeeps
<1>4. ASSUME NEW c \in Backups,
             BackupBegin(c) \/ Backup(1)!Kill(c) \/ (Backup(1)!Step(c) /\ ~Backup(1)!Move(c))
      PROVE Names'
  <2>1. Stays
    BY <1>4 DEF BackupBegin, Backup!Kill, Backup!Step, Backup!Checked, Backup!List,
      Backup!Copy, Backup!CopyDone, Backup!WriteManifest, Backup!WriteSums,
      Backup!ChooseName, Backup!Fail, Backup!Active, Backup!Ended
  <2> QED
    BY <2>1, <1>2
<1>5. ASSUME Backup(1)!Tick \/ UNCHANGED backup PROVE Names'
  <2>1. Stays
    BY <1>5 DEF Backup!Tick, backup
  <2> QED
    BY <2>1, <1>2
<1>6. Names'
  BY <1>3, <1>4, <1>5 DEF BackupStep
<1> QED
  BY <1>1, <1>6

\* However many backups overlap, BackupInv holds of them.
LEMMA BackupHolds == Spec => []BackupInv
  BY BackupInit, BackupSteps, BackupPreserved, PTL DEF Spec

\* What is at a final name are whole backups of runs that passed, and no run passes
\* whose backup is not there, however many overlap.
THEOREM BackupsAreWhole == Spec => []PublishedIsWhole
<1>1. BackupInv => PublishedIsWhole
  <2> SUFFICES ASSUME BackupInv PROVE Backup(1)!PublishedIsWhole
    BY DEF PublishedIsWhole
  <2>1. ASSUME NEW t \in Backup(1)!Times,
               NEW b \in published[t].dir \cup published[t].inside
        PROVE  /\ bpc[b] = "passed" /\ name[b] = t
               /\ copied[b] = Backup(1)!Wanted(b) \cup {"MANIFEST"} /\ sums[b] = copied[b]
    <3>1. Kept(t) /\ b \in Backups
      BY DEF BackupInv, Backup!TypeOK
    <3>2. bpc[b] = "passed" /\ name[b] = t /\ Made(b)
      BY <3>1 DEF Kept, BackupInv
    <3> QED
      BY <3>2 DEF Made
  <2>2. ASSUME NEW t \in Backup(1)!Times
        PROVE  /\ \A b, c \in published[t].dir : b = c
               /\ published[t].inside # {} => published[t].dir # {}
    BY DEF BackupInv, Kept
  <2>3. \A b \in Backups : Landed(b)
    BY DEF BackupInv
  <2> QED
    BY <2>1, <2>2, <2>3 DEF Backup!PublishedIsWhole, Landed
<1> QED
  BY <1>1, BackupHolds, PTL

\* The modules of the hosts mean the same by the size of a set.
LEMMA BackupSizes ==
  /\ \A S : Backup(2)!IsFiniteSet(S) <=> IsFiniteSet(S)
  /\ \A S : Backup(1)!Cardinality(S) = Cardinality(S)
<1>1. \A S : Backup(2)!IsFiniteSet(S) <=> IsFiniteSet(S)
  BY DEF Backup!IsFiniteSet, IsFiniteSet
<1>2. \A S : Backup(1)!Cardinality(S) = Cardinality(S)
  BY DEF Backup!Cardinality, Cardinality
<1> QED
  BY <1>1, <1>2

\* Who begins, where administrators wait, is alone.
LEMMA BackupAlone ==
  ASSUME NEW b \in Backups, Backup(1)!Begin(b)
  PROVE  \A c \in Backups : ~Backup(1)!Active(c)
<1> DEFINE A == {c \in Backups : Backup(1)!Active(c)}
<1>1. IsFiniteSet(A) /\ Cardinality(A) \in Nat /\ Cardinality(A) < 1
  BY HostAssumption, BackupSizes, FS_Subset, FS_CardinalityType
  DEF Backup!Begin, Backup!BackupAssumption
<1>2. A = {}
  BY <1>1, FS_EmptySet
<1> QED
  BY <1>2

\* Where a backup waits for the one before it, every step keeps NamesInv.
LEMMA NamesPreserved ==
  ASSUME BackupInv, NamesInv, [Backup(1)!Next]_backup
  PROVE  NamesInv'
<1> USE DEF BackupInv, Backup!TypeOK, Backup!Goto, Backup!Active, Backup!Ended
<1>1. ASSUME NEW b \in Backups, Backup(1)!Begin(b) PROVE NamesInv'
  <2>1. \A c \in Backups : ~Backup(1)!Active(c)
    BY <1>1, BackupAlone
  <2> QED
    BY <1>1, <2>1 DEF Backup!Begin, NamesInv
<1>2. ASSUME NEW b \in Backups, Backup(1)!Step(b) \/ Backup(1)!Kill(b) PROVE NamesInv'
  <2> USE DEF Backup!Step, Backup!Kill, Backup!Checked, Backup!List, Backup!Copy,
      Backup!CopyDone, Backup!WriteManifest, Backup!WriteSums, Backup!ChooseName,
      Backup!Move, Backup!Fail
  <2>1. Backup(1)!Active(b) /\ \A c \in Backups \ {b} : bpc'[c] = bpc[c] /\ name'[c] = name[c]
    BY <1>2
  <2>2. \A c \in Backups \ {b} : ~Backup(1)!Active(c)
    BY <2>1 DEF NamesInv
  <2>3. CASE Backup(1)!Move(b)
    <3>1. published[name[b]].dir = {} /\ name' = name /\ bpc'[b] = "passed"
      BY <2>3 DEF NamesInv
    <3>2. \A t \in Backup(1)!Times :
            /\ published'[t].dir = IF t = name[b] THEN {b} ELSE published[t].dir
            /\ published'[t].inside = published[t].inside
      BY <2>3, <3>1
    <3>3. \A c \in Backups \ {b} : ~Backup(1)!Active(c)' /\ bpc'[c] # "move"
      BY <2>1, <2>2
    <3>4. ASSUME NEW c \in Backups, bpc'[c] = "passed" PROVE published'[name'[c]].dir = {c}
      <4>1. CASE c = b
        BY <3>1, <3>2, <4>1
      <4>2. CASE c # b
        BY <2>1, <3>1, <3>2, <3>4, <4>2 DEF NamesInv
      <4> QED
        BY <4>1, <4>2
    <3> QED
      BY <3>1, <3>2, <3>3, <3>4 DEF NamesInv
  <2>4. CASE ~Backup(1)!Move(b)
    <3>1. published' = published /\ bpc'[b] # "passed"
      BY <1>2, <2>4
    <3>2. bpc'[b] = "move" => published[name'[b]].dir = {}
      BY <1>2, <2>4
    <3> QED
      BY <2>1, <2>2, <3>1, <3>2 DEF NamesInv
  <2> QED
    BY <2>3, <2>4
<1>3. CASE Backup(1)!Tick \/ Backup(1)!AllEnded \/ UNCHANGED backup
  BY <1>3 DEF Backup!Tick, Backup!AllEnded, Backup!vars, backup, NamesInv
<1> QED
  BY <1>1, <1>2, <1>3 DEF Backup!Next

\* STAGE6_BACKUP names this run's own directory, with nothing else in it, where
\* administrators wait.
THEOREM BackupsAreNamed == Spec => []PassNamesItsOwn
<1> DEFINE I == host = "backup" => NamesInv
<1>1. Init => I
  BY BackupInit
<1>2. BackupInv /\ I /\ [Next]_vars => I'
  BY BackupSteps, NamesPreserved
<1>3. BackupInv /\ I => PassNamesItsOwn
  BY DEF NamesInv, BackupInv, Backup!TypeOK, PassNamesItsOwn, Backup!PassNamesItsOwn
<1> QED
  BY <1>1, <1>2, <1>3, BackupHolds, PTL DEF Spec

-----------------------------------------------------------------------------
(* The cloud.                                                               *)

Fit == {"right", "drifted", "worn"}
CloudSet == [id : [Staging!Plan!Address -> Nat], fit : [Staging!Plan!Address -> Fit],
             made : Nat, under : Nat, key : BOOLEAN]
CloudOK(c) == c \in CloudSet /\ Staging!Plan!IsCloud(c)

\* What an apply may make of a cloud: all that is there stays what it is, or is mended.
Grows(c, d) ==
  /\ \A a \in Staging!Plan!Address : c.id[a] # 0 =>
       d.id[a] = c.id[a] /\ d.fit[a] \in {c.fit[a], "right"}
  /\ c.under # 0 => d.under = c.under
  /\ d.key = c.key

\* The record of a cloud in which something has been built.
LEMMA BuiltRecord ==
  ASSUME NEW c, CloudOK(c), NEW a \in Staging!Plan!Address
  PROVE  Staging!Plan!Built(c, a) =
    [id |-> [c.id EXCEPT ![a] = IF a = "attachment" THEN c.id["network"] ELSE c.made + 1],
     fit |-> [c.fit EXCEPT ![a] = "right"],
     made |-> IF a = "attachment" THEN c.made ELSE c.made + 1,
     under |-> IF a = "server" THEN c.made + 1 ELSE c.under,
     key |-> c.key]
<1>1. CASE a = "attachment"
  BY <1>1 DEF CloudOK, CloudSet, Staging!Plan!Built
<1>2. CASE a # "attachment"
  BY <1>2 DEF CloudOK, CloudSet, Staging!Plan!Built
<1> QED
  BY <1>1, <1>2

\* What is built stands on what is there.
LEMMA BuiltIsCloud ==
  ASSUME NEW c, CloudOK(c), NEW a \in Staging!Plan!Address, Staging!Plan!CanBuild(c, a)
  PROVE  CloudOK(Staging!Plan!Built(c, a)) /\ Grows(c, Staging!Plan!Built(c, a))
<1> DEFINE i == IF a = "attachment" THEN c.id["network"] ELSE c.made + 1
           m == IF a = "attachment" THEN c.made ELSE c.made + 1
           u == IF a = "server" THEN c.made + 1 ELSE c.under
           d == [id |-> [c.id EXCEPT ![a] = i], fit |-> [c.fit EXCEPT ![a] = "right"],
                 made |-> m, under |-> u, key |-> c.key]
<1>1. c.made \in Nat /\ c.made + 1 \in Nat /\ c.key \in BOOLEAN
  BY DEF CloudOK, CloudSet
<1>2. i \in Nat /\ m \in Nat /\ u \in Nat
  BY <1>1 DEF CloudOK, CloudSet, Staging!Plan!Address
<1>3. d \in CloudSet
  <2>1. [c.id EXCEPT ![a] = i] \in [Staging!Plan!Address -> Nat]
    BY <1>2 DEF CloudOK, CloudSet
  <2>2. [c.fit EXCEPT ![a] = "right"] \in [Staging!Plan!Address -> Fit]
    BY DEF CloudOK, CloudSet, Fit
  <2> QED
    BY <1>1, <1>2, <2>1, <2>2 DEF CloudSet
<1>4. Staging!Plan!IsCloud(d)
  BY <1>1 DEF CloudOK, CloudSet, Staging!Plan!IsCloud, Staging!Plan!Address,
    Staging!Plan!Exists, Staging!Plan!CanBuild, Staging!Plan!Needs, Staging!Plan!Fits
<1>5. Grows(c, d)
  BY <1>1 DEF CloudOK, CloudSet, Grows, Staging!Plan!IsCloud, Staging!Plan!Address,
    Staging!Plan!Exists, Staging!Plan!CanBuild
<1>6. Staging!Plan!Built(c, a) = d
  BY BuiltRecord
<1> QED
  BY <1>3, <1>4, <1>5, <1>6 DEF CloudOK

\* What is mended is what it was.
LEMMA MendedIsCloud ==
  ASSUME NEW c, CloudOK(c), NEW a \in Staging!Plan!Address
  PROVE  CloudOK(Staging!Plan!Mended(c, a)) /\ Grows(c, Staging!Plan!Mended(c, a))
<1> DEFINE u == IF a = "server" THEN c.id[a] ELSE c.under
           d == [id |-> c.id, fit |-> [c.fit EXCEPT ![a] = "right"],
                 made |-> c.made, under |-> u, key |-> c.key]
<1>1. Staging!Plan!Mended(c, a) = d
  <2>1. Staging!Plan!Mended(c, a) = [c EXCEPT !.fit[a] = "right", !.under = u]
    BY Zenon DEF Staging!Plan!Mended
  <2> QED
    BY <2>1 DEF CloudOK, CloudSet
<1>2. d \in CloudSet
  BY DEF CloudOK, CloudSet, Fit
<1>3. Staging!Plan!IsCloud(d)
  BY DEF CloudOK, CloudSet, Staging!Plan!IsCloud, Staging!Plan!Address,
    Staging!Plan!Exists, Staging!Plan!Fits
<1>4. Grows(c, d)
  BY DEF CloudOK, CloudSet, Grows, Staging!Plan!IsCloud, Staging!Plan!Address
<1> QED
  BY <1>1, <1>2, <1>3, <1>4 DEF CloudOK

\* A server or a network that is removed leaves no attachment.
LEMMA RemovedIsCloud ==
  ASSUME NEW c, CloudOK(c), NEW a \in Staging!Plan!Address
  PROVE  CloudOK(Staging!Plan!Removed(c, a))
<1> DEFINE gone == {a} \cup {b \in {"attachment"} : a \in {"server", "network"}}
           u == IF a = "server" THEN 0 ELSE c.under
           d == [id |-> [b \in Staging!Plan!Address |-> IF b \in gone THEN 0 ELSE c.id[b]],
                 fit |-> [b \in Staging!Plan!Address |->
                            IF b \in gone THEN "right" ELSE c.fit[b]],
                 made |-> c.made, under |-> u, key |-> c.key]
<1>1. Staging!Plan!Removed(c, a) = d
  <2>1. Staging!Plan!Removed(c, a) =
          [c EXCEPT !.id = [b \in Staging!Plan!Address |-> IF b \in gone THEN 0 ELSE c.id[b]],
                    !.fit = [b \in Staging!Plan!Address |->
                               IF b \in gone THEN "right" ELSE c.fit[b]],
                    !.under = u]
    BY Zenon DEF Staging!Plan!Removed
  <2> QED
    BY <2>1 DEF CloudOK, CloudSet
<1>2. d \in CloudSet
  BY DEF CloudOK, CloudSet, Fit
<1>3. Staging!Plan!IsCloud(d)
  <2> USE DEF CloudOK, CloudSet, Staging!Plan!IsCloud, Staging!Plan!Address,
    Staging!Plan!Exists, Staging!Plan!Fits
  <2>1. \A b \in Staging!Plan!Address : d.id[b] \in 0 .. d.made
    OBVIOUS
  <2>2. \A b \in Staging!Plan!Address : d.fit[b] \in Staging!Plan!Fits(b)
    OBVIOUS
  <2>3. d.under \in {0, d.id["server"]}
    OBVIOUS
  <2>4. d.id["attachment"] # 0 => d.id["server"] # 0 /\ d.id["attachment"] = d.id["network"]
    OBVIOUS
  <2> QED
    BY <2>1, <2>2, <2>3, <2>4
<1> QED
  BY <1>1, <1>2, <1>3 DEF CloudOK

\* An administrator leaves a cloud as well.
LEMMA ByHandIsCloud ==
  ASSUME NEW c, CloudOK(c), NEW d \in Staging!Plan!ByHand(c)
  PROVE  CloudOK(d)
<1>1. \/ \E a \in Staging!Plan!Address : Staging!Plan!CanBuild(c, a) /\ d = Staging!Plan!Built(c, a)
      \/ \E a \in Staging!Plan!Address : d = Staging!Plan!Removed(c, a)
      \/ \E a \in Staging!Plan!Address : \E f \in Staging!Plan!Fits(a) :
           Staging!Plan!Exists(c, a) /\ d = [c EXCEPT !.fit[a] = f]
      \/ d = [c EXCEPT !.under = 0]
      \/ d = [c EXCEPT !.key = ~@]
  <2> DEFINE A == {Staging!Plan!Built(c, a) :
                     a \in {b \in Staging!Plan!Address : Staging!Plan!CanBuild(c, b)}}
             B == {Staging!Plan!Removed(c, a) :
                     a \in {b \in Staging!Plan!Address : Staging!Plan!CanRemove(c, b)}}
             C == UNION {{[c EXCEPT !.fit[a] = f] : f \in Staging!Plan!Fits(a) \ {c.fit[a]}} :
                     a \in {b \in Staging!Plan!Address : Staging!Plan!Exists(c, b)}}
             D == {[c EXCEPT !.under = 0], [c EXCEPT !.key = ~@]}
  <2>1. d \in A \/ d \in B \/ d \in C \/ d \in D
    BY Zenon DEF Staging!Plan!ByHand
  <2>2. d \in A => \E a \in Staging!Plan!Address :
                     Staging!Plan!CanBuild(c, a) /\ d = Staging!Plan!Built(c, a)
    OBVIOUS
  <2>3. d \in B => \E a \in Staging!Plan!Address : d = Staging!Plan!Removed(c, a)
    OBVIOUS
  <2>4. d \in C => \E a \in Staging!Plan!Address : \E f \in Staging!Plan!Fits(a) :
                     Staging!Plan!Exists(c, a) /\ d = [c EXCEPT !.fit[a] = f]
    BY Zenon
  <2>5. d \in D => d = [c EXCEPT !.under = 0] \/ d = [c EXCEPT !.key = ~@]
    BY Zenon
  <2> QED
    BY <2>1, <2>2, <2>3, <2>4, <2>5, Zenon
<1>2. ASSUME NEW a \in Staging!Plan!Address, NEW f \in Staging!Plan!Fits(a),
             d = [c EXCEPT !.fit[a] = f]
      PROVE CloudOK(d)
  <2>1. f \in Fit
    BY DEF Staging!Plan!Fits, Fit
  <2> QED
    BY <1>2, <2>1 DEF CloudOK, CloudSet, Staging!Plan!IsCloud, Staging!Plan!Exists
<1>3. CASE d = [c EXCEPT !.under = 0]
  BY <1>3 DEF CloudOK, CloudSet, Staging!Plan!IsCloud, Staging!Plan!Exists
<1>4. CASE d = [c EXCEPT !.key = ~@]
  <2>1. (~ c.key) \in BOOLEAN
    OBVIOUS
  <2> QED
    BY <1>4, <2>1 DEF CloudOK, CloudSet, Staging!Plan!IsCloud, Staging!Plan!Exists
<1> QED
  BY <1>1, <1>2, <1>3, <1>4, BuiltIsCloud, RemovedIsCloud

-----------------------------------------------------------------------------
(* Plans, and what is applied of them.                                      *)

Changes == {"none", "create", "replace", "update", "no-op"}
PlanSet == [lineage : Nat, serial : Nat, has : SUBSET Staging!Plan!Address,
            change : [Staging!Plan!Address -> Changes]]

\* What a checked plan is of.
Admitted(w) ==
  \A a \in Staging!Plan!Address :
    /\ plan[w].change[a] \in {"create", "update", "no-op"}
    /\ w = "reviewed" => plan[w].change[a] = "create"

RemoteOK ==
  /\ remote = [lineage |-> remote.lineage, serial |-> remote.serial,
               has |-> remote.has, used |-> remote.used]
  /\ remote.lineage \in Nat /\ remote.serial \in Nat /\ remote.used \in Nat
  /\ remote.lineage <= remote.used
  /\ remote.lineage = 0 => remote.serial = 0 /\ remote.has = {}
  /\ \A e \in remote.has \cup work : e[1] \in Staging!Plan!Address

RunsOK ==
  /\ pinned \in PlanSet /\ plan \in [Staging!Plan!Workflow -> PlanSet]
  /\ step \in [Staging!Plan!Workflow -> {"idle", "waiting", "checked", "applying"}]
  /\ lock \in BOOLEAN
  /\ \A w \in Staging!Plan!Workflow :
       /\ step[w] = "idle" <=> plan[w] = Staging!Plan!NoPlan
       /\ step[w] = "applying" => lock
       /\ step[w] \in {"checked", "applying"} => Admitted(w)

\* One workflow applies at a time, and what is left to do is of its plan.
AppliesOK ==
  /\ \A v, w \in Staging!Plan!Workflow :
       step[v] = "applying" /\ step[w] = "applying" => v = w
  /\ todo \cup work # {} => \E w \in Staging!Plan!Workflow : step[w] = "applying"
  /\ \A w \in Staging!Plan!Workflow : step[w] = "applying" =>
       \A a \in todo : a \in Staging!Plan!Address /\ plan[w].change[a] # "no-op"

PlanInv == /\ CloudOK(cloud) /\ RemoteOK /\ RunsOK /\ AppliesOK
           /\ events \in 0 .. MaxEvents

\* A project without resources is a cloud.
LEMMA EmptyIsCloud == CloudOK(Staging!Plan!Empty)
  BY DEF CloudOK, CloudSet, Fit, Staging!Plan!Empty, Staging!Plan!IsCloud,
    Staging!Plan!Address, Staging!Plan!Exists, Staging!Plan!Fits

\* Where no plan is held, what stands in its place is of the kind of plans.
LEMMA NoPlanIsPlan == Staging!Plan!NoPlan \in PlanSet
  BY DEF Staging!Plan!NoPlan, PlanSet, Changes

\* Before the first dispatch there is no plan and no state.
LEMMA PlanInit == Init => PlanInv
<1> SUFFICES ASSUME Staging!Plan!Init PROVE PlanInv
  BY DEF Init, Staging!Init
<1>1. CloudOK(cloud)
  BY EmptyIsCloud DEF Staging!Plan!Init
<1>2. RemoteOK
  BY DEF Staging!Plan!Init, RemoteOK
<1>3. RunsOK
  BY NoPlanIsPlan DEF Staging!Plan!Init, RunsOK
<1>4. AppliesOK
  BY DEF Staging!Plan!Init, AppliesOK
<1>5. events \in 0 .. MaxEvents
  BY HostAssumption DEF Staging!Plan!Init, Staging!StagingAssumption,
    Staging!Plan!PlanAssumption
<1> QED
  BY <1>1, <1>2, <1>3, <1>4, <1>5 DEF PlanInv

\* A plan says of every address what an apply is to do.
LEMMA PlannedIsPlan ==
  ASSUME PlanInv
  PROVE  /\ Staging!Plan!Planned \in PlanSet
         /\ Staging!Plan!Planned # Staging!Plan!NoPlan
<1> DEFINE C(a) == Staging!Plan!Planned.change[a]
<1>1. \A a \in Staging!Plan!Address : C(a) \in Changes \ {"none"}
  BY DEF Staging!Plan!Planned, Changes
<1>2. Staging!Plan!Planned \in PlanSet
  BY DEF Staging!Plan!Planned, PlanSet, PlanInv, RemoteOK, Changes
<1>3. "server" \in Staging!Plan!Address
  BY DEF Staging!Plan!Address
<1>4. Staging!Plan!NoPlan.change["server"] = "none"
  BY <1>3 DEF Staging!Plan!NoPlan
<1> QED
  BY <1>1, <1>2, <1>3, <1>4

\* What a call of an apply does to the cloud: it builds what is not there, or mends
\* what the workflow of the reviewed plan does not touch.
LEMMA CallEffect ==
  ASSUME PlanInv, NEW w \in Staging!Plan!Workflow, NEW a \in Staging!Plan!Address,
         Staging!Plan!Call(w, a)
  PROVE  \/ cloud' = cloud /\ work' = work
         \/ /\ Staging!Plan!CanBuild(cloud, a) /\ cloud' = Staging!Plan!Built(cloud, a)
            /\ work' = work \cup {Staging!Plan!Entry(cloud', a)}
         \/ /\ w = "provision" /\ cloud' = Staging!Plan!Mended(cloud, a)
            /\ work' = work \cup {Staging!Plan!Entry(cloud', a)}
<1> DEFINE change == plan[w].change[a]
<1>1. step[w] = "applying" /\ a \in todo
  BY DEF Staging!Plan!Call
<1>2. change \in {"create", "update"} /\ (w = "reviewed" => change = "create")
  BY <1>1 DEF PlanInv, RunsOK, AppliesOK, Admitted
<1>3. CASE change = "create"
  <2>1. change # "update" /\ change # "replace"
    BY <1>3
  <2> QED
    BY <1>3, <2>1, Zenon DEF Staging!Plan!Call
<1>4. CASE change = "update"
  <2>1. w = "provision" /\ change # "create"
    BY <1>2, <1>4 DEF Staging!Plan!Workflow
  <2> QED
    BY <1>4, <2>1, Zenon DEF Staging!Plan!Call
<1> QED
  BY <1>2, <1>3, <1>4

\* What an apply writes is a state of what it knew and of what it has changed.
LEMMA WrittenIsState ==
  ASSUME PlanInv
  PROVE  LET r == Staging!Plan!Written IN
         /\ r = [lineage |-> r.lineage, serial |-> r.serial, has |-> r.has, used |-> r.used]
         /\ r.lineage \in Nat /\ r.serial \in Nat /\ r.used \in Nat
         /\ r.lineage <= r.used /\ r.lineage # 0
         /\ r.has \subseteq remote.has \cup work
<1> DEFINE l == IF remote.lineage = 0 THEN remote.used + 1 ELSE remote.lineage
           u == IF remote.lineage = 0 THEN remote.used + 1 ELSE remote.used
           h == {e \in remote.has : \A f \in work : e[1] # f[1]} \cup work
           d == [lineage |-> l, serial |-> remote.serial + 1, has |-> h, used |-> u]
<1>1. Staging!Plan!Written =
        [remote EXCEPT !.serial = remote.serial + 1, !.has = h, !.lineage = l, !.used = u]
  BY Zenon DEF Staging!Plan!Written
<1>2. Staging!Plan!Written = d
  BY <1>1 DEF PlanInv, RemoteOK
<1>3. l \in Nat /\ u \in Nat /\ l <= u /\ l # 0 /\ remote.serial + 1 \in Nat
  BY DEF PlanInv, RemoteOK
<1>4. h \subseteq remote.has \cup work
  OBVIOUS
<1> QED
  BY <1>2, <1>3, <1>4

\* An entry is of the address it is made for.
LEMMA EntryOfAddress ==
  ASSUME NEW c, NEW a
  PROVE  Staging!Plan!Entry(c, a)[1] = a
  BY DEF Staging!Plan!Entry

\* A plan that a workflow accepts is admitted.
LEMMA AcceptedIsAdmitted ==
  ASSUME PlanInv, NEW w \in Staging!Plan!Workflow, Staging!Plan!Accepts(w, plan[w])
  PROVE  Admitted(w)
<1>1. CASE w = "provision"
  <2>1. Staging!Plan!ProvisionAccepts(plan[w])
    BY <1>1, Zenon DEF Staging!Plan!Accepts
  <2> QED
    BY <1>1, <2>1 DEF Staging!Plan!ProvisionAccepts, Admitted
<1>2. CASE w = "reviewed"
  <2>0. w # "provision"
    BY <1>2
  <2>1. Staging!Plan!ReviewedAccepts(plan[w])
    BY <1>2, <2>0, Zenon DEF Staging!Plan!Accepts
  <2> QED
    BY <2>1 DEF Staging!Plan!ReviewedAccepts, Admitted
<1> QED
  BY <1>1, <1>2 DEF Staging!Plan!Workflow

\* A dispatch makes a plan that waits, or refuses.
LEMMA DispatchPreserves ==
  ASSUME PlanInv, Staging!Plan!PlanRemote \/ Staging!Plan!VerifyReviewed
  PROVE  PlanInv'
<1> USE DEF PlanInv
<1>1. events' \in 0 .. MaxEvents
  BY HostAssumption DEF Staging!StagingAssumption, Staging!Plan!PlanAssumption,
    Staging!Plan!PlanRemote, Staging!Plan!VerifyReviewed
<1>2. UNCHANGED <<cloud, remote, lock, todo, work>>
  BY DEF Staging!Plan!PlanRemote, Staging!Plan!VerifyReviewed
<1>3. CloudOK(cloud)' /\ RemoteOK'
  BY <1>2 DEF CloudOK, RemoteOK
<1>4. \/ \E w \in Staging!Plan!Workflow : \E p \in PlanSet :
           /\ p # Staging!Plan!NoPlan /\ step[w] = "idle"
           /\ step' = [step EXCEPT ![w] = "waiting"] /\ plan' = [plan EXCEPT ![w] = p]
           /\ pinned' = pinned
      \/ pinned' \in PlanSet /\ UNCHANGED <<step, plan>>
  <2>1. CASE Staging!Plan!PlanRemote
    BY <2>1, PlannedIsPlan DEF Staging!Plan!PlanRemote, Staging!Plan!Workflow
  <2>2. CASE Staging!Plan!VerifyReviewed
    BY <2>2 DEF Staging!Plan!VerifyReviewed, Staging!Plan!Workflow, RunsOK
  <2> QED
    BY <2>1, <2>2
<1>5. RunsOK' /\ AppliesOK'
  <2>1. ASSUME NEW w \in Staging!Plan!Workflow, NEW p \in PlanSet,
               p # Staging!Plan!NoPlan, step[w] = "idle",
               step' = [step EXCEPT ![w] = "waiting"], plan' = [plan EXCEPT ![w] = p],
               pinned' = pinned
        PROVE RunsOK' /\ AppliesOK'
    BY <1>2, <2>1 DEF RunsOK, AppliesOK, Admitted, Staging!Plan!NoPlan
  <2>2. CASE pinned' \in PlanSet /\ UNCHANGED <<step, plan>>
    BY <1>2, <2>2 DEF RunsOK, AppliesOK, Admitted
  <2> QED
    BY <1>4, <2>1, <2>2
<1> QED
  BY <1>1, <1>3, <1>5

\* A run that is at its checks goes on to apply what they admit.
LEMMA CheckPreserves ==
  ASSUME PlanInv, NEW w \in Staging!Plan!Workflow,
         Staging!Plan!Check(w) \/ Staging!Plan!Refuse(w) \/ Staging!Plan!Apply(w)
  PROVE  PlanInv'
<1> USE DEF PlanInv
<1>1. UNCHANGED <<cloud, remote, pinned, work, events>>
  BY DEF Staging!Plan!Check, Staging!Plan!Refuse, Staging!Plan!Apply
<1>2. CloudOK(cloud)' /\ RemoteOK' /\ events' \in 0 .. MaxEvents
  BY <1>1 DEF CloudOK, RemoteOK
<1>3. CASE Staging!Plan!Check(w)
  <2>1. Admitted(w)
    BY <1>3, AcceptedIsAdmitted DEF Staging!Plan!Check
  <2>2. RunsOK' /\ AppliesOK'
    BY <1>3, <2>1 DEF Staging!Plan!Check, RunsOK, AppliesOK, Admitted
  <2> QED
    BY <1>2, <2>2
<1>4. CASE Staging!Plan!Refuse(w)
  <2>1. RunsOK' /\ AppliesOK'
    BY <1>4, NoPlanIsPlan DEF Staging!Plan!Refuse, Staging!Plan!Ended, RunsOK, AppliesOK,
      Admitted
  <2> QED
    BY <1>2, <2>1
<1>5. CASE Staging!Plan!Apply(w)
  <2>1. \A v \in Staging!Plan!Workflow : step[v] # "applying"
    BY <1>5 DEF Staging!Plan!Apply, RunsOK
  <2>2. RunsOK'
    BY <1>5 DEF Staging!Plan!Apply, RunsOK, Admitted
  <2>3. AppliesOK'
    BY <1>5, <2>1 DEF Staging!Plan!Apply, AppliesOK, RunsOK
  <2> QED
    BY <1>2, <2>2, <2>3
<1> QED
  BY <1>3, <1>4, <1>5

\* A call of an apply leaves a cloud, and less to do.
LEMMA CallPreserves ==
  ASSUME PlanInv, NEW w \in Staging!Plan!Workflow, NEW a \in Staging!Plan!Address,
         Staging!Plan!Call(w, a)
  PROVE  PlanInv' /\ (cloud' = cloud \/ Grows(cloud, cloud'))
<1> USE DEF PlanInv
<1>1. CloudOK(cloud') /\ (cloud' = cloud \/ Grows(cloud, cloud'))
  BY CallEffect, BuiltIsCloud, MendedIsCloud
<1>2. UNCHANGED <<remote, lock, pinned, step, plan, events>> /\ step[w] = "applying"
  BY DEF Staging!Plan!Call
<1>3. todo' \subseteq todo
  BY Zenon DEF Staging!Plan!Call
<1>4. RemoteOK'
  BY <1>2, CallEffect, EntryOfAddress DEF RemoteOK
<1>5. RunsOK'
  BY <1>2 DEF RunsOK, Admitted
<1>6. AppliesOK'
  BY <1>2, <1>3 DEF AppliesOK
<1> QED
  BY <1>1, <1>2, <1>4, <1>5, <1>6

\* An apply that is over, or is cut off, gives up what it was at.
LEMMA EndPreserves ==
  ASSUME PlanInv, NEW w \in Staging!Plan!Workflow,
         Staging!Plan!End(w) \/ Staging!Plan!Kill(w)
  PROVE  PlanInv'
<1> USE DEF PlanInv
<1>1. UNCHANGED <<cloud, pinned, events>> /\ todo' = {} /\ work' = {} /\ step[w] = "applying"
      /\ Staging!Plan!Ended(w)
  BY DEF Staging!Plan!End, Staging!Plan!Kill
<1>2. remote' = remote \/ remote' = Staging!Plan!Written
  BY DEF Staging!Plan!End, Staging!Plan!Kill
<1>3. RemoteOK'
  BY <1>1, <1>2, WrittenIsState DEF RemoteOK
<1>4. \A v \in Staging!Plan!Workflow : v # w => step[v] # "applying"
  BY <1>1 DEF AppliesOK
<1>5. lock' \in BOOLEAN
  BY DEF Staging!Plan!End, Staging!Plan!Kill, RunsOK
<1>6. RunsOK'
  BY <1>1, <1>4, <1>5, NoPlanIsPlan DEF RunsOK, Admitted, Staging!Plan!Ended
<1>7. AppliesOK'
  BY <1>1, <1>4 DEF AppliesOK, RunsOK, Staging!Plan!Ended
<1> QED
  BY <1>1, <1>3, <1>6, <1>7 DEF CloudOK

\* A lock that is broken was nobody's, and an administrator leaves a cloud.
LEMMA AdministratePreserves ==
  ASSUME PlanInv, Staging!Plan!Unlock \/ Staging!Plan!Administrate
  PROVE  PlanInv'
<1> USE DEF PlanInv
<1>1. CASE Staging!Plan!Unlock
  BY <1>1 DEF Staging!Plan!Unlock, CloudOK, RemoteOK, RunsOK, Admitted, AppliesOK
<1>2. CASE Staging!Plan!Administrate
  <2>1. events' \in 0 .. MaxEvents
    BY <1>2, HostAssumption DEF Staging!StagingAssumption, Staging!Plan!PlanAssumption,
      Staging!Plan!Administrate
  <2>2. CloudOK(cloud')
    BY <1>2, ByHandIsCloud DEF Staging!Plan!Administrate
  <2>3. RemoteOK'
    <3>1. work' = work
      BY <1>2 DEF Staging!Plan!Administrate
    <3>2. \/ remote' = remote
          \/ remote' = [lineage |-> 0, serial |-> 0, has |-> {}, used |-> remote.used]
      BY <1>2 DEF Staging!Plan!Administrate, RemoteOK
    <3> QED
      BY <3>1, <3>2 DEF RemoteOK
  <2>4. RunsOK' /\ AppliesOK'
    BY <1>2 DEF Staging!Plan!Administrate, RunsOK, Admitted, AppliesOK
  <2> QED
    BY <2>1, <2>2, <2>3, <2>4
<1> QED
  BY <1>1, <1>2

\* Whatever a workflow or an administrator does keeps what is true of plans.
LEMMA PlanStepPreserves ==
  ASSUME PlanInv, Staging!Plan!Next
  PROVE  PlanInv'
<1>1. ASSUME NEW w \in Staging!Plan!Workflow, Staging!Plan!Run(w)
      PROVE PlanInv'
  BY <1>1, CheckPreserves, EndPreserves, CallPreserves DEF Staging!Plan!Run
<1> QED
  BY <1>1, DispatchPreserves, AdministratePreserves DEF Staging!Plan!Next

\* A step of the hosts is one of the plans, one of the inventory, or none of them.
LEMMA StagingSteps ==
  ASSUME [Next]_vars
  PROVE  \/ host = "stage6" /\ Staging!Move
         \/ host = "stage6" /\ Staging!Collect
         \/ UNCHANGED staging
  BY DEF Next, GatewayNext, IntakeNext, BackupNext, StagingNext, Staging!Next,
    Staging!AllEnded, Staging!vars, Staging!plans, vars, staging

\* An inventory is a dispatch, and leaves the cloud and the plans to others.
LEMMA CollectLeaves ==
  ASSUME PlanInv, Staging!Collect
  PROVE  /\ UNCHANGED <<cloud, remote, lock, pinned, step, plan, todo, work>>
         /\ events' \in 0 .. MaxEvents
<1>1. UNCHANGED <<cloud, remote, lock, pinned, step, plan, todo, work>>
  BY DEF Staging!Collect, Staging!plans, Staging!Inventory!Next, Staging!Inventory!Start,
    Staging!Inventory!Get, Staging!Inventory!Resolve, Staging!Inventory!Over
<1>2. events' \in {events, events + 1} /\ events' <= MaxEvents
  BY DEF Staging!Collect
<1>3. MaxEvents \in Nat /\ events \in 0 .. MaxEvents
  BY HostAssumption DEF PlanInv, Staging!StagingAssumption, Staging!Plan!PlanAssumption
<1> QED
  BY <1>1, <1>2, <1>3

\* What is true of plans does not depend on inventories, nor on the other hosts.
LEMMA PlanUnchanged ==
  ASSUME PlanInv, UNCHANGED <<cloud, remote, lock, pinned, step, plan, todo, work>>,
         events' \in 0 .. MaxEvents
  PROVE  PlanInv'
  BY DEF PlanInv, CloudOK, RemoteOK, RunsOK, Admitted, AppliesOK

\* Every step keeps what is true of plans.
LEMMA PlanPreserved ==
  ASSUME PlanInv, [Next]_vars
  PROVE  PlanInv'
<1>1. CASE Staging!Move
  BY <1>1, PlanStepPreserves DEF Staging!Move
<1>2. CASE Staging!Collect
  BY <1>2, CollectLeaves, PlanUnchanged
<1>3. CASE UNCHANGED staging
  BY <1>3, PlanUnchanged DEF staging, PlanInv
<1> QED
  BY <1>1, <1>2, <1>3, StagingSteps

\* What PlanInv says of the two workflows holds whatever is dispatched when.
LEMMA PlanHolds == Spec => []PlanInv
<1>1. PlanInv /\ [Next]_vars => PlanInv'
  BY PlanPreserved
<1> QED
  BY PlanInit, <1>1, PTL DEF Spec

\* What changes the cloud without an event is a call of an apply.
LEMMA OnlyCallsApply ==
  ASSUME PlanInv, [Next]_vars, events' = events, cloud' # cloud
  PROVE  \E w \in Staging!Plan!Workflow, a \in Staging!Plan!Address : Staging!Plan!Call(w, a)
<1>1. Staging!Plan!Next
  BY StagingSteps, CollectLeaves DEF Staging!Move, staging
<1>2. events \in Nat /\ events + 1 # events
  BY DEF PlanInv
<1>3. ~ Staging!Plan!PlanRemote /\ ~ Staging!Plan!VerifyReviewed /\ ~ Staging!Plan!Unlock
      /\ ~ Staging!Plan!Administrate
  BY <1>2 DEF Staging!Plan!PlanRemote, Staging!Plan!VerifyReviewed, Staging!Plan!Unlock,
    Staging!Plan!Administrate
<1>4. PICK w \in Staging!Plan!Workflow : Staging!Plan!Run(w)
  BY <1>1, <1>3 DEF Staging!Plan!Next
<1>5. ~ Staging!Plan!Check(w) /\ ~ Staging!Plan!Refuse(w) /\ ~ Staging!Plan!Apply(w)
      /\ ~ Staging!Plan!End(w) /\ ~ Staging!Plan!Kill(w)
  BY DEF Staging!Plan!Check, Staging!Plan!Refuse, Staging!Plan!Apply, Staging!Plan!End,
    Staging!Plan!Kill
<1> QED
  BY <1>4, <1>5 DEF Staging!Plan!Run

\* What is built was not there, and all that was stays as it was.
LEMMA BuiltKeeps ==
  ASSUME NEW c, CloudOK(c), NEW a \in Staging!Plan!Address, Staging!Plan!CanBuild(c, a),
         NEW b \in Staging!Plan!Address, Staging!Plan!Exists(c, b)
  PROVE  Staging!Plan!Built(c, a).fit[b] = c.fit[b]
  BY BuiltRecord DEF CloudOK, CloudSet, Staging!Plan!CanBuild, Staging!Plan!Exists

\* Whatever was planned when, and whoever applies it on which state and cloud: no
\* apply removes, replaces or spoils what exists, and the reviewed one builds only.
THEOREM PlansApplyAsReviewed == Spec => AppliedAsReviewed
<1>1. PlanInv /\ [Next]_vars =>
        [events' = events =>
           \A a \in Staging!Plan!Address : Staging!Plan!Exists(cloud, a) =>
             /\ cloud'.id[a] = cloud.id[a]
             /\ cloud'.fit[a] \in {cloud.fit[a], "right"}
             /\ step["reviewed"] = "applying" => cloud'.fit[a] = cloud.fit[a]]_cloud
  <2> SUFFICES ASSUME PlanInv, [Next]_vars, events' = events, cloud' # cloud,
                      NEW a \in Staging!Plan!Address, Staging!Plan!Exists(cloud, a)
               PROVE /\ cloud'.id[a] = cloud.id[a]
                     /\ cloud'.fit[a] \in {cloud.fit[a], "right"}
                     /\ step["reviewed"] = "applying" => cloud'.fit[a] = cloud.fit[a]
    OBVIOUS
  <2>1. PICK w \in Staging!Plan!Workflow, b \in Staging!Plan!Address : Staging!Plan!Call(w, b)
    BY OnlyCallsApply
  <2>2. Grows(cloud, cloud')
    BY <2>1, CallPreserves
  <2>3. ASSUME step["reviewed"] = "applying" PROVE cloud'.fit[a] = cloud.fit[a]
    <3>1. w = "reviewed"
      BY <2>1, <2>3 DEF PlanInv, AppliesOK, Staging!Plan!Workflow, Staging!Plan!Call
    <3>2. Staging!Plan!CanBuild(cloud, b) /\ cloud' = Staging!Plan!Built(cloud, b)
      BY <2>1, <3>1, CallEffect
    <3> QED
      BY <3>2, BuiltKeeps DEF PlanInv
  <2> QED
    BY <2>2, <2>3 DEF Grows, Staging!Plan!Exists
<1> QED
  BY <1>1, PlanHolds, PTL DEF Spec, AppliedAsReviewed, Staging!AppliedAsReviewed,
    Staging!Plan!AppliedAsReviewed

-----------------------------------------------------------------------------
(* The inventory.                                                           *)

ServerRead == [id : Nat, fit : Fit, network : Nat, ip : Fit]
NetworkRead == [id : Nat, fit : Fit]
KeyRead == [approved : BOOLEAN]
FirewallRead == [id : Nat, rules : Fit, applied_to : Nat]
Response == {<<>>} \cup ServerRead \cup NetworkRead \cup KeyRead \cup FirewallRead

\* What has been read of the cloud is so still, but for what has been built or mended.
ServerHeld(s) ==
  /\ s.id # 0 => cloud.id["server"] = s.id /\ (s.fit = "right" => cloud.fit["server"] = "right")
  /\ s.network # 0 => /\ cloud.id["attachment"] = s.network
                      /\ s.ip = "right" => cloud.fit["attachment"] = "right"
NetworkHeld(n) ==
  n.id # 0 => cloud.id["network"] = n.id /\ (n.fit = "right" => cloud.fit["network"] = "right")
FirewallHeld(f) ==
  /\ f.id # 0 => cloud.id["firewall"] = f.id /\ (f.rules = "right" => cloud.fit["firewall"] = "right")
  /\ f.applied_to # 0 => cloud.under = f.applied_to
Held ==
  /\ Len(seen) >= 2 => ServerHeld(seen[2])
  /\ Len(seen) >= 3 => NetworkHeld(seen[3])
  /\ Len(seen) >= 4 => seen[4].approved = cloud.key
  /\ Len(seen) >= 5 => FirewallHeld(seen[5])

\* What a collection says of the cloud of now.
Now(i) == Staging!Inventory!get_collection(Staging!Inventory!COLLECTIONS[i])

ReadsOK ==
  /\ seen \in Seq(Response) /\ Len(seen) <= 5
  /\ verdict \in {"none", "collecting", "PASS", "INVENTORY_ERROR"}
  /\ moved \in {"no", "applied", "by hand"}
  /\ verdict \in {"none", "INVENTORY_ERROR"} => seen = <<>>
  /\ verdict = "none" => moved = "no"
  /\ verdict = "PASS" => Len(seen) = 5 /\ Staging!Inventory!resolve_authority

\* What has been read holds while nobody interferes, is the cloud of now while nothing
\* has moved at all, and an error is not one of a cloud that conforms.
InventoryInv ==
  /\ ReadsOK
  /\ moved # "by hand" => Held
  /\ moved = "no" => \A i \in 1 .. Len(seen) : seen[i] = Now(i)
  /\ verdict = "INVENTORY_ERROR" /\ moved = "no" => ~ Staging!Inventory!Conforms(cloud)

\* The collections, in the order in which they are read.
LEMMA Collections ==
  /\ Len(Staging!Inventory!COLLECTIONS) = 5
  /\ Now(1) = <<>>
  /\ Now(2) = [id |-> cloud.id["server"], fit |-> cloud.fit["server"],
               network |-> cloud.id["attachment"], ip |-> cloud.fit["attachment"]]
  /\ Now(3) = [id |-> cloud.id["network"], fit |-> cloud.fit["network"]]
  /\ Now(4) = [approved |-> cloud.key]
  /\ Now(5) = [id |-> cloud.id["firewall"], rules |-> cloud.fit["firewall"],
               applied_to |-> cloud.under]
<1>1. /\ Len(Staging!Inventory!COLLECTIONS) = 5
      /\ Staging!Inventory!COLLECTIONS[1] = "locations"
      /\ Staging!Inventory!COLLECTIONS[2] = "servers"
      /\ Staging!Inventory!COLLECTIONS[3] = "networks"
      /\ Staging!Inventory!COLLECTIONS[4] = "ssh_keys"
      /\ Staging!Inventory!COLLECTIONS[5] = "firewalls"
  BY DEF Staging!Inventory!COLLECTIONS
<1>2. /\ "servers" # "locations" /\ "networks" \notin {"locations", "servers"}
      /\ "ssh_keys" \notin {"locations", "servers", "networks"}
      /\ "firewalls" \notin {"locations", "servers", "networks", "ssh_keys"}
  OBVIOUS
<1>3. Now(1) = <<>>
  BY <1>1, Zenon DEF Now, Staging!Inventory!get_collection
<1>4. Now(2) = [id |-> cloud.id["server"], fit |-> cloud.fit["server"],
               network |-> cloud.id["attachment"], ip |-> cloud.fit["attachment"]]
  BY <1>1, <1>2, Zenon DEF Now, Staging!Inventory!get_collection
<1>5. Now(3) = [id |-> cloud.id["network"], fit |-> cloud.fit["network"]]
  BY <1>1, <1>2, Zenon DEF Now, Staging!Inventory!get_collection
<1>6. Now(4) = [approved |-> cloud.key]
  BY <1>1, <1>2, Zenon DEF Now, Staging!Inventory!get_collection
<1>7. Now(5) = [id |-> cloud.id["firewall"], rules |-> cloud.fit["firewall"],
               applied_to |-> cloud.under]
  BY <1>1, <1>2, Zenon DEF Now, Staging!Inventory!get_collection
<1> QED
  BY <1>1, <1>3, <1>4, <1>5, <1>6, <1>7

\* Where the responses to the collections are kept.
LEMMA Raw ==
  /\ Staging!Inventory!raw("servers") = seen[2]
  /\ Staging!Inventory!raw("networks") = seen[3]
  /\ Staging!Inventory!raw("ssh_keys") = seen[4]
  /\ Staging!Inventory!raw("firewalls") = seen[5]
<1> DEFINE At(x) == CHOOSE i \in 1 .. Len(Staging!Inventory!COLLECTIONS) :
                      Staging!Inventory!COLLECTIONS[i] = x
<1>1. Staging!Inventory!COLLECTIONS = <<"locations", "servers", "networks", "ssh_keys", "firewalls">>
  BY DEF Staging!Inventory!COLLECTIONS
<1>2. At("servers") = 2 /\ At("networks") = 3 /\ At("ssh_keys") = 4 /\ At("firewalls") = 5
  BY <1>1
<1> QED
  BY <1>2 DEF Staging!Inventory!raw

\* What is read of a cloud is of the kind of the collection.
LEMMA ReadIsResponse ==
  ASSUME PlanInv
  PROVE  \A i \in 1 .. 5 : Now(i) \in Response
<1>1. Now(2) \in ServerRead
  BY Collections DEF PlanInv, CloudOK, CloudSet, ServerRead, Staging!Plan!Address
<1>2. Now(3) \in NetworkRead
  BY Collections DEF PlanInv, CloudOK, CloudSet, NetworkRead, Staging!Plan!Address
<1>3. Now(4) \in KeyRead
  BY Collections DEF PlanInv, CloudOK, CloudSet, KeyRead
<1>4. Now(5) \in FirewallRead
  BY Collections DEF PlanInv, CloudOK, CloudSet, FirewallRead, Staging!Plan!Address
<1>5. Now(1) = <<>>
  BY Collections
<1> QED
  BY <1>1, <1>2, <1>3, <1>4, <1>5 DEF Response

\* The cloud conforms to the authority where all that was read of it does.
LEMMA ResolvedConforms ==
  ASSUME PlanInv, Held, Len(seen) = 5, Staging!Inventory!resolve_authority
  PROVE  /\ Staging!Inventory!Conforms(cloud)
         /\ Staging!Inventory!raw("servers").id = cloud.id["server"]
<1>1. /\ ServerHeld(seen[2]) /\ NetworkHeld(seen[3]) /\ seen[4].approved = cloud.key
      /\ FirewallHeld(seen[5])
  BY DEF Held
<1>2. /\ seen[2].id # 0 /\ seen[2].fit = "right" /\ seen[3].id # 0 /\ seen[3].fit = "right"
      /\ seen[2].network = seen[3].id /\ seen[2].ip = "right" /\ seen[4].approved
      /\ seen[5].id # 0 /\ seen[5].applied_to = seen[2].id /\ seen[5].rules = "right"
  BY Raw DEF Staging!Inventory!resolve_authority, Staging!Inventory!exactly_one,
    Staging!Inventory!server_private_ip, Staging!Inventory!firewall_applies_to_server,
    Staging!Inventory!require_exact_rule_set
<1>3. /\ cloud.id["server"] = seen[2].id /\ cloud.fit["server"] = "right"
      /\ cloud.id["attachment"] = seen[2].network /\ cloud.fit["attachment"] = "right"
      /\ cloud.id["network"] = seen[3].id /\ cloud.fit["network"] = "right"
      /\ cloud.id["firewall"] = seen[5].id /\ cloud.fit["firewall"] = "right"
      /\ cloud.under = seen[5].applied_to /\ cloud.key
  BY <1>1, <1>2 DEF ServerHeld, NetworkHeld, FirewallHeld
<1> QED
  BY <1>2, <1>3, Raw DEF Staging!Inventory!Conforms, Staging!Inventory!Address,
    Staging!Inventory!Exists

\* A cloud that conforms is resolved when it has been read as it is.
LEMMA ConformingResolves ==
  ASSUME PlanInv, Len(seen) = 5, \A i \in 1 .. 5 : seen[i] = Now(i),
         Staging!Inventory!Conforms(cloud)
  PROVE  Staging!Inventory!resolve_authority
<1>1. \A a \in Staging!Plan!Address : cloud.id[a] # 0 /\ cloud.fit[a] = "right"
  BY DEF Staging!Inventory!Conforms, Staging!Inventory!Exists, Staging!Inventory!Address,
    Staging!Plan!Address
<1>2. cloud.under = cloud.id["server"] /\ cloud.key
      /\ cloud.id["attachment"] = cloud.id["network"]
  BY <1>1 DEF Staging!Inventory!Conforms, PlanInv, CloudOK, Staging!Plan!IsCloud,
    Staging!Plan!Exists, Staging!Plan!Address
<1>3. seen[2] = Now(2) /\ seen[3] = Now(3) /\ seen[4] = Now(4) /\ seen[5] = Now(5)
  OBVIOUS
<1> QED
  BY <1>1, <1>2, <1>3, Raw, Collections DEF Staging!Plan!Address,
    Staging!Inventory!resolve_authority, Staging!Inventory!exactly_one,
    Staging!Inventory!server_private_ip, Staging!Inventory!firewall_applies_to_server,
    Staging!Inventory!require_exact_rule_set

\* What an apply makes of the cloud leaves what was read of it true.
LEMMA GrowingHolds ==
  ASSUME Held, cloud' = cloud \/ Grows(cloud, cloud'), seen' = seen
  PROVE  Held'
  BY DEF Held, ServerHeld, NetworkHeld, FirewallHeld, Grows, Staging!Plan!Address

\* Before the first collection nothing has been read.
LEMMA InventoryInit == Init => InventoryInv
<1> SUFFICES ASSUME Init PROVE InventoryInv
  OBVIOUS
<1>1. seen = <<>> /\ verdict = "none" /\ moved = "no"
  BY DEF Init, Staging!Init, Staging!Inventory!Init
<1>2. seen \in Seq(Response) /\ Len(seen) = 0
  BY <1>1
<1> QED
  BY <1>1, <1>2 DEF InventoryInv, ReadsOK, Held

\* A step of the plans, while a collection is made or is over.
LEMMA MoveKeepsReads ==
  ASSUME PlanInv, InventoryInv, [Next]_vars, Staging!Move
  PROVE  InventoryInv'
<1>1. seen' = seen /\ verdict' = verdict
  BY DEF Staging!Move
<1>2. Staging!Inventory!resolve_authority' = Staging!Inventory!resolve_authority
  BY <1>1 DEF Staging!Inventory!resolve_authority, Staging!Inventory!exactly_one,
    Staging!Inventory!server_private_ip, Staging!Inventory!firewall_applies_to_server,
    Staging!Inventory!require_exact_rule_set, Staging!Inventory!raw
<1>3. moved' \in {"no", "applied", "by hand"} /\ (verdict = "none" => moved' = "no")
  BY DEF Staging!Move, InventoryInv, ReadsOK
<1>4. ReadsOK'
  BY <1>1, <1>2, <1>3 DEF InventoryInv, ReadsOK
<1>5. ASSUME moved' # "by hand" PROVE Held'
  <2>1. CASE verdict = "none"
    BY <1>1, <2>1 DEF InventoryInv, ReadsOK, Held
  <2>2. CASE verdict # "none"
    <3>1. moved # "by hand" /\ (cloud' = cloud \/ events' = events)
      BY <1>5, <2>2 DEF Staging!Move
    <3>2. cloud' = cloud \/ Grows(cloud, cloud')
      BY <3>1, OnlyCallsApply, CallPreserves
    <3> QED
      BY <1>1, <3>1, <3>2, GrowingHolds DEF InventoryInv
  <2> QED
    BY <2>1, <2>2
<1>6. ASSUME moved' = "no" PROVE /\ \A i \in 1 .. Len(seen') : seen'[i] = Now(i)'
                                 /\ verdict' = "INVENTORY_ERROR" => ~ Staging!Inventory!Conforms(cloud')
  <2>1. CASE verdict = "none"
    BY <1>1, <2>1 DEF InventoryInv, ReadsOK
  <2>2. CASE verdict # "none"
    <3>1. moved = "no" /\ cloud' = cloud
      BY <1>6, <2>2 DEF Staging!Move
    <3>2. \A i : Now(i)' = Now(i)
      BY <3>1 DEF Now, Staging!Inventory!get_collection
    <3> QED
      BY <1>1, <3>1, <3>2 DEF InventoryInv
  <2> QED
    BY <2>1, <2>2
<1> QED
  BY <1>4, <1>5, <1>6 DEF InventoryInv

\* The next response is of the cloud of now.
LEMMA GetKeepsReads ==
  ASSUME PlanInv, InventoryInv, cloud' = cloud, Staging!Inventory!Get
  PROVE  InventoryInv'
<1> DEFINE n == Len(seen)
           r == Now(n + 1)
<1>0. verdict' = verdict /\ moved' = moved /\ verdict = "collecting"
  BY DEF Staging!Inventory!Get
<1>1. seen \in Seq(Response) /\ n \in 0 .. 4 /\ seen' = Append(seen, r)
  <2>1. seen \in Seq(Response)
    BY DEF InventoryInv, ReadsOK
  <2>2. n \in Nat
    BY <2>1
  <2>3. n < 5
    BY Collections DEF Staging!Inventory!Get
  <2>4. seen' = Append(seen, r)
    BY Zenon DEF Staging!Inventory!Get, Now
  <2>5. n \in 0 .. 4
    <3>1. \A k \in Nat : k < 5 => k \in 0 .. 4
      OBVIOUS
    <3> QED
      BY <2>2, <2>3, <3>1, Zenon
  <2> QED
    BY <2>1, <2>4, <2>5, Zenon
<1>2. r \in Response
  BY <1>1, ReadIsResponse
<1>3. seen' \in Seq(Response) /\ Len(seen') = n + 1 /\ seen'[n + 1] = r
      /\ \A i \in 1 .. n : seen'[i] = seen[i]
  BY <1>1, <1>2
<1>4. ReadsOK'
  <2>1. Len(seen') <= 5
    BY <1>1, <1>3
  <2> QED
    BY <1>0, <1>3, <2>1 DEF InventoryInv, ReadsOK
<1>5. \A i : Now(i)' = Now(i)
  BY DEF Now, Staging!Inventory!get_collection
<1>6. ASSUME moved # "by hand" PROVE Held'
  <2>1. Held
    BY <1>6 DEF InventoryInv
  <2>2. n + 1 >= 2 => ServerHeld(seen'[2])
    BY <1>1, <1>3, <2>1, Collections DEF Held, ServerHeld
  <2>3. n + 1 >= 3 => NetworkHeld(seen'[3])
    BY <1>1, <1>3, <2>1, Collections DEF Held, NetworkHeld
  <2>4. n + 1 >= 4 => seen'[4].approved = cloud.key
    BY <1>1, <1>3, <2>1, Collections DEF Held
  <2>5. n + 1 >= 5 => FirewallHeld(seen'[5])
    BY <1>1, <1>3, <2>1, Collections DEF Held, FirewallHeld
  <2> QED
    BY <1>1, <1>3, <2>2, <2>3, <2>4, <2>5 DEF Held, ServerHeld, NetworkHeld, FirewallHeld
<1>7. ASSUME moved = "no" PROVE \A i \in 1 .. Len(seen') : seen'[i] = Now(i)'
  <2> SUFFICES ASSUME NEW i \in 1 .. (n + 1) PROVE seen'[i] = Now(i)
    BY <1>3, <1>5
  <2>1. CASE i = n + 1
    BY <1>3, <2>1
  <2>2. CASE i # n + 1
    BY <1>1, <1>3, <1>7, <2>2 DEF InventoryInv
  <2> QED
    BY <2>1, <2>2
<1> QED
  BY <1>0, <1>4, <1>6, <1>7 DEF InventoryInv

\* The authority is resolved from what has been read, and an error is of a cloud that
\* does not conform where nothing moved.
LEMMA ResolveKeepsReads ==
  ASSUME PlanInv, InventoryInv, cloud' = cloud, Staging!Inventory!Resolve
  PROVE  InventoryInv'
<1>1. moved' = moved /\ Len(seen) = 5 /\ verdict = "collecting"
  BY Collections DEF Staging!Inventory!Resolve
<1>2. CASE Staging!Inventory!resolve_authority
  <2>1. verdict' = "PASS" /\ seen' = seen
    BY <1>2 DEF Staging!Inventory!Resolve
  <2>2. Staging!Inventory!resolve_authority'
    BY <1>2, <2>1 DEF Staging!Inventory!resolve_authority, Staging!Inventory!exactly_one,
      Staging!Inventory!server_private_ip, Staging!Inventory!firewall_applies_to_server,
      Staging!Inventory!require_exact_rule_set, Staging!Inventory!raw
  <2>3. Held' = Held /\ \A i : Now(i)' = Now(i)
    BY <2>1 DEF Held, ServerHeld, NetworkHeld, FirewallHeld, Now,
      Staging!Inventory!get_collection
  <2> QED
    BY <1>1, <2>1, <2>2, <2>3 DEF InventoryInv, ReadsOK
<1>3. CASE ~ Staging!Inventory!resolve_authority
  <2>1. verdict' = "INVENTORY_ERROR" /\ seen' = <<>>
    BY <1>3 DEF Staging!Inventory!Resolve
  <2>2. seen' \in Seq(Response) /\ Len(seen') = 0
    BY <2>1
  <2>3. ASSUME moved = "no" PROVE ~ Staging!Inventory!Conforms(cloud)
    BY <1>1, <1>3, <2>3, ConformingResolves DEF InventoryInv
  <2>4. ReadsOK'
    <3>1. ReadsOK
      BY DEF InventoryInv
    <3>2. Len(seen') <= 5
      BY <2>2
    <3> QED
      BY <1>1, <2>1, <2>2, <3>1, <3>2 DEF ReadsOK
  <2>5. Held'
    BY <2>2 DEF Held
  <2>6. cloud' = cloud /\ 1 .. Len(seen') = {}
    BY <2>2
  <2> QED
    BY <1>1, <2>1, <2>3, <2>4, <2>5, <2>6 DEF InventoryInv
<1> QED
  BY <1>2, <1>3

\* A collection that begins, or is over, has read nothing.
LEMMA StartKeepsReads ==
  ASSUME InventoryInv, Staging!Inventory!Start \/ Staging!Inventory!Over
  PROVE  InventoryInv'
<1>1. seen' = <<>> /\ moved' = "no" /\ verdict' \in {"none", "collecting"}
  BY DEF Staging!Inventory!Start, Staging!Inventory!Over, InventoryInv, ReadsOK
<1>2. seen' \in Seq(Response) /\ Len(seen') = 0
  BY <1>1
<1>3. ReadsOK'
  <2>1. Len(seen') <= 5
    BY <1>2
  <2> QED
    BY <1>1, <1>2, <2>1 DEF ReadsOK
<1>4. Held' /\ 1 .. Len(seen') = {}
  BY <1>2 DEF Held
<1> QED
  BY <1>1, <1>3, <1>4 DEF InventoryInv

\* Nothing that an inventory says depends on who else is at work.
LEMMA ReadsUnchanged ==
  ASSUME InventoryInv, UNCHANGED <<cloud, seen, verdict, moved>>
  PROVE  InventoryInv'
<1>1. Held' = Held /\ \A i : Now(i)' = Now(i)
  BY DEF Held, ServerHeld, NetworkHeld, FirewallHeld, Now, Staging!Inventory!get_collection
<1>2. Staging!Inventory!resolve_authority' = Staging!Inventory!resolve_authority
  BY DEF Staging!Inventory!resolve_authority, Staging!Inventory!exactly_one,
    Staging!Inventory!server_private_ip, Staging!Inventory!firewall_applies_to_server,
    Staging!Inventory!require_exact_rule_set, Staging!Inventory!raw
<1> QED
  BY <1>1, <1>2 DEF InventoryInv, ReadsOK

\* Every step of the Stage 6 host keeps InventoryInv.
LEMMA InventoryPreserved ==
  ASSUME PlanInv, InventoryInv, [Next]_vars
  PROVE  InventoryInv'
<1>1. CASE Staging!Collect
  <2>1. cloud' = cloud /\ Staging!Inventory!Next
    BY <1>1, CollectLeaves DEF Staging!Collect
  <2> QED
    BY <2>1, GetKeepsReads, ResolveKeepsReads, StartKeepsReads DEF Staging!Inventory!Next
<1> QED
  BY <1>1, StagingSteps, MoveKeepsReads, ReadsUnchanged DEF staging

\* What InventoryInv says of the inventory holds whatever is done to the cloud meanwhile.
LEMMA InventoryHolds == Spec => []InventoryInv
<1>1. PlanInv /\ InventoryInv /\ [Next]_vars => InventoryInv'
  BY InventoryPreserved
<1> QED
  BY InventoryInit, PlanHolds, <1>1, PTL DEF Spec

\* PASS: while nobody changes anything by hand the cloud conforms and has the server
\* that is named, although its collections are of different moments; the error: where
\* nothing moved at all, the cloud does not conform.
THEOREM InventoriesAreTrue == Spec => []InventoryIsTrue
<1>1. PlanInv /\ InventoryInv => InventoryIsTrue
  BY ResolvedConforms DEF InventoryInv, ReadsOK, InventoryIsTrue, Staging!InventoryIsTrue,
    Staging!Inventory!InventoryIsTrue
<1> QED
  BY <1>1, PlanHolds, InventoryHolds, PTL

-----------------------------------------------------------------------------
(* The hosts side by side.                                                  *)

\* Every variable of every host holds a value of its kind.
THEOREM HostsAreTyped == Spec => []TypeOK
<1>1. Init => host \in Hosts
  BY DEF Init
<1>2. host \in Hosts /\ [Next]_vars => (host \in Hosts)'
  BY DEF Next, GatewayNext, IntakeNext, BackupNext, StagingNext, vars
<1>3. GatewayInv => Gateway!TypeOK
  BY DEF GatewayInv
<1>4. IntakeInv => Intake!TypeOK
  BY DEF IntakeInv
<1>5. BackupInv => Backup(1)!TypeOK
  BY DEF BackupInv
<1>6. PlanInv => Staging!Plan!TypeOK
  <2> SUFFICES ASSUME PlanInv PROVE Staging!Plan!TypeOK
    OBVIOUS
  <2>1. Staging!Plan!IsCloud(cloud) /\ events \in 0 .. MaxEvents
    BY DEF PlanInv, CloudOK
  <2>2. /\ remote.lineage \in 0 .. remote.used /\ remote.used \in Nat /\ remote.serial \in Nat
        /\ \A e \in remote.has \cup work : e[1] \in Staging!Plan!Address
        /\ remote.lineage = 0 => remote.serial = 0 /\ remote.has = {}
    BY DEF PlanInv, RemoteOK
  <2> QED
    BY <2>1, <2>2 DEF Staging!Plan!TypeOK, PlanInv, RunsOK, AppliesOK
<1>7. InventoryInv => Staging!Inventory!TypeOK
  BY Collections DEF InventoryInv, ReadsOK, Staging!Inventory!TypeOK
<1>8. host \in Hosts /\ GatewayInv /\ IntakeInv /\ BackupInv /\ PlanInv /\ InventoryInv => TypeOK
  BY <1>3, <1>4, <1>5, <1>6, <1>7 DEF TypeOK, Staging!TypeOK
<1> QED
  BY <1>1, <1>2, <1>8, GatewayHolds, IntakeHolds, BackupHolds, PlanHolds, InventoryHolds,
    PTL DEF Spec
=============================================================================
