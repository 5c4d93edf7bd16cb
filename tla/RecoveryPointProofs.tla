------------------------- MODULE RecoveryPointProofs -------------------------
(***************************************************************************)
(* Theorems about the recovery point, for any set of files and any number  *)
(* of writes.                                                              *)
(***************************************************************************)
EXTENDS RecoveryPoint, TLAPS

(***************************************************************************)
(* The places at which something is known.                                 *)
(***************************************************************************)
Verified   == {"rm_container", "rm_volume", "accepted"}
AfterData  == {"volume", "run", "wait", "restore"} \cup Verified
AfterSchema == {"data"} \cup AfterData
Compared   == {"schema"} \cup AfterSchema
Extracted  == {"hash", "compare"} \cup Compared
Rechecked  == {"extract"} \cup Extracted
Uploaded   == {"recheck"} \cup Rechecked
Summed     == {"check", "upload"} \cup Uploaded
Archived   == {"sums"} \cup Summed

\* Versions only grow: what was read before the moment is not newer than the
\* moment, what was read after it is not older.
Ordered ==
  /\ pc = "tar" =>
       /\ dump.schema <= db.schema /\ dump.data <= db.data
       /\ \A f \in Files \ todo : archive[f] <= files[f]
  /\ pc \in Archived =>
       /\ dump.schema <= moment.db.schema /\ moment.db.schema <= db.schema
       /\ dump.data <= moment.db.data /\ moment.db.data <= db.data
       /\ \A f \in Files : archive[f] <= moment.files[f]
                           /\ moment.files[f] <= files[f]
  /\ pc = "hash" => \A f \in Files \ todo : moment.files[f] <= hashed[f]
  /\ pc = "compare" => \A f \in Files : moment.files[f] <= hashed[f]
  /\ pc \in Compared => archive = moment.files
  /\ pc \in AfterSchema => moment.db.schema <= source.schema
  /\ pc \in AfterData => moment.db.data <= source.data
  /\ pc \in Verified /\ ~raised => dump = source

\* Damage only grows: what is intact now was intact when it was copied.
Copied ==
  /\ pc \in Summed => intact \subseteq summed
  /\ pc \in Uploaded => intact \subseteq offsite /\ offsite \subseteq summed
  /\ pc \in Rechecked => offsite = summed
  /\ pc \in Extracted => "odoo-filestore.tar.gz" \in offsite
  /\ pc \in Verified /\ ~raised => "database.dump" \in offsite

\* The container lives inside the try block, the volume around it, unless a
\* docker command on them failed.
Isolated ==
  /\ pc \notin {"wait", "restore", "rm_container", "killed"} =>
       (container # "absent" => broken \cap {"run", "rm_container"} # {})
  /\ pc \notin InTry \cup Cleanup \cup {"killed"} => (volume => broken # {})
  /\ pc = "accepted" => ~raised
  /\ raised => pc \in Cleanup \cup {"failed", "killed"}

IInv == TypeOK /\ Ordered /\ Copied /\ Isolated

LEMMA VersionsAreNumbers == Versions \subseteq Nat
  BY MaxVersionAssumption DEF Versions

LEMMA InitIInv == Init => IInv
<1> SUFFICES ASSUME Init PROVE IInv
  OBVIOUS
<1>1. 0 \in Versions
  BY MaxVersionAssumption DEF Versions
<1>2. TypeOK
  BY <1>1 DEF Init, TypeOK, Database, Labels, Pieces
<1>3. Ordered /\ Copied /\ Isolated
  BY DEF Init, Ordered, Copied, Isolated, Archived, Summed, Uploaded, Rechecked,
     Extracted, Compared, AfterSchema, AfterData, Verified, InTry, Cleanup
<1> QED
  BY <1>2, <1>3 DEF IInv

(***************************************************************************)
(* Types.                                                                  *)
(***************************************************************************)
LEMMA TypeNext == TypeOK /\ [Next]_vars => TypeOK'
<1> SUFFICES ASSUME TypeOK, [Next]_vars PROVE TypeOK'
  OBVIOUS
<1> USE DEF TypeOK, origin, backup, docker, Labels
<1>1. CASE DumpDatabase \/ WriteSums \/ CheckSums \/ Upload \/ Extract
           \/ HashDone \/ CompareFilestore
  BY <1>1 DEF DumpDatabase, WriteSums, CheckSums, Upload, Extract, HashDone,
              CompareFilestore
<1>2. CASE ArchiveDone
  BY <1>2 DEF ArchiveDone
<1>3. ASSUME NEW f \in Files, ArchiveFile(f) \/ HashFile(f) PROVE TypeOK'
  BY <1>3 DEF ArchiveFile, HashFile
<1>4. CASE ReadSource
  BY <1>4 DEF ReadSource, Database
<1>5. CASE CreateVolume \/ RunContainer \/ Ready \/ RestoreAndCompare
           \/ RemoveContainer \/ RemoveVolume \/ DockerFails
  BY <1>5 DEF CreateVolume, RunContainer, Ready, RestoreAndCompare,
              RemoveContainer, RemoveVolume, DockerFails, DockerCommands
<1>6. CASE Raise \/ Kill
  BY <1>6 DEF Raise, Kill
<1>7. CASE WriteDatabase
  <2>1. db' \in Database
    BY <1>7, VersionsAreNumbers, MaxVersionAssumption
       DEF WriteDatabase, Database, Versions
  <2> QED
    BY <1>7, <2>1 DEF WriteDatabase
<1>8. ASSUME NEW f \in Files, WriteFile(f) PROVE TypeOK'
  <2>1. files[f] + 1 \in Versions
    BY <1>8, MaxVersionAssumption DEF WriteFile, Versions
  <2>2. files' \in [Files -> Versions]
    BY <1>8, <2>1 DEF WriteFile
  <2> QED
    BY <1>8, <2>2 DEF WriteFile
<1>9. ASSUME NEW p \in Pieces, Damage(p) PROVE TypeOK'
  BY <1>9 DEF Damage
<1>10. CASE ServerStarts \/ ServerStops
  BY <1>10 DEF ServerStarts, ServerStops
<1>11. CASE UNCHANGED vars
  BY <1>11 DEF vars
<1> QED
  BY <1>1, <1>2, <1>3, <1>4, <1>5, <1>6, <1>7, <1>8, <1>9, <1>10, <1>11
     DEF Next, Step, World

\* Every variable of the recovery point keeps its type.
THEOREM RecoveryTypes == Spec => []TypeOK
<1>1. Init => TypeOK
  BY InitIInv DEF IInv
<1> QED
  BY <1>1, TypeNext, PTL DEF Spec

(***************************************************************************)
(* The source only moves forward.                                          *)
(***************************************************************************)
LEMMA OrderedNext ==
  ASSUME TypeOK, Ordered, Isolated, Next PROVE Ordered'
<1> USE DEF Archived, Summed, Uploaded, Rechecked, Extracted, Compared,
            AfterSchema, AfterData, Verified
<1>0. /\ db.schema \in Nat /\ db.data \in Nat
      /\ dump.schema \in Nat /\ dump.data \in Nat
      /\ source.schema \in Nat /\ source.data \in Nat
      /\ moment.db.schema \in Nat /\ moment.db.data \in Nat
      /\ \A f \in Files : /\ files[f] \in Nat /\ archive[f] \in Nat
                          /\ hashed[f] \in Nat /\ moment.files[f] \in Nat
  BY VersionsAreNumbers DEF TypeOK, Database
<1>1. CASE DumpDatabase
  BY <1>0, <1>1 DEF DumpDatabase, Ordered, origin, docker
<1>2. ASSUME NEW f \in Files, ArchiveFile(f) PROVE Ordered'
  <2>1. /\ pc = "tar" /\ pc' = "tar" /\ db' = db /\ files' = files
        /\ dump' = dump /\ todo' = todo \ {f}
        /\ archive' = [archive EXCEPT ![f] = files[f]]
    BY <1>2 DEF ArchiveFile, origin
  <2>2. \A g \in Files \ todo' : archive'[g] <= files'[g]
    BY <1>0, <2>1 DEF Ordered, TypeOK
  <2> QED
    BY <2>1, <2>2 DEF Ordered
<1>3. CASE ArchiveDone
  BY <1>0, <1>3 DEF ArchiveDone, Ordered, origin, backup
<1>4. CASE WriteSums \/ CheckSums \/ Upload \/ Extract
  BY <1>4 DEF WriteSums, CheckSums, Upload, Extract, Ordered, origin, backup
<1>5. ASSUME NEW f \in Files, HashFile(f) PROVE Ordered'
  <2>1. /\ pc = "hash" /\ pc' = "hash" /\ db' = db /\ files' = files
        /\ dump' = dump /\ todo' = todo \ {f} /\ moment' = moment
        /\ archive' = archive /\ hashed' = [hashed EXCEPT ![f] = files[f]]
    BY <1>5 DEF HashFile, origin
  <2>2. \A g \in Files \ todo' : moment.files[g] <= hashed'[g]
    BY <1>0, <2>1 DEF Ordered, TypeOK
  <2> QED
    BY <2>1, <2>2 DEF Ordered
<1>6. CASE HashDone
  BY <1>6 DEF HashDone, Ordered, origin, backup
<1>7. CASE CompareFilestore
  <2>1. pc = "compare" /\ pc' = "schema" /\ archive = hashed
    BY <1>7 DEF CompareFilestore
  <2>2. \A f \in Files : archive[f] = moment.files[f]
    BY <1>0, <2>1 DEF Ordered
  <2>3. archive = moment.files
    BY <2>2 DEF TypeOK
  <2> QED
    BY <1>7, <2>1, <2>3 DEF CompareFilestore, Ordered, origin, backup
<1>8. CASE ReadSource
  BY <1>0, <1>8 DEF ReadSource, Ordered, origin, TypeOK, Database
<1>9. CASE CreateVolume \/ RunContainer \/ Ready \/ RemoveContainer
           \/ RemoveVolume \/ DockerFails
  BY <1>9 DEF CreateVolume, RunContainer, Ready, RemoveContainer, RemoveVolume,
              DockerFails, Ordered, origin, backup
<1>10. CASE RestoreAndCompare
  BY <1>10 DEF RestoreAndCompare, Ordered, origin, backup
<1>11. CASE Raise \/ Kill
  BY <1>11 DEF Raise, Kill, Ordered, origin, backup, Ended, Cleanup, InTry
<1>12. CASE WriteDatabase
  <2>1. db.schema <= db'.schema /\ db.data <= db'.data /\ db'.schema \in Nat
        /\ db'.data \in Nat
    BY <1>0, <1>12 DEF WriteDatabase, TypeOK, Database
  <2> QED
    BY <1>0, <1>12, <2>1 DEF WriteDatabase, Ordered, backup
<1>13. ASSUME NEW f \in Files, WriteFile(f) PROVE Ordered'
  <2>1. \A g \in Files : files[g] <= files'[g] /\ files'[g] \in Nat
    BY <1>0, <1>13 DEF WriteFile, TypeOK
  <2> QED
    BY <1>0, <1>13, <2>1 DEF WriteFile, Ordered, backup
<1>14. ASSUME NEW p \in Pieces, Damage(p) PROVE Ordered'
  BY <1>14 DEF Damage, Ordered, origin, backup
<1>15. CASE ServerStarts \/ ServerStops
  BY <1>15 DEF ServerStarts, ServerStops, Ordered, origin, backup
<1> QED
  BY <1>1, <1>2, <1>3, <1>4, <1>5, <1>6, <1>7, <1>8, <1>9, <1>10, <1>11, <1>12,
     <1>13, <1>14, <1>15 DEF Next, Step, World

(***************************************************************************)
(* Damage only grows, and the finally clause cleans up in order.           *)
(***************************************************************************)
LEMMA CopiedNext ==
  ASSUME TypeOK, Copied, Isolated, Next PROVE Copied'
<1> USE DEF Summed, Uploaded, Rechecked, Extracted, Compared,
            AfterSchema, AfterData, Verified, Copied
<1>1. CASE DumpDatabase \/ ArchiveDone \/ WriteSums \/ CheckSums
  BY <1>1 DEF DumpDatabase, ArchiveDone, WriteSums, CheckSums, backup
<1>2. CASE Upload
  BY <1>2 DEF Upload
<1>3. CASE Extract
  BY <1>3 DEF Extract, backup
<1>4. CASE HashDone \/ CompareFilestore \/ ReadSource \/ CreateVolume
           \/ RunContainer \/ Ready \/ DockerFails
  BY <1>4 DEF HashDone, CompareFilestore, ReadSource, CreateVolume,
              RunContainer, Ready, DockerFails, backup
<1>5. CASE RestoreAndCompare
  BY <1>5 DEF RestoreAndCompare, backup
<1>6. CASE RemoveContainer \/ RemoveVolume
  BY <1>6 DEF RemoveContainer, RemoveVolume, backup
<1>7. CASE Raise \/ Kill
  BY <1>7 DEF Raise, Kill, backup, Ended, Cleanup, InTry
<1>8. ASSUME NEW f \in Files, ArchiveFile(f) \/ HashFile(f) \/ WriteFile(f)
      PROVE  Copied'
  BY <1>8 DEF ArchiveFile, HashFile, WriteFile, backup
<1>9. CASE WriteDatabase \/ ServerStarts \/ ServerStops
  BY <1>9 DEF WriteDatabase, ServerStarts, ServerStops, backup
<1>10. ASSUME NEW p \in Pieces, Damage(p) PROVE Copied'
  BY <1>10 DEF Damage, backup
<1> QED
  BY <1>1, <1>2, <1>3, <1>4, <1>5, <1>6, <1>7, <1>8, <1>9, <1>10
     DEF Next, Step, World

LEMMA IsolatedNext ==
  ASSUME TypeOK, Isolated, Next PROVE Isolated'
<1> USE DEF Isolated, InTry, Cleanup, docker
<1>1. CASE DumpDatabase \/ ArchiveDone \/ WriteSums \/ CheckSums \/ Upload
           \/ Extract \/ HashDone \/ CompareFilestore \/ ReadSource
  BY <1>1 DEF DumpDatabase, ArchiveDone, WriteSums, CheckSums, Upload, Extract,
              HashDone, CompareFilestore, ReadSource
<1>2. CASE CreateVolume \/ RunContainer \/ Ready \/ RestoreAndCompare
  BY <1>2 DEF CreateVolume, RunContainer, Ready, RestoreAndCompare
<1>3. CASE RemoveContainer
  BY <1>3 DEF RemoveContainer
<1>4. CASE RemoveVolume
  <2>1. /\ pc = "rm_volume" /\ container' = container /\ raised' = raised
        /\ pc' = IF raised THEN "failed" ELSE "accepted"
    BY <1>4 DEF RemoveVolume
  <2>2. container # "absent" => broken \cap {"run", "rm_container"} # {}
    BY <2>1
  <2>3. broken \subseteq broken'
    BY <1>4 DEF RemoveVolume
  <2>4. volume' => broken' # {}
    <3>1. CASE volume' = (volume /\ container # "absent")
      <4> SUFFICES ASSUME volume' PROVE broken' # {}
        OBVIOUS
      <4>1. container # "absent"
        BY <3>1
      <4> QED
        BY <4>1, <2>2, <2>3
    <3>2. CASE broken' = broken \cup {pc}
      BY <3>2
    <3> QED
      BY <1>4, <3>1, <3>2 DEF RemoveVolume
  <2> QED
    BY <2>1, <2>2, <2>3, <2>4
<1>5. CASE Raise \/ Kill
  BY <1>5 DEF Raise, Kill, Ended
<1>6. ASSUME NEW f \in Files, ArchiveFile(f) \/ HashFile(f) \/ WriteFile(f)
      PROVE  Isolated'
  BY <1>6 DEF ArchiveFile, HashFile, WriteFile
<1>7. CASE WriteDatabase \/ \E p \in Pieces : Damage(p)
  BY <1>7 DEF WriteDatabase, Damage
<1>8. CASE ServerStarts \/ ServerStops
  BY <1>8 DEF ServerStarts, ServerStops
<1>9. CASE DockerFails
  <2>1. /\ raised' /\ pc \in broken' /\ pc \in {"volume", "run"}
        /\ pc = "volume" => pc' = "failed" /\ container' = container
        /\ pc = "run" => pc' = "rm_volume"
        /\ broken \subseteq broken'
    BY <1>9 DEF DockerFails
  <2> QED
    BY <2>1
<1> QED
  BY <1>1, <1>2, <1>3, <1>4, <1>5, <1>6, <1>7, <1>8, <1>9 DEF Next, Step, World

LEMMA InvariantAlways == Spec => []IInv
<1>1. IInv /\ [Next]_vars => IInv'
  <2>1. ASSUME IInv, Next PROVE IInv'
    BY <2>1, TypeNext, OrderedNext, CopiedNext, IsolatedNext DEF IInv
  <2>2. ASSUME IInv, UNCHANGED vars PROVE IInv'
    BY <2>2 DEF IInv, vars, origin, backup, docker, TypeOK, Ordered, Copied,
       Isolated
  <2> QED
    BY <2>1, <2>2
<1> QED
  BY <1>1, InitIInv, PTL DEF Spec

\* An accepted recovery point pairs a database and a filestore that existed
\* together, however the source is written to meanwhile.
THEOREM OneMoment == Spec => []AcceptedIsOneMoment
<1>1. IInv => AcceptedIsOneMoment
  <2> SUFFICES ASSUME IInv, pc = "accepted"
               PROVE  dump = moment.db /\ archive = moment.files
    BY DEF AcceptedIsOneMoment
  <2>1. /\ dump \in Database /\ moment.db \in Database
        /\ dump = source /\ archive = moment.files
    BY DEF IInv, TypeOK, Ordered, Isolated, Verified, AfterData, AfterSchema,
       Compared
  <2>2. /\ dump.schema <= moment.db.schema /\ moment.db.schema <= dump.schema
        /\ dump.data <= moment.db.data /\ moment.db.data <= dump.data
    BY <2>1 DEF IInv, Ordered, Archived, Summed, Uploaded, Rechecked, Extracted,
       Compared, AfterSchema, AfterData, Verified
  <2>3. /\ dump.schema \in Nat /\ dump.data \in Nat
        /\ moment.db.schema \in Nat /\ moment.db.data \in Nat
    BY <2>1, VersionsAreNumbers DEF Database
  <2>4. dump.schema = moment.db.schema /\ dump.data = moment.db.data
    BY <2>2, <2>3
  <2> QED
    BY <2>1, <2>4 DEF Database
<1> QED
  BY <1>1, InvariantAlways, PTL

\* The off-host copy of an accepted recovery point is the checksummed one, and
\* its database and filestore are those whose restore was verified.
THEOREM OffsiteVerified == Spec => []OffsiteIsVerified
<1>1. IInv => OffsiteIsVerified
  BY DEF IInv, Copied, Isolated, OffsiteIsVerified, Rechecked, Extracted,
     Compared, AfterSchema, AfterData, Verified
<1> QED
  BY <1>1, InvariantAlways, PTL

\* A verification that is not killed leaves a container or a volume behind only
\* if a docker command on them failed.
THEOREM NothingLeft == Spec => []NothingLeftBehind
<1>1. IInv => NothingLeftBehind
  BY DEF IInv, Isolated, NothingLeftBehind, InTry, Cleanup
<1> QED
  BY <1>1, InvariantAlways, PTL
=============================================================================
