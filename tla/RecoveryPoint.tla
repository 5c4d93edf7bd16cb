---------------------------- MODULE RecoveryPoint ----------------------------
(***************************************************************************)
(* One recovery point: create_backup() takes it, verify_recovery_point()   *)
(* restores it in isolation and compares it with the source, while the     *)
(* system it is taken of goes on living.                                   *)
(*                                                                         *)
(* The database and every file of the Odoo filestore have a version, the   *)
(* writes since the start: content once left is not returned to (ids,      *)
(* sequences and write dates only grow).  The pieces of the backup         *)
(* directory may be damaged on disk at any time, for good.                 *)
(***************************************************************************)
EXTENDS Naturals

CONSTANTS
  Files,        \* files of the filestore
  MaxVersion    \* bound: writes to the schema, the data and each file

ASSUME MaxVersionAssumption == MaxVersion \in Nat

Pieces == {"database.dump", "odoo-filestore.tar.gz", "configuration.tar.gz"}

VARIABLES
  db,         \* versions of the source database's schema and data
  files,      \* version of each file of the filestore
  pc,         \* where the job is
  todo,       \* files the running tar or hashing pass has still to read
  dump,       \* database.dump: the versions it holds
  archive,    \* odoo-filestore.tar.gz: the version of each file
  hashed,     \* source_hashes: the version of each file
  source,     \* source_schema and source_data
  intact,     \* pieces that are what was written
  summed,     \* the intact pieces when SHA256SUMS was written
  offsite,    \* the intact pieces of the restic snapshot
  container,  \* the isolated PostgreSQL: "absent", "starting" or "up"
  volume,     \* its volume exists
  broken,     \* history: the docker commands on the two that failed, by their pc
  raised,     \* an exception is being handled
  moment      \* history: the source when the archive was complete

origin == <<db, files>>
backup == <<dump, archive, hashed, source, summed, offsite>>
docker == <<container, volume, broken>>
vars == <<origin, pc, todo, backup, intact, docker, raised, moment>>

Versions == 0 .. MaxVersion
Database == [schema : Versions, data : Versions]
Labels == {"dump", "tar", "sums", "check", "upload", "recheck", "extract",
           "hash", "compare", "schema", "data", "volume", "run", "wait", "restore",
           "rm_container", "rm_volume", "accepted", "failed", "killed"}
Ended == {"accepted", "failed", "killed"}
\* The try block of _verify_database_restore().
InTry == {"run", "wait", "restore"}
DockerCommands == {"volume", "run", "rm_container", "rm_volume"}
Cleanup == {"rm_container", "rm_volume"}

Init ==
  /\ db = [schema |-> 0, data |-> 0] /\ files = [f \in Files |-> 0]
  /\ pc = "dump" /\ todo = {}
  /\ dump = db /\ archive = files /\ hashed = files /\ source = db
  /\ intact = Pieces /\ summed = {} /\ offsite = {}
  /\ container = "absent" /\ volume = FALSE /\ broken = {}
  /\ raised = FALSE
  /\ moment = [db |-> db, files |-> files]

(***************************************************************************)
(* create_backup()                                                         *)
(***************************************************************************)

\* pg_dump -Fc is one consistent snapshot.
DumpDatabase ==
  /\ pc = "dump" /\ pc' = "tar"
  /\ dump' = db
  /\ todo' = Files
  /\ UNCHANGED <<origin, archive, hashed, source, summed, offsite, intact,
                 docker, raised, moment>>

\* tar reads the filestore file by file.
ArchiveFile(f) ==
  /\ pc = "tar" /\ f \in todo
  /\ archive' = [archive EXCEPT ![f] = files[f]]
  /\ todo' = todo \ {f}
  /\ UNCHANGED <<origin, pc, dump, hashed, source, summed, offsite, intact,
                 docker, raised, moment>>

\* The filestore is read; the configuration is archived too.
ArchiveDone ==
  /\ pc = "tar" /\ todo = {} /\ pc' = "sums"
  /\ moment' = [db |-> db, files |-> files]
  /\ UNCHANGED <<origin, todo, backup, intact, docker, raised>>

\* SHA256SUMS is computed from the pieces as they are on disk.
WriteSums ==
  /\ pc = "sums" /\ pc' = "check"
  /\ summed' = intact
  /\ UNCHANGED <<origin, todo, dump, archive, hashed, source, offsite, intact,
                 docker, raised, moment>>

\* Mutant: the checksums are not checked again after the upload.
CheckSumsOnce ==
  /\ pc \in {"check", "recheck"}
  /\ pc = "check" => intact = summed
  /\ \/ pc = "check" /\ pc' = "upload"
     \/ pc = "recheck" /\ pc' = "extract"
  /\ UNCHANGED <<origin, todo, backup, intact, docker, raised, moment>>

\* sha256sum --check, before the upload and again before the restore.
CheckSums ==
  /\ intact = summed
  /\ \/ pc = "check" /\ pc' = "upload"
     \/ pc = "recheck" /\ pc' = "extract"
  /\ UNCHANGED <<origin, todo, backup, intact, docker, raised, moment>>

\* restic backup copies the directory as it is.
Upload ==
  /\ pc = "upload" /\ pc' = "recheck"
  /\ offsite' = intact
  /\ UNCHANGED <<origin, todo, dump, archive, hashed, source, summed, intact,
                 docker, raised, moment>>

(***************************************************************************)
(* verify_recovery_point()                                                 *)
(***************************************************************************)

\* Both archives are extracted.  What a damaged filestore archive yields, if
\* anything, is not the source's; the configuration is compared with nothing.
Extract ==
  /\ pc = "extract" /\ pc' = "hash"
  /\ "odoo-filestore.tar.gz" \in intact
  /\ todo' = Files
  /\ UNCHANGED <<origin, backup, intact, docker, raised, moment>>

\* _directory_hashes() reads the source filestore file by file.
HashFile(f) ==
  /\ pc = "hash" /\ f \in todo
  /\ hashed' = [hashed EXCEPT ![f] = files[f]]
  /\ todo' = todo \ {f}
  /\ UNCHANGED <<origin, pc, dump, archive, source, summed, offsite, intact,
                 docker, raised, moment>>

HashDone ==
  /\ pc = "hash" /\ todo = {} /\ pc' = "compare"
  /\ UNCHANGED <<origin, todo, backup, intact, docker, raised, moment>>

\* Mutant: the file names are compared, their hashes are not.
CompareNothing ==
  /\ pc = "compare" /\ pc' = "schema"
  /\ UNCHANGED <<origin, todo, backup, intact, docker, raised, moment>>

\* The extracted filestore is the source's.
CompareFilestore ==
  /\ pc = "compare" /\ pc' = "schema"
  /\ archive = hashed
  /\ UNCHANGED <<origin, todo, backup, intact, docker, raised, moment>>

\* Two plain dumps of the source, one after the other.
ReadSource ==
  /\ \/ /\ pc = "schema" /\ pc' = "data"
        /\ source' = [source EXCEPT !.schema = db.schema]
     \/ /\ pc = "data" /\ pc' = "volume"
        /\ source' = [source EXCEPT !.data = db.data]
  /\ UNCHANGED <<origin, todo, dump, archive, hashed, summed, offsite, intact,
                 docker, raised, moment>>

CreateVolume ==
  /\ pc = "volume" /\ pc' = "run"
  /\ volume' = TRUE
  /\ UNCHANGED <<origin, todo, backup, intact, container, broken, raised, moment>>

\* Mutant: without --rm a container that failed at once is still there.
RunContainerKept ==
  /\ pc = "run" /\ pc' = "wait"
  /\ container' \in {"starting", "exited"}
  /\ UNCHANGED <<origin, todo, backup, intact, volume, broken, raised, moment>>

RunContainer ==
  /\ pc = "run" /\ pc' = "wait"
  /\ container' = "starting"
  /\ UNCHANGED <<origin, todo, backup, intact, volume, broken, raised, moment>>

\* docker volume create or docker run fails, and may have had its effect all
\* the same; started is still False.
DockerFails ==
  /\ pc \in {"volume", "run"}
  /\ raised' = TRUE /\ broken' = broken \cup {pc}
  /\ \/ /\ pc = "volume" /\ pc' = "failed"
        /\ volume' \in BOOLEAN /\ UNCHANGED container
     \/ /\ pc = "run" /\ pc' = "rm_volume"
        /\ container' \in {"absent", "starting"} /\ UNCHANGED volume
  /\ UNCHANGED <<origin, todo, backup, intact, moment>>

\* pg_isready is polled for ninety seconds.
Ready ==
  /\ pc = "wait" /\ container = "up" /\ pc' = "restore"
  /\ UNCHANGED <<origin, todo, backup, intact, docker, raised, moment>>

\* pg_restore, and both dumps of the restored database equal the source's.
RestoreAndCompare ==
  /\ pc = "restore" /\ pc' = "rm_container"
  /\ container = "up"
  /\ "database.dump" \in intact /\ dump = source
  /\ UNCHANGED <<origin, todo, backup, intact, docker, raised, moment>>

\* The finally clause removes the container if docker run returned; that docker
\* fails to is not looked at (check=False) ...
RemoveContainer ==
  /\ pc = "rm_container" /\ pc' = "rm_volume"
  /\ \/ container' = "absent" /\ UNCHANGED broken
     \/ broken' = broken \cup {pc} /\ UNCHANGED container
  /\ UNCHANGED <<origin, todo, backup, intact, volume, raised, moment>>

\* ... and then the volume, which docker refuses while a container uses it, and
\* may fail to remove: neither is looked at.
RemoveVolume ==
  /\ pc = "rm_volume" /\ pc' = IF raised THEN "failed" ELSE "accepted"
  /\ \/ volume' = (volume /\ container # "absent") /\ UNCHANGED broken
     \/ broken' = broken \cup {pc} /\ UNCHANGED volume
  /\ UNCHANGED <<origin, todo, backup, intact, container, raised, moment>>

\* Mutant: readiness is polled without a deadline.
RaiseNotWaiting ==
  /\ pc \notin Ended \cup Cleanup \cup {"run", "wait"}
  /\ raised' = TRUE
  /\ pc' = IF pc \in InTry THEN "rm_container" ELSE "failed"
  /\ UNCHANGED <<origin, todo, backup, intact, docker, moment>>

\* Mutant: the exception skips the removal of the container.
RaisePastContainer ==
  /\ pc \notin Ended \cup Cleanup \cup {"run"}
  /\ raised' = TRUE
  /\ pc' = IF pc \in InTry THEN "rm_volume" ELSE "failed"
  /\ UNCHANGED <<origin, todo, backup, intact, docker, moment>>

\* A command other than DockerFails' fails, a comparison differs, or the
\* deadline passes.
Raise ==
  /\ pc \notin Ended \cup Cleanup \cup {"run"}
  /\ raised' = TRUE
  /\ pc' = IF pc \in InTry THEN "rm_container" ELSE "failed"
  /\ UNCHANGED <<origin, todo, backup, intact, docker, moment>>

(***************************************************************************)
(* The world around, and the specification.                                *)
(***************************************************************************)

WriteDatabase ==
  /\ \/ /\ db.data < MaxVersion
        /\ db' = [db EXCEPT !.data = @ + 1]
     \/ /\ db.schema < MaxVersion
        /\ db' = [db EXCEPT !.schema = @ + 1]
  /\ UNCHANGED <<files, pc, todo, backup, intact, docker, raised, moment>>

WriteFile(f) ==
  /\ files[f] < MaxVersion
  /\ files' = [files EXCEPT ![f] = @ + 1]
  /\ UNCHANGED <<db, pc, todo, backup, intact, docker, raised, moment>>

Damage(p) ==
  /\ p \in intact /\ intact' = intact \ {p}
  /\ UNCHANGED <<origin, pc, todo, backup, docker, raised, moment>>

ServerStarts ==
  /\ container = "starting" /\ container' = "up"
  /\ UNCHANGED <<origin, pc, todo, backup, intact, volume, broken, raised,
                 moment>>

\* The server stops: with --rm its container is gone.
ServerStops ==
  /\ container # "absent" /\ container' = "absent"
  /\ UNCHANGED <<origin, pc, todo, backup, intact, volume, broken, raised,
                 moment>>

\* The process is killed; docker and the backup directory stay as they are.
Kill ==
  /\ pc \notin Ended /\ pc' = "killed"
  /\ UNCHANGED <<origin, todo, backup, intact, docker, raised, moment>>

Step ==
  \/ DumpDatabase \/ ArchiveDone \/ WriteSums \/ CheckSums \/ Upload
  \/ Extract \/ HashDone \/ CompareFilestore \/ ReadSource \/ CreateVolume
  \/ DockerFails \/ RunContainer \/ Ready \/ RestoreAndCompare \/ RemoveContainer
  \/ RemoveVolume \/ Raise
  \/ \E f \in Files : ArchiveFile(f) \/ HashFile(f)

World ==
  \/ WriteDatabase \/ ServerStarts \/ ServerStops \/ Kill
  \/ \E f \in Files : WriteFile(f)
  \/ \E p \in Pieces : Damage(p)

Next == Step \/ World
Spec == Init /\ [][Next]_vars
FairSpec == Spec /\ WF_vars(Step)

(***************************************************************************)
(* What must hold.                                                         *)
(***************************************************************************)

\* Every variable holds a value of its kind.
TypeOK ==
  /\ db \in Database /\ files \in [Files -> Versions]
  /\ pc \in Labels /\ todo \subseteq Files
  /\ dump \in Database /\ source \in Database
  /\ archive \in [Files -> Versions] /\ hashed \in [Files -> Versions]
  /\ intact \subseteq Pieces /\ summed \subseteq Pieces
  /\ offsite \subseteq Pieces
  /\ container \in {"absent", "starting", "up"} /\ volume \in BOOLEAN
  /\ broken \subseteq DockerCommands
  /\ raised \in BOOLEAN
  /\ moment \in [db : Database, files : [Files -> Versions]]

\* An accepted recovery point pairs a database and a filestore that really
\* existed together, although dump, archive, hashes and source dumps were all
\* read at different times: verify_recovery_point() compares each half with
\* the source after both were taken.
AcceptedIsOneMoment ==
  pc = "accepted" => dump = moment.db /\ archive = moment.files

\* The off-host copy of an accepted recovery point is the checksummed one, and
\* its database and filestore are those whose restore was verified.
OffsiteIsVerified ==
  pc = "accepted" =>
    /\ offsite = summed
    /\ {"database.dump", "odoo-filestore.tar.gz"} \subseteq offsite

\* However the verification ends, short of a kill: its container outlives it only
\* if docker run failed after starting it or docker rm failed, and its volume
\* only if one of docker's commands on the two failed.  Nothing reports either:
\* the verification may even be accepted.
NothingLeftBehind ==
  pc \in {"accepted", "failed"} =>
    /\ container # "absent" => broken \cap {"run", "rm_container"} # {}
    /\ volume => broken # {}

\* The job ends, even if the isolated server never becomes ready.
Ends == <>(pc \in Ended)
=============================================================================
