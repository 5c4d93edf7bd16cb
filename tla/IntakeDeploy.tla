---------------------------- MODULE IntakeDeploy ----------------------------
(***************************************************************************)
(* scripts/deploy_intake_observability_staging.sh: the actions deploy,     *)
(* rollback and reset on one state directory and one compose project.      *)
(*                                                                         *)
(* Files persist from one invocation to the next, and an invocation may be *)
(* killed between any two writes.  A secret, a key or an authority is a    *)
(* value; what is generated anew is one nothing refers to.  The two server *)
(* certificates are made alike, so there is one; of the secrets, the one   *)
(* that a volume keeps.                                                    *)
(***************************************************************************)
EXTENDS Naturals, FiniteSets

CONSTANTS
  Invocations,  \* runs of the script
  Polls         \* looks at the health of middleware

IntakeAssumption == Polls \in Nat \ {0}

VARIABLES
  secret,       \* secrets/postgres_password, None while empty
  caKey, caCert,  \* tls/ca.key, and the key tls/ca.crt is of
  key, cert,    \* server.key; server.crt: its key and its authority
  env,          \* middleware.env and the CA bundle: password and authority
  volume,       \* the password postgres_data was initialised with
  running,      \* containers that exist
  context,      \* runtime-context.json
  pc, op, polls

files == <<secret, caKey, caCert, key, cert, env>>
stack == <<volume, running>>
vars == <<files, stack, context, pc, op, polls>>

None == 0
Values == 1 .. 10
NoCert == [key |-> None, ca |-> None]
NoEnv == [password |-> None, ca |-> None]
\* Values that are in some file or volume; one that is not.
InUse == {secret, caKey, caCert, key, cert.key, cert.ca, env.password, env.ca, volume}
Fresh == CHOOSE v \in Values : v \notin InUse

Ended == {"passed", "failed", "killed"}
\* Between the setting and the clearing of the trap.
Trapped == {"down", "data", "migrate", "middleware", "health", "checks", "context"}
Labels == {"idle", "validate", "secret", "pull", "ca", "ca_cert", "server", "server_cert",
           "verify", "files", "render", "take_down", "forget", "trap"}
            \cup Trapped \cup Ended
Active(p) == pc[p] \notin Ended \cup {"idle"}

Init ==
  /\ secret = None /\ caKey = None /\ caCert = None
  /\ key = None /\ cert = NoCert /\ env = NoEnv
  /\ volume = None /\ running = {} /\ context = "absent"
  /\ pc = [p \in Invocations |-> "idle"]
  /\ op = [p \in Invocations |-> "deploy"]
  /\ polls = [p \in Invocations |-> 0]

Goto(p, l) == pc' = [pc EXCEPT ![p] = l]
At(p, l, m) == pc[p] = l /\ Goto(p, m) /\ UNCHANGED <<op, polls>>

\* The administrators wait for one to end; nothing in the script makes them.
Invoke(p) ==
  /\ pc[p] = "idle" /\ \A q \in Invocations : ~Active(q)
  /\ \E c \in {"deploy", "rollback", "reset"} :
       /\ op' = [op EXCEPT ![p] = c]
       /\ Goto(p, IF c = "deploy" THEN "validate" ELSE "take_down")
  /\ UNCHANGED <<files, stack, context, polls>>

(***************************************************************************)
(* Preparation, without the trap.                                          *)
(***************************************************************************)

\* Steps that only check or fetch: checkout, evidence, images, the network.
Pass(p) ==
  /\ At(p, "validate", "secret") \/ At(p, "pull", "ca") \/ At(p, "render", "down")
  /\ UNCHANGED <<files, stack, context>>

\* Mutant: a secret is made for every deployment.
EnsureSecretAnew(p) ==
  /\ At(p, "secret", "pull") /\ secret' = Fresh
  /\ UNCHANGED <<caKey, caCert, key, cert, env, stack, context>>

\* ensure_secret(): an empty or missing file is filled.
EnsureSecret(p) ==
  /\ At(p, "secret", "pull")
  /\ secret' = IF secret = None THEN Fresh ELSE secret
  /\ UNCHANGED <<caKey, caCert, key, cert, env, stack, context>>

\* Both files are there, or both are made: openssl writes the key first.
EnsureAuthority(p) ==
  /\ \/ At(p, "ca", "server") /\ caKey # None /\ caCert # None /\ caKey' = caKey
     \/ At(p, "ca", "ca_cert") /\ (caKey = None \/ caCert = None) /\ caKey' = Fresh
  /\ UNCHANGED <<secret, caCert, key, cert, env, stack, context>>
SignAuthority(p) ==
  /\ At(p, "ca_cert", "server") /\ caCert' = caKey
  /\ UNCHANGED <<secret, caKey, key, cert, env, stack, context>>

\* issue_server_certificate(), in the same way; openssl refuses to sign with a
\* key that is not the authority's.
EnsureServer(p) ==
  /\ \/ At(p, "server", "verify") /\ key # None /\ cert # NoCert /\ key' = key
     \/ At(p, "server", "server_cert") /\ (key = None \/ cert = NoCert) /\ key' = Fresh
  /\ UNCHANGED <<secret, caKey, caCert, cert, env, stack, context>>
SignServer(p) ==
  /\ At(p, "server_cert", "verify") /\ caKey = caCert
  /\ cert' = [key |-> key, ca |-> caKey]
  /\ UNCHANGED <<secret, caKey, caCert, key, env, stack, context>>
VerifyServer(p) ==
  /\ At(p, "verify", "files") /\ cert.ca = caCert
  /\ UNCHANGED <<files, stack, context>>

\* The combined CA bundle, middleware.env and deployment.env.
WriteFiles(p) ==
  /\ At(p, "files", "render")
  /\ env' = [password |-> secret, ca |-> caCert]
  /\ UNCHANGED <<secret, caKey, caCert, key, cert, stack, context>>

(***************************************************************************)
(* Replacement, under the trap.                                            *)
(***************************************************************************)

\* compose down || true: it may fail halfway.
Down(p) ==
  /\ At(p, "down", "data")
  /\ running' \in SUBSET running
  /\ UNCHANGED <<files, volume, context>>

\* compose up postgres redis: an empty volume is initialised.
DataUp ==
  /\ running' = running \cup {"postgres"}
  /\ volume' = IF volume = None THEN secret ELSE volume
StartData(p) == At(p, "data", "migrate") /\ DataUp /\ UNCHANGED <<files, context>>

\* A client with this environment reaches the database over verified TLS.
Connects == /\ "postgres" \in running /\ env.password = volume
            /\ key = cert.key /\ env.ca = cert.ca

Migrate(p) ==
  /\ At(p, "migrate", "middleware") /\ Connects
  /\ UNCHANGED <<files, stack, context>>
StartMiddleware(p) ==
  /\ At(p, "middleware", "health") /\ Connects
  /\ running' = running \cup {"middleware"}
  /\ UNCHANGED <<files, volume, context>>

\* Health is looked at Polls times.
Healthy(p) ==
  /\ At(p, "health", "checks") /\ Connects
  /\ UNCHANGED <<files, stack, context>>
Poll(p) ==
  /\ pc[p] = "health" /\ polls[p] + 1 < Polls
  /\ polls' = [polls EXCEPT ![p] = @ + 1]
  /\ UNCHANGED <<files, stack, context, pc, op>>
Checked(p) ==
  /\ At(p, "checks", "context") /\ "middleware" \in running
  /\ UNCHANGED <<files, stack, context>>
WriteContext(p) ==
  /\ At(p, "context", "passed") /\ context' = "PASS"
  /\ UNCHANGED <<files, stack>>

(***************************************************************************)
(* rollback and reset.                                                     *)
(***************************************************************************)

\* compose down, with --volumes for a reset.
TakeDown(p) ==
  /\ At(p, "take_down", "forget") /\ env # NoEnv
  /\ running' = {} /\ volume' = IF op[p] = "reset" THEN None ELSE volume
  /\ UNCHANGED <<files, context>>

\* Mutant: the context is left for the next deployment to overwrite.
ForgetNothing(p) ==
  /\ At(p, "forget", "passed")
  /\ UNCHANGED <<files, stack, context>>

\* rm -f runtime-context.json
Forget(p) ==
  /\ At(p, "forget", "passed") /\ context' = "absent"
  /\ UNCHANGED <<files, stack>>

(***************************************************************************)
(* Failures.                                                               *)
(***************************************************************************)

\* What the command at hand may have done by then.
Partly(p) ==
  /\ \/ UNCHANGED stack
     \/ pc[p] = "data" /\ DataUp
     \/ /\ pc[p] = "middleware"
        /\ running' = running \cup {"middleware"} /\ volume' = volume
     \/ /\ pc[p] = "take_down" /\ env # NoEnv
        /\ running' \in SUBSET running
        /\ volume' = volume \/ (op[p] = "reset" /\ running' = {} /\ volume' = None)
  /\ context' \in {context} \cup (IF pc[p] = "context" THEN {"cut", "PASS"} ELSE {})
  /\ UNCHANGED <<files, op, polls>>

\* A command fails.  Under the trap the stack is taken down; the context of an
\* earlier deployment stays.
Fail(p) ==
  /\ Active(p) /\ pc[p] # "trap"
  /\ pc[p] = "health" => polls[p] + 1 = Polls
  /\ Goto(p, IF pc[p] \in Trapped THEN "trap" ELSE "failed")
  /\ Partly(p)

\* Mutant: the trap takes the volumes down, too.
RollBackAll(p) ==
  /\ At(p, "trap", "failed")
  /\ running' \in SUBSET running
  /\ volume' = IF running' = {} THEN None ELSE volume
  /\ UNCHANGED <<files, context>>

\* rollback_on_error(), whose compose down may fail as well.
RollBack(p) ==
  /\ At(p, "trap", "failed")
  /\ running' \in SUBSET running
  /\ UNCHANGED <<files, volume, context>>

\* The process is killed.  A TERM or HUP is the same in most places: bash runs
\* the EXIT trap with the status of the last command, which was 0.
Kill(p) == Active(p) /\ Goto(p, "killed") /\ Partly(p)

Step(p) ==
  \/ Pass(p) \/ EnsureSecret(p) \/ EnsureAuthority(p) \/ SignAuthority(p)
  \/ EnsureServer(p) \/ SignServer(p) \/ VerifyServer(p) \/ WriteFiles(p)
  \/ Down(p) \/ StartData(p) \/ Migrate(p) \/ StartMiddleware(p)
  \/ Healthy(p) \/ Poll(p) \/ Checked(p) \/ WriteContext(p)
  \/ TakeDown(p) \/ Forget(p) \/ Fail(p) \/ RollBack(p)

AllEnded == (\A p \in Invocations : pc[p] \in Ended) /\ UNCHANGED vars

Next == (\E p \in Invocations : Invoke(p) \/ Step(p) \/ Kill(p)) \/ AllEnded

Spec == Init /\ [][Next]_vars

\* Every variable holds a value of its kind.
TypeOK ==
  /\ {secret, caKey, caCert, key, volume} \subseteq Values \cup {None}
  /\ cert \in [key : Values, ca : Values] \cup {NoCert}
  /\ env \in [password : Values, ca : Values] \cup {NoEnv}
  /\ running \subseteq {"postgres", "middleware"}
  /\ context \in {"absent", "cut", "PASS"}
  /\ pc \in [Invocations -> Labels]
  /\ op \in [Invocations -> {"deploy", "rollback", "reset"}]
  /\ polls \in [Invocations -> 0 .. Polls - 1]

\* What one deployment left, wherever it was killed, the next one can use: the
\* secret opens the database it finds, the authority's certificate is of its
\* key, and the server's of its key and by that authority.
RedeployFits ==
  /\ volume # None => secret = volume
  /\ caCert # None => caKey = caCert
  /\ cert # NoCert => cert = [key |-> key, ca |-> caCert]

\* preserve_on_redeploy and preserve_on_failure_rollback of the runtime lock:
\* the database survives every deployment, failure and rollback but not a reset.
DataSurvives ==
  [][volume # None /\ volume' # volume =>
       \E p \in Invocations : Active(p) /\ op[p] = "reset"]_vars

\* A deployment that passes leaves a middleware that reaches its database and a
\* context that says so; a rollback or reset leaves neither.
PassIsServed ==
  [][\A p \in Invocations : pc[p] # "passed" /\ pc'[p] = "passed" =>
       IF op[p] = "deploy"
       THEN "middleware" \in running /\ Connects /\ context' = "PASS"
       ELSE running = {} /\ context' = "absent"]_vars
=============================================================================
