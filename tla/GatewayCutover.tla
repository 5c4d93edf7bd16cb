--------------------------- MODULE GatewayCutover ---------------------------
(***************************************************************************)
(* deploy/production/websocket-gateway/cutover.sh: replace the gateway's   *)
(* container by the candidate, probe it, and restore the recorded legacy   *)
(* compose from the trap on EXIT, HUP, INT and TERM if anything fails.     *)
(***************************************************************************)
EXTENDS Naturals, FiniteSets

CONSTANTS
  Cutovers,    \* runs of the script
  AtOnce,      \* how many of them the administrators let overlap
  Attempts,    \* probes of /healthz
  MaxSignals   \* bound: signals a run gets while a command of it fails

CutoverAssumption ==
  /\ IsFiniteSet(Cutovers)
  /\ AtOnce \in Nat /\ Attempts \in Nat \ {0} /\ MaxSignals \in Nat

VARIABLES
  image,       \* what the container runs
  serving,     \* whether it answers
  pc,          \* where each run is
  tries,       \* attempt
  answer,      \* health, ready and version of each run: the image that answered
  leaving,     \* the EXIT trap is running
  told,        \* ROLLBACK VERIFICATION FAILED was printed
  signals      \* signals so far

vars == <<image, serving, pc, tries, answer, leaving, told, signals>>

Ended == {"passed", "failed", "killed"}
Probes == {"healthz", "readyz", "version"}
Images == {"legacy", "candidate", "absent"}
InRollback == {"restore", "verify"}
\* Behind CUTOVER_STARTED=1, in front of the clearing of the trap.
Started == {"up", "match"} \cup Probes \cup InRollback
Labels == {"idle", "checks", "pull", "print"} \cup Started \cup Ended
Active(c) == pc[c] \notin Ended \cup {"idle"}

Init ==
  /\ image = "legacy" /\ serving \in BOOLEAN
  /\ pc = [c \in Cutovers |-> "idle"]
  /\ tries = [c \in Cutovers |-> 0]
  /\ answer = [c \in Cutovers |-> [p \in Probes |-> "none"]]
  /\ leaving = [c \in Cutovers |-> FALSE]
  /\ told = [c \in Cutovers |-> FALSE]
  /\ signals = [c \in Cutovers |-> 0]

Goto(c, l) == pc' = [pc EXCEPT ![c] = l]

Begin(c) ==
  /\ pc[c] = "idle"
  /\ Cardinality({d \in Cutovers : Active(d)}) < AtOnce
  /\ Goto(c, "checks")
  /\ UNCHANGED <<image, serving, tries, answer, leaving, told, signals>>

\* Mutant: the live digest is not compared.
CheckedAnything(c) ==
  /\ pc[c] = "checks"
  /\ Goto(c, "pull")
  /\ UNCHANGED <<image, serving, tries, answer, leaving, told, signals>>

\* Root, the token, the rollback compose; and what is live is the recorded
\* legacy image.
Checked(c) ==
  /\ pc[c] = "checks" /\ image = "legacy"
  /\ Goto(c, "pull")
  /\ UNCHANGED <<image, serving, tries, answer, leaving, told, signals>>

\* The candidate is pulled and the compose file parsed.
Pulled(c) ==
  /\ pc[c] = "pull"
  /\ Goto(c, "up")
  /\ UNCHANGED <<image, serving, tries, answer, leaving, told, signals>>

\* Anything of this fails: the trap returns.
Refuse(c) ==
  /\ pc[c] \in {"checks", "pull"}
  /\ Goto(c, "failed")
  /\ UNCHANGED <<image, serving, tries, answer, leaving, told, signals>>

\* What the compose up at label l runs.
Target(l) == IF l = "up" THEN "candidate" ELSE "legacy"

\* docker compose up: the old container goes, the new one comes.
Remove(c) ==
  /\ pc[c] \in {"up", "restore"} /\ image \notin {"absent", Target(pc[c])}
  /\ image' = "absent" /\ serving' = FALSE
  /\ UNCHANGED <<pc, tries, answer, leaving, told, signals>>
Create(c) ==
  /\ pc[c] \in {"up", "restore"} /\ image = "absent"
  /\ image' = Target(pc[c])
  /\ UNCHANGED <<serving, pc, tries, answer, leaving, told, signals>>
UpDone(c) ==
  /\ pc[c] \in {"up", "restore"} /\ image = Target(pc[c])
  /\ Goto(c, IF pc[c] = "up" THEN "healthz" ELSE "verify")
  /\ UNCHANGED <<image, serving, tries, answer, leaving, told, signals>>

\* probe_json: whatever the container runs answers.
Probe(c) ==
  /\ pc[c] \in Probes /\ serving
  /\ answer' = [answer EXCEPT ![c][pc[c]] = image]
  /\ Goto(c, CASE pc[c] = "healthz" -> "readyz" [] pc[c] = "readyz" -> "version"
               [] pc[c] = "version" -> "match")
  /\ UNCHANGED <<image, serving, tries, leaving, told, signals>>

\* The greps over the three answers, of which only /version's names the release,
\* and trap -: between the two $? is 0, and a signal is lost.
Match(c) ==
  /\ pc[c] = "match" /\ answer[c]["version"] = "candidate"
  /\ Goto(c, "print")
  /\ UNCHANGED <<image, serving, tries, answer, leaving, told, signals>>

\* PASS, with no trap any more.
Pass(c) ==
  /\ pc[c] = "print"
  /\ Goto(c, "passed")
  /\ UNCHANGED <<image, serving, tries, answer, leaving, told, signals>>

\* Mutant: one attempt too many.
RetryOnceMore(c) ==
  /\ pc[c] = "healthz" /\ tries[c] < Attempts
  /\ tries' = [tries EXCEPT ![c] = @ + 1]
  /\ UNCHANGED <<image, serving, pc, answer, leaving, told, signals>>

\* /healthz is asked again, Attempts times in all.
Retry(c) ==
  /\ pc[c] = "healthz" /\ tries[c] + 1 < Attempts
  /\ tries' = [tries EXCEPT ![c] = @ + 1]
  /\ UNCHANGED <<image, serving, pc, answer, leaving, told, signals>>

\* A command behind CUTOVER_STARTED=1 fails: set -e or fail(), and the EXIT trap.
\* An empty answer of /healthz ends the attempts, and fails.
Fail(c) ==
  /\ pc[c] \in Started \ InRollback
  /\ pc[c] = "healthz" => tries[c] + 1 = Attempts \/ serving
  /\ Goto(c, "restore")
  /\ leaving' = [leaving EXCEPT ![c] = TRUE]
  /\ UNCHANGED <<image, serving, tries, answer, told, signals>>

\* "|| true": the restoring compose up may fail wherever it is.
RestoreFails(c) ==
  /\ pc[c] = "restore"
  /\ Goto(c, "verify")
  /\ UNCHANGED <<image, serving, tries, answer, leaving, told, signals>>

\* Mutant: a digest that differs is taken for a success.
VerifySilent(c) ==
  /\ pc[c] = "verify"
  /\ Goto(c, IF leaving[c] THEN "failed" ELSE "restore")
  /\ leaving' = [leaving EXCEPT ![c] = TRUE]
  /\ UNCHANGED <<image, serving, tries, answer, told, signals>>

\* Mutant: the handler of a signal returns, and the script goes on where it was.
VerifyReturns(c) ==
  /\ pc[c] = "verify"
  /\ told' = [told EXCEPT ![c] = @ \/ image # "legacy"]
  /\ Goto(c, IF leaving[c] THEN "failed" ELSE "match")
  /\ UNCHANGED <<image, serving, tries, answer, leaving, signals>>

\* The restored image is compared.  The exit of a handler run for a signal runs
\* the EXIT trap, and rollback() once more.
Verify(c) ==
  /\ pc[c] = "verify"
  /\ told' = [told EXCEPT ![c] = @ \/ image # "legacy"]
  /\ Goto(c, IF leaving[c] THEN "failed" ELSE "restore")
  /\ leaving' = [leaving EXCEPT ![c] = TRUE]
  /\ UNCHANGED <<image, serving, tries, answer, signals>>

\* A signal is handled when the command at hand returns.  If that succeeded, $?
\* is 0, the handler returns and the script goes on; otherwise it rolls back,
\* from within a rollback as well.
Signal(c) ==
  /\ pc[c] \in Started /\ signals[c] < MaxSignals
  /\ signals' = [signals EXCEPT ![c] = @ + 1]
  /\ Goto(c, "restore")
  /\ UNCHANGED <<image, serving, tries, answer, leaving, told>>

Kill(c) ==
  /\ Active(c)
  /\ Goto(c, "killed")
  /\ UNCHANGED <<image, serving, tries, answer, leaving, told, signals>>

\* The container comes up, stops and is restarted (restart: unless-stopped).
Turn ==
  /\ image # "absent" /\ serving' = ~serving
  /\ UNCHANGED <<image, pc, tries, answer, leaving, told, signals>>

Step(c) ==
  \/ Checked(c) \/ Pulled(c) \/ Refuse(c)
  \/ Remove(c) \/ Create(c) \/ UpDone(c)
  \/ Probe(c) \/ Retry(c) \/ Match(c) \/ Pass(c) \/ Fail(c)
  \/ RestoreFails(c) \/ Verify(c)

AllEnded == (\A c \in Cutovers : pc[c] \in Ended) /\ UNCHANGED vars

Next ==
  \/ \E c \in Cutovers : Begin(c) \/ Step(c) \/ Signal(c) \/ Kill(c)
  \/ Turn \/ AllEnded

Spec == Init /\ [][Next]_vars

\* Every variable holds a value of its kind.
TypeOK ==
  /\ image \in Images /\ serving \in BOOLEAN
  /\ pc \in [Cutovers -> Labels]
  /\ tries \in [Cutovers -> 0 .. Attempts - 1]
  /\ answer \in [Cutovers -> [Probes -> Images \cup {"none"}]]
  /\ leaving \in [Cutovers -> BOOLEAN] /\ told \in [Cutovers -> BOOLEAN]
  /\ signals \in [Cutovers -> 0 .. MaxSignals]

\* A PASS is of one release: since this cutover's compose up each of the three
\* probes was answered by the candidate, although only /version names it, and no
\* signal has had the legacy image put back between the answers and the PASS; with
\* cutovers one at a time.  The candidate may have stopped answering meanwhile.
PassWasAnswered ==
  [][\A c \in Cutovers : pc[c] # "passed" /\ pc'[c] = "passed" =>
       image = "candidate" /\ \A p \in Probes : answer[c][p] = "candidate"]_vars

\* A cutover that started and fails leaves the legacy image, or has said that
\* it does not, also when signals restart its rollback.
RestoredOrTold ==
  [][\A c \in Cutovers : pc[c] \in Started /\ pc'[c] = "failed" =>
       image = "legacy" \/ told'[c]]_vars

\* What a failed or killed cutover left behind is not touched by the next one: a
\* cutover starts on the recorded legacy image, which its rollback can restore.
DriftIsKept ==
  [][\A c \in Cutovers : pc[c] \notin Started /\ pc'[c] \in Started
       => image = "legacy"]_vars
=============================================================================
