-------------------------- MODULE HostScriptsProofs --------------------------
(***************************************************************************)
(* What holds of the gateway's cutover and of the intake deployment, for   *)
(* any number of runs, probes, polls and signals.                          *)
(***************************************************************************)
EXTENDS HostScripts, FiniteSetTheorems, TLAPS

\* The modules of the hosts mean the same by the size of a set.
LEMMA SameSizes ==
  /\ \A S : Gateway!IsFiniteSet(S) <=> IsFiniteSet(S)
  /\ \A S : Gateway!Cardinality(S) = Cardinality(S)
<1>1. \A S : Gateway!IsFiniteSet(S) <=> IsFiniteSet(S)
  BY DEF Gateway!IsFiniteSet, IsFiniteSet
<1>2. \A S : Gateway!Cardinality(S) = Cardinality(S)
  BY DEF Gateway!Cardinality, Cardinality
<1> QED
  BY <1>1, <1>2

-----------------------------------------------------------------------------
(* The cutover of the gateway.                                              *)

\* Behind its compose up the candidate stays, and what has answered is it.
CandidateAnswers(c) ==
  /\ pc[c] \in Gateway!Probes \cup {"match", "print"} => image = "candidate"
  /\ pc[c] \in {"readyz", "version", "match", "print"} =>
       answer[c]["healthz"] = "candidate"
  /\ pc[c] \in {"version", "match", "print"} => answer[c]["readyz"] = "candidate"
  /\ pc[c] \in {"match", "print"} => answer[c]["version"] = "candidate"

\* Cutovers are one at a time, and what is pulled was checked on the legacy image.
GatewayInv ==
  /\ Gateway!TypeOK
  /\ \A c, d \in Cutovers : Gateway!Active(c) /\ Gateway!Active(d) => c = d
  /\ \A c \in Cutovers : pc[c] = "pull" => image = "legacy"
  /\ \A c \in Cutovers : CandidateAnswers(c)

\* No cutover has begun, and the gateway is what was deployed before.
LEMMA GatewayInit == Init => GatewayInv
<1> SUFFICES ASSUME Gateway!Init PROVE GatewayInv
  BY DEF Init
<1>1. Gateway!TypeOK
  BY HostAssumption DEF Gateway!Init, Gateway!TypeOK, Gateway!Labels, Gateway!Images,
     Gateway!CutoverAssumption
<1>2. \A c \in Cutovers : pc[c] = "idle"
  BY DEF Gateway!Init
<1> QED
  BY <1>1, <1>2 DEF GatewayInv, Gateway!Active, CandidateAnswers, Gateway!Probes

\* Who begins is alone.
LEMMA BeginAlone ==
  ASSUME NEW c \in Cutovers, Gateway!Begin(c)
  PROVE  \A d \in Cutovers : ~Gateway!Active(d)
<1> DEFINE A == {d \in Cutovers : Gateway!Active(d)}
<1>1. IsFiniteSet(A) /\ Cardinality(A) \in Nat /\ Cardinality(A) < 1
  BY HostAssumption, SameSizes, FS_Subset, FS_CardinalityType
  DEF Gateway!Begin, Gateway!CutoverAssumption
<1>2. A = {}
  BY <1>1, FS_EmptySet
<1> QED
  BY <1>2

\* A probe leads to the next one, or to the greps, and what answers is kept.
LEMMA ProbeLeads ==
  ASSUME Gateway!TypeOK, NEW c \in Cutovers, Gateway!Probe(c)
  PROVE  /\ pc[c] \in {"healthz", "readyz", "version"}
         /\ pc[c] = "healthz" => pc'[c] = "readyz"
         /\ pc[c] = "readyz" => pc'[c] = "version"
         /\ pc[c] = "version" => pc'[c] = "match"
         /\ image' = image
         /\ answer'[c][pc[c]] = image
         /\ \A p \in Gateway!Probes : p # pc[c] => answer'[c][p] = answer[c][p]
<1> USE DEF Gateway!TypeOK, Gateway!Probe, Gateway!Goto, Gateway!Probes
<1>1. answer' = [answer EXCEPT ![c] = [answer[c] EXCEPT ![pc[c]] = image]]
  OBVIOUS
<1>2. answer'[c] = [answer[c] EXCEPT ![pc[c]] = image]
  BY <1>1
<1>3. answer[c] \in [Gateway!Probes -> Gateway!Images \cup {"none"}]
  OBVIOUS
<1> QED
  BY <1>2, <1>3

\* A step of the cutovers leaves every variable of theirs with a value of its kind.
LEMMA GatewayType ==
  ASSUME Gateway!TypeOK, [Gateway!Next]_gateway
  PROVE  Gateway!TypeOK'
<1> USE DEF Gateway!TypeOK, Gateway!Labels, Gateway!Started, Gateway!InRollback,
            Gateway!Ended, Gateway!Goto, Gateway!Probes, Gateway!Images
<1>1. ASSUME NEW c \in Cutovers, Gateway!Begin(c) PROVE Gateway!TypeOK'
  BY <1>1 DEF Gateway!Begin
<1>2. ASSUME NEW c \in Cutovers,
             Gateway!Checked(c) \/ Gateway!Pulled(c) \/ Gateway!Refuse(c)
      PROVE Gateway!TypeOK'
  BY <1>2 DEF Gateway!Checked, Gateway!Pulled, Gateway!Refuse
<1>3. ASSUME NEW c \in Cutovers,
             Gateway!Remove(c) \/ Gateway!Create(c) \/ Gateway!UpDone(c)
      PROVE Gateway!TypeOK'
  BY <1>3 DEF Gateway!Remove, Gateway!Create, Gateway!UpDone, Gateway!Target
<1>4. ASSUME NEW c \in Cutovers, Gateway!Match(c) \/ Gateway!Pass(c) PROVE Gateway!TypeOK'
  BY <1>4 DEF Gateway!Match, Gateway!Pass
<1>11. ASSUME NEW c \in Cutovers, Gateway!Probe(c) PROVE Gateway!TypeOK'
  <2> DEFINE Answers == [Gateway!Probes -> Gateway!Images \cup {"none"}]
  <2>1. answer' \in [Cutovers -> Answers]
    <3>1. answer' = [answer EXCEPT ![c] = [answer[c] EXCEPT ![pc[c]] = image]]
      BY <1>11 DEF Gateway!Probe
    <3>2. [answer[c] EXCEPT ![pc[c]] = image] \in Answers
      OBVIOUS
    <3> HIDE DEF Answers
    <3> QED
      BY <3>1, <3>2 DEF Answers
  <2>2. pc' \in [Cutovers -> Gateway!Labels]
    <3>1. PICK l : pc' = [pc EXCEPT ![c] = l]
      BY <1>11 DEF Gateway!Probe
    <3>2. pc'[c] \in Gateway!Labels
      BY <1>11, ProbeLeads
    <3> QED
      BY <3>1, <3>2
  <2> QED
    BY <1>11, <2>1, <2>2 DEF Gateway!Probe
<1>5. ASSUME NEW c \in Cutovers, Gateway!Retry(c) PROVE Gateway!TypeOK'
  <2>1. tries[c] + 1 \in 0 .. Attempts - 1
    BY <1>5, HostAssumption DEF Gateway!Retry, Gateway!CutoverAssumption
  <2> QED
    BY <1>5, <2>1 DEF Gateway!Retry
<1>6. ASSUME NEW c \in Cutovers,
             Gateway!Fail(c) \/ Gateway!RestoreFails(c) \/ Gateway!Verify(c)
      PROVE Gateway!TypeOK'
  BY <1>6 DEF Gateway!Fail, Gateway!RestoreFails, Gateway!Verify
<1>7. ASSUME NEW c \in Cutovers, Gateway!Signal(c) PROVE Gateway!TypeOK'
  <2>1. signals[c] + 1 \in 0 .. MaxSignals
    BY <1>7, HostAssumption DEF Gateway!Signal, Gateway!CutoverAssumption
  <2> QED
    BY <1>7, <2>1 DEF Gateway!Signal
<1>8. ASSUME NEW c \in Cutovers, Gateway!Kill(c) PROVE Gateway!TypeOK'
  BY <1>8 DEF Gateway!Kill
<1>9. CASE Gateway!Turn
  BY <1>9 DEF Gateway!Turn
<1>10. CASE UNCHANGED gateway
  BY <1>10 DEF gateway
<1> QED
  BY <1>1, <1>2, <1>3, <1>4, <1>5, <1>6, <1>7, <1>8, <1>9, <1>10, <1>11
  DEF Gateway!Next, Gateway!Step, Gateway!AllEnded, Gateway!vars, gateway

\* A step of the hosts is one of the gateway, or leaves it alone.
LEMMA GatewaySteps == [Next]_vars => [Gateway!Next]_gateway
  BY DEF Next, GatewayNext, IntakeNext, BackupNext, StagingNext, vars, gateway

\* What CandidateAnswers says of a run holds after a step of the run itself.
LEMMA AnswersKept ==
  ASSUME GatewayInv, NEW c \in Cutovers,
         Gateway!Step(c) \/ Gateway!Signal(c) \/ Gateway!Kill(c)
  PROVE  CandidateAnswers(c)'
<1> USE DEF Gateway!Probes
<1>1. CASE Gateway!Probe(c)
  BY <1>1, ProbeLeads DEF GatewayInv, CandidateAnswers
<1>2. CASE ~Gateway!Probe(c)
  <2> USE DEF Gateway!Goto, GatewayInv, Gateway!TypeOK
  <2>1. answer' = answer
    BY <1>2 DEF Gateway!Step, Gateway!Checked, Gateway!Pulled, Gateway!Refuse,
      Gateway!Remove, Gateway!Create, Gateway!UpDone, Gateway!Retry, Gateway!Match,
      Gateway!Pass, Gateway!Fail, Gateway!RestoreFails, Gateway!Verify, Gateway!Signal,
      Gateway!Kill
  <2>2. CASE Gateway!Match(c)
    BY <2>1, <2>2 DEF Gateway!Match, CandidateAnswers
  <2>3. CASE Gateway!UpDone(c)
    BY <2>1, <2>3 DEF Gateway!UpDone, Gateway!Target, CandidateAnswers
  <2>4. CASE Gateway!Retry(c)
    BY <2>1, <2>4 DEF Gateway!Retry, CandidateAnswers
  <2>5. CASE ~Gateway!Match(c) /\ ~Gateway!UpDone(c) /\ ~Gateway!Retry(c)
    <3>1. pc'[c] \notin Gateway!Probes \cup {"match", "print"}
      BY <1>2, <2>5 DEF Gateway!Step, Gateway!Checked, Gateway!Pulled, Gateway!Refuse,
        Gateway!Remove, Gateway!Create, Gateway!Pass, Gateway!Fail,
        Gateway!RestoreFails, Gateway!Verify, Gateway!Signal, Gateway!Kill
    <3> QED
      BY <3>1 DEF CandidateAnswers
  <2> QED
    BY <2>2, <2>3, <2>4, <2>5
<1> QED
  BY <1>1, <1>2

\* Nobody else is active while somebody replaces the container.
LEMMA GatewayPreserved ==
  ASSUME GatewayInv, [Gateway!Next]_gateway
  PROVE  GatewayInv'
<1>1. Gateway!TypeOK'
  BY GatewayType DEF GatewayInv
<1>0. \A c \in Cutovers : ~Gateway!Active(c)' => CandidateAnswers(c)'
  BY DEF Gateway!Active, Gateway!Ended, CandidateAnswers, Gateway!Probes
<1> USE DEF Gateway!Goto, Gateway!Active, Gateway!Ended
<1>2. CASE \E c \in Cutovers : Gateway!Begin(c)
  <2>1. PICK c \in Cutovers : Gateway!Begin(c)
    BY <1>2
  <2>2. \A d \in Cutovers : d # c => ~Gateway!Active(d)'
    BY <2>1, BeginAlone DEF Gateway!Begin, GatewayInv, Gateway!TypeOK
  <2>3. pc'[c] = "checks" /\ image' = image
    BY <2>1 DEF Gateway!Begin, GatewayInv, Gateway!TypeOK
  <2>4. CandidateAnswers(c)'
    BY <2>3 DEF CandidateAnswers, Gateway!Probes
  <2> QED
    BY <1>0, <1>1, <2>2, <2>3, <2>4 DEF GatewayInv
<1>3. ASSUME NEW c \in Cutovers,
             Gateway!Step(c) \/ Gateway!Signal(c) \/ Gateway!Kill(c)
      PROVE GatewayInv'
  <2> USE DEF Gateway!Step, Gateway!Checked, Gateway!Pulled, Gateway!Refuse,
      Gateway!Remove, Gateway!Create, Gateway!UpDone, Gateway!Probe, Gateway!Retry,
      Gateway!Match, Gateway!Pass, Gateway!Fail, Gateway!RestoreFails, Gateway!Verify,
      Gateway!Signal, Gateway!Kill, Gateway!Started, Gateway!InRollback, Gateway!Probes
  <2>1. Gateway!Active(c)
    BY <1>3
  <2>2. \A d \in Cutovers : d # c => pc'[d] = pc[d]
    BY <1>3 DEF GatewayInv, Gateway!TypeOK
  <2>3. \A d \in Cutovers : d # c => ~Gateway!Active(d)'
    BY <2>1, <2>2 DEF GatewayInv
  <2>4. pc'[c] = "pull" => image' = "legacy"
    <3>1. CASE Gateway!Probe(c)
      BY <3>1, ProbeLeads DEF GatewayInv
    <3>2. CASE ~Gateway!Probe(c)
      BY <1>3, <3>2 DEF GatewayInv, Gateway!TypeOK
    <3> QED
      BY <3>1, <3>2
  <2>5. CandidateAnswers(c)'
    BY <1>3, AnswersKept
  <2> QED
    BY <1>0, <1>1, <2>3, <2>4, <2>5 DEF GatewayInv
<1>4. CASE Gateway!Turn \/ UNCHANGED gateway
  BY <1>1, <1>4 DEF Gateway!Turn, gateway, GatewayInv, CandidateAnswers
<1> QED
  BY <1>2, <1>3, <1>4 DEF Gateway!Next, Gateway!AllEnded, Gateway!vars, gateway

\* What GatewayInv says of cutover.sh holds whatever cutovers and signals there are.
LEMMA GatewayHolds == Spec => []GatewayInv
  BY GatewayInit, GatewaySteps, GatewayPreserved, PTL DEF Spec

\* What moves a run, and what none but its own steps do.
LEMMA GatewayMoves ==
  ASSUME GatewayInv, Gateway!Next, NEW c \in Cutovers, pc'[c] # pc[c]
  PROVE  Gateway!Begin(c) \/ Gateway!Step(c) \/ Gateway!Signal(c) \/ Gateway!Kill(c)
<1>1. PICK d \in Cutovers :
        Gateway!Begin(d) \/ Gateway!Step(d) \/ Gateway!Signal(d) \/ Gateway!Kill(d)
  BY DEF Gateway!Next, Gateway!AllEnded, Gateway!vars, Gateway!Turn
<1>2. \A e \in Cutovers \ {d} : pc'[e] = pc[e]
  BY <1>1 DEF GatewayInv, Gateway!TypeOK, Gateway!Goto, Gateway!Begin,
      Gateway!Step, Gateway!Checked, Gateway!Pulled, Gateway!Refuse,
      Gateway!Remove, Gateway!Create, Gateway!UpDone, Gateway!Probe, Gateway!Retry,
      Gateway!Match, Gateway!Pass,
      Gateway!Fail, Gateway!RestoreFails, Gateway!Verify, Gateway!Signal, Gateway!Kill
<1> QED
  BY <1>1, <1>2

\* A PASS is of one release: the candidate answered the three probes behind this
\* cutover's compose up, and no rollback has replaced it since.
THEOREM GatewayAnswered == Spec => PassWasAnswered
<1>1. GatewayInv /\ [Gateway!Next]_gateway =>
        [\A c \in Cutovers : pc[c] # "passed" /\ pc'[c] = "passed" =>
            image = "candidate" /\ \A p \in Gateway!Probes : answer[c][p] = "candidate"]_gateway
  <2> SUFFICES ASSUME GatewayInv, Gateway!Next, NEW c \in Cutovers,
                      pc[c] # "passed", pc'[c] = "passed"
               PROVE  image = "candidate" /\ \A p \in Gateway!Probes : answer[c][p] = "candidate"
    OBVIOUS
  <2>1. Gateway!Pass(c)
    <3>1. ~Gateway!Probe(c)
      BY ProbeLeads DEF GatewayInv
    <3> QED
      BY <3>1, GatewayMoves
      DEF GatewayInv, Gateway!TypeOK, Gateway!Goto, Gateway!Begin,
        Gateway!Step, Gateway!Checked, Gateway!Pulled, Gateway!Refuse, Gateway!Remove,
        Gateway!Create, Gateway!UpDone, Gateway!Retry, Gateway!Match, Gateway!Fail,
        Gateway!RestoreFails, Gateway!Verify, Gateway!Signal, Gateway!Kill
  <2> QED
    BY <2>1 DEF GatewayInv, CandidateAnswers, Gateway!Pass, Gateway!Probes
<1> QED
  BY <1>1, GatewayHolds, GatewaySteps, PTL
  DEF Spec, PassWasAnswered, Gateway!PassWasAnswered, Gateway!vars, gateway

\* A cutover that fails has restored the legacy image or has said that it has not.
THEOREM GatewayRestores == Spec => RestoredOrTold
<1>1. GatewayInv /\ [Gateway!Next]_gateway =>
        [\A c \in Cutovers : pc[c] \in Gateway!Started /\ pc'[c] = "failed" =>
            image = "legacy" \/ told'[c]]_gateway
  <2> SUFFICES ASSUME GatewayInv, Gateway!Next, NEW c \in Cutovers,
                      pc[c] \in Gateway!Started, pc'[c] = "failed"
               PROVE  image = "legacy" \/ told'[c]
    OBVIOUS
  <2>1. Gateway!Verify(c)
    <3>1. pc'[c] # pc[c]
      BY DEF Gateway!Started, Gateway!InRollback, Gateway!Probes
    <3>2. ~Gateway!Probe(c)
      BY ProbeLeads DEF GatewayInv
    <3> QED
      BY <3>1, <3>2, GatewayMoves
      DEF GatewayInv, Gateway!TypeOK, Gateway!Goto, Gateway!Begin, Gateway!Started,
        Gateway!InRollback, Gateway!Step, Gateway!Checked, Gateway!Pulled, Gateway!Refuse,
        Gateway!Remove, Gateway!Create, Gateway!UpDone, Gateway!Retry, Gateway!Fail,
        Gateway!RestoreFails, Gateway!Signal, Gateway!Kill, Gateway!Match, Gateway!Pass,
        Gateway!Probes
  <2> QED
    BY <2>1 DEF GatewayInv, Gateway!TypeOK, Gateway!Verify
<1> QED
  BY <1>1, GatewayHolds, GatewaySteps, PTL
  DEF Spec, RestoredOrTold, Gateway!RestoredOrTold, Gateway!vars, gateway

\* A cutover starts on the recorded legacy image.
THEOREM GatewayKeepsDrift == Spec => DriftIsKept
<1>1. GatewayInv /\ [Gateway!Next]_gateway =>
        [\A c \in Cutovers : pc[c] \notin Gateway!Started /\ pc'[c] \in Gateway!Started =>
            image = "legacy"]_gateway
  <2> SUFFICES ASSUME GatewayInv, Gateway!Next, NEW c \in Cutovers,
                      pc[c] \notin Gateway!Started, pc'[c] \in Gateway!Started
               PROVE  image = "legacy"
    OBVIOUS
  <2>1. Gateway!Pulled(c)
    <3>1. pc'[c] # pc[c]
      OBVIOUS
    <3>2. ~Gateway!Probe(c)
      BY ProbeLeads DEF GatewayInv, Gateway!Started, Gateway!Probes
    <3> QED
      BY <3>1, <3>2, GatewayMoves
      DEF GatewayInv, Gateway!TypeOK, Gateway!Goto, Gateway!Begin, Gateway!Started,
        Gateway!InRollback, Gateway!Step, Gateway!Checked, Gateway!Refuse,
        Gateway!Remove, Gateway!Create, Gateway!UpDone, Gateway!Retry, Gateway!Fail,
        Gateway!RestoreFails, Gateway!Verify, Gateway!Signal, Gateway!Kill,
        Gateway!Match, Gateway!Pass, Gateway!Probes
  <2> QED
    BY <2>1 DEF GatewayInv, Gateway!Pulled
<1> QED
  BY <1>1, GatewayHolds, GatewaySteps, PTL
  DEF Spec, DriftIsKept, Gateway!DriftIsKept, Gateway!vars, gateway
-----------------------------------------------------------------------------
(* The deployment of intake observability.                                  *)

\* Nine are fewer than ten.
LEMMA OneIsLeft ==
  \A a, b, c, d, e, f, g, h, i : \E v \in 1 .. 10 : v \notin {a, b, c, d, e, f, g, h, i}
<1> SUFFICES ASSUME NEW a, NEW b, NEW c, NEW d, NEW e, NEW f, NEW g, NEW h, NEW i,
                    \A v \in 1 .. 10 : v \in {a, b, c, d, e, f, g, h, i}
             PROVE  FALSE
  BY Zenon
<1>1. \A v \in {1, 2, 3, 4, 5, 6, 7, 8, 9, 10} : v \in {a, b, c, d, e, f, g, h, i}
  OBVIOUS
<1> QED
  BY <1>1, SMTT(100)

\* There is always a value that nothing refers to.
LEMMA FreshIsValue == Intake!Fresh \in Intake!Values
<1>1. \E v \in 1 .. 10 : v \notin Intake!InUse
  BY OneIsLeft DEF Intake!InUse
<1> QED
  BY <1>1 DEF Intake!Fresh, Intake!Values

\* The steps of a deployment, in their order.
Preparing == {"validate", "secret", "pull", "ca", "ca_cert", "server", "server_cert",
              "verify", "files", "render"}

\* What an invocation at its place may rely on.
Placed(p) ==
  /\ ipc[p] \in Preparing \cup Intake!Trapped => op[p] = "deploy"
  /\ ipc[p] \in {"take_down", "forget"} => op[p] # "deploy"
  /\ ipc[p] \in {"pull", "ca", "ca_cert", "server", "server_cert", "verify", "files"} =>
       secret # Intake!None
  /\ ipc[p] = "ca_cert" => caKey # Intake!None /\ caCert = Intake!None
  /\ ipc[p] \in {"server", "server_cert", "verify", "files"} => caCert # Intake!None
  /\ ipc[p] = "server_cert" => key # Intake!None /\ cert = Intake!NoCert
  /\ ipc[p] \in {"checks", "context"} => Intake!Connects
  /\ ipc[p] = "context" => "middleware" \in running
  /\ ipc[p] = "forget" => running = {}

IntakeInv ==
  /\ Intake!TypeOK
  /\ \A p, q \in Invocations : Intake!Active(p) /\ Intake!Active(q) => p = q
  /\ RedeployFits
  /\ \A p \in Invocations : Placed(p)

\* Before the first invocation nothing is deployed, and nothing is claimed.
LEMMA IntakeInit == Init => IntakeInv
<1> SUFFICES ASSUME Intake!Init PROVE IntakeInv
  BY DEF Init
<1>1. Intake!TypeOK
  BY HostAssumption DEF Intake!Init, Intake!TypeOK, Intake!Labels, Intake!IntakeAssumption,
    Intake!None, Intake!Values
<1>2. \A p \in Invocations : ipc[p] = "idle"
  BY DEF Intake!Init
<1>3. RedeployFits
  BY DEF RedeployFits, Intake!RedeployFits, Intake!Init
<1>4. \A p \in Invocations : Placed(p) /\ ~Intake!Active(p)
  BY <1>2 DEF Placed, Intake!Active, Preparing, Intake!Trapped
<1> QED
  BY <1>1, <1>3, <1>4 DEF IntakeInv

\* Whoever is active moves alone.
LEMMA IntakeAlone ==
  ASSUME Intake!TypeOK, NEW p \in Invocations, NEW l \in Intake!Labels,
         Intake!Active(p) \/ \A q \in Invocations : ~Intake!Active(q),
         \A q, r \in Invocations : Intake!Active(q) /\ Intake!Active(r) => q = r,
         Intake!Goto(p, l), Intake!TypeOK', RedeployFits', Placed(p)'
  PROVE  IntakeInv'
<1>1. \A q \in Invocations \ {p} : ipc'[q] = ipc[q] /\ ~Intake!Active(q)
  BY DEF Intake!Goto, Intake!TypeOK, Intake!Active
<1>2. \A q \in Invocations \ {p} : ~Intake!Active(q)' /\ Placed(q)'
  BY <1>1 DEF Intake!Active, Intake!Ended, Placed, Preparing, Intake!Trapped
<1> QED
  BY <1>2 DEF IntakeInv

\* Checks and fetches change no file.
LEMMA PassKeeps ==
  ASSUME IntakeInv, NEW p \in Invocations, Intake!Pass(p)
  PROVE  IntakeInv'
<1> USE DEF Intake!Pass, Intake!At, Intake!Goto, Intake!files, Intake!stack
<1>1. Intake!Active(p) /\ ipc' = [ipc EXCEPT ![p] = ipc'[p]] /\ ipc'[p] \in Intake!Labels
  BY DEF IntakeInv, Intake!TypeOK, Intake!Active, Intake!Ended, Intake!Labels, Intake!Trapped
<1>2. Intake!TypeOK'
  BY <1>1 DEF IntakeInv, Intake!TypeOK, Placed
<1>3. RedeployFits'
  BY <1>1 DEF IntakeInv, Intake!TypeOK, RedeployFits, Intake!RedeployFits, Placed,
    Intake!None, Intake!NoCert, Intake!Values
<1>4. Placed(p)'
  BY <1>1 DEF IntakeInv, Intake!TypeOK, Placed, Preparing, Intake!Trapped, Intake!Connects,
    RedeployFits, Intake!RedeployFits, Intake!None, Intake!NoCert, Intake!Values
<1> QED
  BY <1>1, <1>2, <1>3, <1>4, IntakeAlone DEF IntakeInv

\* A secret is made only where there is none.
LEMMA EnsureSecretKeeps ==
  ASSUME IntakeInv, NEW p \in Invocations, Intake!EnsureSecret(p)
  PROVE  IntakeInv'
<1> USE DEF Intake!EnsureSecret, Intake!At, Intake!Goto, Intake!files, Intake!stack
<1>1. Intake!Active(p) /\ ipc' = [ipc EXCEPT ![p] = ipc'[p]] /\ ipc'[p] \in Intake!Labels
  BY DEF IntakeInv, Intake!TypeOK, Intake!Active, Intake!Ended, Intake!Labels, Intake!Trapped
<1>2. Intake!TypeOK'
  BY <1>1, FreshIsValue DEF IntakeInv, Intake!TypeOK, Placed
<1>3. RedeployFits'
  BY <1>1 DEF IntakeInv, Intake!TypeOK, RedeployFits, Intake!RedeployFits, Placed,
    Intake!None, Intake!NoCert, Intake!Values
<1>4. Placed(p)'
  BY <1>1, FreshIsValue DEF IntakeInv, Intake!TypeOK, Placed, Preparing, Intake!Trapped, Intake!Connects,
    RedeployFits, Intake!RedeployFits, Intake!None, Intake!NoCert, Intake!Values
<1> QED
  BY <1>1, <1>2, <1>3, <1>4, IntakeAlone DEF IntakeInv

\* An authority's key is made only before its certificate.
LEMMA EnsureAuthorityKeeps ==
  ASSUME IntakeInv, NEW p \in Invocations, Intake!EnsureAuthority(p)
  PROVE  IntakeInv'
<1> USE DEF Intake!EnsureAuthority, Intake!At, Intake!Goto, Intake!files, Intake!stack
<1>1. Intake!Active(p) /\ ipc' = [ipc EXCEPT ![p] = ipc'[p]] /\ ipc'[p] \in Intake!Labels
  BY DEF IntakeInv, Intake!TypeOK, Intake!Active, Intake!Ended, Intake!Labels, Intake!Trapped
<1>2. Intake!TypeOK'
  BY <1>1, FreshIsValue DEF IntakeInv, Intake!TypeOK, Placed
<1>3. RedeployFits'
  BY <1>1 DEF IntakeInv, Intake!TypeOK, RedeployFits, Intake!RedeployFits, Placed,
    Intake!None, Intake!NoCert, Intake!Values
<1>4. Placed(p)'
  BY <1>1, FreshIsValue DEF IntakeInv, Intake!TypeOK, Placed, Preparing, Intake!Trapped, Intake!Connects,
    RedeployFits, Intake!RedeployFits, Intake!None, Intake!NoCert, Intake!Values
<1> QED
  BY <1>1, <1>2, <1>3, <1>4, IntakeAlone DEF IntakeInv

\* The certificate is of the key that is there, and no server has one yet.
LEMMA SignAuthorityKeeps ==
  ASSUME IntakeInv, NEW p \in Invocations, Intake!SignAuthority(p)
  PROVE  IntakeInv'
<1> USE DEF Intake!SignAuthority, Intake!At, Intake!Goto, Intake!files, Intake!stack
<1>1. Intake!Active(p) /\ ipc' = [ipc EXCEPT ![p] = ipc'[p]] /\ ipc'[p] \in Intake!Labels
  BY DEF IntakeInv, Intake!TypeOK, Intake!Active, Intake!Ended, Intake!Labels, Intake!Trapped
<1>2. Intake!TypeOK'
  BY <1>1 DEF IntakeInv, Intake!TypeOK, Placed
<1>3. RedeployFits'
  BY <1>1 DEF IntakeInv, Intake!TypeOK, RedeployFits, Intake!RedeployFits, Placed,
    Intake!None, Intake!NoCert, Intake!Values
<1>4. Placed(p)'
  BY <1>1 DEF IntakeInv, Intake!TypeOK, Placed, Preparing, Intake!Trapped, Intake!Connects,
    RedeployFits, Intake!RedeployFits, Intake!None, Intake!NoCert, Intake!Values
<1> QED
  BY <1>1, <1>2, <1>3, <1>4, IntakeAlone DEF IntakeInv

\* A server's key is made only before its certificate.
LEMMA EnsureServerKeeps ==
  ASSUME IntakeInv, NEW p \in Invocations, Intake!EnsureServer(p)
  PROVE  IntakeInv'
<1> USE DEF Intake!EnsureServer, Intake!At, Intake!Goto, Intake!files, Intake!stack
<1>1. Intake!Active(p) /\ ipc' = [ipc EXCEPT ![p] = ipc'[p]] /\ ipc'[p] \in Intake!Labels
  BY DEF IntakeInv, Intake!TypeOK, Intake!Active, Intake!Ended, Intake!Labels, Intake!Trapped
<1>2. Intake!TypeOK'
  BY <1>1, FreshIsValue DEF IntakeInv, Intake!TypeOK, Placed
<1>3. RedeployFits'
  BY <1>1 DEF IntakeInv, Intake!TypeOK, RedeployFits, Intake!RedeployFits, Placed,
    Intake!None, Intake!NoCert, Intake!Values
<1>4. Placed(p)'
  BY <1>1, FreshIsValue DEF IntakeInv, Intake!TypeOK, Placed, Preparing, Intake!Trapped, Intake!Connects,
    RedeployFits, Intake!RedeployFits, Intake!None, Intake!NoCert, Intake!Values
<1> QED
  BY <1>1, <1>2, <1>3, <1>4, IntakeAlone DEF IntakeInv

\* The certificate is of the key that is there and by the authority that is there.
LEMMA SignServerKeeps ==
  ASSUME IntakeInv, NEW p \in Invocations, Intake!SignServer(p)
  PROVE  IntakeInv'
<1> USE DEF Intake!SignServer, Intake!At, Intake!Goto, Intake!files, Intake!stack
<1>1. Intake!Active(p) /\ ipc' = [ipc EXCEPT ![p] = ipc'[p]] /\ ipc'[p] \in Intake!Labels
  BY DEF IntakeInv, Intake!TypeOK, Intake!Active, Intake!Ended, Intake!Labels, Intake!Trapped
<1>2. Intake!TypeOK'
  BY <1>1 DEF IntakeInv, Intake!TypeOK, Placed
<1>3. RedeployFits'
  BY <1>1 DEF IntakeInv, Intake!TypeOK, RedeployFits, Intake!RedeployFits, Placed,
    Intake!None, Intake!NoCert, Intake!Values
<1>4. Placed(p)'
  BY <1>1 DEF IntakeInv, Intake!TypeOK, Placed, Preparing, Intake!Trapped, Intake!Connects,
    RedeployFits, Intake!RedeployFits, Intake!None, Intake!NoCert, Intake!Values
<1> QED
  BY <1>1, <1>2, <1>3, <1>4, IntakeAlone DEF IntakeInv

\* Verification changes nothing.
LEMMA VerifyServerKeeps ==
  ASSUME IntakeInv, NEW p \in Invocations, Intake!VerifyServer(p)
  PROVE  IntakeInv'
<1> USE DEF Intake!VerifyServer, Intake!At, Intake!Goto, Intake!files, Intake!stack
<1>1. Intake!Active(p) /\ ipc' = [ipc EXCEPT ![p] = ipc'[p]] /\ ipc'[p] \in Intake!Labels
  BY DEF IntakeInv, Intake!TypeOK, Intake!Active, Intake!Ended, Intake!Labels, Intake!Trapped
<1>2. Intake!TypeOK'
  BY <1>1 DEF IntakeInv, Intake!TypeOK, Placed
<1>3. RedeployFits'
  BY <1>1 DEF IntakeInv, Intake!TypeOK, RedeployFits, Intake!RedeployFits, Placed,
    Intake!None, Intake!NoCert, Intake!Values
<1>4. Placed(p)'
  BY <1>1 DEF IntakeInv, Intake!TypeOK, Placed, Preparing, Intake!Trapped, Intake!Connects,
    RedeployFits, Intake!RedeployFits, Intake!None, Intake!NoCert, Intake!Values
<1> QED
  BY <1>1, <1>2, <1>3, <1>4, IntakeAlone DEF IntakeInv

\* What is written is there to be written.
LEMMA WriteFilesKeeps ==
  ASSUME IntakeInv, NEW p \in Invocations, Intake!WriteFiles(p)
  PROVE  IntakeInv'
<1> USE DEF Intake!WriteFiles, Intake!At, Intake!Goto, Intake!files, Intake!stack
<1>1. Intake!Active(p) /\ ipc' = [ipc EXCEPT ![p] = ipc'[p]] /\ ipc'[p] \in Intake!Labels
  BY DEF IntakeInv, Intake!TypeOK, Intake!Active, Intake!Ended, Intake!Labels, Intake!Trapped
<1>2. Intake!TypeOK'
  BY <1>1 DEF IntakeInv, Intake!TypeOK, Placed
<1>3. RedeployFits'
  BY <1>1 DEF IntakeInv, Intake!TypeOK, RedeployFits, Intake!RedeployFits, Placed,
    Intake!None, Intake!NoCert, Intake!Values
<1>4. Placed(p)'
  BY <1>1 DEF IntakeInv, Intake!TypeOK, Placed, Preparing, Intake!Trapped, Intake!Connects,
    RedeployFits, Intake!RedeployFits, Intake!None, Intake!NoCert, Intake!Values
<1> QED
  BY <1>1, <1>2, <1>3, <1>4, IntakeAlone DEF IntakeInv

\* The database stays while containers go.
LEMMA DownKeeps ==
  ASSUME IntakeInv, NEW p \in Invocations, Intake!Down(p)
  PROVE  IntakeInv'
<1> USE DEF Intake!Down, Intake!At, Intake!Goto, Intake!files, Intake!stack
<1>1. Intake!Active(p) /\ ipc' = [ipc EXCEPT ![p] = ipc'[p]] /\ ipc'[p] \in Intake!Labels
  BY DEF IntakeInv, Intake!TypeOK, Intake!Active, Intake!Ended, Intake!Labels, Intake!Trapped
<1>2. Intake!TypeOK'
  BY <1>1 DEF IntakeInv, Intake!TypeOK, Placed
<1>3. RedeployFits'
  BY <1>1 DEF IntakeInv, Intake!TypeOK, RedeployFits, Intake!RedeployFits, Placed,
    Intake!None, Intake!NoCert, Intake!Values
<1>4. Placed(p)'
  BY <1>1 DEF IntakeInv, Intake!TypeOK, Placed, Preparing, Intake!Trapped, Intake!Connects,
    RedeployFits, Intake!RedeployFits, Intake!None, Intake!NoCert, Intake!Values
<1> QED
  BY <1>1, <1>2, <1>3, <1>4, IntakeAlone DEF IntakeInv

\* An empty volume gets the secret's password.
LEMMA StartDataKeeps ==
  ASSUME IntakeInv, NEW p \in Invocations, Intake!StartData(p)
  PROVE  IntakeInv'
<1> USE DEF Intake!StartData, Intake!At, Intake!Goto, Intake!files, Intake!stack
<1>1. Intake!Active(p) /\ ipc' = [ipc EXCEPT ![p] = ipc'[p]] /\ ipc'[p] \in Intake!Labels
  BY DEF IntakeInv, Intake!TypeOK, Intake!Active, Intake!Ended, Intake!Labels, Intake!Trapped
<1>2. Intake!TypeOK'
  BY <1>1 DEF IntakeInv, Intake!TypeOK, Placed, Intake!DataUp
<1>3. RedeployFits'
  BY <1>1 DEF IntakeInv, Intake!TypeOK, RedeployFits, Intake!RedeployFits, Placed,
    Intake!None, Intake!NoCert, Intake!Values, Intake!DataUp
<1>4. Placed(p)'
  BY <1>1 DEF IntakeInv, Intake!TypeOK, Placed, Preparing, Intake!Trapped, Intake!Connects,
    RedeployFits, Intake!RedeployFits, Intake!None, Intake!NoCert, Intake!Values, Intake!DataUp
<1> QED
  BY <1>1, <1>2, <1>3, <1>4, IntakeAlone DEF IntakeInv

\* Migrations change none of it.
LEMMA MigrateKeeps ==
  ASSUME IntakeInv, NEW p \in Invocations, Intake!Migrate(p)
  PROVE  IntakeInv'
<1> USE DEF Intake!Migrate, Intake!At, Intake!Goto, Intake!files, Intake!stack
<1>1. Intake!Active(p) /\ ipc' = [ipc EXCEPT ![p] = ipc'[p]] /\ ipc'[p] \in Intake!Labels
  BY DEF IntakeInv, Intake!TypeOK, Intake!Active, Intake!Ended, Intake!Labels, Intake!Trapped
<1>2. Intake!TypeOK'
  BY <1>1 DEF IntakeInv, Intake!TypeOK, Placed
<1>3. RedeployFits'
  BY <1>1 DEF IntakeInv, Intake!TypeOK, RedeployFits, Intake!RedeployFits, Placed,
    Intake!None, Intake!NoCert, Intake!Values
<1>4. Placed(p)'
  BY <1>1 DEF IntakeInv, Intake!TypeOK, Placed, Preparing, Intake!Trapped, Intake!Connects,
    RedeployFits, Intake!RedeployFits, Intake!None, Intake!NoCert, Intake!Values
<1> QED
  BY <1>1, <1>2, <1>3, <1>4, IntakeAlone DEF IntakeInv

\* A container more.
LEMMA StartMiddlewareKeeps ==
  ASSUME IntakeInv, NEW p \in Invocations, Intake!StartMiddleware(p)
  PROVE  IntakeInv'
<1> USE DEF Intake!StartMiddleware, Intake!At, Intake!Goto, Intake!files, Intake!stack
<1>1. Intake!Active(p) /\ ipc' = [ipc EXCEPT ![p] = ipc'[p]] /\ ipc'[p] \in Intake!Labels
  BY DEF IntakeInv, Intake!TypeOK, Intake!Active, Intake!Ended, Intake!Labels, Intake!Trapped
<1>2. Intake!TypeOK'
  BY <1>1 DEF IntakeInv, Intake!TypeOK, Placed
<1>3. RedeployFits'
  BY <1>1 DEF IntakeInv, Intake!TypeOK, RedeployFits, Intake!RedeployFits, Placed,
    Intake!None, Intake!NoCert, Intake!Values
<1>4. Placed(p)'
  BY <1>1 DEF IntakeInv, Intake!TypeOK, Placed, Preparing, Intake!Trapped, Intake!Connects,
    RedeployFits, Intake!RedeployFits, Intake!None, Intake!NoCert, Intake!Values
<1> QED
  BY <1>1, <1>2, <1>3, <1>4, IntakeAlone DEF IntakeInv

\* Health means that middleware reaches its database.
LEMMA HealthyKeeps ==
  ASSUME IntakeInv, NEW p \in Invocations, Intake!Healthy(p)
  PROVE  IntakeInv'
<1> USE DEF Intake!Healthy, Intake!At, Intake!Goto, Intake!files, Intake!stack
<1>1. Intake!Active(p) /\ ipc' = [ipc EXCEPT ![p] = ipc'[p]] /\ ipc'[p] \in Intake!Labels
  BY DEF IntakeInv, Intake!TypeOK, Intake!Active, Intake!Ended, Intake!Labels, Intake!Trapped
<1>2. Intake!TypeOK'
  BY <1>1 DEF IntakeInv, Intake!TypeOK, Placed, Intake!Connects
<1>3. RedeployFits'
  BY <1>1 DEF IntakeInv, Intake!TypeOK, RedeployFits, Intake!RedeployFits, Placed,
    Intake!None, Intake!NoCert, Intake!Values, Intake!Connects
<1>4. Placed(p)'
  BY <1>1 DEF IntakeInv, Intake!TypeOK, Placed, Preparing, Intake!Trapped, Intake!Connects,
    RedeployFits, Intake!RedeployFits, Intake!None, Intake!NoCert, Intake!Values, Intake!Connects
<1> QED
  BY <1>1, <1>2, <1>3, <1>4, IntakeAlone DEF IntakeInv

\* Another look, of which there are Polls.
LEMMA PollKeeps ==
  ASSUME IntakeInv, NEW p \in Invocations, Intake!Poll(p)
  PROVE  IntakeInv'
<1> USE DEF Intake!Poll, Intake!At, Intake!Goto, Intake!files, Intake!stack
<1>1. Intake!Active(p) /\ ipc' = [ipc EXCEPT ![p] = ipc'[p]] /\ ipc'[p] \in Intake!Labels
  BY DEF IntakeInv, Intake!TypeOK, Intake!Active, Intake!Ended, Intake!Labels, Intake!Trapped
<1>2. Intake!TypeOK'
  BY <1>1, HostAssumption DEF IntakeInv, Intake!TypeOK, Placed, Intake!IntakeAssumption
<1>3. RedeployFits'
  BY <1>1 DEF IntakeInv, Intake!TypeOK, RedeployFits, Intake!RedeployFits, Placed,
    Intake!None, Intake!NoCert, Intake!Values, Intake!IntakeAssumption
<1>4. Placed(p)'
  BY <1>1, HostAssumption DEF IntakeInv, Intake!TypeOK, Placed, Preparing, Intake!Trapped, Intake!Connects,
    RedeployFits, Intake!RedeployFits, Intake!None, Intake!NoCert, Intake!Values, Intake!IntakeAssumption
<1> QED
  BY <1>1, <1>2, <1>3, <1>4, IntakeAlone DEF IntakeInv

\* The container is there when the checks are over.
LEMMA CheckedKeeps ==
  ASSUME IntakeInv, NEW p \in Invocations, Intake!Checked(p)
  PROVE  IntakeInv'
<1> USE DEF Intake!Checked, Intake!At, Intake!Goto, Intake!files, Intake!stack
<1>1. Intake!Active(p) /\ ipc' = [ipc EXCEPT ![p] = ipc'[p]] /\ ipc'[p] \in Intake!Labels
  BY DEF IntakeInv, Intake!TypeOK, Intake!Active, Intake!Ended, Intake!Labels, Intake!Trapped
<1>2. Intake!TypeOK'
  BY <1>1 DEF IntakeInv, Intake!TypeOK, Placed
<1>3. RedeployFits'
  BY <1>1 DEF IntakeInv, Intake!TypeOK, RedeployFits, Intake!RedeployFits, Placed,
    Intake!None, Intake!NoCert, Intake!Values
<1>4. Placed(p)'
  BY <1>1 DEF IntakeInv, Intake!TypeOK, Placed, Preparing, Intake!Trapped, Intake!Connects,
    RedeployFits, Intake!RedeployFits, Intake!None, Intake!NoCert, Intake!Values
<1> QED
  BY <1>1, <1>2, <1>3, <1>4, IntakeAlone DEF IntakeInv

\* The context is all that is written.
LEMMA WriteContextKeeps ==
  ASSUME IntakeInv, NEW p \in Invocations, Intake!WriteContext(p)
  PROVE  IntakeInv'
<1> USE DEF Intake!WriteContext, Intake!At, Intake!Goto, Intake!files, Intake!stack
<1>1. Intake!Active(p) /\ ipc' = [ipc EXCEPT ![p] = ipc'[p]] /\ ipc'[p] \in Intake!Labels
  BY DEF IntakeInv, Intake!TypeOK, Intake!Active, Intake!Ended, Intake!Labels, Intake!Trapped
<1>2. Intake!TypeOK'
  BY <1>1 DEF IntakeInv, Intake!TypeOK, Placed
<1>3. RedeployFits'
  BY <1>1 DEF IntakeInv, Intake!TypeOK, RedeployFits, Intake!RedeployFits, Placed,
    Intake!None, Intake!NoCert, Intake!Values
<1>4. Placed(p)'
  BY <1>1 DEF IntakeInv, Intake!TypeOK, Placed, Preparing, Intake!Trapped, Intake!Connects,
    RedeployFits, Intake!RedeployFits, Intake!None, Intake!NoCert, Intake!Values
<1> QED
  BY <1>1, <1>2, <1>3, <1>4, IntakeAlone DEF IntakeInv

\* Nothing is running when the stack has been taken down.
LEMMA TakeDownKeeps ==
  ASSUME IntakeInv, NEW p \in Invocations, Intake!TakeDown(p)
  PROVE  IntakeInv'
<1> USE DEF Intake!TakeDown, Intake!At, Intake!Goto, Intake!files, Intake!stack
<1>1. Intake!Active(p) /\ ipc' = [ipc EXCEPT ![p] = ipc'[p]] /\ ipc'[p] \in Intake!Labels
  BY DEF IntakeInv, Intake!TypeOK, Intake!Active, Intake!Ended, Intake!Labels, Intake!Trapped
<1>2. Intake!TypeOK'
  BY <1>1 DEF IntakeInv, Intake!TypeOK, Placed, Intake!NoEnv
<1>3. RedeployFits'
  BY <1>1 DEF IntakeInv, Intake!TypeOK, RedeployFits, Intake!RedeployFits, Placed,
    Intake!None, Intake!NoCert, Intake!Values, Intake!NoEnv
<1>4. Placed(p)'
  BY <1>1 DEF IntakeInv, Intake!TypeOK, Placed, Preparing, Intake!Trapped, Intake!Connects,
    RedeployFits, Intake!RedeployFits, Intake!None, Intake!NoCert, Intake!Values, Intake!NoEnv
<1> QED
  BY <1>1, <1>2, <1>3, <1>4, IntakeAlone DEF IntakeInv

\* A context less.
LEMMA ForgetKeeps ==
  ASSUME IntakeInv, NEW p \in Invocations, Intake!Forget(p)
  PROVE  IntakeInv'
<1> USE DEF Intake!Forget, Intake!At, Intake!Goto, Intake!files, Intake!stack
<1>1. Intake!Active(p) /\ ipc' = [ipc EXCEPT ![p] = ipc'[p]] /\ ipc'[p] \in Intake!Labels
  BY DEF IntakeInv, Intake!TypeOK, Intake!Active, Intake!Ended, Intake!Labels, Intake!Trapped
<1>2. Intake!TypeOK'
  BY <1>1 DEF IntakeInv, Intake!TypeOK, Placed
<1>3. RedeployFits'
  BY <1>1 DEF IntakeInv, Intake!TypeOK, RedeployFits, Intake!RedeployFits, Placed,
    Intake!None, Intake!NoCert, Intake!Values
<1>4. Placed(p)'
  BY <1>1 DEF IntakeInv, Intake!TypeOK, Placed, Preparing, Intake!Trapped, Intake!Connects,
    RedeployFits, Intake!RedeployFits, Intake!None, Intake!NoCert, Intake!Values
<1> QED
  BY <1>1, <1>2, <1>3, <1>4, IntakeAlone DEF IntakeInv

\* The trap keeps the volumes.
LEMMA RollBackKeeps ==
  ASSUME IntakeInv, NEW p \in Invocations, Intake!RollBack(p)
  PROVE  IntakeInv'
<1> USE DEF Intake!RollBack, Intake!At, Intake!Goto, Intake!files, Intake!stack
<1>1. Intake!Active(p) /\ ipc' = [ipc EXCEPT ![p] = ipc'[p]] /\ ipc'[p] \in Intake!Labels
  BY DEF IntakeInv, Intake!TypeOK, Intake!Active, Intake!Ended, Intake!Labels, Intake!Trapped
<1>2. Intake!TypeOK'
  BY <1>1 DEF IntakeInv, Intake!TypeOK, Placed
<1>3. RedeployFits'
  BY <1>1 DEF IntakeInv, Intake!TypeOK, RedeployFits, Intake!RedeployFits, Placed,
    Intake!None, Intake!NoCert, Intake!Values
<1>4. Placed(p)'
  BY <1>1 DEF IntakeInv, Intake!TypeOK, Placed, Preparing, Intake!Trapped, Intake!Connects,
    RedeployFits, Intake!RedeployFits, Intake!None, Intake!NoCert, Intake!Values
<1> QED
  BY <1>1, <1>2, <1>3, <1>4, IntakeAlone DEF IntakeInv

\* A command that fails may have done its work or some of it.
LEMMA FailKeeps ==
  ASSUME IntakeInv, NEW p \in Invocations, Intake!Fail(p)
  PROVE  IntakeInv'
<1> USE DEF Intake!Fail, Intake!At, Intake!Goto, Intake!files, Intake!stack
<1>1. Intake!Active(p) /\ ipc' = [ipc EXCEPT ![p] = ipc'[p]] /\ ipc'[p] \in Intake!Labels
  BY DEF IntakeInv, Intake!TypeOK, Intake!Active, Intake!Ended, Intake!Labels, Intake!Trapped
<1>2. Intake!TypeOK'
  <2>1. running' \subseteq {"postgres", "middleware"} /\ volume' \in {volume, secret, Intake!None}
    BY DEF IntakeInv, Intake!TypeOK, Intake!Partly, Intake!DataUp
  <2>2. context' \in {"absent", "cut", "PASS"}
    BY DEF IntakeInv, Intake!TypeOK, Intake!Partly
  <2>3. UNCHANGED <<secret, caKey, caCert, key, cert, env, op, polls>>
    BY DEF Intake!Partly
  <2>4. ipc' \in [Invocations -> Intake!Labels]
    BY <1>1 DEF IntakeInv, Intake!TypeOK
  <2> QED
    BY <2>1, <2>2, <2>3, <2>4 DEF IntakeInv, Intake!TypeOK
<1>3. RedeployFits'
  BY <1>1 DEF IntakeInv, Intake!TypeOK, RedeployFits, Intake!RedeployFits, Placed,
    Intake!None, Intake!NoCert, Intake!Values, Intake!Partly, Intake!DataUp
<1>4. Placed(p)'
  BY <1>1 DEF IntakeInv, Intake!TypeOK, Placed, Preparing, Intake!Trapped, Intake!Connects,
    RedeployFits, Intake!RedeployFits, Intake!None, Intake!NoCert, Intake!Values, Intake!Partly, Intake!DataUp
<1> QED
  BY <1>1, <1>2, <1>3, <1>4, IntakeAlone DEF IntakeInv

\* So may one that is killed.
LEMMA KillKeeps ==
  ASSUME IntakeInv, NEW p \in Invocations, Intake!Kill(p)
  PROVE  IntakeInv'
<1> USE DEF Intake!Kill, Intake!At, Intake!Goto, Intake!files, Intake!stack
<1>1. Intake!Active(p) /\ ipc' = [ipc EXCEPT ![p] = ipc'[p]] /\ ipc'[p] \in Intake!Labels
  BY DEF IntakeInv, Intake!TypeOK, Intake!Active, Intake!Ended, Intake!Labels, Intake!Trapped
<1>2. Intake!TypeOK'
  <2>1. running' \subseteq {"postgres", "middleware"} /\ volume' \in {volume, secret, Intake!None}
    BY DEF IntakeInv, Intake!TypeOK, Intake!Partly, Intake!DataUp
  <2>2. context' \in {"absent", "cut", "PASS"}
    BY DEF IntakeInv, Intake!TypeOK, Intake!Partly
  <2>3. UNCHANGED <<secret, caKey, caCert, key, cert, env, op, polls>>
    BY DEF Intake!Partly
  <2>4. ipc' \in [Invocations -> Intake!Labels]
    BY <1>1 DEF IntakeInv, Intake!TypeOK
  <2> QED
    BY <2>1, <2>2, <2>3, <2>4 DEF IntakeInv, Intake!TypeOK
<1>3. RedeployFits'
  BY <1>1 DEF IntakeInv, Intake!TypeOK, RedeployFits, Intake!RedeployFits, Placed,
    Intake!None, Intake!NoCert, Intake!Values, Intake!Partly, Intake!DataUp
<1>4. Placed(p)'
  BY <1>1 DEF IntakeInv, Intake!TypeOK, Placed, Preparing, Intake!Trapped, Intake!Connects,
    RedeployFits, Intake!RedeployFits, Intake!None, Intake!NoCert, Intake!Values, Intake!Partly, Intake!DataUp
<1> QED
  BY <1>1, <1>2, <1>3, <1>4, IntakeAlone DEF IntakeInv

\* Who is invoked is alone.
LEMMA InvokeKeeps ==
  ASSUME IntakeInv, NEW p \in Invocations, Intake!Invoke(p)
  PROVE  IntakeInv'
<1> USE DEF Intake!Invoke, Intake!Goto, Intake!files, Intake!stack
<1>1. /\ \A q \in Invocations : ~Intake!Active(q)
      /\ ipc' = [ipc EXCEPT ![p] = ipc'[p]] /\ ipc'[p] \in {"validate", "take_down"}
      /\ ipc'[p] = "validate" <=> op'[p] = "deploy"
  BY DEF IntakeInv, Intake!TypeOK
<1>2. Intake!TypeOK'
  BY <1>1 DEF IntakeInv, Intake!TypeOK, Intake!Labels
<1>3. RedeployFits'
  BY DEF IntakeInv, RedeployFits, Intake!RedeployFits
<1>4. Placed(p)'
  BY <1>1 DEF Placed, Preparing, Intake!Trapped
<1>5. ipc'[p] \in Intake!Labels
  BY <1>1 DEF Intake!Labels
<1> QED
  BY <1>1, <1>2, <1>3, <1>4, <1>5, IntakeAlone DEF IntakeInv

\* Every step of the deployments keeps IntakeInv.
LEMMA IntakePreserved ==
  ASSUME IntakeInv, [Intake!Next]_(Intake!vars)
  PROVE  IntakeInv'
<1>1. ASSUME NEW p \in Invocations, Intake!Step(p) PROVE IntakeInv'
  BY <1>1, PassKeeps, EnsureSecretKeeps, EnsureAuthorityKeeps, SignAuthorityKeeps,
    EnsureServerKeeps, SignServerKeeps, VerifyServerKeeps, WriteFilesKeeps, DownKeeps,
    StartDataKeeps, MigrateKeeps, StartMiddlewareKeeps, HealthyKeeps, PollKeeps,
    CheckedKeeps, WriteContextKeeps, TakeDownKeeps, ForgetKeeps, RollBackKeeps, FailKeeps
  DEF Intake!Step
<1>2. CASE UNCHANGED Intake!vars
  BY <1>2 DEF Intake!vars, Intake!files, Intake!stack, IntakeInv, Intake!TypeOK, Intake!Active, RedeployFits,
    Intake!RedeployFits, Placed, Intake!Connects
<1>3. CASE Intake!AllEnded
  BY <1>2, <1>3 DEF Intake!AllEnded
<1> QED
  BY <1>1, <1>2, <1>3, InvokeKeeps, KillKeeps DEF Intake!Next

\* A step of the hosts is one of intake, or leaves it alone.
LEMMA IntakeSteps == [Next]_vars => [Intake!Next]_(Intake!vars)
  BY DEF Next, GatewayNext, IntakeNext, BackupNext, StagingNext, vars, intake,
    Intake!vars, Intake!files, Intake!stack

\* What IntakeInv says of deploy_intake_observability_staging.sh holds throughout.
LEMMA IntakeHolds == Spec => []IntakeInv
  BY IntakeInit, IntakeSteps, IntakePreserved, PTL DEF Spec

\* What one deployment left, wherever it was killed, the next one can use.
THEOREM IntakeFits == Spec => []RedeployFits
<1>1. IntakeInv => RedeployFits
  BY DEF IntakeInv
<1> QED
  BY <1>1, IntakeHolds, PTL

\* Only a reset takes the database.
THEOREM IntakeDataSurvives == Spec => DataSurvives
<1>1. IntakeInv /\ [Intake!Next]_(Intake!vars) =>
        [volume # Intake!None /\ volume' # volume =>
           \E p \in Invocations : Intake!Active(p) /\ op[p] = "reset"]_(Intake!vars)
  <2> SUFFICES ASSUME IntakeInv, Intake!Next, volume # Intake!None, volume' # volume
               PROVE  \E p \in Invocations : Intake!Active(p) /\ op[p] = "reset"
    OBVIOUS
  <2>1. PICK p \in Invocations :
          Intake!TakeDown(p) \/ ((Intake!Fail(p) \/ Intake!Kill(p)) /\ ipc[p] = "take_down")
    BY DEF Intake!Next, Intake!Step, Intake!AllEnded, Intake!vars, Intake!files,
      Intake!stack, Intake!Invoke, Intake!Pass, Intake!EnsureSecret,
      Intake!EnsureAuthority, Intake!SignAuthority, Intake!EnsureServer,
      Intake!SignServer, Intake!VerifyServer, Intake!WriteFiles, Intake!Down,
      Intake!StartData, Intake!DataUp, Intake!Migrate, Intake!StartMiddleware,
      Intake!Healthy, Intake!Poll, Intake!Checked, Intake!WriteContext, Intake!Forget,
      Intake!RollBack, Intake!Fail, Intake!Kill, Intake!Partly
  <2>2. ipc[p] = "take_down"
    BY <2>1 DEF Intake!TakeDown, Intake!At
  <2>3. op[p] = "reset"
    BY <2>1, <2>2 DEF Intake!TakeDown, Intake!Fail, Intake!Kill, Intake!Partly,
      Intake!DataUp, Intake!stack
  <2> QED
    BY <2>2, <2>3 DEF Intake!Active, Intake!Ended
<1> QED
  BY <1>1, IntakeHolds, IntakeSteps, PTL
  DEF Spec, DataSurvives, Intake!DataSurvives

\* PASS of a deployment is said of a middleware that reaches its database, PASS of
\* a rollback or a reset of a stack that is down.
THEOREM IntakeServes == Spec => IntakePassIsServed
<1>1. IntakeInv /\ [Intake!Next]_(Intake!vars) =>
        [\A p \in Invocations : ipc[p] # "passed" /\ ipc'[p] = "passed" =>
           IF op[p] = "deploy"
           THEN "middleware" \in running /\ Intake!Connects /\ context' = "PASS"
           ELSE running = {} /\ context' = "absent"]_(Intake!vars)
  <2> SUFFICES ASSUME IntakeInv, Intake!Next, NEW p \in Invocations,
                      ipc[p] # "passed", ipc'[p] = "passed"
               PROVE  IF op[p] = "deploy"
                      THEN "middleware" \in running /\ Intake!Connects /\ context' = "PASS"
                      ELSE running = {} /\ context' = "absent"
    OBVIOUS
  <2>1. PICK q \in Invocations : Intake!Invoke(q) \/ Intake!Step(q) \/ Intake!Kill(q)
    BY DEF Intake!Next, Intake!AllEnded, Intake!vars
  <2>2. ipc' = [ipc EXCEPT ![q] = ipc'[q]]
    BY <2>1 DEF IntakeInv, Intake!TypeOK, Intake!Goto, Intake!At, Intake!Step,
      Intake!Invoke, Intake!Pass, Intake!EnsureSecret, Intake!EnsureAuthority,
      Intake!SignAuthority, Intake!EnsureServer, Intake!SignServer, Intake!VerifyServer,
      Intake!WriteFiles, Intake!Down, Intake!StartData, Intake!Migrate,
      Intake!StartMiddleware, Intake!Healthy, Intake!Poll, Intake!Checked,
      Intake!WriteContext, Intake!TakeDown, Intake!Forget, Intake!RollBack,
      Intake!Fail, Intake!Kill
  <2>3. q = p
    BY <2>2 DEF IntakeInv, Intake!TypeOK
  <2>4. Intake!WriteContext(p) \/ Intake!Forget(p)
    BY <2>1, <2>3 DEF IntakeInv, Intake!TypeOK, Intake!Goto, Intake!At, Intake!Step,
      Intake!Invoke, Intake!Pass, Intake!EnsureSecret, Intake!EnsureAuthority,
      Intake!SignAuthority, Intake!EnsureServer, Intake!SignServer, Intake!VerifyServer,
      Intake!WriteFiles, Intake!Down, Intake!StartData, Intake!Migrate,
      Intake!StartMiddleware, Intake!Healthy, Intake!Poll, Intake!Checked,
      Intake!TakeDown, Intake!RollBack, Intake!Fail, Intake!Kill
  <2>5. CASE Intake!WriteContext(p)
    BY <2>5 DEF Intake!WriteContext, Intake!At, IntakeInv, Placed, Intake!Trapped
  <2>6. CASE Intake!Forget(p)
    BY <2>6 DEF Intake!Forget, Intake!At, IntakeInv, Placed
  <2> QED
    BY <2>4, <2>5, <2>6
<1> QED
  BY <1>1, IntakeHolds, IntakeSteps, PTL
  DEF Spec, IntakePassIsServed, Intake!PassIsServed
=============================================================================
