-------------------------- MODULE CertifiedRelease --------------------------
(***************************************************************************)
(* What release certification promises, without saying how: a candidate is *)
(* certified in a mode only while the environment really runs it, and it   *)
(* receives production traffic only after it was certified in staging and  *)
(* in a rollback rehearsal.  Deployments, failures and rollbacks are free  *)
(* to do anything else.                                                    *)
(***************************************************************************)

CONSTANTS
  Manifests,       \* candidates
  Environments,    \* what a staging host can run, as a whole
  Candidate,       \* the environment that is exactly one candidate
  None             \* no candidate receives production traffic

VARIABLES
  staging,         \* what the staging host runs
  live,            \* the candidate production canary traffic is sent to
  certified        \* the pairs <<mode, candidate>> certified so far

vars == <<staging, live, certified>>

Init == live = None /\ certified = {} /\ staging \in Environments

\* Staging may come to run anything, complete or not.
Redeploy == staging' \in Environments /\ UNCHANGED <<live, certified>>

\* A certificate about staging is given in a state in which it is true.
CertifyStaging(m) ==
  /\ staging = Candidate[m]
  /\ certified' = certified \cup {<<"staging", m>>}
  /\ UNCHANGED <<staging, live>>

\* A rehearsal starts from a certified candidate and ends with it restored.
CertifyRehearsal(m) ==
  /\ <<"staging", m>> \in certified
  /\ staging = Candidate[m]
  /\ certified' = certified \cup {<<"rollback-rehearsal", m>>}
  /\ UNCHANGED <<staging, live>>

\* Production traffic reaches only a candidate with both certificates.
GoLive(m) ==
  /\ {"staging", "rollback-rehearsal"} \X {m} \subseteq certified
  /\ live' = m
  /\ UNCHANGED <<staging, certified>>

\* A canary is certified while it receives traffic.
CertifyCanary(m) ==
  /\ live = m
  /\ certified' = certified \cup {<<"production-readonly-canary", m>>}
  /\ UNCHANGED <<staging, live>>

Withdraw == live' = None /\ UNCHANGED <<staging, certified>>

Next ==
  \/ Redeploy \/ Withdraw
  \/ \E m \in Manifests : CertifyStaging(m) \/ CertifyRehearsal(m)
                          \/ GoLive(m) \/ CertifyCanary(m)

Spec == Init /\ [][Next]_vars
=============================================================================
