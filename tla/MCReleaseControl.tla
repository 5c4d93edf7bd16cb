-------------------------- MODULE MCReleaseControl --------------------------
(***************************************************************************)
(* Instances of ReleaseControl for TLC: two candidate documents, two       *)
(* services, and the dispatches of the release workflows.                  *)
(***************************************************************************)
EXTENDS ReleaseControl, TLC

CONSTANTS j1, j2, m1, m2, w1, w2, v0, v1, v2, r1, r2, s1, k1, u1

\* m1 replaces v0 by v1; m2 replaces v1 by v2 on one service and keeps w2.
MCCandidateImage ==
  [m \in Manifests |->
     [w \in Workloads |-> IF m = m2 /\ w = w1 THEN v2 ELSE v1]]
MCPreviousImage ==
  [m \in Manifests |-> [w \in Workloads |-> IF m = m2 THEN v1 ELSE v0]]

Dispatch(mode, doc, producer, stagingRun, rollbackRun, runner) ==
  [mode |-> mode, doc |-> doc, producer |-> producer,
   stagingRun |-> stagingRun, rollbackRun |-> rollbackRun, runner |-> runner]

\* full-readonly-release-chain.yml: the three jobs of one run, bound to it.
Chain(doc, run, runner) ==
  {Dispatch(Staging, doc, run, NoRun, NoRun, runner),
   Dispatch(Rehearsal, doc, run, run, NoRun, runner),
   Dispatch(Canary, doc, run, run, run, k1)}

\* A canary dispatched for another document with the runs of the first.
Mixed(doc, run) == {Dispatch(Canary, doc, run, run, run, k1)}

AnyOf == Chain(m1, r1, s1) \cup Mixed(m2, r1)
                     \cup {Dispatch(Staging, m2, r2, NoRun, NoRun, s1),
                           Dispatch(Validate, m1, r1, NoRun, NoRun, u1)}
ChainDispatches == [j \in Jobs |-> AnyOf]
FailureDispatches == [j \in Jobs |-> Chain(m1, r1, s1)]

\* The jobs of one chain, two of which compete for the staging runner with a
\* third that is a staging or a canary job.
LiveDispatches ==
  LET Of(mode) == {d \in Chain(m1, r1, s1) : d.mode = mode}
  IN  [j \in Jobs |-> CASE j = j1 -> Of(Staging) [] j = j2 -> Of(Rehearsal)
                        [] OTHER -> Of(Staging) \cup Of(Canary)]
JobSymmetry == Permutations(Jobs)
=============================================================================
