---------------------------- MODULE ReleaseTrain ----------------------------
(***************************************************************************)
(* The validators of the observability release train and of its topology.  *)
(*   scripts/validate-observability-release-train.py   (train)             *)
(*   scripts/validate-observability-topology.py        (topology)          *)
(* One of the fourteen repositories: they are checked alike and apart.     *)
(* What a validator compares with a literal, every flag that would allow a *)
(* live action among it, is one "fixed" cell of its document.              *)
(***************************************************************************)
EXTENDS Naturals, Sequences, FiniteSets, SequencesExt

Branches == {"b1", "b2"}
NoStack == <<>>
Stage(n, b) == [order |-> n, branch |-> b]

validate_registry(t) == t[<<"registry", "fixed">>]

\* An explicit stack, if any: numbered from 1, no branch twice, canonical inside.
validate_stack(stack, canonical) ==
  stack # NoStack =>
    /\ \A i \in DOMAIN stack : stack[i].order = i
    /\ IsInjective([i \in DOMAIN stack |-> stack[i].branch])
    /\ \E i \in DOMAIN stack : stack[i].branch = canonical

\* Mutant: the branch the lock blocks may be the canonical one.
LockOfBlocked(t) ==
  /\ t[<<"branchLock", "fixed">>]
  /\ t[<<"branchLock", "canonicalBranch">>] = t[<<"registry", "branch">>]
  /\ IsInjective(t[<<"branchLock", "blockedParallelBranches">>])
  /\ validate_stack(t[<<"branchLock", "stack">>], t[<<"branchLock", "canonicalBranch">>])

validate_lock(t) ==
  LET canonical == t[<<"branchLock", "canonicalBranch">>]
      blocked == t[<<"branchLock", "blockedParallelBranches">>]
  IN /\ t[<<"branchLock", "fixed">>]
     /\ canonical = t[<<"registry", "branch">>]
     /\ IsInjective(blocked) /\ canonical \notin ToSet(blocked)
     /\ validate_stack(t[<<"branchLock", "stack">>], canonical)

validate_manifest(t) ==
  /\ t[<<"manifest", "fixed">>]
  /\ t[<<"manifest", "candidateBranch">>] = t[<<"registry", "branch">>]
  /\ t[<<"manifest", "candidateSha">>] = t[<<"registry", "headSha">>]

validate_docs(t) == t[<<"docs", "fixed">>]

train(t) ==
  validate_registry(t) /\ validate_lock(t) /\ validate_manifest(t) /\ validate_docs(t)

\* From and to: three of the expected flows.  The firewall lists components of
\* the release only, and the read model Superset queries is none.
EXPECTED_FLOWS ==
  {<<"prometheus", "exporter">>, <<"caddy", "grafana">>, <<"superset", "read-model">>}
Listed == {"exporter", "grafana"}
Guarded(flows) == {f \in flows : f[2] \in Listed}

validate_topology(t) == t[<<"topology", "fixed">>]

validate_communication(t) ==
  t[<<"communication", "fixed">>] /\ t[<<"communication", "flows">>] = EXPECTED_FLOWS

\* The firewall lets every approved flow to a component it lists in; it may list
\* further sources.
validate_firewall(t) ==
  /\ t[<<"firewall", "fixed">>]
  /\ Guarded(t[<<"communication", "flows">>]) \subseteq t[<<"firewall", "allowed">>]

topology(t) == validate_topology(t) /\ validate_communication(t) /\ validate_firewall(t)

-----------------------------------------------------------------------------
(* Trees, and what somebody may want to make of them.                      *)

TrainStart ==
  [k \in {<<"registry", "fixed">>, <<"registry", "branch">>, <<"registry", "headSha">>,
          <<"branchLock", "fixed">>, <<"branchLock", "canonicalBranch">>,
          <<"branchLock", "blockedParallelBranches">>, <<"branchLock", "stack">>,
          <<"manifest", "fixed">>, <<"manifest", "candidateBranch">>,
          <<"manifest", "candidateSha">>, <<"docs", "fixed">>} |->
     CASE k[2] = "fixed" -> TRUE
       [] k[2] \in {"branch", "canonicalBranch", "candidateBranch"} -> "b1"
       [] k[2] \in {"headSha", "candidateSha"} -> "s1"
       [] OTHER -> NoStack]

TopologyStart ==
  [k \in {<<"topology", "fixed">>, <<"communication", "fixed">>, <<"firewall", "fixed">>,
          <<"communication", "flows">>, <<"firewall", "allowed">>} |->
     IF k[2] = "fixed" THEN TRUE
     ELSE IF k[2] = "flows" THEN EXPECTED_FLOWS ELSE Guarded(EXPECTED_FLOWS)]

\* The candidate moves to a branch and a head, in all three documents.
Recorded(t, b, s) ==
  [t EXCEPT ![<<"registry", "branch">>] = b, ![<<"branchLock", "canonicalBranch">>] = b,
            ![<<"manifest", "candidateBranch">>] = b,
            ![<<"registry", "headSha">>] = s, ![<<"manifest", "candidateSha">>] = s]

Unfixed(t) == {[t EXCEPT ![k] = FALSE] : k \in {c \in DOMAIN t : c[2] = "fixed"}}

TrainIntended(t) ==
  {Recorded(t, b, s) : b \in Branches, s \in {"s1", "s2"}}
    \cup {[t EXCEPT ![<<"branchLock", "blockedParallelBranches">>] = v] :
            v \in {<<>>, <<"b1">>, <<"b2">>, <<"b2", "b2">>}}
    \cup {[t EXCEPT ![<<"branchLock", "stack">>] = v] :
            v \in {NoStack, <<Stage(1, "b1"), Stage(2, "b2")>>, <<Stage(1, "b2")>>,
                   <<Stage(1, "b1"), Stage(3, "b2")>>}}
    \cup Unfixed(t)

TopologyIntended(t) ==
  {[t EXCEPT ![<<"communication", "flows">>] = v, ![<<"firewall", "allowed">>] = Guarded(v)] :
     v \in SUBSET EXPECTED_FLOWS}
    \cup Unfixed(t)

\* The candidate is one commit of one branch in all three documents, and work
\* on it is not blocked by its own lock.
TrainAgrees(t) ==
  /\ Cardinality({t[<<"registry", "branch">>], t[<<"branchLock", "canonicalBranch">>],
                  t[<<"manifest", "candidateBranch">>]}) = 1
  /\ t[<<"registry", "headSha">>] = t[<<"manifest", "candidateSha">>]
  /\ \A i \in DOMAIN t[<<"branchLock", "blockedParallelBranches">>] :
       t[<<"branchLock", "blockedParallelBranches">>][i] # t[<<"registry", "branch">>]
  /\ LET stack == t[<<"branchLock", "stack">>] IN
     stack = NoStack
       \/ Cardinality({n \in DOMAIN stack :
                         stack[n].branch = t[<<"registry", "branch">>]}) = 1

\* The map shows every flow there is to be, and the firewall lets those in that
\* end at a component it lists: nothing is said of the way to the read model.
TopologyAgrees(t) ==
  \A f \in EXPECTED_FLOWS :
    /\ f \in t[<<"communication", "flows">>]
    /\ f[2] \in Listed => f \in t[<<"firewall", "allowed">>]
=============================================================================
