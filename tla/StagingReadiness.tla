-------------------------- MODULE StagingReadiness --------------------------
(***************************************************************************)
(* The validators of the staging preparation manifest and of the template  *)
(* of the staging evidence, each with the assertion its workflow adds.     *)
(*   scripts/validate-observability-staging-preparation.py  (preparation)  *)
(*   scripts/validate-observability-staging-evidence.py     (evidence)     *)
(***************************************************************************)
Parts == {"c1", "c2"}      \* two of the fourteen components

Component(t, c) == t[<<"preparation", c>>]

\* What the manifest says of a component: the stage, the stage whose branch and
\* gate it names, whether CI of the head is green, and the artifact evidence.
validate_component(v) ==
  /\ v.source = v.stage
  /\ v.ci = (v.stage # "feature-review")
  /\ v.evidence = (IF v.artifact = "NOT_BUILT" THEN "none" ELSE "all")

all_test(t) == \A c \in Parts : Component(t, c).stage = "test"
all_ci(t) == \A c \in Parts : Component(t, c).ci
all_artifacts(t) == \A c \in Parts : Component(t, c).artifact = "EVIDENCE_COMPLETE"

\* Two gates are computed, the others only set; the result is their conjunction.
validate_gates(t) ==
  /\ t[<<"preparation", "allFourteenAuthoritiesAtTest">>] = all_test(t)
  /\ t[<<"preparation", "allExactHeadAndMergeResultCiGreen">>] = all_ci(t)

all_gates(t) ==
  /\ t[<<"preparation", "allFourteenAuthoritiesAtTest">>]
  /\ t[<<"preparation", "allExactHeadAndMergeResultCiGreen">>]
  /\ t[<<"preparation", "otherGates">>]

\* The freeze, secret-shaped text and what else is compared with a literal.
validate_freeze(t, doc) == t[<<doc, "fixed">>]

\* blockers: does the list have entries.
validate_decision(t, doc, ready) ==
  t[<<doc, "go">>] = ready /\ t[<<doc, "blockers">>] = ~ready

preparation(t) ==
  /\ \A c \in Parts : validate_component(Component(t, c))
  /\ validate_gates(t)
  /\ validate_freeze(t, "preparation")
  /\ validate_decision(t, "preparation", all_gates(t) /\ all_artifacts(t))

\* Mutant: the workflow trusts the validator's decision.
AssertNothing(t, doc) == t[<<doc, "go">>] \in BOOLEAN

\* assert manifest['stagingDecision']['go'] is False
assert_no_go(t, doc) == ~t[<<doc, "go">>]

Sections == {"components", "serverInventory", "backupRecovery", "changePlans",
             "integrationLab", "approval"}

\* Each section is all template or all evidence, as the state says.
validate_sections(t) ==
  \A s \in Sections : t[<<"evidence", s>>] = t[<<"evidence", "state">>]

evidence(t) ==
  /\ validate_sections(t)
  /\ validate_freeze(t, "evidence")
  /\ validate_decision(t, "evidence", t[<<"evidence", "state">>] = "complete")

-----------------------------------------------------------------------------
(* Trees, and what somebody may want to make of them.                      *)

At(stage, artifact) ==
  [stage |-> stage, source |-> stage, ci |-> stage # "feature-review",
   artifact |-> artifact,
   evidence |-> IF artifact = "NOT_BUILT" THEN "none" ELSE "all"]

\* The manifest with its gates and its decision computed from the rest.
Computed(t) ==
  LET gated == [t EXCEPT
        ![<<"preparation", "allFourteenAuthoritiesAtTest">>] = all_test(t),
        ![<<"preparation", "allExactHeadAndMergeResultCiGreen">>] = all_ci(t)]
      ready == all_gates(gated) /\ all_artifacts(gated)
  IN [gated EXCEPT ![<<"preparation", "go">>] = ready,
                   ![<<"preparation", "blockers">>] = ~ready]

PreparationStarts ==
  LET flags == {"allFourteenAuthoritiesAtTest", "allExactHeadAndMergeResultCiGreen",
                "otherGates", "go", "blockers", "fixed"}
      start(stage, artifact, others) == Computed(
        [k \in {"preparation"} \X (Parts \cup flags) |->
           IF k[2] \in Parts THEN At(stage, artifact)
           ELSE k[2] = "otherGates" => others])
  IN {start("feature-review", "NOT_BUILT", FALSE), start("test", "NOT_BUILT", TRUE)}

EvidenceStart ==
  [k \in {"evidence"} \X (Sections \cup {"state", "go", "blockers", "fixed"}) |->
     IF k[2] \in Sections \cup {"state"} THEN "template" ELSE k[2] # "go"]

PreparationIntended(t) ==
  LET component(c, v) == [t EXCEPT ![<<"preparation", c>>] = v]
      old(c) == Component(t, c)
  IN {Computed(component(c, At(s, old(c).artifact))) :
        c \in Parts, s \in {"feature-review", "development", "test"}}
       \cup {Computed(component(c, At(old(c).stage, "EVIDENCE_COMPLETE"))) : c \in Parts}
       \cup {component(c, [old(c) EXCEPT !.evidence = "some"]) : c \in Parts}
       \cup {component(c, [old(c) EXCEPT !.ci = ~@]) : c \in Parts}
       \cup {Computed([t EXCEPT ![<<"preparation", "otherGates">>] = ~@]),
             [t EXCEPT ![<<"preparation", "go">>] = TRUE,
                       ![<<"preparation", "blockers">>] = FALSE],
             [t EXCEPT ![<<"preparation", "fixed">>] = FALSE]}

EvidenceIntended(t) ==
  {[k \in DOMAIN t |-> IF k[2] \in Sections \cup {"state"} THEN "complete"
                       ELSE k[2] # "blockers"],
   [t EXCEPT ![<<"evidence", "fixed">>] = FALSE]}
    \cup {[t EXCEPT ![<<"evidence", s>>] = "complete"] : s \in Sections}

\* The manifest says go, and has no blockers left, exactly when every component
\* is tested, green and built and every other gate is passed; no component says
\* of its branch, its CI or its artifact what its stage and its build belie.
PreparationAgrees(t) ==
  LET ready == /\ \A c \in Parts : Component(t, c) = At("test", "EVIDENCE_COMPLETE")
               /\ t[<<"preparation", "otherGates">>]
  IN /\ t[<<"preparation", "go">>] = ready /\ t[<<"preparation", "blockers">>] # ready
     /\ \A c \in Parts :
          LET v == Component(t, c) IN v = At(v.stage, v.artifact)

\* The record kept in the repository is the template, nothing collected in it.
EvidenceAgrees(t) ==
  (\E s \in Sections : t[<<"evidence", s>>] = "complete") => t[<<"evidence", "go">>]
=============================================================================
