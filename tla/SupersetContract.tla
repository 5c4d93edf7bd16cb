-------------------------- MODULE SupersetContract --------------------------
(***************************************************************************)
(* scripts/validate_superset_bounded_release_contract.py: the candidate of *)
(* the bounded Superset release, its evidence and the external bindings;   *)
(* with tests/test_superset_bounded_release_contract.py.                   *)
(***************************************************************************)
EXTENDS Naturals, Sequences

CANDIDATE_STATES ==
  <<"PENDING_PROTECTED_SUPERSET_RELEASE", "SIGNED_RELEASE_READY",
    "HOSTED_STAGING_CERTIFIED", "BOUNDED_STAGING_CERTIFIED",
    "PRODUCTION_READONLY_CERTIFIED">>
Pending == CANDIDATE_STATES[1]
Certified == CANDIDATE_STATES[5]

\* Evidence in the order of the states that need it.
Evidence == <<"hosted", "bounded", "canary">>
StagingBindings == "stagingBindings"  \* host, staging runner, staging environment
OtherBindings == "otherBindings"      \* canary runner, its environment, controller
Bindings == {StagingBindings, OtherBindings}

Null == "null"

require_release_identity(t) ==
  /\ Null \notin {t[<<"contract", "image">>], t[<<"contract", "image_digest">>]}
  /\ t[<<"contract", "image">>] = t[<<"contract", "image_digest">>]

\* Of the state's number: the evidence of the states so far, and none further.
validate_evidence(t, n) ==
  \A i \in DOMAIN Evidence : (t[<<"contract", Evidence[i]>>] # Null) = (i + 2 <= n)

validate_bindings(t, n) ==
  /\ n = 1 => \A b \in Bindings : ~t[<<"contract", b>>]
  /\ n = 4 => t[<<"contract", StagingBindings>>]
  /\ n = 5 => \A b \in Bindings : t[<<"contract", b>>]

validate_candidate(t) ==
  \E n \in DOMAIN CANDIDATE_STATES :
    /\ t[<<"contract", "status">>] = CANDIDATE_STATES[n]
    /\ IF n = 1 THEN {t[<<"contract", "image">>], t[<<"contract", "image_digest">>]} = {Null}
                ELSE require_release_identity(t)
    /\ validate_evidence(t, n)
    /\ validate_bindings(t, n)

superset(t) ==
  /\ t[<<"contract", "fixed">>]
  /\ validate_candidate(t)
  /\ t[<<"contract", "production_certified">>] = (t[<<"contract", "status">>] = Certified)

\* The tests of the validator are written for the state the candidate is in.
superset_tests(t) == t[<<"contract", "tests">>] = t[<<"contract", "status">>]

-----------------------------------------------------------------------------
(* Trees, and what somebody may want to make of them.                      *)

\* The contract of a candidate d in the n-th state.
Candidate(n, d) ==
  [k \in {"contract"} \X {"status", "image", "image_digest", "hosted", "bounded", "canary",
                          "stagingBindings", "otherBindings", "production_certified",
                          "tests", "fixed"} |->
     CASE k[2] \in {"status", "tests"} -> CANDIDATE_STATES[n]
       [] k[2] \in {"image", "image_digest"} -> IF n = 1 THEN Null ELSE d
       [] k[2] = "hosted" -> IF n >= 3 THEN "sha" ELSE Null
       [] k[2] = "bounded" -> IF n >= 4 THEN "sha" ELSE Null
       [] k[2] = "canary" -> IF n = 5 THEN "sha" ELSE Null
       [] k[2] = StagingBindings -> n >= 4
       [] k[2] \in {OtherBindings, "production_certified"} -> n = 5
       [] OTHER -> TRUE]

SupersetStarts == {Candidate(1, Null), Candidate(3, "d1")}

SupersetIntended(t) ==
  {Candidate(n, d) : n \in DOMAIN CANDIDATE_STATES, d \in {"d1", "d2"}}
    \cup {[t EXCEPT ![<<"contract", b>>] = ~@] : b \in Bindings}
    \cup {[t EXCEPT ![<<"contract", "fixed">>] = FALSE]}

\* Certified means the whole chain: a canary after a bounded, a hosted and a
\* signed release of the image the digest names, on runners that are bound.
SupersetAgrees(t) ==
  LET has(f) == t[<<"contract", f>>] # Null IN
  /\ has("canary") => has("bounded") /\ t[<<"contract", OtherBindings>>]
  /\ has("bounded") => has("hosted") /\ t[<<"contract", StagingBindings>>]
  /\ has("hosted") => has("image")
  /\ t[<<"contract", "image">>] = t[<<"contract", "image_digest">>]
  /\ t[<<"contract", "production_certified">>] <=> has("canary")
  /\ ~has("image") => \A b \in Bindings : ~t[<<"contract", b>>]
=============================================================================
