----------------------- MODULE RepositoryGatesProofs ------------------------
(***************************************************************************)
(* What the validators and the workflows that run them keep true of the    *)
(* main branch, for any number of authors and of pull requests.            *)
(***************************************************************************)
EXTENDS RepositoryGates, FiniteSetTheorems, TLAPS

Gov == INSTANCE GovernedBranchProofs

-----------------------------------------------------------------------------
(* The branch.                                                              *)

\* The branch of the gates is the one whose merges are proved to be judged.
LEMMA GatesAreGoverned ==
  /\ Branch!Init => Gov!Init
  /\ [Branch!Next]_(Branch!vars) => [Gov!Next]_(Gov!vars)
  /\ Gov!TypeOK => TypeOK
<1>1. Branch!Init => Gov!Init
  BY DEF Branch!Init, Gov!Init, Branch!Nothing, Gov!Nothing
<1>2. [Branch!Next]_(Branch!vars) => [Gov!Next]_(Gov!vars)
  BY DEF Branch!Next, Gov!Next, Branch!vars, Gov!vars, Branch!Open, Gov!Open,
    Branch!Recheck, Gov!Recheck, Branch!Update, Gov!Update, Branch!Merge, Gov!Merge,
    Branch!Close, Gov!Close, Branch!IsOpen, Gov!IsOpen, Branch!Nothing, Gov!Nothing,
    Branch!Edits, Gov!Edits, Branch!Diff, Gov!Diff, Branch!Over, Gov!Over,
    Branch!Without, Gov!Without, Branch!Mergeable, Gov!Mergeable, Branch!Checked,
    Gov!Checked, Branch!Passes, Gov!Passes, Branch!Forget, Gov!Forget
<1>3. Gov!TypeOK => TypeOK
  BY DEF TypeOK, Branch!TypeOK, Gov!TypeOK, Branch!IsOpen, Gov!IsOpen, Branch!Nothing,
    Gov!Nothing
<1> QED
  BY <1>1, <1>2, <1>3

\* Every behaviour of the gates is one of the branch.
LEMMA GatesGoverned == Spec => Gov!Spec
  BY GatesAreGoverned, PTL DEF Spec, Branch!Spec, Gov!Spec

\* Every variable holds a value of its kind, and a closed pull request nothing.
THEOREM GatesTyped == Spec => []TypeOK
<1>1. Gov!BranchAssumption
  BY GatesAssumption DEF Branch!BranchAssumption, Gov!BranchAssumption
<1>2. Gov!Spec => []Gov!TypeOK
  BY <1>1, Gov!BranchTyped
<1>3. Gov!TypeOK => TypeOK
  BY GatesAreGoverned
<1> QED
  BY <1>2, <1>3, GatesGoverned, PTL

-----------------------------------------------------------------------------
(* The families of documents.                                               *)

PreparationCells ==
  {"preparation"} \X (Parts \cup {"allFourteenAuthoritiesAtTest",
                        "allExactHeadAndMergeResultCiGreen", "otherGates", "go", "blockers",
                        "fixed"})
Families == {DOMAIN Bare, DOMAIN ExporterStart, DOMAIN TrainStart, DOMAIN TopologyStart,
             PreparationCells, DOMAIN EvidenceStart, DOMAIN Candidate(1, Null)}

\* Each family has documents of its own.
LEMMA DocumentsOfFamilies ==
  ASSUME NEW t
  PROVE  /\ DOMAIN t = DOMAIN Bare => Documents(t) = NameDocuments
         /\ DOMAIN t = DOMAIN ExporterStart => Documents(t) = ExporterDocuments
         /\ DOMAIN t = DOMAIN TrainStart => Documents(t) = TrainDocuments
         /\ DOMAIN t = DOMAIN TopologyStart => Documents(t) = TopologyDocuments
         /\ DOMAIN t = PreparationCells => Documents(t) = {"preparation"}
         /\ DOMAIN t = DOMAIN EvidenceStart => Documents(t) = {"evidence"}
         /\ DOMAIN t = DOMAIN Candidate(1, Null) => Documents(t) = {"contract"}
<1>1. DOMAIN t = DOMAIN Bare => Documents(t) = NameDocuments
  <2> SUFFICES ASSUME DOMAIN t = DOMAIN Bare PROVE Documents(t) = NameDocuments
    OBVIOUS
  <2>1. \A k \in DOMAIN t : k[1] \in NameDocuments
    BY DEF Bare, NameDocuments, Pinned, Repos
  <2>2. {<<"aliases", "fixed">>, <<"lock", "social">>, <<"matrix", "social">>,
         <<"record", "infra">>, <<"stage9", "fixed">>, <<"source", "infra">>,
         <<"history", "fixed">>, <<"certifier", "fixed">>, <<"nameTests", "social">>,
         <<"template", "infra">>, <<"templateCheck", "infra">>, <<"bounded", "infra">>,
         <<"boundedCheck", "infra">>} \subseteq DOMAIN t
    BY DEF Bare, Repos, Pinned
  <2>3. \A d \in NameDocuments : \E k \in DOMAIN t : k[1] = d
    BY <2>2 DEF NameDocuments, Pinned
  <2> QED
    BY <2>1, <2>3 DEF Documents
<1>2. DOMAIN t = DOMAIN ExporterStart => Documents(t) = ExporterDocuments
  BY DEF ExporterStart, ExporterDocuments, Documents
<1>3. DOMAIN t = DOMAIN TrainStart => Documents(t) = TrainDocuments
  BY DEF TrainStart, TrainDocuments, Documents
<1>4. DOMAIN t = DOMAIN TopologyStart => Documents(t) = TopologyDocuments
  BY DEF TopologyStart, TopologyDocuments, Documents
<1>5. DOMAIN t = PreparationCells => Documents(t) = {"preparation"}
  <2>1. <<"preparation", "fixed">> \in PreparationCells /\ \A k \in PreparationCells : k[1] = "preparation"
    BY DEF PreparationCells
  <2> QED
    BY <2>1 DEF Documents
<1>6. DOMAIN t = DOMAIN EvidenceStart => Documents(t) = {"evidence"}
  <2>1. <<"evidence", "fixed">> \in DOMAIN EvidenceStart /\ \A k \in DOMAIN EvidenceStart : k[1] = "evidence"
    BY DEF EvidenceStart
  <2> QED
    BY <2>1 DEF Documents
<1>7. DOMAIN t = DOMAIN Candidate(1, Null) => Documents(t) = {"contract"}
  <2>1. /\ <<"contract", "fixed">> \in DOMAIN Candidate(1, Null)
        /\ \A k \in DOMAIN Candidate(1, Null) : k[1] = "contract"
    BY DEF Candidate
  <2> QED
    BY <2>1 DEF Documents
<1> QED
  BY <1>1, <1>2, <1>3, <1>4, <1>5, <1>6, <1>7

\* Whatever a tree moves to, it has the same cells.
LEMMA MovedKeepsCells ==
  ASSUME NEW t, NEW R, NEW s
  PROVE  DOMAIN Moved(t, R, s) = DOMAIN t
  BY DEF Moved

\* Recomputing the derived cells of a manifest keeps its cells.
LEMMA ComputedKeepsCells ==
  ASSUME NEW t
  PROVE  DOMAIN Computed(t) = DOMAIN t
  BY DEF Computed

\* What main may hold at first is of a family.
LEMMA StartsOfFamilies ==
  ASSUME NEW t \in Starts
  PROVE  DOMAIN t \in Families
<1>1. CASE t \in NameStarts
  BY <1>1, MovedKeepsCells DEF NameStarts, Families
<1>2. CASE t \in PreparationStarts
  BY <1>2, ComputedKeepsCells DEF PreparationStarts, Families, PreparationCells
<1>3. CASE t \in SupersetStarts
  BY <1>3 DEF SupersetStarts, Families, Candidate
<1> QED
  BY <1>1, <1>2, <1>3 DEF Starts, Families

\* The documents that a workflow is called for, and what it checks out.
LEMMA Called ==
  /\ NameDocuments \cup ExporterDocuments \cup TrainDocuments \cup TopologyDocuments
       \cup {"preparation", "evidence", "contract"} \subseteq Paths("names")
  /\ {"stage9", "aliases", "certifier"} \subseteq Paths("stage9")
  /\ TrainDocuments \cup TopologyDocuments \subseteq Paths("train")
  /\ TopologyDocuments \subseteq Paths("topology")
  /\ "preparation" \in Paths("preparation") /\ "evidence" \in Paths("evidence")
  /\ "contract" \in Paths("superset")
  /\ \A w \in Workflows : Sees(w) # {}
<1>1. Paths("names") = NameDocuments \cup ExporterDocuments \cup TrainDocuments
        \cup TopologyDocuments \cup {"preparation", "evidence", "contract"}
  BY Zenon DEF Paths
<1>2. Paths("stage9") = {"stage9", "aliases", "certifier"}
  BY DEF Paths
<1>3. Paths("train") = TrainDocuments \cup TopologyDocuments
  BY DEF Paths
<1>4. Paths("topology") = (TrainDocuments \ {"manifest"}) \cup TopologyDocuments
  BY DEF Paths
<1>5. /\ Paths("preparation") = {"preparation"}
      /\ Paths("evidence") = {"evidence", "template", "templateCheck"}
      /\ Paths("superset") = {"contract", "bounded", "boundedCheck"}
  BY DEF Paths
<1>6. \A w \in Workflows : Sees(w) # {}
  BY DEF Sees, Workflows
<1> QED
  BY <1>1, <1>2, <1>3, <1>4, <1>5, <1>6

\* What it means that a workflow accepts a tree of a family it is called for.
LEMMA Acceptance ==
  ASSUME NEW b, NEW t
  PROVE  /\ DOMAIN t = DOMAIN Bare /\ Accepts("names", b, t) =>
              validate(t) /\ transition(b, t) /\ name_tests(t)
         /\ DOMAIN t = DOMAIN ExporterStart /\ Accepts("names", b, t) =>
              validate_postgres_exporter_privacy(t)
         /\ Accepts("stage9", b, t) => certify(t)
         /\ DOMAIN t = DOMAIN TrainStart /\ Accepts("train", b, t) => train(t)
         /\ DOMAIN t = DOMAIN TopologyStart /\ Accepts("topology", b, t) => topology(t)
         /\ Accepts("preparation", b, t) => preparation(t) /\ assert_no_go(t, "preparation")
         /\ DOMAIN t = DOMAIN EvidenceStart /\ Accepts("evidence", b, t) =>
              evidence(t) /\ assert_no_go(t, "evidence")
         /\ DOMAIN t = DOMAIN Candidate(1, Null) /\ Accepts("superset", b, t) => superset(t)
<1>0. /\ DOMAIN t = DOMAIN EvidenceStart => "evidence" \in Documents(t)
      /\ DOMAIN t = DOMAIN Candidate(1, Null) => "contract" \in Documents(t)
  BY DocumentsOfFamilies
<1>1. DOMAIN t = DOMAIN Bare => "aliases" \in Documents(t)
  BY DocumentsOfFamilies DEF NameDocuments, Pinned
<1>2. DOMAIN t = DOMAIN ExporterStart => "service" \in Documents(t)
  BY DocumentsOfFamilies DEF ExporterDocuments
<1>3. DOMAIN t = DOMAIN TrainStart => "registry" \in Documents(t)
  BY DocumentsOfFamilies DEF TrainDocuments
<1>4. DOMAIN t = DOMAIN TopologyStart => "topology" \in Documents(t)
  BY DocumentsOfFamilies DEF TopologyDocuments
<1>5. Accepts("names", b, t) => /\ "aliases" \in Documents(t) =>
                                     validate(t) /\ transition(b, t) /\ name_tests(t)
                                /\ "service" \in Documents(t) =>
                                     validate_postgres_exporter_privacy(t)
  BY Zenon DEF Accepts
<1>6. Accepts("stage9", b, t) => certify(t)
  BY Zenon DEF Accepts
<1>7. Accepts("train", b, t) => ("registry" \in Documents(t) => train(t))
  BY Zenon DEF Accepts
<1>8. Accepts("topology", b, t) => ("topology" \in Documents(t) => topology(t))
  BY Zenon DEF Accepts
<1>9. Accepts("preparation", b, t) => preparation(t) /\ assert_no_go(t, "preparation")
  BY Zenon DEF Accepts
<1>10. Accepts("evidence", b, t) =>
         ("evidence" \in Documents(t) => evidence(t) /\ assert_no_go(t, "evidence"))
  BY Zenon DEF Accepts
<1>11. Accepts("superset", b, t) => ("contract" \in Documents(t) => superset(t))
  BY Zenon DEF Accepts
<1> QED
  BY <1>0, <1>1, <1>2, <1>3, <1>4, <1>5, <1>6, <1>7, <1>8, <1>9, <1>10, <1>11

-----------------------------------------------------------------------------
(* The freeze.                                                              *)

\* The cells that are compared with a literal, and the workflow that does.
Frozen == {"fixed", "go"}
Insistent(d) ==
  IF d = "stage9" THEN "stage9"
  ELSE IF d \in NameDocuments THEN "names"
  ELSE IF d \in TrainDocuments THEN "train"
  ELSE IF d \in TopologyDocuments THEN "topology"
  ELSE IF d = "contract" THEN "superset" ELSE d

\* A tree that its workflow accepts has not altered them.
LEMMA FrozenIsInsistedOn ==
  ASSUME NEW t, DOMAIN t \in Families, NEW k \in DOMAIN t, k[2] \in Frozen
  PROVE  /\ Insistent(k[1]) \in Workflows /\ k[1] \in Paths(Insistent(k[1]))
         /\ \A b : Accepts(Insistent(k[1]), b, t) =>
              (k[2] = "fixed" => t[k]) /\ (k[2] = "go" => ~t[k])
<1> USE DEF Insistent, Frozen, Workflows, NameDocuments, Pinned, TrainDocuments, TopologyDocuments
<1>1. CASE DOMAIN t = DOMAIN Bare
  <2>1. k \in {<<"aliases", "fixed">>, <<"history", "fixed">>, <<"certifier", "fixed">>,
               <<"stage9", "fixed">>}
    BY <1>1 DEF Bare, Repos
  <2> QED
    BY <1>1, <2>1, Called, Acceptance DEF validate, validate_known_operational_bindings, certify
<1>2. CASE DOMAIN t = DOMAIN ExporterStart
  BY <1>2 DEF ExporterStart
<1>3. CASE DOMAIN t = DOMAIN TrainStart
  <2>1. k \in {<<"registry", "fixed">>, <<"branchLock", "fixed">>, <<"manifest", "fixed">>,
               <<"docs", "fixed">>}
    BY <1>3 DEF TrainStart
  <2> QED
    BY <1>3, <2>1, Called, Acceptance DEF train, validate_registry, validate_lock,
      validate_manifest, validate_docs
<1>4. CASE DOMAIN t = DOMAIN TopologyStart
  <2>1. k \in {<<"topology", "fixed">>, <<"communication", "fixed">>, <<"firewall", "fixed">>}
    BY <1>4 DEF TopologyStart
  <2> QED
    BY <1>4, <2>1, Called, Acceptance DEF topology, validate_topology,
      validate_communication, validate_firewall
<1>5. CASE DOMAIN t = PreparationCells
  <2>1. k \in {<<"preparation", "fixed">>, <<"preparation", "go">>}
    BY <1>5 DEF PreparationCells
  <2> QED
    BY <1>5, <2>1, Called, Acceptance DEF preparation, validate_freeze, assert_no_go
<1>6. CASE DOMAIN t = DOMAIN EvidenceStart
  <2>1. k \in {<<"evidence", "fixed">>, <<"evidence", "go">>}
    BY <1>6 DEF EvidenceStart
  <2> QED
    BY <1>6, <2>1, Called, Acceptance DEF evidence, validate_freeze, assert_no_go
<1>7. CASE DOMAIN t = DOMAIN Candidate(1, Null)
  <2>1. k = <<"contract", "fixed">>
    BY <1>7 DEF Candidate, StagingBindings, OtherBindings
  <2> QED
    BY <1>7, <2>1, Called, Acceptance DEF superset
<1> QED
  BY <1>1, <1>2, <1>3, <1>4, <1>5, <1>6, <1>7 DEF Families

\* Main is of a family and keeps what is frozen.
FreezeInv == /\ Gov!BranchInv /\ Gov!ShapeInv
             /\ DOMAIN main \in Families
             /\ FreezeHolds

\* What was accepted of a change that is merged, be it against another main.
LEMMA MergesWereAccepted ==
  ASSUME Gov!BranchInv, Gov!ShapeInv, NEW a \in Authors, Gov!Merge(a),
         NEW w \in Workflows, NEW ref \in Sees(w),
         NEW k \in DOMAIN change[a], k[1] \in Paths(w)
  PROVE  LET t == Gov!Over(change[a], IF ref = "head" THEN base[a] ELSE tested[a]) IN
         /\ Accepts(w, tested[a], t)
         /\ DOMAIN t = DOMAIN main
         /\ \A c \in DOMAIN main :
              t[c] = IF c \in DOMAIN change[a] THEN change[a][c]
                     ELSE IF ref = "head" THEN base[a][c] ELSE tested[a][c]
<1> DEFINE t == Gov!Over(change[a], IF ref = "head" THEN base[a] ELSE tested[a])
<1>1. tested[a] # Gov!Nothing /\ Gov!IsOpen(a)
  BY DEF Gov!Merge
<1>2. Gov!PassesOn(change[a], base[a], tested[a])
  BY <1>1 DEF Gov!BranchInv, Gov!VerdictsHold
<1>3. Accepts(w, tested[a], t)
  <2>1. Paths(w) \cap {c[1] : c \in DOMAIN change[a]} # {}
    OBVIOUS
  <2> QED
    BY <1>2, <2>1 DEF Gov!PassesOn
<1>4. DOMAIN change[a] \subseteq DOMAIN main /\ DOMAIN base[a] = DOMAIN main
      /\ DOMAIN tested[a] = DOMAIN main
  BY <1>1 DEF Gov!ShapeInv
<1> QED
  BY <1>3, <1>4 DEF Gov!Over

\* Whoever merges whatever onto whichever main, what is frozen stays.
LEMMA FreezeMerge ==
  ASSUME FreezeInv, NEW a \in Authors, Gov!Merge(a)
  PROVE  FreezeHolds'
<1> SUFFICES ASSUME NEW k \in DOMAIN main, k[2] \in Frozen
             PROVE (k[2] = "fixed" => main'[k]) /\ (k[2] = "go" => ~main'[k])
  BY Gov!MergeKeepsCells DEF FreezeInv, FreezeHolds, Frozen
<1>1. CASE k \notin DOMAIN change[a]
  BY <1>1, Gov!MergeKeepsCells DEF FreezeInv, FreezeHolds
<1>2. CASE k \in DOMAIN change[a]
  <2> DEFINE w == Insistent(k[1])
  <2>1. w \in Workflows /\ k[1] \in Paths(w)
    BY FrozenIsInsistedOn DEF FreezeInv
  <2>2. PICK ref \in Sees(w) : TRUE
    BY <2>1, Called
  <2> DEFINE t == Gov!Over(change[a], IF ref = "head" THEN base[a] ELSE tested[a])
  <2>3. Accepts(w, tested[a], t) /\ DOMAIN t = DOMAIN main /\ t[k] = change[a][k]
    BY <1>2, <2>1, MergesWereAccepted DEF FreezeInv
  <2>4. (k[2] = "fixed" => t[k]) /\ (k[2] = "go" => ~t[k])
    BY <2>3, FrozenIsInsistedOn DEF FreezeInv
  <2>5. main'[k] = change[a][k]
    BY <1>2, Gov!MergeKeepsCells DEF FreezeInv
  <2> QED
    BY <2>3, <2>4, <2>5
<1> QED
  BY <1>1, <1>2

\* A step of main is a merge.
LEMMA MainMovesByMerge ==
  ASSUME [Gov!Next]_(Gov!vars), main' # main
  PROVE  \E a \in Authors : Gov!Merge(a)
  BY DEF Gov!Next, Gov!Open, Gov!Recheck, Gov!Update, Gov!Close, Gov!vars

\* What main may hold at first is as frozen as a merge leaves it.
LEMMA StartsAreFrozen ==
  ASSUME NEW t \in Starts, NEW k \in DOMAIN t
  PROVE  (k[2] = "fixed" => t[k]) /\ (k[2] = "go" => ~t[k])
<1>1. CASE t \in NameStarts
  <2>1. ASSUME NEW c \in DOMAIN Bare PROVE (c[2] = "fixed" => Bare[c]) /\ c[2] # "go"
    BY DEF Bare, Repos
  <2>2. ASSUME NEW u, NEW R, NEW s, NEW c \in DOMAIN u
        PROVE  c[2] = "fixed" => Moved(u, R, s)[c] = u[c]
    BY DEF Moved
  <2>3. DOMAIN t = DOMAIN Bare /\ (k[2] = "fixed" => t[k] = Bare[k])
    BY <1>1, <2>2, MovedKeepsCells DEF NameStarts
  <2> QED
    BY <2>1, <2>3
<1>2. CASE t \in PreparationStarts
  <2>1. PICK stage \in {"feature-review", "test"}, others \in BOOLEAN :
          t = Computed([c \in PreparationCells |->
                          IF c[2] \in Parts THEN At(stage, "NOT_BUILT")
                          ELSE c[2] = "otherGates" => others])
    BY <1>2 DEF PreparationStarts, PreparationCells
  <2> DEFINE u == [c \in PreparationCells |-> IF c[2] \in Parts THEN At(stage, "NOT_BUILT")
                                              ELSE c[2] = "otherGates" => others]
  <2>2. <<"preparation", "c1">> \in DOMAIN u /\ u[<<"preparation", "c1">>].artifact = "NOT_BUILT"
    BY DEF PreparationCells, Parts, At
  <2>3. k \in DOMAIN u
    BY <2>1, ComputedKeepsCells
  <2>4. k[2] = "fixed" => u[k] = TRUE
    BY <2>3 DEF Parts
  <2> HIDE DEF u
  <2>5. k = <<"preparation", k[2]>>
    BY <2>1, <2>3, ComputedKeepsCells DEF PreparationCells
  <2> DEFINE gated == [u EXCEPT
               ![<<"preparation", "allFourteenAuthoritiesAtTest">>] = all_test(u),
               ![<<"preparation", "allExactHeadAndMergeResultCiGreen">>] = all_ci(u)]
             ready == all_gates(gated) /\ all_artifacts(gated)
  <2>6. gated[<<"preparation", "c1">>] = u[<<"preparation", "c1">>] /\ DOMAIN gated = DOMAIN u
        /\ (k[2] = "fixed" => gated[k] = u[k])
    BY <2>2, <2>3, <2>5
  <2>7. t = [gated EXCEPT ![<<"preparation", "go">>] = ready, ![<<"preparation", "blockers">>] = ~ready]
    BY <2>1, Zenon DEF Computed, u
  <2>8. ready = FALSE
    BY <2>2, <2>6 DEF all_artifacts, Component, Parts
  <2> HIDE DEF gated, ready
  <2>9. (k[2] = "fixed" => t[k] = gated[k]) /\ (k[2] = "go" => t[k] = ready)
    BY <2>3, <2>5, <2>6, <2>7
  <2> QED
    BY <2>4, <2>6, <2>8, <2>9
<1>3. CASE t \in SupersetStarts
  <2>1. ASSUME NEW n, NEW d, k \in DOMAIN Candidate(n, d), k[2] = "fixed" PROVE Candidate(n, d)[k] = TRUE
    <3>1. /\ k[2] \notin {"status", "tests"} /\ k[2] \notin {"image", "image_digest"} /\ k[2] # "hosted"
          /\ k[2] # "bounded" /\ k[2] # "canary" /\ k[2] # StagingBindings
          /\ k[2] \notin {OtherBindings, "production_certified"}
      BY <2>1 DEF StagingBindings, OtherBindings
    <3>2. k \in {"contract"} \X {"status", "image", "image_digest", "hosted", "bounded", "canary",
                          "stagingBindings", "otherBindings", "production_certified",
                          "tests", "fixed"}
      BY <2>1 DEF Candidate
    <3> QED
      BY <3>1, <3>2, Zenon DEF Candidate
  <2>3. PICK n, d : t = Candidate(n, d)
    BY <1>3 DEF SupersetStarts
  <2>2. k[2] # "go"
    <3>1. ASSUME NEW c \in DOMAIN Candidate(n, d) PROVE c[2] # "go"
      BY DEF Candidate
    <3> QED
      BY <2>3, <3>1
  <2>4. k[2] = "fixed" => t[k] = TRUE
    BY <2>1, <2>3
  <2> QED
    BY <2>2, <2>4
<1>4. CASE t = TrainStart
  <2>1. k[2] # "go"
    BY <1>4 DEF TrainStart
  <2>2. k \in DOMAIN TrainStart
    BY <1>4
  <2>3. k[2] = "fixed" => TrainStart[k] = TRUE
    BY <2>2 DEF TrainStart
  <2> QED
    BY <1>4, <2>1, <2>3
<1>5. CASE t = ExporterStart
  <2>1. k[2] \notin {"fixed", "go"}
    BY <1>5 DEF ExporterStart
  <2> QED
    BY <2>1
<1>6. CASE t = TopologyStart
  BY <1>6 DEF TopologyStart
<1>7. CASE t = EvidenceStart
  <2>1. k[2] = "fixed" \/ k[2] = "go" => k[2] \notin Sections \cup {"state"}
    BY DEF Sections
  <2>2. k[2] = "fixed" => t[k] = TRUE
    BY <1>7, <2>1 DEF EvidenceStart
  <2>3. k[2] = "go" => t[k] = FALSE
    BY <1>7, <2>1 DEF EvidenceStart
  <2> QED
    BY <2>2, <2>3
<1> QED
  BY <1>1, <1>2, <1>3, <1>4, <1>5, <1>6, <1>7 DEF Starts

\* Nothing is altered at first.
LEMMA FreezeInit == Gov!Init => FreezeInv
<1> SUFFICES ASSUME Gov!Init PROVE DOMAIN main \in Families /\ FreezeHolds
  BY Gov!BranchInvInit, Gov!ShapeInit DEF FreezeInv
<1>1. main \in Starts
  BY DEF Gov!Init
<1> QED
  BY <1>1, StartsOfFamilies, StartsAreFrozen DEF FreezeHolds

\* Only a merge could alter what is frozen.
LEMMA FreezeStep ==
  ASSUME FreezeInv, [Gov!Next]_(Gov!vars)
  PROVE  FreezeInv'
<1>1. Gov!BranchInv' /\ Gov!ShapeInv' /\ DOMAIN main' = DOMAIN main
  BY Gov!BranchInvStep, Gov!ShapeStep DEF FreezeInv
<1>2. FreezeHolds'
  <2>1. CASE main' = main
    BY <2>1 DEF FreezeInv, FreezeHolds
  <2>2. CASE main' # main
    BY <2>2, MainMovesByMerge, FreezeMerge
  <2> QED
    BY <2>1, <2>2
<1> QED
  BY <1>1, <1>2 DEF FreezeInv

\* Main never comes to differ from a literal a validator insists on, nor to say go:
\* each such cell stands in a document that calls the workflow that looks at it, and
\* a merge puts in it what the pull request changes it to, whatever main is by then.
THEOREM FreezeHeld == Spec => []FreezeHolds
<1>1. FreezeInv => FreezeHolds
  BY DEF FreezeInv
<1> QED
  BY <1>1, FreezeInit, FreezeStep, GatesGoverned, PTL DEF Gov!Spec

-----------------------------------------------------------------------------
(* The statuses.                                                            *)

\* How far a repository has come: a rename may be rolled back and made again.
Rank(s) == IF s = Absent THEN 0 ELSE IF s = Prepared THEN 1 ELSE 2

Named(t) == \A r \in Repos : Status(t, r) \in {Absent} \cup MAPPING_STATUSES
Later(t, u) == \A r \in Repos : Rank(Status(t, r)) <= Rank(Status(u, r))

\* No repository comes to be less far: main has none that is less far than in the
\* tree a pull request was tested against, nor that one than the one it branched from.
StatusInv ==
  DOMAIN main = DOMAIN Bare =>
    /\ Named(main)
    /\ \A a \in Authors :
         /\ Gov!IsOpen(a) => Named(base[a]) /\ Later(base[a], main)
         /\ tested[a] # Gov!Nothing =>
              Named(tested[a]) /\ Later(base[a], tested[a]) /\ Later(tested[a], main)

\* The edge that each status of a merge goes along.
Edge(old, new) ==
  old # new => /\ new = Prepared => old = Absent
               /\ new = RolledBack => old = Renamed
               /\ new \in MAPPING_STATUSES

\* The statuses are cells of their own.
LEMMA StatusCells ==
  ASSUME NEW r \in Repos
  PROVE  <<"aliases", r>> \in DOMAIN Bare
  BY DEF Bare

\* Ranks are distinct but for a rename and its rollback.
LEMMA Ranks ==
  ASSUME NEW s \in {Absent} \cup MAPPING_STATUSES, NEW u \in {Absent} \cup MAPPING_STATUSES
  PROVE  /\ Edge(s, u) => Rank(s) <= Rank(u)
         /\ Rank(s) = Rank(u) => Edge(s, u)
         /\ Rank(s) \in 0 .. 2
<1>1. /\ Rank(Absent) = 0 /\ Rank(Prepared) = 1 /\ Rank(Renamed) = 2 /\ Rank(RolledBack) = 2
      /\ Absent \notin MAPPING_STATUSES /\ Prepared # Renamed /\ Prepared # RolledBack
      /\ Renamed # RolledBack
  BY DEF Rank, Absent, MAPPING_STATUSES, Prepared, Renamed, RolledBack
<1>2. s \in {Absent, Prepared, Renamed, RolledBack} /\ u \in {Absent, Prepared, Renamed, RolledBack}
  BY DEF MAPPING_STATUSES
<1> HIDE DEF Rank
<1>3. Edge(s, u) => Rank(s) <= Rank(u)
  BY <1>1, <1>2 DEF Edge
<1>4. Rank(s) = Rank(u) => Edge(s, u)
  BY <1>1, <1>2 DEF Edge, MAPPING_STATUSES
<1>5. Rank(s) \in 0 .. 2
  BY <1>1, <1>2
<1> QED
  BY <1>3, <1>4, <1>5

\* Tested against an earlier main or not, a merge takes each status along an edge: the
\* cell it changes is as it was when the pull request branched, hence it was no less
\* far when that was tested; either it was the same and the edge was validated, or it
\* had moved and come back, which only a rename and its rollback do.
LEMMA MergeGoesAlongEdges ==
  ASSUME Gov!BranchInv, Gov!ShapeInv, StatusInv, DOMAIN main = DOMAIN Bare,
         NEW a \in Authors, Gov!Merge(a), NEW r \in Repos
  PROVE  Edge(Status(main, r), Status(main', r))
<1> DEFINE k == <<"aliases", r>>
<1>1. k \in DOMAIN main
  BY StatusCells
<1>2. CASE k \notin DOMAIN change[a]
  BY <1>1, <1>2, Gov!MergeKeepsCells DEF Edge, Status
<1>3. CASE k \in DOMAIN change[a] /\ main[k] # change[a][k]
  <2> DEFINE t == Gov!Over(change[a], tested[a])
  <2>1. Gov!IsOpen(a) /\ tested[a] # Gov!Nothing /\ main[k] = base[a][k]
    BY <1>3 DEF Gov!Merge, Gov!Mergeable
  <2>2. tested[a][k] \in {base[a][k], change[a][k]}
    BY <1>3, <2>1 DEF Gov!ShapeInv
  <2>3. "names" \in Workflows /\ "merge" \in Sees("names") /\ k[1] \in Paths("names")
    BY Called DEF Workflows, Sees, NameDocuments, Pinned
  <2>4. Accepts("names", tested[a], t) /\ DOMAIN t = DOMAIN main /\ t[k] = change[a][k]
    BY <1>1, <1>3, <2>3, MergesWereAccepted
  <2>5. validate(t) /\ transition(tested[a], t)
    BY <2>4, Acceptance
  <2>6. Status(t, r) \in MAPPING_STATUSES /\ Status(t, r) = change[a][k]
    BY <2>4, <2>5 DEF validate, validate_account_status, Used, Status
  <2>7. /\ Status(tested[a], r) \in {Absent} \cup MAPPING_STATUSES
        /\ Status(main, r) \in {Absent} \cup MAPPING_STATUSES
        /\ Rank(Status(base[a], r)) <= Rank(Status(tested[a], r))
        /\ Rank(Status(tested[a], r)) <= Rank(Status(main, r))
    BY <2>1 DEF StatusInv, Named, Later
  <2>8. Status(main', r) = change[a][k]
    BY <1>1, <1>3, Gov!MergeKeepsCells DEF Status
  <2>9. CASE tested[a][k] = base[a][k]
    <3>1. Status(tested[a], r) = Status(main, r)
      BY <2>1, <2>9 DEF Status
    <3>2. Edge(Status(tested[a], r), Status(t, r))
      <4>1. CASE Used(tested[a]) = {Absent}
        <5>1. Status(tested[a], r) = Absent /\ Status(t, r) = Prepared
          BY <2>5, <4>1 DEF transition, Used
        <5> QED
          BY <5>1 DEF Edge, Prepared, RolledBack, MAPPING_STATUSES
      <4>2. CASE Used(tested[a]) # {Absent}
        <5>1. Status(tested[a], r) # Status(t, r) =>
                <<Status(tested[a], r), Status(t, r)>> \in ALLOWED_STATUS_TRANSITIONS
          BY <2>5, <4>2 DEF transition, validate_one_repository_transition, changed_status
        <5> QED
          BY <2>6, <5>1 DEF Edge, ALLOWED_STATUS_TRANSITIONS, Prepared, Renamed, RolledBack
      <4> QED
        BY <4>1, <4>2
    <3> QED
      BY <2>6, <2>8, <3>1, <3>2
  <2>10. CASE tested[a][k] = change[a][k]
    <3>1. Status(tested[a], r) = Status(main', r) /\ Status(base[a], r) = Status(main, r)
      BY <2>1, <2>8, <2>10 DEF Status
    <3>2. Rank(Status(main, r)) = Rank(Status(main', r))
      BY <2>7, <3>1, Ranks
    <3>3. Status(main', r) # Absent
      BY <2>6, <2>8 DEF MAPPING_STATUSES, Absent, Prepared, Renamed, RolledBack
    <3> QED
      BY <2>7, <3>1, <3>2, <3>3, Ranks
  <2> QED
    BY <2>2, <2>9, <2>10
<1>4. CASE k \in DOMAIN change[a] /\ main[k] = change[a][k]
  BY <1>1, <1>4, Gov!MergeKeepsCells DEF Edge, Status
<1> QED
  BY <1>2, <1>3, <1>4

\* Being less far is an order.
LEMMA LaterOrder ==
  ASSUME NEW t, NEW u, NEW v
  PROVE  Later(t, t) /\ (Later(t, u) /\ Later(u, v) => Later(t, v))
<1>1. \A s : Rank(s) \in 0 .. 2
  BY DEF Rank
<1> QED
  BY <1>1 DEF Later

\* An event leaves a pull request tested on today's main, or on none.
LEMMA EventKeepsStatuses ==
  ASSUME Gov!BranchInv, Gov!ShapeInv, StatusInv, NEW a \in Authors, NEW p, NEW b,
         Gov!Checked(a, p, b), change' = [change EXCEPT ![a] = p],
         base' = [base EXCEPT ![a] = b], main' = main,
         b = main \/ (Gov!IsOpen(a) /\ b = base[a])
  PROVE  StatusInv'
<1> SUFFICES ASSUME DOMAIN main = DOMAIN Bare, NEW c \in Authors
             PROVE /\ Named(main)
                   /\ Gov!IsOpen(c)' => Named(base'[c]) /\ Later(base'[c], main)
                   /\ tested'[c] # Gov!Nothing =>
                        Named(tested'[c]) /\ Later(base'[c], tested'[c]) /\ Later(tested'[c], main)
  BY DEF StatusInv
<1>1. Named(main) /\ Later(main, main)
  BY LaterOrder DEF StatusInv
<1>2. CASE c = a
  <2>1. base'[c] = b /\ tested'[c] \in {main, Gov!Nothing}
    BY <1>2 DEF Gov!BranchInv, Gov!VerdictsHold, Gov!Checked
  <2>2. Named(b) /\ Later(b, main)
    BY <1>1 DEF StatusInv
  <2> QED
    BY <1>1, <2>1, <2>2
<1>3. CASE c # a
  <2>1. change'[c] = change[c] /\ base'[c] = base[c] /\ tested'[c] = tested[c]
    BY <1>3 DEF Gov!BranchInv, Gov!VerdictsHold, Gov!Checked
  <2> QED
    BY <2>1 DEF StatusInv, Gov!IsOpen
<1> QED
  BY <1>2, <1>3

\* The end of a pull request leaves the others, if main has only gone further.
LEMMA EndKeepsStatuses ==
  ASSUME Gov!BranchInv, StatusInv, NEW a \in Authors, Gov!Forget(a),
         DOMAIN main' = DOMAIN main,
         DOMAIN main = DOMAIN Bare => Named(main') /\ Later(main, main')
  PROVE  StatusInv'
<1> SUFFICES ASSUME DOMAIN main = DOMAIN Bare, NEW c \in Authors
             PROVE /\ Gov!IsOpen(c)' => Named(base'[c]) /\ Later(base'[c], main')
                   /\ tested'[c] # Gov!Nothing =>
                        /\ Named(tested'[c])
                        /\ Later(base'[c], tested'[c]) /\ Later(tested'[c], main')
  BY DEF StatusInv
<1>1. CASE c = a
  BY <1>1 DEF Gov!BranchInv, Gov!VerdictsHold, Gov!Forget, Gov!IsOpen
<1>2. CASE c # a
  <2>1. change'[c] = change[c] /\ base'[c] = base[c] /\ tested'[c] = tested[c]
    BY <1>2 DEF Gov!BranchInv, Gov!VerdictsHold, Gov!Forget
  <2> QED
    BY <2>1, LaterOrder DEF StatusInv, Gov!IsOpen
<1> QED
  BY <1>1, <1>2

\* Only a tree of the names has an entry of aliases.
LEMMA OnlyNamesHaveAliases ==
  ASSUME NEW t, DOMAIN t \in Families, "aliases" \in Documents(t)
  PROVE  DOMAIN t = DOMAIN Bare
  BY DocumentsOfFamilies DEF Families, NameDocuments, Pinned, ExporterDocuments, TrainDocuments,
    TopologyDocuments

\* Only the trees of the names have their cells.
LEMMA StartsOfNames ==
  ASSUME NEW t \in Starts, DOMAIN t = DOMAIN Bare
  PROVE  t \in NameStarts
<1>1. <<"aliases", "social">> \in DOMAIN t
  BY StatusCells DEF Repos
<1>2. \A u \in PreparationStarts : <<"aliases", "social">> \notin DOMAIN u
  BY ComputedKeepsCells DEF PreparationStarts
<1>3. \A u \in SupersetStarts : <<"aliases", "social">> \notin DOMAIN u
  <2>1. \A n, d : <<"aliases", "social">> \notin DOMAIN Candidate(n, d)
    BY DEF Candidate
  <2> QED
    BY <2>1 DEF SupersetStarts
<1>4. <<"aliases", "social">> \notin DOMAIN ExporterStart
  BY DEF ExporterStart
<1>5. <<"aliases", "social">> \notin DOMAIN TrainStart
  BY DEF TrainStart
<1>6. <<"aliases", "social">> \notin DOMAIN TopologyStart \cup DOMAIN EvidenceStart
  BY DEF TopologyStart, EvidenceStart
<1> QED
  BY <1>1, <1>2, <1>3, <1>4, <1>5, <1>6 DEF Starts

\* At first the manifest is absent, or every repository is prepared, or one has been
\* renamed, and rolled back.
LEMMA StartsAreNamed ==
  ASSUME NEW t \in Starts, DOMAIN t = DOMAIN Bare
  PROVE  Named(t)
<1>1. Named(Bare)
  BY StatusCells DEF Named, Status, Bare, Repos
<1>2. ASSUME NEW u, DOMAIN u = DOMAIN Bare, Named(u), NEW R, NEW s \in MAPPING_STATUSES
      PROVE  Named(Moved(u, R, s))
  <2>1. ASSUME NEW r \in Repos
        PROVE  Moved(u, R, s)[<<"aliases", r>>] = IF r \in R THEN s ELSE u[<<"aliases", r>>]
    BY <1>2, StatusCells DEF Moved, Status, Repos
  <2> QED
    BY <1>2, <2>1 DEF Named, Status
<1>3. t \in NameStarts
  BY StartsOfNames
<1> QED
  BY <1>1, <1>2, <1>3, MovedKeepsCells DEF NameStarts, MAPPING_STATUSES

\* What the statuses' edges rest on.
EdgeInv == Gov!BranchInv /\ Gov!ShapeInv /\ DOMAIN main \in Families /\ StatusInv

\* No pull request is open at first.
LEMMA EdgeInit == Gov!Init => EdgeInv
<1> SUFFICES ASSUME Gov!Init PROVE EdgeInv
  OBVIOUS
<1>1. main \in Starts /\ \A a \in Authors : ~Gov!IsOpen(a) /\ tested[a] = Gov!Nothing
  BY DEF Gov!Init, Gov!IsOpen
<1>2. StatusInv
  BY <1>1, StartsAreNamed DEF StatusInv
<1> QED
  BY <1>1, <1>2, StartsOfFamilies, Gov!BranchInvInit, Gov!ShapeInit DEF EdgeInv

\* A step of main takes each status along an edge, and no step makes any less far.
LEMMA EdgeStep ==
  ASSUME EdgeInv, [Gov!Next]_(Gov!vars)
  PROVE  /\ EdgeInv'
         /\ DOMAIN main = DOMAIN Bare =>
              \A r \in Repos : Edge(Status(main, r), Status(main', r))
<1>1. Gov!BranchInv' /\ Gov!ShapeInv' /\ DOMAIN main' = DOMAIN main
  BY Gov!BranchInvStep, Gov!ShapeStep DEF EdgeInv
<1>2. ASSUME DOMAIN main = DOMAIN Bare, NEW r \in Repos
      PROVE  Edge(Status(main, r), Status(main', r))
  <2>1. CASE main' = main
    BY <2>1 DEF Edge
  <2>2. CASE main' # main
    BY <1>2, <2>2, MainMovesByMerge, MergeGoesAlongEdges DEF EdgeInv
  <2> QED
    BY <2>1, <2>2
<1>3. DOMAIN main = DOMAIN Bare => Named(main') /\ Later(main, main')
  <2> SUFFICES ASSUME DOMAIN main = DOMAIN Bare, NEW r \in Repos
               PROVE  /\ Status(main', r) \in {Absent} \cup MAPPING_STATUSES
                      /\ Rank(Status(main, r)) <= Rank(Status(main', r))
    BY DEF Named, Later
  <2>1. Status(main, r) \in {Absent} \cup MAPPING_STATUSES
    BY DEF EdgeInv, StatusInv, Named
  <2>2. Status(main', r) \in {Absent} \cup MAPPING_STATUSES
    BY <1>2, <2>1 DEF Edge
  <2> QED
    BY <1>2, <2>1, <2>2, Ranks
<1>4. StatusInv'
  <2>1. ASSUME NEW a \in Authors, Gov!Open(a) PROVE StatusInv'
    <3>1. PICK p : /\ change' = [change EXCEPT ![a] = p]
                   /\ base' = [base EXCEPT ![a] = main]
                   /\ Gov!Checked(a, p, main)
      BY <2>1 DEF Gov!Open
    <3>2. main' = main
      BY <2>1 DEF Gov!Open
    <3> QED
      BY <3>1, <3>2, EventKeepsStatuses DEF EdgeInv
  <2>2. ASSUME NEW a \in Authors, Gov!Recheck(a) PROVE StatusInv'
    <3>1. /\ Gov!Checked(a, change[a], base[a]) /\ Gov!IsOpen(a)
          /\ change' = [change EXCEPT ![a] = change[a]]
          /\ base' = [base EXCEPT ![a] = base[a]] /\ main' = main
      BY <2>2 DEF Gov!Recheck, EdgeInv, Gov!BranchInv
    <3> QED
      BY <3>1, EventKeepsStatuses DEF EdgeInv
  <2>3. ASSUME NEW a \in Authors, Gov!Update(a) PROVE StatusInv'
    <3> DEFINE p == Gov!Diff(main, Gov!Over(change[a], main))
    <3>0. main' = main
      BY <2>3 DEF Gov!Update
    <3>1. CASE p = Gov!Nothing
      <4>1. Gov!Forget(a)
        BY <2>3, <3>1 DEF Gov!Update, Gov!Forget
      <4> QED
        BY <1>3, <3>0, <4>1, EndKeepsStatuses DEF EdgeInv
    <3>2. CASE p # Gov!Nothing
      <4>1. /\ change' = [change EXCEPT ![a] = p]
            /\ base' = [base EXCEPT ![a] = main]
            /\ Gov!Checked(a, p, main)
        BY <2>3, <3>2 DEF Gov!Update
      <4> HIDE DEF p
      <4> QED
        BY <3>0, <4>1, EventKeepsStatuses DEF EdgeInv
    <3> QED
      BY <3>1, <3>2
  <2>4. ASSUME NEW a \in Authors, Gov!Merge(a) \/ Gov!Close(a) PROVE StatusInv'
    <3>1. Gov!Forget(a)
      BY <2>4 DEF Gov!Merge, Gov!Close
    <3> QED
      BY <1>1, <1>3, <3>1, EndKeepsStatuses DEF EdgeInv
  <2>5. CASE UNCHANGED Gov!vars
    BY <2>5 DEF Gov!vars, EdgeInv, StatusInv, Gov!IsOpen
  <2> QED
    BY <2>1, <2>2, <2>3, <2>4, <2>5 DEF Gov!Next
<1> QED
  BY <1>1, <1>2, <1>4 DEF EdgeInv

\* Strict or not, a repository comes to be prepared only with the manifest, and to be
\* rolled back only from renamed, and never to be absent.
THEOREM StatusesGoAlongEdges == Spec => StatusEdges
<1>1. EdgeInv /\ [Gov!Next]_(Gov!vars) => EdgeInv'
  BY EdgeStep
<1>2. EdgeInv /\ [Gov!Next]_(Gov!vars) =>
        [\A r \in Repos :
           LET old == Status(main, r)
               new == Status(main', r)
           IN "aliases" \in Documents(main) /\ old # new =>
                /\ new = Prepared => old = Absent
                /\ new = RolledBack => old = Renamed
                /\ new # Absent]_main
  <2> SUFFICES ASSUME EdgeInv, [Gov!Next]_(Gov!vars), NEW r \in Repos,
                      "aliases" \in Documents(main), Status(main, r) # Status(main', r)
               PROVE  /\ Status(main', r) = Prepared => Status(main, r) = Absent
                      /\ Status(main', r) = RolledBack => Status(main, r) = Renamed
                      /\ Status(main', r) # Absent
    OBVIOUS
  <2>1. Edge(Status(main, r), Status(main', r))
    BY OnlyNamesHaveAliases, EdgeStep DEF EdgeInv
  <2> QED
    BY <2>1 DEF Edge, MAPPING_STATUSES, Absent, Prepared, Renamed, RolledBack
<1> QED
  BY <1>1, <1>2, EdgeInit, GatesGoverned, PTL DEF Gov!Spec, StatusEdges

\* A set of at most one element has no two.
LEMMA AtMostOne ==
  ASSUME NEW S, IsFiniteSet(S), Cardinality(S) <= 1, NEW x \in S, NEW y \in S
  PROVE  x = y
<1> SUFFICES ASSUME x # y PROVE FALSE
  OBVIOUS
<1>1. IsFiniteSet({x}) /\ Cardinality({x}) = 1
  BY FS_Singleton
<1>2. Cardinality({x} \cup {y}) = 2
  <2>1. y \notin {x}
    OBVIOUS
  <2>2. Cardinality({x} \cup {y}) = IF y \in {x} THEN Cardinality({x}) ELSE Cardinality({x}) + 1
    BY <1>1, FS_AddElement
  <2> QED
    BY <1>1, <2>1, <2>2
<1>3. Cardinality({x} \cup {y}) <= Cardinality(S)
  <2>1. {x} \cup {y} \in SUBSET S
    OBVIOUS
  <2> QED
    BY <2>1, FS_Subset
<1>4. Cardinality(S) \in Nat
  BY FS_CardinalityType
<1> QED
  BY <1>2, <1>3, <1>4

\* The statuses that change are of some of the repositories.
LEMMA ChangedAreFew ==
  ASSUME NEW b, NEW t
  PROVE  IsFiniteSet(changed_status(b, t))
<1>1. IsFiniteSet({"social", "infra", "documentation"})
  <2>1. IsFiniteSet({"social"})
    BY FS_Singleton
  <2>2. IsFiniteSet({"social"} \cup {"infra"})
    BY <2>1, FS_AddElement
  <2>3. IsFiniteSet(({"social"} \cup {"infra"}) \cup {"documentation"})
    BY <2>2, FS_AddElement
  <2>4. ({"social"} \cup {"infra"}) \cup {"documentation"} = Repos
    BY DEF Repos
  <2> QED
    BY <2>3, <2>4 DEF Repos
<1>2. changed_status(b, t) \subseteq {"social", "infra", "documentation"}
  BY DEF changed_status, Repos
<1> QED
  BY <1>1, <1>2, FS_Subset

\* A merge that changes a cell of the aliases is judged by the names' workflow, on
\* the tree main becomes.
LEMMA AliasesAreJudged ==
  ASSUME Gov!BranchInv, Gov!ShapeInv, NEW a \in Authors, Gov!Merge(a), strict,
         DOMAIN main = DOMAIN Bare, NEW k \in DOMAIN main, main'[k] # main[k],
         k[1] \in NameDocuments
  PROVE  validate(main') /\ transition(main, main')
<1>1. "names" \in Workflows /\ Sees("names") # {} /\ k[1] \in Paths("names")
  BY Called DEF Workflows
<1>2. k[1] \in Gov!Changed(main, main')
  BY DEF Gov!Changed
<1>3. Accepts("names", main, main')
  BY <1>1, <1>2, Gov!StrictMergeIsJudged
<1>4. DOMAIN main' = DOMAIN Bare
  BY Gov!MergeKeepsCells
<1> QED
  BY <1>3, <1>4, Acceptance

\* Where every merge is up to date with main, the rule that one pull request changes
\* one status is a rule about main.
THEOREM OneCutoverAtATime == Spec => OneCutover
<1> DEFINE Inv == Gov!BranchInv /\ Gov!ShapeInv /\ DOMAIN main \in Families
<1>1. Gov!Init => Inv
  BY StartsOfFamilies, Gov!BranchInvInit, Gov!ShapeInit DEF Gov!Init
<1>2. Inv /\ [Gov!Next]_(Gov!vars) => Inv'
  BY Gov!BranchInvStep, Gov!ShapeStep
<1>3. Inv /\ [Gov!Next]_(Gov!vars) =>
        [strict /\ "aliases" \in Documents(main) /\ Used(main) # {Absent} =>
           \E r \in Repos : \A s \in Repos \ {r} : Status(main', s) = Status(main, s)]_main
  <2> SUFFICES ASSUME Inv, [Gov!Next]_(Gov!vars), main' # main, strict,
                      "aliases" \in Documents(main), Used(main) # {Absent}
               PROVE \E r \in Repos : \A s \in Repos \ {r} : Status(main', s) = Status(main, s)
    OBVIOUS
  <2>1. PICK a \in Authors : Gov!Merge(a)
    BY MainMovesByMerge
  <2>2. DOMAIN main = DOMAIN Bare
    BY OnlyNamesHaveAliases
  <2>3. CASE \A s \in Repos : Status(main', s) = Status(main, s)
    BY <2>3 DEF Repos
  <2>4. ASSUME NEW r \in Repos, Status(main', r) # Status(main, r)
        PROVE  \A s \in Repos \ {r} : Status(main', s) = Status(main, s)
    <3>1. transition(main, main')
      <4>1. <<"aliases", r>> \in DOMAIN main /\ <<"aliases", r>>[1] \in NameDocuments
        BY <2>2, StatusCells DEF NameDocuments, Pinned
      <4> QED
        BY <2>1, <2>2, <2>4, <4>1, AliasesAreJudged DEF Status
    <3>2. Cardinality(changed_status(main, main')) <= 1
      BY <3>1 DEF transition, validate_one_repository_transition
    <3>3. r \in changed_status(main, main')
      BY <2>4 DEF changed_status
    <3>4. ASSUME NEW s \in Repos \ {r}, Status(main', s) # Status(main, s) PROVE FALSE
      <4>1. s \in changed_status(main, main')
        BY <3>4 DEF changed_status
      <4>2. s = r
        BY <3>2, <3>3, <4>1, ChangedAreFew, AtMostOne
      <4> QED
        BY <4>2
    <3> QED
      BY <3>4
  <2> QED
    BY <2>3, <2>4
<1> QED
  BY <1>1, <1>2, <1>3, GatesGoverned, PTL DEF Gov!Spec, OneCutover

-----------------------------------------------------------------------------
(* The documents.                                                           *)

\* What a cell may hold, whoever writes it.
ComponentSet ==
  [stage : {"feature-review", "development", "test"},
   source : {"feature-review", "development", "test"}, ci : BOOLEAN,
   artifact : {"NOT_BUILT", "EVIDENCE_COMPLETE"}, evidence : {"none", "some", "all"}]

OfSides(k, v) == /\ k[1] = "source" => v \subseteq {"current", "target"}
                 /\ k[1] \in Pinned => v \in {"current", "target"}

OfKind(k, v) ==
  /\ OfSides(k, v)
  /\ k \in {"preparation"} \X Parts => v \in ComponentSet
  /\ k = <<"service", "type">> => v \in {"ClusterIP", "LoadBalancer", "NodePort", "hostPort"}
  /\ k = <<"gateway", "upstream">> => v \in {"api", "exporter"}
  /\ k \in {<<"compose", "ports">>, <<"script", "publish">>} => v \in {"none", "9187"}
  /\ k = <<"dns", "host">> => v \in {"none", "pgex"}

Typed(p) == \A k \in DOMAIN p : OfKind(k, p[k])

\* Where a name may stand.
Stands(t, n) ==
  \/ n \in {<<"social", t[<<"lock", "social">>]>>, <<"infra", t[<<"lock", "infra">>]>>,
            <<"social", t[<<"matrix", "social">>]>>}
  \/ \E doc \in Pinned : n = <<"infra", t[<<doc, "infra">>]>>
  \/ \E x \in RecordNames(t) : n = <<"infra", x>>
  \/ \E r \in Repos : \E x \in t[<<"source", r>>] : n = <<r, x>>

\* A name is mentioned where it stands.
LEMMA MentionsStand ==
  ASSUME NEW t, NEW n
  PROVE  n \in Mentions(t) <=> Stands(t, n)
<1>1. ASSUME NEW r, NEW S PROVE n \in {r} \X S <=> \E x \in S : n = <<r, x>>
  <2>1. n \in {r} \X S => n = <<r, n[2]>> /\ n[2] \in S
    OBVIOUS
  <2>2. ASSUME NEW x \in S, n = <<r, x>> PROVE n \in {r} \X S
    BY <2>2
  <2> QED
    BY <2>1, <2>2
<1> DEFINE three == {<<"social", t[<<"lock", "social">>]>>, <<"infra", t[<<"lock", "infra">>]>>,
                     <<"social", t[<<"matrix", "social">>]>>}
           pinned == {<<"infra", t[<<doc, "infra">>]>> : doc \in Pinned}
           recorded == {"infra"} \X RecordNames(t)
           written(r) == {r} \X t[<<"source", r>>]
           all == UNION {written(r) : r \in Repos}
<1>2. Mentions(t) = three \cup pinned \cup recorded \cup all
  BY Zenon DEF Mentions
<1>7. n \in pinned <=> \E doc \in Pinned : n = <<"infra", t[<<doc, "infra">>]>>
  BY Zenon
<1>3. n \in recorded <=> \E x \in RecordNames(t) : n = <<"infra", x>>
  BY <1>1
<1>4. \A r : n \in written(r) <=> \E x \in t[<<"source", r>>] : n = <<r, x>>
  BY <1>1
<1> HIDE DEF written, recorded, three, pinned
<1>5. n \in all <=> \E r \in Repos : n \in written(r)
  OBVIOUS
<1> HIDE DEF all
<1>6. n \in all <=> \E r \in Repos : \E x \in t[<<"source", r>>] : n = <<r, x>>
  BY <1>4, <1>5
<1> QED
  BY <1>2, <1>3, <1>6, <1>7 DEF three, Stands

\* A mention is of a repository by a name.
LEMMA MentionsArePairs ==
  ASSUME NEW t, NEW n \in Mentions(t)
  PROVE  \E r, x : n = <<r, x>>
<1>1. CASE n \in {<<"social", t[<<"lock", "social">>]>>, <<"infra", t[<<"lock", "infra">>]>>,
                  <<"social", t[<<"matrix", "social">>]>>}
  BY <1>1, Zenon
<1>2. CASE \E x \in RecordNames(t) : n = <<"infra", x>>
  BY <1>2, Zenon
<1>3. CASE \E r \in Repos : \E x \in t[<<"source", r>>] : n = <<r, x>>
  BY <1>3, Zenon
<1>4. CASE \E doc \in Pinned : n = <<"infra", t[<<doc, "infra">>]>>
  BY <1>4, Zenon
<1>5. Stands(t, n)
  BY MentionsStand
<1> QED
  BY <1>1, <1>2, <1>3, <1>4, <1>5, Zenon DEF Stands

\* The name the tests replace in the release matrix is the one that is there.
LEMMA TestsOfTheMatrix ==
  ASSUME NEW t, DOMAIN t = DOMAIN Bare, validate_known_operational_bindings(t)
  PROVE  name_tests(t) <=> t[<<"nameTests", "social">>] = t[<<"matrix", "social">>]
<1> DEFINE replaced(name) == IF name = t[<<"nameTests", "social">>] THEN "fork" ELSE name
           v == replaced(t[<<"matrix", "social">>])
           u == [t EXCEPT ![<<"matrix", "social">>] = v]
<1>1. name_tests(t) <=> ~validate_known_operational_bindings(u)
  BY Zenon DEF name_tests
<1>2. {<<"aliases", "social">>, <<"aliases", "infra">>, <<"lock", "social">>, <<"lock", "infra">>,
       <<"stage9", "social">>, <<"history", "fixed">>, <<"certifier", "fixed">>,
       <<"matrix", "social">>} \subseteq DOMAIN t
  BY DEF Bare, Repos
<1>3. v = IF t[<<"matrix", "social">>] = t[<<"nameTests", "social">>]
          THEN "fork" ELSE t[<<"matrix", "social">>]
  OBVIOUS
<1> HIDE DEF v
<1>4. /\ u[<<"matrix", "social">>] = v
      /\ \A k \in {<<"aliases", "social">>, <<"aliases", "infra">>, <<"lock", "social">>,
                   <<"lock", "infra">>, <<"stage9", "social">>, <<"history", "fixed">>,
                   <<"certifier", "fixed">>} : u[k] = t[k]
  BY <1>2
<1> HIDE DEF u
<1>5. /\ operational(u, "social") = operational(t, "social")
      /\ operational(u, "infra") = operational(t, "infra")
      /\ operational(t, "social") # "fork"
  BY <1>4 DEF operational, Status
<1>6. validate_known_operational_bindings(u) <=> v = operational(t, "social")
  BY <1>4, <1>5 DEF validate_known_operational_bindings
<1>7. t[<<"matrix", "social">>] = operational(t, "social")
  BY DEF validate_known_operational_bindings
<1> QED
  BY <1>1, <1>3, <1>5, <1>6, <1>7

\* Names that pass the names workflow agree, and every status is a known one.
LEMMA ValidNamesAgree ==
  ASSUME NEW t, DOMAIN t = DOMAIN Bare, Typed(t), validate(t), name_tests(t)
  PROVE  NamesAgree(t) /\ Used(t) \subseteq MAPPING_STATUSES
<1>1. Used(t) \subseteq MAPPING_STATUSES /\ \A r \in Repos : Status(t, r) \in MAPPING_STATUSES
  BY DEF validate, validate_account_status, Used
<1> DEFINE Names == Mentions(t) \cup {<<"social", t[<<"stage9", "social">>]>>,
                                      <<"social", t[<<"nameTests", "social">>]>>}
<1>8. t[<<"nameTests", "social">>] = t[<<"matrix", "social">>]
  BY TestsOfTheMatrix DEF validate
<1>2. ASSUME NEW r \in Repos, NEW x, <<r, x>> \in Names
      PROVE x = operational(t, r)
  <2>0. <<r, forbidden(t, r)>> \notin Mentions(t)
    BY DEF validate, validate_planned_targets_absent
  <2>1. CASE x \in t[<<"source", r>>]
    <3>1. <<"source", r>> \in DOMAIN t
      BY DEF Bare
    <3>2. x \in {"current", "target"}
      BY <2>1, <3>1 DEF Typed, OfKind, OfSides
    <3>3. <<r, x>> \in Mentions(t)
      <4>1. Stands(t, <<r, x>>)
        BY <2>1, Zenon DEF Stands
      <4> QED
        BY <4>1, MentionsStand
    <3> QED
      BY <2>0, <3>2, <3>3 DEF operational, forbidden
  <2>3. ASSUME NEW doc \in Pinned, r = "infra", x = t[<<doc, "infra">>]
        PROVE  x = operational(t, r)
    <3>1. <<doc, "infra">> \in DOMAIN t
      BY <2>3 DEF Bare
    <3>2. x \in {"current", "target"}
      BY <2>3, <3>1 DEF Typed, OfKind, OfSides
    <3>3. <<r, x>> \in Mentions(t)
      <4>1. Stands(t, <<r, x>>)
        BY <2>3, Zenon DEF Stands
      <4> QED
        BY <4>1, MentionsStand
    <3> QED
      BY <2>0, <3>2, <3>3 DEF operational, forbidden
  <2>2. CASE x \notin t[<<"source", r>>]
    <3>0. <<r, x>> \in Mentions(t) => Stands(t, <<r, x>>)
      BY MentionsStand
    <3>1. \/ r = "social" /\ x = t[<<"lock", "social">>]
          \/ r = "infra" /\ x = t[<<"lock", "infra">>]
          \/ r = "social" /\ x = t[<<"matrix", "social">>]
          \/ r = "infra" /\ x \in RecordNames(t)
          \/ r = "social" /\ x = t[<<"stage9", "social">>]
          \/ \E doc \in Pinned : r = "infra" /\ x = t[<<doc, "infra">>]
      BY <1>2, <1>8, <2>2, <3>0 DEF Stands
    <3> QED
      BY <2>3, <3>1 DEF validate, validate_pairs, validate_known_operational_bindings
  <2> QED
    BY <2>1, <2>2
<1>3. ASSUME NEW n \in Names PROVE n = <<n[1], n[2]>>
  <2>1. n \in Mentions(t) => \E r, x : n = <<r, x>>
    BY MentionsArePairs
  <2>2. n \notin Mentions(t) => n = <<"social", t[<<"stage9", "social">>]>>
                              \/ n = <<"social", t[<<"nameTests", "social">>]>>
    OBVIOUS
  <2>3. PICK r, x : n = <<r, x>>
    BY <2>1, <2>2, Zenon
  <2> QED
    BY <2>3
<1>4. \A r \in Repos : operational(t, r) = CASE Status(t, r) = Prepared -> "current"
                                             [] Status(t, r) = Renamed -> "target"
                                             [] Status(t, r) = RolledBack -> "current"
  <2>1. Prepared # Renamed /\ Renamed # RolledBack /\ Prepared # RolledBack
    BY DEF Prepared, Renamed, RolledBack
  <2> QED
    BY <1>1, <2>1, Zenon DEF operational, MAPPING_STATUSES
<1>5. \A r \in Repos : \A n \in Names : n[1] = r => n[2] = operational(t, r)
  BY <1>2, <1>3
<1>6. t[<<"record", "infra">>] # {} /\ t[<<"aliases", "infra.status">>] = Status(t, "infra")
  BY DEF validate, validate_pairs, RecordNames, validate_infrastructure
<1>7. \A s \in {Prepared, Renamed} : t[<<"aliases", "account">>] = s <=> Used(t) = {s}
  BY DEF validate, validate_account_status, Prepared, Renamed, RolledBack, Partially, MAPPING_STATUSES
<1> QED
  BY <1>1, <1>4, <1>5, <1>6, <1>7, Zenon DEF NamesAgree

\* A private exporter is private.
LEMMA PrivateExporter ==
  ASSUME NEW t, DOMAIN t = DOMAIN ExporterStart, Typed(t), validate_postgres_exporter_privacy(t)
  PROVE  ExporterIsPrivate(t)
  BY DEF ExporterStart, Typed, OfKind, ExporterIsPrivate, validate_postgres_exporter_privacy,
    PublishedDirectly, _kubernetes_public_service_exposes_exporter, OpenRule, GatewayNamesExporter

\* A stage of the branch is the only one of it.
LEMMA TrainOfOneCommit ==
  ASSUME NEW t, train(t)
  PROVE  TrainAgrees(t)
<1> DEFINE b == t[<<"registry", "branch">>]
           stack == t[<<"branchLock", "stack">>]
           blocked == t[<<"branchLock", "blockedParallelBranches">>]
           named == {n \in DOMAIN stack : stack[n].branch = b}
<1>1. /\ t[<<"branchLock", "canonicalBranch">>] = b /\ t[<<"manifest", "candidateBranch">>] = b
      /\ t[<<"registry", "headSha">>] = t[<<"manifest", "candidateSha">>]
      /\ b \notin ToSet(blocked) /\ validate_stack(stack, b)
  BY DEF train, validate_lock, validate_manifest
<1>2. Cardinality({b}) = 1
  BY FS_Singleton
<1>3. \A i \in DOMAIN blocked : blocked[i] # b
  BY <1>1 DEF ToSet
<1>4. ASSUME stack # NoStack PROVE Cardinality(named) = 1
  <2>1. PICK i \in DOMAIN stack : stack[i].branch = b
    BY <1>1, <1>4 DEF validate_stack
  <2>2. \A n \in DOMAIN stack : stack[n].branch = b => n = i
    <3> DEFINE f == [n \in DOMAIN stack |-> stack[n].branch]
    <3>1. IsInjective(f)
      BY <1>1, <1>4 DEF validate_stack
    <3>2. DOMAIN f = DOMAIN stack /\ \A n \in DOMAIN stack : f[n] = stack[n].branch
      OBVIOUS
    <3> HIDE DEF f
    <3>3. \A n \in DOMAIN stack : f[n] = f[i] => n = i
      BY <2>1, <3>1, <3>2 DEF IsInjective
    <3> QED
      BY <2>1, <3>2, <3>3
  <2>3. named = {i}
    BY <2>1, <2>2
  <2> QED
    BY <2>3, FS_Singleton
<1> QED
  BY <1>1, <1>2, <1>3, <1>4 DEF TrainAgrees

\* A topology both of its validators accept has its flows and its firewall agree.
LEMMA TopologyOfFlows ==
  ASSUME NEW t, topology(t)
  PROVE  TopologyAgrees(t)
  BY DEF topology, validate_communication, validate_firewall, Guarded, TopologyAgrees

\* A manifest that passes the validator and the assertions of its workflow says of
\* the whole what its components add up to.
LEMMA PreparedManifest ==
  ASSUME NEW t, DOMAIN t = PreparationCells, Typed(t), preparation(t), assert_no_go(t, "preparation")
  PROVE  PreparationAgrees(t)
<1>1. \A c \in Parts : Component(t, c) \in ComponentSet
  BY DEF PreparationCells, Typed, OfKind, Component
<1>2. \A c \in Parts : Component(t, c) = At(Component(t, c).stage, Component(t, c).artifact)
  BY <1>1 DEF preparation, validate_component, At, ComponentSet
<1> DEFINE ready == /\ \A c \in Parts : Component(t, c) = At("test", "EVIDENCE_COMPLETE")
                    /\ t[<<"preparation", "otherGates">>]
<1>3. t[<<"preparation", "go">>] = (all_gates(t) /\ all_artifacts(t))
      /\ t[<<"preparation", "blockers">>] = ~(all_gates(t) /\ all_artifacts(t))
  BY DEF preparation, validate_decision
<1>4. ready <=> all_gates(t) /\ all_artifacts(t)
  <2>1. \A c \in Parts : Component(t, c) = At("test", "EVIDENCE_COMPLETE") <=>
          Component(t, c).stage = "test" /\ Component(t, c).artifact = "EVIDENCE_COMPLETE"
    BY <1>2 DEF At
  <2>2. \A c \in Parts : Component(t, c).stage = "test" => Component(t, c).ci
    BY DEF preparation, validate_component
  <2>3. all_gates(t) <=> all_test(t) /\ all_ci(t) /\ t[<<"preparation", "otherGates">>]
    BY DEF all_gates, preparation, validate_gates
  <2> QED
    BY <2>1, <2>2, <2>3 DEF all_artifacts, all_test, all_ci
<1> HIDE DEF ready
<1>5. t[<<"preparation", "go">>] = ready /\ t[<<"preparation", "blockers">>] # ready
  BY <1>3, <1>4
<1> QED
  BY <1>2, <1>5, Zenon DEF PreparationAgrees, ready

\* Evidence that passes is the template: no decision, nothing enabled.
LEMMA TemplateOnly ==
  ASSUME NEW t, evidence(t), assert_no_go(t, "evidence")
  PROVE  EvidenceAgrees(t)
  BY DEF evidence, assert_no_go, validate_sections, validate_decision, EvidenceAgrees

\* A contract the validator accepts has the evidence and the bindings of its state, and
\* of all the states before it.
LEMMA CertifiedChain ==
  ASSUME NEW t, superset(t)
  PROVE  SupersetAgrees(t)
<1>1. PICK n \in 1 .. 5 :
        /\ t[<<"contract", "status">>] = CANDIDATE_STATES[n]
        /\ IF n = 1 THEN {t[<<"contract", "image">>], t[<<"contract", "image_digest">>]} = {Null}
                    ELSE require_release_identity(t)
        /\ validate_evidence(t, n)
        /\ validate_bindings(t, n)
  BY DEF superset, validate_candidate, CANDIDATE_STATES
<1>2. t[<<"contract", "production_certified">>] = (n = 5)
  BY <1>1 DEF superset, CANDIDATE_STATES, Certified
<1>3. /\ (t[<<"contract", "hosted">>] # Null) = (3 <= n)
      /\ (t[<<"contract", "bounded">>] # Null) = (4 <= n)
      /\ (t[<<"contract", "canary">>] # Null) = (5 <= n)
  <2>1. DOMAIN Evidence = 1 .. 3 /\ Evidence[1] = "hosted" /\ Evidence[2] = "bounded"
        /\ Evidence[3] = "canary"
    BY DEF Evidence
  <2> QED
    BY <1>1, <2>1 DEF validate_evidence
<1>4. t[<<"contract", "image">>] = t[<<"contract", "image_digest">>]
      /\ (t[<<"contract", "image">>] = Null <=> n = 1)
  BY <1>1 DEF require_release_identity
<1>5. /\ n = 1 => \A b \in Bindings : ~t[<<"contract", b>>]
      /\ n = 4 => t[<<"contract", StagingBindings>>]
      /\ n = 5 => t[<<"contract", StagingBindings>>] /\ t[<<"contract", OtherBindings>>]
  BY <1>1 DEF validate_bindings, Bindings
<1>6. t[<<"contract", "canary">>] # Null <=> n = 5
  BY <1>3
<1>7. t[<<"contract", "bounded">>] # Null <=> n \in {4, 5}
  BY <1>3
<1>8. t[<<"contract", "hosted">>] # Null <=> n \in {3, 4, 5}
  BY <1>3
<1>9. /\ t[<<"contract", "canary">>] # Null =>
           t[<<"contract", "bounded">>] # Null /\ t[<<"contract", OtherBindings>>]
      /\ t[<<"contract", "bounded">>] # Null =>
           t[<<"contract", "hosted">>] # Null /\ t[<<"contract", StagingBindings>>]
      /\ t[<<"contract", "hosted">>] # Null => t[<<"contract", "image">>] # Null
  BY <1>4, <1>5, <1>6, <1>7, <1>8
<1>10. t[<<"contract", "production_certified">>] <=> t[<<"contract", "canary">>] # Null
  BY <1>2, <1>6
<1>11. t[<<"contract", "image">>] = Null => \A b \in Bindings : ~t[<<"contract", b>>]
  BY <1>4, <1>5
<1> QED
  BY <1>4, <1>9, <1>10, <1>11 DEF SupersetAgrees

-----------------------------------------------------------------------------
(* A cutover.                                                               *)

\* Where a repository stands once the repositories R have moved to s.
To(t, R, s, r) == IF r \in R THEN s ELSE Status(t, r)
Side(t, R, s, r) == IF To(t, R, s, r) = Renamed THEN "target" ELSE "current"

\* What every cell holds then.
HoldsMoved(t, R, s, m) ==
  /\ \A r \in Repos : /\ m[<<"aliases", r>>] = To(t, R, s, r)
                      /\ m[<<"source", r>>] = {Side(t, R, s, r)}
  /\ m[<<"aliases", "infra.status">>] = To(t, R, s, "infra")
  /\ m[<<"aliases", "account">>] = Account({To(t, R, s, r) : r \in Repos})
  /\ m[<<"aliases", "runtime_state">>] =
       IF To(t, R, s, "infra") = Renamed THEN "NOT_DEPLOYED_NA"
                                         ELSE "REQUIRES_PRE_CUTOVER_DISCOVERY"
  /\ m[<<"lock", "social">>] = Side(t, R, s, "social")
  /\ m[<<"lock", "infra">>] = Side(t, R, s, "infra")
  /\ m[<<"matrix", "social">>] = Side(t, R, s, "social")
  /\ m[<<"stage9", "social">>] = Side(t, R, s, "social")
  /\ m[<<"record", "infra">>] = {Side(t, R, s, "infra")}
  /\ m[<<"nameTests", "social">>] = Side(t, R, s, "social")
  /\ \A doc \in Pinned : m[<<doc, "infra">>] = Side(t, R, s, "infra")
  /\ \A k \in DOMAIN t : k[2] = "fixed" => m[k] = t[k]

\* Every place of a repository that moves moves with it.
LEMMA MovedCells ==
  ASSUME NEW t, DOMAIN t = DOMAIN Bare, NEW R, NEW s
  PROVE  HoldsMoved(t, R, s, Moved(t, R, s))
<1> DEFINE m == Moved(t, R, s)
<1>1. /\ {<<"aliases", "infra.status">>, <<"aliases", "account">>, <<"aliases", "runtime_state">>,
          <<"lock", "social">>, <<"lock", "infra">>, <<"matrix", "social">>,
          <<"stage9", "social">>, <<"record", "infra">>, <<"nameTests", "social">>} \subseteq DOMAIN t
      /\ \A doc \in Pinned : <<doc, "infra">> \in DOMAIN t
      /\ \A r \in Repos : <<"aliases", r>> \in DOMAIN t /\ <<"source", r>> \in DOMAIN t
  BY DEF Bare, Repos
<1>2. \A r \in Repos : m[<<"aliases", r>>] = To(t, R, s, r)
  BY <1>1 DEF Moved, To, Repos
<1>3. \A r \in Repos : m[<<"source", r>>] = {Side(t, R, s, r)}
  BY <1>1 DEF Moved, To, Side, Repos
<1>4. m[<<"aliases", "infra.status">>] = To(t, R, s, "infra")
  BY <1>1 DEF Moved, To, Repos
<1>5. m[<<"aliases", "account">>] = Account({To(t, R, s, r) : r \in Repos})
  BY <1>1 DEF Moved, To, Repos
<1>6. m[<<"aliases", "runtime_state">>] =
        IF To(t, R, s, "infra") = Renamed THEN "NOT_DEPLOYED_NA"
                                          ELSE "REQUIRES_PRE_CUTOVER_DISCOVERY"
  BY <1>1 DEF Moved, To, Repos
<1>7. m[<<"lock", "social">>] = Side(t, R, s, "social") /\ m[<<"lock", "infra">>] = Side(t, R, s, "infra")
  BY <1>1 DEF Moved, To, Side
<1>8. /\ m[<<"matrix", "social">>] = Side(t, R, s, "social")
      /\ m[<<"stage9", "social">>] = Side(t, R, s, "social")
      /\ m[<<"nameTests", "social">>] = Side(t, R, s, "social")
  BY <1>1 DEF Moved, To, Side
<1>11. \A doc \in Pinned : m[<<doc, "infra">>] = Side(t, R, s, "infra")
  BY <1>1 DEF Moved, To, Side, Pinned
<1>9. m[<<"record", "infra">>] = {Side(t, R, s, "infra")}
  BY <1>1 DEF Moved, To, Side
<1>10. \A k \in DOMAIN t : k[2] = "fixed" => m[k] = t[k]
  BY DEF Moved
<1> QED
  BY <1>2, <1>3, <1>4, <1>5, <1>6, <1>7, <1>8, <1>9, <1>10, <1>11 DEF HoldsMoved

\* An account says of its repositories what the validator wants it to.
LEMMA AccountIsValid ==
  ASSUME NEW U, U \subseteq MAPPING_STATUSES, U # {}
  PROVE  LET account == Account(U) IN
         /\ account \in MAPPING_STATUSES \cup {Partially}
         /\ account \in {Prepared, Renamed} => U = {account}
         /\ account = Partially => Renamed \in U /\ U # {Renamed}
         /\ account = RolledBack => RolledBack \in U
<1>0. /\ Partially \notin MAPPING_STATUSES /\ Prepared # Renamed /\ Renamed # RolledBack
      /\ Prepared # RolledBack
  BY DEF Partially, MAPPING_STATUSES, Prepared, Renamed, RolledBack
<1>1. \A x : Cardinality({x}) = 1
  BY FS_Singleton
<1>2. CASE Cardinality(U) = 1
  <2>1. IsFiniteSet({Prepared, Renamed, RolledBack})
    <3>1. IsFiniteSet({Prepared})
      BY FS_Singleton
    <3>2. IsFiniteSet({Prepared} \cup {Renamed})
      BY <3>1, FS_AddElement
    <3>3. IsFiniteSet(({Prepared} \cup {Renamed}) \cup {RolledBack})
      BY <3>2, FS_AddElement
    <3>4. ({Prepared} \cup {Renamed}) \cup {RolledBack} = {Prepared, Renamed, RolledBack}
      OBVIOUS
    <3> QED
      BY <3>3, <3>4
  <2>2. IsFiniteSet(U)
    <3>1. U \in SUBSET {Prepared, Renamed, RolledBack}
      BY DEF MAPPING_STATUSES
    <3> QED
      BY <2>1, <3>1, FS_Subset
  <2>3. PICK x : U = {x}
    BY <1>2, <2>2, FS_Singleton
  <2>4. Account(U) = x
    BY <1>2, <2>3 DEF Account
  <2> QED
    BY <1>0, <2>3, <2>4
<1>3. CASE Cardinality(U) # 1 /\ Renamed \in U
  <2>1. Account(U) = Partially
    BY <1>3 DEF Account
  <2> QED
    BY <1>0, <1>1, <1>3, <2>1 DEF MAPPING_STATUSES
<1>4. CASE Cardinality(U) # 1 /\ Renamed \notin U
  <2>1. Account(U) = RolledBack
    BY <1>4 DEF Account
  <2>2. U # {Prepared}
    BY <1>1, <1>4
  <2>3. RolledBack \in U
    BY <1>4, <2>2 DEF MAPPING_STATUSES
  <2> QED
    BY <1>0, <2>1, <2>3 DEF MAPPING_STATUSES
<1> QED
  BY <1>2, <1>3, <1>4

\* Cells that are compared with a literal, of the names.
FixedNames == {<<"aliases", "fixed">>, <<"history", "fixed">>, <<"certifier", "fixed">>,
               <<"stage9", "fixed">>}

\* Wherever the repositories move that have a status, the validators take it.
LEMMA MovedIsValid ==
  ASSUME NEW t, DOMAIN t = DOMAIN Bare, NEW R, NEW s,
         \A k \in FixedNames : t[k],
         \A r \in Repos : To(t, R, s, r) \in MAPPING_STATUSES
  PROVE  LET m == Moved(t, R, s) IN
         /\ validate(m) /\ certify(m) /\ validate_pairs(m) /\ name_tests(m)
         /\ compares(m, "template", "templateCheck") /\ compares(m, "bounded", "boundedCheck")
         /\ \A r \in Repos : Status(m, r) = To(t, R, s, r)
<1> DEFINE m == Moved(t, R, s)
<1>11. HoldsMoved(t, R, s, m)
  BY MovedCells
<1> HIDE DEF m
<1>0. \A k \in FixedNames : k \in DOMAIN t /\ k[2] = "fixed"
  BY DEF FixedNames, Bare
<1>1. \A k \in FixedNames : m[k]
  BY <1>11, <1>0 DEF HoldsMoved
<1>2. \A r \in Repos : Status(m, r) = To(t, R, s, r)
  BY <1>11 DEF HoldsMoved, Status
<1>3. \A r \in Repos : operational(m, r) = Side(t, R, s, r) /\ forbidden(m, r) # Side(t, R, s, r)
  BY <1>2 DEF operational, forbidden, Side
<1>4. validate_account_status(m)
  <2>1. Used(m) = {To(t, R, s, r) : r \in Repos}
    BY <1>2 DEF Used
  <2>2. Used(m) \subseteq MAPPING_STATUSES /\ Used(m) # {}
    BY <2>1 DEF Repos
  <2>3. m[<<"aliases", "account">>] = Account(Used(m))
    BY <1>11, <2>1 DEF HoldsMoved
  <2> QED
    BY <2>2, <2>3, AccountIsValid DEF validate_account_status
<1>5. validate_infrastructure(m)
  <2>1. "infra" \in Repos
    BY DEF Repos
  <2>2. Status(m, "infra") = To(t, R, s, "infra")
    BY <1>2, <2>1
  <2>3. m[<<"aliases", "infra.status">>] = To(t, R, s, "infra")
    BY <1>11 DEF HoldsMoved
  <2>4. m[<<"aliases", "runtime_state">>] =
        IF To(t, R, s, "infra") = Renamed THEN "NOT_DEPLOYED_NA"
                                          ELSE "REQUIRES_PRE_CUTOVER_DISCOVERY"
    BY <1>11 DEF HoldsMoved
  <2> QED
    BY <2>2, <2>3, <2>4 DEF validate_infrastructure
<1>6. validate_planned_targets_absent(m)
  <2> SUFFICES ASSUME NEW r \in Repos, <<r, forbidden(m, r)>> \in Mentions(m) PROVE FALSE
    BY DEF validate_planned_targets_absent
  <2>1. Stands(m, <<r, forbidden(m, r)>>)
    BY MentionsStand
  <2> DEFINE f == forbidden(m, r)
  <2>2. f # Side(t, R, s, r)
    BY <1>3
  <2>3. Stands(m, <<r, f>>)
    BY <2>1
  <2> HIDE DEF f
  <2>4. /\ RecordNames(m) = {Side(t, R, s, "infra")}
        /\ \A q \in Repos : m[<<"source", q>>] = {Side(t, R, s, q)}
        /\ m[<<"lock", "social">>] = Side(t, R, s, "social")
        /\ m[<<"lock", "infra">>] = Side(t, R, s, "infra")
        /\ m[<<"matrix", "social">>] = Side(t, R, s, "social")
        /\ \A doc \in Pinned : m[<<doc, "infra">>] = Side(t, R, s, "infra")
    BY <1>11 DEF HoldsMoved, RecordNames
  <2> QED
    BY <2>2, <2>3, <2>4 DEF Stands
<1>7. validate_pairs(m)
  <2>1. RecordNames(m) = {Side(t, R, s, "infra")}
    BY <1>11 DEF HoldsMoved, RecordNames
  <2> QED
    BY <1>3, <2>1 DEF validate_pairs, Repos
<1>8. validate_known_operational_bindings(m)
  <2>1. /\ m[<<"lock", "social">>] = Side(t, R, s, "social")
        /\ m[<<"lock", "infra">>] = Side(t, R, s, "infra")
        /\ m[<<"matrix", "social">>] = Side(t, R, s, "social")
        /\ m[<<"stage9", "social">>] = Side(t, R, s, "social")
    BY <1>11 DEF HoldsMoved
  <2> QED
    BY <1>1, <1>3, <2>1 DEF validate_known_operational_bindings, Repos, FixedNames
<1>9. certify(m)
  <2>1. m[<<"stage9", "social">>] = Side(t, R, s, "social") /\ "social" \in Repos
    BY <1>11 DEF HoldsMoved, Repos
  <2> QED
    BY <1>1, <1>2, <1>3, <2>1 DEF certify, social_control_slug, FixedNames
<1>10. validate(m)
  BY <1>1, <1>4, <1>5, <1>6, <1>7, <1>8 DEF validate, FixedNames
<1>12. name_tests(m)
  <2>1. DOMAIN m = DOMAIN Bare
    BY MovedKeepsCells DEF m
  <2>2. m[<<"nameTests", "social">>] = m[<<"matrix", "social">>]
    BY <1>11 DEF HoldsMoved
  <2> QED
    BY <1>8, <2>1, <2>2, TestsOfTheMatrix
<1>13. compares(m, "template", "templateCheck") /\ compares(m, "bounded", "boundedCheck")
  BY <1>11 DEF HoldsMoved, Pinned, compares
<1> QED
  BY <1>2, <1>7, <1>9, <1>10, <1>12, <1>13 DEF m

\* A tree of the names that passes every validator that looks at it and the tests is
\* accepted by the workflows they run in.
LEMMA NamesAreAccepted ==
  ASSUME NEW b, NEW t, DOMAIN t = DOMAIN Bare, validate(t), transition(b, t), name_tests(t),
         certify(t), compares(t, "template", "templateCheck"), compares(t, "bounded", "boundedCheck")
  PROVE  \A w \in {"names", "stage9", "evidence", "superset"} : Accepts(w, b, t)
<1>1. /\ "service" \notin Documents(t) /\ "evidence" \notin Documents(t)
      /\ "contract" \notin Documents(t)
  BY DocumentsOfFamilies DEF NameDocuments, Pinned
<1>2. Accepts("names", b, t)
  BY <1>1, Zenon DEF Accepts
<1>3. Accepts("stage9", b, t)
  BY Zenon DEF Accepts
<1>4. Accepts("evidence", b, t)
  BY <1>1, Zenon DEF Accepts
<1>5. Accepts("superset", b, t)
  BY <1>1, Zenon DEF Accepts
<1> QED
  BY <1>2, <1>3, <1>4, <1>5

\* One repository that takes its next step changes no other, and goes along an edge.
LEMMA NextStepIsAllowed ==
  ASSUME NEW b, NEW t, Used(b) \subseteq MAPPING_STATUSES, NEW r \in Repos,
         validate_pairs(t),
         \A q \in Repos : Status(t, q) =
           To(b, {r}, IF Status(b, r) = Renamed THEN RolledBack ELSE Renamed, q)
  PROVE  transition(b, t)
<1>1. Absent \notin MAPPING_STATUSES /\ Prepared # Renamed /\ RolledBack # Renamed
  BY DEF Absent, MAPPING_STATUSES, Prepared, Renamed, RolledBack
<1>2. Used(b) # {Absent}
  BY <1>1
<1>3. changed_status(b, t) \in SUBSET {r}
  BY DEF changed_status, To
<1>4. IsFiniteSet({r}) /\ Cardinality({r}) = 1
  BY FS_Singleton
<1>5. Cardinality(changed_status(b, t)) <= 1
  BY <1>3, <1>4, FS_Subset
<1>6. Status(b, r) \in MAPPING_STATUSES
  BY DEF Used
<1>7. <<Status(b, r), Status(t, r)>> \in ALLOWED_STATUS_TRANSITIONS
  <2>1. Status(t, r) = IF Status(b, r) = Renamed THEN RolledBack ELSE Renamed
    BY DEF To
  <2> QED
    BY <1>1, <1>6, <2>1 DEF ALLOWED_STATUS_TRANSITIONS, MAPPING_STATUSES
<1> QED
  BY <1>2, <1>3, <1>5, <1>7 DEF transition, validate_record_repository_fields,
    validate_one_repository_transition

\* The manifest is absent, or every repository has a status.
Settled(t) == Used(t) = {Absent} \/ Used(t) \subseteq MAPPING_STATUSES

\* From such a tree, its literals as they should be, every next step can be merged.
LEMMA StepsArePossible ==
  ASSUME NEW t, DOMAIN t = DOMAIN Bare, Settled(t), \A k \in FixedNames : t[k]
  PROVE  LET Possible(u) == \A w \in {"names", "stage9", "evidence", "superset"} : Accepts(w, t, u) IN
         IF Used(t) = {Absent} THEN Possible(Moved(t, Repos, Prepared))
         ELSE \A r \in Repos :
                Possible(Moved(t, {r}, IF Status(t, r) = Renamed THEN RolledBack
                                                                 ELSE Renamed))
<1>1. CASE Used(t) = {Absent}
  <2> DEFINE m == Moved(t, Repos, Prepared)
  <2>1. \A r \in Repos : To(t, Repos, Prepared, r) = Prepared
    BY DEF To
  <2>2. Prepared \in MAPPING_STATUSES
    BY DEF MAPPING_STATUSES
  <2>3. /\ validate(m) /\ certify(m) /\ validate_pairs(m) /\ name_tests(m)
        /\ compares(m, "template", "templateCheck") /\ compares(m, "bounded", "boundedCheck")
        /\ \A r \in Repos : Status(m, r) = Prepared
    BY <2>1, <2>2, MovedIsValid
  <2>4. DOMAIN m = DOMAIN Bare
    BY MovedKeepsCells
  <2> HIDE DEF m
  <2>5. Used(m) = {Prepared}
    BY <2>3 DEF Used, Repos
  <2>6. transition(t, m)
    BY <1>1, <2>3, <2>5 DEF transition, validate_record_repository_fields
  <2>7. \A w \in {"names", "stage9", "evidence", "superset"} : Accepts(w, t, m)
    BY <2>3, <2>4, <2>6, NamesAreAccepted
  <2> QED
    BY <1>1, <2>7 DEF m
<1>2. ASSUME Used(t) # {Absent}, NEW r \in Repos
      PROVE  \A w \in {"names", "stage9", "evidence", "superset"} :
               Accepts(w, t, Moved(t, {r}, IF Status(t, r) = Renamed THEN RolledBack ELSE Renamed))
  <2> DEFINE s == IF Status(t, r) = Renamed THEN RolledBack ELSE Renamed
             m == Moved(t, {r}, s)
  <2>1. Used(t) \subseteq MAPPING_STATUSES
    BY <1>2 DEF Settled
  <2>2. s \in MAPPING_STATUSES
    BY DEF MAPPING_STATUSES
  <2>3. \A q \in Repos : To(t, {r}, s, q) \in MAPPING_STATUSES
    BY <2>1, <2>2 DEF To, Used
  <2> HIDE DEF s
  <2>4. /\ validate(m) /\ certify(m) /\ validate_pairs(m) /\ name_tests(m)
        /\ compares(m, "template", "templateCheck") /\ compares(m, "bounded", "boundedCheck")
        /\ \A q \in Repos : Status(m, q) = To(t, {r}, s, q)
    BY <2>3, MovedIsValid
  <2>5. DOMAIN m = DOMAIN Bare
    BY MovedKeepsCells
  <2> HIDE DEF m
  <2>6. transition(t, m)
    BY <2>1, <2>4, NextStepIsAllowed DEF s
  <2>7. \A w \in {"names", "stage9", "evidence", "superset"} : Accepts(w, t, m)
    BY <2>4, <2>5, <2>6, NamesAreAccepted
  <2> QED
    BY <2>7 DEF m, s
<1> QED
  BY <1>1, <1>2

\* At first main is settled.
LEMMA StartsAreSettled ==
  ASSUME NEW t \in NameStarts
  PROVE  /\ t = Bare \/ (validate(t) /\ name_tests(t))
         /\ Settled(t)
<1>1. \A k \in FixedNames : Bare[k] = TRUE
  <2>1. \A k \in FixedNames : k \in DOMAIN Bare /\ k[2] = "fixed"
    BY DEF FixedNames, Bare
  <2> QED
    BY <2>1 DEF Bare
<1>2. ASSUME NEW u, DOMAIN u = DOMAIN Bare, \A k \in FixedNames : u[k],
             NEW R \in SUBSET Repos, NEW s \in MAPPING_STATUSES,
             R = Repos \/ \A r \in Repos : Status(u, r) \in MAPPING_STATUSES
      PROVE  LET m == Moved(u, R, s) IN
             /\ DOMAIN m = DOMAIN Bare /\ validate(m) /\ name_tests(m)
             /\ \A k \in FixedNames : m[k]
             /\ \A r \in Repos : Status(m, r) \in MAPPING_STATUSES
  <2>1. \A r \in Repos : To(u, R, s, r) \in MAPPING_STATUSES
    BY <1>2 DEF To
  <2>2. \A k \in FixedNames : k \in DOMAIN u /\ k[2] = "fixed"
    BY <1>2 DEF FixedNames, Bare
  <2>3. HoldsMoved(u, R, s, Moved(u, R, s))
    BY <1>2, MovedCells
  <2>4. \A k \in FixedNames : Moved(u, R, s)[k]
    BY <1>2, <2>2, <2>3 DEF HoldsMoved
  <2>5. validate(Moved(u, R, s)) /\ name_tests(Moved(u, R, s))
        /\ \A r \in Repos : Status(Moved(u, R, s), r) = To(u, R, s, r)
    BY <1>2, <2>1, MovedIsValid
  <2> QED
    BY <1>2, <2>1, <2>4, <2>5, MovedKeepsCells
<1> DEFINE Good(u) == /\ DOMAIN u = DOMAIN Bare /\ validate(u) /\ name_tests(u)
                      /\ \A k \in FixedNames : u[k]
                      /\ \A r \in Repos : Status(u, r) \in MAPPING_STATUSES
           all == Moved(Bare, Repos, Prepared)
           one == Moved(all, {"infra"}, Renamed)
           back == Moved(one, {"infra"}, RolledBack)
<1>3. Prepared \in MAPPING_STATUSES /\ Renamed \in MAPPING_STATUSES /\ RolledBack \in MAPPING_STATUSES
      /\ {"infra"} \in SUBSET Repos /\ Repos \in SUBSET Repos
  BY DEF MAPPING_STATUSES, Repos
<1>4. Good(all)
  BY <1>1, <1>2, <1>3
<1> HIDE DEF all
<1>5. Good(one)
  BY <1>2, <1>3, <1>4
<1> HIDE DEF one
<1>6. Good(back)
  BY <1>2, <1>3, <1>5
<1> HIDE DEF back
<1>7. \A u : Good(u) => validate(u) /\ name_tests(u) /\ Settled(u)
  BY DEF Settled, Used
<1>8. Settled(Bare)
  <2>1. \A r \in Repos : Status(Bare, r) = Absent
    BY StatusCells DEF Status, Bare, Repos
  <2> QED
    BY <2>1 DEF Settled, Used, Repos
<1>9. t \in {Bare, all, one, back}
  BY Zenon DEF NameStarts, all, one, back
<1> QED
  BY <1>4, <1>5, <1>6, <1>7, <1>8, <1>9

\* With strict protection main is settled, and holds what a step needs.
CutoverInv == FreezeInv /\ (strict /\ DOMAIN main = DOMAIN Bare => Settled(main))

\* At first main is settled.
LEMMA CutoverInit == Gov!Init => CutoverInv
<1> SUFFICES ASSUME Gov!Init, DOMAIN main = DOMAIN Bare PROVE Settled(main)
  BY FreezeInit DEF CutoverInv
<1>1. main \in Starts
  BY DEF Gov!Init
<1>2. main \in NameStarts
  BY <1>1, StartsOfNames
<1> QED
  BY <1>2, StartsAreSettled

\* A merge that sets a status has been judged on the tree main becomes.
LEMMA CutoverStep ==
  ASSUME CutoverInv, [Gov!Next]_(Gov!vars)
  PROVE  CutoverInv'
<1>1. FreezeInv' /\ DOMAIN main' = DOMAIN main /\ strict' = strict
  <2>1. strict' = strict
    BY DEF Gov!Next, Gov!Open, Gov!Recheck, Gov!Update, Gov!Merge, Gov!Close, Gov!vars
  <2> QED
    BY <2>1, FreezeStep, Gov!ShapeStep DEF CutoverInv, FreezeInv
<1>2. ASSUME strict, DOMAIN main = DOMAIN Bare PROVE Settled(main')
  <2>1. CASE \A r \in Repos : Status(main', r) = Status(main, r)
    <3>1. Used(main') = Used(main)
      BY <2>1 DEF Used
    <3> QED
      BY <1>2, <3>1 DEF CutoverInv, Settled
  <2>2. ASSUME NEW r \in Repos, Status(main', r) # Status(main, r) PROVE Settled(main')
    <3>1. PICK a \in Authors : Gov!Merge(a)
      BY <2>2, MainMovesByMerge
    <3>2. <<"aliases", r>> \in DOMAIN main /\ <<"aliases", r>>[1] \in NameDocuments
      BY <1>2, StatusCells DEF NameDocuments, Pinned
    <3>3. validate(main')
      BY <1>2, <2>2, <3>1, <3>2, AliasesAreJudged DEF Status, CutoverInv, FreezeInv
    <3> QED
      BY <3>3 DEF validate, validate_account_status, Settled
  <2> QED
    BY <2>1, <2>2
<1> QED
  BY <1>1, <1>2 DEF CutoverInv

\* The migration can always go on: with strict protection every workflow it calls takes
\* the pull request in which any one repository takes its next step in every document,
\* and in the tests and the other validators that spell its name.
THEOREM CutoverKeepsOpen == Spec => []CutoverStaysOpen
<1>1. CutoverInv => CutoverStaysOpen
  <2> SUFFICES ASSUME CutoverInv, strict, "aliases" \in Documents(main)
               PROVE  CutoverStaysOpen
    BY DEF CutoverStaysOpen
  <2>1. DOMAIN main = DOMAIN Bare
    BY OnlyNamesHaveAliases DEF CutoverInv, FreezeInv
  <2>2. Settled(main)
    BY <2>1 DEF CutoverInv
  <2>3. \A k \in FixedNames : main[k]
    <3>1. \A k \in FixedNames : k \in DOMAIN main /\ k[2] = "fixed"
      BY <2>1 DEF FixedNames, Bare
    <3> QED
      BY <3>1 DEF CutoverInv, FreezeInv, FreezeHolds
  <2> QED
    BY <2>1, <2>2, <2>3, StepsArePossible DEF CutoverStaysOpen
<1> QED
  BY <1>1, CutoverInit, CutoverStep, GatesGoverned, PTL DEF Gov!Spec

-----------------------------------------------------------------------------
(* What main says.                                                          *)

\* Which cells of a family have a kind.
LEMMA KindsOfFamilies ==
  ASSUME NEW k, NEW v
  PROVE  /\ k \in DOMAIN Bare /\ OfSides(k, v) => OfKind(k, v)
         /\ k \in PreparationCells /\ (k[2] \in Parts => v \in ComponentSet) => OfKind(k, v)
         /\ k \in DOMAIN TrainStart => OfKind(k, v)
         /\ k \in DOMAIN TopologyStart => OfKind(k, v)
         /\ k \in DOMAIN EvidenceStart => OfKind(k, v)
         /\ k \in DOMAIN Candidate(1, Null) => OfKind(k, v)
<1> USE DEF OfKind
<1>1. k \in DOMAIN Bare => k[1] \in NameDocuments
  BY DEF Bare, NameDocuments, Pinned
<1>2. k \in PreparationCells => k[1] = "preparation"
  BY DEF PreparationCells
<1>3. k \in DOMAIN TrainStart => k[1] \in TrainDocuments
  BY DEF TrainStart, TrainDocuments
<1>4. k \in DOMAIN TopologyStart => k[1] \in TopologyDocuments
  BY DEF TopologyStart, TopologyDocuments
<1>5. k \in DOMAIN EvidenceStart => k[1] = "evidence"
  BY DEF EvidenceStart
<1>6. k \in DOMAIN Candidate(1, Null) => k[1] = "contract"
  BY DEF Candidate
<1>7. k[1] \notin {"source", "preparation", "service", "gateway", "compose", "script", "dns"}
        /\ k[1] \notin Pinned => OfKind(k, v)
  BY DEF Parts, OfSides
<1>8. k[1] \in NameDocuments /\ OfSides(k, v) => OfKind(k, v)
  BY DEF NameDocuments, Parts, Pinned
<1>9. k[1] = "preparation" /\ (k[2] \in Parts => v \in ComponentSet) => OfKind(k, v)
  BY DEF Parts, OfSides, Pinned
<1> HIDE DEF OfKind
<1> QED
  BY <1>1, <1>2, <1>3, <1>4, <1>5, <1>6, <1>7, <1>8, <1>9 DEF TrainDocuments, TopologyDocuments, Pinned

\* What somebody may want of a tree, by its family.
LEMMA IntendedOfFamilies ==
  ASSUME NEW t
  PROVE  /\ DOMAIN t = DOMAIN Bare => Intended(t) = NamesIntended(t)
         /\ DOMAIN t = DOMAIN ExporterStart => Intended(t) = ExporterIntended(t)
         /\ DOMAIN t = PreparationCells => Intended(t) = PreparationIntended(t)
<1>1. DOMAIN t = DOMAIN Bare => Intended(t) = NamesIntended(t)
  <2>1. DOMAIN t = DOMAIN Bare =>
          /\ "aliases" \in Documents(t) /\ "service" \notin Documents(t)
          /\ "registry" \notin Documents(t) /\ "topology" \notin Documents(t)
          /\ "preparation" \notin Documents(t) /\ "evidence" \notin Documents(t)
          /\ "contract" \notin Documents(t)
    BY DocumentsOfFamilies DEF NameDocuments, Pinned
  <2> QED
    BY <2>1, Zenon DEF Intended
<1>2. DOMAIN t = DOMAIN ExporterStart => Intended(t) = ExporterIntended(t)
  <2>1. DOMAIN t = DOMAIN ExporterStart =>
          /\ "aliases" \notin Documents(t) /\ "service" \in Documents(t)
          /\ "registry" \notin Documents(t) /\ "topology" \notin Documents(t)
          /\ "preparation" \notin Documents(t) /\ "evidence" \notin Documents(t)
          /\ "contract" \notin Documents(t)
    BY DocumentsOfFamilies DEF ExporterDocuments
  <2> QED
    BY <2>1, Zenon DEF Intended
<1>3. DOMAIN t = PreparationCells => Intended(t) = PreparationIntended(t)
  <2>1. DOMAIN t = PreparationCells =>
          /\ "aliases" \notin Documents(t) /\ "service" \notin Documents(t)
          /\ "registry" \notin Documents(t) /\ "topology" \notin Documents(t)
          /\ "preparation" \in Documents(t) /\ "evidence" \notin Documents(t)
          /\ "contract" \notin Documents(t)
    BY DocumentsOfFamilies
  <2> QED
    BY <2>1, Zenon DEF Intended
<1> QED
  BY <1>1, <1>2, <1>3

\* The names somebody writes are names of a side.
LEMMA NamesOfKind ==
  ASSUME NEW t, DOMAIN t = DOMAIN Bare, Typed(t), NEW u \in NamesIntended(t), NEW k \in DOMAIN t
  PROVE  OfKind(k, u[k])
<1> SUFFICES ASSUME k[1] \in {"source"} \cup Pinned PROVE OfSides(k, u[k])
  BY KindsOfFamilies DEF OfSides
<1>0. "source" \notin Pinned
  BY DEF Pinned
<1>1. \/ \E r \in Repos : k = <<"source", r>>
      \/ \E doc \in Pinned : k = <<doc, "infra">>
  BY DEF Bare, Pinned
<1>2. OfSides(k, t[k])
  BY DEF Typed, OfKind
<1>3. \A R, s : OfSides(k, Moved(t, R, s)[k])
  <2> TAKE R, s
  <2> DEFINE m == Moved(t, R, s)
  <2>2. HoldsMoved(t, R, s, m)
    BY MovedCells
  <2> HIDE DEF m
  <2>1. ASSUME NEW r \in Repos, k = <<"source", r>> PROVE OfSides(k, m[k])
    <3>1. m[k] = {Side(t, R, s, r)} /\ k[1] = "source"
      BY <2>1, <2>2 DEF HoldsMoved
    <3> QED
      BY <1>0, <3>1 DEF Side, OfSides
  <2>3. ASSUME NEW doc \in Pinned, k = <<doc, "infra">> PROVE OfSides(k, m[k])
    <3>1. m[k] = Side(t, R, s, "infra") /\ k[1] = doc
      BY <2>2, <2>3 DEF HoldsMoved
    <3> QED
      BY <1>0, <3>1 DEF Side, OfSides
  <2> QED
    BY <1>1, <2>1, <2>3 DEF m
<1>4. \A c \in DOMAIN t : c[2] = "fixed" => [t EXCEPT ![c] = FALSE][k] = t[k]
  <2>1. k[2] # "fixed"
    BY <1>1 DEF Repos
  <2> QED
    BY <2>1
<1>5. \A side \in {"current", "target"} :
        OfSides(k, [t EXCEPT ![<<"source", "social">>] = @ \cup {side}][k])
  <2> TAKE side \in {"current", "target"}
  <2> DEFINE w == [t EXCEPT ![<<"source", "social">>] = @ \cup {side}]
  <2>1. CASE k = <<"source", "social">>
    <3>1. w[k] = t[k] \cup {side} /\ k[1] = "source"
      BY <2>1
    <3> QED
      BY <1>0, <1>2, <3>1 DEF OfSides
  <2>2. CASE k # <<"source", "social">>
    <3>1. w[k] = t[k]
      BY <2>2
    <3> QED
      BY <1>2, <3>1
  <2> QED
    BY <2>1, <2>2
<1>6. \A v : [t EXCEPT ![<<"record", "infra">>] = v][k] = t[k]
  BY <1>1 DEF Pinned
<1>7. [t EXCEPT ![<<"matrix", "social">>] = "other"][k] = t[k]
  BY <1>1 DEF Pinned
<1> DEFINE moves == {Moved(t, R, s) : R \in {{"social"}, {"infra"}, {"social", "infra"}, Repos},
                                      s \in MAPPING_STATUSES}
           altered == {[t EXCEPT ![d] = FALSE] : d \in {c \in DOMAIN t : c[2] = "fixed"}}
           written == {[t EXCEPT ![<<"source", "social">>] = @ \cup {side}] :
                         side \in {"current", "target"}}
           recorded == {[t EXCEPT ![<<"record", "infra">>] = v] :
                          v \in {{}, {"current", "target"}, {"other"}}}
           mistaken == {[t EXCEPT ![<<"matrix", "social">>] = "other"]}
<1>8. NamesIntended(t) = moves \cup altered \cup written \cup recorded \cup mistaken
  BY SMT DEF NamesIntended
<1>9. /\ u \in moves => \E R, s : u = Moved(t, R, s)
      /\ u \in altered => \E c \in DOMAIN t : c[2] = "fixed" /\ u = [t EXCEPT ![c] = FALSE]
      /\ u \in written => \E side \in {"current", "target"} :
                            u = [t EXCEPT ![<<"source", "social">>] = @ \cup {side}]
      /\ u \in recorded => \E v : u = [t EXCEPT ![<<"record", "infra">>] = v]
      /\ u \in mistaken => u = [t EXCEPT ![<<"matrix", "social">>] = "other"]
  OBVIOUS
<1> HIDE DEF moves, altered, written, recorded, mistaken
<1> QED
  BY <1>2, <1>3, <1>4, <1>5, <1>6, <1>7, <1>8, <1>9

\* What somebody publishes has a kind of publication.
LEMMA ExporterOfKind ==
  ASSUME NEW t, DOMAIN t = DOMAIN ExporterStart, Typed(t), NEW u \in ExporterIntended(t),
         NEW k \in DOMAIN t
  PROVE  OfKind(k, u[k])
<1> DEFINE Set(c, values) == {[t EXCEPT ![c] = v] : v \in values}
<1>1. ASSUME NEW c, NEW v, u = [t EXCEPT ![c] = v], c \in DOMAIN t => OfKind(c, v)
      PROVE  OfKind(k, u[k])
  BY <1>1 DEF Typed
<1>2. ASSUME NEW c, NEW values, u \in Set(c, values), \A v \in values : OfKind(c, v)
      PROVE  OfKind(k, u[k])
  BY <1>1, <1>2
<1>3. /\ \A v \in {"ClusterIP", "LoadBalancer", "hostPort"} : OfKind(<<"service", "type">>, v)
      /\ \A v : OfKind(<<"service", "backend">>, v)
      /\ \A v : OfKind(<<"rules", "web">>, v) /\ OfKind(<<"rules", "exporter">>, v)
      /\ \A v \in {"none", "9187"} : OfKind(<<"compose", "ports">>, v) /\ OfKind(<<"script", "publish">>, v)
      /\ \A v \in {"api", "exporter"} : OfKind(<<"gateway", "upstream">>, v)
      /\ \A v \in {"none", "pgex"} : OfKind(<<"dns", "host">>, v)
  BY DEF OfKind, OfSides, Pinned, Parts
<1>4. \/ u \in Set(<<"service", "type">>, {"ClusterIP", "LoadBalancer", "hostPort"})
      \/ u \in Set(<<"service", "backend">>, {"api", "exporter"})
      \/ u \in Set(<<"rules", "web">>, Sources)
      \/ u \in Set(<<"rules", "exporter">>, Sources \cup {"none"})
      \/ \E c \in {<<"compose", "ports">>, <<"script", "publish">>} : u \in Set(c, {"none", "9187"})
      \/ u \in Set(<<"gateway", "upstream">>, {"api", "exporter"})
      \/ u \in Set(<<"dns", "host">>, {"none", "pgex"})
  BY Zenon DEF ExporterIntended
<1> HIDE DEF Set
<1> QED
  BY <1>2, <1>3, <1>4

\* What is computed of a manifest are its gates and its decision.
LEMMA ComputedKeepsComponents ==
  ASSUME NEW t, NEW c \in Parts, <<"preparation", c>> \in DOMAIN t
  PROVE  Computed(t)[<<"preparation", c>>] = t[<<"preparation", c>>]
<1> DEFINE gated == [t EXCEPT
             ![<<"preparation", "allFourteenAuthoritiesAtTest">>] = all_test(t),
             ![<<"preparation", "allExactHeadAndMergeResultCiGreen">>] = all_ci(t)]
           ready == all_gates(gated) /\ all_artifacts(gated)
<1>1. Computed(t) = [gated EXCEPT ![<<"preparation", "go">>] = ready,
                                  ![<<"preparation", "blockers">>] = ~ready]
  BY Zenon DEF Computed
<1>2. gated[<<"preparation", c>>] = t[<<"preparation", c>>] /\ DOMAIN gated = DOMAIN t
  BY DEF Parts
<1> HIDE DEF gated, ready
<1> QED
  BY <1>1, <1>2 DEF Parts

\* A component as it should be at a stage is a component.
LEMMA ComponentsAt ==
  ASSUME NEW stage \in {"feature-review", "development", "test"},
         NEW artifact \in {"NOT_BUILT", "EVIDENCE_COMPLETE"}
  PROVE  At(stage, artifact) \in ComponentSet
<1>1. (IF artifact = "NOT_BUILT" THEN "none" ELSE "all") \in {"none", "some", "all"}
  OBVIOUS
<1>2. (stage # "feature-review") \in BOOLEAN
  OBVIOUS
<1> QED
  BY <1>1, <1>2, Zenon DEF At, ComponentSet

\* What somebody writes of a component is something that can be said of one.
LEMMA PreparationOfKind ==
  ASSUME NEW t, DOMAIN t = PreparationCells, Typed(t), NEW u \in PreparationIntended(t),
         NEW k \in DOMAIN t
  PROVE  OfKind(k, u[k])
<1> SUFFICES ASSUME k[2] \in Parts PROVE u[k] \in ComponentSet
  BY KindsOfFamilies
<1>1. PICK q \in Parts : k = <<"preparation", q>>
  BY DEF PreparationCells
<1>2. \A c \in Parts : <<"preparation", c>> \in DOMAIN t /\ t[<<"preparation", c>>] \in ComponentSet
  BY DEF Typed, OfKind, PreparationCells
<1>3. ASSUME NEW c \in Parts, NEW v \in ComponentSet
      PROVE  [t EXCEPT ![<<"preparation", c>>] = v][k] \in ComponentSet
  BY <1>1, <1>2
<1>4. \A w : DOMAIN w = DOMAIN t /\ w[k] \in ComponentSet => Computed(w)[k] \in ComponentSet
  BY <1>1, ComputedKeepsComponents
<1> DEFINE component(c, v) == [t EXCEPT ![<<"preparation", c>>] = v]
           old(c) == Component(t, c)
           moved(c, s) == Computed(component(c, At(s, old(c).artifact)))
           staged == {moved(c, s) : c \in Parts, s \in {"feature-review", "development", "test"}}
           built == {Computed(component(c, At(old(c).stage, "EVIDENCE_COMPLETE"))) : c \in Parts}
           partial == {component(c, [old(c) EXCEPT !.evidence = "some"]) : c \in Parts}
           green == {component(c, [old(c) EXCEPT !.ci = ~@]) : c \in Parts}
           others == {Computed([t EXCEPT ![<<"preparation", "otherGates">>] = ~@]),
                      [t EXCEPT ![<<"preparation", "go">>] = TRUE,
                                ![<<"preparation", "blockers">>] = FALSE],
                      [t EXCEPT ![<<"preparation", "fixed">>] = FALSE]}
<1>5. PreparationIntended(t) = staged \cup built \cup partial \cup green \cup others
  BY SMT DEF PreparationIntended
<1>6. \A c \in Parts : old(c) \in ComponentSet
  BY <1>2 DEF Component
<1>7. CASE u \in staged
  <2>1. PICK c \in Parts, s \in {"feature-review", "development", "test"} : u = moved(c, s)
    <3> HIDE DEF moved
    <3> QED
      BY <1>7
  <2>2. At(s, old(c).artifact) \in ComponentSet
    BY <1>6, ComponentsAt DEF ComponentSet
  <2> QED
    BY <1>3, <1>4, <2>1, <2>2
<1>8. CASE u \in built
  <2>1. PICK c \in Parts : u = Computed(component(c, At(old(c).stage, "EVIDENCE_COMPLETE")))
    BY <1>8
  <2>2. At(old(c).stage, "EVIDENCE_COMPLETE") \in ComponentSet
    BY <1>6, ComponentsAt DEF ComponentSet
  <2> QED
    BY <1>3, <1>4, <2>1, <2>2
<1>9. CASE u \in partial
  <2>1. PICK c \in Parts : u = component(c, [old(c) EXCEPT !.evidence = "some"])
    BY <1>9
  <2>2. [old(c) EXCEPT !.evidence = "some"] \in ComponentSet
    BY <1>6 DEF ComponentSet
  <2> QED
    BY <1>3, <2>1, <2>2
<1>10. CASE u \in green
  <2>1. PICK c \in Parts : u = component(c, [old(c) EXCEPT !.ci = ~@])
    BY <1>10
  <2>2. [old(c) EXCEPT !.ci = ~@] \in ComponentSet
    BY <1>6 DEF ComponentSet
  <2> QED
    BY <1>3, <2>1, <2>2
<1>11. CASE u \in others
  <2>1. [t EXCEPT ![<<"preparation", "otherGates">>] = ~@][k] = t[k]
    BY <1>1 DEF Parts
  <2>2. [t EXCEPT ![<<"preparation", "go">>] = TRUE, ![<<"preparation", "blockers">>] = FALSE][k] = t[k]
    BY <1>1 DEF Parts
  <2>3. [t EXCEPT ![<<"preparation", "fixed">>] = FALSE][k] = t[k]
    BY <1>1 DEF Parts
  <2>4. t[k] \in ComponentSet
    BY <1>1, <1>2
  <2> QED
    BY <1>4, <1>11, <2>1, <2>2, <2>3, <2>4
<1> HIDE DEF staged, built, partial, green, others
<1> QED
  BY <1>5, <1>7, <1>8, <1>9, <1>10, <1>11

\* Nobody means to write into a cell what is not of its kind.
LEMMA IntendedOfKind ==
  ASSUME NEW t, DOMAIN t \in Families, Typed(t), NEW u \in Intended(t), NEW k \in DOMAIN t
  PROVE  OfKind(k, u[k])
<1>1. CASE DOMAIN t = DOMAIN Bare
  BY <1>1, IntendedOfFamilies, NamesOfKind
<1>2. CASE DOMAIN t = DOMAIN ExporterStart
  BY <1>2, IntendedOfFamilies, ExporterOfKind
<1>3. CASE DOMAIN t = PreparationCells
  BY <1>3, IntendedOfFamilies, PreparationOfKind
<1>4. CASE DOMAIN t \in {DOMAIN TrainStart, DOMAIN TopologyStart, DOMAIN EvidenceStart,
                         DOMAIN Candidate(1, Null)}
  BY <1>4, KindsOfFamilies
<1> QED
  BY <1>1, <1>2, <1>3, <1>4 DEF Families

\* DocumentsAgree, of any tree.
Agreed(t) ==
  LET with(doc) == doc \in Documents(t) IN
  /\ with("aliases") => NamesAgree(t)
  /\ with("service") => ExporterIsPrivate(t)
  /\ with("registry") => TrainAgrees(t)
  /\ with("topology") => TopologyAgrees(t)
  /\ with("preparation") => PreparationAgrees(t)
  /\ with("evidence") => EvidenceAgrees(t)
  /\ with("contract") => SupersetAgrees(t)

\* A tree agrees in the documents it has.
LEMMA AgreedByFamily ==
  ASSUME NEW t, DOMAIN t \in Families,
         DOMAIN t = DOMAIN Bare => NamesAgree(t),
         DOMAIN t = DOMAIN ExporterStart => ExporterIsPrivate(t),
         DOMAIN t = DOMAIN TrainStart => TrainAgrees(t),
         DOMAIN t = DOMAIN TopologyStart => TopologyAgrees(t),
         DOMAIN t = PreparationCells => PreparationAgrees(t),
         DOMAIN t = DOMAIN EvidenceStart => EvidenceAgrees(t),
         DOMAIN t = DOMAIN Candidate(1, Null) => SupersetAgrees(t)
  PROVE  Agreed(t)
<1> USE DocumentsOfFamilies DEF Families, NameDocuments, Pinned, ExporterDocuments, TrainDocuments,
      TopologyDocuments
<1>1. "aliases" \in Documents(t) => DOMAIN t = DOMAIN Bare
  OBVIOUS
<1>2. "service" \in Documents(t) => DOMAIN t = DOMAIN ExporterStart
  OBVIOUS
<1>3. "registry" \in Documents(t) => DOMAIN t = DOMAIN TrainStart
  OBVIOUS
<1>4. "topology" \in Documents(t) => DOMAIN t = DOMAIN TopologyStart
  OBVIOUS
<1>5. "preparation" \in Documents(t) => DOMAIN t = PreparationCells
  OBVIOUS
<1>6. "evidence" \in Documents(t) => DOMAIN t = DOMAIN EvidenceStart
  OBVIOUS
<1>7. "contract" \in Documents(t) => DOMAIN t = DOMAIN Candidate(1, Null)
  OBVIOUS
<1> QED
  BY <1>1, <1>2, <1>3, <1>4, <1>5, <1>6, <1>7 DEF Agreed

\* The workflow whose path filter names every document that a document has to agree with.
Judge(d) ==
  IF d \in NameDocuments \cup ExporterDocuments THEN "names"
  ELSE IF d \in TrainDocuments THEN "train"
  ELSE IF d \in TopologyDocuments THEN "topology"
  ELSE IF d = "contract" THEN "superset" ELSE d

\* What it accepts agrees, in all of the documents.
LEMMA JudgedAgrees ==
  ASSUME NEW t, DOMAIN t \in Families, Typed(t), NEW k \in DOMAIN t, NEW b
  PROVE  /\ Judge(k[1]) \in Workflows /\ k[1] \in Paths(Judge(k[1]))
         /\ Accepts(Judge(k[1]), b, t) => Agreed(t)
<1>0. k[1] \in Documents(t)
  BY DEF Documents
<1> USE <1>0, DocumentsOfFamilies, Called DEF Judge, Workflows
<1>1. CASE DOMAIN t = DOMAIN Bare
  <2>1. k[1] \in NameDocuments /\ Judge(k[1]) = "names"
    BY <1>1
  <2>2. Accepts("names", b, t) => NamesAgree(t)
    BY <1>1, Acceptance, ValidNamesAgree
  <2>3. Accepts("names", b, t) => Agreed(t)
    BY <1>1, <2>2 DEF Agreed, NameDocuments, Pinned
  <2> QED
    BY <2>1, <2>3
<1>2. CASE DOMAIN t = DOMAIN ExporterStart
  <2>1. k[1] \in ExporterDocuments /\ Judge(k[1]) = "names"
    BY <1>2
  <2>2. Accepts("names", b, t) => ExporterIsPrivate(t)
    BY <1>2, Acceptance, PrivateExporter
  <2>3. Accepts("names", b, t) => Agreed(t)
    BY <1>2, <2>2 DEF Agreed, ExporterDocuments
  <2> QED
    BY <2>1, <2>3
<1>3. CASE DOMAIN t = DOMAIN TrainStart
  <2>1. k[1] \in TrainDocuments /\ Judge(k[1]) = "train"
    BY <1>3 DEF TrainDocuments, NameDocuments, Pinned, ExporterDocuments
  <2>2. Accepts("train", b, t) => TrainAgrees(t)
    BY <1>3, Acceptance, TrainOfOneCommit
  <2>3. Accepts("train", b, t) => Agreed(t)
    BY <1>3, <2>2 DEF Agreed, TrainDocuments
  <2> QED
    BY <2>1, <2>3
<1>4. CASE DOMAIN t = DOMAIN TopologyStart
  <2>1. k[1] \in TopologyDocuments /\ Judge(k[1]) = "topology"
    BY <1>4 DEF TopologyDocuments, TrainDocuments, NameDocuments, Pinned, ExporterDocuments
  <2>2. Accepts("topology", b, t) => TopologyAgrees(t)
    BY <1>4, Acceptance, TopologyOfFlows
  <2>3. Accepts("topology", b, t) => Agreed(t)
    BY <1>4, <2>2 DEF Agreed, TopologyDocuments
  <2> QED
    BY <2>1, <2>3
<1>5. CASE DOMAIN t = PreparationCells
  <2>1. k[1] = "preparation" /\ Judge(k[1]) = "preparation"
    BY <1>5 DEF TopologyDocuments, TrainDocuments, NameDocuments, Pinned, ExporterDocuments
  <2>2. Accepts("preparation", b, t) => PreparationAgrees(t)
    BY <1>5, Acceptance, PreparedManifest
  <2>3. Accepts("preparation", b, t) => Agreed(t)
    BY <1>5, <2>2 DEF Agreed
  <2> QED
    BY <2>1, <2>3
<1>6. CASE DOMAIN t = DOMAIN EvidenceStart
  <2>1. k[1] = "evidence" /\ Judge(k[1]) = "evidence"
    BY <1>6 DEF TopologyDocuments, TrainDocuments, NameDocuments, Pinned, ExporterDocuments
  <2>2. Accepts("evidence", b, t) => EvidenceAgrees(t)
    BY <1>6, Acceptance, TemplateOnly
  <2>3. Accepts("evidence", b, t) => Agreed(t)
    BY <1>6, <2>2 DEF Agreed
  <2> QED
    BY <2>1, <2>3
<1>7. CASE DOMAIN t = DOMAIN Candidate(1, Null)
  <2>1. k[1] = "contract" /\ Judge(k[1]) = "superset"
    BY <1>7 DEF TopologyDocuments, TrainDocuments, NameDocuments, Pinned, ExporterDocuments
  <2>2. Accepts("superset", b, t) => SupersetAgrees(t)
    BY <1>7, Acceptance, CertifiedChain
  <2>3. Accepts("superset", b, t) => Agreed(t)
    BY <1>7, <2>2 DEF Agreed
  <2> QED
    BY <2>1, <2>3
<1> QED
  BY <1>1, <1>2, <1>3, <1>4, <1>5, <1>6, <1>7 DEF Families

\* What a start of the preparation is computed from.
Preparing(stage, others) ==
  [k \in PreparationCells |-> IF k[2] \in Parts THEN At(stage, "NOT_BUILT")
                              ELSE k[2] = "otherGates" => others]

\* Nothing is prepared at first, and the manifest says so.
LEMMA PreparationStartsAgree ==
  ASSUME NEW t \in PreparationStarts
  PROVE  /\ DOMAIN t = PreparationCells
         /\ \A c \in Parts : t[<<"preparation", c>>] \in ComponentSet
         /\ PreparationAgrees(t)
         /\ t = [k \in DOMAIN t |-> t[k]]
<1>1. PICK stage \in {"feature-review", "test"}, others \in BOOLEAN :
        t = Computed(Preparing(stage, others))
  BY DEF PreparationStarts, PreparationCells, Preparing
<1> DEFINE u == Preparing(stage, others)
           gated == [u EXCEPT
             ![<<"preparation", "allFourteenAuthoritiesAtTest">>] = all_test(u),
             ![<<"preparation", "allExactHeadAndMergeResultCiGreen">>] = all_ci(u)]
           ready == all_gates(gated) /\ all_artifacts(gated)
<1>2. t = [gated EXCEPT ![<<"preparation", "go">>] = ready, ![<<"preparation", "blockers">>] = ~ready]
  BY <1>1, Zenon DEF Computed, u
<1>3. DOMAIN u = PreparationCells /\ DOMAIN gated = PreparationCells /\ DOMAIN t = PreparationCells
  BY <1>2 DEF Preparing
<1>4. \A c \in Parts : /\ u[<<"preparation", c>>] = At(stage, "NOT_BUILT")
                        /\ <<"preparation", c>> \in PreparationCells
  BY DEF Preparing, PreparationCells
<1>5. \A c \in Parts : gated[<<"preparation", c>>] = At(stage, "NOT_BUILT")
  BY <1>3, <1>4 DEF Parts
<1>6. ready = FALSE
  BY <1>5 DEF all_artifacts, Component, Parts, At
<1>7. \A c \in Parts : t[<<"preparation", c>>] = At(stage, "NOT_BUILT")
  BY <1>1, <1>3, <1>4, ComputedKeepsComponents
<1> HIDE DEF gated, ready, u
<1>8. t[<<"preparation", "go">>] = FALSE /\ t[<<"preparation", "blockers">>] = TRUE
  <2>1. <<"preparation", "go">> \in PreparationCells /\ <<"preparation", "blockers">> \in PreparationCells
    BY DEF PreparationCells
  <2> QED
    BY <1>2, <1>3, <1>6, <2>1
<1>9. t = [k \in DOMAIN t |-> t[k]]
  BY <1>2
<1>10. At(stage, "NOT_BUILT") \in ComponentSet
  BY ComponentsAt
<1>11. PreparationAgrees(t)
  <2> DEFINE now == /\ \A c \in Parts : Component(t, c) = At("test", "EVIDENCE_COMPLETE")
                    /\ t[<<"preparation", "otherGates">>]
  <2>1. ~now
    <3>1. Component(t, "c1") = At(stage, "NOT_BUILT") /\ "c1" \in Parts
      BY <1>7 DEF Component, Parts
    <3>2. At(stage, "NOT_BUILT").artifact # At("test", "EVIDENCE_COMPLETE").artifact
      BY DEF At
    <3> QED
      BY <3>1, <3>2
  <2>2. \A c \in Parts : Component(t, c) = At(Component(t, c).stage, Component(t, c).artifact)
    <3>1. At(stage, "NOT_BUILT").stage = stage /\ At(stage, "NOT_BUILT").artifact = "NOT_BUILT"
      BY DEF At
    <3> QED
      BY <1>7, <3>1 DEF Component
  <2>3. now = FALSE
    BY <2>1
  <2> HIDE DEF now
  <2>4. t[<<"preparation", "go">>] = now /\ t[<<"preparation", "blockers">>] # now
    BY <1>8, <2>3
  <2> QED
    BY <2>2, <2>4, Zenon DEF PreparationAgrees, now
<1> QED
  BY <1>3, <1>7, <1>9, <1>10, <1>11

\* The first trees of the exporter, the train, the topology and the evidence agree.
LEMMA StartsOfOneAgree ==
  /\ ExporterIsPrivate(ExporterStart) /\ Typed(ExporterStart)
  /\ TrainAgrees(TrainStart)
  /\ TopologyAgrees(TopologyStart)
  /\ EvidenceAgrees(EvidenceStart)
<1>1. /\ ExporterStart[<<"service", "type">>] = "ClusterIP"
      /\ ExporterStart[<<"service", "backend">>] = "api"
      /\ ExporterStart[<<"gateway", "upstream">>] = "api"
      /\ \A k \in {<<"rules", "exporter">>, <<"compose", "ports">>, <<"script", "publish">>,
                   <<"dns", "host">>} : ExporterStart[k] = "none"
  <2> DEFINE cells == {<<"service", "type">>, <<"service", "backend">>, <<"rules", "web">>,
                       <<"rules", "exporter">>, <<"compose", "ports">>, <<"script", "publish">>,
                       <<"gateway", "upstream">>, <<"dns", "host">>}
             value(k) == CASE k = <<"service", "type">> -> "ClusterIP"
                           [] k = <<"service", "backend">> -> "api"
                           [] k = <<"rules", "web">> -> "internet"
                           [] k = <<"gateway", "upstream">> -> "api"
                           [] OTHER -> "none"
  <2>1. ExporterStart = [k \in cells |-> value(k)]
    BY Zenon DEF ExporterStart
  <2>2. \A k \in cells : ExporterStart[k] = value(k)
    BY <2>1, Zenon
  <2>3. /\ <<"service", "type">> # <<"service", "backend">> /\ <<"service", "type">> # <<"rules", "web">>
        /\ <<"service", "type">> # <<"gateway", "upstream">> /\ <<"service", "backend">> # <<"rules", "web">>
        /\ <<"service", "backend">> # <<"gateway", "upstream">>
        /\ <<"rules", "web">> # <<"gateway", "upstream">>
    OBVIOUS
  <2>4. value(<<"service", "type">>) = "ClusterIP" /\ value(<<"service", "backend">>) = "api"
        /\ value(<<"gateway", "upstream">>) = "api"
    BY <2>3, Zenon
  <2>5. \A k : k # <<"service", "type">> /\ k # <<"service", "backend">> /\ k # <<"rules", "web">>
               /\ k # <<"gateway", "upstream">> => value(k) = "none"
    BY Zenon
  <2> HIDE DEF value
  <2> QED
    BY <2>2, <2>4, <2>5
<1>2. ExporterIsPrivate(ExporterStart)
  BY <1>1 DEF ExporterIsPrivate
<1>3. Typed(ExporterStart)
  <2> SUFFICES ASSUME NEW k \in DOMAIN ExporterStart PROVE OfKind(k, ExporterStart[k])
    BY DEF Typed
  <2>1. k[1] # "source" /\ k[1] \notin Pinned /\ k \notin {"preparation"} \X Parts
    BY DEF ExporterStart, Pinned
  <2> QED
    BY <1>1, <2>1 DEF OfKind, OfSides
<1>4. TrainAgrees(TrainStart)
  <2> DEFINE cells == {<<"registry", "fixed">>, <<"registry", "branch">>, <<"registry", "headSha">>,
          <<"branchLock", "fixed">>, <<"branchLock", "canonicalBranch">>,
          <<"branchLock", "blockedParallelBranches">>, <<"branchLock", "stack">>,
          <<"manifest", "fixed">>, <<"manifest", "candidateBranch">>,
          <<"manifest", "candidateSha">>, <<"docs", "fixed">>}
             value(k) == CASE k[2] = "fixed" -> TRUE
                           [] k[2] \in {"branch", "canonicalBranch", "candidateBranch"} -> "b1"
                           [] k[2] \in {"headSha", "candidateSha"} -> "s1"
                           [] OTHER -> NoStack
  <2>1. TrainStart = [k \in cells |-> value(k)]
    BY Zenon DEF TrainStart
  <2>2. \A k \in cells : TrainStart[k] = value(k)
    BY <2>1, Zenon
  <2>3. \A k : k[2] \in {"branch", "canonicalBranch", "candidateBranch"} => value(k) = "b1"
    <3> TAKE k
    <3>1. k[2] \in {"branch", "canonicalBranch", "candidateBranch"} =>
            k[2] # "fixed" /\ k[2] \notin {"headSha", "candidateSha"}
      OBVIOUS
    <3> QED
      BY <3>1, Zenon
  <2>4. \A k : k[2] \in {"headSha", "candidateSha"} => value(k) = "s1"
    <3> TAKE k
    <3>1. k[2] \in {"headSha", "candidateSha"} =>
            k[2] # "fixed" /\ k[2] \notin {"branch", "canonicalBranch", "candidateBranch"}
      OBVIOUS
    <3> QED
      BY <3>1, Zenon
  <2>5. \A k : k[2] \in {"stack", "blockedParallelBranches"} => value(k) = NoStack
    <3> TAKE k
    <3>1. k[2] \in {"stack", "blockedParallelBranches"} =>
            /\ k[2] # "fixed" /\ k[2] \notin {"branch", "canonicalBranch", "candidateBranch"}
            /\ k[2] \notin {"headSha", "candidateSha"}
      OBVIOUS
    <3> QED
      BY <3>1, Zenon
  <2> HIDE DEF value
  <2>6. /\ TrainStart[<<"registry", "branch">>] = "b1"
        /\ TrainStart[<<"branchLock", "canonicalBranch">>] = "b1"
        /\ TrainStart[<<"manifest", "candidateBranch">>] = "b1"
        /\ TrainStart[<<"registry", "headSha">>] = "s1" /\ TrainStart[<<"manifest", "candidateSha">>] = "s1"
        /\ TrainStart[<<"branchLock", "stack">>] = NoStack
        /\ TrainStart[<<"branchLock", "blockedParallelBranches">>] = NoStack
    BY <2>2, <2>3, <2>4, <2>5
  <2>7. Cardinality({"b1"}) = 1
    BY FS_Singleton
  <2>8. {TrainStart[<<"registry", "branch">>], TrainStart[<<"branchLock", "canonicalBranch">>],
         TrainStart[<<"manifest", "candidateBranch">>]} = {"b1"}
    BY <2>6
  <2>9. DOMAIN TrainStart[<<"branchLock", "blockedParallelBranches">>] = {}
    BY <2>6 DEF NoStack
  <2> HIDE DEF cells
  <2> QED
    BY <2>6, <2>7, <2>8, <2>9, Zenon DEF TrainAgrees
<1>5. TopologyAgrees(TopologyStart)
  BY DEF TopologyAgrees, TopologyStart, Guarded, EXPECTED_FLOWS, Listed
<1>6. EvidenceAgrees(EvidenceStart)
  <2>1. \A s \in Sections : <<"evidence", s>> \in DOMAIN EvidenceStart
    BY DEF EvidenceStart
  <2>2. \A s \in Sections : EvidenceStart[<<"evidence", s>>] = "template"
    BY <2>1 DEF EvidenceStart
  <2> QED
    BY <2>2 DEF EvidenceAgrees
<1> QED
  BY <1>2, <1>3, <1>4, <1>5, <1>6

\* A contract that nothing has been collected for agrees, and one of a hosted release.
LEMMA SupersetStartsAgree ==
  ASSUME NEW t \in SupersetStarts
  PROVE  SupersetAgrees(t) /\ t = [k \in DOMAIN t |-> t[k]]
<1>1. PICK n, d : n \in {1, 3} /\ t = Candidate(n, d) /\ (n = 3 => d # Null)
  BY DEF SupersetStarts, Null
<1> DEFINE cells == {"contract"} \X {"status", "image", "image_digest", "hosted", "bounded", "canary",
                          "stagingBindings", "otherBindings", "production_certified",
                          "tests", "fixed"}
           value(k) ==
             CASE k[2] \in {"status", "tests"} -> CANDIDATE_STATES[n]
               [] k[2] \in {"image", "image_digest"} -> IF n = 1 THEN Null ELSE d
               [] k[2] = "hosted" -> IF n >= 3 THEN "sha" ELSE Null
               [] k[2] = "bounded" -> IF n >= 4 THEN "sha" ELSE Null
               [] k[2] = "canary" -> IF n = 5 THEN "sha" ELSE Null
               [] k[2] = StagingBindings -> n >= 4
               [] k[2] \in {OtherBindings, "production_certified"} -> n = 5
               [] OTHER -> TRUE
<1>2. t = [k \in cells |-> value(k)]
  BY <1>1, Zenon DEF Candidate
<1>3. \A k \in cells : t[k] = value(k)
  BY <1>2, Zenon
<1>4. {<<"contract", "image">>, <<"contract", "image_digest">>, <<"contract", "hosted">>,
       <<"contract", "bounded">>, <<"contract", "canary">>, <<"contract", StagingBindings>>,
       <<"contract", OtherBindings>>, <<"contract", "production_certified">>} \subseteq cells
  BY DEF StagingBindings, OtherBindings
<1>5. \A k : /\ k[2] = "image" \/ k[2] = "image_digest" => value(k) = IF n = 1 THEN Null ELSE d
             /\ k[2] = "hosted" => value(k) = IF n >= 3 THEN "sha" ELSE Null
             /\ k[2] = "bounded" => value(k) = IF n >= 4 THEN "sha" ELSE Null
             /\ k[2] = "canary" => value(k) = IF n = 5 THEN "sha" ELSE Null
             /\ k[2] = StagingBindings => value(k) = (n >= 4)
             /\ k[2] = OtherBindings \/ k[2] = "production_certified" => value(k) = (n = 5)
  <2> TAKE k
  <2> USE DEF StagingBindings, OtherBindings
  <2>1. CASE k[2] = "image" \/ k[2] = "image_digest"
    <3>1. /\ k[2] \notin {"status", "tests"} /\ k[2] # "hosted" /\ k[2] # "bounded" /\ k[2] # "canary"
          /\ k[2] # StagingBindings /\ k[2] \notin {OtherBindings, "production_certified"}
          /\ k[2] \in {"image", "image_digest"}
      BY <2>1
    <3>2. value(k) = IF n = 1 THEN Null ELSE d
      BY <3>1, Zenon
    <3> HIDE DEF value
    <3> QED
      BY <3>1, <3>2
  <2>2. ASSUME NEW f \in {"hosted", "bounded", "canary", StagingBindings, OtherBindings,
                          "production_certified"}, k[2] = f
        PROVE  /\ f = "hosted" => value(k) = IF n >= 3 THEN "sha" ELSE Null
               /\ f = "bounded" => value(k) = IF n >= 4 THEN "sha" ELSE Null
               /\ f = "canary" => value(k) = IF n = 5 THEN "sha" ELSE Null
               /\ f = StagingBindings => value(k) = (n >= 4)
               /\ f = OtherBindings \/ f = "production_certified" => value(k) = (n = 5)
    <3>1. /\ k[2] \notin {"status", "tests"} /\ k[2] \notin {"image", "image_digest"}
          /\ f # "hosted" => k[2] # "hosted"
          /\ f # "bounded" => k[2] # "bounded"
          /\ f # "canary" => k[2] # "canary"
          /\ f # StagingBindings => k[2] # StagingBindings
          /\ f \notin {OtherBindings, "production_certified"} =>
               k[2] \notin {OtherBindings, "production_certified"}
      BY <2>2
    <3>2. /\ "hosted" # "bounded" /\ "hosted" # "canary" /\ "hosted" # StagingBindings
          /\ "hosted" \notin {OtherBindings, "production_certified"}
          /\ "bounded" # "canary" /\ "bounded" # StagingBindings
          /\ "bounded" \notin {OtherBindings, "production_certified"}
          /\ "canary" # StagingBindings /\ "canary" \notin {OtherBindings, "production_certified"}
          /\ StagingBindings \notin {OtherBindings, "production_certified"}
          /\ OtherBindings # "hosted" /\ OtherBindings # "bounded" /\ OtherBindings # "canary"
          /\ OtherBindings # StagingBindings
          /\ "production_certified" # "hosted" /\ "production_certified" # "bounded"
          /\ "production_certified" # "canary" /\ "production_certified" # StagingBindings
          /\ OtherBindings \in {OtherBindings, "production_certified"}
          /\ "production_certified" \in {OtherBindings, "production_certified"}
      OBVIOUS
    <3>3. f = "hosted" => value(k) = IF n >= 3 THEN "sha" ELSE Null
      BY <2>2, <3>1, <3>2, Zenon
    <3>4. f = "bounded" => value(k) = IF n >= 4 THEN "sha" ELSE Null
      BY <2>2, <3>1, <3>2, Zenon
    <3>5. f = "canary" => value(k) = IF n = 5 THEN "sha" ELSE Null
      BY <2>2, <3>1, <3>2, Zenon
    <3>6. f = StagingBindings => value(k) = (n >= 4)
      BY <2>2, <3>1, <3>2, Zenon
    <3>7. f = OtherBindings \/ f = "production_certified" => value(k) = (n = 5)
      BY <2>2, <3>1, <3>2, Zenon
    <3> HIDE DEF value
    <3> QED
      BY <3>3, <3>4, <3>5, <3>6, <3>7
  <2>3. /\ "image" \notin {"hosted", "bounded", "canary", StagingBindings, OtherBindings,
                          "production_certified"}
        /\ "image_digest" \notin {"hosted", "bounded", "canary", StagingBindings, OtherBindings,
                          "production_certified"}
    OBVIOUS
  <2> HIDE DEF value
  <2> QED
    BY <2>1, <2>2, <2>3
<1> HIDE DEF value, cells
<1>6. /\ t[<<"contract", "image">>] = IF n = 1 THEN Null ELSE d
      /\ t[<<"contract", "image_digest">>] = IF n = 1 THEN Null ELSE d
      /\ t[<<"contract", "hosted">>] = IF n >= 3 THEN "sha" ELSE Null
      /\ t[<<"contract", "bounded">>] = IF n >= 4 THEN "sha" ELSE Null
      /\ t[<<"contract", "canary">>] = IF n = 5 THEN "sha" ELSE Null
      /\ t[<<"contract", StagingBindings>>] = (n >= 4)
      /\ t[<<"contract", OtherBindings>>] = (n = 5)
      /\ t[<<"contract", "production_certified">>] = (n = 5)
  BY <1>3, <1>4, <1>5
<1>7. "sha" # Null /\ (n = 1 \/ n = 3)
  BY <1>1 DEF Null
<1>8. SupersetAgrees(t)
  <2>1. /\ t[<<"contract", "bounded">>] = Null /\ t[<<"contract", "canary">>] = Null
        /\ t[<<"contract", StagingBindings>>] = FALSE /\ t[<<"contract", OtherBindings>>] = FALSE
        /\ t[<<"contract", "production_certified">>] = FALSE
        /\ t[<<"contract", "image">>] = t[<<"contract", "image_digest">>]
    <3>1. (n >= 4) = FALSE /\ (n = 5) = FALSE
      BY <1>7
    <3>2. t[<<"contract", StagingBindings>>] = FALSE
      BY <1>6, <3>1, Zenon
    <3>3. t[<<"contract", OtherBindings>>] = FALSE /\ t[<<"contract", "production_certified">>] = FALSE
      BY <1>6, <3>1, Zenon
    <3>4. ~(n >= 4) /\ n # 5
      BY <1>7
    <3>5. t[<<"contract", "bounded">>] = Null /\ t[<<"contract", "canary">>] = Null
      BY <1>6, <3>4, Zenon
    <3> QED
      BY <1>6, <3>2, <3>3, <3>5, Zenon
  <2>2. t[<<"contract", "hosted">>] # Null => t[<<"contract", "image">>] # Null
    BY <1>1, <1>6, <1>7
  <2>3. \A b \in Bindings : ~t[<<"contract", b>>]
    BY <2>1 DEF Bindings
  <2> QED
    BY <2>1, <2>2, <2>3 DEF SupersetAgrees
<1> QED
  BY <1>2, <1>8

\* The first trees of the names agree.
LEMMA NameStartsAgree ==
  ASSUME NEW t \in NameStarts
  PROVE  /\ DOMAIN t = DOMAIN Bare /\ Typed(t) /\ NamesAgree(t)
         /\ t = [k \in DOMAIN t |-> t[k]]
<1>1. DOMAIN t = DOMAIN Bare
  BY MovedKeepsCells DEF NameStarts
<1>2. Typed(Bare)
  <2>2. ASSUME NEW k \in DOMAIN Bare, k[1] \in Pinned PROVE Bare[k] \in {"current", "target"}
    <3>1. /\ k[1] \notin {"aliases", "source", "lock", "matrix", "nameTests", "stage9", "record",
                          "history", "certifier"}
      BY <2>2 DEF Pinned
    <3>2. k \in Pinned \X {"infra"}
      BY <2>2, <3>1 DEF Bare
    <3>3. k[2] # "fixed" /\ k[1] \notin {"record", "source"} /\ k[1] # "aliases"
      BY <3>1, <3>2
    <3> HIDE DEF Pinned
    <3> QED
      BY <3>3 DEF Bare
  <2>1. ASSUME NEW k \in DOMAIN Bare, k[1] = "source" PROVE Bare[k] \subseteq {"current", "target"}
    <3>1. PICK r \in Repos : k = <<"source", r>>
      BY <2>1 DEF Bare, Pinned
    <3>2. k[2] # "fixed" /\ k[1] # "aliases" /\ k[1] \in {"record", "source"}
      BY <3>1 DEF Repos
    <3>3. Bare[k] = {"current"}
      BY <3>2 DEF Bare
    <3> QED
      BY <3>3
  <2> QED
    BY <2>1, <2>2, KindsOfFamilies DEF Typed, OfSides
<1>3. ASSUME NEW u, DOMAIN u = DOMAIN Bare, NEW R, NEW s PROVE Typed(Moved(u, R, s))
  <2> DEFINE m == Moved(u, R, s)
  <2>1. HoldsMoved(u, R, s, m)
    BY <1>3, MovedCells
  <2>2. DOMAIN m = DOMAIN Bare
    BY <1>3, MovedKeepsCells
  <2> HIDE DEF m
  <2>3. ASSUME NEW k \in DOMAIN Bare, k[1] = "source" PROVE m[k] \subseteq {"current", "target"}
    <3>1. PICK r \in Repos : k = <<"source", r>>
      BY <2>3 DEF Bare, Pinned
    <3>2. m[k] = {Side(u, R, s, r)}
      BY <2>1, <3>1 DEF HoldsMoved
    <3> QED
      BY <3>2 DEF Side
  <2>5. ASSUME NEW k \in DOMAIN Bare, k[1] \in Pinned PROVE m[k] \in {"current", "target"}
    <3>0. k[1] \notin {"aliases", "source", "lock", "matrix", "nameTests", "stage9", "record",
                       "history", "certifier"}
      BY <2>5 DEF Pinned
    <3>1. PICK doc \in Pinned : k = <<doc, "infra">>
      BY <2>5, <3>0 DEF Bare
    <3>2. m[k] = Side(u, R, s, "infra")
      BY <2>1, <3>1 DEF HoldsMoved
    <3> QED
      BY <3>2 DEF Side
  <2>4. Typed(m)
    BY <2>2, <2>3, <2>5, KindsOfFamilies DEF Typed, OfSides
  <2> QED
    BY <2>4 DEF m
<1>4. Typed(t)
  BY <1>2, <1>3, MovedKeepsCells DEF NameStarts
<1>5. t = Bare => NamesAgree(t)
  <2>1. \A r \in Repos : Status(Bare, r) = Absent
    BY StatusCells DEF Status, Bare, Repos
  <2>2. Used(Bare) = {Absent}
    BY <2>1 DEF Used, Repos
  <2> QED
    BY <2>2 DEF NamesAgree
<1>6. NamesAgree(t)
  BY <1>1, <1>4, <1>5, StartsAreSettled, ValidNamesAgree
<1>7. t = [k \in DOMAIN t |-> t[k]]
  <2>1. Bare = [k \in DOMAIN Bare |-> Bare[k]]
    BY DEF Bare
  <2>2. ASSUME NEW u, NEW R, NEW s
        PROVE  Moved(u, R, s) = [k \in DOMAIN Moved(u, R, s) |-> Moved(u, R, s)[k]]
    BY DEF Moved
  <2> QED
    BY <2>1, <2>2 DEF NameStarts
<1> QED
  BY <1>1, <1>4, <1>6, <1>7

\* What main may hold at first is of its kinds and agrees.
LEMMA StartsAgree ==
  ASSUME NEW t \in Starts
  PROVE  Typed(t) /\ Agreed(t) /\ t = [k \in DOMAIN t |-> t[k]]
<1>0. DOMAIN t \in Families
  BY StartsOfFamilies
<1> USE DocumentsOfFamilies
<1>1. CASE t \in NameStarts
  <2>1. DOMAIN t = DOMAIN Bare /\ Typed(t) /\ NamesAgree(t) /\ t = [k \in DOMAIN t |-> t[k]]
    BY <1>1, NameStartsAgree
  <2> QED
    BY <2>1 DEF Agreed, NameDocuments, Pinned
<1>2. CASE t \in PreparationStarts
  <2>1. DOMAIN t = PreparationCells /\ PreparationAgrees(t) /\ t = [k \in DOMAIN t |-> t[k]]
        /\ \A c \in Parts : t[<<"preparation", c>>] \in ComponentSet
    BY <1>2, PreparationStartsAgree
  <2>2. Typed(t)
    <3>1. ASSUME NEW k \in PreparationCells, k[2] \in Parts PROVE t[k] \in ComponentSet
      <4>1. k = <<"preparation", k[2]>>
        BY <3>1 DEF PreparationCells
      <4> QED
        BY <2>1, <3>1, <4>1
    <3> QED
      BY <2>1, <3>1, KindsOfFamilies DEF Typed
  <2> QED
    BY <2>1, <2>2 DEF Agreed
<1>3. CASE t \in SupersetStarts
  <2>1. DOMAIN t = DOMAIN Candidate(1, Null)
    BY <1>3 DEF SupersetStarts, Candidate
  <2>2. SupersetAgrees(t) /\ t = [k \in DOMAIN t |-> t[k]]
    BY <1>3, SupersetStartsAgree
  <2>3. Typed(t)
    BY <2>1, KindsOfFamilies DEF Typed
  <2> QED
    BY <2>1, <2>2, <2>3 DEF Agreed
<1>4. CASE t = ExporterStart
  <2>1. t = [k \in DOMAIN t |-> t[k]]
    BY <1>4 DEF ExporterStart
  <2> QED
    BY <1>4, <2>1, StartsOfOneAgree DEF Agreed, ExporterDocuments
<1>5. CASE t = TrainStart
  <2>1. t = [k \in DOMAIN t |-> t[k]]
    BY <1>5 DEF TrainStart
  <2>2. Typed(t)
    BY <1>5, KindsOfFamilies DEF Typed
  <2> QED
    BY <1>5, <2>1, <2>2, StartsOfOneAgree DEF Agreed, TrainDocuments
<1>6. CASE t = TopologyStart
  <2>1. t = [k \in DOMAIN t |-> t[k]]
    BY <1>6 DEF TopologyStart
  <2>2. Typed(t)
    BY <1>6, KindsOfFamilies DEF Typed
  <2> QED
    BY <1>6, <2>1, <2>2, StartsOfOneAgree DEF Agreed, TopologyDocuments
<1>7. CASE t = EvidenceStart
  <2>1. t = [k \in DOMAIN t |-> t[k]]
    BY <1>7 DEF EvidenceStart
  <2>2. Typed(t)
    BY <1>7, KindsOfFamilies DEF Typed
  <2> QED
    BY <1>7, <2>1, <2>2, StartsOfOneAgree DEF Agreed
<1> QED
  BY <1>1, <1>2, <1>3, <1>4, <1>5, <1>6, <1>7 DEF Starts

\* Main and every change of it hold values of their kinds, and with strict protection
\* the documents of main agree.
AgreeInv ==
  /\ Gov!BranchInv /\ Gov!ShapeInv /\ DOMAIN main \in Families
  /\ main = [k \in DOMAIN main |-> main[k]]
  /\ Typed(main) /\ \A a \in Authors : Typed(change[a])
  /\ strict => Agreed(main)

\* The first trees agree.
LEMMA AgreeInit == Gov!Init => AgreeInv
<1> SUFFICES ASSUME Gov!Init PROVE AgreeInv
  OBVIOUS
<1>1. main \in Starts /\ \A a \in Authors : change[a] = Gov!Nothing
  BY DEF Gov!Init
<1>2. Typed(Gov!Nothing)
  BY DEF Typed, Gov!Nothing
<1> QED
  BY <1>1, <1>2, StartsAgree, StartsOfFamilies, Gov!BranchInvInit, Gov!ShapeInit DEF AgreeInv

\* Whatever is opened or updated is of the kinds of what somebody intends.
LEMMA ChangesOfKind ==
  ASSUME AgreeInv, [Gov!Next]_(Gov!vars), NEW c \in Authors
  PROVE  Typed(change'[c])
<1>0. Typed(Gov!Nothing) /\ Typed(change[c])
  BY DEF Typed, Gov!Nothing, AgreeInv
<1>1. ASSUME NEW a \in Authors, NEW p, change' = [change EXCEPT ![a] = p], Typed(p)
      PROVE  Typed(change'[c])
  <2>1. change'[c] = p \/ change'[c] = change[c]
    BY <1>1 DEF AgreeInv, Gov!BranchInv
  <2> QED
    BY <1>0, <1>1, <2>1
<1>2. ASSUME NEW a \in Authors, Gov!Open(a) PROVE Typed(change'[c])
  <2>1. PICK p \in Gov!Edits(main) : change' = [change EXCEPT ![a] = p]
    BY <1>2 DEF Gov!Open
  <2>2. PICK u \in Intended(main) : \A k \in DOMAIN p : p[k] = u[k]
    BY Gov!EditsAreOfIntended
  <2>3. DOMAIN p \subseteq DOMAIN main
    BY Gov!EditsAreOfIntended
  <2>4. Typed(p)
    BY <2>2, <2>3, IntendedOfKind DEF Typed, AgreeInv
  <2> QED
    BY <1>1, <2>1, <2>4
<1>3. ASSUME NEW a \in Authors, Gov!Recheck(a) PROVE Typed(change'[c])
  BY <1>0, <1>3 DEF Gov!Recheck
<1>4. ASSUME NEW a \in Authors, Gov!Update(a) PROVE Typed(change'[c])
  <2> DEFINE p == Gov!Diff(main, Gov!Over(change[a], main))
  <2>1. change' = [change EXCEPT ![a] = Gov!Nothing] \/ change' = [change EXCEPT ![a] = p]
    BY <1>4 DEF Gov!Update
  <2>2. \A k \in DOMAIN p : p[k] = Gov!Over(change[a], main)[k] /\ k \in DOMAIN main
    BY DEF Gov!Diff
  <2>3. \A k \in DOMAIN main : OfKind(k, Gov!Over(change[a], main)[k])
    BY DEF Gov!Over, Typed, AgreeInv
  <2>4. Typed(p)
    BY <2>2, <2>3 DEF Typed
  <2> HIDE DEF p
  <2> QED
    BY <1>0, <1>1, <2>1, <2>4
<1>5. ASSUME NEW a \in Authors, Gov!Merge(a) \/ Gov!Close(a) PROVE Typed(change'[c])
  <2>1. change' = [change EXCEPT ![a] = Gov!Nothing]
    BY <1>5 DEF Gov!Merge, Gov!Close, Gov!Forget
  <2> QED
    BY <1>0, <1>1, <2>1
<1>6. CASE UNCHANGED Gov!vars
  BY <1>0, <1>6 DEF Gov!vars
<1> QED
  BY <1>2, <1>3, <1>4, <1>5, <1>6 DEF Gov!Next

\* A merge leaves main of its kinds, and if it is up to date, agreed: the workflow that
\* judges the document of a cell it changes has accepted the tree main becomes.
LEMMA AgreeMerge ==
  ASSUME AgreeInv, NEW a \in Authors, Gov!Merge(a)
  PROVE  /\ main' = [k \in DOMAIN main' |-> main'[k]] /\ Typed(main')
         /\ strict => Agreed(main')
<1>1. /\ main' = Gov!Over(change[a], main) /\ DOMAIN main' = DOMAIN main
      /\ \A k \in DOMAIN main : main'[k] = IF k \in DOMAIN change[a] THEN change[a][k] ELSE main[k]
  BY Gov!MergeKeepsCells DEF AgreeInv
<1>2. main' = [k \in DOMAIN main' |-> main'[k]]
  BY <1>1 DEF Gov!Over
<1>3. Typed(main')
  BY <1>1 DEF Typed, AgreeInv
<1>4. ASSUME strict PROVE Agreed(main')
  <2>1. CASE \A k \in DOMAIN main : main'[k] = main[k]
    <3>1. main' = main
      BY <1>1, <1>2, <2>1 DEF AgreeInv
    <3> QED
      BY <1>4, <3>1 DEF AgreeInv
  <2>2. ASSUME NEW k \in DOMAIN main, main'[k] # main[k] PROVE Agreed(main')
    <3> DEFINE w == Judge(k[1])
    <3>1. w \in Workflows /\ k[1] \in Paths(w) /\ (Accepts(w, main, main') => Agreed(main'))
      BY <1>1, <1>3, JudgedAgrees DEF AgreeInv
    <3>2. Sees(w) # {}
      BY <3>1, Called
    <3>3. k[1] \in Gov!Changed(main, main')
      BY <2>2 DEF Gov!Changed
    <3> HIDE DEF w
    <3>4. Accepts(w, main, main')
      BY <1>4, <3>1, <3>2, <3>3, Gov!StrictMergeIsJudged DEF AgreeInv
    <3> QED
      BY <3>1, <3>4
  <2> QED
    BY <2>1, <2>2
<1> QED
  BY <1>2, <1>3, <1>4

\* With strict protection the documents of main agree with each other, whoever merges
\* what in which order, and whichever workflows a path filter leaves out: in each family
\* one workflow judges all of what has to agree, and no document escapes its filter.
THEOREM DocumentsKeepAgreeing == Spec => []DocumentsAgree
<1>1. AgreeInv /\ [Gov!Next]_(Gov!vars) => AgreeInv'
  <2> SUFFICES ASSUME AgreeInv, [Gov!Next]_(Gov!vars) PROVE AgreeInv'
    OBVIOUS
  <2>1. Gov!BranchInv' /\ Gov!ShapeInv' /\ DOMAIN main' = DOMAIN main
    BY Gov!BranchInvStep, Gov!ShapeStep DEF AgreeInv
  <2>2. strict' = strict
    BY DEF Gov!Next, Gov!Open, Gov!Recheck, Gov!Update, Gov!Merge, Gov!Close, Gov!vars
  <2>3. \A a \in Authors : Typed(change'[a])
    BY ChangesOfKind
  <2>4. /\ main' = [k \in DOMAIN main' |-> main'[k]] /\ Typed(main')
        /\ strict => Agreed(main')
    <3>1. CASE main' = main
      BY <3>1 DEF AgreeInv
    <3>2. CASE main' # main
      BY <3>2, MainMovesByMerge, AgreeMerge
    <3> QED
      BY <3>1, <3>2
  <2> QED
    BY <2>1, <2>2, <2>3, <2>4 DEF AgreeInv
<1>2. AgreeInv => DocumentsAgree
  BY DEF AgreeInv, Agreed, DocumentsAgree
<1> QED
  BY <1>1, <1>2, AgreeInit, GatesGoverned, PTL DEF Gov!Spec
=============================================================================
