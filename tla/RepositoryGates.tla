-------------------------- MODULE RepositoryGates ---------------------------
(***************************************************************************)
(* The workflows that guard the main branch of this repository: which      *)
(* documents call each, what it checks out, and what it runs there, the    *)
(* tests of the validators among it.  A behaviour is about one family of   *)
(* documents, and the others hold what they hold: no rule relates cells of *)
(* two families.  What two rules look at, such as a name both the scan of  *)
(* the names and the evidence validator compare, is in the family of the   *)
(* first, and the workflow of the second is called for it there.           *)
(***************************************************************************)
EXTENDS RepositoryNames, ExporterPrivacy, ReleaseTrain, StagingReadiness,
        SupersetContract, TLC

CONSTANTS Authors, MaxPulls

VARIABLES main, strict, change, base, tested, pulls

Documents(t) == {k[1] : k \in DOMAIN t}
NameDocuments ==
  {"aliases", "lock", "matrix", "record", "stage9", "source", "history", "certifier",
   "nameTests"} \cup Pinned
ExporterDocuments == {"service", "rules", "compose", "script", "gateway", "dns"}
TrainDocuments == {"registry", "branchLock", "manifest", "docs"}
TopologyDocuments == {"topology", "communication", "firewall"}

Workflows == {"names", "stage9", "train", "topology", "preparation", "evidence",
              "superset"}

\* on.pull_request.paths; repository-name-authority has none and always runs.
Paths(w) ==
  CASE w = "names" -> NameDocuments \cup ExporterDocuments \cup TrainDocuments
                        \cup TopologyDocuments
                        \cup {"preparation", "evidence", "contract"}
    [] w = "stage9" -> {"stage9", "aliases", "certifier"}
    [] w = "train" -> TrainDocuments \cup TopologyDocuments
    [] w = "topology" -> (TrainDocuments \ {"manifest"}) \cup TopologyDocuments
    [] w = "preparation" -> {"preparation"}
    [] w = "evidence" -> {"evidence", "template", "templateCheck"}
    [] w = "superset" -> {"contract", "bounded", "boundedCheck"}

\* actions/checkout: the merge ref unless the workflow asks for the head.
Sees(w) ==
  CASE w \in {"train", "superset"} -> {"head", "merge"}
    [] w = "topology" -> {"head"}
    [] OTHER -> {"merge"}

\* b is the tree of REPOSITORY_NAME_BASE_SHA, t the one checked out.
Accepts(w, b, t) ==
  LET with(doc) == doc \in Documents(t) IN
  CASE w = "names" -> /\ with("aliases") => validate(t) /\ transition(b, t) /\ name_tests(t)
                      /\ with("service") => validate_postgres_exporter_privacy(t)
    [] w = "stage9" -> certify(t)
    [] w = "train" -> with("registry") => train(t)
    [] w = "topology" -> with("topology") => topology(t)
    [] w = "preparation" -> preparation(t) /\ assert_no_go(t, "preparation")
    [] w = "evidence" -> /\ with("evidence") => evidence(t) /\ assert_no_go(t, "evidence")
                         /\ with("template") => compares(t, "template", "templateCheck")
    [] w = "superset" -> /\ with("contract") => superset(t) /\ superset_tests(t)
                         /\ with("bounded") => compares(t, "bounded", "boundedCheck")

Intended(t) ==
  LET with(doc) == doc \in Documents(t) IN
  CASE with("aliases") -> NamesIntended(t)
    [] with("service") -> ExporterIntended(t)
    [] with("registry") -> TrainIntended(t)
    [] with("topology") -> TopologyIntended(t)
    [] with("preparation") -> PreparationIntended(t)
    [] with("evidence") -> EvidenceIntended(t)
    [] with("contract") -> SupersetIntended(t)

Starts == NameStarts \cup PreparationStarts \cup SupersetStarts
            \cup {ExporterStart, TrainStart, TopologyStart, EvidenceStart}

Branch == INSTANCE GovernedBranch

ASSUME GatesAssumption == Branch!BranchAssumption

Spec == Branch!Spec

Symmetry == Permutations(Authors)

\* Every variable holds a value of its kind, and a closed pull request nothing.
TypeOK == Branch!TypeOK

\* With strict protection the documents of main agree with each other, whoever
\* merges what in which order and whichever workflows a path filter left out.
DocumentsAgree ==
  LET with(doc) == doc \in Documents(main) IN
  strict =>
    /\ with("aliases") => NamesAgree(main)
    /\ with("service") => ExporterIsPrivate(main)
    /\ with("registry") => TrainAgrees(main)
    /\ with("topology") => TopologyAgrees(main)
    /\ with("preparation") => PreparationAgrees(main)
    /\ with("evidence") => EvidenceAgrees(main)
    /\ with("contract") => SupersetAgrees(main)

\* Strict or not, no merge ever leaves main with a literal altered that a
\* validator insists on, the flags of live actions among them, or with a go.
FreezeHolds ==
  \A k \in DOMAIN main : /\ k[2] = "fixed" => main[k]
                         /\ k[2] = "go" => ~main[k]

\* Strict or not, a repository comes to be prepared only when the manifest
\* does, and to be rolled back only from renamed: also where a pull request
\* was checked against another main than the one it is merged into.
StatusEdges ==
  [][\A r \in Repos :
       LET old == Status(main, r)
           new == Status(main', r)
       IN "aliases" \in Documents(main) /\ old # new =>
            /\ new = Prepared => old = Absent
            /\ new = RolledBack => old = Renamed
            /\ new # Absent]_main

\* With strict protection one merge changes the status of one repository.
OneCutover ==
  [][strict /\ "aliases" \in Documents(main) /\ Used(main) # {Absent} =>
       \E r \in Repos : \A s \in Repos \ {r} : Status(main', s) = Status(main, s)]_main

\* With strict protection the validators never lock the migration out: what
\* main holds, any repository can take its next step in one pull request that
\* every workflow it calls accepts, if it rewrites the names in the tests and in
\* the other validators as well.
CutoverStaysOpen ==
  strict /\ "aliases" \in Documents(main) =>
    LET Possible(t) == \A w \in {"names", "stage9", "evidence", "superset"} :
                         Accepts(w, main, t) IN
    IF Used(main) = {Absent} THEN Possible(Moved(main, Repos, Prepared))
    ELSE \A r \in Repos :
           Possible(Moved(main, {r}, IF Status(main, r) = Renamed THEN RolledBack
                                                                  ELSE Renamed))
=============================================================================
