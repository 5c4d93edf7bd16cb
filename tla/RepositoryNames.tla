-------------------------- MODULE RepositoryNames ---------------------------
(***************************************************************************)
(* The validators of repository names over one tree: a repository governed *)
(* by its stable ID is named by its current name until its rename is       *)
(* verified and again once it is rolled back, by its target in between.    *)
(*   scripts/validate_repository_name_aliases.py      (validate)           *)
(*   scripts/validate_repository_name_transition.py   (transition)         *)
(*   scripts/certify_marketing_stage9.py              (certify)            *)
(*   tests/test_repository_name_aliases.py            (name_tests)         *)
(* A name is the side of a repository's mapping it stands on.  A literal   *)
(* with a name in it that a validator or a test compares is a cell as well:*)
(* a pull request can rewrite it.  Whatever else a validator compares with *)
(* a literal of its own is one "fixed" cell.                               *)
(***************************************************************************)
EXTENDS Naturals, FiniteSets

Repos == {"social", "infra", "documentation"}   \* of six
Prepared == "PREPARED_NOT_RENAMED"
Renamed == "RENAMED_VERIFIED"
RolledBack == "ROLLED_BACK_VERIFIED"
MAPPING_STATUSES == {Prepared, Renamed, RolledBack}
Partially == "PARTIALLY_RENAMED_VERIFIED"
Absent == "absent"      \* before the manifest exists

Status(t, r) == t[<<"aliases", r>>]
Used(t) == {Status(t, r) : r \in Repos}

operational(t, r) == IF Status(t, r) = Renamed THEN "target" ELSE "current"
forbidden(t, r) == IF Status(t, r) = Renamed THEN "current" ELSE "target"

\* Mutant: an account is rolled back only when all of it is.
AccountAllOrNone(t) ==
  LET account == t[<<"aliases", "account">>] IN
  /\ Used(t) \subseteq MAPPING_STATUSES
  /\ account \in MAPPING_STATUSES => Used(t) = {account}
  /\ account = Partially => Renamed \in Used(t) /\ Used(t) # {Renamed}

validate_account_status(t) ==
  LET account == t[<<"aliases", "account">>] IN
  /\ account \in MAPPING_STATUSES \cup {Partially}
  /\ Used(t) \subseteq MAPPING_STATUSES
  /\ account \in {Prepared, Renamed} => Used(t) = {account}
  /\ account = Partially => Renamed \in Used(t) /\ Used(t) # {Renamed}
  /\ account = RolledBack => RolledBack \in Used(t)

\* This repository's own entry repeats its status and says what of it runs.
validate_infrastructure(t) ==
  LET status == t[<<"aliases", "infra.status">>] IN
  /\ status = Status(t, "infra")
  /\ IF status = Renamed
     THEN t[<<"aliases", "runtime_state">>] \in {"DEPLOYED_UNCHANGED", "NOT_DEPLOYED_NA"}
     ELSE t[<<"aliases", "runtime_state">>] = "REQUIRES_PRE_CUTOVER_DISCOVERY"

\* The names that stand in the recognized fields of a record with a stable ID,
\* an object of a JSON source or the lines that belong together in a text.
RecordNames(t) == t[<<"record", "infra">>]

\* Documents with this repository's name that a validator outside the names
\* workflow compares with a literal of its own, and those literals.  (The intake
\* manifest and the host request are two more, alike.)
Pinned == {"template", "templateCheck", "bounded", "boundedCheck"}

\* Full names in the text of operational sources, validators other than the one
\* of the names among them and tests not.  The dated source lock is evidence and
\* none; stage 9 holds a slug without its owner.
Mentions(t) ==
  {<<"social", t[<<"lock", "social">>]>>, <<"infra", t[<<"lock", "infra">>]>>,
   <<"social", t[<<"matrix", "social">>]>>}
    \cup {<<"infra", t[<<doc, "infra">>]>> : doc \in Pinned}
    \cup {"infra"} \X RecordNames(t)
    \cup UNION {{r} \X t[<<"source", r>>] : r \in Repos}

validate_planned_targets_absent(t) ==
  \A r \in Repos : <<r, forbidden(t, r)>> \notin Mentions(t)

\* Some field names its repository, and none another.
validate_pairs(t) ==
  /\ RecordNames(t) # {}
  /\ \A name \in RecordNames(t) : name = operational(t, "infra")

validate_known_operational_bindings(t) ==
  /\ t[<<"lock", "social">>] = operational(t, "social")
  /\ t[<<"lock", "infra">>] = operational(t, "infra")
  /\ t[<<"matrix", "social">>] = operational(t, "social")
  /\ t[<<"stage9", "social">>] = operational(t, "social")
  /\ t[<<"history", "fixed">>] /\ t[<<"certifier", "fixed">>]

\* The tests of the names validator put a fork for a name in the release matrix
\* and expect the refusal: the name they replace has to be the one that is there.
name_tests(t) ==
  LET replaced(name) == IF name = t[<<"nameTests", "social">>] THEN "fork" ELSE name
  IN ~validate_known_operational_bindings([t EXCEPT ![<<"matrix", "social">>] = replaced(@)])

validate(t) ==
  /\ t[<<"aliases", "fixed">>]
  /\ validate_account_status(t)
  /\ validate_infrastructure(t)
  /\ validate_planned_targets_absent(t)
  /\ validate_pairs(t)
  /\ validate_known_operational_bindings(t)

\* Mutant: a rollback may also be recorded as never renamed.
TransitionsToPrepared ==
  {<<Prepared, Renamed>>, <<Renamed, Prepared>>, <<Renamed, RolledBack>>,
   <<RolledBack, Renamed>>}

ALLOWED_STATUS_TRANSITIONS ==
  {<<Prepared, Renamed>>, <<Renamed, RolledBack>>, <<RolledBack, Renamed>>}

changed_status(b, t) == {r \in Repos : Status(b, r) # Status(t, r)}

\* Mutant: each status moves along an edge, any number of them.
TransitionsOfMany(b, t) ==
  \A r \in changed_status(b, t) :
    <<Status(b, r), Status(t, r)>> \in ALLOWED_STATUS_TRANSITIONS

validate_one_repository_transition(b, t) ==
  /\ Cardinality(changed_status(b, t)) <= 1
  /\ \A r \in changed_status(b, t) :
       <<Status(b, r), Status(t, r)>> \in ALLOWED_STATUS_TRANSITIONS

\* The same rule again, for JSON sources only.
validate_record_repository_fields(t) == validate_pairs(t)

\* b is the tree of the base branch, which may not have the manifest yet.
transition(b, t) ==
  /\ validate_pairs(t) /\ validate_record_repository_fields(t)
  /\ IF Used(b) = {Absent} THEN Used(t) = {Prepared}
                           ELSE validate_one_repository_transition(b, t)

social_control_slug(t) == operational(t, "social")

\* A validator outside the names workflow compares this repository's name.
compares(t, doc, literal) == t[<<doc, "infra">>] = t[<<literal, "infra">>]

certify(t) ==
  /\ t[<<"aliases", "fixed">>] /\ Status(t, "social") \in MAPPING_STATUSES
  /\ t[<<"stage9", "fixed">>]
  /\ t[<<"stage9", "social">>] = social_control_slug(t)

-----------------------------------------------------------------------------
(* Trees, and what somebody may want to make of them.                      *)

Account(used) ==
  IF Cardinality(used) = 1 THEN CHOOSE s \in used : TRUE
  ELSE IF Renamed \in used THEN Partially ELSE RolledBack

\* The tree in which the repositories R have moved to status s everywhere.
Moved(t, R, s) ==
  LET to(r) == IF r \in R THEN s ELSE Status(t, r)
      side(r) == IF to(r) = Renamed THEN "target" ELSE "current"
      entry(f) ==
        IF f \in Repos THEN to(f)
        ELSE IF f = "infra.status" THEN to("infra")
        ELSE IF f = "account" THEN Account({to(r) : r \in Repos})
        ELSE IF to("infra") = Renamed THEN "NOT_DEPLOYED_NA"
        ELSE "REQUIRES_PRE_CUTOVER_DISCOVERY"
  IN [k \in DOMAIN t |->
        IF k[2] = "fixed" THEN t[k]
        ELSE IF k[1] = "aliases" THEN entry(k[2])
        ELSE IF k[1] \in {"record", "source"} THEN {side(k[2])}
        ELSE side(k[2])]

\* Before the manifest: every name is the current one.
Bare ==
  LET cells == {<<"aliases", f>> : f \in Repos \cup
                  {"infra.status", "account", "runtime_state", "fixed"}}
                 \cup {"source"} \X Repos \cup {"lock"} \X {"social", "infra"}
                 \cup {<<"matrix", "social">>, <<"nameTests", "social">>, <<"stage9", "social">>,
                       <<"record", "infra">>, <<"stage9", "fixed">>,
                       <<"history", "fixed">>, <<"certifier", "fixed">>}
                 \cup Pinned \X {"infra"}
  IN [k \in cells |->
        IF k[2] = "fixed" THEN TRUE
        ELSE IF k[1] = "aliases" THEN Absent
        ELSE IF k[1] \in {"record", "source"} THEN {"current"}
        ELSE "current"]

NameStarts ==
  LET all == Moved(Bare, Repos, Prepared)
      one == Moved(all, {"infra"}, Renamed)
  IN {Bare, all, one, Moved(one, {"infra"}, RolledBack)}

NamesIntended(t) ==
  {Moved(t, R, s) : R \in {{"social"}, {"infra"}, {"social", "infra"}, Repos},
                    s \in MAPPING_STATUSES}
    \cup {[t EXCEPT ![k] = FALSE] : k \in {c \in DOMAIN t : c[2] = "fixed"}}
    \cup {[t EXCEPT ![<<"source", "social">>] = @ \cup {side}] :
            side \in {"current", "target"}}
    \cup {[t EXCEPT ![<<"record", "infra">>] = v] :
            v \in {{}, {"current", "target"}, {"other"}}}
    \cup {[t EXCEPT ![<<"matrix", "social">>] = "other"]}

\* Every place names a repository by the side its status stands for, the tests
\* and the literals of other validators among them, a record with an ID names
\* some, the two entries of this repository agree, and the account says of all
\* what all say.
NamesAgree(t) ==
  Used(t) = {Absent} \/
  /\ \A r \in Repos :
       LET side == CASE Status(t, r) = Prepared -> "current"
                     [] Status(t, r) = Renamed -> "target"
                     [] Status(t, r) = RolledBack -> "current"
       IN \A n \in Mentions(t) \cup {<<"social", t[<<"stage9", "social">>]>>,
                                    <<"social", t[<<"nameTests", "social">>]>>} :
            n[1] = r => n[2] = side
  /\ t[<<"record", "infra">>] # {}
  /\ t[<<"aliases", "infra.status">>] = Status(t, "infra")
  /\ \A s \in {Prepared, Renamed} : t[<<"aliases", "account">>] = s <=> Used(t) = {s}
=============================================================================
