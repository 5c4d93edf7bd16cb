--------------------------- MODULE GovernedBranch ---------------------------
(***************************************************************************)
(* The main branch and the pull requests against it.  A tree is a function *)
(* from cells <<document, field>> to values; a pull request is a change of *)
(* some cells and the tree it branched from.  At every event of a pull     *)
(* request the workflows whose path filter meets its documents check its   *)
(* head or the merge result of that moment; it may be merged later.        *)
(* Branch protection requires these checks, and is strict if it also       *)
(* requires the branch to be up to date with main.                         *)
(***************************************************************************)
EXTENDS Naturals, FiniteSets

CONSTANTS
  Authors,          \* of pull requests, one open at a time each
  MaxPulls,         \* bound: pull requests ever opened
  Starts,           \* trees main may hold at first
  Intended(_),      \* the trees somebody who reads a tree may want instead
  Workflows,
  Paths(_),         \* the documents a workflow's path filter names
  Sees(_),          \* what it checks out: "head", "merge" or both
  Accepts(_, _, _)  \* of workflow, tree of the base branch, tree checked out

BranchAssumption == MaxPulls \in Nat

VARIABLES
  main,    \* the tree of the branch
  strict,  \* does protection require branches to be up to date
  change,  \* of each author's pull request: the cells it changes, none if closed
  base,    \*   the tree it branched from
  tested,  \*   the tree of main its last event saw, if its checks passed
  pulls    \* pull requests opened so far

vars == <<main, strict, change, base, tested, pulls>>

Nothing == <<>>
Diff(t, u) == [k \in {c \in DOMAIN t : t[c] # u[c]} |-> u[k]]
Over(p, t) == [k \in DOMAIN p \cup DOMAIN t |-> IF k \in DOMAIN p THEN p[k] ELSE t[k]]
Without(p, k) == [c \in DOMAIN p \ {k} |-> p[c]]

\* What somebody commits on the way to a tree: all of it or all but one cell.
Edits(t) ==
  LET whole == {Diff(t, u) : u \in Intended(t)}
      short == UNION {{Without(p, k) : k \in DOMAIN p} : p \in whole}
  IN {p \in whole \cup short : DOMAIN p # {}}

Init ==
  /\ main \in Starts
  /\ strict \in BOOLEAN
  /\ change = [a \in Authors |-> Nothing]
  /\ base = [a \in Authors |-> Nothing]
  /\ tested = [a \in Authors |-> Nothing]
  /\ pulls = 0

IsOpen(a) == change[a] # Nothing

\* A three-way merge: a cell both sides changed must have got the same value.
Mergeable(a) ==
  \A k \in DOMAIN change[a] : main[k] \in {base[a][k], change[a][k]}

\* The checks of an event on main for a change p of the tree b.
Passes(p, b) ==
  LET touched == {k[1] : k \in DOMAIN p}
      Tree(ref) == IF ref = "head" THEN Over(p, b) ELSE Over(p, main)
  IN \A w \in Workflows :
       Paths(w) \cap touched # {} =>
         \A ref \in Sees(w) : Accepts(w, main, Tree(ref))

Checked(a, p, b) ==
  tested' = [tested EXCEPT ![a] = IF Passes(p, b) THEN main ELSE Nothing]

Open(a) ==
  /\ ~IsOpen(a) /\ pulls < MaxPulls
  /\ \E p \in Edits(main) :
       /\ change' = [change EXCEPT ![a] = p]
       /\ base' = [base EXCEPT ![a] = main]
       /\ Checked(a, p, main)
  /\ pulls' = pulls + 1
  /\ UNCHANGED <<main, strict>>

\* A further event, the branch as it is: a new merge result with today's main.
Recheck(a) ==
  /\ IsOpen(a) /\ Mergeable(a) /\ main \notin {base[a], tested[a]}
  /\ Checked(a, change[a], base[a])
  /\ UNCHANGED <<main, strict, change, base, pulls>>

\* The author merges main into the branch, which is an event too.
Update(a) ==
  /\ IsOpen(a) /\ Mergeable(a) /\ main # base[a]
  /\ LET p == Diff(main, Over(change[a], main))
     IN IF p = Nothing
        THEN /\ change' = [change EXCEPT ![a] = Nothing]
             /\ base' = [base EXCEPT ![a] = Nothing]
             /\ tested' = [tested EXCEPT ![a] = Nothing]
        ELSE /\ change' = [change EXCEPT ![a] = p]
             /\ base' = [base EXCEPT ![a] = main]
             /\ Checked(a, p, main)
  /\ UNCHANGED <<main, strict, pulls>>

\* Mutant: the verdict outlives the pull request.
ForgetChange(a) ==
  /\ change' = [change EXCEPT ![a] = Nothing]
  /\ base' = [base EXCEPT ![a] = Nothing]
  /\ UNCHANGED tested

Forget(a) ==
  /\ change' = [change EXCEPT ![a] = Nothing]
  /\ base' = [base EXCEPT ![a] = Nothing]
  /\ tested' = [tested EXCEPT ![a] = Nothing]

Merge(a) ==
  /\ IsOpen(a) /\ tested[a] # Nothing /\ Mergeable(a)
  /\ strict => main = base[a] /\ main = tested[a]
  /\ main' = Over(change[a], main)
  /\ Forget(a)
  /\ UNCHANGED <<strict, pulls>>

Close(a) == IsOpen(a) /\ Forget(a) /\ UNCHANGED <<main, strict, pulls>>

Next == \E a \in Authors : Open(a) \/ Recheck(a) \/ Update(a) \/ Merge(a) \/ Close(a)

Spec == Init /\ [][Next]_vars

TypeOK ==
  /\ strict \in BOOLEAN /\ pulls \in 0 .. MaxPulls
  /\ \A a \in Authors :
       /\ DOMAIN change[a] \subseteq DOMAIN main
       /\ IF IsOpen(a) THEN DOMAIN base[a] = DOMAIN main
                       ELSE base[a] = Nothing /\ tested[a] = Nothing
       /\ tested[a] = Nothing \/ DOMAIN tested[a] = DOMAIN main
=============================================================================
