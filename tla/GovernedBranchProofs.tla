----------------------- MODULE GovernedBranchProofs -----------------------
(***************************************************************************)
(* What strict protection is worth, for any validators, path filters,      *)
(* authors and trees: a merge goes by no workflow that it concerns.        *)
(***************************************************************************)
EXTENDS GovernedBranch, TLAPS

\* Passes, with the main of its event as an argument.
PassesOn(p, b, m) ==
  LET touched == {k[1] : k \in DOMAIN p}
      Tree(ref) == IF ref = "head" THEN Over(p, b) ELSE Over(p, m)
  IN \A w \in Workflows :
       Paths(w) \cap touched # {} =>
         \A ref \in Sees(w) : Accepts(w, m, Tree(ref))

\* The verdict kept with a pull request is that of its change, as it is now, on
\* the main it was given for.
VerdictsHold ==
  /\ tested = [a \in Authors |-> tested[a]]
  /\ \A a \in Authors :
       tested[a] # Nothing => PassesOn(change[a], base[a], tested[a])

BranchInv ==
  /\ change = [a \in Authors |-> change[a]] /\ base = [a \in Authors |-> base[a]]
  /\ VerdictsHold

\* The checks of an event are checks on the main of that moment.
LEMMA PassesIsOnMain ==
  ASSUME NEW p, NEW b
  PROVE  Passes(p, b) <=> PassesOn(p, b, main)
BY DEF Passes, PassesOn

\* No pull request is open at first, so no verdict is kept.
LEMMA BranchInvInit == Init => BranchInv
BY DEF Init, BranchInv, VerdictsHold

\* An event leaves a verdict of today's main or none.
LEMMA CheckedHolds ==
  ASSUME BranchInv, NEW a \in Authors, NEW p, NEW b,
         Checked(a, p, b),
         change' = [change EXCEPT ![a] = p],
         base' = [base EXCEPT ![a] = b]
  PROVE  BranchInv'
<1>1. /\ change' = [c \in Authors |-> change'[c]]
      /\ base' = [c \in Authors |-> base'[c]]
      /\ tested' = [c \in Authors |-> tested'[c]]
  BY DEF BranchInv, VerdictsHold, Checked
<1>2. ASSUME NEW c \in Authors, tested'[c] # Nothing
      PROVE  PassesOn(change'[c], base'[c], tested'[c])
  <2>1. CASE c = a
    <3>1. tested'[a] = IF Passes(p, b) THEN main ELSE Nothing
      BY DEF BranchInv, VerdictsHold, Checked
    <3>2. Passes(p, b) /\ tested'[a] = main
      BY <3>1, <1>2, <2>1
    <3>3. change'[a] = p /\ base'[a] = b
      BY DEF BranchInv
    <3>4. PassesOn(p, b, main)
      BY <3>2, PassesIsOnMain
    <3> QED BY <3>2, <3>3, <3>4, <2>1
  <2>2. CASE c # a
    <3>1. change'[c] = change[c] /\ base'[c] = base[c] /\ tested'[c] = tested[c]
      BY <2>2 DEF BranchInv, VerdictsHold, Checked
    <3> QED BY <3>1, <1>2 DEF BranchInv, VerdictsHold
  <2> QED BY <2>1, <2>2
<1> QED BY <1>1, <1>2 DEF BranchInv, VerdictsHold

\* A pull request that ends takes its verdict with it.
LEMMA ForgetHolds ==
  ASSUME BranchInv, NEW a \in Authors, Forget(a)
  PROVE  BranchInv'
<1>1. /\ change' = [c \in Authors |-> change'[c]]
      /\ base' = [c \in Authors |-> base'[c]]
      /\ tested' = [c \in Authors |-> tested'[c]]
  BY DEF BranchInv, VerdictsHold, Forget
<1>2. ASSUME NEW c \in Authors, tested'[c] # Nothing
      PROVE  PassesOn(change'[c], base'[c], tested'[c])
  <2>1. c # a
    BY <1>2 DEF BranchInv, VerdictsHold, Forget
  <2>2. change'[c] = change[c] /\ base'[c] = base[c] /\ tested'[c] = tested[c]
    BY <2>1 DEF BranchInv, VerdictsHold, Forget
  <2> QED BY <2>2, <1>2 DEF BranchInv, VerdictsHold
<1> QED BY <1>1, <1>2 DEF BranchInv, VerdictsHold

\* No event of a pull request, and no merge of another one, makes a kept verdict
\* that of some other change or of some other main.
LEMMA BranchInvStep ==
  ASSUME BranchInv, [Next]_vars
  PROVE  BranchInv'
<1>1. ASSUME NEW a \in Authors, Open(a) PROVE BranchInv'
  <2>1. PICK p \in Edits(main) : /\ change' = [change EXCEPT ![a] = p]
                                 /\ base' = [base EXCEPT ![a] = main]
                                 /\ Checked(a, p, main)
    BY <1>1 DEF Open
  <2> QED BY <2>1, CheckedHolds
<1>2. ASSUME NEW a \in Authors, Recheck(a) PROVE BranchInv'
  <2>1. Checked(a, change[a], base[a]) /\ change' = change /\ base' = base
    BY <1>2 DEF Recheck
  <2>2. /\ change' = [change EXCEPT ![a] = change[a]]
        /\ base' = [base EXCEPT ![a] = base[a]]
    BY <2>1 DEF BranchInv
  <2> QED BY <2>1, <2>2, CheckedHolds
<1>3. ASSUME NEW a \in Authors, Update(a) PROVE BranchInv'
  <2> DEFINE p == Diff(main, Over(change[a], main))
  <2>1. CASE p = Nothing
    BY <1>3, <2>1, ForgetHolds DEF Update, Forget
  <2>2. CASE p # Nothing
    <3>1. /\ change' = [change EXCEPT ![a] = p]
          /\ base' = [base EXCEPT ![a] = main]
          /\ Checked(a, p, main)
      BY <1>3, <2>2 DEF Update
    <3> HIDE DEF p
    <3> QED BY <3>1, CheckedHolds
  <2> QED BY <2>1, <2>2
<1>4. ASSUME NEW a \in Authors, Merge(a) PROVE BranchInv'
  BY <1>4, ForgetHolds DEF Merge
<1>5. ASSUME NEW a \in Authors, Close(a) PROVE BranchInv'
  BY <1>5, ForgetHolds DEF Close
<1>6. CASE UNCHANGED vars
  BY <1>6 DEF vars, BranchInv, VerdictsHold, PassesOn
<1> QED BY <1>1, <1>2, <1>3, <1>4, <1>5, <1>6 DEF Next

\* The documents in which two trees differ.
Changed(t, u) == {k[1] : k \in {c \in DOMAIN t : u[c] # t[c]}}

\* With strict protection every workflow whose path filter names a document that
\* main changes in has accepted the very tree main becomes, against the very tree
\* it was: no verdict is stale, whatever was merged since the pull request opened.
MergesAreJudged ==
  [][strict =>
       \A w \in Workflows :
         Paths(w) \cap Changed(main, main') # {} /\ Sees(w) # {} =>
           Accepts(w, main, main')]_main

\* Up to date and with a verdict of today's main: the verdict is of this merge.
LEMMA StrictMergeIsJudged ==
  ASSUME BranchInv, NEW a \in Authors, Merge(a), strict,
         NEW w \in Workflows, Paths(w) \cap Changed(main, main') # {}, Sees(w) # {}
  PROVE  Accepts(w, main, main')
<1> DEFINE p == change[a]
<1>1. tested[a] = main /\ base[a] = main /\ tested[a] # Nothing /\ main' = Over(p, main)
  BY DEF Merge
<1>2. PassesOn(p, main, main)
  BY <1>1 DEF BranchInv, VerdictsHold
<1>3. Changed(main, main') \subseteq {k[1] : k \in DOMAIN p}
  <2>1. ASSUME NEW k \in DOMAIN main, main'[k] # main[k] PROVE k \in DOMAIN p
    BY <2>1, <1>1 DEF Over
  <2> QED BY <2>1 DEF Changed
<1>4. Paths(w) \cap {k[1] : k \in DOMAIN p} # {}
  BY <1>3
<1>5. PICK ref \in Sees(w) : TRUE
  OBVIOUS
<1>6. Accepts(w, main, Over(p, main))
  BY <1>2, <1>4, <1>5 DEF PassesOn
<1> QED BY <1>1, <1>6

\* Required checks on a branch that must be up to date let no step of main past a
\* workflow it concerns, in every behaviour of the branch.
THEOREM StrictMergesAreJudged == Spec => MergesAreJudged
<1>1. ASSUME BranchInv, [Next]_vars
      PROVE  [strict => \A w \in Workflows :
                Paths(w) \cap Changed(main, main') # {} /\ Sees(w) # {} =>
                  Accepts(w, main, main')]_main
  <2>1. CASE main' = main
    BY <2>1
  <2>2. CASE main' # main
    <3>1. PICK a \in Authors : Merge(a)
      BY <1>1, <2>2 DEF Next, Open, Recheck, Update, Close, vars
    <3> QED BY <1>1, <3>1, StrictMergeIsJudged
  <2> QED BY <2>1, <2>2
<1> QED BY <1>1, BranchInvInit, BranchInvStep, PTL DEF Spec, MergesAreJudged

-----------------------------------------------------------------------------
(* Trees keep their cells, and a verdict its merge.                         *)

\* A change is of cells of main, on a base that has them too; the main a verdict was
\* given for has them, and the change could be merged into it.
ShapeInv ==
  \A a \in Authors :
    /\ DOMAIN change[a] \subseteq DOMAIN main
    /\ IF IsOpen(a) THEN DOMAIN base[a] = DOMAIN main
                    ELSE base[a] = Nothing /\ tested[a] = Nothing
    /\ tested[a] # Nothing =>
         /\ DOMAIN tested[a] = DOMAIN main
         /\ \A k \in DOMAIN change[a] : tested[a][k] \in {base[a][k], change[a][k]}

\* What is committed on the way to a tree is of cells that differ, and of some.
LEMMA EditsAreOfIntended ==
  ASSUME NEW t, NEW p \in Edits(t)
  PROVE  /\ DOMAIN p \subseteq DOMAIN t /\ p # Nothing
         /\ \E u \in Intended(t) : \A k \in DOMAIN p : p[k] = u[k]
<1>1. PICK u \in Intended(t) : p = Diff(t, u) \/ \E k \in DOMAIN Diff(t, u) : p = Without(Diff(t, u), k)
  BY DEF Edits
<1>2. DOMAIN Diff(t, u) \subseteq DOMAIN t /\ \A k \in DOMAIN Diff(t, u) : Diff(t, u)[k] = u[k]
  BY DEF Diff
<1>3. DOMAIN p \subseteq DOMAIN t /\ \A k \in DOMAIN p : p[k] = u[k]
  BY <1>1, <1>2 DEF Without
<1>4. DOMAIN p # {}
  BY DEF Edits
<1> QED
  BY <1>3, <1>4 DEF Nothing

\* An event of a pull request gives it a shape, if the change can be merged.
LEMMA CheckedShapes ==
  ASSUME BranchInv, ShapeInv, NEW a \in Authors, NEW p, NEW b, Checked(a, p, b),
         change' = [change EXCEPT ![a] = p], base' = [base EXCEPT ![a] = b],
         main' = main, p # Nothing, DOMAIN p \subseteq DOMAIN main, DOMAIN b = DOMAIN main,
         \A k \in DOMAIN p : main[k] \in {b[k], p[k]}
  PROVE  ShapeInv'
<1> SUFFICES ASSUME NEW c \in Authors
             PROVE /\ DOMAIN change'[c] \subseteq DOMAIN main
                   /\ IF IsOpen(c)' THEN DOMAIN base'[c] = DOMAIN main
                                    ELSE base'[c] = Nothing /\ tested'[c] = Nothing
                   /\ tested'[c] # Nothing =>
                        /\ DOMAIN tested'[c] = DOMAIN main
                        /\ \A k \in DOMAIN change'[c] :
                             tested'[c][k] \in {base'[c][k], change'[c][k]}
  BY DEF ShapeInv
<1>1. CASE c = a
  <2>1. change'[c] = p /\ base'[c] = b /\ tested'[c] \in {main, Nothing}
    BY <1>1 DEF BranchInv, VerdictsHold, Checked
  <2> QED
    BY <2>1 DEF IsOpen
<1>2. CASE c # a
  <2>1. change'[c] = change[c] /\ base'[c] = base[c] /\ tested'[c] = tested[c]
    BY <1>2 DEF BranchInv, VerdictsHold, Checked
  <2> QED
    BY <2>1 DEF IsOpen, ShapeInv
<1> QED
  BY <1>1, <1>2

\* A pull request that ends leaves the shape of the others.
LEMMA ForgetShapes ==
  ASSUME BranchInv, ShapeInv, NEW a \in Authors, Forget(a), DOMAIN main' = DOMAIN main
  PROVE  ShapeInv'
<1> SUFFICES ASSUME NEW c \in Authors
             PROVE /\ DOMAIN change'[c] \subseteq DOMAIN main
                   /\ IF IsOpen(c)' THEN DOMAIN base'[c] = DOMAIN main
                                    ELSE base'[c] = Nothing /\ tested'[c] = Nothing
                   /\ tested'[c] # Nothing =>
                        /\ DOMAIN tested'[c] = DOMAIN main
                        /\ \A k \in DOMAIN change'[c] :
                             tested'[c][k] \in {base'[c][k], change'[c][k]}
  BY DEF ShapeInv
<1>1. CASE c = a
  <2>1. change'[c] = Nothing /\ base'[c] = Nothing /\ tested'[c] = Nothing
    BY <1>1 DEF BranchInv, VerdictsHold, Forget
  <2> QED
    BY <2>1 DEF IsOpen, Nothing
<1>2. CASE c # a
  <2>1. change'[c] = change[c] /\ base'[c] = base[c] /\ tested'[c] = tested[c]
    BY <1>2 DEF BranchInv, VerdictsHold, Forget
  <2> QED
    BY <2>1 DEF IsOpen, ShapeInv
<1> QED
  BY <1>1, <1>2

\* A merge changes cells, and adds none.
LEMMA MergeKeepsCells ==
  ASSUME ShapeInv, NEW a \in Authors, Merge(a)
  PROVE  /\ main' = Over(change[a], main) /\ DOMAIN main' = DOMAIN main
         /\ \A k \in DOMAIN main :
              main'[k] = IF k \in DOMAIN change[a] THEN change[a][k] ELSE main[k]
  BY DEF Merge, Over, ShapeInv

\* No pull request is open at first.
LEMMA ShapeInit == Init => ShapeInv
  BY DEF Init, ShapeInv, IsOpen, Nothing

\* Every event, merge and close keeps the shape of all pull requests, and the cells of main.
LEMMA ShapeStep ==
  ASSUME BranchInv, ShapeInv, [Next]_vars
  PROVE  ShapeInv' /\ DOMAIN main' = DOMAIN main
<1>1. ASSUME NEW a \in Authors, Open(a) PROVE ShapeInv' /\ DOMAIN main' = DOMAIN main
  <2>1. PICK p \in Edits(main) : /\ change' = [change EXCEPT ![a] = p]
                                 /\ base' = [base EXCEPT ![a] = main]
                                 /\ Checked(a, p, main)
    BY <1>1 DEF Open
  <2>2. main' = main
    BY <1>1 DEF Open
  <2>3. DOMAIN p \subseteq DOMAIN main /\ p # Nothing
    BY EditsAreOfIntended
  <2> QED BY <2>1, <2>2, <2>3, CheckedShapes
<1>2. ASSUME NEW a \in Authors, Recheck(a) PROVE ShapeInv' /\ DOMAIN main' = DOMAIN main
  <2>1. Checked(a, change[a], base[a]) /\ change' = change /\ base' = base /\ main' = main
    BY <1>2 DEF Recheck
  <2>2. /\ change' = [change EXCEPT ![a] = change[a]]
        /\ base' = [base EXCEPT ![a] = base[a]]
    BY <2>1 DEF BranchInv
  <2>3. IsOpen(a) /\ \A k \in DOMAIN change[a] : main[k] \in {base[a][k], change[a][k]}
    BY <1>2 DEF Recheck, Mergeable
  <2>4. DOMAIN change[a] \subseteq DOMAIN main /\ DOMAIN base[a] = DOMAIN main
    BY <2>3 DEF ShapeInv
  <2> QED BY <2>1, <2>2, <2>3, <2>4, CheckedShapes DEF IsOpen
<1>3. ASSUME NEW a \in Authors, Update(a) PROVE ShapeInv' /\ DOMAIN main' = DOMAIN main
  <2> DEFINE p == Diff(main, Over(change[a], main))
  <2>0. main' = main
    BY <1>3 DEF Update
  <2>1. CASE p = Nothing
    BY <1>3, <2>0, <2>1, ForgetShapes DEF Update, Forget
  <2>2. CASE p # Nothing
    <3>1. /\ change' = [change EXCEPT ![a] = p]
          /\ base' = [base EXCEPT ![a] = main]
          /\ Checked(a, p, main)
      BY <1>3, <2>2 DEF Update
    <3>2. DOMAIN p \subseteq DOMAIN main
      BY DEF Diff
    <3> HIDE DEF p
    <3> QED BY <2>0, <2>2, <3>1, <3>2, CheckedShapes
  <2> QED BY <2>1, <2>2
<1>4. ASSUME NEW a \in Authors, Merge(a) PROVE ShapeInv' /\ DOMAIN main' = DOMAIN main
  BY <1>4, ForgetShapes, MergeKeepsCells DEF Merge
<1>5. ASSUME NEW a \in Authors, Close(a) PROVE ShapeInv' /\ DOMAIN main' = DOMAIN main
  BY <1>5, ForgetShapes DEF Close
<1>6. CASE UNCHANGED vars
  BY <1>6 DEF vars, ShapeInv, IsOpen
<1> QED BY <1>1, <1>2, <1>3, <1>4, <1>5, <1>6 DEF Next

\* Only a bounded number of pull requests is ever opened, and protection is or is not strict.
Bounded == strict \in BOOLEAN /\ pulls \in 0 .. MaxPulls

\* Opening counts up to the bound, and nothing else counts.
LEMMA BoundedStep ==
  ASSUME BranchAssumption, Bounded, [Next]_vars
  PROVE  Bounded'
<1>1. strict' = strict
  BY DEF Next, Open, Recheck, Update, Merge, Close, vars
<1>2. pulls' = pulls \/ (pulls < MaxPulls /\ pulls' = pulls + 1)
  <2>1. ASSUME NEW a \in Authors, Open(a) PROVE pulls < MaxPulls /\ pulls' = pulls + 1
    BY <2>1 DEF Open
  <2>2. ASSUME NEW a \in Authors, Recheck(a) \/ Update(a) \/ Merge(a) \/ Close(a)
        PROVE pulls' = pulls
    BY <2>2 DEF Recheck, Update, Merge, Close
  <2> QED BY <2>1, <2>2 DEF Next, vars
<1> QED BY <1>1, <1>2 DEF BranchAssumption, Bounded

\* A change, the tree it branched from and the tree it was tested against have the
\* cells of main, and a closed pull request holds nothing.
THEOREM BranchTyped ==
  ASSUME BranchAssumption
  PROVE  Spec => []TypeOK
<1>1. Init => Bounded
  BY DEF BranchAssumption, Init, Bounded
<1>2. ShapeInv /\ Bounded => TypeOK
  BY Zenon DEF ShapeInv, Bounded, TypeOK
<1>3. Bounded /\ [Next]_vars => Bounded'
  BY BoundedStep
<1> QED
  BY <1>1, <1>2, <1>3, BranchInvInit, BranchInvStep, ShapeInit, ShapeStep, PTL DEF Spec
=============================================================================
