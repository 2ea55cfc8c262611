---------------------------- MODULE MCTreeBudget ----------------------------
(***************************************************************************)
(* Instances of TreeBudget for TLC.                                        *)
(***************************************************************************)
EXTENDS TreeBudget, TLC

CONSTANTS i1, i2, i3, i4

\* Two implementations, a review and a child.
MCKindOf ==
    [i \in Ids |-> ((i1 :> "revision") @@ (i2 :> "fanout") @@ (i3 :> "assignment")
                    @@ (i4 :> "child"))[i]]

MCLimits ==
    [k \in Keys |-> CASE k = "assignments" -> 2
                      [] k = "seconds"     -> 2
                      [] k = "steps"       -> 0
                      [] OTHER             -> 1]

\* One more of everything.
MCGrants == {[k \in Keys |-> 1]}

\* Drivers are interchangeable; no property of theirs is a liveness property.
MCSymmetry == Permutations(Drivers)
=============================================================================
