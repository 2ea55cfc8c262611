--------------------------- MODULE MCAdaptiveRun ---------------------------
(***************************************************************************)
(* Instances of AdaptiveRun for TLC.                                       *)
(***************************************************************************)
EXTENDS AdaptiveRun, TLC

CONSTANTS a1, a2, a3, a4, b1, b2, b3, r1, r2

\* Three bindings, one of them enrolled under two agent identifiers.
MCBindingOf ==
    [g \in Agents |-> ((a1 :> b1) @@ (a2 :> b2) @@ (a3 :> b3) @@ (a4 :> b3))[g]]

\* Two of the bindings run on the same CLI.
MCRuntimeOf == (b1 :> r1) @@ (b2 :> r2) @@ (b3 :> r2)

\* Everybody may review; one agent plans, two implement, two are experts.
MCRolesOf ==
    [g \in Agents |->
        ((a1 :> {Planner, Implementer, Assessor}) @@ (a2 :> {Implementer, Assessor, "qa"})
         @@ (a3 :> {Assessor, "security"}) @@ (a4 :> {Assessor}))[g]]

\* An enrollment without optional experts.
MCPlainRolesOf == [g \in Agents |-> MCRolesOf[g] \ Experts]

\* An enrollment where plans are researched and candidates tested.
MCExpertRolesOf ==
    [g \in Agents |-> MCRolesOf[g] \cup IF g = a2 THEN {"research"} ELSE {}]
=============================================================================
