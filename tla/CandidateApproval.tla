------------------------- MODULE CandidateApproval -------------------------
(***************************************************************************)
(* What the review of candidates promises, whatever drives it: a candidate *)
(* is approved by enough distinct bindings, none of them its author's, all *)
(* of which approved; one rejection leaves it unapproved until another     *)
(* candidate is submitted or the review is done over; approval is final.   *)
(***************************************************************************)
EXTENDS Naturals, FiniteSets

CONSTANTS
    Bindings,    \* who may write or review
    Candidates,  \* what may be submitted
    None,        \* no candidate, no author
    Quorum       \* approvals needed

VARIABLES
    candidate,   \* the candidate under review
    author,      \* the binding that wrote it, if it was written here
    votes,       \* who said what about it
    approved     \* the decision

Vote == [by : Bindings, approves : BOOLEAN]

ApprovalInit ==
    /\ candidate \in Candidates \cup {None}
    /\ author = None
    /\ votes = {}
    /\ approved = FALSE

\* A new candidate, by anybody; nothing said of the last one counts for it.
Submit ==
    /\ ~approved
    /\ candidate' \in Candidates
    /\ author' \in Bindings \cup {None}
    /\ votes' = {}
    /\ UNCHANGED approved

\* Somebody who is not the author speaks, once; the last of enough approvals
\* is the decision.
Speak(b, approves) ==
    /\ ~approved
    /\ candidate # None
    /\ b # author
    /\ \A v \in votes : v.by # b
    /\ votes' = votes \cup {[by |-> b, approves |-> approves]}
    /\ approved' \in {FALSE, Cardinality(votes') >= Quorum /\ \A v \in votes' : v.approves}
    /\ UNCHANGED <<candidate, author>>

\* The review starts over: the candidate must be verified again.
Reconsider ==
    /\ ~approved
    /\ votes' = {}
    /\ UNCHANGED <<candidate, author, approved>>

ApprovalNext ==
    \/ Submit
    \/ \E b \in Bindings, approves \in BOOLEAN : Speak(b, approves)
    \/ Reconsider

ApprovalSpec ==
    ApprovalInit /\ [][ApprovalNext]_<<candidate, author, votes, approved>>
=============================================================================
