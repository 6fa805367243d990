---------------------------- MODULE RequestReply ----------------------------
(***************************************************************************)
(* What the daemon promises about the datagrams it takes from its sockets, *)
(* without threads and without the table of clients: a request is accepted *)
(* once, then either answered once or passed over in silence, and nothing  *)
(* is answered after the process has died.  An answer is computed from a   *)
(* request the daemon has accepted; when Fresh holds it is computed from   *)
(* the very request it answers.                                            *)
(***************************************************************************)

CONSTANTS
    Requests,  \* the datagrams that may reach the daemon
    Fresh      \* TRUE when an answer must come from its own request

VARIABLES
    status,  \* status[r]: what has become of datagram r
    basis,   \* basis[r]: the request, if any, the answer to r was made from
    alive    \* the process has not been terminated

vars == <<status, basis, alive>>

Statuses == {"unseen", "open", "answered", "silent"}

TypeOK ==
    /\ status \in [Requests -> Statuses]
    /\ basis \in [Requests -> SUBSET Requests]
    /\ alive \in BOOLEAN

Init ==
    /\ status = [r \in Requests |-> "unseen"]
    /\ basis = [r \in Requests |-> {}]
    /\ alive = TRUE

Accepted == {r \in Requests : status[r] # "unseen"}

\* The requests an answer to r may be computed from.
Eligible(r) == IF Fresh THEN {r} ELSE Accepted

Become(r, from, to) ==
    /\ alive
    /\ status[r] = from
    /\ status' = [status EXCEPT ![r] = to]
    /\ UNCHANGED alive

Accept(r) == Become(r, "unseen", "open") /\ UNCHANGED basis

Answer(r) ==
    /\ Become(r, "open", "answered")
    /\ \E b \in Eligible(r) : basis' = [basis EXCEPT ![r] = {b}]

Ignore(r) == Become(r, "open", "silent") /\ UNCHANGED basis

Die ==
    /\ alive
    /\ alive' = FALSE
    /\ UNCHANGED <<status, basis>>

Next == Die \/ \E r \in Requests : Accept(r) \/ Answer(r) \/ Ignore(r)

\* An accepted request does not stay open for ever.
Fairness == \A r \in Requests : WF_vars(Answer(r) \/ Ignore(r))

SafeSpec == Init /\ [][Next]_vars

Spec == SafeSpec /\ Fairness
=============================================================================
