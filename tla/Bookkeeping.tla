---------------------------- MODULE Bookkeeping -----------------------------
(***************************************************************************)
(* What the downloads table promises: a download handed over by a client   *)
(* is pending until a section has accepted it, and only then done.  It may *)
(* be accepted without ever having been recorded, and be handed over       *)
(* again, which makes it pending anew and asks for a new acceptance.       *)
(***************************************************************************)
CONSTANT Downloads

VARIABLES
    phase,      \* each download in the table: new (not there), pending or done
    accepted    \* the downloads accepted since they were last handed over

vars == <<phase, accepted>>

Init ==
    /\ phase \in [Downloads -> {"new", "pending", "done"}]
    /\ accepted = {}

Receive(d) ==
    /\ phase' = [phase EXCEPT ![d] = "pending"]
    /\ accepted' = accepted \ {d}

Accept(d) ==
    /\ accepted' = accepted \cup {d}
    /\ UNCHANGED phase

Settle(d) ==
    /\ phase[d] = "pending" /\ d \in accepted
    /\ phase' = [phase EXCEPT ![d] = "done"]
    /\ UNCHANGED accepted

Next == \E d \in Downloads : Receive(d) \/ Accept(d) \/ Settle(d)

Spec == Init /\ [][Next]_vars
=============================================================================
