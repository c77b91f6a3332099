------------------------------- MODULE Mutex -------------------------------
(***************************************************************************)
(* What the single-instance lock of nzbToMedia promises its callers: a     *)
(* launched process waits, at most one process holds the lock, and a       *)
(* process that is gone holds nothing.  ProcessLock implements it when the *)
(* lock is an abstract socket.                                             *)
(***************************************************************************)
EXTENDS Naturals

CONSTANT Procs

VARIABLE phase

Phases == {"idle", "wait", "hold", "gone"}

Init == phase = [p \in Procs |-> "idle"]

Request(p) == /\ phase[p] = "idle"
              /\ phase' = [phase EXCEPT ![p] = "wait"]

Acquire(p) == /\ phase[p] = "wait"
              /\ \A q \in Procs : phase[q] # "hold"
              /\ phase' = [phase EXCEPT ![p] = "hold"]

\* Leaving covers a normal end, a handover and a crash, with or without the lock.
Leave(p) == /\ phase[p] \in {"wait", "hold"}
            /\ phase' = [phase EXCEPT ![p] = "gone"]

Next == \E p \in Procs : Request(p) \/ Acquire(p) \/ Leave(p)

Spec == Init /\ [][Next]_phase
=============================================================================
