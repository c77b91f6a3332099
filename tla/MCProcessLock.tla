--------------------------- MODULE MCProcessLock ---------------------------
(* ProcessLock on three launches of the program, with either kind of lock. *)
EXTENDS ProcessLock

Launches == {"p1", "p2", "p3"}
BothKinds == {"socket", "pidfile"}
=============================================================================
