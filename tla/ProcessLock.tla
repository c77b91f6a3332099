---------------------------- MODULE ProcessLock ----------------------------
(***************************************************************************)
(* The single-instance lock every entry script takes before it touches the *)
(* configuration, the database or a download: core.configure_process polls *)
(* RunningProcess.alreadyrunning, the end of the program (or the restart   *)
(* after an update) runs PosixProcess.__del__.                             *)
(*                                                                         *)
(* lockKind is "socket" where the operating system has abstract Unix       *)
(* sockets and "pidfile" where bind fails for another reason than an       *)
(* address in use; it does not change.  Every system call is a step of its *)
(* own, so processes interleave between the test of the pid file and its   *)
(* overwriting.                                                            *)
(***************************************************************************)
EXTENDS Naturals

CONSTANTS
    Procs,          \* the launches of the program; each is also its own pid
    LockKinds       \* the kinds of lock considered

ASSUME LockKindsAssumption == LockKinds \subseteq {"socket", "pidfile"}

NoProc == "none"    \* nobody is bound to the socket; the pid file is absent
Garbage == "empty"  \* the pid file exists and holds no number

ASSUME ProcsAssumption == NoProc \notin Procs /\ Garbage \notin Procs

VARIABLES
    lockKind,   \* which lock the operating system offers
    pc,         \* where each process is
    child,      \* the process a restarting process started
    sock,       \* the process bound to the abstract socket
    pidfile,    \* the content of nzbtomedia.pid
    seen,       \* the pid a process read from the pid file
    hazard      \* which of the pid file's known weaknesses have occurred

vars == <<lockKind, pc, child, sock, pidfile, seen, hazard>>

\* Between finding no bound socket and having written its own pid, a process
\* decides on what it read earlier.
Window == {"exists", "read", "kill", "open", "write"}
Waiting == {"bind", "sleep"} \cup Window
Deleting == {"close", "isfile", "unlink"}
Live == Waiting \cup Deleting \cup {"run", "spawn", "join"}
PcStates == Live \cup {"off", "reserved", "dead"}

Goto(p, l) == pc' = [pc EXCEPT ![p] = l]

Init ==
    /\ lockKind \in LockKinds
    /\ pc = [p \in Procs |-> "off"]
    /\ child = [p \in Procs |-> NoProc]
    /\ sock = NoProc
    /\ pidfile \in {NoProc, Garbage}    \* Garbage: left by an earlier crash
    /\ seen = [p \in Procs |-> NoProc]
    /\ hazard = {}

-----------------------------------------------------------------------------
(* alreadyrunning: True sends the caller to sleep, False lets it run.      *)

Launch(p) ==
    /\ pc[p] = "off"
    /\ Goto(p, "bind")
    /\ UNCHANGED <<lockKind, child, sock, pidfile, seen, hazard>>

\* Broken variant: an address in use is not recognised.
NeverInUse == FALSE

AddressInUse == sock # NoProc

\* Entering the pid file check while another launch is inside it.
Raced(p) == IF \E q \in Procs \ {p} : pc[q] \in Window THEN {"race"} ELSE {}

Bind(p) ==
    /\ pc[p] = "bind"
    /\ \/ /\ lockKind = "socket"
          /\ IF AddressInUse THEN Goto(p, "sleep") /\ UNCHANGED sock
                             ELSE Goto(p, "run") /\ sock' = p
          /\ UNCHANGED hazard
       \/ /\ lockKind = "pidfile"
          /\ Goto(p, "exists")
          /\ hazard' = hazard \cup Raced(p)
          /\ UNCHANGED sock
    /\ UNCHANGED <<lockKind, child, pidfile, seen>>

Sleep(p) ==
    /\ pc[p] = "sleep"
    /\ Goto(p, "bind")
    /\ UNCHANGED <<lockKind, child, sock, pidfile, seen, hazard>>

TestExists(p) ==
    /\ pc[p] = "exists"
    /\ Goto(p, IF pidfile = NoProc THEN "open" ELSE "read")
    /\ UNCHANGED <<lockKind, child, sock, pidfile, seen, hazard>>

\* Broken variant: whatever is in the file is taken for a pid.
Unchecked == pidfile

\* A file that vanished or holds no number reads as no pid: stale.
Parsed == IF pidfile \in Procs THEN pidfile ELSE NoProc

ReadPid(p) ==
    /\ pc[p] = "read"
    /\ seen' = [seen EXCEPT ![p] = Parsed]
    /\ Goto(p, IF Parsed = NoProc THEN "open" ELSE "kill")
    /\ UNCHANGED <<lockKind, child, sock, pidfile, hazard>>

\* Broken variants: the owner is asked whether it is at work, or not at all.
IsRunning(q) == pc[q] = "run"
AlwaysAlive(q) == TRUE

IsAlive(q) == pc[q] \in Live

\* os.kill(pid, 0) raises OSError for a dead pid, and also for a live process
\* of another user; both count as stale.  It succeeds too when the pid of a
\* dead owner has been given to an unrelated program.
Signal(p) ==
    /\ pc[p] = "kill"
    /\ \/ /\ Goto(p, IF IsAlive(seen[p]) THEN "sleep" ELSE "open")
          /\ UNCHANGED hazard
       \/ /\ IsAlive(seen[p])
          /\ Goto(p, "open")
          /\ hazard' = hazard \cup {"eperm"}
       \/ /\ ~IsAlive(seen[p])
          /\ Goto(p, "sleep")
          /\ hazard' = hazard \cup {"recycled"}
    /\ UNCHANGED <<lockKind, child, sock, pidfile, seen>>

\* open(.., 'w') truncates; when it raises, the exception is swallowed and
\* the process runs without having written its pid.
OpenPidfile(p) ==
    /\ pc[p] = "open"
    /\ \/ /\ pidfile' = Garbage
          /\ Goto(p, "write")
          /\ UNCHANGED hazard
       \/ /\ Goto(p, "run")
          /\ hazard' = hazard \cup {"unwritten"}
          /\ UNCHANGED pidfile
    /\ UNCHANGED <<lockKind, child, sock, seen>>

WritePid(p) ==
    /\ pc[p] = "write"
    /\ pidfile' = p
    /\ Goto(p, "run")
    /\ UNCHANGED <<lockKind, child, sock, seen, hazard>>

-----------------------------------------------------------------------------
(* __del__ when the program ends, or when configure_updates deletes MYAPP  *)
(* before it starts the updated program.                                   *)

Finish(p) ==
    /\ pc[p] = "run"
    /\ Goto(p, "close")
    /\ UNCHANGED <<lockKind, child, sock, pidfile, seen, hazard>>

\* The launch the restart will start is set aside, which bounds the processes.
BeginRestart(p, c) ==
    /\ pc[p] = "run" /\ pc[c] = "off"
    /\ pc' = [pc EXCEPT ![p] = "close", ![c] = "reserved"]
    /\ child' = [child EXCEPT ![p] = c]
    /\ UNCHANGED <<lockKind, sock, pidfile, seen, hazard>>

\* Broken variant: the socket is never closed.
StaysBound(p) == sock

Freed(p) == IF sock = p THEN NoProc ELSE sock

CloseSocket(p) ==
    /\ pc[p] = "close"
    /\ sock' = Freed(p)
    /\ Goto(p, "isfile")
    /\ UNCHANGED <<lockKind, child, pidfile, seen, hazard>>

AfterDelete(p) == IF child[p] = NoProc THEN "dead" ELSE "spawn"

TestIsFile(p) ==
    /\ pc[p] = "isfile"
    /\ Goto(p, IF pidfile = NoProc THEN AfterDelete(p) ELSE "unlink")
    /\ UNCHANGED <<lockKind, child, sock, pidfile, seen, hazard>>

\* The file goes whoever wrote it; a file already gone raises inside __del__,
\* which Python ignores.
Unlink(p) ==
    /\ pc[p] = "unlink"
    /\ pidfile' = NoProc
    /\ Goto(p, AfterDelete(p))
    /\ UNCHANGED <<lockKind, child, sock, seen, hazard>>

Spawn(p) ==
    /\ pc[p] = "spawn"
    /\ pc' = [pc EXCEPT ![p] = "join", ![child[p]] = "bind"]
    /\ UNCHANGED <<lockKind, child, sock, pidfile, seen, hazard>>

\* p.wait() returns and os._exit ends the old program.
Join(p) ==
    /\ pc[p] = "join" /\ pc[child[p]] = "dead"
    /\ Goto(p, "dead")
    /\ UNCHANGED <<lockKind, child, sock, pidfile, seen, hazard>>

\* A killed process leaves its pid file; the kernel closes its socket.
Crash(p) ==
    /\ pc[p] \in Live
    /\ Goto(p, "dead")
    /\ sock' = Freed(p)
    /\ UNCHANGED <<lockKind, child, pidfile, seen, hazard>>

Check(p) == Bind(p) \/ Sleep(p) \/ TestExists(p) \/ ReadPid(p) \/ Signal(p)
            \/ OpenPidfile(p) \/ WritePid(p)

Delete(p) == CloseSocket(p) \/ TestIsFile(p) \/ Unlink(p) \/ Spawn(p) \/ Join(p)

Step(p) == Check(p) \/ Finish(p) \/ Delete(p)

Next == \E p \in Procs :
            \/ Launch(p) \/ Step(p) \/ Crash(p)
            \/ \E c \in Procs : BeginRestart(p, c)

Spec == Init /\ [][Next]_vars

\* Each process is scheduled, and the program it runs ends.  Nothing forces a
\* launch, a crash or an update.
Fairness == \A p \in Procs : WF_vars(Step(p))

FairSpec == Spec /\ Fairness

-----------------------------------------------------------------------------
(* Properties                                                              *)

TypeOK ==
    /\ lockKind \in LockKinds
    /\ pc \in [Procs -> PcStates]
    /\ child \in [Procs -> Procs \cup {NoProc}]
    /\ sock \in Procs \cup {NoProc}
    /\ pidfile \in Procs \cup {NoProc, Garbage}
    /\ seen \in [Procs -> Procs \cup {NoProc}]
    /\ hazard \subseteq {"race", "eperm", "unwritten", "recycled"}

\* AtMostOneRuns: one copy of the program is at work (processes.py:45-96).
AtMostOneRuns ==
    \A p, q \in Procs : pc[p] = "run" /\ pc[q] = "run" => p = q

\* MutexUnlessHazard: the lock is there "to keep multiple copies of program from
\* running" (processes.py:81).  The socket does; the pid file admits a second copy only after two launches
\* were between test and write at once, a live owner could not be signalled, or
\* a pid could not be written; a crash anywhere, which leaves a stale or empty
\* file, is not enough.
MutexUnlessHazard == hazard = {} => AtMostOneRuns

\* EveryLaunchRuns: a launch polling the lock gets to run, whatever processes
\* before it crashed or restarted, unless it is killed itself or an unrelated
\* program has taken over the pid a crashed owner left in the file.
EveryLaunchRuns ==
    \A p \in Procs :
        pc[p] = "bind" ~> pc[p] \in {"run", "dead"} \/ "recycled" \in hazard

\* RestartCompletes: a program that restarts itself after an update ends: it
\* never waits for a child that waits for the lock the parent still holds.
RestartCompletes ==
    \A p \in Procs : pc[p] = "join" ~> pc[p] = "dead" \/ "recycled" \in hazard

\* The abstract lock: holding ends when the socket is closed.
SocketPhase(p) == CASE pc[p] \in {"off", "reserved"} -> "idle"
                    [] pc[p] \in Waiting -> "wait"
                    [] pc[p] \in {"run", "close"} -> "hold"
                    [] OTHER -> "gone"

\* With a pid file nobody uses the abstract lock.
PhaseOf(p) == IF lockKind = "socket" THEN SocketPhase(p) ELSE "idle"

Abstract == INSTANCE Mutex WITH phase <- [p \in Procs |-> PhaseOf(p)]

\* ImplementsMutex: with the socket, every behaviour is one of the abstract lock.
ImplementsMutex == Abstract!Spec
=============================================================================
