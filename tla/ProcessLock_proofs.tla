------------------------- MODULE ProcessLock_proofs -------------------------
(***************************************************************************)
(* Proofs about the single-instance lock, for any set of launches.         *)
(***************************************************************************)
EXTENDS ProcessLock, TLAPS

\* TypeCorrect: every reachable state of the lock (processes.py:45-96) is well
\* typed; in particular pids read from the file are pids or none.
THEOREM TypeCorrect == Spec => []TypeOK
<1>1. Init => TypeOK
  BY DEF Init, TypeOK, PcStates, Live, Waiting, Window, Deleting
<1>2. TypeOK /\ [Next]_vars => TypeOK'
  <2> SUFFICES ASSUME TypeOK, [Next]_vars PROVE TypeOK'
    OBVIOUS
  <2> USE DEF TypeOK, PcStates, Live, Waiting, Window, Deleting, Goto
  <2>1. ASSUME NEW p \in Procs, Launch(p) PROVE TypeOK'
    BY <2>1 DEF Launch
  <2>2. ASSUME NEW p \in Procs, Check(p) PROVE TypeOK'
    <3>1. CASE Bind(p)
      BY <3>1 DEF Bind, Raced
    <3>2. CASE Sleep(p) \/ TestExists(p)
      BY <3>2 DEF Sleep, TestExists
    <3>3. CASE ReadPid(p)
      BY <3>3 DEF ReadPid, Parsed
    <3>4. CASE Signal(p)
      BY <3>4 DEF Signal
    <3>5. CASE OpenPidfile(p)
      BY <3>5 DEF OpenPidfile
    <3>6. CASE WritePid(p)
      BY <3>6 DEF WritePid
    <3> QED
      BY <2>2, <3>1, <3>2, <3>3, <3>4, <3>5, <3>6 DEF Check
  <2>3. ASSUME NEW p \in Procs, Finish(p) PROVE TypeOK'
    BY <2>3 DEF Finish
  <2>4. ASSUME NEW p \in Procs, Delete(p) PROVE TypeOK'
    <3>1. CASE CloseSocket(p)
      BY <3>1 DEF CloseSocket, Freed
    <3>2. CASE TestIsFile(p)
      BY <3>2 DEF TestIsFile, AfterDelete
    <3>3. CASE Unlink(p)
      BY <3>3 DEF Unlink, AfterDelete
    <3>4. CASE Spawn(p)
      BY <3>4 DEF Spawn
    <3>5. CASE Join(p)
      BY <3>5 DEF Join
    <3> QED
      BY <2>4, <3>1, <3>2, <3>3, <3>4, <3>5 DEF Delete
  <2>5. ASSUME NEW p \in Procs, Crash(p) PROVE TypeOK'
    BY <2>5 DEF Crash, Freed
  <2>6. ASSUME NEW p \in Procs, NEW c \in Procs, BeginRestart(p, c) PROVE TypeOK'
    BY <2>6 DEF BeginRestart
  <2>7. CASE UNCHANGED vars
    BY <2>7 DEF vars
  <2> QED
    BY <2>1, <2>2, <2>3, <2>4, <2>5, <2>6, <2>7 DEF Next, Step
<1> QED
  BY <1>1, <1>2, PTL DEF Spec

-----------------------------------------------------------------------------
(* The abstract socket: who runs, or is about to close it, is bound to it. *)

SocketInv ==
    lockKind = "socket" =>
        \A p \in Procs : /\ pc[p] \notin Window
                         /\ pc[p] \in {"run", "close"} => sock = p

\* SocketInvariant: the invariant the exclusion and the refinement rest on.
LEMMA SocketInvariant == Spec => []SocketInv
<1>1. Init => SocketInv
  BY DEF Init, SocketInv, Window
<1>2. TypeOK /\ SocketInv /\ [Next]_vars => SocketInv'
  <2> SUFFICES ASSUME TypeOK, SocketInv, [Next]_vars, lockKind' = "socket"
               PROVE  SocketInv'
    BY DEF SocketInv
  <2> USE ProcsAssumption DEF TypeOK, SocketInv, Window, Goto
  <2>1. ASSUME NEW p \in Procs, Launch(p) \/ Sleep(p) \/ Finish(p)
        PROVE  SocketInv'
    BY <2>1 DEF Launch, Sleep, Finish
  <2>2. ASSUME NEW p \in Procs, Bind(p) PROVE SocketInv'
    BY <2>2 DEF Bind, AddressInUse
  <2>3. ASSUME NEW p \in Procs,
               TestExists(p) \/ ReadPid(p) \/ Signal(p) \/ OpenPidfile(p) \/ WritePid(p)
        PROVE  FALSE
    BY <2>3 DEF TestExists, ReadPid, Signal, OpenPidfile, WritePid
  <2>4. ASSUME NEW p \in Procs, CloseSocket(p) PROVE SocketInv'
    BY <2>4 DEF CloseSocket, Freed
  <2>5. ASSUME NEW p \in Procs, TestIsFile(p) \/ Unlink(p) \/ Join(p)
        PROVE  SocketInv'
    BY <2>5 DEF TestIsFile, Unlink, Join, AfterDelete
  <2>6. ASSUME NEW p \in Procs, Spawn(p) PROVE SocketInv'
    BY <2>6 DEF Spawn
  <2>7. ASSUME NEW p \in Procs, Crash(p) PROVE SocketInv'
    BY <2>7 DEF Crash, Freed
  <2>8. ASSUME NEW p \in Procs, NEW c \in Procs, BeginRestart(p, c)
        PROVE  SocketInv'
    BY <2>8 DEF BeginRestart
  <2>9. CASE UNCHANGED vars
    BY <2>9 DEF vars
  <2> QED
    BY <2>1, <2>2, <2>3, <2>4, <2>5, <2>6, <2>7, <2>8, <2>9
       DEF Next, Step, Check, Delete
<1> QED
  BY <1>1, <1>2, TypeCorrect, PTL DEF Spec

\* SocketInvExcludes: two launches at work would both be bound to the socket.
LEMMA SocketInvExcludes ==
    ASSUME lockKind = "socket", SocketInv
    PROVE  AtMostOneRuns
BY DEF SocketInv, AtMostOneRuns

\* SocketExclusion: with an abstract socket (processes.py:52-59) at most one
\* launch of the program is at work.
THEOREM SocketExclusion == Spec => [](lockKind = "socket" => AtMostOneRuns)
<1>1. SocketInv => (lockKind = "socket" => AtMostOneRuns)
  BY SocketInvExcludes
<1> QED
  BY <1>1, SocketInvariant, PTL

-----------------------------------------------------------------------------
(* The pid file.  The owner is who runs or has not yet deleted the file.   *)

Owner(p) == pc[p] \in {"run", "close", "isfile", "unlink"}

\* Until one of its weaknesses occurs, one launch at a time is between test
\* and write; there is one owner, whose pid is in the file and is the pid that
\* a launch about to send a signal has read; a launch that decided to write
\* found no owner.
PidfileInv ==
    lockKind = "pidfile" /\ hazard = {} =>
        /\ \A p, q \in Procs : pc[p] \in Window /\ pc[q] \in Window => p = q
        /\ \A p, q \in Procs : Owner(p) /\ Owner(q) => p = q
        /\ \A p \in Procs : Owner(p) => pidfile = p
        /\ \A p, q \in Procs : pc[p] \in {"open", "write"} => ~Owner(q)
        /\ \A p, q \in Procs : pc[p] = "kill" /\ Owner(q) => seen[p] = q

\* PidfileInvariant: test, read, signal and write (processes.py:64-87) keep it.
LEMMA PidfileInvariant == Spec => []PidfileInv
<1>1. Init => PidfileInv
  BY DEF Init, PidfileInv, Window, Owner
<1>2. TypeOK /\ PidfileInv /\ [Next]_vars => PidfileInv'
  <2> SUFFICES ASSUME TypeOK, PidfileInv, [Next]_vars, lockKind' = "pidfile", hazard' = {}
               PROVE  PidfileInv'
    BY DEF PidfileInv
  <2> USE ProcsAssumption DEF TypeOK, PidfileInv, Window, Owner, Goto
  <2>1. ASSUME NEW p \in Procs, Launch(p) \/ Sleep(p) \/ Finish(p) \/ CloseSocket(p)
        PROVE  PidfileInv'
    BY <2>1 DEF Launch, Sleep, Finish, CloseSocket
  <2>2. ASSUME NEW p \in Procs, Bind(p) PROVE PidfileInv'
    BY <2>2 DEF Bind, Raced
  <2>3. ASSUME NEW p \in Procs, TestExists(p) PROVE PidfileInv'
    BY <2>3 DEF TestExists
  <2>4. ASSUME NEW p \in Procs, ReadPid(p) PROVE PidfileInv'
    BY <2>4 DEF ReadPid, Parsed
  <2>5. ASSUME NEW p \in Procs, Signal(p) PROVE PidfileInv'
    BY <2>5 DEF Signal, IsAlive, Live, Deleting
  <2>6. ASSUME NEW p \in Procs, OpenPidfile(p) PROVE PidfileInv'
    BY <2>6 DEF OpenPidfile
  <2>7. ASSUME NEW p \in Procs, WritePid(p) PROVE PidfileInv'
    BY <2>7 DEF WritePid
  <2>8. ASSUME NEW p \in Procs, TestIsFile(p) \/ Unlink(p) \/ Join(p)
        PROVE  PidfileInv'
    BY <2>8 DEF TestIsFile, Unlink, Join, AfterDelete
  <2>9. ASSUME NEW p \in Procs, Spawn(p) PROVE PidfileInv'
    BY <2>9 DEF Spawn
  <2>10. ASSUME NEW p \in Procs, Crash(p) PROVE PidfileInv'
    BY <2>10 DEF Crash
  <2>11. ASSUME NEW p \in Procs, NEW c \in Procs, BeginRestart(p, c)
         PROVE  PidfileInv'
    BY <2>11 DEF BeginRestart
  <2>12. CASE UNCHANGED vars
    BY <2>12 DEF vars
  <2> QED
    BY <2>1, <2>2, <2>3, <2>4, <2>5, <2>6, <2>7, <2>8, <2>9, <2>10, <2>11, <2>12
       DEF Next, Step, Check, Delete
<1> QED
  BY <1>1, <1>2, TypeCorrect, PTL DEF Spec

\* PidfileExclusion: with either lock, and so with the pid file
\* (processes.py:62-89), a second copy runs only after one of the weaknesses.
THEOREM PidfileExclusion == Spec => []MutexUnlessHazard
<1>1. TypeOK /\ SocketInv /\ PidfileInv => MutexUnlessHazard
  <2> SUFFICES ASSUME TypeOK, SocketInv, PidfileInv PROVE MutexUnlessHazard
    OBVIOUS
  <2>1. CASE lockKind = "socket"
    BY <2>1, SocketInvExcludes DEF MutexUnlessHazard
  <2>2. CASE lockKind = "pidfile"
    BY <2>2 DEF PidfileInv, MutexUnlessHazard, AtMostOneRuns, Owner
  <2> QED
    BY <2>1, <2>2, LockKindsAssumption DEF TypeOK
<1> QED
  BY <1>1, TypeCorrect, SocketInvariant, PidfileInvariant, PTL

-----------------------------------------------------------------------------
(* The refinement: the child of a restart is nobody else's, and has not    *)
(* been started before its parent spawns it.                               *)

RestartInv ==
    /\ \A p \in Procs : child[p] \in Procs => pc[child[p]] # "off"
    /\ \A p, q \in Procs : child[p] = child[q] /\ child[p] \in Procs => p = q
    /\ \A p \in Procs : pc[p] \in {"close", "isfile", "unlink", "spawn"} /\ child[p] \in Procs
                            => pc[child[p]] = "reserved"
    /\ \A p \in Procs : pc[p] = "spawn" => child[p] \in Procs
    /\ \A p \in Procs : child[p] \in Procs =>
                            pc[p] \in {"close", "isfile", "unlink", "spawn", "join", "dead"}

\* RestartInvariant: BeginRestart, Spawn and Join keep parent and child apart.
LEMMA RestartInvariant == Spec => []RestartInv
<1>1. Init => RestartInv
  BY ProcsAssumption DEF Init, RestartInv
<1>2. TypeOK /\ RestartInv /\ [Next]_vars => RestartInv'
  <2> SUFFICES ASSUME TypeOK, RestartInv, [Next]_vars PROVE RestartInv'
    OBVIOUS
  <2> USE ProcsAssumption DEF TypeOK, RestartInv, Goto
  <2>1. ASSUME NEW p \in Procs, Launch(p) PROVE RestartInv'
    BY <2>1 DEF Launch
  <2>2. ASSUME NEW p \in Procs, Check(p) PROVE RestartInv'
    BY <2>2 DEF Check, Bind, Sleep, TestExists, ReadPid, Signal, OpenPidfile, WritePid, Parsed
  <2>3. ASSUME NEW p \in Procs, Finish(p) PROVE RestartInv'
    BY <2>3 DEF Finish
  <2>4. ASSUME NEW p \in Procs, CloseSocket(p) \/ TestIsFile(p) \/ Unlink(p) \/ Join(p)
        PROVE  RestartInv'
    BY <2>4 DEF CloseSocket, TestIsFile, Unlink, Join, AfterDelete
  <2>5. ASSUME NEW p \in Procs, Spawn(p) PROVE RestartInv'
    BY <2>5 DEF Spawn
  <2>6. ASSUME NEW p \in Procs, Crash(p) PROVE RestartInv'
    BY <2>6 DEF Crash, Live, Waiting, Window, Deleting
  <2>7. ASSUME NEW p \in Procs, NEW c \in Procs, BeginRestart(p, c)
        PROVE  RestartInv'
    BY <2>7 DEF BeginRestart
  <2>8. CASE UNCHANGED vars
    BY <2>8 DEF vars
  <2> QED
    BY <2>1, <2>2, <2>3, <2>4, <2>5, <2>6, <2>7, <2>8 DEF Next, Step, Delete
<1> QED
  BY <1>1, <1>2, TypeCorrect, PTL DEF Spec

\* SocketRefinesMutex: with an abstract socket the lock of processes.py:45-96,
\* with its crashes and its restarts, implements Mutex: a restart is a Leave of
\* the parent when the socket closes, then a Request of the child.
THEOREM SocketRefinesMutex == Spec => ImplementsMutex
<1> DEFINE phase == [p \in Procs |-> PhaseOf(p)]
<1>1. Init => Abstract!Init
  BY DEF Init, Abstract!Init, PhaseOf, SocketPhase, Waiting, Window
<1>2. TypeOK /\ SocketInv /\ RestartInv /\ [Next]_vars => [Abstract!Next]_phase
  <2>0. ASSUME [Next]_vars PROVE lockKind' = lockKind
    BY <2>0 DEF Next, Step, Check, Delete, Launch, Bind, Sleep, TestExists, ReadPid,
                Signal, OpenPidfile, WritePid, Finish, CloseSocket, TestIsFile, Unlink,
                Spawn, Join, Crash, BeginRestart, vars
  <2>12. ASSUME [Next]_vars, lockKind # "socket" PROVE UNCHANGED phase
    BY <2>0, <2>12 DEF PhaseOf
  <2> SUFFICES ASSUME TypeOK, SocketInv, RestartInv, [Next]_vars, lockKind = "socket"
               PROVE  [Abstract!Next]_phase
    BY <2>12
  <2> USE <2>0 DEF TypeOK, Goto, PhaseOf, SocketPhase, Waiting, Window
  <2>1. ASSUME NEW p \in Procs, Launch(p) PROVE Abstract!Request(p)
    BY <2>1 DEF Launch, Abstract!Request
  <2>2. ASSUME NEW p \in Procs, Bind(p) PROVE Abstract!Acquire(p) \/ UNCHANGED phase
    <3>1. CASE AddressInUse
      BY <2>2, <3>1 DEF Bind
    <3>2. CASE ~AddressInUse
      <4>1. \A q \in Procs : phase[q] # "hold"
        BY <3>2, ProcsAssumption DEF AddressInUse, SocketInv
      <4>2. pc[p] = "bind" /\ pc' = [pc EXCEPT ![p] = "run"]
        BY <2>2, <3>2 DEF Bind
      <4>3. phase' = [phase EXCEPT ![p] = "hold"]
        BY <4>2
      <4> QED
        BY <4>1, <4>2, <4>3 DEF Abstract!Acquire
    <3> QED
      BY <3>1, <3>2
  <2>3. ASSUME NEW p \in Procs,
               TestExists(p) \/ ReadPid(p) \/ Signal(p) \/ OpenPidfile(p) \/ WritePid(p)
        PROVE  FALSE
    BY <2>3 DEF SocketInv, TestExists, ReadPid, Signal, OpenPidfile, WritePid
  <2>4. ASSUME NEW p \in Procs, Sleep(p) \/ Finish(p) PROVE UNCHANGED phase
    BY <2>4 DEF Sleep, Finish
  <2>5. ASSUME NEW p \in Procs, CloseSocket(p) PROVE Abstract!Leave(p)
    BY <2>5 DEF CloseSocket, Abstract!Leave
  <2>6. ASSUME NEW p \in Procs, TestIsFile(p) \/ Unlink(p) \/ Join(p)
        PROVE  UNCHANGED phase
    BY <2>6 DEF TestIsFile, Unlink, Join, AfterDelete
  <2>7. ASSUME NEW p \in Procs, Spawn(p) PROVE Abstract!Request(child[p])
    BY <2>7 DEF Spawn, RestartInv, Abstract!Request
  <2>8. ASSUME NEW p \in Procs, Crash(p) PROVE Abstract!Leave(p) \/ UNCHANGED phase
    BY <2>8 DEF Crash, Live, Deleting, Abstract!Leave
  <2>9. ASSUME NEW p \in Procs, NEW c \in Procs, BeginRestart(p, c)
        PROVE  UNCHANGED phase
    BY <2>9 DEF BeginRestart
  <2>10. ASSUME NEW p \in Procs, Spawn(p) PROVE child[p] \in Procs
    BY <2>10 DEF Spawn, RestartInv
  <2>11. CASE UNCHANGED vars
    BY <2>11 DEF vars
  <2> HIDE DEF phase, PhaseOf, SocketPhase
  <2> QED
    BY <2>1, <2>2, <2>3, <2>4, <2>5, <2>6, <2>7, <2>8, <2>9, <2>10, <2>11
       DEF Next, Step, Check, Delete, Abstract!Next
<1> QED
  BY <1>1, <1>2, TypeCorrect, SocketInvariant, RestartInvariant, PTL
     DEF Spec, ImplementsMutex, Abstract!Spec
=============================================================================
