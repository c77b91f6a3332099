------------------------ MODULE ManagerHandoff_proofs ------------------------
(***************************************************************************)
(* Proofs about the hand-off to a media manager, for any download and any  *)
(* set of configurations.                                                  *)
(***************************************************************************)
EXTENDS ManagerHandoff, TLAPS

LEMMA TypedInvariant == Spec => []Typed
<1>1. Init => Typed
  BY DEF Init, Typed, Accepted
<1>2. Typed /\ [Next]_vars => Typed'
  <2> SUFFICES ASSUME Typed, [Next]_vars PROVE Typed'
    OBVIOUS
  <2> USE DEF Typed, Accepted
  <2>1. CASE PostFails
    BY <2>1 DEF PostFails, Answer, disk
  <2>2. ASSUME NEW known \in BOOLEAN, Posted(known) PROVE Typed'
    BY <2>2 DEF Posted, Answer, Goto, disk
  <2>3. CASE Raise
    BY <2>3 DEF Raise, Answer, manager, disk
  <2>4. CASE Poll
    BY <2>4 DEF Poll, Replies, Goto, manager, disk
  <2>5. CASE Look
    BY <2>5 DEF Look, Answer, Goto, manager, disk
  <2>6. CASE PollRadarr
    BY <2>6 DEF PollRadarr, Replies, Answer, Goto, manager, disk
  <2>7. CASE LookRadarr
    BY <2>7 DEF LookRadarr, Answer, Goto, manager, disk
  <2>8. CASE TimeUp
    BY <2>8 DEF TimeUp, Goto, manager, disk
  <2>9. CASE AskCdh
    BY <2>9 DEF AskCdh, Answer, manager, disk
  <2>10. CASE Return
    BY <2>10 DEF Return, manager, disk
  <2>11. CASE List
    BY <2>11 DEF List, Listable, manager, disk
  <2>12. ASSUME NEW f \in listing, Size(f) PROVE Typed'
    BY <2>12 DEF Size, Counts, Ignore, Gone, manager
  <2>13. CASE Sweep
    BY <2>13 DEF Sweep, manager, disk
  <2>14. CASE Start \/ End \/ Restart \/ HandleCompleted
    BY <2>14 DEF Start, End, Restart, HandleCompleted, Active, script, disk
  <2>15. ASSUME NEW f \in folder, Take(f) PROVE Typed'
    BY <2>15 DEF Take, script
  <2>16. CASE RemoveFolder
    BY <2>16 DEF RemoveFolder, script, manager
  <2>17. CASE UNCHANGED vars
    BY <2>17 DEF vars, script, manager, disk
  <2> QED
    BY <2>1, <2>2, <2>3, <2>4, <2>5, <2>6, <2>7, <2>8, <2>9, <2>10, <2>11, <2>12,
       <2>13, <2>14, <2>15, <2>16, <2>17 DEF Next, Script, Manager, Post
<1> QED
  BY <1>1, <1>2, PTL DEF Spec

\* Only Radarr's loop asks for the number of polls before it polls again.
PollsInv ==
    /\ n \in 0 .. MaxPolls
    /\ pc = "post" => n = 0
    /\ pc = "poll" /\ ~Section("Radarr") => n < MaxPolls

LEMMA PollsInvariant == Spec => []PollsInv
<1>1. Init => PollsInv
  BY DEF Init, PollsInv, MaxPolls
<1>2. PollsInv /\ [Next]_vars => PollsInv'
  <2> SUFFICES ASSUME PollsInv, [Next]_vars PROVE PollsInv'
    OBVIOUS
  <2> USE DEF PollsInv, Section, MaxPolls, Answer, Goto
  <2>1. CASE PostFails
    BY <2>1 DEF PostFails
  <2>2. ASSUME NEW known \in BOOLEAN, Posted(known) PROVE PollsInv'
    BY <2>2 DEF Posted
  <2>3. CASE Raise \/ AskCdh \/ TimeUp \/ Return \/ List \/ Sweep
    BY <2>3 DEF Raise, AskCdh, TimeUp, Return, List, Sweep
  <2>4. CASE Poll
    BY <2>4 DEF Poll
  <2>5. CASE Look
    BY <2>5 DEF Look
  <2>6. CASE PollRadarr
    BY <2>6 DEF PollRadarr
  <2>7. CASE LookRadarr
    BY <2>7 DEF LookRadarr
  <2>8. ASSUME NEW f \in listing, Size(f) PROVE PollsInv'
    BY <2>8 DEF Size
  <2>9. CASE Manager
    BY <2>9 DEF Manager, Start, Take, RemoveFolder, End, Restart, HandleCompleted, script
  <2>10. CASE UNCHANGED vars
    BY <2>10 DEF vars, script
  <2> QED
    BY <2>1, <2>2, <2>3, <2>4, <2>5, <2>6, <2>7, <2>8, <2>9, <2>10 DEF Next, Script, Post
<1> QED
  BY <1>1, <1>2, PTL DEF Spec

\* TypeCorrect: script, manager and directory (tv.py:375-482, movies.py:233-480,
\* common.py:37-69) stay in their types; a directory that is gone is empty and
\* no scan is polled more often than MaxPolls.
THEOREM TypeCorrect == Spec => []TypeOK
<1>1. Typed /\ PollsInv => TypeOK
  BY DEF TypeOK, PollsInv
<1> QED
  BY <1>1, TypedInvariant, PollsInvariant, PTL

-----------------------------------------------------------------------------
(* A status once read as completed stays true, since a command is posted   *)
(* only once; and no file comes back into the directory.                   *)

Unposted == pc = "post" => answer = "pending" /\ status = "none"

CompletedIsEnd == status = "completed" => command = "completed"

FinalInv == Unposted /\ CompletedIsEnd /\ SuccessIsFinal

LEMMA FinalInvariant == Spec => []FinalInv
<1>1. Init => FinalInv
  BY DEF Init, FinalInv, Unposted, CompletedIsEnd, SuccessIsFinal
<1>2. Typed /\ FinalInv /\ [Next]_vars => FinalInv'
  <2> SUFFICES ASSUME Typed, FinalInv, [Next]_vars PROVE FinalInv'
    OBVIOUS
  <2> USE DEF FinalInv, Unposted, CompletedIsEnd, SuccessIsFinal, Active
  <2>1. CASE PostFails
    BY <2>1 DEF PostFails, Answer, disk
  <2>2. ASSUME NEW known \in BOOLEAN, Posted(known) PROVE FinalInv'
    BY <2>2 DEF Posted, Answer, Goto, disk
  <2>3. CASE Raise \/ AskCdh
    BY <2>3 DEF Raise, AskCdh, Answer, manager, disk
  <2>4. CASE Poll
    BY <2>4 DEF Poll, Replies, Goto, manager, disk
  <2>5. CASE Look
    BY <2>5 DEF Look, Succeeded, Answer, Goto, manager, disk, Typed
  <2>6. CASE PollRadarr
    BY <2>6 DEF PollRadarr, Replies, Succeeded, Answer, Goto, manager, disk
  <2>7. CASE LookRadarr
    BY <2>7 DEF LookRadarr, Answer, Goto, manager, disk, Typed
  <2>8. CASE TimeUp \/ Return
    BY <2>8 DEF TimeUp, Return, Goto, manager, disk
  <2>9. ASSUME NEW f \in listing, Size(f) PROVE FinalInv'
    BY <2>9 DEF Size, Counts, Ignore, Gone, manager
  <2>10. CASE List
    BY <2>10 DEF List, manager, disk
  <2>11. CASE Sweep
    BY <2>11 DEF Sweep, manager, disk
  <2>12. CASE Start \/ End \/ Restart \/ HandleCompleted
    BY <2>12 DEF Start, End, Restart, HandleCompleted, script, disk
  <2>13. ASSUME NEW f \in folder, Take(f) PROVE FinalInv'
    BY <2>13 DEF Take, script
  <2>14. CASE RemoveFolder
    BY <2>14 DEF RemoveFolder, script, manager
  <2>15. CASE UNCHANGED vars
    BY <2>15 DEF vars, script, manager, disk
  <2> QED
    BY <2>1, <2>2, <2>3, <2>4, <2>5, <2>6, <2>7, <2>8, <2>9, <2>10, <2>11, <2>12,
       <2>13, <2>14, <2>15 DEF Next, Script, Manager, Post
<1> QED
  BY <1>1, <1>2, TypedInvariant, PTL DEF Spec

\* SuccessFinal: SuccessIsFinal for every download: a reported import is not
\* followed by media files that still move (tv.py:434-462, movies.py:434-468).
THEOREM SuccessFinal == Spec => []SuccessIsFinal
<1>1. FinalInv => SuccessIsFinal
  BY DEF FinalInv
<1> QED
  BY <1>1, FinalInvariant, PTL

-----------------------------------------------------------------------------
(* Cleaning happens for an accepted torrent only.  If that was not early,  *)
(* the manager is no longer at work, and only ignored files leave the      *)
(* directory between its listing, the questions for sizes and the deletion.*)

Cleaning == pc \in {"clean", "size"} => answer \in Accepted /\ config.caller = "torrent"

Answered == pc \in {"answered", "clean", "size", "done"} <=> answer # "pending"

HandlingIsUsenet == handling => config.caller = "nzb"

NotYetSwept == pc # "done" => swept \subseteq config.ignored

Quiet == answer \in Accepted /\ ~early => ~Active

SeesAll ==
    pc = "size" /\ ~early =>
        listing \subseteq folder /\ folder \subseteq listing \cup listed \cup Ignored

SweepInv ==
    /\ Cleaning /\ Answered /\ HandlingIsUsenet
    /\ NotYetSwept /\ Quiet /\ SeesAll /\ SweptOnlyWhenEarly

LEMMA SweepInvariant == Spec => []SweepInv
<1>1. Init => SweepInv
  BY DEF Init, SweepInv, Cleaning, Answered, HandlingIsUsenet, NotYetSwept, Quiet, SeesAll,
         SweptOnlyWhenEarly, Accepted, Ignored
<1>2. Typed /\ SweepInv /\ [Next]_vars => SweepInv'
  <2> SUFFICES ASSUME Typed, SweepInv, [Next]_vars PROVE SweepInv'
    OBVIOUS
  <2> USE DEF SweepInv, Cleaning, Answered, HandlingIsUsenet, NotYetSwept, Quiet, SeesAll,
              SweptOnlyWhenEarly, Accepted, Active, Ignored
  <2>1. CASE PostFails
    BY <2>1 DEF PostFails, Answer, disk
  <2>2. ASSUME NEW known \in BOOLEAN, Posted(known) PROVE SweepInv'
    BY <2>2 DEF Posted, Answer, Goto, disk
  <2>3. CASE Raise
    BY <2>3 DEF Raise, Answer, manager, disk
  <2>4. CASE AskCdh
    BY <2>4 DEF AskCdh, Answer, manager, disk
  <2>5. CASE Poll
    BY <2>5 DEF Poll, Goto, manager, disk
  <2>6. CASE Look
    BY <2>6 DEF Look, Answer, Goto, manager, disk
  <2>7. CASE PollRadarr
    BY <2>7 DEF PollRadarr, Answer, Goto, manager, disk
  <2>8. CASE LookRadarr
    BY <2>8 DEF LookRadarr, Answer, Goto, manager, disk
  <2>9. CASE TimeUp
    BY <2>9 DEF TimeUp, Goto, manager, disk
  <2>10. CASE Return
    BY <2>10 DEF Return, manager, disk
  <2>11. CASE List
    BY <2>11 DEF List, Listable, manager, disk
  <2>12. ASSUME NEW f \in listing, Size(f) PROVE SweepInv'
    <3>1. CASE Counts(f)
      BY <2>12, <3>1 DEF Size, Counts, manager
    <3>2. CASE Ignore(f)
      BY <2>12, <3>2 DEF Size, Ignore, manager
    <3>3. CASE Gone(f)
      BY <2>12, <3>3 DEF Size, Gone, manager
    <3> QED
      BY <2>12, <3>1, <3>2, <3>3 DEF Size
  <2>13. CASE Sweep
    BY <2>13 DEF Sweep, manager, disk
  <2>14. CASE Start \/ End \/ Restart \/ HandleCompleted
    BY <2>14 DEF Start, End, Restart, HandleCompleted, script, disk
  <2>15. ASSUME NEW f \in folder, Take(f) PROVE SweepInv'
    BY <2>15 DEF Take, script
  <2>16. CASE RemoveFolder
    BY <2>16 DEF RemoveFolder, script, manager
  <2>17. CASE UNCHANGED vars
    BY <2>17 DEF vars, script, manager, disk
  <2> QED
    BY <2>1, <2>2, <2>3, <2>4, <2>5, <2>6, <2>7, <2>8, <2>9, <2>10,
       <2>11, <2>12, <2>13, <2>14, <2>15, <2>16, <2>17
       DEF Next, Script, Manager, Post
<1> QED
  BY <1>1, <1>2, TypedInvariant, PTL DEF Spec

\* SweptEarly: SweptOnlyWhenEarly for every download: without forced cleaning a
\* file waiting to be imported, and not ignored, is deleted only after an
\* acceptance that did not wait for the scan (common.py:22-30, paths.py:136-157).
THEOREM SweptEarly == Spec => []SweptOnlyWhenEarly
<1>1. SweepInv => SweptOnlyWhenEarly
  BY DEF SweepInv
<1> QED
  BY <1>1, SweepInvariant, PTL
=============================================================================
