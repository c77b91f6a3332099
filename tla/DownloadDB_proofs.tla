------------------------- MODULE DownloadDB_proofs --------------------------
(***************************************************************************)
(* What the operations on the downloads table do to the rows and to the    *)
(* phase of a download, for tables of any length.  The processors' proofs  *)
(* cite these lemmas; none of them expands an operation of DownloadDB.     *)
(***************************************************************************)
EXTENDS DownloadDB, SequenceTheorems, WellFoundedInduction, TLAPS

Rows(D, T) == [dir : D \cup {NULL}, name : T, agent : T, id : D \cup T, status : {0, 1}]

\* A table is a function on the numbers of its rows.
LEMMA TableIsFunction ==
    ASSUME NEW D, NEW T, NEW rows \in Table(D, T)
    PROVE  /\ rows \in Seq(Rows(D, T)) /\ Len(rows) \in Nat
           /\ DOMAIN rows = 1..Len(rows)
           /\ \A i \in DOMAIN rows : rows[i] \in Rows(D, T)
<1>1. rows \in Seq(Rows(D, T))
  BY DEF Table, Rows
<1> QED
  BY <1>1, LenProperties, ElementOfSeq

\* A function on the numbers of the rows is a table.
LEMMA FunctionIsTable ==
    ASSUME NEW D, NEW T, NEW n \in Nat, NEW f \in [1..n -> Rows(D, T)]
    PROVE  f \in Table(D, T)
<1>1. f \in Seq(Rows(D, T))
  BY SeqDef
<1> QED
  BY <1>1 DEF Table, Rows

\* Every pending name has a first row in rowid order.
LEMMA FirstIsPending ==
    ASSUME NEW D, NEW T, NEW rows \in Table(D, T), NEW name, Pending(rows, name) # {}
    PROVE  \E i \in Pending(rows, name) : First(rows, name) = rows[i]
<1> DEFINE Less == {pair \in Nat \X Nat : pair[1] < pair[2]}
<1>1. Pending(rows, name) \subseteq Nat
  BY TableIsFunction DEF Pending
<1>2. IsWellFoundedOn(Less, Nat)
  BY NatLessThanWellFounded DEF OpToRel
<1>3. \A x, y \in Nat : x < y => <<x, y>> \in Less
  OBVIOUS
<1> HIDE DEF Less
<1>4. PICK i \in Pending(rows, name) : \A j \in Pending(rows, name) : <<j, i>> \notin Less
  BY <1>1, <1>2, WFMin
<1>5. ASSUME NEW j \in Pending(rows, name) PROVE i <= j
  <2>1. <<j, i>> \notin Less /\ i \in Nat /\ j \in Nat
    BY <1>1, <1>4
  <2>2. ~(j < i)
    BY <1>3, <2>1
  <2> QED BY <2>1, <2>2
<1> QED
  BY <1>4, <1>5 DEF First

\* Recording a download keeps the table well formed.  It leaves every row as it
\* is except those of the download's directory, and adds or resets one.
LEMMA UpsertRows ==
    ASSUME NEW D, NEW T, NEW rows \in Table(D, T), NEW dir \in D, NEW name \in T,
           NEW agent \in T, NEW id \in D \cup T, NEW locked \in BOOLEAN,
           NEW after, after = Upsert(rows, dir, name, agent, id, locked)
    PROVE  /\ after \in Table(D, T)
           /\ \A i \in DOMAIN after :
                 \/ after[i] \in {Row(dir, name, agent, id), Row(NULL, name, agent, id)}
                 \/ i \in DOMAIN rows /\ after[i] = rows[i]
           /\ \A i \in DOMAIN rows :
                 /\ i \in DOMAIN after
                 /\ \/ after[i] = rows[i]
                    \/ rows[i].dir = dir /\ after[i] = Row(dir, name, agent, id)
           /\ \E i \in DOMAIN after : after[i].name = name /\ after[i].status = 0
<1>1. /\ rows \in Seq(Rows(D, T)) /\ Len(rows) \in Nat /\ DOMAIN rows = 1..Len(rows)
      /\ \A i \in DOMAIN rows : rows[i] \in Rows(D, T)
  BY TableIsFunction
<1>2. Row(dir, name, agent, id) \in Rows(D, T) /\ Row(NULL, name, agent, id) \in Rows(D, T)
  BY DEF Row, Rows
<1>3. CASE Keyed(rows, dir) = {} \/ locked
  <2> DEFINE r == Row(NULL, name, agent, id)
  <2>1. after = Append(rows, r)
    BY <1>3 DEF Upsert, InsertRow
  <2>2. /\ after \in Seq(Rows(D, T)) /\ DOMAIN after = 1..(Len(rows) + 1)
        /\ \A i \in 1..Len(rows) : after[i] = rows[i]
        /\ after[Len(rows) + 1] = r
    <3> HIDE DEF r
    <3>1. r \in Rows(D, T)
      BY <1>2 DEF r
    <3> QED BY <1>1, <2>1, <3>1, AppendProperties, LenProperties
  <2>3. r.name = name /\ r.status = 0
    BY DEF Row
  <2>4. \A i \in DOMAIN after : i \in DOMAIN rows \/ i = Len(rows) + 1
    BY <1>1, <2>2
  <2>5. DOMAIN rows \subseteq DOMAIN after /\ Len(rows) + 1 \in DOMAIN after
    BY <1>1, <2>2
  <2>6. after \in Table(D, T)
    BY <2>2 DEF Table, Rows
  <2> HIDE DEF r
  <2> QED BY <1>1, <2>2, <2>3, <2>4, <2>5, <2>6 DEF r
<1>4. CASE ~(Keyed(rows, dir) = {} \/ locked)
  <2> DEFINE r == Row(dir, name, agent, id)
  <2>1. after = [i \in 1..Len(rows) |-> IF i \in Keyed(rows, dir) THEN r ELSE rows[i]]
    BY <1>1, <1>4 DEF Upsert, UpdateKeyed
  <2>2. after \in [1..Len(rows) -> Rows(D, T)]
    BY <1>1, <1>2, <2>1
  <2>3. after \in Table(D, T)
    BY <1>1, <2>2, FunctionIsTable
  <2>4. r.name = name /\ r.status = 0
    BY DEF Row
  <2> HIDE DEF r
  <2>5. PICK k \in DOMAIN rows : k \in Keyed(rows, dir)
    BY <1>4 DEF Keyed
  <2> QED BY <1>1, <2>1, <2>2, <2>3, <2>4, <2>5 DEF Keyed, r
<1> QED
  BY <1>3, <1>4

\* Recording a download makes its name pending and leaves the other names alone,
\* provided that its directory was always recorded under that name.
LEMMA UpsertPhase ==
    ASSUME NEW D, NEW T, NEW rows \in Table(D, T), NEW dir \in D, NEW name \in T,
           NEW agent \in T, NEW id \in D \cup T, NEW locked \in BOOLEAN,
           NEW after, after = Upsert(rows, dir, name, agent, id, locked),
           \A i \in DOMAIN rows : rows[i].dir = dir => rows[i].name = name
    PROVE  /\ Phase(after, name) = "pending"
           /\ \A n : n # name => /\ Phase(after, n) = Phase(rows, n)
                                 /\ Pending(after, n) = Pending(rows, n)
<1>1. /\ \A i \in DOMAIN after :
            \/ after[i] \in {Row(dir, name, agent, id), Row(NULL, name, agent, id)}
            \/ i \in DOMAIN rows /\ after[i] = rows[i]
      /\ \A i \in DOMAIN rows :
            /\ i \in DOMAIN after
            /\ \/ after[i] = rows[i]
               \/ rows[i].dir = dir /\ after[i] = Row(dir, name, agent, id)
      /\ \E i \in DOMAIN after : after[i].name = name /\ after[i].status = 0
  BY UpsertRows
<1>2. Phase(after, name) = "pending"
  BY <1>1 DEF Phase, Pending
<1>3. ASSUME NEW n, n # name
      PROVE  Phase(after, n) = Phase(rows, n) /\ Pending(after, n) = Pending(rows, n)
  <2>1. /\ Row(dir, name, agent, id).name # n /\ Row(NULL, name, agent, id).name # n
    BY <1>3 DEF Row
  <2>2. \A i : i \in DOMAIN after /\ after[i].name = n <=> i \in DOMAIN rows /\ rows[i].name = n
    BY <1>1, <1>3, <2>1
  <2>3. \A i \in DOMAIN rows : rows[i].name = n => after[i] = rows[i]
    BY <1>1, <1>3, <2>1
  <2>4. Pending(after, n) = Pending(rows, n)
    BY <2>2, <2>3 DEF Pending
  <2> QED BY <2>2, <2>4 DEF Phase
<1> QED
  BY <1>2, <1>3

\* Marking keeps the table well formed and touches nothing but the status.
LEMMA SetStatusRows ==
    ASSUME NEW D, NEW T, NEW rows \in Table(D, T), NEW name, NEW after, after = SetStatus(rows, name, 1)
    PROVE  /\ after \in Table(D, T) /\ DOMAIN after = DOMAIN rows
           /\ \A i \in DOMAIN rows :
                 /\ after[i].dir = rows[i].dir /\ after[i].name = rows[i].name
                 /\ after[i].agent = rows[i].agent /\ after[i].id = rows[i].id
                 /\ after[i].status = IF rows[i].name = name THEN 1 ELSE rows[i].status
<1>1. /\ Len(rows) \in Nat /\ DOMAIN rows = 1..Len(rows)
      /\ \A i \in DOMAIN rows : rows[i] \in Rows(D, T)
  BY TableIsFunction
<1>2. \A i \in DOMAIN rows :
         /\ [rows[i] EXCEPT !.status = 1] \in Rows(D, T)
         /\ [rows[i] EXCEPT !.status = 1].dir = rows[i].dir
         /\ [rows[i] EXCEPT !.status = 1].name = rows[i].name
         /\ [rows[i] EXCEPT !.status = 1].agent = rows[i].agent
         /\ [rows[i] EXCEPT !.status = 1].id = rows[i].id
         /\ [rows[i] EXCEPT !.status = 1].status = 1
  BY <1>1 DEF Rows
<1>3. after \in [1..Len(rows) -> Rows(D, T)]
  BY <1>1, <1>2 DEF SetStatus
<1>4. after \in Table(D, T)
  BY <1>1, <1>3, FunctionIsTable
<1> QED
  BY <1>1, <1>2, <1>4 DEF SetStatus

\* Marking turns a pending name into a done one and leaves the others alone.
LEMMA SetStatusPhase ==
    ASSUME NEW D, NEW T, NEW rows \in Table(D, T), NEW name, NEW after, after = SetStatus(rows, name, 1)
    PROVE  /\ Pending(after, name) = {}
           /\ Phase(after, name) = IF Phase(rows, name) = "pending" THEN "done" ELSE Phase(rows, name)
           /\ \A n : n # name => /\ Phase(after, n) = Phase(rows, n)
                                 /\ Pending(after, n) = Pending(rows, n)
<1>1. /\ DOMAIN after = DOMAIN rows
      /\ \A i \in DOMAIN rows :
            /\ after[i].name = rows[i].name
            /\ after[i].status = IF rows[i].name = name THEN 1 ELSE rows[i].status
  BY SetStatusRows
<1>2. Pending(after, name) = {}
  BY <1>1 DEF Pending
<1>3. Phase(after, name) = IF Phase(rows, name) = "pending" THEN "done" ELSE Phase(rows, name)
  BY <1>1, <1>2 DEF Phase, Pending
<1>4. ASSUME NEW n, n # name
      PROVE  Phase(after, n) = Phase(rows, n) /\ Pending(after, n) = Pending(rows, n)
  <2>1. Pending(after, n) = Pending(rows, n)
    BY <1>1, <1>4 DEF Pending
  <2> QED BY <1>1, <2>1 DEF Phase
<1> QED
  BY <1>2, <1>3, <1>4

\* A download is new, pending or done.
LEMMA PhaseType ==
    ASSUME NEW rows, NEW name
    PROVE  /\ Phase(rows, name) \in {"new", "pending", "done"}
           /\ Phase(rows, name) = "pending" <=> Pending(rows, name) # {}
BY DEF Phase
=============================================================================
