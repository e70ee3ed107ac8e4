-------------------------- MODULE JobStore_proofs --------------------------
(***************************************************************************)
(* Proofs about JobStore for every set of processes, threads, jobs and     *)
(* steps.                                                                  *)
(***************************************************************************)
EXTENDS JobStore, JobTable_proofs

-----------------------------------------------------------------------------
(* The rows and the calls of the store *)

\* The rows create_job is given are rows without a completion stamp.
LEMMA FreshIsRow ==
    ASSUME NEW p \in Proc, NEW r \in Fresh(p)
    PROVE  r \in Row /\ ~r.stamped /\ r.status \in {"running", "ready"}
<1>1. PICK n \in Totals : r \in { FreshRow("running", n, p, FALSE),
                                  FreshRow("ready", n, p, TRUE),
                                  FreshRow("ready", n, NoPid, FALSE) }
  BY DEF Fresh
<1>2. n \in Nat
  BY StoreAssumption
<1>3. CASE r = FreshRow("running", n, p, FALSE)
  BY <1>2, <1>3, FreshRowIsRow
<1>4. CASE r = FreshRow("ready", n, p, TRUE)
  BY <1>2, <1>4, FreshRowIsRow
<1>5. CASE r = FreshRow("ready", n, NoPid, FALSE)
  BY <1>2, <1>5, FreshRowIsRow
<1>6. QED
  BY <1>1, <1>3, <1>4, <1>5

\* What the calls of update_job have in common: one that writes completed or
\* failed also sets completed_at, and only one with a terminal status does.
GoodCall(c) ==
    /\ c \in Call
    /\ c.status \in {"completed", "failed"} => c.completed
    /\ c.completed => c.status \in Terminal

LEMMA SetsIsCall ==
    ASSUME NEW st \in Status \union {"keep"}, NEW done \in BOOLEAN
    PROVE  /\ Sets(st, done) \in Call
           /\ Sets(st, done).status = st
           /\ Sets(st, done).completed = done
BY EmptyIsResults DEF Sets, Call

LEMMA UpdateCallsAreGood ==
    ASSUME NEW p \in Proc, NEW c \in UpdateCalls(p)
    PROVE  GoodCall(c)
<1>1. ASSUME NEW st \in {"keep", "waiting_input", "in_progress", "failed", "completed"},
             NEW done \in BOOLEAN,
             done <=> st \in {"failed", "completed"},
             c = Sets(st, done)
      PROVE  GoodCall(c)
  <2>1. st \in Status \union {"keep"}
    BY DEF Status, Terminal, Active
  <2>2. c \in Call /\ c.status = st /\ c.completed = done
    BY <1>1, <2>1, SetsIsCall
  <2>3. QED
    BY <1>1, <2>2 DEF GoodCall, Terminal
<1>2. ASSUME NEW st \in {"completed", "failed", "cancelled"},
             NEW given \in BOOLEAN, NEW res \in Results,
             NEW o \in {p, NoPid}, NEW done \in BOOLEAN,
             done \/ st = "cancelled",
             c = Finishes(st, given, res, o, done)
      PROVE  GoodCall(c)
  <2>1. st \in Status \union {"keep"} /\ o \in Proc \union {NoPid}
    BY DEF Status, Terminal
  <2>2. c \in Call /\ c.status = st /\ c.completed = done
    BY <1>2, <2>1 DEF Finishes, Call
  <2>3. QED
    BY <1>2, <2>2 DEF GoodCall, Terminal
<1>3. CASE c \in { Sets("keep", FALSE), Sets("waiting_input", FALSE),
                   Sets("in_progress", FALSE), Sets("failed", TRUE),
                   Sets("completed", TRUE) }
  BY <1>1, <1>3
<1>4. CASE c \in { Finishes("cancelled", FALSE, Empty, NoPid, TRUE),
                   Finishes("failed", FALSE, Empty, NoPid, TRUE) }
  BY <1>2, <1>4, EmptyIsResults
<1>5. CASE \E res \in Results :
             c \in { Finishes("completed", TRUE, res, p, TRUE),
                     Finishes("cancelled", TRUE, res, p, FALSE),
                     Finishes("failed", TRUE, res, p, TRUE),
                     Finishes("completed", TRUE, res, NoPid, TRUE),
                     Finishes("failed", TRUE, res, NoPid, TRUE) }
  BY <1>2, <1>5
<1>6. QED
  BY <1>3, <1>4, <1>5 DEF UpdateCalls

-----------------------------------------------------------------------------
(* Type correctness *)

LEMMA PendingIsTxn ==
    ASSUME NEW op \in Op, NEW j \in Job, NEW new \in Row \union {NoRow}
    PROVE  /\ Pending(op, j, new) \in Txn
           /\ Pending(op, j, new).op = op
           /\ Pending(op, j, new).jobs = {j}
           /\ Pending(op, j, new).rows[j] = new
<1>1. [Nowhere EXCEPT ![j] = new] \in Table
  BY DEF Nowhere, Table
<1>2. [Nowhere EXCEPT ![j] = new][j] = new
  BY DEF Nowhere
<1>3. QED
  BY <1>1, <1>2 DEF Pending, Txn

LEMMA IdleIsTxn == Idle \in Txn /\ Idle.op = "idle" /\ Idle.jobs = {}
BY DEF Idle, Txn, Op, Nowhere, Table

\* Both ends of an operation keep the types of the lock table and of txn.
LEMMA BeginType ==
    ASSUME TypeOK, NEW t \in Thread, NEW x \in Txn, Begin(t, x)
    PROVE  /\ txn'  \in [Thread -> Txn]
           /\ lock' \in [Proc -> Thread \union {Free}]
BY StoreAssumption DEF TypeOK, Begin

LEMMA EndType ==
    ASSUME TypeOK, NEW t \in Thread, End(t)
    PROVE  /\ txn'  \in [Thread -> Txn]
           /\ lock' \in [Proc -> Thread \union {Free}]
BY StoreAssumption, IdleIsTxn DEF TypeOK, End

\* The rows a pending update or record will write are rows.
PendingRows ==
    \A t \in Thread : txn[t].op \in {"update", "record"} =>
        \A j \in txn[t].jobs : txn[t].rows[j] \in Row

\* What the four UPDATE statements make of a row is a row.
LEMMA WritesRows ==
    ASSUME NEW r \in Row \union {NoRow}, NEW new \in Row \union {NoRow}
    PROVE  /\ new \in Row => UpdateRow(r, new) \in Row \union {NoRow}
           /\ new \in Row => RecordRow(r, new) \in Row \union {NoRow}
           /\ CancelRow(r) \in Row \union {NoRow}
           /\ SweepRow(r, new) \in Row \union {NoRow}
<1>1. new \in Row => UpdateRow(r, new) \in Row \union {NoRow}
  BY DEF UpdateRow
<1>2. ASSUME new \in Row PROVE RecordRow(r, new) \in Row \union {NoRow}
  BY <1>2 DEF RecordRow, RecordAllowed, RecordMerge, Row
<1>3. CancelRow(r) \in Row \union {NoRow}
  BY DEF CancelRow, CancelAllowed, Row, Status, Terminal
<1>4. SweepRow(r, new) \in Row \union {NoRow}
  BY DEF SweepRow, Row, Status, Terminal
<1>5. QED
  BY <1>1, <1>2, <1>3, <1>4

LEMMA TypeInit == Init => TypeOK /\ PendingRows
<1> SUFFICES ASSUME Init PROVE TypeOK /\ PendingRows
  OBVIOUS
<1>1. TypeOK
  BY IdleIsTxn DEF Init, TypeOK, Table, Nowhere, Life
<1>2. PendingRows
  BY IdleIsTxn DEF Init, PendingRows
<1>3. QED
  BY <1>1, <1>2

\* An operation that begins with a good pending UPDATE leaves the others as
\* they were.
LEMMA BeginPending ==
    ASSUME TypeOK, PendingRows, NEW t \in Thread, NEW x \in Txn, Begin(t, x),
           x.op \in {"update", "record"} => \A j \in x.jobs : x.rows[j] \in Row
    PROVE  PendingRows'
BY DEF TypeOK, PendingRows, Begin

LEMMA EndPending ==
    ASSUME TypeOK, PendingRows, NEW t \in Thread, End(t)
    PROVE  PendingRows'
BY IdleIsTxn DEF TypeOK, PendingRows, End

LEMMA TypeStep == TypeOK /\ PendingRows /\ [Next]_vars => (TypeOK /\ PendingRows)'
<1> SUFFICES ASSUME TypeOK, PendingRows, [Next]_vars
             PROVE  TypeOK' /\ PendingRows'
  OBVIOUS
<1>1. ASSUME NEW t \in Thread, NEW j \in Job, CreateJob(t, j)
      PROVE  TypeOK' /\ PendingRows'
  <2>1. PICK fresh \in Fresh(Home[t]) : row' = [row EXCEPT ![j] = Upsert(row[j], fresh)]
    BY <1>1 DEF CreateJob
  <2>2. fresh \in Row
    BY FreshIsRow, StoreAssumption
  <2>3. Upsert(row[j], fresh) \in Row \union {NoRow}
    BY <2>2 DEF TypeOK, Table, Upsert
  <2>4. row' \in Table
    BY <2>1, <2>3 DEF TypeOK, Table
  <2>5. QED
    BY <1>1, <2>4 DEF CreateJob, TypeOK, PendingRows
<1>2. ASSUME NEW t \in Thread, NEW j \in Job, DeleteJob(t, j)
      PROVE  TypeOK' /\ PendingRows'
  BY <1>2 DEF DeleteJob, TypeOK, Table, PendingRows
<1>3. ASSUME NEW t \in Thread, NEW j \in Job, UpdateRead(t, j)
      PROVE  TypeOK' /\ PendingRows'
  <2>1. PICK c \in UpdateCalls(Home[t]) :
               /\ UpdateAllowed(row[j], c.status)
               /\ Begin(t, Pending("update", j, Updated(row[j], c)))
    BY <1>3 DEF UpdateRead
  <2>2. row[j] \in Row
    BY <2>1 DEF UpdateAllowed, TypeOK, Table
  <2>3. Updated(row[j], c) \in Row
    BY <2>2, UpdatedIsRow, UpdateCallsAreGood, StoreAssumption DEF GoodCall
  <2> DEFINE x == Pending("update", j, Updated(row[j], c))
  <2>4. x \in Txn /\ \A i \in x.jobs : x.rows[i] \in Row
    BY <2>3, PendingIsTxn DEF Op
  <2>5. Begin(t, x)
    BY <2>1
  <2> HIDE DEF x
  <2>6. PendingRows' /\ txn' \in [Thread -> Txn] /\ lock' \in [Proc -> Thread \union {Free}]
    BY <2>4, <2>5, BeginPending, BeginType
  <2>7. QED
    BY <1>3, <2>6 DEF UpdateRead, TypeOK
<1>4. ASSUME NEW t \in Thread, NEW j \in Job, RecordRead(t, j)
      PROVE  TypeOK' /\ PendingRows'
  <2>1. PICK s \in Step, ok \in BOOLEAN, auto \in BOOLEAN :
               Begin(t, Pending("record", j, WithResult(row[j], s, ok, auto)))
    BY <1>4 DEF RecordRead
  <2>2. row[j] \in Row
    BY <1>4 DEF RecordRead, RecordAllowed, TypeOK, Table
  <2>3. WithResult(row[j], s, ok, auto) \in Row
    BY <2>2, WithResultIsRow
  <2> DEFINE x == Pending("record", j, WithResult(row[j], s, ok, auto))
  <2>4. x \in Txn /\ \A i \in x.jobs : x.rows[i] \in Row
    BY <2>3, PendingIsTxn DEF Op
  <2>5. Begin(t, x)
    BY <2>1
  <2> HIDE DEF x
  <2>6. PendingRows' /\ txn' \in [Thread -> Txn] /\ lock' \in [Proc -> Thread \union {Free}]
    BY <2>4, <2>5, BeginPending, BeginType
  <2>7. QED
    BY <1>4, <2>6 DEF RecordRead, TypeOK
<1>5. ASSUME NEW t \in Thread, NEW j \in Job, CancelRead(t, j)
      PROVE  TypeOK' /\ PendingRows'
  <2> DEFINE x == Pending("cancel", j, NoRow)
  <2>1. x \in Txn /\ x.op = "cancel"
    BY PendingIsTxn DEF Op
  <2>2. Begin(t, x)
    BY <1>5 DEF CancelRead
  <2> HIDE DEF x
  <2>3. PendingRows' /\ txn' \in [Thread -> Txn] /\ lock' \in [Proc -> Thread \union {Free}]
    BY <2>1, <2>2, BeginPending, BeginType
  <2>4. QED
    BY <1>5, <2>3 DEF CancelRead, TypeOK
<1>6. ASSUME NEW t \in Thread, SweepSelect(t)
      PROVE  TypeOK' /\ PendingRows'
  <2> DEFINE seen == { j \in Job : row[j] # NoRow /\ row[j].status \in Active }
             x == [op |-> "sweep", jobs |-> seen,
                   rows |-> [j \in Job |-> IF j \in seen THEN row[j] ELSE NoRow]]
  <2>1. x \in Txn /\ x.op = "sweep"
    BY DEF Txn, Op, TypeOK, Table
  <2>2. Begin(t, x)
    BY <1>6 DEF SweepSelect
  <2> HIDE DEF x
  <2>3. PendingRows' /\ txn' \in [Thread -> Txn] /\ lock' \in [Proc -> Thread \union {Free}]
    BY <2>1, <2>2, BeginPending, BeginType
  <2>4. QED
    BY <1>6, <2>3 DEF SweepSelect, TypeOK
<1>7. ASSUME NEW t \in Thread, Write(t)
      PROVE  TypeOK' /\ PendingRows'
  <2>1. txn[t] \in Txn /\ End(t)
    BY <1>7 DEF TypeOK, Write, UpdateWrite, RecordWrite, CancelWrite, SweepWrite
  <2>2. PendingRows' /\ txn' \in [Thread -> Txn] /\ lock' \in [Proc -> Thread \union {Free}]
    BY <2>1, EndPending, EndType
  <2>3. \A j \in Job : row[j] \in Row \union {NoRow}
                        /\ txn[t].rows[j] \in Row \union {NoRow}
    BY <2>1 DEF TypeOK, Table, Txn
  <2>4. row' \in Table
    <3>1. CASE UpdateWrite(t)
      BY <2>3, <3>1, WritesRows DEF UpdateWrite, PendingRows, Table
    <3>2. CASE RecordWrite(t)
      BY <2>3, <3>2, WritesRows DEF RecordWrite, PendingRows, Table
    <3>3. CASE CancelWrite(t)
      BY <2>3, <3>3, WritesRows DEF CancelWrite, Table
    <3>4. CASE SweepWrite(t)
      BY <2>3, <3>4, WritesRows DEF SweepWrite, Table
    <3>5. QED
      BY <1>7, <3>1, <3>2, <3>3, <3>4 DEF Write
  <2>5. proc' \in [Proc -> Life]
    BY <1>7 DEF TypeOK, Life, Write, UpdateWrite, RecordWrite, CancelWrite, SweepWrite
  <2>6. QED
    BY <2>2, <2>4, <2>5 DEF TypeOK
<1>8. ASSUME NEW p \in Proc, Boot(p)
      PROVE  TypeOK' /\ PendingRows'
  BY <1>8 DEF Boot, TypeOK, Life, PendingRows
<1>9. ASSUME NEW p \in Proc, Die(p)
      PROVE  TypeOK' /\ PendingRows'
  <2>1. TypeOK'
    BY <1>9, IdleIsTxn DEF Die, TypeOK, Life
  <2>2. PendingRows'
    BY <1>9, IdleIsTxn DEF Die, PendingRows
  <2>3. QED
    BY <2>1, <2>2
<1>10. CASE UNCHANGED vars
  BY <1>10 DEF vars, TypeOK, PendingRows
<1>11. QED
  BY <1>1, <1>2, <1>3, <1>4, <1>5, <1>6, <1>7, <1>8, <1>9, <1>10
  DEF Next, Read

\* Every variable keeps its type: the rows written back by concurrent
\* read-modify-write operations of job_ops.py are rows.
THEOREM TypeCorrect == Spec => [](TypeOK /\ PendingRows)
BY TypeInit, TypeStep, PTL DEF Spec

-----------------------------------------------------------------------------
(* completed_at and the verdict *)

\* completed_at of one row agrees with its status.
StampOK(r) ==
    /\ r.status \in {"completed", "failed"} => r.stamped
    /\ r.status \notin Terminal => ~r.stamped

\* CompletionStamped is not inductive by itself: the copy that a pending
\* operation is going to write back must agree too.
PendingStamped ==
    \A t \in Thread : txn[t].op \in {"update", "record"} =>
        \A j \in txn[t].jobs : StampOK(txn[t].rows[j])

StampInv == CompletionStamped /\ PendingStamped

LEMMA UpdatedStamp ==
    ASSUME NEW r \in Row, StampOK(r), NEW c, GoodCall(c), UpdateAllowed(r, c.status)
    PROVE  StampOK(Updated(r, c))
<1>1. /\ Updated(r, c).status = NewStatus(r, c)
      /\ Updated(r, c).stamped = (r.stamped \/ c.completed)
  BY UpdatedIsRow DEF GoodCall
<1>2. CASE c.status = "keep"
  BY <1>1, <1>2 DEF GoodCall, NewStatus, StampOK, UpdateAllowed, Terminal
<1>3. CASE c.status # "keep"
  BY <1>1, <1>3 DEF GoodCall, NewStatus, StampOK, UpdateAllowed, Terminal
<1>4. QED
  BY <1>2, <1>3

LEMMA WithResultStamp ==
    ASSUME NEW r \in Row, StampOK(r), RecordAllowed(r),
           NEW s \in Step, NEW ok \in BOOLEAN, NEW auto \in BOOLEAN
    PROVE  StampOK(WithResult(r, s, ok, auto))
<1>1. /\ WithResult(r, s, ok, auto) \in Row
      /\ WithResult(r, s, ok, auto).status \in {"in_progress", "error", "completed"}
      /\ WithResult(r, s, ok, auto).stamped
           = (r.stamped \/ WithResult(r, s, ok, auto).status = "completed")
  BY WithResultIsRow
<1>2. QED
  BY <1>1 DEF StampOK, RecordAllowed, Terminal

LEMMA StampStep ==
    TypeOK /\ PendingRows /\ StampInv /\ [Next]_vars => StampInv'
<1> SUFFICES ASSUME TypeOK, PendingRows, StampInv, [Next]_vars
             PROVE  CompletionStamped' /\ PendingStamped'
  BY DEF StampInv
<1>0. \A j \in Job : row[j] # NoRow => row[j] \in Row /\ StampOK(row[j])
  BY DEF TypeOK, Table, StampInv, CompletionStamped, StampOK
<1>a. ASSUME NEW t \in Thread, NEW x \in Txn, Begin(t, x), UNCHANGED row,
             x.op \in {"update", "record"} => \A j \in x.jobs : StampOK(x.rows[j])
      PROVE  CompletionStamped' /\ PendingStamped'
  BY <1>a DEF Begin, TypeOK, StampInv, CompletionStamped, PendingStamped
<1>b. ASSUME NEW t \in Thread, End(t),
             \A j \in Job : row'[j] # NoRow => StampOK(row'[j])
      PROVE  CompletionStamped' /\ PendingStamped'
  BY <1>b, IdleIsTxn DEF End, TypeOK, StampInv, CompletionStamped, PendingStamped, StampOK
<1>1. ASSUME NEW t \in Thread, NEW j \in Job, CreateJob(t, j)
      PROVE  CompletionStamped' /\ PendingStamped'
  <2>1. PICK fresh \in Fresh(Home[t]) : row' = [row EXCEPT ![j] = Upsert(row[j], fresh)]
    BY <1>1 DEF CreateJob
  <2>2. StampOK(fresh)
    BY FreshIsRow, StoreAssumption DEF StampOK, Terminal
  <2>3. \A i \in Job : row'[i] # NoRow => StampOK(row'[i])
    BY <1>0, <2>1, <2>2 DEF Upsert, TypeOK, Table
  <2>4. QED
    BY <1>1, <2>3 DEF CreateJob, StampInv, CompletionStamped, PendingStamped, StampOK
<1>2. ASSUME NEW t \in Thread, NEW j \in Job, DeleteJob(t, j)
      PROVE  CompletionStamped' /\ PendingStamped'
  BY <1>2 DEF DeleteJob, TypeOK, Table, StampInv, CompletionStamped, PendingStamped
<1>3. ASSUME NEW t \in Thread, NEW j \in Job, UpdateRead(t, j)
      PROVE  CompletionStamped' /\ PendingStamped'
  <2>1. PICK c \in UpdateCalls(Home[t]) :
               /\ UpdateAllowed(row[j], c.status)
               /\ Begin(t, Pending("update", j, Updated(row[j], c)))
    BY <1>3 DEF UpdateRead
  <2>2. GoodCall(c)
    BY UpdateCallsAreGood, StoreAssumption
  <2>3. row[j] \in Row /\ StampOK(row[j])
    BY <1>0, <2>1 DEF UpdateAllowed
  <2> DEFINE new == Updated(row[j], c)
             x   == Pending("update", j, new)
  <2>4. new \in Row /\ StampOK(new)
    BY <2>1, <2>2, <2>3, UpdatedIsRow, UpdatedStamp DEF GoodCall
  <2> HIDE DEF new
  <2>5. x \in Txn /\ \A i \in x.jobs : StampOK(x.rows[i])
    BY <2>4, PendingIsTxn DEF Op
  <2>6. Begin(t, x)
    BY <2>1 DEF new
  <2> HIDE DEF x
  <2>7. QED
    BY <1>3, <1>a, <2>5, <2>6 DEF UpdateRead
<1>4. ASSUME NEW t \in Thread, NEW j \in Job, RecordRead(t, j)
      PROVE  CompletionStamped' /\ PendingStamped'
  <2>1. PICK s \in Step, ok \in BOOLEAN, auto \in BOOLEAN :
               Begin(t, Pending("record", j, WithResult(row[j], s, ok, auto)))
    BY <1>4 DEF RecordRead
  <2>2. RecordAllowed(row[j]) /\ row[j] \in Row /\ StampOK(row[j])
    BY <1>0, <1>4 DEF RecordRead, RecordAllowed
  <2> DEFINE new == WithResult(row[j], s, ok, auto)
             x   == Pending("record", j, new)
  <2>3. new \in Row /\ StampOK(new)
    BY <2>2, WithResultIsRow, WithResultStamp
  <2> HIDE DEF new
  <2>4. x \in Txn /\ \A i \in x.jobs : StampOK(x.rows[i])
    BY <2>3, PendingIsTxn DEF Op
  <2>5. Begin(t, x)
    BY <2>1 DEF new
  <2> HIDE DEF x
  <2>6. QED
    BY <1>4, <1>a, <2>4, <2>5 DEF RecordRead
<1>5. ASSUME NEW t \in Thread, NEW j \in Job, CancelRead(t, j)
      PROVE  CompletionStamped' /\ PendingStamped'
  <2> DEFINE x == Pending("cancel", j, NoRow)
  <2>1. x \in Txn /\ x.op = "cancel"
    BY PendingIsTxn DEF Op
  <2>2. Begin(t, x)
    BY <1>5 DEF CancelRead
  <2> HIDE DEF x
  <2>3. QED
    BY <1>5, <1>a, <2>1, <2>2 DEF CancelRead
<1>6. ASSUME NEW t \in Thread, SweepSelect(t)
      PROVE  CompletionStamped' /\ PendingStamped'
  <2> DEFINE seen == { j \in Job : row[j] # NoRow /\ row[j].status \in Active }
             x == [op |-> "sweep", jobs |-> seen,
                   rows |-> [j \in Job |-> IF j \in seen THEN row[j] ELSE NoRow]]
  <2>1. x \in Txn /\ x.op = "sweep"
    BY DEF Txn, Op, TypeOK, Table
  <2>2. Begin(t, x)
    BY <1>6 DEF SweepSelect
  <2> HIDE DEF x
  <2>3. QED
    BY <1>6, <1>a, <2>1, <2>2 DEF SweepSelect
<1>7. ASSUME NEW t \in Thread, Write(t)
      PROVE  CompletionStamped' /\ PendingStamped'
  <2>1. End(t)
    BY <1>7 DEF Write, UpdateWrite, RecordWrite, CancelWrite, SweepWrite
  <2>2. ASSUME NEW j \in Job, row'[j] # NoRow
        PROVE  StampOK(row'[j])
    <3>1. CASE UpdateWrite(t)
      BY <1>0, <2>2, <3>1 DEF UpdateWrite, UpdateRow, StampInv, PendingStamped
    <3>2. CASE RecordWrite(t)
      <4>1. txn[t].op = "record"
        BY <3>2 DEF RecordWrite
      <4>2. CASE j \in txn[t].jobs /\ RecordAllowed(row[j])
        <5> DEFINE new == txn[t].rows[j]
        <5>1. new \in Row /\ StampOK(new)
          BY <4>1, <4>2 DEF PendingRows, StampInv, PendingStamped
        <5>2. row'[j] = RecordMerge(row[j], new)
          BY <3>2, <4>2 DEF RecordWrite, RecordRow
        <5>3. row[j] \in Row
          BY <1>0, <4>2 DEF RecordAllowed
        <5> HIDE DEF new
        <5>4. row'[j].status = new.status /\ row'[j].stamped = new.stamped
          BY <5>2, <5>3 DEF RecordMerge, Row
        <5>5. QED
          BY <5>1, <5>4 DEF StampOK
      <4>3. CASE ~(j \in txn[t].jobs /\ RecordAllowed(row[j]))
        BY <1>0, <2>2, <3>2, <4>3 DEF RecordWrite, RecordRow
      <4>4. QED
        BY <4>2, <4>3
    <3>3. CASE CancelWrite(t)
      BY <1>0, <2>2, <3>3 DEF CancelWrite, CancelRow, CancelAllowed, Row, StampOK, Terminal
    <3>4. CASE SweepWrite(t)
      BY <1>0, <2>2, <3>4 DEF SweepWrite, SweepRow, Row, StampOK, Terminal
    <3>5. QED
      BY <1>7, <3>1, <3>2, <3>3, <3>4 DEF Write
  <2>3. QED
    BY <1>b, <2>1, <2>2
<1>8. ASSUME NEW p \in Proc, Boot(p)
      PROVE  CompletionStamped' /\ PendingStamped'
  BY <1>8 DEF Boot, StampInv, CompletionStamped, PendingStamped
<1>9. ASSUME NEW p \in Proc, Die(p)
      PROVE  CompletionStamped' /\ PendingStamped'
  BY <1>9, IdleIsTxn DEF Die, StampInv, CompletionStamped, PendingStamped
<1>10. CASE UNCHANGED vars
  BY <1>10 DEF vars, StampInv, CompletionStamped, PendingStamped
<1>11. QED
  BY <1>1, <1>2, <1>3, <1>4, <1>5, <1>6, <1>7, <1>8, <1>9, <1>10
  DEF Next, Read

\* However many processes race, a row that failed or completed carries
\* completed_at and a row still going does not.
THEOREM StampCorrect == Spec => []CompletionStamped
<1>1. Init => StampInv
  BY IdleIsTxn DEF Init, StampInv, CompletionStamped, PendingStamped, Nowhere
<1>2. StampInv => CompletionStamped
  BY DEF StampInv
<1>3. QED
  BY <1>1, <1>2, TypeCorrect, StampStep, PTL DEF Spec

-----------------------------------------------------------------------------
(* Verdicts *)

Verdict(r) == r # NoRow /\ r.status \in {"completed", "failed", "cancelled"}

\* What may become of the row of a finished job in one step.
Kept(j) ==
    \/ row'[j] = NoRow
    \/ row'[j].status = row[j].status
    \/ Restarted(j)
    \/ BeingReaped(j) /\ row'[j].status = "interrupted"

\* The UPDATE of update_job, record_step_result and cancel_job leaves the
\* verdict of a row alone.
LEMMA WritesKeepVerdict ==
    ASSUME NEW r \in Row, Verdict(r), NEW new
    PROVE  /\ UpdateRow(r, new) = r \/ UpdateRow(r, new).status = r.status
           /\ RecordRow(r, new) = r
           /\ CancelRow(r) = r
<1>1. UpdateRow(r, new) = r \/ UpdateRow(r, new).status = r.status
  BY DEF Verdict, UpdateRow, UpdateAllowed, Terminal
<1>2. RecordRow(r, new) = r /\ CancelRow(r) = r
  BY DEF Verdict, RecordRow, RecordAllowed, CancelRow, CancelAllowed, Terminal
<1>3. QED
  BY <1>1, <1>2

LEMMA VerdictStep ==
    ASSUME TypeOK, [Next]_vars, NEW j \in Job, Verdict(row[j])
    PROVE  Kept(j)
<1>0. row[j] \in Row
  BY DEF TypeOK, Table, Verdict
<1>1. ASSUME NEW t \in Thread, NEW i \in Job, CreateJob(t, i)
      PROVE  Kept(j)
  <2>1. PICK fresh \in Fresh(Home[t]) : row' = [row EXCEPT ![i] = Upsert(row[i], fresh)]
    BY <1>1 DEF CreateJob
  <2>2. CASE i = j
    <3>1. row'[j] = fresh
      BY <2>1, <2>2 DEF TypeOK, Table, Upsert, Verdict, Terminal
    <3>2. QED
      BY <3>1, StoreAssumption DEF Kept, Restarted
  <2>3. CASE i # j
    BY <2>1, <2>3 DEF TypeOK, Table, Kept
  <2>4. QED
    BY <2>2, <2>3
<1>2. ASSUME NEW t \in Thread, NEW i \in Job, DeleteJob(t, i)
      PROVE  Kept(j)
  BY <1>2 DEF DeleteJob, TypeOK, Table, Kept
<1>3. ASSUME NEW t \in Thread, Write(t)
      PROVE  Kept(j)
  <2>1. CASE UpdateWrite(t)
    BY <1>0, <2>1, WritesKeepVerdict DEF UpdateWrite, Kept
  <2>2. CASE RecordWrite(t)
    BY <1>0, <2>2, WritesKeepVerdict DEF RecordWrite, Kept
  <2>3. CASE CancelWrite(t)
    BY <1>0, <2>3, WritesKeepVerdict DEF CancelWrite, Kept
  <2>4. CASE SweepWrite(t)
    <3>1. CASE j \in txn[t].jobs /\ row'[j] # row[j]
      <4>1. Orphan(txn[t].rows[j], Alive) /\ row'[j].status = "interrupted"
        BY <1>0, <2>4, <3>1 DEF SweepWrite, SweepRow, Row
      <4>2. BeingReaped(j)
        BY <2>4, <4>1 DEF BeingReaped, Orphan, SweepWrite
      <4>3. QED
        BY <4>1, <4>2 DEF Kept
    <3>2. CASE ~(j \in txn[t].jobs /\ row'[j] # row[j])
      BY <2>4, <3>2 DEF SweepWrite, Kept
    <3>3. QED
      BY <3>1, <3>2
  <2>5. QED
    BY <1>3, <2>1, <2>2, <2>3, <2>4 DEF Write
<1>4. CASE UNCHANGED row
  BY <1>4 DEF Kept
<1>5. QED
  BY <1>1, <1>2, <1>3, <1>4
  DEF Next, Read, UpdateRead, RecordRead, CancelRead, SweepSelect, Boot, Die, vars

\* The first verdict stands: completed, failed and cancelled give way only to
\* a new run, to deletion, or to a sweep that had selected the row before.
THEOREM VerdictsStand == Spec => VerdictKept
<1>1. TypeOK /\ [Next]_vars =>
        [\A j \in Job :
            (row[j] # NoRow /\ row[j].status \in {"completed", "failed", "cancelled"})
            => \/ row'[j] = NoRow
               \/ row'[j].status = row[j].status
               \/ Restarted(j)
               \/ BeingReaped(j) /\ row'[j].status = "interrupted"]_vars
  BY VerdictStep DEF Verdict, Kept
<1>2. QED
  BY <1>1, TypeCorrect, PTL DEF Spec, VerdictKept

-----------------------------------------------------------------------------
(* JobStore implements JobLifecycle *)

LifeOf(r) == IF r = NoRow THEN "absent" ELSE r.status

\* update_job, record_step_result and cancel_job name one row; only the sweep
\* writes 'interrupted'.
PendingOne ==
    \A t \in Thread :
        /\ txn[t].op \in {"update", "record", "cancel"} =>
               \E j \in Job : txn[t].jobs = {j}
        /\ txn[t].op \in {"update", "record"} =>
               \A j \in txn[t].jobs : txn[t].rows[j].status # "interrupted"

LEMMA NeverWritesInterrupted ==
    ASSUME NEW p \in Proc, NEW c \in UpdateCalls(p), NEW r \in Row,
           UpdateAllowed(r, c.status)
    PROVE  NewStatus(r, c) # "interrupted"
<1>1. c.status # "interrupted"
  BY DEF UpdateCalls, Sets, Finishes
<1>2. QED
  BY <1>1 DEF NewStatus, UpdateAllowed, Terminal

LEMMA PendingOneStep == TypeOK /\ PendingOne /\ [Next]_vars => PendingOne'
<1> SUFFICES ASSUME TypeOK, PendingOne, [Next]_vars PROVE PendingOne'
  OBVIOUS
<1>a. ASSUME NEW t \in Thread, NEW x \in Txn, Begin(t, x),
             x.op \in {"update", "record", "cancel"} => \E j \in Job : x.jobs = {j},
             x.op \in {"update", "record"} =>
                 \A j \in x.jobs : x.rows[j].status # "interrupted"
      PROVE  PendingOne'
  BY <1>a DEF Begin, TypeOK, PendingOne
<1>1. ASSUME NEW t \in Thread, NEW j \in Job, UpdateRead(t, j)
      PROVE  PendingOne'
  <2>1. PICK c \in UpdateCalls(Home[t]) :
               /\ UpdateAllowed(row[j], c.status)
               /\ Begin(t, Pending("update", j, Updated(row[j], c)))
    BY <1>1 DEF UpdateRead
  <2>2. row[j] \in Row
    BY <2>1 DEF UpdateAllowed, TypeOK, Table
  <2> DEFINE new == Updated(row[j], c)
             x   == Pending("update", j, new)
  <2>3. new \in Row /\ new.status # "interrupted"
    BY <2>1, <2>2, UpdatedIsRow, UpdateCallsAreGood, NeverWritesInterrupted,
       StoreAssumption DEF GoodCall
  <2> HIDE DEF new
  <2>4. x \in Txn /\ x.jobs = {j} /\ \A i \in x.jobs : x.rows[i].status # "interrupted"
    BY <2>3, PendingIsTxn DEF Op
  <2>5. Begin(t, x)
    BY <2>1 DEF new
  <2> HIDE DEF x
  <2>6. QED
    BY <1>a, <2>4, <2>5
<1>2. ASSUME NEW t \in Thread, NEW j \in Job, RecordRead(t, j)
      PROVE  PendingOne'
  <2>1. PICK s \in Step, ok \in BOOLEAN, auto \in BOOLEAN :
               Begin(t, Pending("record", j, WithResult(row[j], s, ok, auto)))
    BY <1>2 DEF RecordRead
  <2>2. row[j] \in Row
    BY <1>2 DEF RecordRead, RecordAllowed, TypeOK, Table
  <2> DEFINE new == WithResult(row[j], s, ok, auto)
             x   == Pending("record", j, new)
  <2>3. new \in Row /\ new.status # "interrupted"
    BY <2>2, WithResultIsRow
  <2> HIDE DEF new
  <2>4. x \in Txn /\ x.jobs = {j} /\ \A i \in x.jobs : x.rows[i].status # "interrupted"
    BY <2>3, PendingIsTxn DEF Op
  <2>5. Begin(t, x)
    BY <2>1 DEF new
  <2> HIDE DEF x
  <2>6. QED
    BY <1>a, <2>4, <2>5
<1>3. ASSUME NEW t \in Thread, NEW j \in Job, CancelRead(t, j)
      PROVE  PendingOne'
  <2> DEFINE x == Pending("cancel", j, NoRow)
  <2>1. x \in Txn /\ x.op = "cancel" /\ x.jobs = {j}
    BY PendingIsTxn DEF Op
  <2>2. Begin(t, x)
    BY <1>3 DEF CancelRead
  <2> HIDE DEF x
  <2>3. QED
    BY <1>a, <2>1, <2>2
<1>4. ASSUME NEW t \in Thread, SweepSelect(t)
      PROVE  PendingOne'
  <2> DEFINE seen == { j \in Job : row[j] # NoRow /\ row[j].status \in Active }
             x == [op |-> "sweep", jobs |-> seen,
                   rows |-> [j \in Job |-> IF j \in seen THEN row[j] ELSE NoRow]]
  <2>1. x \in Txn /\ x.op = "sweep"
    BY DEF Txn, Op, TypeOK, Table
  <2>2. Begin(t, x)
    BY <1>4 DEF SweepSelect
  <2> HIDE DEF x
  <2>3. QED
    BY <1>a, <2>1, <2>2
<1>5. ASSUME NEW t \in Thread, Write(t)
      PROVE  PendingOne'
  <2>1. End(t)
    BY <1>5 DEF Write, UpdateWrite, RecordWrite, CancelWrite, SweepWrite
  <2>2. QED
    BY <2>1, IdleIsTxn DEF End, TypeOK, PendingOne
<1>6. ASSUME NEW p \in Proc, Die(p)
      PROVE  PendingOne'
  BY <1>6, IdleIsTxn DEF Die, PendingOne
<1>7. CASE UNCHANGED txn
  BY <1>7 DEF PendingOne
<1>8. QED
  BY <1>1, <1>2, <1>3, <1>4, <1>5, <1>6, <1>7
  DEF Next, Read, CreateJob, DeleteJob, Boot, vars

\* A step that changes the row of one job at most is a step of the abstract
\* specification when the status of that row moves as it allows.
MayFollow(a, b) ==
    \/ a = b
    \/ a \in Lifecycle!Final \union {"absent"} /\ b \in {"ready", "running"}
    \/ a \in Lifecycle!Going /\ b \in Lifecycle!Going
    \/ a \in Lifecycle!Going /\ b \in {"completed", "failed", "cancelled"}
    \/ a = "interrupted" /\ b = "cancelled"
    \/ b = "absent"

LEMMA OneRowStep ==
    ASSUME TypeOK, TypeOK', NEW j \in Job,
           \A i \in Job \ {j} : row'[i] = row[i],
           MayFollow(LifeOf(row[j]), LifeOf(row'[j]))
    PROVE  [Lifecycle!Next]_([i \in Job |-> LifeOf(row[i])])
<1> DEFINE a == [i \in Job |-> LifeOf(row[i])]
           b == [i \in Job |-> LifeOf(row'[i])]
<1>1. b = [a EXCEPT ![j] = LifeOf(row'[j])]
  OBVIOUS
<1>2. QED
  BY <1>1 DEF MayFollow, LifeOf, Lifecycle!Next, Lifecycle!Start, Lifecycle!Advance,
     Lifecycle!Finish, Lifecycle!Cancel, Lifecycle!Forget, Lifecycle!Becomes

LEMMA LifecycleStep ==
    ASSUME TypeOK, TypeOK', PendingRows, PendingOne, [Next]_vars
    PROVE  [Lifecycle!Next]_([i \in Job |-> LifeOf(row[i])])
<1> USE DEF LifeOf
<1>1. ASSUME NEW t \in Thread, NEW j \in Job, CreateJob(t, j)
      PROVE  MayFollow(LifeOf(row[j]), LifeOf(row'[j])) /\ \A i \in Job \ {j} : row'[i] = row[i]
  <2>1. PICK fresh \in Fresh(Home[t]) : row' = [row EXCEPT ![j] = Upsert(row[j], fresh)]
    BY <1>1 DEF CreateJob
  <2>2. fresh \in Row /\ fresh.status \in {"running", "ready"}
    BY FreshIsRow, StoreAssumption
  <2>3. row'[j] = Upsert(row[j], fresh) /\ \A i \in Job \ {j} : row'[i] = row[i]
    BY <2>1 DEF TypeOK, Table
  <2>4. QED
    BY <2>2, <2>3, NoRowAssumption DEF Upsert, MayFollow, Terminal, Lifecycle!Final
<1>2. ASSUME NEW t \in Thread, NEW j \in Job, DeleteJob(t, j)
      PROVE  MayFollow(LifeOf(row[j]), LifeOf(row'[j])) /\ \A i \in Job \ {j} : row'[i] = row[i]
  BY <1>2 DEF DeleteJob, TypeOK, Table, MayFollow
<1>3. ASSUME NEW t \in Thread, UpdateWrite(t) \/ RecordWrite(t) \/ CancelWrite(t)
      PROVE  \E j \in Job : /\ MayFollow(LifeOf(row[j]), LifeOf(row'[j]))
                            /\ \A i \in Job \ {j} : row'[i] = row[i]
  <2>1. PICK j \in Job : txn[t].jobs = {j}
    BY <1>3 DEF PendingOne, UpdateWrite, RecordWrite, CancelWrite
  <2>2. \A i \in Job \ {j} : row'[i] = row[i]
    BY <1>3, <2>1 DEF UpdateWrite, RecordWrite, CancelWrite
  <2> DEFINE new == txn[t].rows[j]
  <2>3. row[j] \in Row \union {NoRow}
    BY DEF TypeOK, Table
  <2>4. CASE UpdateWrite(t)
    <3>1. new \in Row /\ new.status # "interrupted" /\ row'[j] = UpdateRow(row[j], new)
      BY <2>1, <2>4 DEF UpdateWrite, PendingRows, PendingOne
    <3> HIDE DEF new
    <3>2. new.status \in Status \ {"interrupted"}
      BY <3>1 DEF Row
    <3>3. CASE UpdateAllowed(row[j], new.status)
      <4>1. row'[j] = new /\ row[j] # NoRow /\ row[j] \in Row /\ new # NoRow
        BY <2>3, <3>1, <3>3, NoRowAssumption DEF UpdateRow, UpdateAllowed
      <4>2. row[j].status \in Status
        BY <4>1 DEF Row
      <4>3. MayFollow(row[j].status, new.status)
        BY <3>2, <3>3, <4>2 DEF UpdateAllowed, MayFollow, Status, Terminal, Active,
           Lifecycle!Going
      <4>4. QED
        BY <2>2, <4>1, <4>3
    <3>4. CASE ~UpdateAllowed(row[j], new.status)
      BY <2>2, <3>1, <3>4 DEF UpdateRow, MayFollow
    <3>5. QED
      BY <3>3, <3>4
  <2>5. CASE RecordWrite(t)
    <3>1. new \in Row /\ new.status # "interrupted" /\ row'[j] = RecordRow(row[j], new)
      BY <2>1, <2>5 DEF RecordWrite, PendingRows, PendingOne
    <3> HIDE DEF new
    <3>2. new.status \in Status \ {"interrupted"}
      BY <3>1 DEF Row
    <3>3. CASE RecordAllowed(row[j])
      <4>1. row'[j] = RecordMerge(row[j], new) /\ row[j] # NoRow /\ row[j] \in Row
        BY <2>3, <3>1, <3>3 DEF RecordRow, RecordAllowed
      <4>2. row[j].status \in Status /\ row'[j].status = new.status /\ row'[j] \in Row
        BY <3>1, <4>1 DEF RecordMerge, Row
      <4>3. MayFollow(row[j].status, row'[j].status)
        BY <3>2, <3>3, <4>2 DEF RecordAllowed, MayFollow, Status, Terminal, Active,
           Lifecycle!Going
      <4>4. QED
        BY <2>2, <4>1, <4>2, <4>3, NoRowAssumption
    <3>4. CASE ~RecordAllowed(row[j])
      BY <2>2, <3>1, <3>4 DEF RecordRow, MayFollow
    <3>5. QED
      BY <3>3, <3>4
  <2>6. CASE CancelWrite(t)
    <3>1. row'[j] = CancelRow(row[j])
      BY <2>1, <2>6 DEF CancelWrite
    <3>2. CASE CancelAllowed(row[j])
      <4>1. /\ row[j] # NoRow /\ row[j] \in Row
            /\ row[j].status \in Status
            /\ row'[j] = [row[j] EXCEPT !.status = "cancelled"]
        BY <2>3, <3>1, <3>2 DEF CancelRow, CancelAllowed, Row
      <4>2. row'[j] \in Row /\ row'[j].status = "cancelled"
        BY <4>1 DEF Row, Status, Terminal
      <4>3. MayFollow(row[j].status, "cancelled")
        BY <3>2, <4>1 DEF CancelAllowed, MayFollow, Status, Terminal, Active,
           Lifecycle!Going
      <4>4. QED
        BY <2>2, <4>1, <4>2, <4>3, NoRowAssumption
    <3>3. CASE ~CancelAllowed(row[j])
      BY <2>2, <3>1, <3>3 DEF CancelRow, MayFollow
    <3>4. QED
      BY <3>2, <3>3
  <2>7. QED
    BY <1>3, <2>4, <2>5, <2>6
<1>4. ASSUME NEW t \in Thread, SweepWrite(t)
      PROVE  [Lifecycle!Next]_([i \in Job |-> LifeOf(row[i])])
  <2> DEFINE J == { j \in Job : LifeOf(row'[j]) # LifeOf(row[j]) }
  <2>1. \A j \in Job : row[j] \in Row \union {NoRow}
    BY DEF TypeOK, Table
  <2>2. \A j \in J : LifeOf(row[j]) # "absent" /\ LifeOf(row'[j]) = "interrupted"
    <3> SUFFICES ASSUME NEW j \in Job, LifeOf(row'[j]) # LifeOf(row[j])
                 PROVE  LifeOf(row[j]) # "absent" /\ LifeOf(row'[j]) = "interrupted"
      OBVIOUS
    <3>1. row[j] # NoRow /\ row'[j] = [row[j] EXCEPT !.status = "interrupted"]
      BY <1>4 DEF SweepWrite, SweepRow
    <3>2. row'[j] \in Row /\ row'[j].status = "interrupted"
      BY <2>1, <3>1 DEF Row, Status, Terminal
    <3>3. row[j].status \in Status
      BY <2>1, <3>1 DEF Row
    <3>4. QED
      BY <3>1, <3>2, <3>3, NoRowAssumption DEF Status, Terminal, Active
  <2> DEFINE a == [i \in Job |-> LifeOf(row[i])]
             b == [i \in Job |-> LifeOf(row'[i])]
  <2>3. /\ J \in SUBSET Job
        /\ \A j \in J : a[j] # "absent"
        /\ b = [j \in Job |-> IF j \in J THEN "interrupted" ELSE a[j]]
    BY <2>2
  <2> HIDE DEF J
  <2>4. \E K \in SUBSET Job :
           /\ \A j \in K : a[j] # "absent"
           /\ b = [j \in Job |-> IF j \in K THEN "interrupted" ELSE a[j]]
    BY <2>3
  <2>5. Lifecycle!Next
    BY <2>4 DEF Lifecycle!Next, Lifecycle!Reap
  <2>6. QED
    BY <2>5
<1>5. CASE UNCHANGED row
  BY <1>5
<1>6. QED
  BY <1>1, <1>2, <1>3, <1>4, <1>5, OneRowStep
  DEF Next, Read, Write, UpdateRead, RecordRead, CancelRead, SweepSelect, Boot, Die, vars

\* The rows of the racing processes go through the statuses that the abstract
\* table allows, and no others.
THEOREM Refinement == Spec => ImplementsLifecycle
<1>1. Init => Lifecycle!Init /\ PendingOne
  BY IdleIsTxn DEF Init, Nowhere, Lifecycle!Init, PendingOne
<1>2. TypeOK /\ TypeOK' /\ PendingRows /\ PendingOne /\ [Next]_vars
        => [Lifecycle!Next]_([j \in Job |-> IF row[j] = NoRow THEN "absent"
                                           ELSE row[j].status])
  BY LifecycleStep DEF LifeOf
<1>3. QED
  BY <1>1, <1>2, TypeCorrect, PendingOneStep, PTL
  DEF Spec, ImplementsLifecycle, Lifecycle!Spec

-----------------------------------------------------------------------------
(* One process: no result is lost *)

\* The threads belong to one server process.
OneProcess == \A p, q \in Proc : p = q

\* An operation that has read and has yet to write holds the lock of its process.
LockHeld == \A t \in Thread : txn[t].op # "idle" => lock[Home[t]] = t

\* What an operation is about to write has the results that the row has, or ends
\* the job.
CopyKeeps ==
    \A t \in Thread : txn[t].op \in {"update", "record"} =>
        \A j \in txn[t].jobs : row[j] # NoRow =>
            \/ Recorded(row[j].results) \subseteq Recorded(txn[t].rows[j].results)
            \/ txn[t].op = "update" /\ txn[t].rows[j].status \in Terminal

ResultsInv == LockHeld /\ CopyKeeps

\* A call of update_job that gives results is the last one.
LEMMA GivenIsFinal ==
    ASSUME NEW p \in Proc, NEW c \in UpdateCalls(p), c.given
    PROVE  c.status \in Terminal
BY DEF UpdateCalls, Sets, Finishes, Terminal

LEMMA UpdatedKeeps ==
    ASSUME NEW r \in Row, NEW p \in Proc, NEW c \in UpdateCalls(p)
    PROVE  Updated(r, c).results = r.results \/ Updated(r, c).status \in Terminal
<1>1. c \in Call
  BY UpdateCallsAreGood DEF GoodCall
<1>2. CASE c.given
  <2>1. c.status \in Terminal /\ c.status # "keep"
    BY <1>2, GivenIsFinal DEF Terminal
  <2> QED
    BY <1>1, <2>1, UpdatedIsRow DEF NewStatus
<1>3. CASE ~c.given
  <2>1. Updated(r, c).results = r.results
    BY <1>3 DEF Updated, Row
  <2> QED
    BY <2>1
<1> QED
  BY <1>2, <1>3

LEMMA WithResultKeeps ==
    ASSUME NEW r \in Row, NEW s \in Step, NEW ok \in BOOLEAN, NEW auto \in BOOLEAN
    PROVE  Recorded(r.results) \subseteq Recorded(WithResult(r, s, ok, auto).results)
<1> DEFINE res == [r.results EXCEPT ![s] = IF ok THEN "ok" ELSE "bad"]
<1>1. r.results \in [Step -> Outcome]
  BY DEF Row, Results
<1>2. Recorded(r.results) \subseteq Recorded(res)
  BY <1>1 DEF Recorded
<1>3. WithResult(r, s, ok, auto).results = res
  BY DEF WithResult, Row
<1> QED
  BY <1>2, <1>3

LEMMA InitResults == Init => ResultsInv
BY IdleIsTxn DEF Init, ResultsInv, LockHeld, CopyKeeps

\* Whoever enters, of the only process, finds nobody inside.
LEMMA AloneInside ==
    ASSUME OneProcess, LockHeld, StoreAssumption, NEW t \in Thread, CanEnter(t)
    PROVE  \A u \in Thread : txn[u].op = "idle"
BY DEF OneProcess, LockHeld, StoreAssumption, CanEnter

LEMMA BeginResults ==
    ASSUME OneProcess, TypeOK, ResultsInv, NEW t \in Thread, NEW x \in Txn, CanEnter(t), Begin(t, x),
           row' = row,
           x.op \in {"update", "record"} => \A j \in x.jobs : row[j] # NoRow =>
                \/ Recorded(row[j].results) \subseteq Recorded(x.rows[j].results)
                \/ x.op = "update" /\ x.rows[j].status \in Terminal
    PROVE  ResultsInv'
<1>1. \A u \in Thread : txn[u].op = "idle"
  BY AloneInside, StoreAssumption DEF ResultsInv
<1>2. /\ txn'[t] = x /\ lock'[Home[t]] = t
      /\ \A u \in Thread \ {t} : txn'[u] = txn[u]
  BY StoreAssumption DEF Begin, TypeOK
<1>3. LockHeld' /\ CopyKeeps'
  BY <1>1, <1>2 DEF LockHeld, CopyKeeps
<1> QED
  BY <1>3 DEF ResultsInv

LEMMA QuietResults ==
    ASSUME \A u \in Thread : txn'[u].op = "idle" PROVE ResultsInv'
BY DEF ResultsInv, LockHeld, CopyKeeps

LEMMA StepResults ==
    OneProcess /\ TypeOK /\ PendingRows /\ ResultsInv /\ [Next]_vars => ResultsInv'
<1> SUFFICES ASSUME OneProcess, TypeOK, PendingRows, ResultsInv, [Next]_vars PROVE ResultsInv'
  OBVIOUS
<1>1. ASSUME NEW t \in Thread, NEW j \in Job, CreateJob(t, j) \/ DeleteJob(t, j) PROVE ResultsInv'
  <2>1. CanEnter(t) /\ txn' = txn
    BY <1>1 DEF CreateJob, DeleteJob, Calls
  <2>2. \A u \in Thread : txn[u].op = "idle"
    BY <2>1, AloneInside, StoreAssumption DEF ResultsInv
  <2> QED
    BY <2>1, <2>2, QuietResults
<1>2. ASSUME NEW t \in Thread, NEW j \in Job, UpdateRead(t, j) PROVE ResultsInv'
  <2>1. PICK c \in UpdateCalls(Home[t]) :
               /\ UpdateAllowed(row[j], c.status)
               /\ Begin(t, Pending("update", j, Updated(row[j], c)))
    BY <1>2 DEF UpdateRead
  <2> DEFINE new == Updated(row[j], c)
             x   == Pending("update", j, new)
  <2>2. row[j] \in Row /\ new \in Row /\ Home[t] \in Proc
    BY <2>1, UpdatedIsRow, UpdateCallsAreGood, StoreAssumption
       DEF UpdateAllowed, TypeOK, Table, GoodCall
  <2>3. new.results = row[j].results \/ new.status \in Terminal
    BY <2>2, UpdatedKeeps
  <2> HIDE DEF new
  <2>4. x \in Txn /\ x.op = "update" /\ x.jobs = {j} /\ x.rows[j] = new
    BY <2>2, PendingIsTxn DEF Op
  <2>5. Begin(t, x) /\ CanEnter(t) /\ row' = row
    BY <1>2, <2>1 DEF new, UpdateRead, Calls
  <2> HIDE DEF x
  <2> QED
    BY <2>3, <2>4, <2>5, BeginResults
<1>3. ASSUME NEW t \in Thread, NEW j \in Job, RecordRead(t, j) PROVE ResultsInv'
  <2>1. PICK s \in Step, ok \in BOOLEAN, auto \in BOOLEAN :
               Begin(t, Pending("record", j, WithResult(row[j], s, ok, auto)))
    BY <1>3 DEF RecordRead
  <2> DEFINE new == WithResult(row[j], s, ok, auto)
             x   == Pending("record", j, new)
  <2>2. row[j] \in Row
    BY <1>3 DEF RecordRead, RecordAllowed, TypeOK, Table
  <2>3. new \in Row /\ Recorded(row[j].results) \subseteq Recorded(new.results)
    BY <2>2, WithResultIsRow, WithResultKeeps
  <2> HIDE DEF new
  <2>4. x \in Txn /\ x.op = "record" /\ x.jobs = {j} /\ x.rows[j] = new
    BY <2>3, PendingIsTxn DEF Op
  <2>5. Begin(t, x) /\ CanEnter(t) /\ row' = row
    BY <1>3, <2>1 DEF new, RecordRead, Calls
  <2> HIDE DEF x
  <2> QED
    BY <2>3, <2>4, <2>5, BeginResults
<1>4. ASSUME NEW t \in Thread, NEW j \in Job, CancelRead(t, j) PROVE ResultsInv'
  <2> DEFINE x == Pending("cancel", j, NoRow)
  <2>1. x \in Txn /\ x.op = "cancel"
    BY PendingIsTxn DEF Op
  <2>2. Begin(t, x) /\ CanEnter(t) /\ row' = row
    BY <1>4 DEF CancelRead, Calls
  <2> HIDE DEF x
  <2> QED
    BY <2>1, <2>2, BeginResults
<1>5. ASSUME NEW t \in Thread, SweepSelect(t) PROVE ResultsInv'
  <2> DEFINE seen == { j \in Job : row[j] # NoRow /\ row[j].status \in Active }
             x == [op |-> "sweep", jobs |-> seen,
                   rows |-> [j \in Job |-> IF j \in seen THEN row[j] ELSE NoRow]]
  <2>1. x \in Txn /\ x.op = "sweep"
    BY DEF Txn, Op, TypeOK, Table
  <2>2. Begin(t, x) /\ CanEnter(t) /\ row' = row
    BY <1>5 DEF SweepSelect
  <2> HIDE DEF x
  <2> QED
    BY <2>1, <2>2, BeginResults
<1>6. ASSUME NEW t \in Thread, Write(t) PROVE ResultsInv'
  <2>1. End(t) /\ txn[t].op # "idle"
    BY <1>6 DEF Write, UpdateWrite, RecordWrite, CancelWrite, SweepWrite
  <2>2. \A u \in Thread \ {t} : txn[u].op = "idle"
    BY <2>1, StoreAssumption DEF ResultsInv, LockHeld, OneProcess
  <2>3. \A u \in Thread : txn'[u].op = "idle"
    BY <2>1, <2>2, IdleIsTxn DEF End, TypeOK
  <2> QED
    BY <2>3, QuietResults
<1>7. ASSUME NEW p \in Proc, Die(p) PROVE ResultsInv'
  <2>1. \A u \in Thread : txn'[u].op = "idle"
    BY <1>7, IdleIsTxn, StoreAssumption DEF Die, OneProcess
  <2> QED
    BY <2>1, QuietResults
<1>8. CASE UNCHANGED <<row, txn, lock>>
  BY <1>8 DEF ResultsInv, LockHeld, CopyKeeps
<1> QED
  BY <1>1, <1>2, <1>3, <1>4, <1>5, <1>6, <1>7, <1>8 DEF Next, Read, Boot, vars

\* A job that goes on before and after a step keeps the results it has.
LEMMA KeepsResults ==
    ASSUME TypeOK, PendingRows, ResultsInv, [Next]_vars, NEW j \in Job,
           row[j] # NoRow, row[j].status \notin Terminal,
           row'[j] # NoRow, row'[j].status \notin Terminal
    PROVE  Recorded(row[j].results) \subseteq Recorded(row'[j].results)
<1>0. row[j] \in Row
  BY DEF TypeOK, Table
<1>1. ASSUME NEW t \in Thread, NEW i \in Job, CreateJob(t, i) \/ DeleteJob(t, i) PROVE row'[j] = row[j]
  BY <1>1 DEF CreateJob, DeleteJob, Upsert, TypeOK, Table
<1>2. ASSUME NEW t \in Thread, UpdateWrite(t)
      PROVE  Recorded(row[j].results) \subseteq Recorded(row'[j].results)
  <2>1. row'[j] = row[j] \/ (j \in txn[t].jobs /\ row'[j] = txn[t].rows[j])
    BY <1>2 DEF UpdateWrite, UpdateRow
  <2> QED
    BY <1>2, <2>1 DEF UpdateWrite, ResultsInv, CopyKeeps
<1>3. ASSUME NEW t \in Thread, RecordWrite(t)
      PROVE  Recorded(row[j].results) \subseteq Recorded(row'[j].results)
  <2>1. \/ row'[j] = row[j]
        \/ j \in txn[t].jobs /\ row'[j] = RecordMerge(row[j], txn[t].rows[j])
    BY <1>3 DEF RecordWrite, RecordRow
  <2>2. RecordMerge(row[j], txn[t].rows[j]).results = txn[t].rows[j].results
    BY <1>0 DEF RecordMerge, Row
  <2>3. txn[t].op = "record"
    BY <1>3 DEF RecordWrite
  <2>4. j \in txn[t].jobs =>
            Recorded(row[j].results) \subseteq Recorded(txn[t].rows[j].results)
    BY <2>3 DEF ResultsInv, CopyKeeps
  <2> QED
    BY <2>1, <2>2, <2>4
<1>4. ASSUME NEW t \in Thread, CancelWrite(t) \/ SweepWrite(t) PROVE row'[j].results = row[j].results
  <2>1. \/ row'[j] = row[j] \/ row'[j] = [row[j] EXCEPT !.status = "cancelled"]
        \/ row'[j] = [row[j] EXCEPT !.status = "interrupted"]
    BY <1>4 DEF CancelWrite, SweepWrite, CancelRow, SweepRow
  <2> QED
    BY <1>0, <2>1 DEF Row
<1>5. CASE row' = row
  BY <1>5
<1> QED
  BY <1>1, <1>2, <1>3, <1>4, <1>5
  DEF Next, Read, Write, UpdateRead, RecordRead, CancelRead, SweepSelect, Boot, Die, vars

\* Under one server process no number of threads loses a result of a job that
\* goes on: JobStore._lock covers the read and the write (job_ops.py).
THEOREM NoResultLost == ASSUME OneProcess PROVE Spec => ResultsKept
<1>1. Init => ResultsInv
  BY InitResults
<1>2. TypeOK /\ PendingRows /\ ResultsInv /\ [Next]_vars => ResultsInv'
  BY StepResults
<1>3. TypeOK /\ PendingRows /\ ResultsInv /\ [Next]_vars =>
        [\A j \in Job :
          (/\ row[j] # NoRow /\ row[j].status \notin Terminal
           /\ row'[j] # NoRow /\ row'[j].status \notin Terminal)
          => Recorded(row[j].results) \subseteq Recorded(row'[j].results)]_vars
  BY KeepsResults
<1> QED
  BY <1>1, <1>2, <1>3, TypeCorrect, PTL DEF Spec, ResultsKept
=============================================================================
