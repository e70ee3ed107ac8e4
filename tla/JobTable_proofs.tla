-------------------------- MODULE JobTable_proofs --------------------------
(***************************************************************************)
(* Lemmas about the operators of JobTable, which JobStore and              *)
(* DetachedRunner share: each returns a row, and what that row keeps.      *)
(***************************************************************************)
EXTENDS JobTable, TLAPS

LEMMA EmptyIsResults == Empty \in Results
BY DEF Empty, Results, Outcome

LEMMA FreshRowIsRow ==
    ASSUME NEW st \in {"running", "ready"}, NEW n \in Nat,
           NEW o \in Proc \union {NoPid}, NEW a \in BOOLEAN
    PROVE  /\ FreshRow(st, n, o, a) \in Row
           /\ ~FreshRow(st, n, o, a).stamped
           /\ FreshRow(st, n, o, a).status = st
BY EmptyIsResults DEF FreshRow, Row, Status, Active, Terminal

\* The copy update_job mutates is a row; it is stamped when the row was or
\* when the call says completed.
LEMMA UpdatedIsRow ==
    ASSUME NEW r \in Row, NEW c \in Call
    PROVE  /\ Updated(r, c) \in Row
           /\ Updated(r, c).status = NewStatus(r, c)
           /\ Updated(r, c).stamped = (r.stamped \/ c.completed)
           /\ ~c.metrics => Updated(r, c).owner = r.owner
<1> DEFINE res == IF c.given THEN c.results ELSE r.results
           own == IF c.metrics THEN c.owner ELSE r.owner
           agt == IF c.metrics THEN FALSE ELSE r.agent
           stp == r.stamped \/ c.completed
<1>1. r.status \in Status /\ r.stamped \in BOOLEAN /\ r.total \in Nat
  BY DEF Row
<1>2. res \in Results /\ own \in Proc \union {NoPid} /\ agt \in BOOLEAN /\ stp \in BOOLEAN
  BY DEF Row, Call
<1>3. NewStatus(r, c) \in Status
  BY <1>1 DEF NewStatus, Call, Status, Terminal
<1>4. Updated(r, c) = [ r EXCEPT !.status = NewStatus(r, c), !.results = res,
                                 !.owner = own, !.agent = agt, !.stamped = stp ]
  BY DEF Updated
<1> HIDE DEF res, own, agt, stp
<1>5. /\ Updated(r, c) \in Row
      /\ Updated(r, c).status = NewStatus(r, c)
      /\ Updated(r, c).stamped = stp
      /\ Updated(r, c).owner = own
  BY <1>1, <1>2, <1>3, <1>4 DEF Row
<1>6. QED
  BY <1>5 DEF stp, own

\* The copy record_step_result mutates is a row, still going or completed.
LEMMA WithResultIsRow ==
    ASSUME NEW r \in Row, NEW s \in Step, NEW ok \in BOOLEAN, NEW auto \in BOOLEAN
    PROVE  /\ WithResult(r, s, ok, auto) \in Row
           /\ WithResult(r, s, ok, auto).status \in {"in_progress", "error", "completed"}
           /\ WithResult(r, s, ok, auto).stamped
                = (r.stamped \/ WithResult(r, s, ok, auto).status = "completed")
           /\ ~auto => WithResult(r, s, ok, auto).status = "in_progress"
<1> DEFINE res == [r.results EXCEPT ![s] = IF ok THEN "ok" ELSE "bad"]
           st  == RecordStatus(r, res, auto)
<1>1. res \in Results
  BY DEF Row, Results, Outcome
<1>2. st \in {"in_progress", "error", "completed"} /\ (~auto => st = "in_progress")
  <2> DEFINE f == Failed(res) # {}
             g == Covered(r, res, auto)
  <2>1. (f \/ ~f) /\ (g \/ ~g)
    OBVIOUS
  <2>2. QED
    BY <2>1 DEF RecordStatus, Covered
<1> DEFINE stp == r.stamped \/ st = "completed"
<1>3. WithResult(r, s, ok, auto) =
        [r EXCEPT !.results = res, !.status = st, !.stamped = stp]
  BY DEF WithResult
<1>4. stp \in BOOLEAN /\ st \in Status /\ r.total \in Nat
      /\ r.owner \in Proc \union {NoPid} /\ r.agent \in BOOLEAN
  BY <1>2 DEF Row, Status, Active, Terminal
<1> HIDE DEF res, st, stp
<1>5. /\ WithResult(r, s, ok, auto) \in Row
      /\ WithResult(r, s, ok, auto).status = st
      /\ WithResult(r, s, ok, auto).stamped = stp
  BY <1>1, <1>3, <1>4 DEF Row
<1>6. QED
  BY <1>2, <1>5 DEF stp

\* Without auto_complete a result leaves the job in progress.
LEMMA WithResultGoesOn ==
    ASSUME NEW r \in Row, NEW s \in Step, NEW ok \in BOOLEAN
    PROVE  /\ WithResult(r, s, ok, FALSE) \in Row
           /\ WithResult(r, s, ok, FALSE).status = "in_progress"
<1> DEFINE auto == FALSE
<1>2. auto \in BOOLEAN /\ ~auto
  OBVIOUS
<1> HIDE DEF auto
<1>3. WithResult(r, s, ok, auto) \in Row /\ WithResult(r, s, ok, auto).status = "in_progress"
  BY <1>2, WithResultIsRow
<1> QED
  BY <1>3 DEF auto

\* Writing back the columns of a step result keeps the rest of the row.
LEMMA RecordMergeIsRow ==
    ASSUME NEW r \in Row, NEW new \in Row
    PROVE  /\ RecordMerge(r, new) \in Row
           /\ RecordMerge(r, new).status = new.status
           /\ RecordMerge(r, new).owner = r.owner
BY DEF RecordMerge, Row

\* An upsert writes the fresh row, or leaves a row that is still going.
LEMMA UpsertIsRow ==
    ASSUME NEW r \in Row \union {NoRow}, NEW fresh \in Row
    PROVE  /\ Upsert(r, fresh) \in Row
           /\ r = NoRow => Upsert(r, fresh) = fresh
BY DEF Upsert
=============================================================================
