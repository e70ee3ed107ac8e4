------------------------------ MODULE Outbox ------------------------------
(***************************************************************************)
(* The notification outbox (mcp/notification_store.py), its inbox tool     *)
(* (mcp/tools_notifications.py) and the retention of both tables.          *)
(*                                                                         *)
(* Each store call holds the lock for one step.  What follows it outside   *)
(* the lock - listing what is unread for critical.json, writing that file, *)
(* fetching the row again - are steps of their own, so calls of several    *)
(* threads interleave between them.                                        *)
(***************************************************************************)
EXTENDS Naturals, FiniteSets

CONSTANTS
    Note,         \* job|event|summary: what notif_id is a hash of
    Critical,     \* the notes of priority critical
    Asking,       \* a job's waiting_input notes, one set per job
    Letter,       \* rows of the messages table
    Caller,       \* threads that use the store
    ListLimit,    \* LIMIT of a listing
    NoNote        \* no note

ASSUME OutboxAssumption ==
    /\ Critical \subseteq Note
    /\ Asking \subseteq SUBSET Note
    /\ NoNote \notin Note
    /\ ListLimit \in Nat \ {0}

VARIABLES
    row,      \* row[n]: none, unread or read
    oldRow,   \* notes whose created_at is older than the retention
    mirror,   \* what critical.json lists
    call,     \* call[c]: what thread c does next, see Call
    letter,   \* letter[m]: pending, closed (and old), or gone
    archive,  \* letters with a line in the archive
    shown,    \* history: notes given to an agent
    answered, \* history: jobs that had a question closed, as their waiting_input notes
    crossed   \* history: rows changed, or the file failed, behind a listing's back

outboxVars == <<row, oldRow, mirror, call, letter, archive, shown, answered, crossed>>

\* what an agent may know of: it was given the note, or its job was answered
Seen == shown \union UNION answered

\* then: where the thread goes on once critical.json is written
Call == [ at    : {"idle", "gather", "write", "confirm", "list", "mark", "raised"},
          then  : {"idle", "confirm", "list"},
          note  : Note \union {NoNote},
          items : SUBSET Note ]

Idle == [at |-> "idle", then |-> "idle", note |-> NoNote, items |-> {}]

OutboxTypeOK ==
    /\ row     \in [Note -> {"none", "unread", "read"}]
    /\ oldRow  \subseteq Note
    /\ mirror  \subseteq Critical
    /\ call    \in [Caller -> Call]
    /\ letter  \in [Letter -> {"pending", "closed", "gone"}]
    /\ archive \subseteq Letter
    /\ shown   \subseteq Note
    /\ answered \subseteq Asking
    /\ crossed \in BOOLEAN

OutboxInit ==
    /\ row     = [n \in Note |-> "none"]
    /\ oldRow  = {}
    /\ mirror  = {}
    /\ call    = [c \in Caller |-> Idle]
    /\ letter  = [m \in Letter |-> "pending"]
    /\ archive = {}
    /\ shown   = {}
    /\ answered = {}
    /\ crossed = FALSE

Unread         == {n \in Note : row[n] = "unread"}
UnreadCritical == Unread \intersect Critical

\* the lists a SELECT ... ORDER BY created_at DESC LIMIT may return
Listings(S) == {T \in SUBSET S : \/ T = S /\ Cardinality(S) <= ListLimit
                                 \/ Cardinality(T) = ListLimit}

\* some thread has listed, and not yet written, the file
Pending(c) == \E d \in Caller \ {c} : call[d].at = "write"

Proceed(c, place) == call' = [call EXCEPT ![c] = [Idle EXCEPT !.at = place]]

\* Mutant: the file is written only when a notification is created.
LeaveMirror(c, next) == Proceed(c, next)

\* rewrite critical.json, then go on
Refresh(c, next) == call' = [call EXCEPT ![c] = [Idle EXCEPT !.at = "gather", !.then = next]]

---------------------------------------------------------------------------
\* create_notification: INSERT ... ON CONFLICT DO NOTHING, commit
Create(c, n) ==
    /\ call[c].at = "idle"
    /\ row'    = [row EXCEPT ![n] = IF @ = "none" THEN "unread" ELSE @]
    /\ oldRow' = IF row[n] = "none" THEN oldRow \ {n} ELSE oldRow
    /\ call'   = [call EXCEPT ![c] =
                    [Idle EXCEPT !.at   = IF n \in Critical THEN "gather" ELSE "confirm",
                                 !.then = "confirm", !.note = n]]
    /\ crossed' = (crossed \/ (n \in Critical /\ Pending(c)))
    /\ UNCHANGED <<mirror, letter, archive, shown, answered>>

\* create_notification: fetch the stored row; a missing one is an assertion error
Confirm(c) ==
    /\ call[c].at = "confirm"
    /\ IF row[call[c].note] = "none" THEN Proceed(c, "raised") ELSE Proceed(c, "idle")
    /\ UNCHANGED <<row, oldRow, mirror, letter, archive, shown, answered, crossed>>

\* _write_critical_fallback: what is unread and critical, read under the lock
Gather(c) ==
    /\ call[c].at = "gather"
    /\ \E T \in Listings(UnreadCritical) :
          call' = [call EXCEPT ![c].at = "write", ![c].items = T]
    /\ UNCHANGED <<row, oldRow, mirror, letter, archive, shown, answered, crossed>>

\* _write_critical_fallback: truncate and write, after the lock was released
WriteMirror(c) ==
    /\ call[c].at = "write"
    /\ \/ /\ mirror' = call[c].items
          /\ crossed' = (crossed \/ Pending(c))
       \/ /\ mirror' \in {mirror, {}}           \* OSError: not opened, or cut off
          /\ crossed' = TRUE
    /\ call' = [call EXCEPT ![c] = [Idle EXCEPT !.at = call[c].then, !.note = call[c].note]]
    /\ UNCHANGED <<row, oldRow, letter, archive, shown, answered>>

\* sweep_old_notifications, as loop_inbox calls it before it lists, or as the
\* retention hook calls it
Sweep(c, next) ==
    LET dead == {n \in oldRow : row[n] = "read"} IN
    /\ call[c].at = "idle"
    /\ row' = [n \in Note |-> IF n \in dead THEN "none" ELSE row[n]]
    /\ IF dead # {} THEN Refresh(c, next) ELSE Proceed(c, next)
    /\ UNCHANGED <<oldRow, mirror, letter, archive, shown, answered, crossed>>

\* loop_inbox: list, and go on to mark what was listed
ListInbox(c) ==
    /\ call[c].at = "list"
    /\ \E T \in Listings(Unread) :
          /\ shown' = shown \union T
          /\ \/ /\ T # {}                       \* mark_read
                /\ call' = [call EXCEPT ![c] = [Idle EXCEPT !.at = "mark", !.items = T]]
             \/ Proceed(c, "idle")              \* nothing listed, or mark_read is off
    /\ UNCHANGED <<row, oldRow, mirror, letter, archive, answered, crossed>>

\* Mutant: everything that is unread is marked, not what was listed.
MarkUnread(items) == Unread

MarkedBy(items) == {n \in items : row[n] = "unread"}

\* the rows become read; critical.json is rewritten if there was one
SetRead(c, items) ==
    LET marked == MarkedBy(items) IN
    /\ row' = [n \in Note |-> IF n \in marked THEN "read" ELSE row[n]]
    /\ IF marked # {} THEN Refresh(c, "idle") ELSE Proceed(c, "idle")
    /\ crossed' = (crossed \/ (marked \intersect Critical # {} /\ Pending(c)))
    /\ UNCHANGED <<oldRow, mirror, letter, archive>>

\* mark_notifications_read with the ids that were listed
MarkListed(c) ==
    /\ call[c].at = "mark"
    /\ SetRead(c, call[c].items)
    /\ UNCHANGED <<shown, answered>>

\* mark_job_notifications_read: a question of a job was closed, and every
\* waiting_input note of the job is marked, whichever question it asks
MarkAnswered(c, asking) ==
    /\ call[c].at = "idle" /\ asking \in Asking
    /\ answered' = answered \union {asking}
    /\ SetRead(c, asking)
    /\ UNCHANGED shown

\* a message is answered, cancelled or expired, and ages
CloseLetter(m) ==
    /\ letter[m] = "pending"
    /\ letter' = [letter EXCEPT ![m] = "closed"]
    /\ UNCHANGED <<row, oldRow, mirror, call, archive, shown, answered, crossed>>

\* sweep_old_messages: archive, then delete, under one lock
SweepLetters(c) ==
    LET old == {m \in Letter : letter[m] = "closed"} IN
    /\ call[c].at = "idle" /\ old # {}
    /\ \E S \in SUBSET old : archive' = archive \union S
    /\ \/ /\ old \subseteq archive'
          /\ letter' = [m \in Letter |-> IF m \in old THEN "gone" ELSE letter[m]]
       \/ UNCHANGED letter                      \* OSError, or the process died
    /\ UNCHANGED <<row, oldRow, mirror, call, shown, answered, crossed>>

\* external: time passes the retention of a row
Age(n) ==
    /\ row[n] # "none" /\ n \notin oldRow
    /\ oldRow' = oldRow \union {n}
    /\ UNCHANGED <<row, mirror, call, letter, archive, shown, answered, crossed>>

OutboxNext ==
    \/ \E c \in Caller :
          \/ \E n \in Note : Create(c, n)
          \/ \E asking \in Asking : MarkAnswered(c, asking)
          \/ Confirm(c) \/ Gather(c) \/ WriteMirror(c)
          \/ Sweep(c, "list") \/ Sweep(c, "idle")
          \/ ListInbox(c) \/ MarkListed(c) \/ SweepLetters(c)
    \/ \E n \in Note : Age(n)
    \/ \E m \in Letter : CloseLetter(m)

OutboxSpec == OutboxInit /\ [][OutboxNext]_outboxVars

---------------------------------------------------------------------------
\* A row is read, and so may be swept, only if an agent was given it or it asks
\* a question of a job one of whose questions was closed: nothing that arrives
\* between the listing and the marking of loop_inbox is lost unread, and closing a
\* question of one job takes nothing of another's, nor anything but questions.
\* (The question of the job's next human step, asked before the mark that follows
\* an answer, is taken with it.  A note that was given out, swept and created again
\* counts as given: two inbox calls around a sweep can mark it.)
ReadWasShown == \A n \in Note : row[n] = "read" => n \in Seen

\* An unread notification stays in the table until it is read: no sweep and no
\* repeated create takes it away, whatever the other threads do.
UnreadStays == [][\A n \in Note : row[n] = "unread" => row'[n] # "none"]_outboxVars

\* No message leaves the table unless the archive has it (sweep_old_messages).
ArchivedBeforeGone == \A m \in Letter : letter[m] = "gone" => m \in archive

AtRest == \A c \in Caller : call[c].at \notin {"gather", "write"}

\* When no call is under way critical.json lists what is unread and critical,
\* unless some row changed between another thread's listing and its writing.
MirrorExactUncrossed ==
    AtRest /\ ~crossed => mirror \in Listings(UnreadCritical)
=============================================================================
