---------------------------- MODULE OutboxTable ----------------------------
(***************************************************************************)
(* The event_outbox table of pkg/outbox and the SQL statements run on it.   *)
(*                                                                         *)
(* Every statement is one action or one operator here: each runs in a       *)
(* transaction of its own (autocommit), so it is atomic and its row locks   *)
(* end with it.  The workers that issue the statements, and what happens    *)
(* between two of them, are in OutboxWorkers and TransactionalOutbox.       *)
(***************************************************************************)
EXTENDS Integers, FiniteSets

CONSTANTS
    Events,         \* entries that may be added, named in created_at order
    MaxRetries,     \* max_retries of every row (OutboxConfig.MaxRetries)
    BatchSize,      \* rows a fetch returns at most
    Driver,         \* the database/sql driver of the *sql.DB the outbox is given
    MaxDeliveries,  \* bound: deliveries of one entry are counted up to here
    MaxFaults       \* bound: process crashes and failed database calls

ASSUME EventsAssumption == Events \subseteq Nat /\ IsFiniteSet(Events)
ASSUME MaxRetriesAssumption == MaxRetries \in Nat \ {0}
ASSUME BatchSizeAssumption == BatchSize \in Nat \ {0}
ASSUME DriverAssumption == Driver \in {"pq", "pgx", "pgx_simple"}
ASSUME BoundsAssumption == MaxDeliveries \in Nat \ {0} /\ MaxFaults \in Nat

VARIABLES
    rows,       \* the table: event_outbox rows by id
    committed,  \* history: entries whose business transaction committed
    delivered,  \* history: how often the downstream system received an entry
    faults      \* crashes and failed database calls so far

tableVars == <<rows, committed, delivered, faults>>

(***************************************************************************)
(* A row keeps the columns the workers read or write.  next_retry_at is     *)
(* NULL, in the future or reached; error_message and published_at matter    *)
(* only as NULL or not.  "absent" is a row not inserted yet, or deleted.    *)
(***************************************************************************)
Statuses == {"pending", "processing", "published", "failed"}

Row == [status        : Statuses \cup {"absent"},
        retry_count   : Nat,
        next_retry_at : {"null", "later", "due"},
        error_message : {"null", "text"},
        published_at  : {"null", "set"}]

NoRow == [status |-> "absent", retry_count |-> 0, next_retry_at |-> "null",
          error_message |-> "null", published_at |-> "null"]

TableTypeOK ==
    /\ rows \in [Events -> Row]
    /\ committed \subseteq Events
    /\ delivered \in [Events -> 0 .. MaxDeliveries]
    /\ faults \in 0 .. MaxFaults

TableInit ==
    /\ rows = [e \in Events |-> NoRow]
    /\ committed = {}
    /\ delivered = [e \in Events |-> 0]
    /\ faults = 0

----------------------------------------------------------------------------
(* The statements, as functions of the table.                              *)

\* AddEvent: INSERT of a pending row, error_message and next_retry_at left NULL.
Insert(S) ==
    [e \in Events |-> IF e \in S THEN [NoRow EXCEPT !.status = "pending"] ELSE rows[e]]

\* Mutant: only new entries are fetched.
EligibleNoRetry == {e \in Events : rows[e].status = "pending"}

\* The WHERE clause both fetch queries share.
Eligible ==
    {e \in Events : \/ rows[e].status = "pending"
                    \/ rows[e].status = "failed" /\ rows[e].next_retry_at = "due"}

\* ORDER BY created_at ASC LIMIT n.
Oldest(S, n) == {e \in S : Cardinality({d \in S : d < e}) < n}

\* Mutant: no check of the status.
MarkedProcessingAny(S) ==
    [e \in Events |->
        IF e \in S /\ rows[e].status # "absent"
        THEN [rows[e] EXCEPT !.status = "processing"]
        ELSE rows[e]]

MarkedProcessing(S) ==
    [e \in Events |->
        IF e \in S /\ rows[e].status \in {"pending", "failed"}
        THEN [rows[e] EXCEPT !.status = "processing"]
        ELSE rows[e]]

MarkedPublished(S) ==
    [e \in Events |->
        IF e \in S /\ rows[e].status = "processing"
        THEN [rows[e] EXCEPT !.status = "published", !.published_at = "set",
                             !.error_message = "null"]
        ELSE rows[e]]

\* Mutants: one retry too many; a retry after every failure.
NextRetryAtOffByOne(count) == IF count < MaxRetries THEN "later" ELSE "null"

NextRetryAtAlways(count) == "later"

\* The CASE of the UPDATE: a time in the future while retries are left.
NextRetryAt(count) == IF count + 1 < MaxRetries THEN "later" ELSE "null"

\* Mutants: a row out of retries is left alone; failures are not counted; a row out
\* of retries is skipped.
MarkedFailedWithinBudget(S) ==
    [e \in Events |->
        IF e \in S /\ rows[e].status = "processing" /\ rows[e].retry_count + 1 < MaxRetries
        THEN [rows[e] EXCEPT !.status = "failed", !.retry_count = @ + 1,
                             !.next_retry_at = "later", !.error_message = "text"]
        ELSE rows[e]]

MarkedFailedUncounted(S) ==
    [e \in Events |->
        IF e \in S /\ rows[e].status = "processing"
        THEN [rows[e] EXCEPT !.status = "failed", !.error_message = "text",
                             !.next_retry_at = NextRetryAt(rows[e].retry_count)]
        ELSE rows[e]]

MarkedFailedSkips(S) ==
    [e \in Events |->
        IF e \in S /\ rows[e].status = "processing"
        THEN [rows[e] EXCEPT
                !.status = IF rows[e].retry_count + 1 < MaxRetries THEN "failed" ELSE "skipped",
                !.retry_count = @ + 1, !.error_message = "text",
                !.next_retry_at = NextRetryAt(rows[e].retry_count)]
        ELSE rows[e]]

MarkedFailed(S) ==
    [e \in Events |->
        IF e \in S /\ rows[e].status = "processing"
        THEN [rows[e] EXCEPT !.status        = "failed",
                             !.retry_count   = @ + 1,
                             !.next_retry_at = NextRetryAt(rows[e].retry_count),
                             !.error_message = "text"]
        ELSE rows[e]]

\* The two UPDATEs of the base outbox name only the id: no status is checked.
StatusUpdated(e, s) ==
    [d \in Events |->
        IF d = e /\ rows[e].status # "absent"
        THEN [rows[e] EXCEPT !.status = s, !.error_message = "text"]
        ELSE rows[d]]

UpdatedForRetry(e, count) ==
    [d \in Events |->
        IF d = e /\ rows[e].status # "absent"
        THEN [rows[e] EXCEPT !.status = "failed", !.retry_count = count,
                             !.next_retry_at = "later", !.error_message = "text"]
        ELSE rows[d]]

Deleted(S) == [e \in Events |-> IF e \in S THEN NoRow ELSE rows[e]]

----------------------------------------------------------------------------
(***************************************************************************)
(* A database call as its caller sees it: it takes effect and returns nil,  *)
(* or it returns an error, and then it may have taken effect or not (the    *)
(* connection can be lost before or after the statement ran).               *)
(***************************************************************************)
Succeeds(newRows) == rows' = newRows /\ UNCHANGED faults

Errs(newRows) ==
    /\ faults < MaxFaults
    /\ faults' = faults + 1
    /\ rows' \in {rows, newRows}

(***************************************************************************)
(* What the driver decides.  lib/pq refuses a []string argument that is not  *)
(* wrapped in pq.Array.  A prepared statement is refused if it compares a    *)
(* parameter with a literal and assigns it to a VARCHAR column: its type is  *)
(* inferred as TEXT and as VARCHAR.  pgx takes slices, and in its simple     *)
(* protocol it sends literals and prepares nothing.                          *)
(***************************************************************************)
TakesSlices == Driver # "pq"
Prepares == Driver # "pgx_simple"

Refused == UNCHANGED <<rows, faults>>

(***************************************************************************)
(* EventPublisher.Publish for one entry: it returns nil after the handover, *)
(* or an error, which a timeout can also produce after the handover.        *)
(***************************************************************************)
HandOver(e) ==
    delivered' = [delivered EXCEPT ![e] = IF @ < MaxDeliveries THEN @ + 1 ELSE @]

PublishOk(e) == HandOver(e)

PublishErr(e) == HandOver(e) \/ UNCHANGED delivered

----------------------------------------------------------------------------
(* Actions of the table's other clients and of the clock.                  *)

\* ExecuteWithOutbox: business data and the pending rows of its events commit together.
ExecuteWithOutbox(S) ==
    /\ S # {} /\ S \cap committed = {}
    /\ rows' = Insert(S)
    /\ committed' = committed \cup S
    /\ UNCHANGED <<delivered, faults>>

\* NOW() passes next_retry_at.
RetryTimeReached(e) ==
    /\ rows[e].next_retry_at = "later"
    /\ rows' = [rows EXCEPT ![e].next_retry_at = "due"]
    /\ UNCHANGED <<committed, delivered, faults>>

\* Mutant: failed rows are cleaned up as well.
CleanupFailedEventsToo(S) ==
    /\ S # {}
    /\ \A e \in S : rows[e].status \in {"published", "failed"}
    /\ rows' = Deleted(S)
    /\ UNCHANGED <<committed, delivered, faults>>

\* cleanup_processed_outbox_events: published_at is older than the retention period.
CleanupProcessedEvents(S) ==
    /\ S # {}
    /\ \A e \in S : rows[e].status = "published" /\ rows[e].published_at = "set"
    /\ rows' = Deleted(S)
    /\ UNCHANGED <<committed, delivered, faults>>

TableNext ==
    \/ \E S \in SUBSET Events : ExecuteWithOutbox(S) \/ CleanupProcessedEvents(S)
    \/ \E e \in Events : RetryTimeReached(e)

----------------------------------------------------------------------------
(* Where an entry stands, for the properties and the refinement mapping.    *)

\* The row records a delivery, or recorded it and was cleaned up.
Settled(e) == e \in committed /\ rows[e].status \in {"published", "absent"}

\* The dead-letter state of the SQL functions: failed, and no retry scheduled.
DeadLettered(e) == rows[e].status = "failed" /\ rows[e].next_retry_at = "null"
============================================================================
