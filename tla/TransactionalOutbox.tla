------------------------ MODULE TransactionalOutbox ------------------------
(***************************************************************************)
(* The base outbox of pkg/outbox/transactional_outbox.go: the goroutines    *)
(* TransactionalOutbox.Start runs (EnhancedTransactionalOutbox embeds it     *)
(* and starts the same ones).                                               *)
(*                                                                         *)
(* Its workers read a batch without locking it, and write every status with *)
(* an UPDATE that names the id alone.  retry_count is read with the batch,   *)
(* counted in memory and written back.                                      *)
(***************************************************************************)
EXTENDS OutboxTable

CONSTANT BaseWorkers    \* the outbox's goroutines (OutboxConfig.WorkerCount)

ASSUME BaseWorkersAssumption == IsFiniteSet(BaseWorkers)

VARIABLES
    outbox,     \* "down", "running" or, from Stop until wg.Wait returns, "stopping"
    bpc,        \* what each goroutine does next
    entries,    \* the entries of its batch it has not finished
    entry,      \* the one it is processing, in a set of at most one
    seen        \* entry.RetryCount, as last read or counted by this goroutine

baseVars == <<outbox, bpc, entries, entry, seen>>

BaseTypeOK ==
    /\ outbox \in {"down", "running", "stopping"}
    /\ bpc \in [BaseWorkers -> {"off", "idle", "looping", "publishing", "published", "failed"}]
    /\ entries \in [BaseWorkers -> SUBSET Events]
    /\ entry \in [BaseWorkers -> SUBSET Events]
    /\ seen \in [BaseWorkers -> [Events -> Nat]]

NothingRead == [b \in BaseWorkers |-> [e \in Events |-> 0]]
NoEntries == [b \in BaseWorkers |-> {}]

BaseInit ==
    /\ outbox = "down"
    /\ bpc = [b \in BaseWorkers |-> "off"]
    /\ entries = NoEntries
    /\ entry = NoEntries
    /\ seen = NothingRead

----------------------------------------------------------------------------
StartOutbox ==
    /\ outbox = "down"
    /\ outbox' = "running"
    /\ bpc' = [b \in BaseWorkers |-> "idle"]
    /\ UNCHANGED <<entries, entry, seen, tableVars>>

StopOutbox ==
    /\ outbox = "running"
    /\ outbox' = "stopping"
    /\ UNCHANGED <<bpc, entries, entry, seen, tableVars>>

StopOutboxReturns ==
    /\ outbox = "stopping" /\ \A b \in BaseWorkers : bpc[b] = "off"
    /\ outbox' = "down"
    /\ UNCHANGED <<bpc, entries, entry, seen, tableVars>>

OutboxLost ==
    /\ outbox' = "down"
    /\ bpc' = [b \in BaseWorkers |-> "off"]
    /\ entries' = NoEntries /\ entry' = NoEntries /\ seen' = NothingRead

----------------------------------------------------------------------------
(* error_message is scanned into a Go string: one NULL in the batch and     *)
(* getPendingEntries returns an error, with no entry.                       *)
Scannable(S) == \A e \in S : rows[e].error_message # "null"

GetPendingEntries(b) ==
    /\ bpc[b] = "idle"
    /\ LET pending == Oldest(Eligible, BatchSize)
       IN  /\ pending # {} /\ Scannable(pending)
           /\ entries' = [entries EXCEPT ![b] = pending]
           /\ seen' = [seen EXCEPT ![b] =
                          [e \in Events |-> IF e \in pending THEN rows[e].retry_count ELSE 0]]
    /\ bpc' = [bpc EXCEPT ![b] = "looping"]
    /\ UNCHANGED <<outbox, entry, tableVars>>

\* updateEntryStatus: status = $1 beside CASE WHEN $1 = 'published'.
UpdateSucceeds(e, s) == ~Prepares /\ Succeeds(StatusUpdated(e, s))

UpdateErrs(e, s) ==
    \/ ~Prepares /\ Errs(StatusUpdated(e, s))
    \/ Prepares /\ Refused

\* The next entry is marked processing.  On an error the loop goes on without it.
ProcessEntry(b, e) ==
    /\ bpc[b] = "looping"
    /\ e \in Oldest(entries[b], 1)
    /\ entries' = [entries EXCEPT ![b] = @ \ {e}]
    /\ \/ /\ UpdateSucceeds(e, "processing")
          /\ bpc' = [bpc EXCEPT ![b] = "publishing"]
          /\ entry' = [entry EXCEPT ![b] = {e}]
       \/ /\ UpdateErrs(e, "processing")
          /\ UNCHANGED <<bpc, entry>>
    /\ UNCHANGED <<outbox, seen, committed, delivered>>

\* Mutant: the error of Publish is dropped.
PublishEntryIgnoresError(b, e) ==
    /\ bpc[b] = "publishing" /\ e \in entry[b]
    /\ PublishOk(e) \/ PublishErr(e)
    /\ bpc' = [bpc EXCEPT ![b] = "published"]
    /\ UNCHANGED <<outbox, entries, entry, seen, rows, committed, faults>>

PublishEntry(b, e) ==
    /\ bpc[b] = "publishing" /\ e \in entry[b]
    /\ \/ PublishOk(e) /\ bpc' = [bpc EXCEPT ![b] = "published"] /\ UNCHANGED seen
       \/ /\ PublishErr(e)
          /\ bpc' = [bpc EXCEPT ![b] = "failed"]
          /\ seen' = [seen EXCEPT ![b][e] = @ + 1]
    /\ UNCHANGED <<outbox, entries, entry, rows, committed, faults>>

UpdateEntryPublished(b, e) ==
    /\ bpc[b] = "published" /\ e \in entry[b]
    /\ \/ Succeeds(StatusUpdated(e, "published"))
       \/ Errs(StatusUpdated(e, "published"))
    /\ bpc' = [bpc EXCEPT ![b] = "looping"]
    /\ entry' = [entry EXCEPT ![b] = {}]
    /\ UNCHANGED <<outbox, entries, seen, committed, delivered>>

\* Mutant: out of retries, nothing is written.
FailureRowsUnwritten(b, e) ==
    IF seen[b][e] >= MaxRetries THEN rows ELSE UpdatedForRetry(e, seen[b][e])

\* What handlePublishFailure writes.  Out of retries, the row becomes failed with
\* the retry_count and next_retry_at it had.
FailureRows(b, e) ==
    IF seen[b][e] >= MaxRetries
    THEN StatusUpdated(e, "failed")
    ELSE UpdatedForRetry(e, seen[b][e])

HandlePublishFailure(b, e) ==
    /\ bpc[b] = "failed" /\ e \in entry[b]
    /\ Succeeds(FailureRows(b, e)) \/ Errs(FailureRows(b, e))
    /\ bpc' = [bpc EXCEPT ![b] = "looping"]
    /\ entry' = [entry EXCEPT ![b] = {}]
    /\ UNCHANGED <<outbox, entries, seen, committed, delivered>>

BatchEnds(b) ==
    /\ bpc[b] = "looping" /\ entries[b] = {}
    /\ bpc' = [bpc EXCEPT ![b] = "idle"]
    /\ seen' = [seen EXCEPT ![b] = [e \in Events |-> 0]]
    /\ UNCHANGED <<outbox, entries, entry, tableVars>>

OutboxLoopExits(b) ==
    /\ bpc[b] = "idle" /\ outbox = "stopping"
    /\ bpc' = [bpc EXCEPT ![b] = "off"]
    /\ UNCHANGED <<outbox, entries, entry, seen, tableVars>>

BaseStep(b) ==
    \/ GetPendingEntries(b)
    \/ \E e \in Events :
          \/ ProcessEntry(b, e)
          \/ PublishEntry(b, e)
          \/ UpdateEntryPublished(b, e)
          \/ HandlePublishFailure(b, e)
    \/ BatchEnds(b)
    \/ OutboxLoopExits(b)
============================================================================
