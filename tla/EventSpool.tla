----------------------------- MODULE EventSpool -----------------------------
(***************************************************************************)
(* The file spool between the receiver of node events and the projections  *)
(* (backend/internal/zeroevent): numbered segment files written by one     *)
(* goroutine, read by a consumer that commits a checkpoint, cleaned,       *)
(* compacted and recovered after a crash.                                  *)
(*                                                                         *)
(* A record counts as one unit of a segment's size.  A checkpoint is the   *)
(* segment and the number of its records already consumed; that compressed *)
(* segments count records per block is left out, as compression keeps the  *)
(* records.  Files survive the process; what was not synced may not        *)
(* survive the loss of power.                                              *)
(***************************************************************************)
EXTENDS Integers, Sequences, FiniteSets

CONSTANTS
    MaxEvents,    \* bound: events ever submitted to Append
    MaxRecords,   \* Segment.MaxSize, in records
    MaxBatch,     \* Flush.MaxBatch
    ReadLimit,    \* the limit the consumer passes to ReadBatch
    MaxFailures,  \* bound: failing file operations and projections
    MaxStops,     \* bound: closes and stops of the process or the host
    Envelope,     \* what an event carries that compaction looks at
    NoKey,        \* the key of an event that is never superseded
    Faults        \* which of the steps named in AllFaults may be taken

(* Four steps of the code lead to the loss of acknowledged events.  The    *)
(* code is the instance with all of them; without some of them one sees    *)
(* what the others, or what everything else, can do.                       *)
(*   "renumber": a new segment gets a number at or below the checkpoint's; *)
(*   "skip":     a read passes over records written to the segment of its  *)
(*               snapshot after the snapshot was taken;                    *)
(*   "unsynced": a read returns records that were not synced;              *)
(*   "orphan":   a segment whose creation failed stays in the directory    *)
(*               and a restart may write to it after later segments.       *)
AllFaults == {"renumber", "skip", "unsynced", "orphan"}

ASSUME SpoolAssumption ==
    /\ {MaxEvents, MaxRecords, MaxBatch, ReadLimit} \subseteq Nat \ {0}
    /\ {MaxFailures, MaxStops} \subseteq Nat
    /\ \A e \in 1..MaxEvents : Envelope[e].sequence \in Nat
    /\ Faults \subseteq AllFaults

Events == 1..MaxEvents

VARIABLES
    disk,        \* the segment files, by number
    saved,       \* the checkpoint file
    up,          \* the process runs
    active,      \* the writer's open segment, 0 for none
    open,        \* the writer's file is open (a seal that fails closes it)
    todo,        \* the events of the writer's batch not yet written
    pending,     \* all the events of the writer's batch
    checkpoint,  \* the checkpoint in memory
    inflight,    \* inflightNext; Origin when hasInflight is false
    rpc,         \* where the consumer is in its loop
    snap,        \* the snapshot that ReadBatch obtained from the writer
    next,        \* Next of the batch the consumer holds
    held,        \* the events of that batch
    issued,      \* history: how many events were submitted
    acked,       \* history: events whose Append returned nil
    delivered,   \* history: events that were projected
    failures, stops

files == <<disk, saved>>
writerVars == <<active, open, todo, pending>>
readerVars == <<checkpoint, inflight, rpc, snap, next, held>>
history == <<issued, acked, delivered>>
vars == <<files, up, writerVars, readerVars, history, failures, stops>>

Origin == [segment |-> 0, record |-> 0]
At(s, i) == [segment |-> s, record |-> i]

checkpointLess(p, q) ==
    \/ p.segment < q.segment
    \/ p.segment = q.segment /\ p.record < q.record

Records(d, s) == d[s].records
IsActive(d, s) == d[s].kind = "active"

-----------------------------------------------------------------------------
(* Representation of the segments                                          *)

(* listSegments sorts by number, so the last one has the largest.          *)
NextSequence ==
    IF DOMAIN disk = {}
    THEN 1
    ELSE 1 + CHOOSE s \in DOMAIN disk : \A t \in DOMAIN disk : t <= s

EmptySegment == [kind |-> "active", records |-> <<>>, synced |-> 0]
WithSegment(d, s, segment) ==
    [t \in DOMAIN d \cup {s} |-> IF t = s THEN segment ELSE d[t]]

Sealed(segment) ==
    [segment EXCEPT !.kind = "ready", !.synced = Len(segment.records)]
Synced(segment) == [segment EXCEPT !.synced = Len(segment.records)]

(* Mutant: the segment of the checkpoint counts as consumed.               *)
CommittedUpTo(d, cp) == {s \in DOMAIN d : ~IsActive(d, s) /\ s <= cp.segment}

(* Segments that a checkpoint has consumed.  A checkpoint that claims more *)
(* records than its segment has is an error and deletes nothing there.     *)
Committed(d, cp) ==
    {s \in DOMAIN d :
        /\ ~IsActive(d, s)
        /\ \/ s < cp.segment
           \/ s = cp.segment /\ cp.record = Len(Records(d, s))}

(* The directory after a clean-up: retention spares segments by age unless *)
(* storage is short, so any part of the consumed segments may go.          *)
Cleanups(d, cp) ==
    {[s \in DOMAIN d \ gone |-> d[s]] : gone \in SUBSET Committed(d, cp)}

(* What a shortage of storage makes of the directory, in the background or *)
(* on the way of an append: reclaiming stops short of unconsumed records.  *)
Reclaimed == Cleanups(disk, checkpoint)

-----------------------------------------------------------------------------
(* Semantic compaction of one segment                                      *)

(* Events are numbered in the order they are written.                      *)
MixedLineage(es, e) ==
    \E f, g \in es :
        /\ Envelope[f].lineage = Envelope[e].lineage
        /\ Envelope[g].lineage = Envelope[e].lineage
        /\ Envelope[f].tag # Envelope[g].tag

SameKey(es, e) ==
    {f \in es : /\ Envelope[f].lineage = Envelope[e].lineage
                /\ Envelope[f].tag = Envelope[e].tag
                /\ Envelope[f].key = Envelope[e].key}

(* Two events of a key share the highest sequence seen up to the second.   *)
Conflicted(es) ==
    \E f, g \in es :
        /\ f < g
        /\ Envelope[f].sequence = Envelope[g].sequence
        /\ \A h \in es : h < g => Envelope[h].sequence <= Envelope[g].sequence

IsLatest(es, e) ==
    \A f \in es \ {e} :
        \/ Envelope[f].sequence < Envelope[e].sequence
        \/ Envelope[f].sequence = Envelope[e].sequence /\ e < f

Survives(es, e) ==
    \/ Envelope[e].key = NoKey
    \/ MixedLineage(es, e)
    \/ Conflicted(SameKey(es, e))
    \/ IsLatest(SameKey(es, e), e)

compactSemanticEvents(records) ==
    LET es == {records[i] : i \in 1..Len(records)}
        kept[i \in 0..Len(records)] ==
            IF i = 0 THEN <<>>
            ELSE IF Survives(es, records[i]) THEN Append(kept[i - 1], records[i])
            ELSE kept[i - 1]
    IN  kept[Len(records)]

Compacted(segment) ==
    LET survivors == compactSemanticEvents(segment.records)
    IN  [segment EXCEPT !.records = survivors, !.synced = Len(survivors)]

-----------------------------------------------------------------------------
Init ==
    /\ disk = <<>>
    /\ saved = Origin
    /\ up = FALSE
    /\ active = 0 /\ open = TRUE /\ todo = <<>> /\ pending = {}
    /\ checkpoint = Origin /\ inflight = Origin
    /\ rpc = "idle" /\ snap = Origin /\ next = Origin /\ held = {}
    /\ issued = 0 /\ acked = {} /\ delivered = {}
    /\ failures = 0 /\ stops = 0

-----------------------------------------------------------------------------
(* The writer                                                              *)

BatchAbandoned == todo' = <<>> /\ pending' = {}

Failing ==
    /\ failures < MaxFailures
    /\ failures' = failures + 1

(* handleAppendBatch collects the requests; writeBatch encodes them all    *)
(* and prepareAppend reclaims before the first write.                      *)
BeginBatch(n) ==
    /\ up /\ pending = {}
    /\ issued + n <= MaxEvents
    /\ issued' = issued + n
    /\ todo' = [i \in 1..n |-> issued + i]
    /\ pending' = issued + 1 .. issued + n
    /\ disk' \in Reclaimed
    /\ UNCHANGED <<saved, up, active, open, readerVars, acked, delivered, failures, stops>>

(* Mutant: one record too many fits.                                       *)
OverflowLate ==
    /\ todo # <<>>
    /\ active # 0 /\ open
    /\ Len(Records(disk, active)) > MaxRecords

(* The next record would not fit into the active segment.                  *)
Overflow ==
    /\ todo # <<>>
    /\ active # 0 /\ open
    /\ Len(Records(disk, active)) >= MaxRecords

(* An idle writer seals a segment that has grown old.                      *)
Aged ==
    /\ up /\ pending = {}
    /\ active # 0 /\ open
    /\ Records(disk, active) # <<>>

sealActive ==
    /\ Overflow \/ Aged
    /\ disk' = [disk EXCEPT ![active] = Sealed(@)]
    /\ active' = 0
    /\ UNCHANGED <<saved, up, open, todo, pending, readerVars, history, failures, stops>>

(* Closing, renaming or syncing the directory fails: the file is closed    *)
(* and the writer keeps pointing to it.                                    *)
SealFails ==
    /\ Overflow \/ Aged
    /\ \E kind \in {"active", "ready"} :
          disk' = [disk EXCEPT ![active] = [Sealed(@) EXCEPT !.kind = kind]]
    /\ open' = FALSE
    /\ BatchAbandoned
    /\ Failing
    /\ UNCHANGED <<saved, up, active, readerVars, history, stops>>

MayNumber(s) == "renumber" \in Faults \/ s > checkpoint.segment

createActiveSegment ==
    /\ todo # <<>> /\ active = 0
    /\ MayNumber(NextSequence)
    /\ disk' = WithSegment(disk, NextSequence, EmptySegment)
    /\ active' = NextSequence
    /\ UNCHANGED <<saved, up, open, todo, pending, readerVars, history, failures, stops>>

(* The directory cannot be synced: the new file stays, unused.             *)
CreateFails ==
    /\ "orphan" \in Faults
    /\ todo # <<>> /\ active = 0
    /\ MayNumber(NextSequence)
    /\ disk' = WithSegment(disk, NextSequence, EmptySegment)
    /\ BatchAbandoned
    /\ Failing
    /\ UNCHANGED <<saved, up, active, open, readerVars, history, stops>>

(* A full disk makes the writer clean up under way and try again.          *)
WriteRecord ==
    /\ todo # <<>> /\ active # 0 /\ open
    /\ ~Overflow
    /\ \E d \in Reclaimed :
          disk' = [d EXCEPT ![active].records = Append(@, Head(todo))]
    /\ todo' = Tail(todo)
    /\ UNCHANGED <<saved, up, active, open, pending, readerVars, history, failures, stops>>

(* Mutant: the requests are answered without the sync.                     *)
AnswerBatch ==
    /\ todo = <<>> /\ pending # {}
    /\ disk' \in Reclaimed
    /\ acked' = acked \cup pending
    /\ pending' = {}
    /\ UNCHANGED <<saved, up, active, open, todo, readerVars, issued, delivered, failures, stops>>

(* One sync makes the batch durable; every request is answered.            *)
SyncBatch ==
    /\ todo = <<>> /\ pending # {}
    /\ \E d \in Reclaimed :
          disk' = [d EXCEPT ![active] = Synced(@)]
    /\ acked' = acked \cup pending
    /\ pending' = {}
    /\ UNCHANGED <<saved, up, active, open, todo, readerVars, issued, delivered, failures, stops>>

(* A write (the partial record is truncated), a sync or a create fails:    *)
(* every request of the batch gets the error, what was written stays.      *)
AppendFails ==
    /\ pending # {}
    /\ IF open THEN Failing ELSE UNCHANGED failures
    /\ BatchAbandoned
    /\ UNCHANGED <<files, up, active, open, readerVars, history, stops>>

-----------------------------------------------------------------------------
(* The consumer                                                            *)

(* Mutant: without an active segment there is nothing to read.             *)
SnapshotOfActive ==
    /\ up /\ rpc = "idle" /\ pending = {}
    /\ active \in DOMAIN disk
    /\ snap' = At(active, Len(Records(disk, active)))
    /\ rpc' = "snapped"
    /\ UNCHANGED <<files, up, writerVars, checkpoint, inflight, next, held, history, failures, stops>>

(* ReadBatch asks the writer, which answers between two batches.           *)
Snapshot ==
    /\ up /\ rpc = "idle" /\ pending = {}
    /\ snap' = IF active \in DOMAIN disk
               THEN At(active, Len(Records(disk, active)))
               ELSE At(active, 0)
    /\ rpc' = "snapped"
    /\ UNCHANGED <<files, up, writerVars, checkpoint, inflight, next, held, history, failures, stops>>

(* It then lists the directory: the snapshot limits the segment it names,  *)
(* the other segments are read as long as they are.                        *)
Visible ==
    {p \in UNION {{At(s, i) : i \in 1..Len(Records(disk, s))} : s \in DOMAIN disk} :
        /\ checkpointLess(checkpoint, p)
        /\ p.segment = snap.segment => p.record <= snap.record}

Window(p) == {q \in Visible : ~checkpointLess(p, q)}

SkipsTail(p) ==
    /\ snap.segment \in DOMAIN disk
    /\ snap.segment < p.segment
    /\ snap.record < Len(Records(disk, snap.segment))

Unsynced(p) == p.record > disk[p.segment].synced

(* The number of events is limited, and so are their bytes.                *)
Readable ==
    {p \in Visible :
        /\ Cardinality(Window(p)) <= ReadLimit
        /\ "skip" \in Faults \/ ~SkipsTail(p)
        /\ "unsynced" \in Faults \/ ~Unsynced(p)}

(* A read may also be cancelled; one that could only take an excluded step *)
(* is.                                                                     *)
ReadNothing ==
    /\ rpc = "snapped" /\ Readable = {}
    /\ rpc' = "idle" /\ snap' = Origin
    /\ UNCHANGED <<files, up, writerVars, checkpoint, inflight, next, held, history, failures, stops>>

ReadBatch(p) ==
    /\ rpc = "snapped"
    /\ rpc' = "holding" /\ snap' = Origin
    /\ next' = p
    /\ held' = {Records(disk, q.segment)[q.record] : q \in Window(p)}
    /\ inflight' = IF checkpointLess(inflight, p) THEN p ELSE inflight
    /\ UNCHANGED <<files, up, writerVars, checkpoint, history, failures, stops>>

Released == rpc' = "idle" /\ next' = Origin /\ held' = {}

Project ==
    /\ rpc = "holding"
    /\ delivered' = delivered \cup held
    /\ rpc' = "projected"
    /\ UNCHANGED <<files, up, writerVars, checkpoint, inflight, snap, next, held, issued, acked, failures, stops>>

(* The consumer returns without a commit and will read the batch again.    *)
ProjectFails ==
    /\ rpc = "holding"
    /\ Failing
    /\ Released
    /\ UNCHANGED <<files, up, writerVars, checkpoint, inflight, snap, history, stops>>

(* Mutant: a checkpoint at the end of its segment is refused.              *)
validateBelow(cp) ==
    /\ cp.segment \in DOMAIN disk
    /\ cp.record < Len(Records(disk, cp.segment))

validateCheckpoint(cp) ==
    /\ cp.segment \in DOMAIN disk
    /\ cp.record <= Len(Records(disk, cp.segment))

Acceptable(cp) == ~checkpointLess(cp, checkpoint) /\ validateCheckpoint(cp)

Commit ==
    /\ rpc = "projected"
    /\ IF Acceptable(next)
       THEN /\ saved' = next
            /\ checkpoint' = next
            /\ inflight' = IF checkpointLess(next, inflight) THEN inflight ELSE Origin
            /\ disk' \in Cleanups(disk, next)
       ELSE UNCHANGED <<files, checkpoint, inflight>>
    /\ Released
    /\ UNCHANGED <<up, writerVars, snap, history, failures, stops>>

(* The checkpoint file cannot be written, or only its directory cannot be  *)
(* synced: the file is the new one then, and memory keeps the old.         *)
CommitFails ==
    /\ rpc = "projected"
    /\ Acceptable(next)
    /\ saved' \in {saved, next}
    /\ Released
    /\ Failing
    /\ UNCHANGED <<disk, up, writerVars, checkpoint, inflight, snap, history, stops>>

-----------------------------------------------------------------------------
(* Maintenance                                                             *)

maintainStorage ==
    /\ up
    /\ disk' \in Reclaimed \ {disk}
    /\ UNCHANGED <<saved, up, writerVars, readerVars, history, failures, stops>>

(* Mutant: batches that were read and not committed are forgotten.         *)
HorizonCommitted == checkpoint.segment

(* Segments up to here hold records that a consumer may have read.         *)
Horizon == IF checkpoint.segment < inflight.segment
           THEN inflight.segment ELSE checkpoint.segment

(* Compact holds readMu, which ReadBatch keeps from snapshot to list.  It  *)
(* goes through the sealed segments in order and may stop after any.       *)
Compact(last) ==
    /\ up /\ rpc # "snapped"
    /\ disk' = [s \in DOMAIN disk |->
                  IF ~IsActive(disk, s) /\ Horizon < s /\ s <= last
                  THEN Compacted(disk[s]) ELSE disk[s]]
    /\ disk' # disk
    /\ UNCHANGED <<saved, up, writerVars, readerVars, history, failures, stops>>

-----------------------------------------------------------------------------
(* The process                                                             *)

Stopping ==
    /\ stops < MaxStops
    /\ stops' = stops + 1
    /\ up' = FALSE
    /\ active' = 0 /\ open' = TRUE /\ todo' = <<>> /\ pending' = {}
    /\ checkpoint' = saved /\ inflight' = Origin
    /\ rpc' = "idle" /\ snap' = Origin /\ next' = Origin /\ held' = {}
    /\ UNCHANGED <<saved, history, failures>>

Close ==
    /\ up /\ pending = {}
    /\ disk' = IF active # 0 /\ open
               THEN [disk EXCEPT ![active] = Synced(@)] ELSE disk
    /\ Stopping

ProcessCrash == up /\ Stopping /\ UNCHANGED disk

(* Of the records that were not synced any prefix is left, and a torn      *)
(* record that recovery will truncate.                                     *)
PowerLoss ==
    /\ Stopping
    /\ \E cut \in [DOMAIN disk -> 0..MaxRecords] :
          /\ \A s \in DOMAIN disk : disk[s].synced <= cut[s] /\ cut[s] <= Len(Records(disk, s))
          /\ disk' = [s \in DOMAIN disk |->
                        [disk[s] EXCEPT !.records = SubSeq(@, 1, cut[s]), !.synced = cut[s]]]

(* recoverSegments keeps the last active segment open and seals the        *)
(* others without syncing them.                                            *)
LastActive(d) ==
    IF \E s \in DOMAIN d : IsActive(d, s)
    THEN CHOOSE s \in DOMAIN d :
            IsActive(d, s) /\ \A t \in DOMAIN d : IsActive(d, t) => t <= s
    ELSE 0

Recovered(d) ==
    [s \in DOMAIN d |->
        IF IsActive(d, s) /\ s # LastActive(d) THEN [d[s] EXCEPT !.kind = "ready"] ELSE d[s]]

Start ==
    /\ ~up
    /\ up' = TRUE
    /\ checkpoint' = saved
    /\ active' = LastActive(disk)
    /\ disk' = Recovered(disk)
    /\ UNCHANGED <<saved, open, todo, pending, inflight, rpc, snap, next, held, history, failures, stops>>

Next ==
    \/ \E n \in 1..MaxBatch : BeginBatch(n)
    \/ sealActive \/ SealFails
    \/ createActiveSegment \/ CreateFails
    \/ WriteRecord \/ SyncBatch \/ AppendFails
    \/ Snapshot \/ ReadNothing
    \/ \E p \in Readable : ReadBatch(p)
    \/ Project \/ ProjectFails \/ Commit \/ CommitFails
    \/ maintainStorage
    \/ \E last \in DOMAIN disk : Compact(last)
    \/ Close \/ ProcessCrash \/ PowerLoss \/ Start

Spec == Init /\ [][Next]_vars

-----------------------------------------------------------------------------
(* The consumer's loop (zero_event_runtime.go) keeps reading, projecting   *)
(* and committing; the writer's loop finishes the batch it has begun; a    *)
(* stopped process is started again.                                       *)
Writing == sealActive \/ createActiveSegment \/ WriteRecord \/ SyncBatch \/ AppendFails
Reading == ReadNothing \/ \E p \in Readable : ReadBatch(p)

FairSpec ==
    /\ Spec
    /\ WF_vars(Start)
    /\ WF_vars(pending # {} /\ Writing)
    /\ WF_vars(Snapshot) /\ WF_vars(Reading)
    /\ WF_vars(Project) /\ WF_vars(Commit)

-----------------------------------------------------------------------------
(* Properties                                                              *)

Checkpoints == [segment : Nat, record : Nat]
Segment == [kind : {"active", "ready"}, records : Seq(Events), synced : Nat]

(* Types; no segment holds more than Segment.MaxSize, whatever is sealed,  *)
(* recovered or reopened (writeBatch).                                     *)
TypeOK ==
    /\ DOMAIN disk \subseteq Nat \ {0}
    /\ \A s \in DOMAIN disk :
          /\ disk[s] \in Segment
          /\ Len(Records(disk, s)) <= MaxRecords
          /\ disk[s].synced <= Len(Records(disk, s))
    /\ {saved, checkpoint, inflight, snap, next} \subseteq Checkpoints
    /\ {up, open} \subseteq BOOLEAN
    /\ active \in Nat
    /\ todo \in Seq(Events)
    /\ rpc \in {"idle", "snapped", "holding", "projected"}
    /\ issued \in 0..MaxEvents
    /\ {pending, held, acked, delivered} \subseteq SUBSET Events
    /\ failures \in 0..MaxFailures /\ stops \in 0..MaxStops

(* Later samples of the same key.                                          *)
Superseding(e) ==
    {f \in Events :
        /\ Envelope[e].key # NoKey
        /\ e \in SameKey({e}, f)
        /\ Envelope[e].sequence < Envelope[f].sequence}

(* On disk, synced, and after the checkpoint that a restart would load.    *)
Recoverable(e) ==
    \E s \in DOMAIN disk : \E i \in 1..disk[s].synced :
        Records(disk, s)[i] = e /\ checkpointLess(saved, At(s, i))

(* The promise of Append: an event it acknowledged has been projected, or  *)
(* will be read even if the host loses power now, or a later sample of the *)
(* same key takes its place.                                               *)
AcknowledgedKept ==
    \A e \in acked : \E f \in {e} \cup Superseding(e) : f \in delivered \/ Recoverable(f)

(* The records after lo and up to hi.                                      *)
Positions(lo, hi) ==
    {p \in UNION {{At(s, i) : i \in 1..Len(Records(disk, s))} : s \in DOMAIN disk} :
        checkpointLess(lo, p) /\ ~checkpointLess(hi, p)}
EventsAt(positions) == {Records(disk, p.segment)[p.record] : p \in positions}

HoldsBatch == rpc \in {"holding", "projected"}

(* Until the consumer lets go of a batch, its Next covers exactly the      *)
(* events it was given: nothing is sealed, cleaned, compacted or appended  *)
(* so that Commit would pass over an event that was not read.              *)
CommitExact == HoldsBatch => held = EventsAt(Positions(checkpoint, next))

(* What a consumer has read and not committed stays in the files, where a  *)
(* restart finds it again: clean-up and compaction keep away from it.      *)
BatchIntact == HoldsBatch => held \subseteq EventsAt(Positions(checkpoint, next))

(* The checkpoint of a batch that was projected is never refused by        *)
(* Commit: the consumer would project the same batch over and over.        *)
CommitAccepted == rpc = "projected" => Acceptable(next)

(* "durable active offset" (ReadBatch): what is read has been synced.  The *)
(* code does not keep this (README, observations).                         *)
ReadsDurable ==
    HoldsBatch =>
        held \subseteq EventsAt({p \in Positions(Origin, next) : p.record <= disk[p.segment].synced})

(* Every acknowledged event, or a sample that replaces it, is projected    *)
(* in the end (consumeZeroEventBatchMeasured), across restarts.            *)
EventuallyDelivered ==
    \A e \in Events :
        e \in acked ~> \E f \in {e} \cup Superseding(e) : f \in delivered
=============================================================================
