-------------------------- MODULE EventSpoolProofs --------------------------
(***************************************************************************)
(* Safety proofs for the event spool, for any number of events, failures   *)
(* and stops, and for segments, batches and reads of any size.  What holds *)
(* of the code as it is, with all the faults, comes first; then what holds *)
(* without some of them; last the promise of Append without any.           *)
(***************************************************************************)
EXTENDS EventSpool, WellFoundedInduction, TLAPS

-----------------------------------------------------------------------------
(* The inductive invariants                                                *)

(* There is a last segment.                                                *)
Bounded(d) == \E n \in Nat : \A s \in DOMAIN d : s <= n

(* A process that does not run has nothing in memory.                      *)
Asleep ==
    ~up => /\ rpc = "idle" /\ active = 0 /\ todo = <<>> /\ pending = {}
           /\ checkpoint = saved /\ inflight = Origin

(* The batch of a consumer lies between the checkpoint and the horizon.    *)
BatchKept ==
    HoldsBatch => /\ checkpointLess(checkpoint, next)
                  /\ ~checkpointLess(inflight, next)
                  /\ next.segment \in DOMAIN disk
                  /\ next.record \in 1..Len(Records(disk, next.segment))

(* The writer appends to an active segment.                                *)
WriterOpen == active # 0 /\ open => active \in DOMAIN disk /\ IsActive(disk, active)

(* An active segment is the last one, and the writer's if there is one.    *)
ActiveLast ==
    \A s \in DOMAIN disk : IsActive(disk, s) =>
        /\ \A t \in DOMAIN disk : t <= s
        /\ up => s = active

(* The checkpoint file is at or past the checkpoint in memory; what it     *)
(* consumed is durable, and the next record will lie after it.             *)
SavedAhead ==
    /\ ~checkpointLess(saved, checkpoint)
    /\ saved = checkpoint \/ (saved.segment \in DOMAIN disk /\ ~checkpointLess(inflight, saved))
    /\ \A s \in DOMAIN disk : IsActive(disk, s) => saved.segment <= s
    /\ saved.segment \in DOMAIN disk => saved.record <= disk[saved.segment].synced
    /\ HoldsBatch => next.record <= disk[next.segment].synced
    /\ rpc = "projected" => held \subseteq delivered

(* The event is in the files after the checkpoint, durable or about to be. *)
Written(e) ==
    \E s \in DOMAIN disk : \E i \in 1..Len(Records(disk, s)) :
        /\ Records(disk, s)[i] = e
        /\ checkpointLess(saved, At(s, i))
        /\ i <= disk[s].synced \/ s = active

Waiting(e) == \E i \in 1..Len(todo) : todo[i] = e

PendingKept ==
    \A e \in pending :
        Waiting(e) \/ \E f \in {e} \cup Superseding(e) : f \in delivered \/ Written(f)

-----------------------------------------------------------------------------
(* Naturals, checkpoints and segments                                      *)

LEMMA Bounds ==
    /\ MaxEvents \in Nat /\ MaxRecords \in Nat /\ MaxBatch \in Nat /\ ReadLimit \in Nat
    /\ MaxFailures \in Nat /\ MaxStops \in Nat
    /\ \A e \in Events : Envelope[e].sequence \in Nat
BY SpoolAssumption DEF Events

LEMMA LeastNat ==
  ASSUME NEW B \in SUBSET Nat, B # {}
  PROVE  \E m \in B : \A n \in B : m <= n
<1>1. PICK m \in B : \A n \in B : ~ (<<n, m>> \in OpToRel(<, Nat))
  BY NatLessThanWellFounded, WFMin, Zenon
<1>2. \A n \in B : ~ (n < m)
  BY <1>1 DEF OpToRel
<1> QED BY <1>2

(* A bounded set of naturals has a largest element.                        *)
LEMMA GreatestNat ==
  ASSUME NEW B \in SUBSET Nat, B # {}, NEW b \in Nat, \A n \in B : n <= b
  PROVE  \E m \in B : \A n \in B : n <= m
<1> DEFINE U == {u \in Nat : \A n \in B : n <= u}
<1>1. U \in SUBSET Nat /\ b \in U
  OBVIOUS
<1>2. PICK m \in U : \A u \in U : m <= u
  BY <1>1, LeastNat
<1>3. m \in B
  <2> SUFFICES ASSUME m \notin B PROVE FALSE
    OBVIOUS
  <2>1. PICK x \in B : TRUE
    OBVIOUS
  <2>2. \A n \in B : n \in Nat /\ n <= m /\ n # m
    BY <1>2
  <2>3. m - 1 \in Nat
    BY <2>1, <2>2, <1>2
  <2>4. m - 1 \in U
    BY <2>2, <2>3, <1>2
  <2> QED BY <2>4, <1>2
<1> QED BY <1>2, <1>3

LEMMA CheckpointFields ==
  ASSUME NEW p \in Checkpoints PROVE p.segment \in Nat /\ p.record \in Nat
BY DEF Checkpoints

LEMMA OriginType == Origin \in Checkpoints
BY DEF Origin, Checkpoints

LEMMA AtType ==
  ASSUME NEW s \in Nat, NEW i \in Nat
  PROVE  At(s, i) \in Checkpoints /\ At(s, i).segment = s /\ At(s, i).record = i
BY DEF At, Checkpoints

(* checkpointLess is a strict total order.                                 *)
LEMMA LessOrder ==
  ASSUME NEW p \in Checkpoints, NEW q \in Checkpoints, NEW r \in Checkpoints
  PROVE  /\ ~checkpointLess(p, p)
         /\ checkpointLess(p, q) => ~checkpointLess(q, p)
         /\ checkpointLess(p, q) /\ checkpointLess(q, r) => checkpointLess(p, r)
         /\ checkpointLess(p, q) /\ ~checkpointLess(r, q) => checkpointLess(p, r)
         /\ ~checkpointLess(q, p) /\ checkpointLess(q, r) => checkpointLess(p, r)
         /\ ~checkpointLess(q, p) /\ ~checkpointLess(r, q) => ~checkpointLess(r, p)
         /\ checkpointLess(p, q) => ~checkpointLess(q, p) /\ p.segment <= q.segment
         /\ ~checkpointLess(p, q) => q.segment <= p.segment
         /\ ~checkpointLess(p, q) /\ ~checkpointLess(q, p) => p = q
<1>1. /\ p.segment \in Nat /\ p.record \in Nat /\ q.segment \in Nat /\ q.record \in Nat
      /\ r.segment \in Nat /\ r.record \in Nat
  BY CheckpointFields
<1>2. p.segment = q.segment /\ p.record = q.record => p = q
  BY DEF Checkpoints
<1> QED BY <1>1, <1>2 DEF checkpointLess

SegmentOK(x) ==
    /\ x \in Segment
    /\ Len(x.records) <= MaxRecords
    /\ x.synced <= Len(x.records)

Files(d) ==
    /\ DOMAIN d \subseteq Nat \ {0}
    /\ \A s \in DOMAIN d : SegmentOK(d[s])

LEMMA SegmentFields ==
  ASSUME NEW x, SegmentOK(x)
  PROVE  /\ x.kind \in {"active", "ready"} /\ x.records \in Seq(Events)
         /\ Len(x.records) \in Nat /\ x.synced \in Nat /\ x.synced <= Len(x.records)
         /\ Len(x.records) <= MaxRecords
         /\ \A i \in 1..Len(x.records) : x.records[i] \in Events
         /\ x = [kind |-> x.kind, records |-> x.records, synced |-> x.synced]
BY DEF SegmentOK, Segment

(* What the operators that change a segment make of its fields.            *)
LEMMA SegmentChange ==
  ASSUME NEW x \in Segment
  PROVE  /\ Sealed(x) = [kind |-> "ready", records |-> x.records, synced |-> Len(x.records)]
         /\ Synced(x) = [kind |-> x.kind, records |-> x.records, synced |-> Len(x.records)]
         /\ LET c == compactSemanticEvents(x.records)
            IN  Compacted(x) = [kind |-> x.kind, records |-> c, synced |-> Len(c)]
<1> DEFINE c == compactSemanticEvents(x.records)
           fields == {"kind", "records", "synced"}
<1>1. DOMAIN x = fields
  BY DEF Segment
<1>2. Sealed(x) = [kind |-> "ready", records |-> x.records, synced |-> Len(x.records)]
  <2> DEFINE z == Sealed(x)
  <2>1. DOMAIN z = fields /\ z = [f \in DOMAIN z |-> z[f]]
    BY <1>1 DEF Sealed
  <2>2. z.kind = "ready"
    BY <1>1 DEF Sealed
  <2>3. z.records = x.records
    BY <1>1 DEF Sealed
  <2>4. z.synced = Len(x.records)
    BY <1>1 DEF Sealed
  <2> HIDE DEF z
  <2>5. z = [kind |-> "ready", records |-> x.records, synced |-> Len(x.records)]
    BY <2>1, <2>2, <2>3, <2>4
  <2> QED BY <2>5 DEF z
<1>3. Synced(x) = [kind |-> x.kind, records |-> x.records, synced |-> Len(x.records)]
  BY <1>1 DEF Synced
<1>4. Compacted(x) = [kind |-> x.kind, records |-> c, synced |-> Len(c)]
  <2>0. Compacted(x) = [x EXCEPT !.records = c, !.synced = Len(c)]
    BY DEF Compacted
  <2> HIDE DEF c
  <2> DEFINE z == [x EXCEPT !.records = c, !.synced = Len(c)]
  <2>1. DOMAIN z = fields /\ z = [f \in DOMAIN z |-> z[f]]
    BY <1>1
  <2>2. z.kind = x.kind
    BY <1>1
  <2>3. z.records = c
    BY <1>1
  <2>4. z.synced = Len(c)
    BY <1>1
  <2> HIDE DEF z
  <2>5. z = [kind |-> x.kind, records |-> c, synced |-> Len(c)]
    BY <2>1, <2>2, <2>3, <2>4
  <2> QED BY <2>0, <2>5 DEF z
<1> QED BY <1>2, <1>3, <1>4

LEMMA SegmentMade ==
  ASSUME NEW k \in {"active", "ready"}, NEW r \in Seq(Events), NEW n \in Nat,
         n <= Len(r), Len(r) <= MaxRecords
  PROVE  SegmentOK([kind |-> k, records |-> r, synced |-> n])
BY DEF SegmentOK, Segment

LEMMA SealedSegment ==
  ASSUME NEW x, SegmentOK(x)
  PROVE  /\ SegmentOK(Sealed(x)) /\ SegmentOK(Synced(x))
         /\ \A k \in {"active", "ready"} :
               /\ SegmentOK([Sealed(x) EXCEPT !.kind = k])
               /\ [Sealed(x) EXCEPT !.kind = k].records = x.records
               /\ [Sealed(x) EXCEPT !.kind = k].synced = Len(x.records)
               /\ [Sealed(x) EXCEPT !.kind = k].kind = k
         /\ Sealed(x).records = x.records /\ Synced(x).records = x.records
         /\ Sealed(x).synced = Len(x.records) /\ Synced(x).synced = Len(x.records)
         /\ Sealed(x).kind = "ready" /\ Synced(x).kind = x.kind
<1>1. /\ x.kind \in {"active", "ready"} /\ x.records \in Seq(Events) /\ x.synced \in Nat
      /\ Len(x.records) \in Nat /\ Len(x.records) <= MaxRecords
      /\ x = [kind |-> x.kind, records |-> x.records, synced |-> x.synced]
  BY SegmentFields
<1>2. \A k \in {"active", "ready"} :
         SegmentOK([kind |-> k, records |-> x.records, synced |-> Len(x.records)])
  BY <1>1, SegmentMade
<1>3. /\ Sealed(x) = [kind |-> "ready", records |-> x.records, synced |-> Len(x.records)]
      /\ Synced(x) = [kind |-> x.kind, records |-> x.records, synced |-> Len(x.records)]
  BY SegmentChange, Zenon DEF SegmentOK
<1>4. \A k : [Sealed(x) EXCEPT !.kind = k] = [kind |-> k, records |-> x.records, synced |-> Len(x.records)]
  BY <1>3
<1> QED BY <1>1, <1>2, <1>3, <1>4

LEMMA EmptyType ==
    /\ SegmentOK(EmptySegment) /\ EmptySegment.kind = "active"
    /\ EmptySegment.records = <<>> /\ Len(EmptySegment.records) = 0 /\ EmptySegment.synced = 0
<1>1. <<>> \in Seq(Events) /\ Len(<<>>) = 0
  OBVIOUS
<1> QED BY <1>1, Bounds DEF EmptySegment, SegmentOK, Segment

LEMMA CleanupFacts ==
  ASSUME NEW d, NEW cp, NEW c \in Cleanups(d, cp)
  PROVE  /\ DOMAIN c \subseteq DOMAIN d
         /\ \A s \in DOMAIN c : c[s] = d[s]
         /\ \A s \in DOMAIN d \ DOMAIN c : s \in Committed(d, cp)
<1>1. PICK gone \in SUBSET Committed(d, cp) : c = [s \in DOMAIN d \ gone |-> d[s]]
  BY DEF Cleanups
<1> QED BY <1>1

LEMMA CleanupType ==
  ASSUME NEW d, NEW cp, NEW c \in Cleanups(d, cp), Files(d), Bounded(d)
  PROVE  Files(c) /\ Bounded(c)
<1>1. DOMAIN c \subseteq DOMAIN d /\ \A s \in DOMAIN c : c[s] = d[s]
  BY CleanupFacts
<1> QED BY <1>1 DEF Files, Bounded

(* A new segment is numbered after all the others.                         *)
LEMMA NextIsLast ==
  ASSUME Files(disk), Bounded(disk)
  PROVE  NextSequence \in Nat \ {0} /\ \A s \in DOMAIN disk : s < NextSequence
<1>1. CASE DOMAIN disk = {}
  BY <1>1 DEF NextSequence
<1>2. CASE DOMAIN disk # {}
  <2>1. PICK n \in Nat : \A s \in DOMAIN disk : s <= n
    BY DEF Bounded
  <2>2. DOMAIN disk \in SUBSET Nat
    BY DEF Files
  <2>3. \E s \in DOMAIN disk : \A t \in DOMAIN disk : t <= s
    BY <1>2, <2>1, <2>2, GreatestNat
  <2> DEFINE m == CHOOSE s \in DOMAIN disk : \A t \in DOMAIN disk : t <= s
  <2>4. m \in DOMAIN disk /\ \A t \in DOMAIN disk : t <= m
    BY <2>3
  <2>5. NextSequence = 1 + m
    BY <1>2 DEF NextSequence
  <2> HIDE DEF m
  <2> QED BY <2>2, <2>4, <2>5
<1> QED BY <1>1, <1>2

(* Recovery keeps open the last of the active segments, if there is one.   *)
LEMMA LastActiveFacts ==
  ASSUME Files(disk), Bounded(disk)
  PROVE  /\ LastActive(disk) \in Nat
         /\ LastActive(disk) # 0 => /\ LastActive(disk) \in DOMAIN disk
                                    /\ IsActive(disk, LastActive(disk))
         /\ \A s \in DOMAIN disk : IsActive(disk, s) => s <= LastActive(disk)
<1>1. CASE ~ \E s \in DOMAIN disk : IsActive(disk, s)
  BY <1>1 DEF LastActive
<1>2. CASE \E s \in DOMAIN disk : IsActive(disk, s)
  <2>1. PICK n \in Nat : \A s \in DOMAIN disk : s <= n
    BY DEF Bounded
  <2> DEFINE A == {s \in DOMAIN disk : IsActive(disk, s)}
  <2>2. A \in SUBSET Nat /\ A # {} /\ \A s \in A : s <= n
    BY <1>2, <2>1 DEF Files
  <2>3. \E s \in A : \A t \in A : t <= s
    BY <2>1, <2>2, GreatestNat
  <2> DEFINE Last(s) == IsActive(disk, s) /\ \A t \in DOMAIN disk : IsActive(disk, t) => t <= s
  <2>4. \E s \in DOMAIN disk : Last(s)
    BY <2>3
  <2> DEFINE m == CHOOSE s \in DOMAIN disk : Last(s)
  <2>5. m \in DOMAIN disk /\ Last(m)
    BY <2>4
  <2>6. LastActive(disk) = m
    BY <1>2 DEF LastActive
  <2> HIDE DEF m
  <2> QED BY <2>5, <2>6 DEF Files
<1> QED BY <1>1, <1>2

-----------------------------------------------------------------------------
(* Compaction.  The survivors of a segment are computed by recursion on    *)
(* its records; that the recursion defines a function, and what that       *)
(* function returns, is shown on a first index that would be wrong.        *)

RangeOf(r) == {r[i] : i \in 1..Len(r)}
Selected(r, es, i, k) ==
    IF i = 0 THEN <<>>
    ELSE IF Survives(es, r[i]) THEN Append(k[i - 1], r[i]) ELSE k[i - 1]
Selects(r, es, k) == k = [i \in 0..Len(r) |-> Selected(r, es, i, k)]

LEMMA CompactDef ==
  ASSUME NEW r
  PROVE  compactSemanticEvents(r) = (CHOOSE k : Selects(r, RangeOf(r), k))[Len(r)]
BY DEF compactSemanticEvents, Selects, Selected, RangeOf

LEMMA SelectedSame ==
  ASSUME NEW r, NEW es, NEW i, NEW k, NEW h, h[i - 1] = k[i - 1]
  PROVE  Selected(r, es, i, h) = Selected(r, es, i, k)
BY DEF Selected

LEMMA SelectionExists ==
  ASSUME NEW r \in Seq(Events), NEW es
  PROVE  \E k \in [0..Len(r) -> Seq(Events)] : Selects(r, es, k)
<1> DEFINE N == Len(r)
           Good(n, k) == \A i \in 0..N : i <= n => k[i] = Selected(r, es, i, k)
           B == {n \in Nat : ~ \E k \in [0..N -> Seq(Events)] : Good(n, k)}
<1>1. N \in Nat /\ \A i \in 1..N : r[i] \in Events
  OBVIOUS
<1> HIDE DEF N
<1>2. 0 \notin B
  <2> DEFINE z == [i \in 0..N |-> <<>>]
  <2>1. z \in [0..N -> Seq(Events)]
    OBVIOUS
  <2>2. Good(0, z)
    BY <1>1 DEF Selected
  <2> QED BY <2>1, <2>2
<1>3. ASSUME NEW n \in Nat, n \notin B PROVE n + 1 \notin B
  <2> PICK k \in [0..N -> Seq(Events)] : Good(n, k)
    BY <1>3
  <2> DEFINE h == [i \in 0..N |-> IF i <= n THEN k[i] ELSE Selected(r, es, i, k)]
  <2>1. ASSUME NEW i \in 0..N PROVE Selected(r, es, i, k) \in Seq(Events)
    <3>1. CASE i = 0
      BY <3>1 DEF Selected
    <3>2. CASE i # 0
      <4>1. i - 1 \in 0..N /\ i \in 1..N
        BY <3>2, <1>1
      <4>2. k[i - 1] \in Seq(Events) /\ r[i] \in Events
        BY <4>1, <1>1
      <4>3. Append(k[i - 1], r[i]) \in Seq(Events)
        BY <4>2
      <4> QED BY <3>2, <4>2, <4>3 DEF Selected
    <3> QED BY <3>1, <3>2
  <2>2. h \in [0..N -> Seq(Events)]
    BY <2>1
  <2>3. ASSUME NEW i \in 0..N, i <= n + 1 PROVE h[i] = Selected(r, es, i, h)
    <3>1. CASE i = 0
      BY <3>1 DEF Selected
    <3>2. CASE i # 0
      <4>1. i - 1 \in 0..N /\ i - 1 <= n
        BY <3>2, <1>1, <2>3
      <4>2. h[i - 1] = k[i - 1]
        BY <4>1
      <4>3. Selected(r, es, i, h) = Selected(r, es, i, k)
        BY <4>2, SelectedSame
      <4> QED BY <4>3, <2>3, <4>1
    <3> QED BY <3>1, <3>2
  <2> HIDE DEF h
  <2> QED BY <2>2, <2>3
<1>4. B = {}
  <2> SUFFICES ASSUME B # {} PROVE FALSE
    OBVIOUS
  <2>1. B \in SUBSET Nat
    OBVIOUS
  <2> HIDE DEF B
  <2>2. PICK m \in B : \A n \in B : m <= n
    BY <2>1, LeastNat
  <2>3. m - 1 \in Nat /\ m - 1 \notin B /\ (m - 1) + 1 = m
    BY <2>1, <2>2, <1>2
  <2> QED BY <2>2, <2>3, <1>3
<1>5. PICK k \in [0..N -> Seq(Events)] : Good(N, k)
  BY <1>1, <1>4
<1>6. \A i \in 0..N : k[i] = Selected(r, es, i, k)
  BY <1>5, <1>1
<1>7. k = [i \in 0..N |-> Selected(r, es, i, k)]
  BY <1>6
<1> QED BY <1>7 DEF Selects, N

(* The first i records leave, in order, those that survive.                *)
LEMMA SelectionFacts ==
  ASSUME NEW r \in Seq(Events), NEW es, NEW k, Selects(r, es, k), NEW n \in 0..Len(r)
  PROVE  /\ k[n] \in Seq(Events) /\ Len(k[n]) <= n
         /\ RangeOf(k[n]) = {r[i] : i \in {j \in 1..n : Survives(es, r[j])}}
<1> DEFINE N == Len(r)
           Good(m) == /\ k[m] \in Seq(Events) /\ Len(k[m]) <= m
                      /\ RangeOf(k[m]) = {r[i] : i \in {j \in 1..m : Survives(es, r[j])}}
           B == {m \in 0..N : ~Good(m)}
<1>1. N \in Nat /\ \A i \in 1..N : r[i] \in Events
  OBVIOUS
<1>2. \A i \in 0..N : k[i] = Selected(r, es, i, k)
  BY DEF Selects
<1> HIDE DEF N
<1>3. 0 \notin B
  <2>1. k[0] = <<>>
    BY <1>1, <1>2 DEF Selected
  <2>2. <<>> \in Seq(Events) /\ Len(<<>>) = 0 /\ RangeOf(<<>>) = {}
    BY DEF RangeOf
  <2>3. {r[i] : i \in {j \in 1..0 : Survives(es, r[j])}} = {}
    OBVIOUS
  <2>4. Good(0)
    BY <2>1, <2>2, <2>3
  <2> QED BY <2>4
<1>4. ASSUME NEW m \in 0..N, m # 0, m - 1 \notin B PROVE m \notin B
  <2>1. m - 1 \in 0..N /\ m \in 1..N /\ m \in Nat
    BY <1>1, <1>4
  <2>2. Good(m - 1)
    BY <2>1, <1>4
  <2>3. r[m] \in Events
    BY <1>1, <2>1
  <2>4. CASE Survives(es, r[m])
    <3>1. k[m] = Append(k[m - 1], r[m])
      BY <1>2, <1>4, <2>4 DEF Selected
    <3>2. k[m - 1] \in Seq(Events) /\ Len(k[m - 1]) <= m - 1
      BY <2>2
    <3>3. k[m] \in Seq(Events) /\ Len(k[m]) = Len(k[m - 1]) + 1
      BY <3>1, <3>2, <2>3
    <3>4. RangeOf(k[m]) = RangeOf(k[m - 1]) \cup {r[m]}
      BY <3>1, <3>2, <3>3, <2>3 DEF RangeOf
    <3>5. {j \in 1..m : Survives(es, r[j])} = {j \in 1..(m - 1) : Survives(es, r[j])} \cup {m}
      BY <2>4, <2>1
    <3>6. RangeOf(k[m]) = {r[i] : i \in {j \in 1..m : Survives(es, r[j])}}
      BY <3>4, <3>5, <2>2
    <3>7. Len(k[m]) <= m
      BY <3>2, <3>3, <2>1
    <3> QED BY <3>3, <3>6, <3>7
  <2>5. CASE ~Survives(es, r[m])
    <3>1. k[m] = k[m - 1]
      BY <1>2, <1>4, <2>5 DEF Selected
    <3>2. {j \in 1..m : Survives(es, r[j])} = {j \in 1..(m - 1) : Survives(es, r[j])}
      BY <2>5, <2>1
    <3>3. Len(k[m]) <= m
      BY <3>1, <2>1, <2>2
    <3> QED BY <3>1, <3>2, <3>3, <2>2
  <2> QED BY <2>4, <2>5
<1>5. B = {}
  <2> SUFFICES ASSUME B # {} PROVE FALSE
    OBVIOUS
  <2>1. B \in SUBSET Nat /\ B \subseteq 0..N
    OBVIOUS
  <2> HIDE DEF B
  <2>2. PICK m \in B : \A x \in B : m <= x
    BY <2>1, LeastNat
  <2>3. m \in 0..N /\ m # 0
    BY <2>1, <2>2, <1>3
  <2>4. m - 1 \notin B
    BY <2>1, <2>2, <2>3
  <2> QED BY <2>2, <2>3, <2>4, <1>4
<1>6. n \in 0..N
  BY DEF N
<1> QED BY <1>5, <1>6

LEMMA CompactFacts ==
  ASSUME NEW r \in Seq(Events)
  PROVE  /\ compactSemanticEvents(r) \in Seq(Events)
         /\ Len(compactSemanticEvents(r)) <= Len(r)
         /\ RangeOf(compactSemanticEvents(r)) = {e \in RangeOf(r) : Survives(RangeOf(r), e)}
<1> DEFINE es == RangeOf(r)
           k == CHOOSE k : Selects(r, es, k)
<1>1. Selects(r, es, k)
  BY SelectionExists
<1>2. compactSemanticEvents(r) = k[Len(r)]
  BY CompactDef
<1>3. Len(r) \in 0..Len(r)
  OBVIOUS
<1> HIDE DEF k
<1>4. /\ k[Len(r)] \in Seq(Events) /\ Len(k[Len(r)]) <= Len(r)
      /\ RangeOf(k[Len(r)]) = {r[i] : i \in {j \in 1..Len(r) : Survives(es, r[j])}}
  BY <1>1, <1>3, SelectionFacts
<1>5. {r[i] : i \in {j \in 1..Len(r) : Survives(es, r[j])}} = {e \in RangeOf(r) : Survives(es, e)}
  BY DEF RangeOf
<1> QED BY <1>2, <1>4, <1>5

LEMMA CompactedSegment ==
  ASSUME NEW x, SegmentOK(x)
  PROVE  /\ SegmentOK(Compacted(x)) /\ Compacted(x).kind = x.kind
         /\ Compacted(x).records = compactSemanticEvents(x.records)
         /\ Compacted(x).synced = Len(Compacted(x).records)
<1> DEFINE c == compactSemanticEvents(x.records)
<1>1. /\ x.kind \in {"active", "ready"} /\ x.records \in Seq(Events) /\ x.synced \in Nat
      /\ Len(x.records) \in Nat /\ Len(x.records) <= MaxRecords
      /\ x = [kind |-> x.kind, records |-> x.records, synced |-> x.synced]
  BY SegmentFields
<1>2. c \in Seq(Events) /\ Len(c) <= Len(x.records)
  BY <1>1, CompactFacts
<1>3. Compacted(x) = [kind |-> x.kind, records |-> c, synced |-> Len(c)]
  BY SegmentChange, Zenon DEF SegmentOK
<1> HIDE DEF c
<1>4. Len(c) \in Nat /\ Len(c) <= MaxRecords
  BY <1>1, <1>2, Bounds
<1>5. SegmentOK(Compacted(x))
  BY <1>1, <1>2, <1>3, <1>4, SegmentMade
<1> QED BY <1>3, <1>5 DEF c

(* What compaction drops is superseded by a sample that it keeps.          *)
LEMMA SurvivorExists ==
  ASSUME NEW es \in SUBSET Events, NEW e \in es
  PROVE  \E f \in {e} \cup Superseding(e) : f \in es /\ Survives(es, f)
<1> SUFFICES ASSUME ~Survives(es, e) PROVE \E f \in Superseding(e) : f \in es /\ Survives(es, f)
  OBVIOUS
<1> DEFINE K == SameKey(es, e)
           seq(f) == Envelope[f].sequence
<1>1. Envelope[e].key # NoKey /\ ~Conflicted(K)
  BY DEF Survives
<1>2. e \in K /\ K \subseteq Events /\ \A f \in K : f \in es /\ f \in Nat /\ seq(f) \in Nat
  <2>1. e \in K /\ K \subseteq es
    BY DEF SameKey
  <2>2. \A f \in Events : f \in Nat /\ seq(f) \in Nat
    BY Bounds DEF Events
  <2> QED BY <2>1, <2>2
<1>3. \A f \in K : /\ SameKey(es, f) = K /\ e \in SameKey({e}, f)
                   /\ Envelope[f].key = Envelope[e].key
  BY DEF SameKey
<1> HIDE DEF K
<1>4. PICK b \in Nat : \A f \in K : seq(f) <= b
  <2> DEFINE Above(n) == \E b \in Nat : \A f \in K : f <= n => seq(f) <= b
             B == {n \in Nat : ~Above(n)}
  <2>1. 0 \notin B
    <3>1. \A f \in K : ~(f <= 0)
      BY <1>2, Bounds DEF Events
    <3> QED BY <3>1
  <2>2. ASSUME NEW n \in Nat, n \notin B PROVE n + 1 \notin B
    <3> PICK b \in Nat : \A f \in K : f <= n => seq(f) <= b
      BY <2>2
    <3>1. CASE n + 1 \notin K
      <4>1. \A f \in K : f <= n + 1 => f <= n
        BY <3>1, <1>2
      <4> QED BY <4>1
    <3>2. CASE n + 1 \in K
      <4> DEFINE c == b + seq(n + 1)
      <4>1. c \in Nat /\ b <= c /\ seq(n + 1) <= c
        BY <3>2, <1>2
      <4> HIDE DEF c
      <4>2. ASSUME NEW f \in K, f <= n + 1 PROVE seq(f) <= c
        <5>1. CASE f = n + 1
          BY <5>1, <4>1
        <5>2. CASE f # n + 1
          <6>1. f <= n
            BY <5>2, <4>2, <1>2
          <6>2. seq(f) <= b /\ seq(f) \in Nat
            BY <6>1, <1>2
          <6> QED BY <6>2, <4>1
        <5> QED BY <5>1, <5>2
      <4> QED BY <4>1, <4>2
    <3> QED BY <3>1, <3>2
  <2>3. MaxEvents \notin B
    <3> SUFFICES ASSUME B # {} PROVE FALSE
      OBVIOUS
    <3>1. B \in SUBSET Nat
      OBVIOUS
    <3> HIDE DEF B
    <3>2. PICK m \in B : \A x \in B : m <= x
      BY <3>1, LeastNat
    <3>3. m - 1 \in Nat /\ m - 1 \notin B /\ (m - 1) + 1 = m
      BY <3>1, <3>2, <2>1
    <3> QED BY <3>2, <3>3, <2>2
  <2>4. Above(MaxEvents)
    BY <2>3, Bounds
  <2>5. \A f \in K : f <= MaxEvents
    BY <1>2, Bounds DEF Events
  <2> QED BY <2>4, <2>5
<1> DEFINE S == {seq(f) : f \in K}
<1>5. S \in SUBSET Nat /\ S # {} /\ \A n \in S : n <= b
  BY <1>2, <1>4
<1>6. PICK m \in S : \A n \in S : n <= m
  BY <1>5, <1>4, GreatestNat
<1> DEFINE M == {f \in K : seq(f) = m}
<1>7. M \in SUBSET Nat /\ M # {}
  BY <1>2, <1>6
<1>8. PICK g \in M : \A f \in M : g <= f
  BY <1>7, LeastNat
<1>9. g \in K /\ seq(g) = m /\ \A f \in K : seq(f) <= m
  BY <1>8, <1>6
<1>10. IsLatest(K, g)
  <2> SUFFICES ASSUME NEW f \in K, f # g
               PROVE  seq(f) < seq(g) \/ (seq(f) = seq(g) /\ g < f)
    BY DEF IsLatest
  <2>1. f \in Nat /\ g \in Nat /\ seq(f) \in Nat /\ seq(g) \in Nat
    BY <1>2, <1>9
  <2>2. seq(f) = m => g <= f
    BY <1>8
  <2> QED BY <2>1, <2>2, <1>9
<1>11. Survives(es, g)
  BY <1>3, <1>9, <1>10 DEF Survives
<1>12. g # e
  BY <1>11
<1>13. seq(e) < seq(g)
  <2> SUFFICES ASSUME seq(e) = seq(g) PROVE FALSE
    BY <1>2, <1>9
  <2>1. e \in M
    BY <1>2, <1>9
  <2>2. g < e
    BY <2>1, <1>8, <1>12, <1>7
  <2>3. \A h \in K : h < e => seq(h) <= seq(e)
    BY <1>9
  <2> QED BY <2>2, <2>3, <1>1, <1>2, <1>9 DEF Conflicted
<1>14. g \in Superseding(e)
  BY <1>1, <1>2, <1>3, <1>9, <1>13 DEF Superseding
<1> QED BY <1>14, <1>11, <1>9, <1>2

(* To replace a sample that replaced another is to replace that one.       *)
LEMMA SupersedingOrder ==
  ASSUME NEW e \in Events, NEW f \in {e} \cup Superseding(e), NEW g \in {f} \cup Superseding(f)
  PROVE  g \in {e} \cup Superseding(e)
<1> SUFFICES ASSUME f \in Superseding(e), g \in Superseding(f) PROVE g \in Superseding(e)
  OBVIOUS
<1>1. /\ f \in Events /\ g \in Events
      /\ Envelope[e].key # NoKey /\ e \in SameKey({e}, f) /\ f \in SameKey({f}, g)
      /\ Envelope[e].sequence < Envelope[f].sequence
      /\ Envelope[f].sequence < Envelope[g].sequence
  BY DEF Superseding
<1>2. e \in SameKey({e}, g)
  BY <1>1 DEF SameKey
<1>3. /\ Envelope[e].sequence \in Nat /\ Envelope[f].sequence \in Nat
      /\ Envelope[g].sequence \in Nat
  BY <1>1, Bounds
<1> QED BY <1>1, <1>2, <1>3 DEF Superseding

-----------------------------------------------------------------------------
(* What the steps do to the files                                          *)

Typed == TypeOK /\ Bounded(disk) /\ WriterOpen

LEMMA TypedFiles == ASSUME TypeOK PROVE Files(disk)
BY DEF TypeOK, Files, SegmentOK, Records

LEMMA TypedReader ==
  ASSUME TypeOK
  PROVE  /\ saved \in Checkpoints /\ checkpoint \in Checkpoints /\ inflight \in Checkpoints
         /\ snap \in Checkpoints /\ next \in Checkpoints
         /\ up \in BOOLEAN /\ open \in BOOLEAN /\ active \in Nat
         /\ pending \subseteq Events /\ held \subseteq Events
         /\ acked \subseteq Events /\ delivered \subseteq Events
BY DEF TypeOK

(* Segment s is as it was, except that its records may be sealed, synced,  *)
(* or be followed by the next one of the writer's batch.                   *)
Writes(s) ==
    /\ s = active /\ open /\ todo # <<>>
    /\ Len(disk[s].records) < MaxRecords
    /\ disk'[s].records = Append(disk[s].records, Head(todo))
    /\ disk'[s].kind = disk[s].kind
    /\ disk'[s].synced = disk[s].synced
    /\ todo' = Tail(todo)

Rests(s) ==
    /\ disk'[s].records = disk[s].records
    /\ disk[s].synced <= disk'[s].synced
    /\ \/ disk'[s].kind = disk[s].kind
       \/ disk'[s].kind = "ready" /\ (s = active' => ~open')

(* A step that neither compacts nor cuts files: segments are removed once  *)
(* consumed, written by the writer, or created after all the others.       *)
FilesGrow ==
    /\ \A s \in DOMAIN disk : s \in DOMAIN disk' \/ s \in Committed(disk, checkpoint')
    /\ \A s \in DOMAIN disk \cap DOMAIN disk' : SegmentOK(disk'[s]) /\ (Rests(s) \/ Writes(s))
    /\ \A s \in DOMAIN disk' \ DOMAIN disk :
          /\ s = NextSequence /\ MayNumber(s) /\ todo # <<>> /\ active = 0
          /\ disk'[s] = EmptySegment /\ todo' \in {todo, <<>>}
          /\ active' = s \/ "orphan" \in Faults
    /\ Bounded(disk')

FilesCompact(last) ==
    /\ DOMAIN disk' = DOMAIN disk
    /\ \A s \in DOMAIN disk :
          disk'[s] = IF ~IsActive(disk, s) /\ Horizon < s /\ s <= last
                     THEN Compacted(disk[s]) ELSE disk[s]

FilesCut ==
    /\ DOMAIN disk' = DOMAIN disk
    /\ \A s \in DOMAIN disk :
          /\ SegmentOK(disk'[s])
          /\ disk'[s].kind = disk[s].kind
          /\ disk[s].synced <= disk'[s].synced
          /\ disk'[s].synced = Len(disk'[s].records)
          /\ \A i \in 1..Len(disk'[s].records) : disk'[s].records[i] = disk[s].records[i]

LEMMA FilesSame ==
  ASSUME Typed, disk' = disk PROVE FilesGrow
<1>1. Files(disk)
  BY TypedFiles DEF Typed
<1>2. \A s \in DOMAIN disk : SegmentOK(disk[s]) /\ disk[s].synced <= disk[s].synced
  BY <1>1, SegmentFields DEF Files
<1> QED BY <1>2 DEF FilesGrow, Rests, Typed, Bounded

LEMMA FilesCleaned ==
  ASSUME Typed, disk' \in Cleanups(disk, checkpoint') PROVE FilesGrow
<1>1. Files(disk)
  BY TypedFiles DEF Typed
<1>2. /\ DOMAIN disk' \subseteq DOMAIN disk
      /\ \A s \in DOMAIN disk' : disk'[s] = disk[s]
      /\ \A s \in DOMAIN disk \ DOMAIN disk' : s \in Committed(disk, checkpoint')
  BY CleanupFacts
<1>3. \A s \in DOMAIN disk : SegmentOK(disk[s]) /\ disk[s].synced <= disk[s].synced
  BY <1>1, SegmentFields DEF Files
<1>4. Bounded(disk')
  BY <1>2 DEF Typed, Bounded
<1> QED BY <1>2, <1>3, <1>4 DEF FilesGrow, Rests

(* One segment of the cleaned directory is replaced.                       *)
LEMMA FilesReplaced ==
  ASSUME Typed, NEW d, d = disk \/ d \in Cleanups(disk, checkpoint'), NEW x,
         disk' = [d EXCEPT ![active] = x],
         active \in DOMAIN d => SegmentOK(x) /\ (Rests(active) \/ Writes(active))
  PROVE  FilesGrow
<1>1. Files(disk)
  BY TypedFiles DEF Typed
<1>2. /\ DOMAIN d \subseteq DOMAIN disk
      /\ \A s \in DOMAIN d : d[s] = disk[s]
      /\ \A s \in DOMAIN disk \ DOMAIN d : s \in Committed(disk, checkpoint')
  BY CleanupFacts
<1>3. /\ DOMAIN disk' = DOMAIN d
      /\ \A s \in DOMAIN d : disk'[s] = IF s = active THEN x ELSE d[s]
  OBVIOUS
<1>4. \A s \in DOMAIN disk : SegmentOK(disk[s]) /\ disk[s].synced <= disk[s].synced
  BY <1>1, SegmentFields DEF Files
<1>5. Bounded(disk')
  BY <1>2, <1>3 DEF Typed, Bounded
<1>6. ASSUME NEW s \in DOMAIN d PROVE SegmentOK(disk'[s]) /\ (Rests(s) \/ Writes(s))
  <2>1. CASE s = active
    BY <2>1, <1>3
  <2>2. CASE s # active
    BY <2>2, <1>2, <1>3, <1>4 DEF Rests
  <2> QED BY <2>1, <2>2
<1> QED BY <1>2, <1>3, <1>5, <1>6 DEF FilesGrow

(* A segment is added.                                                     *)
LEMMA FilesAdded ==
  ASSUME Typed, todo # <<>>, active = 0, MayNumber(NextSequence), todo' \in {todo, <<>>},
         active' = NextSequence \/ "orphan" \in Faults,
         disk' = WithSegment(disk, NextSequence, EmptySegment)
  PROVE  FilesGrow
<1>1. Files(disk)
  BY TypedFiles DEF Typed
<1>2. NextSequence \in Nat \ {0} /\ \A s \in DOMAIN disk : s < NextSequence
  BY <1>1, NextIsLast DEF Typed
<1> DEFINE n == NextSequence
<1> HIDE DEF n
<1>3. /\ DOMAIN disk' = DOMAIN disk \cup {n}
      /\ \A s \in DOMAIN disk' : disk'[s] = IF s = n THEN EmptySegment ELSE disk[s]
  BY DEF WithSegment, n
<1>4. \A s \in DOMAIN disk : SegmentOK(disk[s]) /\ disk[s].synced <= disk[s].synced /\ s # n
  BY <1>1, <1>2, SegmentFields DEF Files, n
<1>5. Bounded(disk')
  <2>1. n \in Nat /\ \A s \in DOMAIN disk' : s <= n
    BY <1>1, <1>2, <1>3 DEF n, Files
  <2> QED BY <2>1 DEF Bounded
<1>6. \A s \in DOMAIN disk : disk'[s] = disk[s]
  BY <1>3, <1>4
<1>7. \A s \in DOMAIN disk : SegmentOK(disk'[s]) /\ Rests(s)
  BY <1>4, <1>6 DEF Rests
<1>8. \A s \in DOMAIN disk' \ DOMAIN disk : s = NextSequence /\ disk'[s] = EmptySegment
  BY <1>3 DEF n
<1> QED BY <1>3, <1>5, <1>7, <1>8 DEF FilesGrow

(* The actions that change no more of the checkpoint than their clean-up   *)
(* respects.                                                               *)
LEMMA WhoGrowsFiles ==
  ASSUME Typed, Next
  PROVE  \/ FilesGrow
         \/ \E last \in DOMAIN disk : Compact(last)
         \/ PowerLoss
<1>1. Files(disk) /\ Reclaimed = Cleanups(disk, checkpoint)
  BY TypedFiles DEF Typed, Reclaimed
<1>2. ASSUME NEW d, d = disk \/ d \in Cleanups(disk, checkpoint), active \in DOMAIN d
      PROVE  SegmentOK(disk[active]) /\ d[active] = disk[active]
  <2>1. active \in DOMAIN disk /\ d[active] = disk[active]
    BY <1>2, CleanupFacts
  <2> QED BY <1>1, <2>1 DEF Files
<1>3. CASE \E n \in 1..MaxBatch : BeginBatch(n)
  <2>1. disk' \in Cleanups(disk, checkpoint) /\ checkpoint' = checkpoint
    BY <1>1, <1>3 DEF BeginBatch, readerVars
  <2> QED BY <2>1, FilesCleaned
<1>4. CASE sealActive
  <2>1. disk' = [disk EXCEPT ![active] = Sealed(disk[active])]
    BY <1>4 DEF sealActive
  <2>2. active \in DOMAIN disk =>
           SegmentOK(Sealed(disk[active])) /\ Rests(active)
    <3> SUFFICES ASSUME active \in DOMAIN disk
                 PROVE  SegmentOK(Sealed(disk[active])) /\ Rests(active)
      OBVIOUS
    <3>1. SegmentOK(disk[active]) /\ disk'[active] = Sealed(disk[active])
      BY <1>2, <2>1
    <3>2. /\ SegmentOK(Sealed(disk[active])) /\ Sealed(disk[active]).kind = "ready"
          /\ Sealed(disk[active]).records = disk[active].records
          /\ Sealed(disk[active]).synced = Len(disk[active].records)
      BY <3>1, SealedSegment
    <3>3. active' = 0 /\ active # 0
      BY <1>4 DEF sealActive, Overflow, Aged
    <3> QED BY <3>1, <3>2, <3>3, SegmentFields DEF Rests
  <2> QED BY <2>1, <2>2, FilesReplaced
<1>5. CASE SealFails
  <2>1. PICK kind \in {"active", "ready"} :
           disk' = [disk EXCEPT ![active] = [Sealed(disk[active]) EXCEPT !.kind = kind]]
    BY <1>5 DEF SealFails
  <2> DEFINE x == [Sealed(disk[active]) EXCEPT !.kind = kind]
  <2>2. active \in DOMAIN disk => SegmentOK(x) /\ Rests(active)
    <3> SUFFICES ASSUME active \in DOMAIN disk PROVE SegmentOK(x) /\ Rests(active)
      OBVIOUS
    <3>1. SegmentOK(disk[active]) /\ disk'[active] = x
      BY <1>2, <2>1
    <3>2. /\ SegmentOK(x) /\ x.records = disk[active].records
          /\ x.synced = Len(disk[active].records) /\ x.kind = kind
      BY <3>1, SealedSegment
    <3>3. disk[active].synced <= Len(disk[active].records)
      BY <3>1, SegmentFields
    <3>4. disk[active].kind = "active" /\ ~open'
      BY <1>5 DEF SealFails, Overflow, Aged, Typed, WriterOpen, IsActive
    <3> QED BY <3>1, <3>2, <3>3, <3>4 DEF Rests
  <2> QED BY <2>1, <2>2, FilesReplaced
<1>6. CASE createActiveSegment \/ CreateFails
  BY <1>6, FilesAdded DEF createActiveSegment, CreateFails, BatchAbandoned
<1>7. CASE WriteRecord
  <2>0. PICK d \in Reclaimed : disk' = [d EXCEPT ![active].records = Append(@, Head(todo))]
    BY <1>7 DEF WriteRecord
  <2>1. checkpoint' = checkpoint /\ d \in Cleanups(disk, checkpoint')
    BY <1>1, <1>7 DEF WriteRecord, readerVars
  <2> DEFINE r == Append(d[active].records, Head(todo))
             x == [d[active] EXCEPT !.records = r]
  <2>2. disk' = [d EXCEPT ![active] = x]
    BY <2>0
  <2>3. active \in DOMAIN d => SegmentOK(x) /\ Writes(active)
    <3> SUFFICES ASSUME active \in DOMAIN d PROVE SegmentOK(x) /\ Writes(active)
      OBVIOUS
    <3>1. SegmentOK(disk[active]) /\ d[active] = disk[active] /\ disk'[active] = x
      BY <1>2, <2>1, <2>2
    <3>2. /\ todo \in Seq(Events) /\ todo # <<>> /\ todo' = Tail(todo) /\ open /\ active # 0
          /\ ~(Len(disk[active].records) >= MaxRecords)
      BY <1>7 DEF WriteRecord, Overflow, Records, Typed, TypeOK
    <3>3. /\ disk[active].records \in Seq(Events) /\ Len(disk[active].records) \in Nat
          /\ disk[active].synced \in Nat /\ disk[active].synced <= Len(disk[active].records)
          /\ disk[active].kind \in {"active", "ready"}
      BY <3>1, SegmentFields
    <3>4. /\ r = Append(disk[active].records, Head(todo))
          /\ r \in Seq(Events) /\ Len(r) = Len(disk[active].records) + 1
      BY <3>1, <3>2, <3>3
    <3>5. d[active] \in Segment
      BY <3>1 DEF SegmentOK
    <3> HIDE DEF r
    <3>6. x = [kind |-> disk[active].kind, records |-> r, synced |-> disk[active].synced]
      BY <3>1, <3>5 DEF Segment
    <3> HIDE DEF x
    <3>7. Len(r) <= MaxRecords /\ disk[active].synced <= Len(r)
          /\ Len(disk[active].records) < MaxRecords
      BY <3>2, <3>3, <3>4, Bounds
    <3>8. SegmentOK(x)
      BY <3>3, <3>4, <3>6, <3>7, SegmentMade
    <3>9. x.records = r /\ x.kind = disk[active].kind /\ x.synced = disk[active].synced
      BY <3>6
    <3> QED BY <3>1, <3>2, <3>4, <3>7, <3>8, <3>9 DEF Writes
  <2> HIDE DEF x
  <2> QED BY <2>1, <2>2, <2>3, FilesReplaced
<1>8. CASE SyncBatch
  <2>0. PICK d \in Reclaimed : disk' = [d EXCEPT ![active] = Synced(d[active])]
    BY <1>8 DEF SyncBatch
  <2>1. checkpoint' = checkpoint /\ d \in Cleanups(disk, checkpoint')
    BY <1>1, <1>8 DEF SyncBatch, readerVars
  <2>2. active \in DOMAIN d => SegmentOK(Synced(d[active])) /\ Rests(active)
    <3> SUFFICES ASSUME active \in DOMAIN d PROVE SegmentOK(Synced(d[active])) /\ Rests(active)
      OBVIOUS
    <3>1. SegmentOK(disk[active]) /\ d[active] = disk[active] /\ disk'[active] = Synced(disk[active])
      BY <1>2, <2>0, <2>1
    <3>2. /\ SegmentOK(Synced(disk[active])) /\ Synced(disk[active]).kind = disk[active].kind
          /\ Synced(disk[active]).records = disk[active].records
          /\ Synced(disk[active]).synced = Len(disk[active].records)
      BY <3>1, SealedSegment
    <3> QED BY <3>1, <3>2, SegmentFields DEF Rests
  <2> QED BY <2>0, <2>1, <2>2, FilesReplaced
<1>9. CASE AppendFails \/ Snapshot \/ ReadNothing \/ \E p \in Readable : ReadBatch(p)
  BY <1>9, FilesSame DEF AppendFails, Snapshot, ReadNothing, ReadBatch, files
<1>10. CASE Project \/ ProjectFails \/ CommitFails \/ ProcessCrash
  BY <1>10, FilesSame DEF Project, ProjectFails, CommitFails, ProcessCrash, files
<1>11. CASE Commit
  <2>1. CASE Acceptable(next)
    BY <1>11, <2>1, FilesCleaned DEF Commit
  <2>2. CASE ~Acceptable(next)
    BY <1>11, <2>2, FilesSame DEF Commit, files
  <2> QED BY <2>1, <2>2
<1>12. CASE maintainStorage
  <2>1. disk' \in Cleanups(disk, checkpoint) /\ checkpoint' = checkpoint
    BY <1>1, <1>12 DEF maintainStorage, readerVars
  <2> QED BY <2>1, FilesCleaned
<1>13. CASE Close
  <2>1. CASE active # 0 /\ open
    <3>1. disk' = [disk EXCEPT ![active] = Synced(disk[active])]
      BY <1>13, <2>1 DEF Close
    <3>2. active \in DOMAIN disk => SegmentOK(Synced(disk[active])) /\ Rests(active)
      <4> SUFFICES ASSUME active \in DOMAIN disk
                   PROVE  SegmentOK(Synced(disk[active])) /\ Rests(active)
        OBVIOUS
      <4>1. SegmentOK(disk[active]) /\ disk'[active] = Synced(disk[active])
        BY <1>2, <3>1
      <4>2. /\ SegmentOK(Synced(disk[active])) /\ Synced(disk[active]).kind = disk[active].kind
            /\ Synced(disk[active]).records = disk[active].records
            /\ Synced(disk[active]).synced = Len(disk[active].records)
        BY <4>1, SealedSegment
      <4> QED BY <4>1, <4>2, SegmentFields DEF Rests
    <3> QED BY <3>1, <3>2, FilesReplaced
  <2>2. CASE ~(active # 0 /\ open)
    BY <1>13, <2>2, FilesSame DEF Close
  <2> QED BY <2>1, <2>2
<1>14. CASE Start
  <2>1. disk' = Recovered(disk)
    BY <1>14 DEF Start
  <2>2. DOMAIN disk' = DOMAIN disk
    BY <2>1 DEF Recovered
  <2>3. ASSUME NEW s \in DOMAIN disk PROVE SegmentOK(disk'[s]) /\ Rests(s)
    <3>1. /\ SegmentOK(disk[s]) /\ disk[s] \in Segment
          /\ disk[s].kind \in {"active", "ready"} /\ disk[s].records \in Seq(Events)
          /\ disk[s].synced \in Nat /\ disk[s].synced <= Len(disk[s].records)
          /\ Len(disk[s].records) <= MaxRecords
      BY <1>1, SegmentFields DEF Files, SegmentOK
    <3>2. \/ disk'[s] = disk[s]
          \/ disk'[s] = [disk[s] EXCEPT !.kind = "ready"] /\ s # active'
      BY <1>14, <2>1 DEF Recovered, Start
    <3>3. CASE disk'[s] = disk[s]
      BY <3>1, <3>3 DEF Rests
    <3>4. CASE disk'[s] = [disk[s] EXCEPT !.kind = "ready"] /\ s # active'
      <4>1. disk'[s] = [kind |-> "ready", records |-> disk[s].records, synced |-> disk[s].synced]
        BY <3>1, <3>4 DEF Segment
      <4>2. SegmentOK(disk'[s])
        BY <3>1, <4>1, SegmentMade
      <4> QED BY <3>1, <3>4, <4>1, <4>2 DEF Rests
    <3> QED BY <3>2, <3>3, <3>4
  <2>4. Bounded(disk')
    BY <2>2 DEF Typed, Bounded
  <2> QED BY <2>2, <2>3, <2>4 DEF FilesGrow
<1> QED BY <1>3, <1>4, <1>5, <1>6, <1>7, <1>8, <1>9, <1>10, <1>11, <1>12, <1>13, <1>14 DEF Next

LEMMA CompactFiles ==
  ASSUME NEW last, Compact(last) PROVE FilesCompact(last)
BY DEF Compact, FilesCompact

LEMMA CutFiles ==
  ASSUME Typed, PowerLoss PROVE FilesCut
<1>1. Files(disk)
  BY TypedFiles DEF Typed
<1>2. PICK cut \in [DOMAIN disk -> 0..MaxRecords] :
         /\ \A s \in DOMAIN disk : disk[s].synced <= cut[s] /\ cut[s] <= Len(Records(disk, s))
         /\ disk' = [s \in DOMAIN disk |->
                       [disk[s] EXCEPT !.records = SubSeq(@, 1, cut[s]), !.synced = cut[s]]]
  BY DEF PowerLoss
<1>3. ASSUME NEW s \in DOMAIN disk
      PROVE  /\ SegmentOK(disk'[s])
             /\ disk'[s].kind = disk[s].kind
             /\ disk[s].synced <= disk'[s].synced
             /\ disk'[s].synced = Len(disk'[s].records)
             /\ \A i \in 1..Len(disk'[s].records) : disk'[s].records[i] = disk[s].records[i]
  <2> DEFINE x == disk[s]
             c == cut[s]
             r == SubSeq(x.records, 1, c)
  <2>1. /\ SegmentOK(x) /\ x \in Segment /\ x.kind \in {"active", "ready"}
        /\ x.records \in Seq(Events) /\ Len(x.records) \in Nat /\ Len(x.records) <= MaxRecords
    BY <1>1, SegmentFields DEF Files, SegmentOK
  <2>2. c \in Nat /\ x.synced <= c /\ c <= Len(x.records)
    <3>1. c \in 0..MaxRecords
      BY <1>2
    <3>2. x.synced <= c /\ c <= Len(x.records)
      BY <1>2 DEF Records
    <3> QED BY <3>1, <3>2, Bounds
  <2>3. disk'[s] = [x EXCEPT !.records = r, !.synced = c]
    BY <1>2
  <2> HIDE DEF x, c
  <2>4. r \in Seq(Events) /\ Len(r) = c /\ \A i \in 1..c : r[i] = x.records[i]
    BY <2>1, <2>2
  <2> HIDE DEF r
  <2>5. disk'[s] = [kind |-> x.kind, records |-> r, synced |-> c]
    <3> DEFINE z == [x EXCEPT !.records = r, !.synced = c]
    <3>0. DOMAIN x = {"kind", "records", "synced"}
      BY <2>1 DEF Segment
    <3>1. DOMAIN z = {"kind", "records", "synced"} /\ z = [f \in DOMAIN z |-> z[f]]
      BY <3>0
    <3>2. z.kind = x.kind
      BY <3>0
    <3>3. z.records = r
      BY <3>0
    <3>4. z.synced = c
      BY <3>0
    <3> HIDE DEF z
    <3>5. z = [kind |-> x.kind, records |-> r, synced |-> c]
      BY <3>1, <3>2, <3>3, <3>4
    <3> QED BY <2>3, <3>5 DEF z
  <2>6. SegmentOK(disk'[s])
    <3>1. c <= Len(r) /\ Len(r) <= MaxRecords
      BY <2>1, <2>2, <2>4, Bounds
    <3> QED BY <3>1, <2>1, <2>2, <2>4, <2>5, SegmentMade
  <2> QED BY <2>2, <2>4, <2>5, <2>6 DEF x
<1> QED BY <1>2, <1>3 DEF FilesCut

(* The files have their types after every step.                            *)
LEMMA FilesTyped ==
  ASSUME Typed, Next PROVE Files(disk') /\ Bounded(disk')
<1>1. Files(disk)
  BY TypedFiles DEF Typed
<1>2. CASE FilesGrow
  <2>1. NextSequence \in Nat \ {0}
    BY <1>1, NextIsLast DEF Typed
  <2>2. ASSUME NEW s \in DOMAIN disk' PROVE s \in Nat \ {0} /\ SegmentOK(disk'[s])
    <3>1. CASE s \in DOMAIN disk
      BY <1>1, <1>2, <3>1 DEF Files, FilesGrow
    <3>2. CASE s \notin DOMAIN disk
      BY <1>2, <3>2, <2>1, EmptyType DEF FilesGrow
    <3> QED BY <3>1, <3>2
  <2> QED BY <1>2, <2>2 DEF Files, FilesGrow
<1>3. ASSUME NEW last \in DOMAIN disk, Compact(last) PROVE Files(disk') /\ Bounded(disk')
  <2>1. FilesCompact(last)
    BY <1>3, CompactFiles
  <2>2. \A s \in DOMAIN disk : SegmentOK(disk'[s])
    BY <1>1, <2>1, CompactedSegment DEF FilesCompact, Files
  <2> QED BY <1>1, <2>1, <2>2 DEF FilesCompact, Files, Typed, Bounded
<1>4. CASE PowerLoss
  <2>1. FilesCut
    BY <1>4, CutFiles
  <2> QED BY <1>1, <2>1 DEF FilesCut, Files, Typed, Bounded
<1> QED BY <1>2, <1>3, <1>4, WhoGrowsFiles

-----------------------------------------------------------------------------
(* Types                                                                   *)

(* What a reader sees are records of the files.                            *)
LEMMA VisibleFacts ==
  ASSUME TypeOK, NEW p \in Visible
  PROVE  /\ p \in Checkpoints /\ p.segment \in DOMAIN disk /\ p = At(p.segment, p.record)
         /\ p.record \in 1..Len(disk[p.segment].records)
         /\ disk[p.segment].records[p.record] \in Events
         /\ checkpointLess(checkpoint, p)
<1>1. PICK s \in DOMAIN disk : \E i \in 1..Len(Records(disk, s)) : p = At(s, i)
  BY DEF Visible
<1>2. PICK i \in 1..Len(Records(disk, s)) : p = At(s, i)
  BY <1>1
<1>3. SegmentOK(disk[s]) /\ s \in Nat
  BY TypedFiles DEF Files
<1>4. Len(disk[s].records) \in Nat /\ i \in 1..Len(disk[s].records) /\ i \in Nat
      /\ disk[s].records[i] \in Events
  BY <1>2, <1>3, SegmentFields DEF Records
<1>5. p \in Checkpoints /\ p.segment = s /\ p.record = i
  BY <1>2, <1>3, <1>4, AtType
<1> QED BY <1>2, <1>4, <1>5 DEF Visible

LEMMA HeldType == ASSUME TypeOK, NEW p \in Readable, ReadBatch(p) PROVE held' \subseteq Events
<1>1. held' = {Records(disk, q.segment)[q.record] : q \in Window(p)}
  BY DEF ReadBatch
<1>2. \A q \in Window(p) : Records(disk, q.segment)[q.record] \in Events
  BY VisibleFacts DEF Window, Records
<1> QED BY <1>1, <1>2

LEMMA CountersTyped ==
  ASSUME TypeOK, Next
  PROVE  /\ failures' \in 0..MaxFailures /\ stops' \in 0..MaxStops
         /\ up' \in BOOLEAN /\ open' \in BOOLEAN
<1>1. failures \in 0..MaxFailures /\ stops \in 0..MaxStops /\ up \in BOOLEAN /\ open \in BOOLEAN
  BY DEF TypeOK
<1>2. /\ failures' = failures \/ (failures < MaxFailures /\ failures' = failures + 1)
      /\ stops' = stops \/ (stops < MaxStops /\ stops' = stops + 1)
      /\ up' = up \/ up' = TRUE \/ up' = FALSE
      /\ open' = open \/ open' = TRUE \/ open' = FALSE
  BY DEF Next, BeginBatch, sealActive, SealFails, createActiveSegment, CreateFails, WriteRecord,
         SyncBatch, AppendFails, Snapshot, ReadNothing, ReadBatch, Project, ProjectFails, Commit,
         CommitFails, maintainStorage, Compact, Close, ProcessCrash, PowerLoss, Start, Stopping,
         Failing, writerVars
<1>3. failures' \in 0..MaxFailures
  BY <1>1, <1>2, Bounds
<1>4. stops' \in 0..MaxStops
  BY <1>1, <1>2, Bounds
<1>5. up' \in BOOLEAN /\ open' \in BOOLEAN
  BY <1>1, <1>2, Zenon
<1> QED BY <1>3, <1>4, <1>5

LEMMA WriterTyped ==
  ASSUME Typed, Next
  PROVE  /\ active' \in Nat /\ todo' \in Seq(Events) /\ issued' \in 0..MaxEvents
         /\ pending' \subseteq Events /\ acked' \subseteq Events
<1>1. /\ active \in Nat /\ todo \in Seq(Events) /\ issued \in 0..MaxEvents
      /\ pending \subseteq Events /\ acked \subseteq Events
  BY DEF Typed, TypeOK
<1>2. Files(disk)
  BY TypedFiles DEF Typed
<1>3. CASE \E n \in 1..MaxBatch : BeginBatch(n)
  <2> PICK n \in 1..MaxBatch : BeginBatch(n)
    BY <1>3
  <2>1. n \in Nat /\ issued \in Nat
    BY <1>1, Bounds
  <2>2. /\ issued + n <= MaxEvents /\ issued' = issued + n
        /\ todo' = [i \in 1..n |-> issued + i] /\ pending' = issued + 1 .. issued + n
        /\ active' = active /\ acked' = acked
    BY DEF BeginBatch
  <2>3. \A i \in 1..n : issued + i \in Events
    BY <2>1, <2>2, Bounds DEF Events
  <2>4. todo' \in Seq(Events)
    BY <2>1, <2>2, <2>3
  <2>5. pending' \subseteq Events
    BY <2>1, <2>2, Bounds DEF Events
  <2>6. issued' \in 0..MaxEvents
    BY <2>1, <2>2, Bounds
  <2> QED BY <1>1, <2>2, <2>4, <2>5, <2>6
<1>4. CASE createActiveSegment
  BY <1>1, <1>2, <1>4, NextIsLast DEF createActiveSegment, history, Typed
<1>5. CASE Start
  BY <1>1, <1>2, <1>5, LastActiveFacts DEF Start, history, Typed
<1>6. CASE WriteRecord
  <2>1. todo' \in Seq(Events)
    BY <1>1, <1>6 DEF WriteRecord
  <2> QED BY <1>1, <1>6, <2>1 DEF WriteRecord, history
<1>7. CASE SyncBatch
  BY <1>1, <1>7 DEF SyncBatch
<1>8. CASE sealActive \/ SealFails \/ CreateFails \/ AppendFails
  <2>1. <<>> \in Seq(Events)
    OBVIOUS
  <2>2. /\ active' \in {active, 0} /\ todo' \in {todo, <<>>} /\ pending' \in {pending, {}}
        /\ issued' = issued /\ acked' = acked
    BY <1>8 DEF sealActive, SealFails, CreateFails, AppendFails, BatchAbandoned, history
  <2>3. active' \in Nat
    BY <1>1, <2>2
  <2>4. todo' \in Seq(Events)
    BY <1>1, <2>1, <2>2
  <2>5. pending' \subseteq Events
    BY <1>1, <2>2
  <2> QED BY <1>1, <2>2, <2>3, <2>4, <2>5
<1>9. CASE Snapshot \/ ReadNothing \/ Project \/ ProjectFails \/ Commit \/ CommitFails
           \/ maintainStorage
  BY <1>1, <1>9 DEF Snapshot, ReadNothing, Project, ProjectFails, Commit, CommitFails,
                    maintainStorage, writerVars, history
<1>10. CASE \E p \in Readable : ReadBatch(p)
  BY <1>1, <1>10 DEF ReadBatch, writerVars, history
<1>11. CASE \E last \in DOMAIN disk : Compact(last)
  BY <1>1, <1>11 DEF Compact, writerVars, history
<1>12. CASE Close \/ ProcessCrash \/ PowerLoss
  <2>1. <<>> \in Seq(Events) /\ 0 \in Nat
    OBVIOUS
  <2>2. active' = 0 /\ todo' = <<>> /\ pending' = {} /\ issued' = issued /\ acked' = acked
    BY <1>12 DEF Close, ProcessCrash, PowerLoss, Stopping, history
  <2> QED BY <1>1, <2>1, <2>2
<1> QED BY <1>3, <1>4, <1>5, <1>6, <1>7, <1>8, <1>9, <1>10, <1>11, <1>12 DEF Next

LEMMA ReaderTyped ==
  ASSUME Typed, Next
  PROVE  /\ saved' \in Checkpoints /\ checkpoint' \in Checkpoints /\ inflight' \in Checkpoints
         /\ snap' \in Checkpoints /\ next' \in Checkpoints
         /\ rpc' \in {"idle", "snapped", "holding", "projected"}
         /\ held' \subseteq Events /\ delivered' \subseteq Events
<1>1. /\ saved \in Checkpoints /\ checkpoint \in Checkpoints /\ inflight \in Checkpoints
      /\ snap \in Checkpoints /\ next \in Checkpoints
      /\ rpc \in {"idle", "snapped", "holding", "projected"}
      /\ held \subseteq Events /\ delivered \subseteq Events
  BY DEF Typed, TypeOK
<1>2. CASE Snapshot
  <2>1. Files(disk) /\ active \in Nat
    BY TypedFiles DEF Typed, TypeOK
  <2>2. active \in DOMAIN disk => Len(Records(disk, active)) \in Nat
    BY <2>1, SegmentFields DEF Files, Records
  <2>3. snap' \in Checkpoints
    BY <1>2, <2>1, <2>2, AtType DEF Snapshot
  <2> QED BY <1>1, <1>2, <2>3 DEF Snapshot, files, history
<1>3. CASE \E p \in Readable : ReadBatch(p)
  <2> PICK p \in Readable : ReadBatch(p)
    BY <1>3
  <2>1. p \in Checkpoints
    BY VisibleFacts DEF Readable, Typed
  <2>2. held' \subseteq Events
    BY HeldType DEF Typed
  <2> QED BY <1>1, <2>1, <2>2, OriginType DEF ReadBatch, files, history
<1>4. CASE Project
  BY <1>1, <1>4 DEF Project, files
<1>5. CASE Commit
  BY <1>1, <1>5, OriginType DEF Commit, Released, files, history
<1>6. CASE CommitFails \/ ProjectFails \/ ReadNothing
  BY <1>1, <1>6, OriginType DEF CommitFails, ProjectFails, ReadNothing, Released, files, history
<1>7. CASE Close \/ ProcessCrash \/ PowerLoss
  BY <1>1, <1>7, OriginType DEF Close, ProcessCrash, PowerLoss, Stopping, history
<1>8. CASE Start
  BY <1>1, <1>8 DEF Start, history
<1>9. CASE \E n \in 1..MaxBatch : BeginBatch(n)
  BY <1>1, <1>9 DEF BeginBatch, readerVars
<1>10. CASE sealActive \/ SealFails \/ createActiveSegment \/ CreateFails
  BY <1>1, <1>10 DEF sealActive, SealFails, createActiveSegment, CreateFails, readerVars, history
<1>11. CASE WriteRecord \/ SyncBatch \/ AppendFails \/ maintainStorage
  BY <1>1, <1>11 DEF WriteRecord, SyncBatch, AppendFails, maintainStorage, readerVars, history, files
<1>12. CASE \E last \in DOMAIN disk : Compact(last)
  BY <1>1, <1>12 DEF Compact, readerVars, history
<1> QED BY <1>2, <1>3, <1>4, <1>5, <1>6, <1>7, <1>8, <1>9, <1>10, <1>11, <1>12 DEF Next

(* Only a segment that is created, or reopened by a restart, becomes the   *)
(* writer's, and only a failed seal takes it away without letting go.      *)
LEMMA WriterMoves ==
  ASSUME Next
  PROVE  \/ active' = active /\ (open' => open)
         \/ createActiveSegment /\ active' = NextSequence
         \/ active' = 0
         \/ Start /\ active' = LastActive(disk)
BY DEF Next, BeginBatch, sealActive, SealFails, createActiveSegment, CreateFails, WriteRecord,
       SyncBatch, AppendFails, Snapshot, ReadNothing, ReadBatch, Project, ProjectFails, Commit,
       CommitFails, maintainStorage, Compact, Close, ProcessCrash, PowerLoss, Start, Stopping,
       writerVars

LEMMA WriterKept ==
  ASSUME Typed, Next PROVE WriterOpen'
<1>1. Files(disk)
  BY TypedFiles DEF Typed
<1> SUFFICES ASSUME active' # 0, open'
             PROVE  active' \in DOMAIN disk' /\ IsActive(disk', active')
  BY DEF WriterOpen
<1>2. CASE createActiveSegment /\ active' = NextSequence
  <2>1. disk' = WithSegment(disk, NextSequence, EmptySegment)
    BY <1>2 DEF createActiveSegment
  <2>2. NextSequence \in DOMAIN disk' /\ disk'[NextSequence] = EmptySegment
    BY <2>1 DEF WithSegment
  <2> QED BY <1>2, <2>2, EmptyType DEF IsActive
<1>3. CASE Start /\ active' = LastActive(disk)
  <2>1. active' \in DOMAIN disk /\ IsActive(disk, active')
    BY <1>1, <1>3, LastActiveFacts DEF Typed
  <2>2. disk' = Recovered(disk)
    BY <1>3 DEF Start
  <2> QED BY <1>3, <2>1, <2>2 DEF Recovered, IsActive
<1>4. CASE active' = active /\ open
  <2>1. active \in DOMAIN disk /\ disk[active].kind = "active"
    BY <1>4 DEF Typed, WriterOpen, IsActive
  <2>2. CASE FilesGrow
    <3>1. active \notin Committed(disk, checkpoint')
      BY <2>1 DEF Committed, IsActive
    <3>2. active \in DOMAIN disk' /\ (Rests(active) \/ Writes(active))
      BY <2>1, <2>2, <3>1 DEF FilesGrow
    <3>3. disk'[active].kind = disk[active].kind
      BY <1>4, <3>2 DEF Rests, Writes
    <3> QED BY <1>4, <2>1, <3>2, <3>3 DEF IsActive
  <2>3. ASSUME NEW last \in DOMAIN disk, Compact(last)
        PROVE  active' \in DOMAIN disk' /\ IsActive(disk', active')
    BY <1>4, <2>1, <2>3, CompactFiles DEF FilesCompact, IsActive
  <2>4. CASE PowerLoss
    BY <1>4, <2>1, <2>4, CutFiles DEF FilesCut, IsActive
  <2> QED BY <2>2, <2>3, <2>4, WhoGrowsFiles
<1> QED BY <1>2, <1>3, <1>4, WriterMoves

LEMMA TypedStart == Init => Typed
<1> SUFFICES ASSUME Init PROVE Typed
  OBVIOUS
<1>1. DOMAIN disk = {}
  BY DEF Init
<1>2. Bounded(disk) /\ WriterOpen
  <2>1. 0 \in Nat /\ \A s \in DOMAIN disk : s <= 0
    BY <1>1
  <2> QED BY <2>1 DEF Bounded, WriterOpen, Init
<1>3. /\ 0 \in 0..MaxEvents /\ 0 \in 0..MaxFailures /\ 0 \in 0..MaxStops /\ 0 \in Nat
      /\ <<>> \in Seq(Events)
  BY Bounds
<1>4. TypeOK
  <2>1. up \in BOOLEAN /\ open \in BOOLEAN
    BY DEF Init
  <2>2. /\ saved \in Checkpoints /\ checkpoint \in Checkpoints /\ inflight \in Checkpoints
        /\ snap \in Checkpoints /\ next \in Checkpoints
    BY OriginType DEF Init
  <2>3. /\ active \in Nat /\ todo \in Seq(Events) /\ issued \in 0..MaxEvents
        /\ failures \in 0..MaxFailures /\ stops \in 0..MaxStops
        /\ rpc \in {"idle", "snapped", "holding", "projected"}
    BY <1>3 DEF Init
  <2>4. pending = {} /\ held = {} /\ acked = {} /\ delivered = {}
    BY DEF Init
  <2> QED BY <1>1, <2>1, <2>2, <2>3, <2>4 DEF TypeOK
<1> QED BY <1>2, <1>4 DEF Typed

LEMMA TypedStep == ASSUME Typed, [Next]_vars PROVE Typed'
<1>1. CASE UNCHANGED vars
  BY <1>1 DEF vars, files, writerVars, readerVars, history, Typed, TypeOK, Bounded, WriterOpen,
              Records, IsActive
<1>2. CASE Next
  <2>1. Files(disk') /\ Bounded(disk')
    BY <1>2, FilesTyped
  <2>2. /\ failures' \in 0..MaxFailures /\ stops' \in 0..MaxStops
        /\ up' \in BOOLEAN /\ open' \in BOOLEAN
    BY <1>2, CountersTyped DEF Typed
  <2>3. /\ active' \in Nat /\ todo' \in Seq(Events) /\ issued' \in 0..MaxEvents
        /\ pending' \subseteq Events /\ acked' \subseteq Events
    BY <1>2, WriterTyped
  <2>4. /\ saved' \in Checkpoints /\ checkpoint' \in Checkpoints /\ inflight' \in Checkpoints
        /\ snap' \in Checkpoints /\ next' \in Checkpoints
        /\ rpc' \in {"idle", "snapped", "holding", "projected"}
        /\ held' \subseteq Events /\ delivered' \subseteq Events
    BY <1>2, ReaderTyped
  <2>5. TypeOK'
    BY <2>1, <2>2, <2>3, <2>4 DEF TypeOK, Files, SegmentOK, Records
  <2>6. WriterOpen'
    BY <1>2, WriterKept
  <2> QED BY <2>1, <2>5, <2>6 DEF Typed
<1> QED BY <1>1, <1>2

LEMMA AlwaysTyped == Spec => []Typed
<1>1. Typed /\ [Next]_vars => Typed'
  BY TypedStep
<1> QED BY <1>1, TypedStart, PTL DEF Spec

(* Every variable of the spool has its type, and no segment outgrows       *)
(* Segment.MaxSize, however it was sealed, compacted, cut or reopened.     *)
THEOREM SpoolTypes == Spec => []TypeOK
<1>1. Typed => TypeOK
  BY DEF Typed
<1> QED BY <1>1, AlwaysTyped, PTL

-----------------------------------------------------------------------------
(* The batch of the consumer, in the code as it is                         *)

(* What the process keeps in memory is lost when it stops.                 *)
LEMMA AsleepKept == ASSUME Asleep, Next PROVE Asleep'
<1>1. CASE up /\ up'
  BY <1>1 DEF Asleep
<1>2. CASE Close \/ ProcessCrash \/ PowerLoss
  BY <1>2 DEF Asleep, Close, ProcessCrash, PowerLoss, Stopping
<1>3. CASE Start
  BY <1>3 DEF Asleep, Start
<1>4. ASSUME ~up PROVE Close \/ ProcessCrash \/ PowerLoss \/ Start
  BY <1>4 DEF Asleep, Next, BeginBatch, sealActive, SealFails, Overflow, Aged,
       createActiveSegment, CreateFails, WriteRecord, SyncBatch, AppendFails, Snapshot, ReadNothing,
       ReadBatch, Project, ProjectFails, Commit, CommitFails, maintainStorage, Compact
<1>5. ASSUME ~up' PROVE ~up \/ Close \/ ProcessCrash \/ PowerLoss
  BY <1>5 DEF Next, BeginBatch, sealActive, SealFails, createActiveSegment, CreateFails, WriteRecord,
       SyncBatch, AppendFails, Snapshot, ReadNothing, ReadBatch, Project, ProjectFails, Commit,
       CommitFails, maintainStorage, Compact, Start
<1> QED BY <1>1, <1>2, <1>3, <1>4, <1>5

(* A consumer holds a batch that it has just read, or the one it had.      *)
LEMMA HoldsOn ==
  ASSUME Asleep, Next, HoldsBatch'
  PROVE  \/ \E p \in Readable : ReadBatch(p)
         \/ /\ HoldsBatch /\ UNCHANGED <<checkpoint, next, held, inflight, saved>>
            /\ ~PowerLoss /\ (rpc' = "projected" => rpc = "projected" \/ Project)
<1>1. CASE Close \/ ProcessCrash \/ PowerLoss
  BY <1>1 DEF Close, ProcessCrash, PowerLoss, Stopping, HoldsBatch
<1>2. CASE Start
  BY <1>2 DEF Start, Asleep, HoldsBatch
<1>3. CASE Commit \/ CommitFails \/ ProjectFails \/ ReadNothing \/ Snapshot
  BY <1>3 DEF Commit, CommitFails, ProjectFails, ReadNothing, Snapshot, Released, HoldsBatch
<1>4. CASE Project
  BY <1>4 DEF Project, HoldsBatch, files, PowerLoss, Stopping
<1>5. CASE /\ UNCHANGED readerVars /\ saved' = saved /\ ~PowerLoss
  BY <1>5 DEF readerVars, HoldsBatch
<1>6. ASSUME UNCHANGED readerVars, PowerLoss PROVE FALSE
  BY <1>6 DEF PowerLoss, Stopping, HoldsBatch, readerVars
<1>7. CASE \/ \E n \in 1..MaxBatch : BeginBatch(n)
           \/ sealActive \/ SealFails \/ createActiveSegment \/ CreateFails
           \/ WriteRecord \/ SyncBatch \/ AppendFails \/ maintainStorage
           \/ \E last \in DOMAIN disk : Compact(last)
  <2>1. UNCHANGED readerVars /\ saved' = saved
    BY <1>7 DEF BeginBatch, sealActive, SealFails, createActiveSegment, CreateFails, WriteRecord,
                SyncBatch, AppendFails, maintainStorage, Compact, files
  <2> QED BY <2>1, <1>5, <1>6
<1> QED BY <1>1, <1>2, <1>3, <1>4, <1>7 DEF Next

(* Record i of segment s is the event e.                                   *)
Holds(d, s, i, e) ==
    s \in DOMAIN d /\ i \in 1..Len(d[s].records) /\ d[s].records[i] = e

LEMMA HoldsType ==
  ASSUME TypeOK, NEW s, NEW i, NEW e, Holds(disk, s, i, e)
  PROVE  /\ s \in Nat /\ i \in Nat /\ i > 0 /\ e \in Events
         /\ At(s, i) \in Checkpoints /\ At(s, i).segment = s /\ At(s, i).record = i
         /\ SegmentOK(disk[s])
<1>1. s \in Nat /\ SegmentOK(disk[s])
  BY TypedFiles DEF Files, Holds
<1>2. i \in Nat /\ i > 0 /\ e \in Events
  BY <1>1, SegmentFields DEF Holds
<1> QED BY <1>1, <1>2, AtType

(* The events between two checkpoints.                                     *)
Lies(d, lo, hi, e) ==
    \E s, i : /\ Holds(d, s, i, e)
              /\ checkpointLess(lo, At(s, i)) /\ ~checkpointLess(hi, At(s, i))

LEMMA EventsBetween ==
  ASSUME NEW lo, NEW hi, NEW e
  PROVE  e \in EventsAt(Positions(lo, hi)) <=> Lies(disk, lo, hi, e)
<1>1. ASSUME e \in EventsAt(Positions(lo, hi)) PROVE Lies(disk, lo, hi, e)
  <2>1. PICK p \in Positions(lo, hi) : e = Records(disk, p.segment)[p.record]
    BY <1>1 DEF EventsAt
  <2>2. PICK s \in DOMAIN disk : \E i \in 1..Len(Records(disk, s)) : p = At(s, i)
    BY <2>1 DEF Positions
  <2>3. PICK i \in 1..Len(Records(disk, s)) : p = At(s, i)
    BY <2>2
  <2>4. p.segment = s /\ p.record = i
    BY <2>3 DEF At
  <2>5. Holds(disk, s, i, e)
    BY <2>1, <2>3, <2>4 DEF Holds, Records
  <2> QED BY <2>1, <2>3, <2>5 DEF Lies, Positions
<1>2. ASSUME Lies(disk, lo, hi, e) PROVE e \in EventsAt(Positions(lo, hi))
  <2>1. PICK s, i : /\ Holds(disk, s, i, e)
                    /\ checkpointLess(lo, At(s, i)) /\ ~checkpointLess(hi, At(s, i))
    BY <1>2 DEF Lies
  <2>2. At(s, i) \in Positions(lo, hi)
    BY <2>1 DEF Positions, Holds, Records
  <2>3. Records(disk, At(s, i).segment)[At(s, i).record] = e
    BY <2>1 DEF Holds, Records, At
  <2> QED BY <2>2, <2>3 DEF EventsAt
<1> QED BY <1>1, <1>2

(* A record after the checkpoint is neither removed nor moved, except by   *)
(* compaction and by a loss of power.                                      *)
LEMMA RecordStays ==
  ASSUME Typed, FilesGrow, checkpoint' \in Checkpoints, NEW s, NEW i, NEW e,
         Holds(disk, s, i, e), checkpointLess(checkpoint', At(s, i))
  PROVE  Holds(disk', s, i, e) /\ disk[s].synced <= disk'[s].synced /\ (Rests(s) \/ Writes(s))
<1>1. /\ s \in DOMAIN disk /\ s \in Nat /\ i \in Nat /\ SegmentOK(disk[s]) /\ e \in Events
      /\ At(s, i).segment = s /\ At(s, i).record = i /\ i \in 1..Len(disk[s].records)
  BY HoldsType DEF Typed, Holds
<1>2. disk[s].records \in Seq(Events) /\ Len(disk[s].records) \in Nat /\ disk[s].synced \in Nat
  BY <1>1, SegmentFields
<1>3. s \notin Committed(disk, checkpoint')
  <2>1. checkpoint'.segment \in Nat /\ checkpoint'.record \in Nat
    BY CheckpointFields
  <2> QED BY <1>1, <1>2, <2>1 DEF Committed, checkpointLess, Records
<1>4. s \in DOMAIN disk' /\ (Rests(s) \/ Writes(s))
  BY <1>1, <1>3 DEF FilesGrow
<1>5. CASE Rests(s)
  BY <1>1, <1>4, <1>5 DEF Rests, Holds
<1>6. CASE Writes(s)
  <2>1. Head(todo) \in Events
    <3>1. todo \in Seq(Events) /\ todo # <<>>
      BY <1>6 DEF Writes, Typed, TypeOK
    <3> QED BY <3>1
  <2>2. disk'[s].records = Append(disk[s].records, Head(todo)) /\ disk'[s].synced = disk[s].synced
    BY <1>6 DEF Writes
  <2>3. i \in 1..Len(disk'[s].records) /\ disk'[s].records[i] = disk[s].records[i]
    BY <1>1, <1>2, <2>1, <2>2
  <2> QED BY <1>1, <1>2, <1>4, <2>2, <2>3 DEF Holds
<1> QED BY <1>4, <1>5, <1>6

(* Compaction keeps away from what a consumer may have read.               *)
LEMMA RecordSpared ==
  ASSUME Typed, NEW last, Compact(last), NEW s, NEW i, NEW e,
         Holds(disk, s, i, e), s <= Horizon
  PROVE  Holds(disk', s, i, e) /\ disk'[s] = disk[s]
<1>1. s \in Nat /\ Horizon \in Nat
  BY HoldsType, CheckpointFields, TypedReader DEF Typed, Horizon
<1>2. ~(Horizon < s)
  BY <1>1
<1>3. s \in DOMAIN disk /\ FilesCompact(last)
  BY CompactFiles DEF Holds
<1> QED BY <1>2, <1>3 DEF FilesCompact, Holds

LEMMA HorizonCovers ==
  ASSUME TypeOK, NEW p \in Checkpoints, ~checkpointLess(inflight, p) \/ ~checkpointLess(checkpoint, p)
  PROVE  p.segment <= Horizon
<1>1. inflight \in Checkpoints /\ checkpoint \in Checkpoints
  BY TypedReader
<1>2. p.segment <= inflight.segment \/ p.segment <= checkpoint.segment
  BY <1>1, LessOrder
<1> QED BY <1>1, <1>2, CheckpointFields DEF Horizon

(* A record that the consumer's batch covers stays where it is.            *)
LEMMA BatchRecordStays ==
  ASSUME Typed, Next, ~PowerLoss, BatchKept, HoldsBatch, UNCHANGED <<checkpoint, next, inflight>>,
         NEW s, NEW i, NEW e, Holds(disk, s, i, e),
         checkpointLess(checkpoint, At(s, i)), ~checkpointLess(next, At(s, i))
  PROVE  Holds(disk', s, i, e) /\ disk[s].synced <= disk'[s].synced
<1>1. /\ At(s, i) \in Checkpoints /\ At(s, i).segment = s /\ checkpoint \in Checkpoints
      /\ next \in Checkpoints /\ inflight \in Checkpoints /\ SegmentOK(disk[s]) /\ s \in Nat
  BY HoldsType, TypedReader DEF Typed
<1>2. CASE FilesGrow
  BY <1>1, <1>2, RecordStays
<1>3. ASSUME NEW last \in DOMAIN disk, Compact(last)
      PROVE  Holds(disk', s, i, e) /\ disk[s].synced <= disk'[s].synced
  <2>1. ~checkpointLess(inflight, next)
    BY DEF BatchKept
  <2>2. ~checkpointLess(inflight, At(s, i))
    BY <1>1, <2>1, LessOrder
  <2>3. s <= Horizon
    BY <1>1, <2>2, HorizonCovers DEF Typed
  <2> QED BY <1>1, <1>3, <2>3, RecordSpared, SegmentFields
<1> QED BY <1>2, <1>3, WhoGrowsFiles

(* What ReadBatch returns.                                                 *)
LEMMA BatchRead ==
  ASSUME Typed, NEW p \in Readable, ReadBatch(p)
  PROVE  /\ p \in Checkpoints /\ p \in Visible /\ next' = p /\ checkpoint' = checkpoint /\ disk' = disk
         /\ \A e : e \in held' <=> \E q \in Visible : /\ ~checkpointLess(p, q)
                                                      /\ Holds(disk, q.segment, q.record, e)
         /\ BatchKept'
<1>1. /\ p \in Visible /\ next' = p /\ checkpoint' = checkpoint /\ disk' = disk
      /\ held' = {Records(disk, q.segment)[q.record] : q \in Window(p)}
      /\ inflight' = IF checkpointLess(inflight, p) THEN p ELSE inflight
  BY DEF Readable, ReadBatch, files
<1>2. /\ p \in Checkpoints /\ p.segment \in DOMAIN disk
      /\ p.record \in 1..Len(disk[p.segment].records) /\ checkpointLess(checkpoint, p)
  BY <1>1, VisibleFacts DEF Typed
<1>3. ~checkpointLess(inflight', p)
  BY <1>1, <1>2, LessOrder
<1>4. BatchKept'
  BY <1>1, <1>2, <1>3 DEF BatchKept, Records
<1>5. ASSUME NEW e
      PROVE  e \in held' <=> \E q \in Visible : /\ ~checkpointLess(p, q)
                                                /\ Holds(disk, q.segment, q.record, e)
  <2>1. \A q \in Visible : /\ q.segment \in DOMAIN disk
                           /\ q.record \in 1..Len(disk[q.segment].records)
    BY VisibleFacts DEF Typed
  <2> QED BY <1>1, <2>1 DEF Window, Holds, Records
<1> QED BY <1>1, <1>2, <1>4, <1>5

LEMMA BatchStaysKept ==
  ASSUME Typed, Asleep, BatchKept, Next PROVE BatchKept'
<1> SUFFICES ASSUME HoldsBatch' PROVE BatchKept'
  BY DEF BatchKept
<1>1. CASE \E p \in Readable : ReadBatch(p)
  BY <1>1, BatchRead
<1>2. CASE HoldsBatch /\ UNCHANGED <<checkpoint, next, held, inflight, saved>> /\ ~PowerLoss
  <2> DEFINE s == next.segment
             i == next.record
             e == disk[s].records[i]
  <2>1. Holds(disk, s, i, e) /\ checkpointLess(checkpoint, next) /\ ~checkpointLess(inflight, next)
    BY <1>2 DEF BatchKept, Holds, Records
  <2>2. next \in Checkpoints
    BY TypedReader DEF Typed
  <2>3. next = At(s, i)
    BY <2>2 DEF Checkpoints, At
  <2>4. ~checkpointLess(next, next)
    BY <2>2, LessOrder
  <2> HIDE DEF s, i, e
  <2>5. Holds(disk', s, i, e)
    BY <1>2, <2>1, <2>3, <2>4, BatchRecordStays
  <2> QED BY <1>2, <2>1, <2>5 DEF BatchKept, Holds, Records, s, i
<1> QED BY <1>1, <1>2, HoldsOn

(* The events of the batch are all between the checkpoint and its Next.    *)
BatchLies == HoldsBatch => \A e \in held : Lies(disk, checkpoint, next, e)

LEMMA BatchStaysIntact ==
  ASSUME Typed, Asleep, BatchKept, BatchLies, Next PROVE BatchLies'
<1> SUFFICES ASSUME HoldsBatch', NEW e \in held' PROVE Lies(disk', checkpoint', next', e)
  BY DEF BatchLies
<1>1. ASSUME NEW p \in Readable, ReadBatch(p) PROVE Lies(disk', checkpoint', next', e)
  <2>1. PICK q \in Visible : ~checkpointLess(p, q) /\ Holds(disk, q.segment, q.record, e)
    BY <1>1, BatchRead
  <2>2. q = At(q.segment, q.record) /\ checkpointLess(checkpoint, q)
    BY VisibleFacts DEF Typed
  <2>3. Lies(disk, checkpoint, p, e)
    BY <2>1, <2>2 DEF Lies
  <2> QED BY <1>1, <2>3, BatchRead
<1>2. CASE HoldsBatch /\ UNCHANGED <<checkpoint, next, held, inflight, saved>> /\ ~PowerLoss
  <2>1. PICK s, i : /\ Holds(disk, s, i, e)
                    /\ checkpointLess(checkpoint, At(s, i)) /\ ~checkpointLess(next, At(s, i))
    BY <1>2 DEF BatchLies, Lies
  <2>2. Holds(disk', s, i, e)
    BY <1>2, <2>1, BatchRecordStays
  <2> QED BY <1>2, <2>1, <2>2 DEF Lies
<1> QED BY <1>1, <1>2, HoldsOn

ConsumerInv == Typed /\ Asleep /\ BatchKept /\ BatchLies

LEMMA ConsumerStart == Init => ConsumerInv
<1> SUFFICES ASSUME Init PROVE ConsumerInv
  OBVIOUS
<1>1. ~HoldsBatch
  BY DEF Init, HoldsBatch
<1> QED BY <1>1, TypedStart DEF ConsumerInv, Asleep, BatchKept, BatchLies, Init

LEMMA ConsumerStep == ASSUME ConsumerInv, [Next]_vars PROVE ConsumerInv'
<1>1. Typed'
  BY TypedStep DEF ConsumerInv
<1>2. CASE UNCHANGED vars
  BY <1>1, <1>2 DEF vars, files, writerVars, readerVars, history, ConsumerInv, Asleep, BatchKept,
     BatchLies, HoldsBatch, Records
<1>3. CASE Next
  BY <1>1, <1>3, AsleepKept, BatchStaysKept, BatchStaysIntact DEF ConsumerInv
<1> QED BY <1>2, <1>3

LEMMA ConsumerSafe == Spec => []ConsumerInv
<1>1. ConsumerInv /\ [Next]_vars => ConsumerInv'
  BY ConsumerStep
<1> QED BY <1>1, ConsumerStart, PTL DEF Spec

(* What a consumer has read and not committed stays in the files between   *)
(* the checkpoint and the batch's Next, whatever faults there are: neither *)
(* clean-up, compaction, sealing nor a failed operation reaches it.        *)
THEOREM ReadIsNotLost == Spec => []BatchIntact
<1>1. ConsumerInv => BatchIntact
  BY EventsBetween DEF ConsumerInv, BatchLies, BatchIntact
<1> QED BY <1>1, ConsumerSafe, PTL

(* Commit never refuses the checkpoint of a batch that was projected, so   *)
(* the consumer does not project the same batch over and over.             *)
THEOREM ProjectedIsAccepted == Spec => []CommitAccepted
<1>1. ConsumerInv => CommitAccepted
  <2> SUFFICES ASSUME ConsumerInv, rpc = "projected" PROVE Acceptable(next)
    BY DEF CommitAccepted
  <2>1. /\ checkpointLess(checkpoint, next) /\ next.segment \in DOMAIN disk
        /\ next.record \in 1..Len(Records(disk, next.segment))
    BY DEF ConsumerInv, BatchKept, HoldsBatch
  <2>2. checkpoint \in Checkpoints /\ next \in Checkpoints
    BY TypedReader DEF ConsumerInv, Typed
  <2>3. ~checkpointLess(next, checkpoint)
    BY <2>1, <2>2, LessOrder
  <2>4. next.record <= Len(Records(disk, next.segment))
    BY <2>1
  <2> QED BY <2>1, <2>3, <2>4 DEF Acceptable, validateCheckpoint
<1> QED BY <1>1, ConsumerSafe, PTL

-----------------------------------------------------------------------------
(* What a commit passes over.  This needs a reader that does not skip the  *)
(* tail of a segment and a directory without orphans; segments may be      *)
(* renumbered and unsynced records read.                                   *)

LEMMA WriterLetsGo ==
  ASSUME Next, up, up', active' # active
  PROVE  (createActiveSegment /\ active = 0) \/ sealActive
BY DEF Next, BeginBatch, sealActive, SealFails, createActiveSegment, CreateFails, WriteRecord,
       SyncBatch, AppendFails, Snapshot, ReadNothing, ReadBatch, Project, ProjectFails, Commit,
       CommitFails, maintainStorage, Compact, Close, ProcessCrash, PowerLoss, Start, Stopping,
       writerVars

LEMMA WakesUp == ASSUME Next, ~up, up' PROVE Start
BY DEF Next, BeginBatch, sealActive, SealFails, createActiveSegment, CreateFails, WriteRecord,
       SyncBatch, AppendFails, Snapshot, ReadNothing, ReadBatch, Project, ProjectFails, Commit,
       CommitFails, maintainStorage, Compact, Close, ProcessCrash, PowerLoss, Start, Stopping

(* A segment becomes active when it is created, and never again.           *)
LEMMA ActiveBefore ==
  ASSUME Typed, Next, NEW s \in DOMAIN disk', IsActive(disk', s), s \in DOMAIN disk
  PROVE  IsActive(disk, s)
<1>1. CASE FilesGrow
  BY <1>1 DEF FilesGrow, Rests, Writes, IsActive
<1>2. ASSUME NEW last \in DOMAIN disk, Compact(last) PROVE IsActive(disk, s)
  BY <1>2, CompactFiles, CompactedSegment, TypedFiles DEF FilesCompact, Typed, Files, IsActive
<1>3. CASE PowerLoss
  BY <1>3, CutFiles DEF FilesCut, IsActive
<1> QED BY <1>1, <1>2, <1>3, WhoGrowsFiles

(* A new segment comes after all the others; there is one only when the    *)
(* writer has none, and without orphans the writer takes it.               *)
LEMMA SegmentAdded ==
  ASSUME Typed, Next, NEW s \in DOMAIN disk' \ DOMAIN disk
  PROVE  /\ s = NextSequence /\ MayNumber(s) /\ todo # <<>> /\ active = 0
         /\ disk'[s] = EmptySegment /\ todo' \in {todo, <<>>}
         /\ active' = s \/ "orphan" \in Faults
         /\ s \in Nat \ {0} /\ \A t \in DOMAIN disk : t \in Nat /\ t < s
         /\ \A t \in DOMAIN disk' \ DOMAIN disk : t = s
<1>1. FilesGrow
  BY WhoGrowsFiles, CompactFiles, CutFiles DEF FilesCompact, FilesCut
<1>2. Files(disk)
  BY TypedFiles DEF Typed
<1>3. NextSequence \in Nat \ {0} /\ \A t \in DOMAIN disk : t \in Nat /\ t < NextSequence
  BY <1>2, NextIsLast DEF Typed, Files
<1>4. s = NextSequence /\ \A t \in DOMAIN disk' \ DOMAIN disk : t = NextSequence
  BY <1>1 DEF FilesGrow
<1> QED BY <1>1, <1>3, <1>4 DEF FilesGrow

LEMMA ActiveStaysLast ==
  ASSUME "orphan" \notin Faults, Typed, Asleep, ActiveLast, Next PROVE ActiveLast'
<1> SUFFICES ASSUME NEW s \in DOMAIN disk', IsActive(disk', s)
             PROVE  (\A t \in DOMAIN disk' : t <= s) /\ (up' => s = active')
  BY DEF ActiveLast
<1>0. Files(disk) /\ Files(disk')
  BY TypedFiles, FilesTyped DEF Typed
<1>1. CASE s \in DOMAIN disk
  <2>1. IsActive(disk, s) /\ s \in Nat \ {0}
    BY <1>0, <1>1, ActiveBefore DEF Files
  <2>2. (\A t \in DOMAIN disk : t <= s) /\ (up => s = active)
    BY <1>1, <2>1 DEF ActiveLast
  <2>3. DOMAIN disk' \subseteq DOMAIN disk
    <3> SUFFICES ASSUME NEW t \in DOMAIN disk' \ DOMAIN disk PROVE FALSE
      OBVIOUS
    <3>1. active = 0 /\ todo # <<>>
      BY SegmentAdded
    <3>2. up
      BY <3>1 DEF Asleep
    <3> QED BY <2>1, <2>2, <3>1, <3>2
  <2>4. ASSUME up' PROVE s = active'
    <3>1. CASE ~up
      <4>1. disk' = Recovered(disk) /\ active' = LastActive(disk)
        BY <2>4, <3>1, WakesUp DEF Start
      <4>2. s # LastActive(disk) => disk'[s].kind = "ready"
        <5>1. disk[s] \in Segment
          BY <1>0, <1>1 DEF Files, SegmentOK
        <5> QED BY <1>1, <2>1, <4>1, <5>1 DEF Recovered, Segment
      <4> QED BY <4>1, <4>2 DEF IsActive
    <3>2. CASE up
      <4>1. CASE active' = active
        BY <2>2, <3>2, <4>1
      <4>2. CASE createActiveSegment /\ active = 0
        BY <2>1, <2>2, <3>2, <4>2
      <4>3. CASE sealActive
        <5>1. disk' = [disk EXCEPT ![active] = Sealed(disk[active])]
          BY <4>3 DEF sealActive
        <5>2. disk'[s] = Sealed(disk[s]) /\ SegmentOK(disk[s])
          BY <1>0, <1>1, <2>2, <3>2, <5>1 DEF Files
        <5>3. Sealed(disk[s]).kind = "ready"
          BY <5>2, SealedSegment
        <5> QED BY <5>2, <5>3 DEF IsActive
      <4> QED BY <2>4, <3>2, <4>1, <4>2, <4>3, WriterLetsGo
    <3> QED BY <3>1, <3>2
  <2> QED BY <2>2, <2>3, <2>4
<1>2. CASE s \notin DOMAIN disk
  <2>1. /\ active' = s /\ s \in Nat /\ \A t \in DOMAIN disk : t \in Nat /\ t < s
        /\ \A t \in DOMAIN disk' \ DOMAIN disk : t = s
    BY <1>2, SegmentAdded
  <2>2. ASSUME NEW t \in DOMAIN disk' PROVE t <= s
    <3>1. CASE t \in DOMAIN disk
      BY <2>1, <3>1
    <3>2. CASE t \notin DOMAIN disk
      BY <2>1, <3>2
    <3> QED BY <3>1, <3>2
  <2> QED BY <2>1, <2>2
<1> QED BY <1>1, <1>2

(* What is written next comes after every checkpoint on the files.         *)
LEMMA NextAfter ==
  ASSUME Typed, ActiveLast, FilesGrow, NEW s \in DOMAIN disk \cap DOMAIN disk', Writes(s),
         NEW p \in Checkpoints, p.segment \in DOMAIN disk,
         p.record <= Len(disk[p.segment].records)
  PROVE  /\ IsActive(disk, s) /\ checkpointLess(p, At(s, Len(disk[s].records) + 1))
<1>1. Files(disk) /\ s \in Nat \ {0} /\ SegmentOK(disk[s]) /\ p.segment \in Nat
  BY TypedFiles DEF Typed, Files
<1>2. IsActive(disk, s)
  BY <1>1 DEF Writes, Typed, WriterOpen
<1>3. p.segment <= s
  BY <1>2 DEF ActiveLast
<1>4. Len(disk[s].records) \in Nat /\ Len(disk[s].records) + 1 \in Nat
  BY <1>1, SegmentFields
<1>5. /\ At(s, Len(disk[s].records) + 1).segment = s
      /\ At(s, Len(disk[s].records) + 1).record = Len(disk[s].records) + 1
  BY <1>1, <1>4, AtType
<1>6. p.record \in Nat
  BY CheckpointFields
<1> QED BY <1>1, <1>2, <1>3, <1>4, <1>5, <1>6 DEF checkpointLess

(* Where a record of the files was before the step: it is an old one, or   *)
(* the one that the writer has just added.                                 *)
LEMMA RecordWas ==
  ASSUME Typed, FilesGrow, NEW s, NEW i, NEW e, Holds(disk', s, i, e)
  PROVE  \/ Holds(disk, s, i, e)
         \/ /\ s \in DOMAIN disk \cap DOMAIN disk' /\ Writes(s)
            /\ i = Len(disk[s].records) + 1 /\ e = Head(todo)
<1>1. s \in DOMAIN disk' /\ i \in 1..Len(disk'[s].records) /\ disk'[s].records[i] = e
  BY DEF Holds
<1>2. CASE s \notin DOMAIN disk
  <2>1. disk'[s] = EmptySegment
    BY <1>1, <1>2 DEF FilesGrow
  <2>2. Len(disk'[s].records) = 0
    BY <2>1, EmptyType
  <2> QED BY <1>1, <2>2
<1>3. CASE s \in DOMAIN disk
  <2>1. SegmentOK(disk[s])
    BY <1>3, TypedFiles DEF Typed, Files
  <2>2. disk[s].records \in Seq(Events) /\ Len(disk[s].records) \in Nat
    BY <2>1, SegmentFields
  <2>3. CASE Rests(s)
    BY <1>1, <1>3, <2>3 DEF Rests, Holds
  <2>4. CASE Writes(s)
    <3>1. Head(todo) \in Events
      <4>1. todo \in Seq(Events) /\ todo # <<>>
        BY <2>4 DEF Writes, Typed, TypeOK
      <4> QED BY <4>1
    <3>2. disk'[s].records = Append(disk[s].records, Head(todo))
      BY <2>4 DEF Writes
    <3>3. Len(disk'[s].records) = Len(disk[s].records) + 1
      BY <2>2, <3>1, <3>2
    <3>4. CASE i = Len(disk[s].records) + 1
      <4>1. e = Head(todo)
        BY <1>1, <2>2, <3>1, <3>2, <3>4
      <4> QED BY <1>1, <1>3, <2>4, <3>4, <4>1
    <3>5. CASE i # Len(disk[s].records) + 1
      <4>1. i \in 1..Len(disk[s].records)
        BY <1>1, <2>2, <3>3, <3>5
      <4>2. disk'[s].records[i] = disk[s].records[i]
        BY <2>2, <3>1, <3>2, <4>1
      <4> QED BY <1>1, <1>3, <4>1, <4>2 DEF Holds
    <3> QED BY <3>4, <3>5
  <2> QED BY <1>1, <1>3, <2>3, <2>4 DEF FilesGrow
<1> QED BY <1>2, <1>3

BatchWhole == HoldsBatch => \A e : Lies(disk, checkpoint, next, e) => e \in held

LEMMA BatchStaysWhole ==
  ASSUME "skip" \notin Faults, ConsumerInv, ActiveLast, BatchWhole, Next PROVE BatchWhole'
<1> SUFFICES ASSUME HoldsBatch', NEW e, Lies(disk', checkpoint', next', e) PROVE e \in held'
  BY DEF BatchWhole
<1>0. Typed /\ TypeOK /\ Asleep /\ BatchKept
  BY DEF ConsumerInv, Typed
<1>1. PICK s, i : /\ Holds(disk', s, i, e)
                  /\ checkpointLess(checkpoint', At(s, i)) /\ ~checkpointLess(next', At(s, i))
  BY DEF Lies
<1>2. ASSUME NEW p \in Readable, ReadBatch(p) PROVE e \in held'
  <2> DEFINE q == At(s, i)
  <2>1. /\ p \in Checkpoints /\ p \in Visible /\ next' = p /\ checkpoint' = checkpoint /\ disk' = disk
        /\ \A f : f \in held' <=> \E r \in Visible : /\ ~checkpointLess(p, r)
                                                     /\ Holds(disk, r.segment, r.record, f)
    BY <1>0, <1>2, BatchRead
  <2>2. Holds(disk, s, i, e) /\ checkpointLess(checkpoint, q) /\ ~checkpointLess(p, q)
    BY <1>1, <2>1
  <2>3. /\ q \in Checkpoints /\ q.segment = s /\ q.record = i /\ s \in DOMAIN disk
        /\ i \in 1..Len(Records(disk, s)) /\ s \in Nat /\ i \in Nat
    BY <1>0, <2>2, HoldsType DEF Holds, Records
  <2>4. ~SkipsTail(p) /\ (p.segment = snap.segment => p.record <= snap.record)
    BY <2>1 DEF Readable, Visible
  <2>5. ASSUME s = snap.segment PROVE i <= snap.record
    <3>1. snap \in Checkpoints /\ snap.segment \in Nat /\ snap.record \in Nat
      BY <1>0, TypedReader, CheckpointFields
    <3>2. p.segment \in Nat /\ p.record \in Nat
      BY <2>1, CheckpointFields
    <3>3. Len(Records(disk, s)) \in Nat
      BY <1>0, <2>2, HoldsType, SegmentFields DEF Records
    <3>4. CASE snap.segment < p.segment
      <4>1. ~(snap.record < Len(Records(disk, snap.segment)))
        BY <2>3, <2>4, <2>5, <3>4 DEF SkipsTail
      <4> QED BY <2>3, <2>5, <3>1, <3>3, <4>1
    <3>5. CASE snap.segment = p.segment
      BY <2>2, <2>3, <2>4, <2>5, <3>1, <3>2, <3>5 DEF checkpointLess
    <3>6. CASE p.segment < snap.segment
      BY <2>2, <2>3, <2>5, <3>1, <3>2, <3>6 DEF checkpointLess
    <3> QED BY <3>1, <3>2, <3>4, <3>5, <3>6
  <2>6. q \in Visible
    BY <2>2, <2>3, <2>5 DEF Visible
  <2> QED BY <2>1, <2>2, <2>3, <2>6
<1>3. CASE HoldsBatch /\ UNCHANGED <<checkpoint, next, held, inflight, saved>> /\ ~PowerLoss
  <2>1. /\ checkpointLess(checkpoint, next) /\ ~checkpointLess(inflight, next)
        /\ next.segment \in DOMAIN disk /\ next.record <= Len(disk[next.segment].records)
    BY <1>0, <1>3 DEF BatchKept, Records
  <2>2. next \in Checkpoints /\ inflight \in Checkpoints
    BY <1>0, TypedReader
  <2>3. Holds(disk, s, i, e)
    <3>1. CASE FilesGrow
      <4>1. ASSUME /\ s \in DOMAIN disk \cap DOMAIN disk' /\ Writes(s)
                   /\ i = Len(disk[s].records) + 1
            PROVE  FALSE
        BY <1>0, <1>1, <1>3, <2>1, <2>2, <3>1, <4>1, NextAfter
      <4> QED BY <1>0, <1>1, <3>1, <4>1, RecordWas
    <3>2. ASSUME NEW last \in DOMAIN disk, Compact(last) PROVE Holds(disk, s, i, e)
      <4>1. FilesCompact(last)
        BY <3>2, CompactFiles
      <4>2. s \in DOMAIN disk /\ s \in Nat
        BY <1>0, <1>1, <4>1, TypedFiles DEF FilesCompact, Holds, Files
      <4>3. At(s, i).segment = s
        BY DEF At
      <4>4. next.segment <= Horizon /\ Horizon \in Nat /\ next.segment \in Nat
        BY <1>0, <2>1, <2>2, HorizonCovers, CheckpointFields, TypedReader DEF Horizon
      <4>5. s <= next.segment
        BY <1>1, <1>3, <4>2, <4>3, <4>4 DEF checkpointLess
      <4>6. disk'[s] = disk[s]
        BY <4>1, <4>2, <4>4, <4>5 DEF FilesCompact
      <4> QED BY <1>1, <4>2, <4>6 DEF Holds
    <3> QED BY <1>0, <1>3, <3>1, <3>2, WhoGrowsFiles
  <2>4. Lies(disk, checkpoint, next, e)
    BY <1>1, <1>3, <2>3 DEF Lies
  <2> QED BY <1>3, <2>4 DEF BatchWhole
<1> QED BY <1>0, <1>2, <1>3, HoldsOn

ExactInv == ConsumerInv /\ ActiveLast /\ BatchWhole

LEMMA ExactStart == Init => ExactInv
<1> SUFFICES ASSUME Init PROVE ExactInv
  OBVIOUS
<1>1. ~HoldsBatch /\ DOMAIN disk = {}
  BY DEF Init, HoldsBatch
<1> QED BY <1>1, ConsumerStart DEF ExactInv, ActiveLast, BatchWhole

LEMMA ExactStep ==
  ASSUME {"skip", "orphan"} \cap Faults = {}, ExactInv, [Next]_vars PROVE ExactInv'
<1>1. ConsumerInv'
  BY ConsumerStep DEF ExactInv
<1>2. CASE UNCHANGED vars
  BY <1>1, <1>2 DEF vars, files, writerVars, readerVars, ExactInv, ActiveLast, BatchWhole,
     HoldsBatch, IsActive
<1>3. CASE Next
  <2>1. "skip" \notin Faults /\ "orphan" \notin Faults /\ Typed /\ Asleep
    BY DEF ExactInv, ConsumerInv
  <2> QED BY <1>1, <1>3, <2>1, ActiveStaysLast, BatchStaysWhole DEF ExactInv
<1> QED BY <1>2, <1>3

(* A commit passes over exactly the events that the consumer was given,    *)
(* unless a read skips the tail of a segment or a failed creation leaves   *)
(* an orphan; renumbered segments and unsynced reads do no harm to this.   *)
THEOREM CommitsWhatWasRead ==
  ASSUME {"skip", "orphan"} \cap Faults = {} PROVE Spec => []CommitExact
<1>1. ExactInv /\ [Next]_vars => ExactInv'
  BY ExactStep
<1>2. ExactInv => CommitExact
  BY EventsBetween DEF ExactInv, ConsumerInv, BatchLies, BatchWhole, CommitExact
<1> QED BY <1>1, <1>2, ExactStart, PTL DEF Spec

-----------------------------------------------------------------------------
(* The promise of Append, without faults                                   *)

LEMMA SavedMoves ==
  ASSUME Next
  PROVE  \/ /\ rpc = "projected" /\ Acceptable(next)
            /\ saved' = next /\ checkpoint' = next
         \/ /\ rpc = "projected" /\ saved' = next
            /\ UNCHANGED <<disk, checkpoint, inflight>>
         \/ saved' = saved /\ checkpoint' = saved
         \/ /\ saved' = saved /\ checkpoint' = checkpoint
            /\ inflight' = inflight \/ \E p \in Readable : ReadBatch(p)
<1>1. CASE Commit \/ CommitFails
  BY <1>1 DEF Commit, CommitFails, files
<1>2. CASE Close \/ ProcessCrash \/ PowerLoss \/ Start
  BY <1>2 DEF Close, ProcessCrash, PowerLoss, Start, Stopping
<1>3. CASE \E p \in Readable : ReadBatch(p)
  BY <1>3 DEF ReadBatch, files
<1>4. CASE Snapshot \/ ReadNothing \/ Project \/ ProjectFails
  BY <1>4 DEF Snapshot, ReadNothing, Project, ProjectFails, files
<1>5. CASE \/ \E n \in 1..MaxBatch : BeginBatch(n)
           \/ sealActive \/ SealFails \/ createActiveSegment \/ CreateFails
           \/ WriteRecord \/ SyncBatch \/ AppendFails \/ maintainStorage
           \/ \E last \in DOMAIN disk : Compact(last)
  BY <1>5 DEF BeginBatch, sealActive, SealFails, createActiveSegment, CreateFails, WriteRecord,
              SyncBatch, AppendFails, maintainStorage, Compact, files, readerVars
<1> QED BY <1>1, <1>2, <1>3, <1>4, <1>5 DEF Next

LEMMA DeliveredGrows ==
  ASSUME Next PROVE delivered \subseteq delivered' /\ (Project => held \subseteq delivered')
<1>1. delivered' = delivered \/ (Project /\ delivered' = delivered \cup held)
  BY DEF Next, BeginBatch, sealActive, SealFails, createActiveSegment, CreateFails, WriteRecord,
         SyncBatch, AppendFails, Snapshot, ReadNothing, ReadBatch, Project, ProjectFails, Commit,
         CommitFails, maintainStorage, Compact, Close, ProcessCrash, PowerLoss, Start, Stopping,
         history
<1>2. Project => delivered' = delivered \cup held
  BY DEF Project
<1> QED BY <1>1, <1>2

(* A segment that a consumer may have read only becomes more durable.      *)
LEMMA SyncedGrows ==
  ASSUME Typed, Next, NEW s \in DOMAIN disk \cap DOMAIN disk', s <= Horizon
  PROVE  disk[s].synced <= disk'[s].synced
<1>1. SegmentOK(disk[s]) /\ s \in Nat
  BY TypedFiles DEF Typed, Files
<1>2. disk[s].synced \in Nat
  BY <1>1, SegmentFields
<1>3. CASE FilesGrow
  BY <1>2, <1>3 DEF FilesGrow, Rests, Writes
<1>4. ASSUME NEW last \in DOMAIN disk, Compact(last) PROVE disk[s].synced <= disk'[s].synced
  <2>1. Horizon \in Nat
    BY CheckpointFields, TypedReader DEF Typed, Horizon
  <2>2. disk'[s] = disk[s]
    BY <1>1, <1>4, <2>1, CompactFiles DEF FilesCompact
  <2> QED BY <1>2, <2>2
<1>5. CASE PowerLoss
  BY <1>5, CutFiles DEF FilesCut
<1> QED BY <1>3, <1>4, <1>5, WhoGrowsFiles

(* The checkpoints that SavedAhead speaks of lie within the horizon, and   *)
(* not on a segment that is yet to be created.                             *)
LEMMA SavedCovered ==
  ASSUME ConsumerInv, SavedAhead
  PROVE  /\ saved \in Checkpoints /\ next \in Checkpoints /\ checkpoint \in Checkpoints
         /\ inflight \in Checkpoints
         /\ saved.segment <= Horizon
         /\ HoldsBatch => next.segment <= Horizon
<1>1. /\ saved \in Checkpoints /\ next \in Checkpoints /\ checkpoint \in Checkpoints
      /\ inflight \in Checkpoints /\ TypeOK
  BY TypedReader DEF ConsumerInv, Typed
<1>2. ~checkpointLess(checkpoint, saved) \/ ~checkpointLess(inflight, saved)
  BY <1>1, LessOrder DEF SavedAhead
<1>3. HoldsBatch => ~checkpointLess(inflight, next)
  BY DEF ConsumerInv, BatchKept
<1> QED BY <1>1, <1>2, <1>3, HorizonCovers

LEMMA NewAfterSaved ==
  ASSUME Faults = {}, ConsumerInv, SavedAhead, Next, NEW s \in DOMAIN disk' \ DOMAIN disk
  PROVE  saved.segment < s /\ (HoldsBatch => next.segment < s)
<1>1. Typed /\ saved \in Checkpoints /\ checkpoint \in Checkpoints
  BY SavedCovered DEF ConsumerInv
<1>2. MayNumber(s) /\ \A t \in DOMAIN disk : t \in Nat /\ t < s
  BY <1>1, SegmentAdded
<1>3. s > checkpoint.segment
  BY <1>2 DEF MayNumber
<1>4. saved.segment < s
  <2>1. CASE saved = checkpoint
    BY <1>1, <1>2, <1>3, <2>1, SegmentAdded, CheckpointFields
  <2>2. CASE saved.segment \in DOMAIN disk
    BY <1>2, <2>2
  <2> QED BY <2>1, <2>2 DEF SavedAhead
<1>5. HoldsBatch => next.segment \in DOMAIN disk
  BY DEF ConsumerInv, BatchKept
<1> QED BY <1>2, <1>4, <1>5

LEMMA SavedStaysAhead ==
  ASSUME Faults = {}, ExactInv, SavedAhead, Next PROVE SavedAhead'
<1>1. /\ ConsumerInv /\ Typed /\ TypeOK /\ Asleep /\ BatchKept /\ ActiveLast
      /\ saved \in Checkpoints /\ next \in Checkpoints /\ checkpoint \in Checkpoints
      /\ inflight \in Checkpoints
      /\ saved.segment <= Horizon /\ (HoldsBatch => next.segment <= Horizon)
  BY SavedCovered DEF ExactInv, ConsumerInv, Typed
<1>2. BatchKept' /\ Typed' /\ ConsumerInv' /\ Files(disk) /\ Files(disk')
  BY <1>1, ConsumerStep, TypedFiles, FilesTyped DEF ConsumerInv, vars
<1>3. rpc = "projected" => /\ HoldsBatch /\ checkpointLess(checkpoint, next)
                           /\ ~checkpointLess(inflight, next) /\ next.segment \in DOMAIN disk
                           /\ next.record <= disk[next.segment].synced
  BY <1>1 DEF BatchKept, SavedAhead, HoldsBatch
<1>4. saved' = saved \/ (rpc = "projected" /\ saved' = next)
  BY SavedMoves
<1>5. ~checkpointLess(saved', checkpoint')
  <2>1. ~checkpointLess(saved, saved) /\ ~checkpointLess(next, next)
        /\ (checkpointLess(checkpoint, next) => ~checkpointLess(next, checkpoint))
    BY <1>1, LessOrder
  <2>2. ~checkpointLess(saved, checkpoint)
    BY DEF SavedAhead
  <2> QED BY <1>3, <2>1, <2>2, SavedMoves
<1>6. saved' = checkpoint' \/ (saved'.segment \in DOMAIN disk' /\ ~checkpointLess(inflight', saved'))
  <2>1. CASE saved' = checkpoint'
    BY <2>1
  <2>2. CASE rpc = "projected" /\ saved' = next /\ UNCHANGED <<disk, checkpoint, inflight>>
    BY <1>3, <2>2
  <2>3. CASE /\ saved' # checkpoint' /\ saved' = saved /\ checkpoint' = checkpoint
             /\ inflight' = inflight \/ \E p \in Readable : ReadBatch(p)
    <3>1. /\ saved.segment \in DOMAIN disk /\ ~checkpointLess(inflight, saved)
          /\ saved.record <= disk[saved.segment].synced /\ ~checkpointLess(saved, checkpoint)
      BY <2>3 DEF SavedAhead
    <3>2. checkpointLess(checkpoint, saved)
      BY <1>1, <2>3, <3>1, LessOrder
    <3>3. /\ saved.segment \in Nat /\ saved.record \in Nat
          /\ checkpoint.segment \in Nat /\ checkpoint.record \in Nat
      BY <1>1, CheckpointFields
    <3>4. SegmentOK(disk[saved.segment])
      BY <1>2, <3>1 DEF Files
    <3>5. /\ disk[saved.segment].synced \in Nat /\ Len(disk[saved.segment].records) \in Nat
          /\ disk[saved.segment].synced <= Len(disk[saved.segment].records)
      BY <3>4, SegmentFields
    <3>6. saved.segment \notin Committed(disk, checkpoint')
      BY <2>3, <3>1, <3>2, <3>3, <3>5 DEF Committed, Records, checkpointLess
    <3>7. saved.segment \in DOMAIN disk'
      <4>1. CASE FilesGrow
        BY <3>1, <3>6, <4>1 DEF FilesGrow
      <4>2. CASE DOMAIN disk' = DOMAIN disk
        BY <3>1, <4>2
      <4> QED BY <1>1, <4>1, <4>2, WhoGrowsFiles, CompactFiles, CutFiles DEF FilesCompact, FilesCut
    <3>8. ~checkpointLess(inflight', saved)
      <4>1. CASE inflight' = inflight
        BY <3>1, <4>1
      <4>2. ASSUME NEW p \in Readable, ReadBatch(p) PROVE ~checkpointLess(inflight', saved)
        <5>1. p \in Checkpoints
          BY <1>1, <4>2, BatchRead
        <5>2. inflight' = IF checkpointLess(inflight, p) THEN p ELSE inflight
          BY <4>2 DEF ReadBatch
        <5>3. checkpointLess(inflight, p) => ~checkpointLess(p, inflight)
          BY <1>1, <5>1, LessOrder
        <5>4. checkpointLess(inflight, p) => ~checkpointLess(p, saved)
          BY <1>1, <3>1, <5>1, <5>3, LessOrder
        <5> QED BY <3>1, <5>2, <5>4
      <4> QED BY <2>3, <4>1, <4>2
    <3> QED BY <2>3, <3>7, <3>8
  <2> QED BY <2>1, <2>2, <2>3, SavedMoves
<1>7. ASSUME NEW s \in DOMAIN disk', IsActive(disk', s) PROVE saved'.segment <= s
  <2>1. CASE s \in DOMAIN disk
    <3>1. IsActive(disk, s)
      BY <1>1, <1>7, <2>1, ActiveBefore
    <3>2. saved.segment <= s
      BY <2>1, <3>1 DEF SavedAhead
    <3>3. rpc = "projected" => next.segment <= s
      BY <1>1, <1>3, <2>1, <3>1 DEF ActiveLast
    <3> QED BY <1>4, <3>2, <3>3
  <2>2. CASE s \notin DOMAIN disk
    <3>1. saved.segment < s /\ (HoldsBatch => next.segment < s)
      BY <1>1, <2>2, NewAfterSaved
    <3>2. s \in Nat /\ saved.segment \in Nat /\ next.segment \in Nat
      BY <1>1, <1>2, CheckpointFields DEF Files
    <3> QED BY <1>3, <1>4, <3>1, <3>2
  <2> QED BY <2>1, <2>2
<1>8. ASSUME saved'.segment \in DOMAIN disk' PROVE saved'.record <= disk'[saved'.segment].synced
  <2>1. ASSUME NEW p \in Checkpoints, p.segment \in DOMAIN disk', p.segment <= Horizon,
               p.segment \in DOMAIN disk, p.record <= disk[p.segment].synced
        PROVE  p.record <= disk'[p.segment].synced
    <3>1. disk[p.segment].synced <= disk'[p.segment].synced
      BY <1>1, <2>1, SyncedGrows
    <3>2. SegmentOK(disk[p.segment]) /\ SegmentOK(disk'[p.segment])
      BY <1>2, <2>1 DEF Files
    <3>3. disk[p.segment].synced \in Nat /\ disk'[p.segment].synced \in Nat /\ p.record \in Nat
      BY <2>1, <3>2, SegmentFields, CheckpointFields
    <3> QED BY <2>1, <3>1, <3>3
  <2>2. CASE saved' = saved
    <3>1. saved.segment \in DOMAIN disk
      <4> SUFFICES ASSUME saved.segment \notin DOMAIN disk PROVE FALSE
        OBVIOUS
      <4>1. saved.segment < saved.segment
        BY <1>1, <1>8, <2>2, NewAfterSaved
      <4> QED BY <1>1, <4>1, CheckpointFields
    <3>2. saved.record <= disk[saved.segment].synced
      BY <3>1 DEF SavedAhead
    <3> QED BY <1>1, <1>8, <2>1, <2>2, <3>1, <3>2
  <2>3. CASE rpc = "projected" /\ saved' = next
    BY <1>1, <1>3, <1>8, <2>1, <2>3
  <2> QED BY <1>4, <2>2, <2>3
<1>9. ASSUME HoldsBatch' PROVE next'.record <= disk'[next'.segment].synced
  <2>1. ASSUME NEW p \in Readable, ReadBatch(p)
        PROVE  next'.record <= disk'[next'.segment].synced
    <3>1. next' = p /\ disk' = disk /\ p \in Checkpoints /\ p \in Visible
      BY <1>1, <2>1, BatchRead
    <3>2. ~(p.record > disk[p.segment].synced)
      BY <2>1 DEF Readable, Unsynced
    <3>3. p.segment \in DOMAIN disk
      BY <1>1, <3>1, VisibleFacts
    <3>4. p.record \in Nat /\ disk[p.segment].synced \in Nat
      BY <1>2, <3>1, <3>3, CheckpointFields, SegmentFields DEF Files
    <3> QED BY <3>1, <3>2, <3>4
  <2>2. CASE HoldsBatch /\ UNCHANGED <<checkpoint, next, held, inflight, saved>> /\ ~PowerLoss
    <3>1. next.segment \in DOMAIN disk /\ next.record <= disk[next.segment].synced
      BY <1>1, <2>2 DEF BatchKept, SavedAhead
    <3>2. next.segment \in DOMAIN disk'
      BY <1>2, <1>9, <2>2 DEF BatchKept
    <3>3. disk[next.segment].synced <= disk'[next.segment].synced
      BY <1>1, <2>2, <3>1, <3>2, SyncedGrows
    <3>4. SegmentOK(disk[next.segment]) /\ SegmentOK(disk'[next.segment])
      BY <1>2, <3>1, <3>2 DEF Files
    <3>5. /\ disk[next.segment].synced \in Nat /\ disk'[next.segment].synced \in Nat
          /\ next.record \in Nat
      BY <1>1, <3>4, SegmentFields, CheckpointFields
    <3> QED BY <2>2, <3>1, <3>3, <3>5
  <2> QED BY <1>1, <1>9, <2>1, <2>2, HoldsOn
<1>10. ASSUME rpc' = "projected" PROVE held' \subseteq delivered'
  <2>1. HoldsBatch'
    BY <1>10 DEF HoldsBatch
  <2>2. ~ \E p \in Readable : ReadBatch(p)
    BY <1>10 DEF ReadBatch
  <2>3. held' = held /\ (rpc = "projected" \/ Project)
    BY <1>1, <1>10, <2>1, <2>2, HoldsOn
  <2>4. rpc = "projected" => held \subseteq delivered
    BY DEF SavedAhead
  <2> QED BY <2>3, <2>4, DeliveredGrows
<1> QED BY <1>5, <1>6, <1>7, <1>8, <1>9, <1>10 DEF SavedAhead

(* The event can be read after a restart from the checkpoint file.         *)
LEMMA RecoverableMeans ==
  ASSUME TypeOK, NEW e
  PROVE  /\ Recoverable(e) <=> \E s, i : /\ Holds(disk, s, i, e) /\ i <= disk[s].synced
                                         /\ checkpointLess(saved, At(s, i))
         /\ Written(e) <=> \E s, i : /\ Holds(disk, s, i, e)
                                     /\ i <= disk[s].synced \/ s = active
                                     /\ checkpointLess(saved, At(s, i))
<1>1. \A s \in DOMAIN disk : /\ Len(disk[s].records) \in Nat /\ disk[s].synced \in Nat
                             /\ disk[s].synced <= Len(disk[s].records)
  BY TypedFiles, SegmentFields DEF Files
<1>2. Recoverable(e) <=> \E s, i : /\ Holds(disk, s, i, e) /\ i <= disk[s].synced
                                   /\ checkpointLess(saved, At(s, i))
  <2>1. ASSUME Recoverable(e)
        PROVE  \E s, i : /\ Holds(disk, s, i, e) /\ i <= disk[s].synced
                         /\ checkpointLess(saved, At(s, i))
    <3>1. PICK s \in DOMAIN disk : \E i \in 1..disk[s].synced :
                 Records(disk, s)[i] = e /\ checkpointLess(saved, At(s, i))
      BY <2>1 DEF Recoverable
    <3>2. PICK i \in 1..disk[s].synced : Records(disk, s)[i] = e /\ checkpointLess(saved, At(s, i))
      BY <3>1
    <3>3. i \in 1..Len(disk[s].records) /\ i <= disk[s].synced
      BY <1>1, <3>2
    <3> QED BY <3>2, <3>3 DEF Holds, Records
  <2>2. ASSUME NEW s, NEW i, Holds(disk, s, i, e), i <= disk[s].synced,
               checkpointLess(saved, At(s, i))
        PROVE  Recoverable(e)
    <3>1. s \in DOMAIN disk /\ Records(disk, s)[i] = e /\ i \in 1..Len(disk[s].records)
      BY <2>2 DEF Holds, Records
    <3>2. i \in 1..disk[s].synced
      BY <1>1, <2>2, <3>1
    <3> QED BY <2>2, <3>1, <3>2 DEF Recoverable
  <2> QED BY <2>1, <2>2
<1>3. Written(e) <=> \E s, i : /\ Holds(disk, s, i, e)
                               /\ i <= disk[s].synced \/ s = active
                               /\ checkpointLess(saved, At(s, i))
  BY DEF Written, Holds, Records
<1> QED BY <1>2, <1>3

(* A compacted segment still has an event, or one that supersedes it.      *)
LEMMA CompactedHolds ==
  ASSUME TypeOK, NEW s, NEW i, NEW f, Holds(disk, s, i, f)
  PROVE  \E g \in {f} \cup Superseding(f) : \E j \in 1..Len(Compacted(disk[s]).records) :
            Compacted(disk[s]).records[j] = g
<1>1. SegmentOK(disk[s]) /\ f \in Events
  BY HoldsType
<1> DEFINE r == disk[s].records
           es == RangeOf(r)
           c == Compacted(disk[s]).records
<1>2. r \in Seq(Events) /\ \A k \in 1..Len(r) : r[k] \in Events
  BY <1>1, SegmentFields
<1>3. f \in es /\ es \in SUBSET Events
  BY <1>2 DEF RangeOf, Holds
<1>4. c = compactSemanticEvents(r)
  BY <1>1, CompactedSegment
<1>5. RangeOf(c) = {e \in es : Survives(es, e)}
  BY <1>2, <1>4, CompactFacts
<1> HIDE DEF r, es, c
<1>6. PICK g \in {f} \cup Superseding(f) : g \in es /\ Survives(es, g)
  BY <1>3, SurvivorExists
<1>7. g \in RangeOf(c)
  BY <1>5, <1>6
<1> QED BY <1>7 DEF RangeOf, c

(* An event in the files after the checkpoint file's mark is projected     *)
(* before the mark passes it, and does not leave the files without one     *)
(* that supersedes it, nor become less durable.                            *)
LEMMA FutureKept ==
  ASSUME Faults = {}, ExactInv, SavedAhead, Next, NEW s, NEW i, NEW f,
         Holds(disk, s, i, f), checkpointLess(saved, At(s, i)),
         ~PowerLoss \/ i <= disk[s].synced
  PROVE  \/ f \in delivered'
         \/ \E g \in {f} \cup Superseding(f) : \E j :
               /\ Holds(disk', s, j, g) /\ checkpointLess(saved', At(s, j))
               /\ j <= disk'[s].synced \/ i > disk[s].synced
<1> DEFINE Goal == \/ f \in delivered'
                   \/ \E g \in {f} \cup Superseding(f) : \E j :
                         /\ Holds(disk', s, j, g) /\ checkpointLess(saved', At(s, j))
                         /\ j <= disk'[s].synced \/ i > disk[s].synced
<1>1. /\ ConsumerInv /\ Typed /\ TypeOK
      /\ saved \in Checkpoints /\ next \in Checkpoints /\ checkpoint \in Checkpoints
      /\ saved.segment <= Horizon
  BY SavedCovered DEF ExactInv, ConsumerInv, Typed
<1>2. Typed' /\ saved' \in Checkpoints /\ checkpoint' \in Checkpoints /\ SavedAhead'
  BY <1>1, TypedStep, ReaderTyped, SavedStaysAhead
<1>3. /\ At(s, i) \in Checkpoints /\ s \in Nat /\ i \in Nat /\ SegmentOK(disk[s])
      /\ s \in DOMAIN disk /\ i \in 1..Len(disk[s].records)
  BY <1>1, HoldsType DEF Holds
<1>4. disk[s].synced \in Nat /\ Len(disk[s].records) \in Nat
  BY <1>3, SegmentFields
<1>5. CASE ~checkpointLess(saved', At(s, i))
  <2>1. rpc = "projected" /\ saved' = next
    BY <1>5, SavedMoves
  <2>2. checkpointLess(checkpoint, At(s, i))
    BY <1>1, <1>3, LessOrder DEF SavedAhead
  <2>3. Lies(disk, checkpoint, next, f)
    BY <1>5, <2>1, <2>2 DEF Lies
  <2>4. f \in held
    BY <2>1, <2>3 DEF ExactInv, BatchWhole, HoldsBatch
  <2>5. held \subseteq delivered
    BY <2>1 DEF SavedAhead
  <2> QED BY <2>4, <2>5, DeliveredGrows
<1>6. CASE checkpointLess(saved', At(s, i))
  <2>0. ASSUME Holds(disk', s, i, f), disk[s].synced <= disk'[s].synced, disk'[s].synced \in Nat
        PROVE  Goal
    <3>1. i <= disk'[s].synced \/ i > disk[s].synced
      BY <1>3, <1>4, <2>0
    <3> QED BY <1>6, <2>0, <3>1
  <2>1. CASE FilesGrow
    <3>1. checkpointLess(checkpoint', At(s, i))
      BY <1>2, <1>3, <1>6, LessOrder DEF SavedAhead
    <3>2. Holds(disk', s, i, f) /\ disk[s].synced <= disk'[s].synced
      BY <1>1, <1>2, <2>1, <3>1, RecordStays
    <3>3. disk'[s].synced \in Nat
      BY <1>1, <3>2, FilesTyped, SegmentFields DEF Files, Holds
    <3> QED BY <2>0, <3>2, <3>3
  <2>2. ASSUME NEW last \in DOMAIN disk, Compact(last) PROVE Goal
    <3>1. FilesCompact(last) /\ saved' = saved
      BY <2>2, CompactFiles DEF Compact
    <3>2. CASE disk'[s] = disk[s]
      <4>1. Holds(disk', s, i, f)
        BY <1>3, <3>1, <3>2 DEF FilesCompact, Holds
      <4> QED BY <1>4, <2>0, <3>2, <4>1
    <3>3. CASE disk'[s] = Compacted(disk[s]) /\ Horizon < s
      <4>1. PICK g \in {f} \cup Superseding(f) :
               \E j \in 1..Len(Compacted(disk[s]).records) : Compacted(disk[s]).records[j] = g
        BY <1>1, CompactedHolds
      <4>2. PICK j \in 1..Len(Compacted(disk[s]).records) : Compacted(disk[s]).records[j] = g
        BY <4>1
      <4>3. Compacted(disk[s]).synced = Len(Compacted(disk[s]).records)
        BY <1>3, CompactedSegment
      <4>4. SegmentOK(Compacted(disk[s]))
        BY <1>3, CompactedSegment
      <4>5. j <= disk'[s].synced /\ j \in Nat
        BY <3>3, <4>2, <4>3, <4>4, SegmentFields
      <4>6. Holds(disk', s, j, g)
        BY <1>3, <3>1, <3>3, <4>2 DEF FilesCompact, Holds
      <4>7. saved.segment < s
        <5>1. saved.segment \in Nat /\ Horizon \in Nat
          BY <1>1, CheckpointFields DEF Horizon, Typed, TypeOK
        <5> QED BY <1>1, <1>3, <3>3, <5>1
      <4>8. checkpointLess(saved', At(s, j))
        BY <1>3, <3>1, <4>5, <4>7, AtType DEF checkpointLess
      <4> QED BY <4>5, <4>6, <4>8
    <3> QED BY <1>3, <3>1, <3>2, <3>3 DEF FilesCompact
  <2>3. CASE PowerLoss
    <3>1. FilesCut /\ i <= disk[s].synced
      BY <1>1, <2>3, CutFiles
    <3>2. /\ SegmentOK(disk'[s]) /\ disk[s].synced <= disk'[s].synced
          /\ disk'[s].synced = Len(disk'[s].records) /\ s \in DOMAIN disk'
          /\ \A k \in 1..Len(disk'[s].records) : disk'[s].records[k] = disk[s].records[k]
      BY <1>3, <3>1 DEF FilesCut
    <3>3. disk'[s].synced \in Nat
      BY <3>2, SegmentFields
    <3>4. i \in 1..Len(disk'[s].records)
      BY <1>3, <1>4, <3>1, <3>2, <3>3
    <3>5. Holds(disk', s, i, f)
      BY <3>2, <3>4 DEF Holds
    <3> QED BY <2>0, <3>2, <3>3, <3>5
  <2> QED BY <1>1, <2>1, <2>2, <2>3, WhoGrowsFiles
<1> QED BY <1>5, <1>6

LEMMA AckedGrows ==
  ASSUME Next PROVE acked' = acked \/ (SyncBatch /\ acked' = acked \cup pending)
BY DEF Next, BeginBatch, sealActive, SealFails, createActiveSegment, CreateFails, WriteRecord,
       SyncBatch, AppendFails, Snapshot, ReadNothing, ReadBatch, Project, ProjectFails, Commit,
       CommitFails, maintainStorage, Compact, Close, ProcessCrash, PowerLoss, Start, Stopping,
       history

LEMMA PendingMoves ==
  ASSUME Next
  PROVE  \/ \E n \in 1..MaxBatch : BeginBatch(n)
         \/ pending' = {}
         \/ pending' = pending /\ todo' = todo
         \/ pending' = pending /\ WriteRecord
BY DEF Next, BeginBatch, sealActive, SealFails, createActiveSegment, CreateFails, WriteRecord,
       SyncBatch, AppendFails, Snapshot, ReadNothing, ReadBatch, Project, ProjectFails, Commit,
       CommitFails, maintainStorage, Compact, Close, ProcessCrash, PowerLoss, Start, Stopping,
       BatchAbandoned, writerVars

DurableInv == ExactInv /\ SavedAhead /\ PendingKept /\ AcknowledgedKept

(* A batch is answered once all of it is durable.                          *)
LEMMA AcknowledgedStaysKept ==
  ASSUME Faults = {}, DurableInv, Next PROVE AcknowledgedKept'
<1>1. /\ ExactInv /\ SavedAhead /\ PendingKept /\ AcknowledgedKept /\ Typed /\ TypeOK
      /\ acked \subseteq Events /\ pending \subseteq Events
  BY TypedReader DEF DurableInv, ExactInv, ConsumerInv, Typed
<1>2. TypeOK' /\ Files(disk')
  BY <1>1, TypedStep, FilesTyped DEF Typed
<1> SUFFICES ASSUME NEW e \in acked'
             PROVE  \E g \in {e} \cup Superseding(e) : g \in delivered' \/ Recoverable(g)'
  BY DEF AcknowledgedKept, Superseding, SameKey
<1>3. ASSUME NEW f \in {e} \cup Superseding(e), e \in Events, NEW s, NEW i,
             Holds(disk, s, i, f), checkpointLess(saved, At(s, i)),
             ~PowerLoss \/ i <= disk[s].synced,
             \A j \in 1..Len(disk'[s].records) :
                s \in DOMAIN disk' /\ i > disk[s].synced => j <= disk'[s].synced
      PROVE  \E g \in {e} \cup Superseding(e) : g \in delivered' \/ Recoverable(g)'
  <2>1. CASE f \in delivered'
    BY <1>3, <2>1
  <2>2. ASSUME NEW g \in {f} \cup Superseding(f), NEW j, Holds(disk', s, j, g),
               checkpointLess(saved', At(s, j)), j <= disk'[s].synced \/ i > disk[s].synced
        PROVE  \E h \in {e} \cup Superseding(e) : h \in delivered' \/ Recoverable(h)'
    <3>1. g \in {e} \cup Superseding(e)
      BY <1>3, <2>2, SupersedingOrder
    <3>2. j \in 1..Len(disk'[s].records) /\ s \in DOMAIN disk'
      BY <2>2 DEF Holds
    <3>3. j <= disk'[s].synced
      BY <1>3, <2>2, <3>2
    <3>4. j \in 1..disk'[s].synced
      <4>1. SegmentOK(disk'[s])
        BY <1>2, <3>2 DEF Files
      <4>2. disk'[s].synced \in Nat /\ Len(disk'[s].records) \in Nat
        BY <4>1, SegmentFields
      <4> QED BY <3>2, <3>3, <4>2
    <3>5. Recoverable(g)'
      BY <2>2, <3>2, <3>4 DEF Recoverable, Holds, Records
    <3> QED BY <3>1, <3>5
  <2> QED BY <1>1, <1>3, <2>1, <2>2, FutureKept
<1>4. CASE e \in acked
  <2>1. PICK f \in {e} \cup Superseding(e) : f \in delivered \/ Recoverable(f)
    BY <1>1, <1>4 DEF AcknowledgedKept
  <2>2. CASE f \in delivered
    BY <2>2, DeliveredGrows
  <2>3. CASE Recoverable(f)
    <3>1. PICK s, i : /\ Holds(disk, s, i, f) /\ i <= disk[s].synced
                      /\ checkpointLess(saved, At(s, i))
      BY <1>1, <2>3, RecoverableMeans
    <3>2. disk[s].synced \in Nat /\ i \in Nat
      BY <1>1, <3>1, HoldsType, SegmentFields
    <3>3. ~(i > disk[s].synced)
      BY <3>1, <3>2
    <3> QED BY <1>1, <1>3, <1>4, <2>1, <3>1, <3>3
  <2> QED BY <2>1, <2>2, <2>3
<1>5. CASE SyncBatch /\ e \in pending
  <2>1. ~Waiting(e)
    <3>1. todo = <<>>
      BY <1>5 DEF SyncBatch
    <3>2. Len(todo) = 0
      BY <3>1
    <3> QED BY <3>2 DEF Waiting
  <2>2. PICK f \in {e} \cup Superseding(e) : f \in delivered \/ Written(f)
    BY <1>1, <1>5, <2>1 DEF PendingKept
  <2>3. CASE f \in delivered
    BY <2>3, DeliveredGrows
  <2>4. CASE Written(f)
    <3>1. PICK s, i : /\ Holds(disk, s, i, f)
                      /\ i <= disk[s].synced \/ s = active
                      /\ checkpointLess(saved, At(s, i))
      BY <1>1, <2>4, RecoverableMeans
    <3>2. disk[s].synced \in Nat /\ i \in Nat
      BY <1>1, <3>1, HoldsType, SegmentFields
    <3>3. ~PowerLoss
      <4>1. stops \in Nat /\ stops' = stops
        BY <1>1, <1>5, Bounds DEF SyncBatch, TypeOK
      <4>2. PowerLoss => stops' = stops + 1
        BY DEF PowerLoss, Stopping
      <4> QED BY <4>1, <4>2
    <3>4. ASSUME s \in DOMAIN disk', i > disk[s].synced
          PROVE  disk'[s].synced = Len(disk'[s].records)
      <4>1. s = active
        BY <3>1, <3>2, <3>4
      <4>2. PICK d \in Reclaimed : disk' = [d EXCEPT ![active] = Synced(d[active])]
        BY <1>5 DEF SyncBatch
      <4>3. active \in DOMAIN d
        BY <3>4, <4>1, <4>2
      <4>4. disk'[s] = Synced(d[s])
        BY <4>1, <4>2, <4>3
      <4>5. DOMAIN d \subseteq DOMAIN disk /\ d[s] = disk[s]
        BY <4>1, <4>2, <4>3, CleanupFacts DEF Reclaimed
      <4>6. SegmentOK(d[s])
        BY <1>1, <4>1, <4>3, <4>5, TypedFiles DEF Files
      <4>7. Synced(d[s]).records = d[s].records /\ Synced(d[s]).synced = Len(d[s].records)
        BY <4>6, SealedSegment
      <4> QED BY <4>4, <4>7
    <3>5. ASSUME NEW j \in 1..Len(disk'[s].records), s \in DOMAIN disk', i > disk[s].synced
          PROVE  j <= disk'[s].synced
      <4>1. disk'[s].synced = Len(disk'[s].records)
        BY <3>4, <3>5
      <4>2. Len(disk'[s].records) \in Nat
        BY <1>2, <3>5, SegmentFields DEF Files
      <4> QED BY <3>5, <4>1, <4>2
    <3>6. e \in Events
      BY <1>1, <1>5
    <3> QED BY <1>3, <2>2, <3>1, <3>3, <3>5, <3>6
  <2> QED BY <2>2, <2>3, <2>4
<1> QED BY <1>4, <1>5, AckedGrows

(* What is not yet answered is still to be written, or was written after   *)
(* the checkpoint.                                                         *)
LEMMA PendingStaysKept ==
  ASSUME Faults = {}, DurableInv, Next PROVE PendingKept'
<1>1. /\ ExactInv /\ SavedAhead /\ PendingKept /\ Typed /\ TypeOK /\ Asleep
      /\ pending \subseteq Events /\ todo \in Seq(Events) /\ Files(disk)
  BY TypedReader, TypedFiles DEF DurableInv, ExactInv, ConsumerInv, Typed, TypeOK
<1>2. TypeOK' /\ Files(disk') /\ Asleep'
  BY <1>1, TypedStep, FilesTyped, AsleepKept DEF Typed
<1> SUFFICES ASSUME NEW e \in pending'
             PROVE  \/ Waiting(e)'
                    \/ \E g \in {e} \cup Superseding(e) : g \in delivered' \/ Written(g)'
  BY DEF PendingKept, Superseding, SameKey
<1>3. CASE \E n \in 1..MaxBatch : BeginBatch(n)
  <2> PICK n \in 1..MaxBatch : BeginBatch(n)
    BY <1>3
  <2>1. n \in Nat /\ issued \in Nat
    BY <1>1, Bounds DEF TypeOK
  <2>2. todo' = [i \in 1..n |-> issued + i] /\ pending' = issued + 1 .. issued + n
    BY DEF BeginBatch
  <2>3. e \in Nat /\ e - issued \in 1..n /\ issued + (e - issued) = e
    BY <2>1, <2>2
  <2>4. Len(todo') = n /\ todo'[e - issued] = e
    BY <2>1, <2>2, <2>3
  <2> QED BY <2>3, <2>4 DEF Waiting
<1>4. CASE pending' = pending /\ (todo' = todo \/ WriteRecord)
  <2>1. e \in pending /\ e \in Events /\ up /\ up'
    BY <1>1, <1>2, <1>4 DEF Asleep
  <2>2. CASE Waiting(e)
    <3>1. PICK i \in 1..Len(todo) : todo[i] = e
      BY <2>2 DEF Waiting
    <3>2. CASE todo' = todo
      BY <3>1, <3>2 DEF Waiting
    <3>3. CASE WriteRecord /\ i # 1
      <4>1. todo' = Tail(todo) /\ todo # <<>>
        BY <3>3 DEF WriteRecord
      <4>2. i - 1 \in 1..Len(todo') /\ todo'[i - 1] = todo[i]
        BY <1>1, <3>1, <3>3, <4>1
      <4> QED BY <3>1, <4>2 DEF Waiting
    <3>4. CASE WriteRecord /\ i = 1
      <4> DEFINE s == active
                 j == Len(disk[s].records) + 1
      <4>1. /\ s # 0 /\ open /\ todo # <<>> /\ active' = active /\ saved' = saved
            /\ checkpoint' = checkpoint /\ e = Head(todo)
        BY <1>1, <3>1, <3>4 DEF WriteRecord, readerVars
      <4>2. s \in DOMAIN disk /\ IsActive(disk, s) /\ s \in Nat /\ SegmentOK(disk[s])
        BY <1>1, <4>1 DEF Typed, WriterOpen, Files
      <4>3. /\ Len(disk[s].records) \in Nat /\ j \in Nat /\ disk[s].synced \in Nat
            /\ disk[s].synced <= Len(disk[s].records) /\ disk[s].records \in Seq(Events)
        BY <4>2, SegmentFields
      <4>4. saved.segment \in Nat /\ saved.record \in Nat
        BY <1>1, TypedReader, CheckpointFields
      <4>5. checkpointLess(saved, At(s, j))
        <5>1. saved.segment <= s /\ (saved.segment = s => saved.record <= disk[s].synced)
          BY <1>1, <4>2 DEF SavedAhead
        <5>2. At(s, j).segment = s /\ At(s, j).record = j
          BY <4>2, <4>3, AtType
        <5> QED BY <4>2, <4>3, <4>4, <5>1, <5>2 DEF checkpointLess
      <4>6. PICK d \in Reclaimed : disk' = [d EXCEPT ![active].records = Append(@, Head(todo))]
        BY <3>4 DEF WriteRecord
      <4>7. s \in DOMAIN d /\ d[s] = disk[s]
        <5>1. s \notin Committed(disk, checkpoint)
          BY <4>2 DEF Committed
        <5> QED BY <4>2, <5>1, CleanupFacts DEF Reclaimed
      <4>8. s \in DOMAIN disk' /\ disk'[s].records = Append(disk[s].records, e)
        <5>1. disk[s] \in Segment
          BY <4>2 DEF SegmentOK
        <5>2. "records" \in DOMAIN d[s]
          BY <4>7, <5>1 DEF Segment
        <5>3. disk'[s] = [d[s] EXCEPT !.records = Append(d[s].records, Head(todo))]
          BY <4>6, <4>7
        <5> QED BY <4>1, <4>6, <4>7, <5>2, <5>3
      <4>9. j \in 1..Len(disk'[s].records) /\ disk'[s].records[j] = e
        BY <2>1, <4>3, <4>8
      <4>10. Written(e)'
        BY <4>1, <4>5, <4>8, <4>9 DEF Written, Records
      <4> QED BY <4>10
    <3> QED BY <1>4, <3>2, <3>3, <3>4
  <2>3. CASE ~Waiting(e)
    <3>1. PICK f \in {e} \cup Superseding(e) : f \in delivered \/ Written(f)
      BY <1>1, <2>1, <2>3 DEF PendingKept
    <3>2. CASE f \in delivered
      BY <3>2, DeliveredGrows
    <3>3. CASE Written(f)
      <4>1. PICK s, i : /\ Holds(disk, s, i, f)
                        /\ i <= disk[s].synced \/ s = active
                        /\ checkpointLess(saved, At(s, i))
        BY <1>1, <3>3, RecoverableMeans
      <4>2. disk[s].synced \in Nat /\ i \in Nat /\ s \in DOMAIN disk /\ s # 0
        BY <1>1, <4>1, HoldsType, SegmentFields DEF Holds, Files
      <4>3. ~PowerLoss
        BY <2>1 DEF PowerLoss, Stopping
      <4>4. ASSUME NEW g \in {f} \cup Superseding(f), NEW j, Holds(disk', s, j, g),
                   checkpointLess(saved', At(s, j)), j <= disk'[s].synced \/ i > disk[s].synced
            PROVE  \E h \in {e} \cup Superseding(e) : Written(h)'
        <5>1. g \in {e} \cup Superseding(e)
          BY <2>1, <3>1, <4>4, SupersedingOrder
        <5>2. s \in DOMAIN disk' /\ j \in 1..Len(disk'[s].records) /\ disk'[s].records[j] = g
          BY <4>4 DEF Holds
        <5>3. j <= disk'[s].synced \/ s = active'
          <6>1. CASE j <= disk'[s].synced
            BY <6>1
          <6>2. CASE i > disk[s].synced
            <7>1. s = active
              BY <4>1, <4>2, <6>2
            <7>2. CASE active' = active
              BY <7>1, <7>2
            <7>3. CASE createActiveSegment /\ active = 0
              BY <4>2, <7>1, <7>3
            <7>4. CASE sealActive
              <8>1. disk'[s] = Sealed(disk[s])
                BY <4>2, <7>1, <7>4 DEF sealActive
              <8>2. SegmentOK(disk[s])
                BY <1>1, <4>2 DEF Files
              <8>3. /\ Sealed(disk[s]).synced = Len(disk[s].records)
                    /\ Sealed(disk[s]).records = disk[s].records
                BY <8>2, SealedSegment
              <8>4. Len(disk[s].records) \in Nat
                BY <8>2, SegmentFields
              <8> QED BY <5>2, <8>1, <8>3, <8>4
            <7> QED BY <2>1, <7>2, <7>3, <7>4, WriterLetsGo
          <6> QED BY <4>4, <6>1, <6>2
        <5>4. Written(g)'
          BY <4>4, <5>2, <5>3 DEF Written, Records
        <5> QED BY <5>1, <5>4
      <4> QED BY <1>1, <3>1, <4>1, <4>3, <4>4, FutureKept
    <3> QED BY <3>1, <3>2, <3>3
  <2> QED BY <2>2, <2>3
<1> QED BY <1>3, <1>4, PendingMoves

LEMMA DurableStart == Init => DurableInv
<1> SUFFICES ASSUME Init PROVE DurableInv
  OBVIOUS
<1>1. /\ DOMAIN disk = {} /\ saved = checkpoint /\ saved = Origin /\ ~HoldsBatch
      /\ rpc # "projected" /\ pending = {} /\ acked = {}
  BY DEF Init, HoldsBatch
<1>2. ~checkpointLess(saved, checkpoint)
  BY <1>1, OriginType, LessOrder
<1> QED BY <1>1, <1>2, ExactStart DEF DurableInv, SavedAhead, PendingKept, AcknowledgedKept

LEMMA DurableStep ==
  ASSUME Faults = {}, DurableInv, [Next]_vars PROVE DurableInv'
<1>1. ExactInv'
  BY ExactStep DEF DurableInv
<1>2. CASE UNCHANGED vars
  BY <1>1, <1>2 DEF vars, files, writerVars, readerVars, history, DurableInv, SavedAhead,
     PendingKept, AcknowledgedKept, Waiting, Written, Recoverable, Superseding, SameKey, Records,
     IsActive, HoldsBatch
<1>3. CASE Next
  BY <1>1, <1>3, SavedStaysAhead, AcknowledgedStaysKept, PendingStaysKept DEF DurableInv
<1> QED BY <1>2, <1>3

(* The promise of Append: without the four faults, an acknowledged event   *)
(* has been projected, or will be read after a restart even if the host    *)
(* loses power now, or a later sample of its key takes its place; through  *)
(* any number of failures, stops, seals, clean-ups and compactions.        *)
THEOREM AppendKeepsItsPromise ==
  ASSUME Faults = {} PROVE Spec => []AcknowledgedKept
<1>1. DurableInv /\ [Next]_vars => DurableInv'
  BY DurableStep
<1>2. DurableInv => AcknowledgedKept
  BY DEF DurableInv
<1> QED BY <1>1, <1>2, DurableStart, PTL DEF Spec
=============================================================================
