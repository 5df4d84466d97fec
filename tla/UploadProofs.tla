---------------------------- MODULE UploadProofs ----------------------------
(***************************************************************************)
(* Proofs about Upload, for every number of streams, handler threads,      *)
(* paths, inodes, contents and every quota.                                *)
(***************************************************************************)
EXTENDS Upload, WellFoundedInduction, TLAPS

-----------------------------------------------------------------------------
(***************************************************************************)
(* What Total computes, for any number of slots.  The induction is over    *)
(* the set of the slots up to which a fact holds, which has a least        *)
(* counterexample if it has any.                                           *)
(***************************************************************************)

\* Induction up to n, over the set of the numbers for which a fact holds.
LEMMA UpTo ==
    ASSUME NEW n \in Nat, NEW G, 0 \in G, \A m \in 1..n : m - 1 \in G => m \in G
    PROVE  \A m \in 0..n : m \in G
<1> SUFFICES ASSUME ~\A m \in 0..n : m \in G PROVE FALSE
  OBVIOUS
<1> DEFINE B == {m \in 0..n : m \notin G}
<1>b. B \in SUBSET Nat /\ B # {}
  OBVIOUS
<1>0. PICK R : R = OpToRel(<, Nat)
  OBVIOUS
<1>1. IsWellFoundedOn(R, Nat)
  BY <1>0, NatLessThanWellFounded
<1>2. PICK m \in B : \A b \in B : ~(<<b, m>> \in R)
  BY <1>1, <1>b, WFMin
<1>3. \A b \in B : b < m => <<b, m>> \in R
  BY <1>0 DEF OpToRel
<1>4. m \in 1..n
  OBVIOUS
<1>5. m - 1 \in 0..n /\ m - 1 < m
  BY <1>4
<1>6. m - 1 \notin B
  BY <1>2, <1>3, <1>5
<1> QED
  BY <1>4, <1>5, <1>6

\* The running totals of f.
Runs(S, f, n) == /\ S \in [0..n -> Nat] /\ S[0] = 0
                 /\ \A k \in 1..n : S[k] = S[k - 1] + f[k]

LEMMA RunsExist ==
    ASSUME NEW n \in Nat, NEW f \in [1..n -> Nat]
    PROVE  \E S : Runs(S, f, n)
<1> DEFINE G == {m \in 0..n : \E S : Runs(S, f, m)}
<1>1. 0 \in G
  <2>1. Runs([k \in 0..0 |-> 0], f, 0)
    BY DEF Runs
  <2> QED
    BY <2>1
<1>2. ASSUME NEW m \in 1..n, m - 1 \in G PROVE m \in G
  <2>1. PICK S : Runs(S, f, m - 1)
    BY <1>2
  <2>2. PICK T : T = [k \in 0..m |-> IF k = m THEN S[m - 1] + f[m] ELSE S[k]]
    OBVIOUS
  <2>3. \A k \in 0..m : T[k] \in Nat
    BY <2>1, <2>2 DEF Runs
  <2>4. T \in [0..m -> Nat]
    BY <2>2, <2>3
  <2>5. \A k \in 1..m : T[k] = T[k - 1] + f[k]
    BY <2>1, <2>2 DEF Runs
  <2>6. T[0] = 0
    BY <2>1, <2>2 DEF Runs
  <2>7. Runs(T, f, m)
    BY <2>4, <2>5, <2>6 DEF Runs
  <2> QED
    BY <2>7
<1>3. \A m \in 0..n : m \in G
  <2> HIDE DEF G
  <2> QED
    BY <1>1, <1>2, UpTo
<1> QED
  BY <1>3

LEMMA TotalRuns ==
    ASSUME NEW n \in Nat, NEW f \in [1..n -> Nat]
    PROVE  \E S : Runs(S, f, n) /\ Total(f, n) = S[n]
<1>1. PICK R : Runs(R, f, n)
  BY RunsExist
<1> DEFINE Eq(S) == S = [k \in 0..n |-> IF k = 0 THEN 0 ELSE S[k - 1] + f[k]]
<1>2. Eq(R)
  <2>1. \A k \in 0..n : R[k] = IF k = 0 THEN 0 ELSE R[k - 1] + f[k]
    BY <1>1 DEF Runs
  <2> QED
    BY <1>1, <2>1 DEF Runs
<1>3. PICK S : S = CHOOSE T : Eq(T)
  OBVIOUS
<1>4. Eq(S)
  BY <1>2, <1>3
<1>5. Total(f, n) = S[n]
  BY <1>3 DEF Total
<1>6. /\ DOMAIN S = 0..n /\ S[0] = 0
      /\ \A k \in 1..n : S[k] = S[k - 1] + f[k]
  BY <1>4
<1> HIDE DEF Eq
<1> DEFINE G == {m \in 0..n : S[m] \in Nat}
<1>7. 0 \in G
  BY <1>6
<1>8. ASSUME NEW m \in 1..n, m - 1 \in G PROVE m \in G
  BY <1>6, <1>8
<1>9. \A m \in 0..n : m \in G
  <2> HIDE DEF G
  <2> QED
    BY <1>7, <1>8, UpTo
<1>10. S \in [0..n -> Nat]
  <2>1. \A m \in 0..n : S[m] \in Nat
    BY <1>9
  <2>2. S = [k \in 0..n |-> S[k]]
    BY <1>4 DEF Eq
  <2> QED
    BY <2>1, <2>2
<1> QED
  BY <1>5, <1>6, <1>10 DEF Runs

LEMMA TotalNat ==
    ASSUME NEW n \in Nat, NEW f \in [1..n -> Nat]
    PROVE  Total(f, n) \in Nat
<1>1. PICK S : Runs(S, f, n) /\ Total(f, n) = S[n]
  BY TotalRuns
<1> QED
  BY <1>1 DEF Runs

\* Changing one entry moves the total by the difference.
LEMMA TotalUpdate ==
    ASSUME NEW n \in Nat, NEW f \in [1..n -> Nat], NEW g \in [1..n -> Nat], NEW k \in 1..n,
           \A m \in 1..n : m # k => g[m] = f[m]
    PROVE  /\ Total(f, n) \in Nat /\ Total(g, n) \in Nat
           /\ Total(g, n) = Total(f, n) - f[k] + g[k]
<1>1. PICK v \in Nat : v = g[k]
  OBVIOUS
<1>2. PICK S : Runs(S, f, n) /\ Total(f, n) = S[n]
  BY TotalRuns
<1>3. PICK T : Runs(T, g, n) /\ Total(g, n) = T[n]
  BY TotalRuns
<1> DEFINE G == {m \in 0..n : T[m] = S[m] + (IF m < k THEN 0 ELSE v - f[k])}
<1>4. 0 \in G
  BY <1>2, <1>3 DEF Runs
<1>5. ASSUME NEW m \in 1..n, m - 1 \in G PROVE m \in G
  <2>1. /\ T[m] = T[m - 1] + g[m] /\ S[m] = S[m - 1] + f[m] /\ m - 1 \in 0..n /\ f[m] \in Nat
        /\ S[m - 1] \in Nat /\ S[m] \in Nat /\ T[m - 1] \in Nat /\ f[k] \in Nat
    BY <1>2, <1>3 DEF Runs
  <2>2. g[m] = IF m = k THEN v ELSE f[m]
    BY <1>1
  <2>3. T[m - 1] = S[m - 1] + (IF m - 1 < k THEN 0 ELSE v - f[k])
    BY <1>5
  <2>4. T[m] = S[m] + (IF m < k THEN 0 ELSE v - f[k])
    <3>1. CASE m < k
      BY <2>1, <2>2, <2>3, <3>1
    <3>2. CASE m = k
      BY <2>1, <2>2, <2>3, <3>2
    <3>3. CASE m > k
      <4>1. ~(m - 1 < k) /\ ~(m < k) /\ m # k
        BY <3>3
      <4>2. T[m - 1] = S[m - 1] + (v - f[k]) /\ g[m] = f[m]
        BY <2>2, <2>3, <4>1
      <4>3. T[m] = (S[m - 1] + (v - f[k])) + f[m] /\ S[m] = S[m - 1] + f[m]
        BY <2>1, <4>2
      <4>4. T[m] = S[m] + (v - f[k])
        BY <2>1, <4>3
      <4> QED
        BY <4>1, <4>4
    <3> QED
      BY <3>1, <3>2, <3>3
  <2> QED
    BY <2>4
<1>6. \A m \in 0..n : m \in G
  <2> HIDE DEF G
  <2> QED
    BY <1>4, <1>5, UpTo
<1>7. Total(g, n) = Total(f, n) + (v - f[k])
  BY <1>2, <1>3, <1>6
<1>8. Total(f, n) \in Nat /\ Total(g, n) \in Nat /\ f[k] \in Nat
  BY TotalNat
<1> QED
  BY <1>1, <1>7, <1>8

\* A larger entry nowhere makes the total smaller.
LEMMA TotalMonotone ==
    ASSUME NEW n \in Nat, NEW f \in [1..n -> Nat], NEW g \in [1..n -> Nat],
           \A k \in 1..n : f[k] <= g[k]
    PROVE  Total(f, n) \in Nat /\ Total(g, n) \in Nat /\ Total(f, n) <= Total(g, n)
<1>2. PICK S : Runs(S, f, n) /\ Total(f, n) = S[n]
  BY TotalRuns
<1>3. PICK T : Runs(T, g, n) /\ Total(g, n) = T[n]
  BY TotalRuns
<1> DEFINE G == {m \in 0..n : S[m] <= T[m]}
<1>4. 0 \in G
  BY <1>2, <1>3 DEF Runs
<1>5. ASSUME NEW m \in 1..n, m - 1 \in G PROVE m \in G
  <2>1. /\ T[m] = T[m - 1] + g[m] /\ S[m] = S[m - 1] + f[m] /\ m - 1 \in 0..n /\ f[m] \in Nat
        /\ S[m - 1] \in Nat /\ T[m - 1] \in Nat /\ g[m] \in Nat /\ f[m] <= g[m]
    BY <1>2, <1>3 DEF Runs
  <2> QED
    BY <1>5, <2>1
<1>6. \A m \in 0..n : m \in G
  <2> HIDE DEF G
  <2> QED
    BY <1>4, <1>5, UpTo
<1> QED
  BY <1>2, <1>3, <1>6 DEF Runs

LEMMA TotalZero ==
    ASSUME NEW n \in Nat, NEW f \in [1..n -> Nat], \A k \in 1..n : f[k] = 0
    PROVE  Total(f, n) = 0
<1>2. PICK S : Runs(S, f, n) /\ Total(f, n) = S[n]
  BY TotalRuns
<1> DEFINE G == {m \in 0..n : S[m] = 0}
<1>4. 0 \in G
  BY <1>2 DEF Runs
<1>5. ASSUME NEW m \in 1..n, m - 1 \in G PROVE m \in G
  BY <1>2, <1>5 DEF Runs
<1>6. \A m \in 0..n : m \in G
  <2> HIDE DEF G
  <2> QED
    BY <1>4, <1>5, UpTo
<1> QED
  BY <1>2, <1>6

-----------------------------------------------------------------------------
(***************************************************************************)
(* Types of the helpers.                                                   *)
(***************************************************************************)

LEMMA StoreType ==
    ASSUME NEW d \in [Inode -> Content], Store(d)
    PROVE  data' \in [Inode -> Content]
<1> <<>> \in Content
  BY DEF Content
<1> QED
  BY DEF Store

LEMMA WriteAtType ==
    ASSUME NEW d \in Content, NEW n \in Nat, NEW v \in Versions
    PROVE  WriteAt(d, n, v) \in Content
<1> DEFINE m == IF Len(d) > n THEN Len(d) ELSE n + 1
           f == WriteAt(d, n, v)
<1>1. Len(d) \in Nat /\ m \in Nat /\ DOMAIN d = 1..Len(d)
  BY DEF Content
<1>2. f = [k \in 1..m |-> IF k = n + 1 THEN v ELSE IF k <= Len(d) THEN d[k] ELSE Hole]
  BY DEF WriteAt
<1>3. \A k \in 1..m : f[k] \in Versions \cup {Hole}
  BY <1>1, <1>2 DEF Content
<1>4. f \in [1..m -> Versions \cup {Hole}]
  BY <1>2, <1>3
<1> QED
  BY <1>1, <1>4 DEF Content

-----------------------------------------------------------------------------
(***************************************************************************)
(* The part of the invariant that concerns the streams, the claims and the *)
(* in-flight counter.  It holds whatever clients do to directories.        *)
(***************************************************************************)

\* Neither half of an upload has more left to do than it started with.
WithinBounds(st) == st.to_rehash <= st.prior /\ st.remaining <= st.reserved

StreamsOK ==
    /\ DOMAIN streams \subseteq StreamId
    /\ streams \in [DOMAIN streams -> ReadingFileData]
    /\ \A s \in DOMAIN streams : WithinBounds(streams[s])
    /\ in_flight_bytes \in Nat
    /\ active_uploads \in SUBSET Path
    /\ InFlightExact
    /\ ClaimsExact

LEMMA SlotUpdate ==
    ASSUME NEW f \in [StreamId -> Nat], NEW g \in [StreamId -> Nat], NEW s \in StreamId,
           \A t \in StreamId : t # s => g[t] = f[t]
    PROVE  /\ Total(f, NStreams) \in Nat /\ Total(g, NStreams) \in Nat
           /\ Total(g, NStreams) = Total(f, NStreams) - f[s] + g[s]
BY TotalUpdate, UploadAssumption DEF StreamId

LEMMA ReservationsType ==
    ASSUME StreamsOK
    PROVE  Reservations \in [StreamId -> Nat]
BY DEF StreamsOK, Reservations, ReadingFileData

\* A stream that ends gives back exactly what it had reserved and claimed.
LEMMA DropOK ==
    ASSUME StreamsOK, NEW s \in DOMAIN streams, Drop(s),
           in_flight_bytes' = in_flight_bytes - streams[s].reserved
    PROVE  StreamsOK'
<1>1. s \in StreamId /\ streams[s] \in ReadingFileData
  BY DEF StreamsOK
<1>2. streams[s].reserved \in Nat /\ Reservations[s] = streams[s].reserved
  BY <1>1 DEF ReadingFileData, Reservations
<1>3. DOMAIN streams' = DOMAIN streams \ {s}
      /\ \A t \in DOMAIN streams' : streams'[t] = streams[t]
  BY DEF Drop, Without
<1>4. Reservations' = [Reservations EXCEPT ![s] = 0]
  BY <1>1, <1>3 DEF Reservations
<1>5. /\ Reservations' \in [StreamId -> Nat]
      /\ Reservations'[s] = 0 /\ \A t \in StreamId : t # s => Reservations'[t] = Reservations[t]
  BY <1>1, <1>4, ReservationsType
<1>6. /\ Total(Reservations', NStreams) \in Nat
      /\ Total(Reservations', NStreams) = Total(Reservations, NStreams) - Reservations[s] + 0
  BY <1>1, <1>5, ReservationsType, SlotUpdate
<1>7. in_flight_bytes' \in Nat /\ InFlightExact'
  BY <1>2, <1>6 DEF StreamsOK, InFlightExact
<1>8. streams' \in [DOMAIN streams' -> ReadingFileData]
  BY <1>3 DEF StreamsOK, Drop, Without
<1>9. ClaimsExact'
  BY <1>3 DEF StreamsOK, ClaimsExact, Drop
<1> QED
  BY <1>3, <1>7, <1>8, <1>9 DEF StreamsOK, Drop

\* An accepted Put reserves its size and claims a path nobody had claimed.
LEMMA AcceptOK ==
    ASSUME StreamsOK,
           NEW s \in StreamId \ DOMAIN streams, NEW p \in Path \ active_uploads,
           NEW i \in Inode, NEW offset \in Nat, NEW size \in Nat,
           NEW v \in Versions, NEW opt \in Options,
           accept_put(s, p, i, offset, size, v, opt)
    PROVE  StreamsOK'
<1> DEFINE st == [path |-> p, inode |-> i, version |-> v, opt |-> opt,
                  reserved |-> size, remaining |-> size, prior |-> offset,
                  hashed |-> <<>>, to_rehash |-> offset]
<1>1. st \in ReadingFileData
  <2> <<>> \in Content
    BY DEF Content
  <2> QED
    BY DEF ReadingFileData
<1>2. /\ DOMAIN streams' = DOMAIN streams \cup {s}
      /\ streams'[s] = st
      /\ \A t \in DOMAIN streams : streams'[t] = streams[t]
      /\ streams' = [t \in DOMAIN streams \cup {s} |-> IF t = s THEN st ELSE streams[t]]
  BY DEF accept_put, With
<1>3. st.path = p /\ st.reserved = size /\ WithinBounds(st)
  BY DEF WithinBounds
<1> HIDE DEF st
<1>4. Reservations' = [Reservations EXCEPT ![s] = size]
  BY <1>2, <1>3 DEF Reservations
<1>5. Reservations[s] = 0
  BY DEF Reservations
<1>6. Total(Reservations', NStreams) = Total(Reservations, NStreams) - Reservations[s] + size
  <2>1. /\ Reservations' \in [StreamId -> Nat] /\ Reservations'[s] = size
        /\ \A t \in StreamId : t # s => Reservations'[t] = Reservations[t]
    BY <1>4, ReservationsType
  <2> QED
    BY <2>1, ReservationsType, SlotUpdate
<1>7. in_flight_bytes' = in_flight_bytes + size
  BY DEF accept_put
<1>8. in_flight_bytes' \in Nat /\ InFlightExact'
  BY <1>5, <1>6, <1>7 DEF StreamsOK, InFlightExact
<1>9. streams' \in [DOMAIN streams' -> ReadingFileData]
  BY <1>1, <1>2 DEF StreamsOK
<1>10. ClaimsExact'
  <2>1. active_uploads' = active_uploads \cup {p}
    BY DEF accept_put
  <2>0. streams'[s].path = p
    BY <1>2, <1>3
  <2>2. \A t \in DOMAIN streams : streams[t].path \in active_uploads
    BY DEF StreamsOK, ClaimsExact
  <2>3. active_uploads' = {streams'[t].path : t \in DOMAIN streams'}
    <3>1. active_uploads = {streams[t].path : t \in DOMAIN streams}
      BY DEF StreamsOK, ClaimsExact
    <3>2. ASSUME NEW x \in active_uploads'
          PROVE  \E t \in DOMAIN streams' : x = streams'[t].path
      <4>1. CASE x = p
        BY <4>1, <1>2, <2>0
      <4>2. CASE x \in active_uploads
        <5>1. PICK t \in DOMAIN streams : x = streams[t].path
          BY <4>2, <3>1
        <5> QED
          BY <5>1, <1>2
      <4> QED
        BY <2>1, <4>1, <4>2
    <3>3. ASSUME NEW t \in DOMAIN streams'
          PROVE  streams'[t].path \in active_uploads'
      BY <1>2, <2>0, <2>1, <2>2
    <3> QED
      BY <3>2, <3>3
  <2>4. \A t, u \in DOMAIN streams' : streams'[t].path = streams'[u].path => t = u
    BY <1>2, <2>0, <2>2 DEF StreamsOK, ClaimsExact
  <2> QED
    BY <2>3, <2>4 DEF ClaimsExact
<1> QED
  BY <1>2, <1>3, <1>8, <1>9, <1>10 DEF StreamsOK, accept_put

\* A stream that makes progress keeps its reservation and its claim.
LEMMA ProgressOK ==
    ASSUME StreamsOK, NEW s \in DOMAIN streams, NEW st \in ReadingFileData,
           st.path = streams[s].path, st.reserved = streams[s].reserved,
           WithinBounds(st),
           streams' = [streams EXCEPT ![s] = st],
           UNCHANGED <<in_flight_bytes, active_uploads>>
    PROVE  StreamsOK'
<1>1. /\ DOMAIN streams' = DOMAIN streams
      /\ \A t \in DOMAIN streams : /\ streams'[t].path = streams[t].path
                                   /\ streams'[t].reserved = streams[t].reserved
  BY DEF StreamsOK
<1>2. Reservations' = Reservations
  BY <1>1 DEF Reservations
<1>3. streams' \in [DOMAIN streams' -> ReadingFileData]
  BY <1>1 DEF StreamsOK
<1>4. ClaimsExact'
  BY <1>1 DEF StreamsOK, ClaimsExact
<1> QED
  BY <1>1, <1>2, <1>3, <1>4 DEF StreamsOK, InFlightExact

LEMMA UnchangedOK ==
    ASSUME StreamsOK, UNCHANGED <<streams, in_flight_bytes, active_uploads>>
    PROVE  StreamsOK'
BY DEF StreamsOK, InFlightExact, ClaimsExact, Reservations

-----------------------------------------------------------------------------
(***************************************************************************)
(* The rest of the type invariant, and the whole invariant.                *)
(***************************************************************************)

DiskOK ==
    /\ dirs \in SUBSET Dirs
    /\ file \in [Path -> Inode \cup {NoInode}]
    /\ temp \in [Path -> Inode \cup {NoInode}]
    /\ data \in [Inode -> Content]

LoopOK ==
    /\ loop \in Loop
    /\ loop.pc \in {"rename", "settle"} => loop.stream \in DOMAIN streams

JobsOK ==
    /\ DOMAIN jobs \subseteq Workers
    /\ jobs \in [DOMAIN jobs -> Job]

CountersInv == DiskOK /\ used_bytes \in Nat /\ StreamsOK /\ LoopOK /\ JobsOK

LEMMA CountersInvImplies ==
    CountersInv => (overlapped \in BOOLEAN => TypeOK) /\ InFlightExact /\ ClaimsExact
BY DEF CountersInv, TypeOK, DiskOK, StreamsOK, LoopOK, JobsOK

LEMMA IdleOK == Idle \in Loop /\ Idle.pc = "idle"
BY DEF Idle, Loop

LEMMA InitCounters == Init => CountersInv
<1> SUFFICES ASSUME Init PROVE CountersInv
  OBVIOUS
<1>1. <<>> \in Content /\ NStreams \in Nat
  BY UploadAssumption DEF Content
<1>2. DOMAIN streams = {} /\ DOMAIN jobs = {}
  BY DEF Init
<1>3. DiskOK
  BY <1>1 DEF Init, DiskOK
<1>4. LoopOK /\ JobsOK
  BY <1>2, IdleOK DEF Init, LoopOK, JobsOK
<1>5. Reservations = [s \in StreamId |-> 0]
  BY <1>2 DEF Reservations
<1>6. InFlightExact
  BY <1>1, <1>5, TotalZero DEF InFlightExact, Init, StreamId
<1>7. StreamsOK
  BY <1>2, <1>6 DEF StreamsOK, ClaimsExact, Init
<1> QED
  BY <1>3, <1>4, <1>7 DEF CountersInv, Init

\* Ending a stream by either route, from a state in which no commit is under
\* way or from the commit of that stream itself.
LEMMA EndCounters ==
    ASSUME CountersInv, NEW s \in DOMAIN streams,
           AbortAccounting(s) \/ cleanup_rejected_upload(s)
    PROVE  DiskOK' /\ used_bytes' \in Nat /\ StreamsOK'
<1>1. streams[s] \in ReadingFileData
  BY DEF CountersInv, StreamsOK
<1>2. streams[s].reserved \in Nat /\ streams[s].remaining \in Nat
      /\ streams[s].prior \in Nat /\ streams[s].path \in Path
  BY <1>1 DEF ReadingFileData
<1>3. StreamsOK'
  BY DropOK DEF CountersInv, AbortAccounting, cleanup_rejected_upload
<1>4. data' \in [Inode -> Content]
  BY StoreType DEF CountersInv, DiskOK, AbortAccounting, cleanup_rejected_upload
<1>5. temp' \in [Path -> Inode \cup {NoInode}]
  BY <1>2 DEF CountersInv, DiskOK, AbortAccounting, cleanup_rejected_upload
<1>6. used_bytes' \in Nat
  BY <1>2 DEF CountersInv, AbortAccounting, cleanup_rejected_upload, SaturatingSub
<1> QED
  BY <1>3, <1>4, <1>5, <1>6
     DEF CountersInv, DiskOK, AbortAccounting, cleanup_rejected_upload

LEMMA StartFreshCounters ==
    ASSUME CountersInv, NEW s \in StreamId, NEW p \in Path, NEW size \in 0..MaxFile,
           NEW v \in Versions, NEW opt \in Options,
           start_put_fresh(s, p, size, v, opt)
    PROVE  CountersInv'
<1> USE UploadAssumption
<1>1. PICK i \in Inode :
        LET refunded == SaturatingSub(used_bytes, Len(data[i])) IN
        /\ used_bytes' = refunded
        /\ \/ /\ temp' = [temp EXCEPT ![p] = i]
              /\ accept_put(s, p, i, 0, size, v, opt)
           \/ /\ temp' = [temp EXCEPT ![p] = NoInode]
              /\ UNCHANGED <<in_flight_bytes, active_uploads, streams>>
        /\ UNCHANGED <<dirs, file, loop, jobs>>
        /\ Store([data EXCEPT ![i] = <<>>])
  BY DEF start_put_fresh
<1>2. put_admissible(s, p, 0, size, opt)
  BY DEF start_put_fresh
<1>3. data[i] \in Content /\ Len(data[i]) \in Nat /\ <<>> \in Content
  BY DEF CountersInv, DiskOK, Content
<1>4. used_bytes' \in Nat
  BY <1>1, <1>3 DEF CountersInv, SaturatingSub
<1>5. DiskOK'
  <2>1. data' \in [Inode -> Content]
    <3>1. [data EXCEPT ![i] = <<>>] \in [Inode -> Content]
      BY <1>3 DEF CountersInv, DiskOK
    <3> QED
      BY <1>1, <3>1, StoreType
  <2> QED
    BY <1>1, <2>1 DEF CountersInv, DiskOK
<1>6. StreamsOK'
  <2>1. CASE accept_put(s, p, i, 0, size, v, opt)
    BY <2>1, <1>2, AcceptOK DEF CountersInv, put_admissible
  <2>2. CASE UNCHANGED <<in_flight_bytes, active_uploads, streams>>
    BY <2>2, UnchangedOK DEF CountersInv
  <2> QED
    BY <1>1, <2>1, <2>2
<1>7. LoopOK'
  BY <1>1, <1>2, IdleOK DEF CountersInv, LoopOK, put_admissible
<1> QED
  BY <1>1, <1>4, <1>5, <1>6, <1>7 DEF CountersInv, JobsOK

LEMMA StartResumeCounters ==
    ASSUME CountersInv, NEW s \in StreamId, NEW p \in Path, NEW size \in 0..MaxFile,
           NEW v \in Versions, NEW opt \in Options,
           start_put_resume(s, p, size, v, opt)
    PROVE  CountersInv'
<1> USE UploadAssumption
<1> DEFINE offset == Len(data[temp[p]])
<1>1. temp[p] \in Inode
  BY DEF CountersInv, DiskOK, start_put_resume
<1>2. offset \in Nat
  BY <1>1 DEF CountersInv, DiskOK, Content
<1>3. put_admissible(s, p, offset, size, opt)
      /\ accept_put(s, p, temp[p], offset, size, v, opt)
      /\ UNCHANGED <<diskVars, used_bytes, loop, jobs>>
  BY DEF start_put_resume
<1> HIDE DEF offset
<1>4. StreamsOK'
  BY <1>1, <1>2, <1>3, AcceptOK DEF CountersInv, put_admissible
<1>5. LoopOK'
  BY <1>3, IdleOK DEF CountersInv, LoopOK, put_admissible
<1> QED
  BY <1>3, <1>4, <1>5 DEF CountersInv, DiskOK, JobsOK, diskVars

LEMMA PutStepCounters ==
    ASSUME CountersInv, NEW s \in DOMAIN streams, PutStep(s)
    PROVE  CountersInv'
<1> DEFINE st == streams[s]
<1>1. st \in ReadingFileData /\ s \in StreamId
  BY DEF CountersInv, StreamsOK
<1>2. /\ st.inode \in Inode /\ st.hashed \in Content /\ st.path \in Path
      /\ st.reserved \in Nat /\ st.remaining \in Nat
      /\ st.prior \in Nat /\ st.to_rehash \in Nat
  BY <1>1 DEF ReadingFileData
<1>3. data[st.inode] \in Content
  BY <1>2 DEF CountersInv, DiskOK
<1>4. ASSUME drive_rehash(s) PROVE CountersInv'
  <2> DEFINE b == data[st.inode][st.prior - st.to_rehash + 1]
             new == [st EXCEPT !.hashed = Append(@, b), !.to_rehash = @ - 1]
  <2>1. streams' = [streams EXCEPT ![s] = new]
    BY <1>4 DEF drive_rehash
  <2>2. new \in ReadingFileData /\ WithinBounds(new)
    <3>1. /\ st.to_rehash - 1 \in Nat /\ st.to_rehash <= st.prior
          /\ WithinBounds(st)
      BY <1>2, <1>4 DEF drive_rehash, CountersInv, StreamsOK, WithinBounds
    <3>2. Append(st.hashed, b) \in Content
      BY <1>2, <1>3, <1>4, <3>1 DEF drive_rehash, Content
    <3>3. new \in ReadingFileData
      BY <1>1, <3>1, <3>2 DEF ReadingFileData
    <3>4. WithinBounds(new)
      BY <1>1, <1>2, <3>1 DEF ReadingFileData, WithinBounds
    <3> QED
      BY <3>3, <3>4
  <2>3. new.path = st.path /\ new.reserved = st.reserved
    BY <1>1 DEF ReadingFileData
  <2>4. UNCHANGED <<diskVars, userVars, loop, jobs>> /\ loop = Idle
    BY <1>4 DEF drive_rehash
  <2> HIDE DEF new
  <2>5. StreamsOK'
    BY <2>1, <2>2, <2>3, <2>4, ProgressOK DEF CountersInv, userVars
  <2> QED
    BY <2>4, <2>5, IdleOK DEF CountersInv, DiskOK, LoopOK, JobsOK, diskVars, userVars
<1>5. ASSUME NEW v \in Versions, drive_body(s, v) PROVE CountersInv'
  <2> DEFINE new == [st EXCEPT !.hashed = Append(@, v), !.remaining = @ - 1]
             at == st.prior + st.reserved - st.remaining
  <2>1. streams' = [streams EXCEPT ![s] = new]
    BY <1>5 DEF drive_body
  <2>2. new \in ReadingFileData /\ WithinBounds(new)
    <3>1. st.remaining - 1 \in Nat /\ WithinBounds(st)
      BY <1>2, <1>5 DEF drive_body, CountersInv, StreamsOK
    <3>2. Append(st.hashed, v) \in Content
      BY <1>2 DEF Content
    <3>3. new \in ReadingFileData
      BY <1>1, <3>1, <3>2 DEF ReadingFileData
    <3>4. WithinBounds(new)
      BY <1>1, <1>2, <3>1 DEF ReadingFileData, WithinBounds
    <3> QED
      BY <3>3, <3>4
  <2>3. new.path = st.path /\ new.reserved = st.reserved
    BY <1>1 DEF ReadingFileData
  <2>4. UNCHANGED <<dirs, file, temp, userVars, loop, jobs>> /\ loop = Idle
    BY <1>5 DEF drive_body
  <2>5. data' \in [Inode -> Content]
    <3>1. at \in Nat
      BY <1>2 DEF CountersInv, StreamsOK, WithinBounds
    <3>2. WriteAt(data[st.inode], at, v) \in Content
      BY <3>1, <1>3, WriteAtType
    <3>3. [data EXCEPT ![st.inode] = WriteAt(@, at, v)] \in [Inode -> Content]
      BY <3>2 DEF CountersInv, DiskOK
    <3> QED
      BY <3>3, <1>5, StoreType DEF drive_body
  <2> HIDE DEF new, at
  <2>6. StreamsOK'
    BY <2>1, <2>2, <2>3, <2>4, ProgressOK DEF CountersInv, userVars
  <2> QED
    BY <2>4, <2>5, <2>6, IdleOK DEF CountersInv, DiskOK, LoopOK, JobsOK, userVars
<1>6. ASSUME rehash_fails(s) \/ decode_fails(s) \/ abort_put(s)
      PROVE  CountersInv'
  <2>1. (AbortAccounting(s) \/ cleanup_rejected_upload(s))
        /\ loop = Idle /\ UNCHANGED <<loop, jobs>>
    BY <1>6 DEF rehash_fails, decode_fails, abort_put
  <2> QED
    BY <2>1, EndCounters, IdleOK DEF CountersInv, LoopOK, JobsOK
<1>7. ASSUME commit_guard(s) PROVE CountersInv'
  <2>1. loop = Idle /\ UNCHANGED jobs
    BY <1>7 DEF commit_guard
  <2>2. CASE (AbortAccounting(s) \/ cleanup_rejected_upload(s)) /\ UNCHANGED loop
    BY <2>1, <2>2, EndCounters, IdleOK DEF CountersInv, LoopOK, JobsOK
  <2>3. CASE /\ loop' = [Idle EXCEPT !.pc = "rename", !.stream = s]
             /\ UNCHANGED <<diskVars, userVars, streams>>
    <3>1. loop' \in Loop /\ loop'.stream = s
      BY <2>3, <1>1 DEF Idle, Loop
    <3>2. StreamsOK'
      BY <2>3, UnchangedOK DEF CountersInv, userVars
    <3> QED
      BY <2>1, <2>3, <3>1, <3>2
         DEF CountersInv, DiskOK, LoopOK, JobsOK, diskVars, userVars
  <2> QED
    BY <1>7, <2>2, <2>3 DEF commit_guard
<1>8. ASSUME commit_rename(s) PROVE CountersInv'
  <2>1. UNCHANGED jobs
    BY <1>8 DEF commit_rename
  <2>2. CASE AbortAccounting(s) /\ loop' = Idle
    BY <2>1, <2>2, EndCounters, IdleOK DEF CountersInv, LoopOK, JobsOK
  <2>3. CASE /\ temp[st.path] # NoInode
             /\ file' = [file EXCEPT ![st.path] = temp[st.path]]
             /\ temp' = [temp EXCEPT ![st.path] = NoInode]
             /\ loop' = [loop EXCEPT !.pc = "settle"]
             /\ UNCHANGED <<dirs, userVars, streams>>
             /\ Store(data)
    <3>1. loop.pc = "rename" /\ loop.stream = s
      BY <1>8 DEF commit_rename
    <3>2. loop' \in Loop /\ loop'.stream = s
      BY <2>3, <3>1 DEF CountersInv, LoopOK, Loop
    <3>3. StreamsOK'
      BY <2>3, UnchangedOK DEF CountersInv, userVars
    <3>4. DiskOK'
      BY <2>3, <1>2, StoreType DEF CountersInv, DiskOK
    <3> QED
      BY <2>1, <2>3, <3>2, <3>3, <3>4 DEF CountersInv, LoopOK, JobsOK, userVars
  <2> QED
    BY <1>8, <2>2, <2>3 DEF commit_rename
<1>9. ASSUME commit_settle(s) PROVE CountersInv'
  <2>1. StreamsOK'
    BY <1>9, DropOK DEF CountersInv, commit_settle
  <2>2. data' \in [Inode -> Content]
    BY <1>9, StoreType DEF CountersInv, DiskOK, commit_settle
  <2>3. used_bytes' \in Nat
    BY <1>9, <1>2 DEF CountersInv, commit_settle
  <2> QED
    BY <1>9, <2>1, <2>2, <2>3, IdleOK
       DEF CountersInv, DiskOK, LoopOK, JobsOK, commit_settle
<1> QED
  BY <1>4, <1>5, <1>6, <1>7, <1>8, <1>9 DEF PutStep

\* Steps of the handler threads leave the streams and the loop alone.
LEMMA WorkerCounters ==
    ASSUME CountersInv, NEW w \in Workers,
           UNCHANGED <<in_flight_bytes, active_uploads, streams, loop>>,
           DiskOK', used_bytes' \in Nat, JobsOK'
    PROVE  CountersInv'
BY UnchangedOK DEF CountersInv, LoopOK

LEMMA NewJobOK ==
    ASSUME JobsOK, NEW w \in Workers, NEW j \in Job, take_job(w, j)
    PROVE  JobsOK'
<1>1. DOMAIN jobs' = DOMAIN jobs \cup {w} /\ jobs' = With(jobs, w, j)
  BY DEF With, take_job
<1> QED
  BY <1>1 DEF JobsOK, With

LEMMA EndJobOK ==
    ASSUME JobsOK, NEW w \in Workers, jobs' = Without(jobs, w)
    PROVE  JobsOK'
<1> DOMAIN jobs' = DOMAIN jobs \ {w}
  BY DEF Without
<1> QED
  BY DEF JobsOK, Without

LEMMA AdvanceJobOK ==
    ASSUME JobsOK, NEW w \in DOMAIN jobs, jobs' = [jobs EXCEPT ![w].pc = "refund"]
    PROVE  JobsOK'
<1> DEFINE new == [jobs[w] EXCEPT !.pc = "refund"]
<1>1. new \in Job
  BY DEF JobsOK, Job
<1>2. jobs' = [jobs EXCEPT ![w] = new]
  OBVIOUS
<1> QED
  BY <1>1, <1>2 DEF JobsOK

LEMMA SizeAtType ==
    ASSUME DiskOK, NEW p \in Path
    PROVE  SizeAt(p) \in Nat
<1>1. CASE file[p] # NoInode
  <2> data[file[p]] \in Content
    BY <1>1 DEF DiskOK
  <2> QED
    BY <1>1 DEF SizeAt, Content
<1> QED
  BY <1>1 DEF SizeAt

LEMMA LenOfType ==
    ASSUME DiskOK, NEW i \in Inode \cup {NoInode}
    PROVE  LenOf(i) \in Nat
<1>1. CASE i # NoInode
  <2> data[i] \in Content
    BY <1>1 DEF DiskOK
  <2> QED
    BY <1>1 DEF LenOf, Content
<1> QED
  BY <1>1 DEF LenOf

LEMMA JobCounters ==
    ASSUME CountersInv, NEW w \in Workers,
           \/ \E p \in Removes : rm_stat(w, p)
           \/ \E r \in Renames : rename_stat(w, r[1], r[2])
           \/ \E d \in MutDirs : Mkdir(w, d) \/ Rmdir(w, d)
           \/ \E a, b \in MutDirs : RenameDir(w, a, b)
    PROVE  CountersInv'
<1> USE UploadAssumption
<1>1. ASSUME NEW p \in Removes, rm_stat(w, p) PROVE CountersInv'
  <2>1. p \in Path
    BY DEF Path
  <2>2. SizeAt(p) \in Nat
    BY <2>1, SizeAtType DEF CountersInv
  <2>3. [op |-> "rm", pc |-> "act", from |-> p, to |-> p, size |-> SizeAt(p)] \in Job
    BY <2>1, <2>2 DEF Job
  <2>4. JobsOK'
    BY <2>3, <1>1, NewJobOK DEF CountersInv, rm_stat
  <2> QED
    BY <2>4, <1>1, WorkerCounters DEF CountersInv, DiskOK, rm_stat, take_job, diskVars, userVars
<1>2. ASSUME NEW r \in Renames, rename_stat(w, r[1], r[2]) PROVE CountersInv'
  <2> DEFINE j == [op |-> "rename", pc |-> "act", from |-> r[1], to |-> r[2],
                   size |-> IF r[1] # r[2] /\ file[r[1]] # NoInode
                            THEN SizeAt(r[2]) ELSE 0]
  <2>1. r[1] \in Path /\ r[2] \in Path
    BY DEF Path
  <2>2. SizeAt(r[2]) \in Nat
    BY <2>1, SizeAtType DEF CountersInv
  <2>3. j \in Job
    BY <2>1, <2>2 DEF Job
  <2>4. JobsOK'
    <3>1. take_job(w, j)
      BY <1>2 DEF rename_stat
    <3> QED
      BY <2>3, <3>1, NewJobOK DEF CountersInv
  <2> QED
    BY <2>4, <1>2, WorkerCounters DEF CountersInv, DiskOK, rename_stat, take_job, diskVars, userVars
<1>3. ASSUME NEW d \in MutDirs, Mkdir(w, d) \/ Rmdir(w, d) PROVE CountersInv'
  <2>1. DiskOK'
    BY <1>3 DEF CountersInv, DiskOK, Mkdir, Rmdir
  <2> QED
    BY <2>1, <1>3, WorkerCounters DEF CountersInv, JobsOK, Mkdir, Rmdir, userVars
<1>4. ASSUME NEW a \in MutDirs, NEW b \in MutDirs, RenameDir(w, a, b)
      PROVE  CountersInv'
  <2>1. \A p \in Path : <<a, p[2]>> \in Path
    BY DEF Path
  <2>2. DiskOK'
    BY <1>4, <2>1 DEF CountersInv, DiskOK, RenameDir
  <2> QED
    BY <2>2, <1>4, WorkerCounters DEF CountersInv, JobsOK, RenameDir, userVars
<1> QED
  BY <1>1, <1>2, <1>3, <1>4

LEMMA RunningJobCounters ==
    ASSUME CountersInv, NEW w \in DOMAIN jobs,
           rm_unlink(w) \/ rename_act(w) \/ quota_refund(w)
    PROVE  CountersInv'
<1>1. w \in Workers /\ jobs[w] \in Job
  BY DEF CountersInv, JobsOK
<1>2. jobs[w].from \in Path /\ jobs[w].to \in Path /\ jobs[w].size \in Nat
  BY <1>1 DEF Job
<1>3. JobsOK'
  BY <1>1, AdvanceJobOK, EndJobOK DEF CountersInv, rm_unlink, rename_act, quota_refund
<1>4. ASSUME rm_unlink(w) \/ rename_act(w) PROVE CountersInv'
  <2>1. file' \in [Path -> Inode \cup {NoInode}]
    BY <1>2, <1>4 DEF CountersInv, DiskOK, rm_unlink, rename_act
  <2>2. data' \in [Inode -> Content]
    BY <1>4, StoreType DEF CountersInv, DiskOK, rm_unlink, rename_act
  <2> QED
    BY <1>1, <1>3, <1>4, <2>1, <2>2, WorkerCounters
       DEF CountersInv, DiskOK, rm_unlink, rename_act, userVars
<1>5. ASSUME quota_refund(w) PROVE CountersInv'
  <2>1. used_bytes' \in Nat
    BY <1>2, <1>5 DEF CountersInv, quota_refund, SaturatingSub
  <2> QED
    BY <1>1, <1>3, <1>5, <2>1, WorkerCounters
       DEF CountersInv, DiskOK, quota_refund, diskVars
<1> QED
  BY <1>4, <1>5

LEMMA RestartCounters ==
    ASSUME CountersInv, NEW lost \in SUBSET DOMAIN streams, NEW stale \in SUBSET Path,
           crash_and_sweep(lost, stale)
    PROVE  CountersInv'
<1>1. \A i \in Inode : LastChunkLost(lost)[i] \in Content
  <2> SUFFICES ASSUME NEW i \in Inode PROVE LastChunkLost(lost)[i] \in Content
    OBVIOUS
  <2>1. data[i] \in Content /\ Len(data[i]) \in Nat
    BY DEF CountersInv, DiskOK, Content
  <2>2. ASSUME NEW s \in lost, Len(data[i]) > streams[s].prior
        PROVE  SubSeq(data[i], 1, Len(data[i]) - 1) \in Content
    <3>1. streams[s].prior \in Nat
      BY DEF CountersInv, StreamsOK, ReadingFileData
    <3>2. \A k \in 1..(Len(data[i]) - 1) : data[i][k] \in Versions \cup {Hole}
      BY <2>1 DEF Content
    <3> QED
      BY <2>1, <2>2, <3>1, <3>2 DEF Content
  <2> QED
    BY <2>1, <2>2 DEF LastChunkLost
<1>2. LastChunkLost(lost) \in [Inode -> Content]
  BY <1>1 DEF LastChunkLost
<1>3. DiskOK'
  BY <1>2, StoreType DEF crash_and_sweep, CountersInv, DiskOK
<1>4. DOMAIN streams' = {} /\ DOMAIN jobs' = {}
  BY DEF crash_and_sweep
<1>5. loop' \in Loop /\ loop'.pc = "boot"
  BY DEF crash_and_sweep, Loop
<1>6. LoopOK' /\ JobsOK'
  BY <1>4, <1>5 DEF crash_and_sweep, LoopOK, JobsOK
<1>7. InFlightExact'
  <2>1. Reservations' = [s \in StreamId |-> 0] /\ in_flight_bytes' = 0
    BY <1>4 DEF Reservations, crash_and_sweep
  <2> QED
    BY <2>1, TotalZero, UploadAssumption DEF InFlightExact, StreamId
<1>8. StreamsOK'
  BY <1>4, <1>7 DEF crash_and_sweep, StreamsOK, ClaimsExact
<1> QED
  BY <1>3, <1>6, <1>8 DEF crash_and_sweep, CountersInv

LEMMA WalkCounters ==
    ASSUME CountersInv, NEW p \in loop.uncounted, walk_size(p)
    PROVE  CountersInv'
<1>1. loop.pc = "boot" /\ loop.uncounted \in SUBSET Path /\ loop.stream = 0
  BY DEF walk_size, CountersInv, LoopOK, Loop
<1>2. LenOf(file[p]) \in Nat /\ LenOf(temp[p]) \in Nat
  BY <1>1, LenOfType DEF CountersInv, DiskOK
<1>3. used_bytes' \in Nat
  BY <1>2 DEF walk_size, CountersInv
<1>4. StreamsOK'
  BY UnchangedOK DEF walk_size, CountersInv
<1>5. loop' \in Loop /\ loop'.pc \in {"idle", "boot"}
  BY <1>1, IdleOK DEF walk_size, CountersInv, LoopOK, Loop
<1> QED
  BY <1>3, <1>4, <1>5 DEF walk_size, CountersInv, DiskOK, LoopOK, JobsOK, diskVars

LEMMA NextCounters == CountersInv /\ [Next]_vars => CountersInv'
<1> SUFFICES ASSUME CountersInv, [Next]_vars PROVE CountersInv'
  OBVIOUS
<1>1. ASSUME NEW s \in StreamId, NEW p \in Path, NEW size \in 0..MaxFile,
             NEW v \in Versions, NEW opt \in Options,
             start_put_fresh(s, p, size, v, opt) \/ start_put_resume(s, p, size, v, opt)
      PROVE  CountersInv'
  BY <1>1, StartFreshCounters, StartResumeCounters
<1>2. CASE UNCHANGED vars
  BY <1>2, UnchangedOK
     DEF vars, diskVars, userVars, CountersInv, DiskOK, LoopOK, JobsOK
<1>3. ASSUME NEW lost \in SUBSET DOMAIN streams,
             NEW stale \in SUBSET {p \in Path : temp[p] # NoInode},
             crash_and_sweep(lost, stale)
      PROVE  CountersInv'
  BY <1>3, RestartCounters
<1>4. ASSUME NEW p \in loop.uncounted, walk_size(p) PROVE CountersInv'
  BY <1>4, WalkCounters
<1>5. ASSUME NEW w \in DOMAIN jobs, rm_unlink(w) \/ rename_act(w) \/ quota_refund(w)
      PROVE  CountersInv'
  BY <1>5, RunningJobCounters
<1>6. ASSUME NEW s \in DOMAIN streams, PutStep(s) PROVE CountersInv'
  BY <1>6, PutStepCounters
<1> QED
  BY <1>1, <1>2, <1>3, <1>4, <1>5, <1>6, JobCounters DEF Next

\* The history variable stays a truth value and, once set, stays set.
LEMMA OverlapKept ==
    ASSUME [Next]_vars, overlapped \in BOOLEAN
    PROVE  overlapped' \in BOOLEAN /\ (overlapped => overlapped')
<1>1. CASE UNCHANGED vars
  BY <1>1 DEF vars
<1>2. ASSUME NEW s, NEW p, NEW size, NEW v, NEW opt,
             start_put_fresh(s, p, size, v, opt) \/ start_put_resume(s, p, size, v, opt)
      PROVE  overlapped' = overlapped
  BY <1>2 DEF start_put_fresh, start_put_resume
<1>3. ASSUME NEW s, PutStep(s) PROVE overlapped' = overlapped
  BY <1>3 DEF PutStep, drive_rehash, rehash_fails, drive_body, decode_fails, abort_put,
              commit_guard, commit_rename, commit_settle
<1>4. ASSUME NEW w, \/ \E p \in Removes : rm_stat(w, p)
                    \/ \E r \in Renames : rename_stat(w, r[1], r[2])
      PROVE  overlapped' \in BOOLEAN /\ (overlapped => overlapped')
  <2>1. PICK j : take_job(w, j)
    BY <1>4 DEF rm_stat, rename_stat
  <2> QED
    BY <2>1 DEF take_job
<1>5. ASSUME NEW w, \/ \E d \in MutDirs : Mkdir(w, d) \/ Rmdir(w, d)
                    \/ \E a, b \in MutDirs : RenameDir(w, a, b)
      PROVE  overlapped' = overlapped
  BY <1>5 DEF Mkdir, Rmdir, RenameDir
<1>6. ASSUME NEW w, rm_unlink(w) \/ rename_act(w) \/ quota_refund(w) PROVE overlapped' = overlapped
  BY <1>6 DEF rm_unlink, rename_act, quota_refund
<1>7. ASSUME NEW lost, NEW stale, crash_and_sweep(lost, stale) PROVE overlapped' = overlapped
  BY <1>7 DEF crash_and_sweep
<1>8. ASSUME NEW p, walk_size(p) PROVE overlapped' = overlapped
  BY <1>8 DEF walk_size
<1>9. CASE Next
  <2>1. \/ overlapped' = overlapped
        \/ \E w : \/ \E p \in Removes : rm_stat(w, p)
                  \/ \E r \in Renames : rename_stat(w, r[1], r[2])
    BY <1>2, <1>3, <1>5, <1>6, <1>7, <1>8, <1>9 DEF Next
  <2> QED
    BY <1>4, <2>1
<1> QED
  BY <1>1, <1>9

\* The counters of every reachable state are well typed: in particular no
\* sequence of accepts, commits, rejections, aborts, refunds and restarts takes
\* in_flight_bytes or used_bytes below zero, where the u64 would wrap.
THEOREM TypeCorrect == Spec => []TypeOK
<1> DEFINE FlagOK == overlapped \in BOOLEAN
<1>1. Spec => []CountersInv
  BY InitCounters, NextCounters, PTL DEF Spec
<1>2. Init => FlagOK
  BY DEF Init
<1>3. FlagOK /\ [Next]_vars => FlagOK'
  BY OverlapKept
<1>4. CountersInv /\ FlagOK => TypeOK
  BY CountersInvImplies
<1> HIDE DEF FlagOK
<1> QED
  BY <1>1, <1>2, <1>3, <1>4, PTL DEF Spec

\* The in-flight counter is exactly the sum of the open uploads' reservations.
THEOREM InFlightIsExact == Spec => []InFlightExact
<1>1. Spec => []CountersInv
  BY InitCounters, NextCounters, PTL DEF Spec
<1> QED
  BY <1>1, CountersInvImplies, PTL

\* The claim set is exactly the open uploads' destinations, all distinct.
THEOREM ClaimsAreExact == Spec => []ClaimsExact
<1>1. Spec => []CountersInv
  BY InitCounters, NextCounters, PTL DEF Spec
<1> QED
  BY <1>1, CountersInvImplies, PTL

-----------------------------------------------------------------------------
(***************************************************************************)
(* What uploads write and commit, and what they occupy.  These results     *)
(* hold as long as clients leave the directories alone: a directory that   *)
(* is renamed takes the partials of running uploads with it, and then the  *)
(* claim on a path no longer stands for the partial.  The number of        *)
(* handler threads is free; what two of them may do to the cached usage is *)
(* in the history overlapped, which the two quota properties mention.      *)
(*                                                                         *)
(* The invariant.  The claims (CountersInv) make the destinations of       *)
(* uploads distinct, HoldsItsPartial ties a handle to its destination, and *)
(* NamesDistinct makes different destinations different inodes.            *)
(***************************************************************************)

\* Every inode has at most one name.
NamesDistinct ==
    \A p, q \in Path :
        /\ temp[p] = temp[q] /\ temp[p] # NoInode => p = q
        /\ file[p] = file[q] /\ file[p] # NoInode => p = q
        /\ file[p] # NoInode => file[p] # temp[q]

\* An upload's handle is the partial of its destination, until the rename.
HoldsItsPartial ==
    \A s \in DOMAIN streams :
        IF Settling(s) THEN \A p \in Path : temp[p] # streams[s].inode
        ELSE temp[streams[s].path] = streams[s].inode

\* Between the guard and the rename nothing is left to receive or to check.
ReadyToRename ==
    loop.pc = "rename" =>
        /\ streams[loop.stream].to_rehash = 0
        /\ streams[loop.stream].remaining = 0
        /\ verified(streams[loop.stream])

ContentInv ==
    /\ CountersInv
    /\ NamesDistinct
    /\ HoldsItsPartial
    /\ HashCoversPartial
    /\ ReadyToRename

LEMMA StreamFields ==
    ASSUME CountersInv, NEW s \in DOMAIN streams
    PROVE  /\ streams[s] \in ReadingFileData
           /\ streams[s].path \in Path /\ streams[s].inode \in Inode
           /\ streams[s].inode # NoInode
           /\ streams[s].reserved \in Nat /\ streams[s].remaining \in Nat
           /\ streams[s].prior \in Nat /\ streams[s].to_rehash \in Nat
           /\ streams[s].hashed \in Content
           /\ data[streams[s].inode] \in Content
<1>1. streams[s] \in ReadingFileData
  BY DEF CountersInv, StreamsOK
<1>2. streams[s].inode \in Inode
  BY <1>1 DEF ReadingFileData
<1> QED
  BY <1>1, <1>2 DEF ReadingFileData, Inode, NoInode, CountersInv, DiskOK

LEMMA HoldsOneEach ==
    ASSUME ContentInv
    PROVE  OneWriterPerPartial
<1> SUFFICES ASSUME NEW s \in DOMAIN streams
             PROVE  /\ \A t \in DOMAIN streams : streams[s].inode = streams[t].inode => s = t
                    /\ ~Settling(s) => \A p \in Path : file[p] # streams[s].inode
  BY DEF OneWriterPerPartial
<1>1. ~Settling(s) => \A p \in Path : file[p] # streams[s].inode
  BY StreamFields DEF ContentInv, HoldsItsPartial, NamesDistinct
<1>2. ASSUME NEW t \in DOMAIN streams, streams[s].inode = streams[t].inode, s # t PROVE FALSE
  <2>1. streams[s].path # streams[t].path
    BY <1>2 DEF ContentInv, CountersInv, StreamsOK, ClaimsExact
  <2>2. ~(Settling(s) /\ Settling(t))
    BY <1>2 DEF Settling
  <2>3. streams[s].path \in Path /\ streams[t].path \in Path /\ streams[s].inode # NoInode
    BY StreamFields DEF ContentInv
  <2>4. CASE Settling(s)
    BY <1>2, <2>2, <2>3, <2>4 DEF ContentInv, HoldsItsPartial
  <2>5. CASE Settling(t)
    BY <1>2, <2>2, <2>3, <2>5 DEF ContentInv, HoldsItsPartial
  <2>6. CASE ~Settling(s) /\ ~Settling(t)
    BY <1>2, <2>1, <2>3, <2>6 DEF ContentInv, HoldsItsPartial, NamesDistinct
  <2> QED
    BY <2>4, <2>5, <2>6
<1> QED
  BY <1>1, <1>2

-----------------------------------------------------------------------------
(***************************************************************************)
(* What each kind of step leaves alone.                                    *)
(***************************************************************************)

\* The condition HashCoversPartial puts on one upload whose partial holds d.
Hashed(st, d) ==
    /\ Len(d) = st.prior + st.reserved - st.remaining
    /\ st.remaining <= st.reserved
    /\ st.to_rehash > 0 => st.remaining = st.reserved /\ st.to_rehash <= st.prior
    /\ Len(st.hashed) = Len(d) - st.to_rehash
    /\ \A k \in 1..Len(st.hashed) : st.hashed[k] = d[k]

LEMMA HashedEach ==
    HashCoversPartial <=> \A s \in DOMAIN streams : Hashed(streams[s], data[streams[s].inode])
BY DEF HashCoversPartial, Hashed

LEMMA HashedEachAfter ==
    HashCoversPartial' <=>
        \A s \in DOMAIN streams' : Hashed(streams'[s], data'[streams'[s].inode])
BY DEF HashCoversPartial, Hashed

\* A file that an upload has open is not lost, whatever happens to its name.
LEMMA OpenFileKept ==
    ASSUME NEW d, Store(d), NEW s \in DOMAIN streams', streams'[s].inode \in Inode
    PROVE  data'[streams'[s].inode] = d[streams'[s].inode]
BY DEF Store, InUse

LEMMA HashKept ==
    ASSUME CountersInv, HashCoversPartial, NEW d, Store(d),
           \A t \in DOMAIN streams' :
             t \in DOMAIN streams /\ streams'[t] = streams[t]
             /\ d[streams[t].inode] = data[streams[t].inode]
    PROVE  HashCoversPartial'
<1> SUFFICES ASSUME NEW t \in DOMAIN streams'
             PROVE  Hashed(streams'[t], data'[streams'[t].inode])
  BY HashedEachAfter
<1>1. t \in DOMAIN streams /\ streams'[t] = streams[t] /\ streams[t].inode \in Inode
  BY StreamFields
<1>2. data'[streams'[t].inode] = data[streams[t].inode]
  BY <1>1, OpenFileKept
<1> QED
  BY <1>1, <1>2, HashedEach

LEMMA HoldsKept ==
    ASSUME HoldsItsPartial, loop'.pc # "settle",
           \A t \in DOMAIN streams' :
             /\ t \in DOMAIN streams /\ streams'[t] = streams[t]
             /\ ~Settling(t) /\ temp'[streams[t].path] = temp[streams[t].path]
    PROVE  HoldsItsPartial'
BY DEF HoldsItsPartial, Settling

\* Names disappear.
LEMMA FewerNames ==
    ASSUME NamesDistinct,
           \A p \in Path : file'[p] \in {file[p], NoInode} /\ temp'[p] \in {temp[p], NoInode}
    PROVE  NamesDistinct'
BY DEF NamesDistinct

\* An upload that ends, with or without its partial.
LEMMA EndContent ==
    ASSUME ContentInv, CountersInv', NEW s \in DOMAIN streams,
           AbortAccounting(s) \/ cleanup_rejected_upload(s),
           loop.pc # "settle", loop'.pc = "idle"
    PROVE  ContentInv'
<1>1. CountersInv /\ streams[s].path \in Path
  BY StreamFields DEF ContentInv
<1>2. /\ Drop(s) /\ Store(data) /\ file' = file
      /\ temp' = temp \/ temp' = [temp EXCEPT ![streams[s].path] = NoInode]
  BY DEF AbortAccounting, cleanup_rejected_upload
<1>3. DOMAIN streams' = DOMAIN streams \ {s} /\ \A t \in DOMAIN streams' : streams'[t] = streams[t]
  BY <1>2 DEF Drop, Without
<1>4. HashCoversPartial'
  BY <1>1, <1>2, <1>3, HashKept DEF ContentInv
<1>5. HoldsItsPartial'
  <2>1. \A t \in DOMAIN streams' : streams[t].path # streams[s].path /\ streams[t].path \in Path
    BY <1>1, <1>3, StreamFields DEF CountersInv, StreamsOK, ClaimsExact
  <2>2. \A t \in DOMAIN streams' : temp'[streams[t].path] = temp[streams[t].path]
    BY <1>1, <1>2, <2>1 DEF CountersInv, DiskOK
  <2> QED
    BY <1>3, <2>2, HoldsKept DEF ContentInv, Settling
<1>6. NamesDistinct'
  BY <1>1, <1>2, FewerNames DEF ContentInv, CountersInv, DiskOK
<1> QED
  BY <1>4, <1>5, <1>6 DEF ContentInv, ReadyToRename

-----------------------------------------------------------------------------
(***************************************************************************)
(* Uploads that begin.                                                     *)
(***************************************************************************)

\* A new upload of p on inode i, which nobody else has, of content d.
LEMMA AcceptContent ==
    ASSUME ContentInv, CountersInv', NEW s \in StreamId \ DOMAIN streams, NEW p \in Path,
           p \notin active_uploads, NEW i \in Inode, NEW offset \in Nat, NEW size \in Nat,
           NEW v, NEW opt, accept_put(s, p, i, offset, size, v, opt),
           temp'[p] = i, \A q \in Path : q # p => temp'[q] = temp[q],
           UNCHANGED <<file, loop>>, loop = Idle,
           \A q \in Path : file[q] # i /\ (q # p => temp[q] # i),
           data'[i] \in Content, Len(data'[i]) = offset,
           \A t \in DOMAIN streams : data'[streams[t].inode] = data[streams[t].inode]
    PROVE  ContentInv'
<1> DEFINE st == [path |-> p, inode |-> i, version |-> v, opt |-> opt,
                  reserved |-> size, remaining |-> size, prior |-> offset,
                  hashed |-> <<>>, to_rehash |-> offset]
<1>1. CountersInv
  BY DEF ContentInv
<1>2. /\ DOMAIN streams' = DOMAIN streams \cup {s}
      /\ streams'[s] = st
      /\ \A t \in DOMAIN streams : streams'[t] = streams[t]
  BY DEF accept_put, With
<1>3. loop.pc = "idle"
  BY DEF Idle
<1>4. \A t \in DOMAIN streams : streams[t].path # p /\ streams[t].path \in Path
  BY <1>1, StreamFields DEF CountersInv, StreamsOK, ClaimsExact
<1>5. HashCoversPartial'
  <2>1. Hashed(st, data'[i])
    BY DEF Hashed, Content
  <2>2. \A t \in DOMAIN streams : Hashed(streams[t], data[streams[t].inode])
    BY HashedEach DEF ContentInv
  <2>3. st.inode = i
    OBVIOUS
  <2> HIDE DEF st
  <2> QED
    BY <1>2, <2>1, <2>2, <2>3, HashedEachAfter
<1>6. HoldsItsPartial'
  <2>2. st.path = p /\ st.inode = i
    OBVIOUS
  <2> HIDE DEF st
  <2> QED
    BY <1>2, <1>3, <1>4, <2>2 DEF ContentInv, HoldsItsPartial, Settling
<1>7. NamesDistinct'
  BY DEF ContentInv, NamesDistinct
<1> QED
  BY <1>3, <1>5, <1>6, <1>7 DEF ContentInv, ReadyToRename

LEMMA StartFreshContent ==
    ASSUME ContentInv, CountersInv', NEW s \in StreamId, NEW p \in Path, NEW size \in 0..MaxFile,
           NEW v \in Versions, NEW opt \in Options,
           start_put_fresh(s, p, size, v, opt)
    PROVE  ContentInv'
<1>1. PICK i \in Inode :
        /\ IF temp[p] # NoInode THEN i = temp[p] ELSE Fresh(i)
        /\ \/ /\ temp' = [temp EXCEPT ![p] = i]
              /\ accept_put(s, p, i, 0, size, v, opt)
           \/ /\ temp' = [temp EXCEPT ![p] = NoInode]
              /\ UNCHANGED <<in_flight_bytes, active_uploads, streams>>
        /\ UNCHANGED <<dirs, file, loop, jobs>>
        /\ Store([data EXCEPT ![i] = <<>>])
  BY DEF start_put_fresh
<1>2. /\ loop = Idle /\ loop.pc = "idle" /\ s \in StreamId \ DOMAIN streams
      /\ p \notin active_uploads /\ CountersInv /\ i # NoInode
  BY DEF start_put_fresh, put_admissible, Idle, ContentInv, Inode, NoInode
<1>3. \A q \in Path : file[q] # i /\ (q # p => temp[q] # i)
  BY <1>1, <1>2 DEF Fresh, InUse, ContentInv, NamesDistinct
<1>4. \A t \in DOMAIN streams : streams[t].path # p /\ streams[t].path \in Path
  BY <1>2, StreamFields DEF CountersInv, StreamsOK, ClaimsExact
<1>5. \A t \in DOMAIN streams : streams[t].inode # i
  BY <1>1, <1>2, <1>3, <1>4 DEF Fresh, InUse, ContentInv, HoldsItsPartial, Settling
<1>0. PICK d : d = [data EXCEPT ![i] = <<>>]
  OBVIOUS
<1>6. /\ d[i] = <<>> /\ Store(d)
      /\ \A t \in DOMAIN streams : d[streams[t].inode] = data[streams[t].inode]
  BY <1>0, <1>1, <1>2, <1>5, StreamFields DEF CountersInv, DiskOK
<1>7. CASE accept_put(s, p, i, 0, size, v, opt) /\ temp' = [temp EXCEPT ![p] = i]
  <2>1. /\ DOMAIN streams' = DOMAIN streams \cup {s} /\ streams'[s].inode = i
        /\ \A t \in DOMAIN streams : streams'[t] = streams[t]
    BY <1>2, <1>7 DEF accept_put, With
  <2>2. data'[i] = d[i]
    BY <1>6, <2>1, OpenFileKept
  <2>3. ASSUME NEW t \in DOMAIN streams PROVE data'[streams[t].inode] = data[streams[t].inode]
    <3>1. data'[streams'[t].inode] = d[streams'[t].inode]
      BY <1>2, <1>6, <2>1, StreamFields, OpenFileKept
    <3> QED
      BY <1>6, <2>1, <3>1
  <2>4. size \in Nat /\ data'[i] \in Content /\ Len(data'[i]) = 0
    BY <1>6, <2>2, UploadAssumption DEF Content
  <2>5. PICK offset \in Nat : offset = 0
    OBVIOUS
  <2>6. accept_put(s, p, i, offset, size, v, opt) /\ UNCHANGED <<file, loop>>
    BY <1>1, <1>7, <2>5
  <2>7. \A t \in DOMAIN streams : data'[streams[t].inode] = data[streams[t].inode]
    BY <2>3
  <2>8. temp'[p] = i /\ \A q \in Path : q # p => temp'[q] = temp[q]
    BY <1>2, <1>7 DEF CountersInv, DiskOK
  <2>9. data'[i] \in Content /\ Len(data'[i]) = offset /\ size \in Nat
    BY <2>4, <2>5
  <2>10. s \in StreamId \ DOMAIN streams /\ p \notin active_uploads /\ loop = Idle
    BY <1>2
  <2> QED
    BY <1>3, <2>6, <2>7, <2>8, <2>9, <2>10, AcceptContent
<1>8. CASE temp' = [temp EXCEPT ![p] = NoInode] /\ UNCHANGED streams
  <2>1. HashCoversPartial'
    BY <1>1, <1>2, <1>6, <1>8, HashKept DEF ContentInv
  <2>2. \A q \in Path : temp'[q] = IF q = p THEN NoInode ELSE temp[q]
    BY <1>2, <1>8 DEF CountersInv, DiskOK
  <2>3. HoldsItsPartial'
    BY <1>1, <1>2, <1>4, <1>8, <2>2, HoldsKept DEF ContentInv, Settling
  <2>4. NamesDistinct'
    BY <1>1, <2>2, FewerNames DEF ContentInv
  <2> QED
    BY <1>1, <1>2, <2>1, <2>3, <2>4 DEF ContentInv, ReadyToRename
<1> QED
  BY <1>1, <1>7, <1>8

LEMMA StartResumeContent ==
    ASSUME ContentInv, CountersInv', NEW s \in StreamId, NEW p \in Path, NEW size \in 0..MaxFile,
           NEW v \in Versions, NEW opt \in Options,
           start_put_resume(s, p, size, v, opt)
    PROVE  ContentInv'
<1>1. PICK i : i = temp[p]
  OBVIOUS
<1>2. /\ i \in Inode /\ CountersInv /\ i # NoInode /\ data[i] \in Content /\ Len(data[i]) \in Nat
  <2>1. i # NoInode /\ CountersInv /\ i \in Inode
    BY <1>1 DEF start_put_resume, ContentInv, CountersInv, DiskOK
  <2> QED
    BY <2>1 DEF CountersInv, DiskOK, Content
<1>3. /\ loop = Idle /\ s \in StreamId \ DOMAIN streams /\ p \notin active_uploads
      /\ accept_put(s, p, i, Len(data[i]), size, v, opt)
      /\ UNCHANGED <<file, temp, data, loop>>
  BY <1>1 DEF start_put_resume, put_admissible, diskVars
<1>4. \A q \in Path : file[q] # i /\ (q # p => temp[q] # i)
  BY <1>1, <1>2 DEF ContentInv, NamesDistinct
<1>5. temp'[p] = i /\ \A q \in Path : q # p => temp'[q] = temp[q]
  BY <1>1, <1>3
<1>6. size \in Nat
  BY UploadAssumption
<1> QED
  BY <1>2, <1>3, <1>4, <1>5, <1>6, AcceptContent

-----------------------------------------------------------------------------
(***************************************************************************)
(* Uploads that run and commit.                                            *)
(***************************************************************************)

\* One stream moves on within its partial; d is what the disk then holds.
LEMMA ProgressContent ==
    ASSUME ContentInv, CountersInv', NEW s \in DOMAIN streams, NEW st,
           streams' = [streams EXCEPT ![s] = st],
           st.path = streams[s].path, st.inode = streams[s].inode,
           Hashed(st, data'[st.inode]),
           \A t \in DOMAIN streams \ {s} : data'[streams[t].inode] = data[streams[t].inode],
           UNCHANGED <<file, temp, loop>>, loop = Idle
    PROVE  ContentInv'
<1>1. /\ DOMAIN streams' = DOMAIN streams /\ streams'[s] = st
      /\ \A t \in DOMAIN streams \ {s} : streams'[t] = streams[t]
      /\ loop.pc = "idle"
  BY DEF Idle
<1>2. HashCoversPartial'
  <2>1. \A t \in DOMAIN streams : Hashed(streams[t], data[streams[t].inode])
    BY HashedEach DEF ContentInv
  <2> QED
    BY <1>1, <2>1, HashedEachAfter
<1>3. HoldsItsPartial'
  BY <1>1 DEF ContentInv, HoldsItsPartial, Settling
<1>4. NamesDistinct'
  BY DEF ContentInv, NamesDistinct
<1> QED
  BY <1>1, <1>2, <1>3, <1>4 DEF ContentInv, ReadyToRename

\* The next slice of the prefix continues the part already hashed.
LEMMA RehashContent ==
    ASSUME ContentInv, CountersInv', NEW s \in DOMAIN streams, drive_rehash(s)
    PROVE  ContentInv'
<1>1. CountersInv /\ Hashed(streams[s], data[streams[s].inode])
  BY HashedEach DEF ContentInv
<1>2. PICK st \in ReadingFileData : st = streams[s]
  BY <1>1, StreamFields
<1>3. PICK d \in Content : d = data[st.inode]
  BY <1>1, <1>2, StreamFields
<1>4. PICK pos : pos = st.prior - st.to_rehash + 1
  OBVIOUS
<1>5. PICK h : h = Append(st.hashed, d[pos])
  OBVIOUS
<1>6. PICK new : new = [st EXCEPT !.hashed = h, !.to_rehash = st.to_rehash - 1]
  OBVIOUS
<1>7. /\ loop = Idle /\ st.to_rehash > 0 /\ pos <= Len(d) /\ UNCHANGED <<file, temp, data, loop>>
      /\ streams' = [streams EXCEPT ![s] = new]
  <2>1. streams' = [streams EXCEPT ![s] = [streams[s] EXCEPT
                      !.hashed = Append(streams[s].hashed, data[streams[s].inode][
                                   streams[s].prior - streams[s].to_rehash + 1]),
                      !.to_rehash = streams[s].to_rehash - 1]]
    BY Zenon DEF drive_rehash
  <2> QED
    BY <1>2, <1>3, <1>4, <1>5, <1>6, <2>1 DEF drive_rehash, diskVars
<1>8. /\ new.path = st.path /\ new.inode = st.inode /\ new.prior = st.prior
      /\ new.reserved = st.reserved /\ new.remaining = st.remaining
      /\ new.hashed = h /\ new.to_rehash = st.to_rehash - 1
  BY <1>6 DEF ReadingFileData
<1>9. /\ st.prior \in Nat /\ st.to_rehash \in Nat /\ st.reserved \in Nat /\ st.remaining \in Nat
      /\ st.hashed \in Content /\ Len(st.hashed) \in Nat /\ Len(d) \in Nat
  BY DEF ReadingFileData, Content
<1>10. Hashed(st, d)
  BY <1>1, <1>2, <1>3
<1>11. pos = Len(st.hashed) + 1 /\ pos \in 1..Len(d)
  BY <1>4, <1>7, <1>9, <1>10 DEF Hashed
<1>12. /\ Len(h) = Len(st.hashed) + 1 /\ h[pos] = d[pos]
       /\ \A k \in 1..Len(st.hashed) : h[k] = st.hashed[k]
  <2>1. d[pos] \in Versions \cup {Hole}
    BY <1>11 DEF Content
  <2> QED
    BY <1>5, <1>9, <1>11, <2>1 DEF Content
<1>13. Hashed(new, d)
  <2>1. \A k \in 1..Len(h) : h[k] = d[k]
    BY <1>9, <1>10, <1>11, <1>12 DEF Hashed
  <2>2. /\ new.to_rehash > 0 => new.remaining = new.reserved /\ new.to_rehash <= new.prior
        /\ Len(d) = new.prior + new.reserved - new.remaining /\ new.remaining <= new.reserved
        /\ Len(h) = Len(d) - new.to_rehash
    BY <1>7, <1>8, <1>9, <1>10, <1>12 DEF Hashed
  <2> QED
    BY <1>8, <2>1, <2>2 DEF Hashed
<1> QED
  BY <1>2, <1>3, <1>7, <1>8, <1>13, ProgressContent

\* A chunk written at the end of the partial is appended to it.
LEMMA WriteAtEnd ==
    ASSUME NEW d \in Content, NEW v
    PROVE  /\ Len(WriteAt(d, Len(d), v)) = Len(d) + 1
           /\ WriteAt(d, Len(d), v)[Len(d) + 1] = v
           /\ \A k \in 1..Len(d) : WriteAt(d, Len(d), v)[k] = d[k]
<1>1. PICK n \in Nat : n = Len(d)
  BY DEF Content
<1>2. WriteAt(d, n, v) = [k \in 1..(n + 1) |->
                            IF k = n + 1 THEN v ELSE IF k <= n THEN d[k] ELSE Hole]
  BY <1>1 DEF WriteAt
<1> QED
  BY <1>1, <1>2

LEMMA BodyContent ==
    ASSUME ContentInv, CountersInv', NEW s \in DOMAIN streams, NEW v \in Versions,
           drive_body(s, v)
    PROVE  ContentInv'
<1>1. CountersInv /\ Hashed(streams[s], data[streams[s].inode])
  BY HashedEach DEF ContentInv
<1>2. PICK st \in ReadingFileData : st = streams[s]
  BY <1>1, StreamFields
<1>3. PICK d \in Content : d = data[st.inode]
  BY <1>1, <1>2, StreamFields
<1>4. Hashed(st, d) /\ st.inode \in Inode
  BY <1>1, <1>2, <1>3 DEF ReadingFileData
<1>5. /\ st.prior \in Nat /\ st.to_rehash \in Nat /\ st.reserved \in Nat /\ st.remaining \in Nat
      /\ st.hashed \in Content /\ Len(st.hashed) \in Nat /\ Len(d) \in Nat
  BY DEF ReadingFileData, Content
<1>6. PICK e : e = WriteAt(d, Len(d), v)
  OBVIOUS
<1>7. PICK f : f = [data EXCEPT ![st.inode] = e]
  OBVIOUS
<1>8. PICK h : h = Append(st.hashed, v)
  OBVIOUS
<1>9. PICK new : new = [st EXCEPT !.hashed = h, !.remaining = st.remaining - 1]
  OBVIOUS
<1>10. /\ loop = Idle /\ st.to_rehash = 0 /\ st.remaining > 0 /\ UNCHANGED <<file, temp, loop>>
       /\ streams' = [streams EXCEPT ![s] = new]
  <2>1. streams' = [streams EXCEPT ![s] = [streams[s] EXCEPT
                      !.hashed = Append(streams[s].hashed, v),
                      !.remaining = streams[s].remaining - 1]]
    BY Zenon DEF drive_body
  <2> QED
    BY <1>2, <1>8, <1>9, <2>1 DEF drive_body
<1>11. Store(f)
  <2>1. Store([data EXCEPT ![streams[s].inode] =
                 WriteAt(data[streams[s].inode],
                         streams[s].prior + streams[s].reserved - streams[s].remaining, v)])
    BY Zenon DEF drive_body
  <2>2. st.prior + st.reserved - st.remaining = Len(d)
    BY <1>4 DEF Hashed
  <2> QED
    BY <1>2, <1>3, <1>6, <1>7, <2>1, <2>2
<1>12. /\ new.path = st.path /\ new.inode = st.inode /\ new.prior = st.prior
       /\ new.reserved = st.reserved /\ new.remaining = st.remaining - 1
       /\ new.hashed = h /\ new.to_rehash = st.to_rehash
  BY <1>9 DEF ReadingFileData
<1>13. Hashed(new, e)
  <2>1. /\ Len(h) = Len(st.hashed) + 1 /\ h[Len(st.hashed) + 1] = v
        /\ \A k \in 1..Len(st.hashed) : h[k] = st.hashed[k]
    BY <1>5, <1>8 DEF Content
  <2>2. /\ Len(e) = Len(d) + 1 /\ e[Len(d) + 1] = v /\ \A k \in 1..Len(d) : e[k] = d[k]
    BY <1>6, WriteAtEnd
  <2>3. Len(st.hashed) = Len(d) /\ \A k \in 1..Len(d) : st.hashed[k] = d[k]
    BY <1>4, <1>5, <1>10 DEF Hashed
  <2>4. \A k \in 1..Len(h) : h[k] = e[k]
    BY <1>5, <2>1, <2>2, <2>3
  <2>5. /\ Len(e) = new.prior + new.reserved - new.remaining /\ new.remaining <= new.reserved
        /\ ~(new.to_rehash > 0) /\ Len(h) = Len(e) - new.to_rehash
    BY <1>4, <1>5, <1>10, <1>12, <2>1, <2>2, <2>3 DEF Hashed
  <2> QED
    BY <1>12, <2>4, <2>5 DEF Hashed
<1>14. DOMAIN streams' = DOMAIN streams /\ \A t \in DOMAIN streams : streams'[t].inode = streams[t].inode
  BY <1>2, <1>10, <1>12 DEF CountersInv, StreamsOK
<1>15. \A t \in DOMAIN streams : data'[streams[t].inode] = f[streams[t].inode]
  <2> SUFFICES ASSUME NEW t \in DOMAIN streams PROVE data'[streams[t].inode] = f[streams[t].inode]
    OBVIOUS
  <2> QED
    BY <1>1, <1>11, <1>14, StreamFields, OpenFileKept
<1>16. data'[new.inode] = e
  BY <1>2, <1>4, <1>7, <1>12, <1>15, <1>1 DEF CountersInv, DiskOK
<1>17. \A t \in DOMAIN streams \ {s} : data'[streams[t].inode] = data[streams[t].inode]
  <2>1. \A t \in DOMAIN streams \ {s} : streams[t].inode # st.inode
    BY <1>2, HoldsOneEach DEF OneWriterPerPartial
  <2> QED
    BY <1>1, <1>7, <1>15, <2>1, StreamFields DEF CountersInv, DiskOK
<1> QED
  BY <1>2, <1>10, <1>12, <1>13, <1>16, <1>17, ProgressContent

LEMMA GuardContent ==
    ASSUME ContentInv, CountersInv', NEW s \in DOMAIN streams, commit_guard(s)
    PROVE  ContentInv'
<1>1. loop = Idle /\ loop.pc = "idle"
  BY DEF commit_guard, Idle
<1>2. CASE (AbortAccounting(s) \/ cleanup_rejected_upload(s)) /\ UNCHANGED loop
  BY <1>1, <1>2, EndContent
<1>3. CASE /\ verified(streams[s])
           /\ loop' = [Idle EXCEPT !.pc = "rename", !.stream = s]
           /\ UNCHANGED <<diskVars, userVars, streams>>
  <2>1. loop'.pc = "rename" /\ loop'.stream = s
    BY <1>3 DEF Idle
  <2>2. UNCHANGED <<file, temp, data, streams>>
    BY <1>3 DEF diskVars
  <2>3. HoldsItsPartial'
    BY <1>1, <2>1, <2>2, HoldsKept DEF ContentInv, Settling
  <2>4. NamesDistinct' /\ HashCoversPartial'
    BY <2>2 DEF ContentInv, NamesDistinct, HashCoversPartial
  <2>5. ReadyToRename'
    BY <1>3, <2>1, <2>2 DEF ReadyToRename, commit_guard, verified, Digest
  <2> QED
    BY <2>3, <2>4, <2>5 DEF ContentInv
<1> QED
  BY <1>2, <1>3 DEF commit_guard

\* The rename gives the partial its final name, and no other upload notices.
LEMMA RenameContent ==
    ASSUME ContentInv, CountersInv', NEW s \in DOMAIN streams, commit_rename(s)
    PROVE  ContentInv'
<1>1. PICK p \in Path : p = streams[s].path
  BY StreamFields DEF ContentInv
<1>2. CountersInv /\ loop.pc = "rename" /\ loop.stream = s
  BY DEF ContentInv, commit_rename
<1>3. CASE AbortAccounting(s) /\ loop' = Idle
  BY <1>2, <1>3, EndContent, IdleOK
<1>4. CASE /\ temp[p] # NoInode
           /\ file' = [file EXCEPT ![p] = temp[p]]
           /\ temp' = [temp EXCEPT ![p] = NoInode]
           /\ loop' = [loop EXCEPT !.pc = "settle"]
           /\ UNCHANGED <<dirs, userVars, streams>>
           /\ Store(data)
  <2>1. loop'.pc = "settle" /\ loop'.stream = s
    BY <1>2, <1>4 DEF CountersInv, LoopOK, Loop
  <2>2. /\ file'[p] = temp[p] /\ temp'[p] = NoInode
        /\ \A q \in Path : q # p => file'[q] = file[q] /\ temp'[q] = temp[q]
    BY <1>2, <1>4 DEF CountersInv, DiskOK
  <2>3. NamesDistinct'
    BY <1>4, <2>2 DEF ContentInv, NamesDistinct
  <2>4. temp[p] = streams[s].inode
    BY <1>1, <1>2 DEF ContentInv, HoldsItsPartial, Settling
  <2>5. \A q \in Path : temp'[q] # streams[s].inode
    BY <1>4, <2>2, <2>4 DEF ContentInv, NamesDistinct
  <2>6. \A t \in DOMAIN streams \ {s} : streams[t].path # p /\ streams[t].path \in Path
    BY <1>1, <1>2, StreamFields DEF CountersInv, StreamsOK, ClaimsExact
  <2>7. HoldsItsPartial'
    BY <1>2, <1>4, <2>1, <2>2, <2>5, <2>6 DEF ContentInv, HoldsItsPartial, Settling
  <2>8. HashCoversPartial'
    BY <1>2, <1>4, HashKept DEF ContentInv
  <2> QED
    BY <2>1, <2>3, <2>7, <2>8 DEF ContentInv, ReadyToRename
<1> QED
  BY <1>1, <1>3, <1>4 DEF commit_rename

LEMMA SettleContent ==
    ASSUME ContentInv, CountersInv', NEW s \in DOMAIN streams, commit_settle(s)
    PROVE  ContentInv'
<1>1. /\ loop.stream = s /\ loop'.pc = "idle" /\ UNCHANGED <<file, temp>> /\ Drop(s) /\ Store(data)
      /\ CountersInv
  BY IdleOK DEF commit_settle, ContentInv
<1>2. DOMAIN streams' = DOMAIN streams \ {s} /\ \A t \in DOMAIN streams' : streams'[t] = streams[t]
  BY <1>1 DEF Drop, Without
<1>3. HashCoversPartial'
  BY <1>1, <1>2, HashKept DEF ContentInv
<1>4. HoldsItsPartial'
  BY <1>1, <1>2, HoldsKept DEF ContentInv, Settling
<1>5. NamesDistinct'
  BY <1>1 DEF ContentInv, NamesDistinct
<1> QED
  BY <1>1, <1>3, <1>4, <1>5 DEF ContentInv, ReadyToRename

LEMMA PutStepContent ==
    ASSUME ContentInv, CountersInv', NEW s \in DOMAIN streams, PutStep(s)
    PROVE  ContentInv'
<1>1. ASSUME rehash_fails(s) \/ decode_fails(s) \/ abort_put(s) PROVE ContentInv'
  <2>1. /\ AbortAccounting(s) \/ cleanup_rejected_upload(s)
        /\ loop.pc = "idle" /\ loop'.pc = "idle"
    BY <1>1, IdleOK DEF rehash_fails, decode_fails, abort_put
  <2> QED
    BY <2>1, EndContent
<1> QED
  BY <1>1, RehashContent, BodyContent, GuardContent, RenameContent, SettleContent DEF PutStep

-----------------------------------------------------------------------------
(***************************************************************************)
(* Handler threads, and the restart.                                       *)
(***************************************************************************)

\* Handler threads move and remove committed files only.
LEMMA HandlerContent ==
    ASSUME ContentInv, CountersInv', UNCHANGED <<temp, streams, loop>>, NamesDistinct',
           Store(data) \/ UNCHANGED data
    PROVE  ContentInv'
<1>1. HoldsItsPartial' /\ ReadyToRename'
  BY DEF ContentInv, HoldsItsPartial, Settling, ReadyToRename, verified, Digest
<1>2. HashCoversPartial'
  <2>1. CASE Store(data)
    BY <2>1, HashKept DEF ContentInv
  <2>2. CASE UNCHANGED data
    BY <2>2 DEF ContentInv, HashCoversPartial
  <2> QED
    BY <2>1, <2>2
<1> QED
  BY <1>1, <1>2 DEF ContentInv

LEMMA RunningJobContent ==
    ASSUME ContentInv, CountersInv', NEW w \in DOMAIN jobs,
           rm_unlink(w) \/ rename_act(w) \/ quota_refund(w)
    PROVE  ContentInv'
<1>1. PICK a \in Path, b \in Path : a = jobs[w].from /\ b = jobs[w].to
  BY DEF ContentInv, CountersInv, JobsOK, Job
<1>2. file \in [Path -> Inode \cup {NoInode}]
  BY DEF ContentInv, CountersInv, DiskOK
<1>3. CASE rm_unlink(w)
  <2>1. file' = [file EXCEPT ![a] = NoInode] /\ UNCHANGED <<temp, streams, loop>> /\ Store(data)
    BY <1>1, <1>3 DEF rm_unlink
  <2>2. NamesDistinct'
    BY <1>2, <2>1, FewerNames DEF ContentInv
  <2> QED
    BY <2>1, <2>2, HandlerContent
<1>4. CASE rename_act(w)
  <2>1. /\ UNCHANGED <<temp, streams, loop>> /\ Store(data)
        /\ \/ file' = file
           \/ a # b /\ file' = [file EXCEPT ![b] = file[a], ![a] = NoInode]
    BY <1>1, <1>4 DEF rename_act
  <2>2. CASE file' = file
    BY <2>1, <2>2, FewerNames, HandlerContent DEF ContentInv
  <2>3. CASE a # b /\ file' = [file EXCEPT ![b] = file[a], ![a] = NoInode]
    <3>1. /\ file'[b] = file[a] /\ file'[a] = NoInode
          /\ \A q \in Path : q # a /\ q # b => file'[q] = file[q]
      BY <1>2, <2>3
    <3>2. NamesDistinct'
      BY <2>1, <3>1 DEF ContentInv, NamesDistinct
    <3> QED
      BY <2>1, <3>2, HandlerContent
  <2> QED
    BY <2>1, <2>2, <2>3
<1>5. CASE quota_refund(w)
  BY <1>5, HandlerContent DEF quota_refund, diskVars, ContentInv, NamesDistinct
<1> QED
  BY <1>3, <1>4, <1>5

LEMMA RestartContent ==
    ASSUME ContentInv, CountersInv', NEW lost, NEW stale, crash_and_sweep(lost, stale)
    PROVE  ContentInv'
<1>1. DOMAIN streams' = {} /\ loop'.pc = "boot" /\ UNCHANGED file
  BY DEF crash_and_sweep
<1>2. \A p \in Path : temp'[p] \in {temp[p], NoInode}
  BY DEF crash_and_sweep
<1>3. NamesDistinct'
  BY <1>1, <1>2, FewerNames DEF ContentInv
<1>4. HoldsItsPartial' /\ HashCoversPartial' /\ ReadyToRename'
  BY <1>1 DEF HoldsItsPartial, HashCoversPartial, ReadyToRename
<1> QED
  BY <1>3, <1>4 DEF ContentInv

LEMMA WalkContent ==
    ASSUME ContentInv, CountersInv', NEW p, walk_size(p)
    PROVE  ContentInv'
<1>1. UNCHANGED <<file, temp, data, streams>> /\ loop.pc = "boot" /\ loop'.pc \in {"idle", "boot"}
  BY IdleOK DEF walk_size, diskVars, ContentInv, CountersInv, LoopOK, Loop
<1>2. HoldsItsPartial'
  BY <1>1, HoldsKept DEF ContentInv, Settling
<1> QED
  BY <1>1, <1>2 DEF ContentInv, NamesDistinct, HashCoversPartial, ReadyToRename

-----------------------------------------------------------------------------
LEMMA InitContent == Init => ContentInv
<1> SUFFICES ASSUME Init PROVE ContentInv
  OBVIOUS
<1>1. DOMAIN streams = {} /\ loop.pc = "idle" /\ \A p \in Path : file[p] = NoInode /\ temp[p] = NoInode
  BY DEF Init, Idle
<1> QED
  BY <1>1, InitCounters
     DEF ContentInv, NamesDistinct, HoldsItsPartial, HashCoversPartial, ReadyToRename

LEMMA NextContent == MutDirs = {} /\ ContentInv /\ [Next]_vars => ContentInv'
<1> SUFFICES ASSUME MutDirs = {}, ContentInv, [Next]_vars PROVE ContentInv'
  OBVIOUS
<1>1. CountersInv'
  BY NextCounters DEF ContentInv
<1>2. ASSUME NEW s \in StreamId, NEW p \in Path, NEW size \in 0..MaxFile,
             NEW v \in Versions, NEW opt \in Options,
             start_put_fresh(s, p, size, v, opt) \/ start_put_resume(s, p, size, v, opt)
      PROVE  ContentInv'
  BY <1>1, <1>2, StartFreshContent, StartResumeContent
<1>3. CASE UNCHANGED vars
  <2>1. UNCHANGED <<file, temp, data, streams, loop>>
    BY <1>3 DEF vars, diskVars
  <2> QED
    BY <1>1, <2>1, HandlerContent DEF ContentInv, NamesDistinct
<1>4. ASSUME NEW lost, NEW stale, crash_and_sweep(lost, stale) PROVE ContentInv'
  BY <1>1, <1>4, RestartContent
<1>5. ASSUME NEW p \in loop.uncounted, walk_size(p) PROVE ContentInv'
  BY <1>1, <1>5, WalkContent
<1>6. ASSUME NEW w \in DOMAIN jobs, rm_unlink(w) \/ rename_act(w) \/ quota_refund(w)
      PROVE  ContentInv'
  BY <1>1, <1>6, RunningJobContent
<1>7. ASSUME NEW s \in DOMAIN streams, PutStep(s) PROVE ContentInv'
  BY <1>1, <1>7, PutStepContent
<1>8. ASSUME NEW w, \/ \E p \in Removes : rm_stat(w, p)
                    \/ \E r \in Renames : rename_stat(w, r[1], r[2])
      PROVE  ContentInv'
  <2>1. UNCHANGED <<file, temp, data, streams, loop>>
    BY <1>8 DEF rm_stat, rename_stat, take_job, diskVars
  <2> QED
    BY <1>1, <2>1, HandlerContent DEF ContentInv, NamesDistinct
<1> QED
  BY <1>2, <1>3, <1>4, <1>5, <1>6, <1>7, <1>8 DEF Next

LEMMA ContentInvariant == MutDirs = {} /\ Spec => []ContentInv
<1>1. CASE MutDirs = {}
  <2>1. ContentInv /\ [Next]_vars => ContentInv'
    BY <1>1, NextContent
  <2> QED
    BY <2>1, InitContent, PTL DEF Spec
<1> QED
  BY <1>1

\* For any number of uploads and handler threads: no two uploads write the
\* same partial, and none writes a committed file, through aborts, resumes,
\* clobbering commits, Rm and Rename at every system call, and crashes.
THEOREM OneWriter == MutDirs = {} /\ Spec => []OneWriterPerPartial
BY ContentInvariant, HoldsOneEach, PTL

\* The hasher of every upload has seen exactly the bytes its partial holds.
THEOREM HashCovers == MutDirs = {} /\ Spec => []HashCoversPartial
<1>1. ContentInv => HashCoversPartial
  BY DEF ContentInv
<1> QED
  BY <1>1, ContentInvariant, PTL

\* What is about to be renamed into place is whole and, when a checksum was
\* sent, is byte for byte what that checksum covered.
THEOREM VerifiedBytesCommitted == MutDirs = {} /\ Spec => []CommitsVerifiedBytes
<1>1. ContentInv => CommitsVerifiedBytes
  <2> SUFFICES ASSUME ContentInv, loop.pc = "rename", NEW s, s = loop.stream
               PROVE  /\ Len(data[temp[streams[s].path]]) = streams[s].prior + streams[s].reserved
                      /\ streams[s].opt.checksum => data[temp[streams[s].path]] = Digest(streams[s])
    BY DEF CommitsVerifiedBytes
  <2>1. s \in DOMAIN streams /\ CountersInv
    BY DEF ContentInv, CountersInv, LoopOK
  <2>2. PICK st \in ReadingFileData : st = streams[s]
    BY <2>1, StreamFields
  <2>3. PICK d \in Content : d = data[st.inode]
    BY <2>1, <2>2, StreamFields
  <2>4. temp[st.path] = st.inode
    BY <2>1, <2>2 DEF ContentInv, HoldsItsPartial, Settling
  <2>5. /\ Hashed(st, d) /\ st.to_rehash = 0 /\ st.remaining = 0 /\ verified(st)
    BY <2>1, <2>2, <2>3, HashedEach DEF ContentInv, ReadyToRename
  <2>6. Len(d) = st.prior + st.reserved /\ Len(st.hashed) = Len(d)
        /\ \A k \in 1..Len(d) : st.hashed[k] = d[k]
    BY <2>5 DEF Hashed, ReadingFileData, Content
  <2>7. st.hashed = d
    BY <2>6 DEF ReadingFileData, Content
  <2>8. st.opt.checksum => d = Digest(st)
    BY <2>5, <2>7 DEF verified
  <2> QED
    BY <2>2, <2>3, <2>4, <2>6, <2>8
<1> QED
  BY <1>1, ContentInvariant, PTL

-----------------------------------------------------------------------------
(***************************************************************************)
(* The quota.  Usage as cached, plus what the open uploads wrote, covers   *)
(* the disk, and does so even after the refunds that the handler threads   *)
(* are about to make.  The refunds of two threads add up, so the invariant *)
(* has their sum; no two of them are of the same file as long as no two    *)
(* threads have had the same file in hand.                                 *)
(***************************************************************************)

\* What job j will have taken from usage beyond what it frees on disk.
Owes(j) ==
    IF j.pc = "act" THEN SaturatingSub(j.size, LenOf(file[Victim(j)])) ELSE j.size

Owed == [w \in Workers |-> IF w \in DOMAIN jobs THEN Owes(jobs[w]) ELSE 0]

OwedBytes == Total(Owed, NWorkers)

Apart == \A v, w \in DOMAIN jobs : v # w => ~Collide(jobs[v], jobs[w])

\* A rename of a file to itself refunds nothing.
SelfRename ==
    \A w \in DOMAIN jobs :
        jobs[w].op = "rename" /\ jobs[w].from = jobs[w].to => jobs[w].size = 0

\* What the walk over the home has counted once it has been to the paths S.
Counted(S) ==
    [i \in Inode |-> IF \E p \in S : file[p] = i \/ temp[p] = i
                     THEN Len(data[i]) ELSE 0]

Running ==
    /\ used_bytes + UnchargedBytes >= DiskBytes + OwedBytes
    /\ used_bytes + in_flight_bytes <= Quota

Booting ==
    /\ DOMAIN streams = {} /\ DOMAIN jobs = {} /\ in_flight_bytes = 0
    /\ used_bytes = Total(Counted(Path \ loop.uncounted), MaxInodes)

FreeEmpty == \A i \in Inode : ~InUse(i) => data[i] = <<>>

QuotaInv ==
    /\ ContentInv
    /\ FreeEmpty
    /\ SelfRename
    /\ Apart
    /\ DiskBytes <= Quota
    /\ loop.pc # "boot" => Running
    /\ loop.pc = "boot" => Booting

LEMMA OccupiedType ==
    ASSUME DiskOK
    PROVE  Occupied \in [Inode -> Nat]
<1>1. \A i \in Inode : Len(data[i]) \in Nat
  BY DEF DiskOK, Content
<1> QED
  BY <1>1 DEF Occupied

LEMMA UnchargedType ==
    ASSUME StreamsOK
    PROVE  Uncharged \in [StreamId -> Nat]
<1>1. ASSUME NEW s \in DOMAIN streams PROVE streams[s].reserved - streams[s].remaining \in Nat
  BY DEF StreamsOK, WithinBounds, ReadingFileData
<1> QED
  BY <1>1 DEF Uncharged

LEMMA OwedType ==
    ASSUME CountersInv
    PROVE  Owed \in [Workers -> Nat] /\ OwedBytes \in Nat
<1>1. ASSUME NEW w \in DOMAIN jobs PROVE Owes(jobs[w]) \in Nat
  <2>1. PICK j \in Job : j = jobs[w]
    BY DEF CountersInv, JobsOK
  <2>2. Victim(j) \in Path /\ j.size \in Nat
    BY DEF Victim, Job
  <2>3. LenOf(file[Victim(j)]) \in Nat
    BY <2>2, LenOfType DEF CountersInv, DiskOK
  <2> QED
    BY <2>1, <2>2, <2>3 DEF Owes, SaturatingSub
<1>2. Owed \in [Workers -> Nat]
  BY <1>1 DEF Owed
<1> QED
  BY <1>2, TotalNat, UploadAssumption DEF OwedBytes, Workers

NumbersOK ==
    /\ Owed \in [Workers -> Nat] /\ OwedBytes \in Nat
    /\ Occupied \in [Inode -> Nat]
    /\ Uncharged \in [StreamId -> Nat]
    /\ DiskBytes \in Nat /\ UnchargedBytes \in Nat /\ UnchargedBytes <= in_flight_bytes
    /\ used_bytes \in Nat /\ in_flight_bytes \in Nat

LEMMA Numbers == CountersInv => NumbersOK
<1> SUFFICES ASSUME CountersInv PROVE NumbersOK
  OBVIOUS
<1>1. DiskBytes \in Nat
  BY OccupiedType, TotalNat, UploadAssumption DEF CountersInv, DiskBytes, Inode
<1>2. StreamsOK /\ used_bytes \in Nat /\ in_flight_bytes \in Nat
  BY DEF CountersInv, StreamsOK
<1>3. \A s \in StreamId : Uncharged[s] <= Reservations[s]
  <2>1. \A s \in DOMAIN streams : streams[s].reserved - streams[s].remaining <= streams[s].reserved
    BY <1>2 DEF StreamsOK, ReadingFileData
  <2> QED
    BY <2>1 DEF Uncharged, Reservations
<1>4. /\ Total(Uncharged, NStreams) \in Nat
      /\ Total(Uncharged, NStreams) <= Total(Reservations, NStreams)
  BY <1>2, <1>3, UnchargedType, ReservationsType, TotalMonotone, UploadAssumption DEF StreamId
<1> QED
  BY <1>1, <1>2, <1>4, OccupiedType, UnchargedType, OwedType
     DEF CountersInv, NumbersOK, UnchargedBytes, StreamsOK, InFlightExact

LEMMA NumbersAfter == CountersInv' => NumbersOK'
BY Numbers, PTL

LEMMA InodeUpdate ==
    ASSUME NEW f \in [Inode -> Nat], NEW g \in [Inode -> Nat], NEW i \in Inode,
           \A j \in Inode : j # i => g[j] = f[j]
    PROVE  /\ Total(f, MaxInodes) \in Nat /\ Total(g, MaxInodes) \in Nat
           /\ Total(g, MaxInodes) = Total(f, MaxInodes) - f[i] + g[i]
BY TotalUpdate, UploadAssumption DEF Inode

\* A file that has a name is not lost.
LEMMA OccupiedAfter ==
    ASSUME NEW d, Store(d) \/ data' = d, NEW i \in Inode
    PROVE  Occupied'[i] = IF Linked(i)' THEN Len(d[i]) ELSE 0
<1>1. Linked(i)' => InUse(i)'
  BY DEF Linked, InUse
<1> QED
  BY <1>1 DEF Occupied, Store

\* One file, k, loses its last name (or, when k is NoInode, none does).
LEMMA Unlinked ==
    ASSUME CountersInv, CountersInv', NEW k \in Inode \cup {NoInode}, Store(data) \/ data' = data,
           k # NoInode => Linked(k), \A i \in Inode : Linked(i)' <=> (Linked(i) /\ i # k)
    PROVE  DiskBytes' = DiskBytes - LenOf(k)
<1>1. \A i \in Inode : Occupied'[i] = IF Linked(i) /\ i # k THEN Len(data[i]) ELSE 0
  BY OccupiedAfter
<1>2. Occupied \in [Inode -> Nat] /\ Occupied' \in [Inode -> Nat] /\ DiskBytes \in Nat
  BY Numbers, NumbersAfter DEF NumbersOK
<1>3. CASE k = NoInode
  <2>1. \A i \in Inode : i # k
    BY <1>3 DEF Inode, NoInode
  <2>2. Occupied' = Occupied
    BY <1>1, <1>2, <2>1 DEF Occupied
  <2> QED
    BY <1>2, <1>3, <2>2 DEF DiskBytes, LenOf
<1>4. CASE k # NoInode
  <2>1. k \in Inode /\ Occupied[k] = Len(data[k]) /\ Occupied'[k] = 0
        /\ \A i \in Inode : i # k => Occupied'[i] = Occupied[i]
    BY <1>1, <1>4 DEF Occupied
  <2>2. DiskBytes' = DiskBytes - Len(data[k]) + 0
    BY <1>2, <2>1, InodeUpdate DEF DiskBytes
  <2> QED
    BY <1>2, <1>4, <2>1, <2>2 DEF LenOf
<1> QED
  BY <1>3, <1>4

LEMMA StoreFrees == ASSUME NEW d, Store(d) PROVE FreeEmpty'
BY DEF Store, FreeEmpty

\* The lengths of committed files, when only other files are written.
LEMMA FilesKept ==
    ASSUME CountersInv, NEW d, Store(d) \/ data' = d, file' = file,
           \A x \in Path : file[x] # NoInode => d[file[x]] = data[file[x]]
    PROVE  \A x \in Path : LenOf(file[x])' = LenOf(file[x])
<1> SUFFICES ASSUME NEW x \in Path, file[x] # NoInode PROVE data'[file[x]] = data[file[x]]
  BY DEF LenOf
<1>1. file[x] \in Inode /\ InUse(file[x])'
  BY DEF CountersInv, DiskOK, InUse
<1> QED
  BY <1>1 DEF Store

\* A step of the event loop that takes no more from usage than from the disk
\* and from what the handler threads owe.
LEMMA Covered ==
    ASSUME QuotaInv, ContentInv', FreeEmpty', loop.pc # "boot", loop'.pc # "boot",
           used_bytes' + UnchargedBytes' + DiskBytes + OwedBytes
             >= used_bytes + UnchargedBytes + DiskBytes' + OwedBytes',
           used_bytes' + in_flight_bytes' <= Quota,
           jobs' = jobs
    PROVE  QuotaInv'
<1>1. NumbersOK /\ NumbersOK' /\ Running /\ Quota \in Nat
  BY Numbers, NumbersAfter, UploadAssumption DEF QuotaInv, ContentInv
<1>0. PICK u \in Nat, c \in Nat, d \in Nat, o \in Nat,
           u2 \in Nat, c2 \in Nat, d2 \in Nat, o2 \in Nat, r2 \in Nat :
        /\ u = used_bytes /\ c = UnchargedBytes /\ d = DiskBytes /\ o = OwedBytes
        /\ u2 = used_bytes' /\ c2 = UnchargedBytes' /\ d2 = DiskBytes' /\ o2 = OwedBytes'
        /\ r2 = in_flight_bytes' /\ c2 <= r2
  BY <1>1 DEF NumbersOK
<1>2. /\ u + c >= d + o /\ u2 + c2 + d + o >= u + c + d2 + o2 /\ u2 + r2 <= Quota /\ c2 <= r2
  BY <1>0, <1>1 DEF Running
<1>3. u2 + c2 >= d2 + o2
  BY <1>2
<1>4. PICK q \in Nat : q = Quota
  BY <1>1
<1>5. u2 + r2 <= q
  BY <1>2, <1>4
<1>6. d2 <= q
  BY <1>2, <1>3, <1>5
<1>7. Running' /\ DiskBytes' <= Quota
  BY <1>0, <1>3, <1>4, <1>6 DEF Running
<1> QED
  BY <1>7 DEF QuotaInv, SelfRename, Apart

LEMMA Balanced ==
    ASSUME QuotaInv, ContentInv', FreeEmpty', loop.pc # "boot", loop'.pc # "boot",
           used_bytes' + UnchargedBytes' + DiskBytes >= used_bytes + UnchargedBytes + DiskBytes',
           used_bytes' + in_flight_bytes' <= Quota,
           jobs' = jobs, \A x \in Path : LenOf(file[x])' = LenOf(file[x])
    PROVE  QuotaInv'
<1>1. CountersInv /\ NumbersOK /\ NumbersOK'
  BY Numbers, NumbersAfter DEF QuotaInv, ContentInv
<1>2. \A w \in DOMAIN jobs : Victim(jobs[w]) \in Path
  BY <1>1 DEF CountersInv, JobsOK, Job, Victim
<1>3. \A w \in DOMAIN jobs : Owes(jobs[w])' = Owes(jobs[w])
  BY <1>2 DEF Owes, Victim
<1>4. OwedBytes' = OwedBytes
  BY <1>3 DEF Owed, OwedBytes
<1>5. PICK u \in Nat, c \in Nat, d \in Nat, u2 \in Nat, c2 \in Nat, d2 \in Nat, o \in Nat :
        /\ u = used_bytes /\ c = UnchargedBytes /\ d = DiskBytes /\ o = OwedBytes
        /\ u2 = used_bytes' /\ c2 = UnchargedBytes' /\ d2 = DiskBytes'
  BY <1>1 DEF NumbersOK
<1>6. u2 + c2 + d + o >= u + c + d2 + o
  BY <1>5
<1> QED
  BY <1>4, <1>5, <1>6, Covered

\* What is owed, when only one job changes and the files of the others do not.
LEMMA OwedUpdate ==
    ASSUME CountersInv, CountersInv', NEW w \in Workers,
           \A v \in Workers : v # w => (v \in DOMAIN jobs' <=> v \in DOMAIN jobs),
           \A v \in DOMAIN jobs : v # w =>
               /\ jobs'[v] = jobs[v]
               /\ LenOf(file[Victim(jobs[v])])' = LenOf(file[Victim(jobs[v])])
    PROVE  OwedBytes' = OwedBytes - Owed[w] + Owed'[w]
<1>1. Owed \in [Workers -> Nat] /\ Owed' \in [Workers -> Nat]
  BY Numbers, NumbersAfter DEF NumbersOK
<1>2. ASSUME NEW v \in DOMAIN jobs, v # w PROVE Owes(jobs[v])' = Owes(jobs[v])
  BY <1>2 DEF Owes, Victim
<1>3. \A v \in Workers : v # w => Owed'[v] = Owed[v]
  BY <1>2 DEF Owed
<1>4. PICK f \in [1..NWorkers -> Nat], g \in [1..NWorkers -> Nat] : f = Owed /\ g = Owed'
  BY <1>1 DEF Workers
<1>5. Total(g, NWorkers) = Total(f, NWorkers) - f[w] + g[w]
  BY <1>3, <1>4, TotalUpdate, UploadAssumption DEF Workers
<1> QED
  BY <1>4, <1>5 DEF OwedBytes

\* What a stream that ends takes out of the uncharged bytes.
LEMMA UnchargedDrop ==
    ASSUME CountersInv, CountersInv', NEW s \in DOMAIN streams, Drop(s)
    PROVE  UnchargedBytes' = UnchargedBytes - (streams[s].reserved - streams[s].remaining)
<1>1. s \in StreamId /\ NumbersOK /\ NumbersOK'
  BY Numbers, NumbersAfter DEF CountersInv, StreamsOK
<1>2. /\ Uncharged'[s] = 0 /\ Uncharged[s] = streams[s].reserved - streams[s].remaining
      /\ \A t \in StreamId : t # s => Uncharged'[t] = Uncharged[t]
  BY <1>1 DEF Drop, Without, Uncharged
<1>3. UnchargedBytes' = UnchargedBytes - Uncharged[s] + Uncharged'[s]
  BY <1>1, <1>2, SlotUpdate DEF NumbersOK, UnchargedBytes
<1> QED
  BY <1>1, <1>2, <1>3 DEF NumbersOK

LEMMA EndQuota ==
    ASSUME QuotaInv, ContentInv', NEW s \in DOMAIN streams,
           AbortAccounting(s) \/ cleanup_rejected_upload(s),
           loop.pc \notin {"boot", "settle"}, loop'.pc = "idle", jobs' = jobs
    PROVE  QuotaInv'
<1>1. ContentInv /\ CountersInv /\ CountersInv' /\ NumbersOK /\ NumbersOK' /\ Running
  BY Numbers, NumbersAfter DEF QuotaInv, ContentInv
<1>2. PICK st \in ReadingFileData : st = streams[s]
  BY <1>1, StreamFields
<1>3. /\ st.reserved \in Nat /\ st.remaining \in Nat /\ st.prior \in Nat /\ st.remaining <= st.reserved
      /\ st.path \in Path /\ st.inode \in Inode
  BY <1>1, <1>2 DEF ReadingFileData, CountersInv, StreamsOK, WithinBounds
<1>4. /\ Drop(s) /\ Store(data) /\ file' = file /\ in_flight_bytes' = in_flight_bytes - st.reserved
  BY <1>2 DEF AbortAccounting, cleanup_rejected_upload
<1>5. UnchargedBytes' = UnchargedBytes - (st.reserved - st.remaining)
  BY <1>1, <1>2, <1>4, UnchargedDrop
<1>6. FreeEmpty' /\ \A x \in Path : LenOf(file[x])' = LenOf(file[x])
  BY <1>1, <1>4, StoreFrees, FilesKept
<1>0. PICK u \in Nat, c \in Nat, d \in Nat, r \in Nat :
        /\ u = used_bytes /\ c = UnchargedBytes /\ d = DiskBytes /\ r = in_flight_bytes
  BY <1>1 DEF NumbersOK
<1>10. u + r <= Quota /\ Quota \in Nat
  BY <1>0, <1>1, UploadAssumption DEF Running
<1>11. /\ FreeEmpty' /\ loop'.pc # "boot" /\ loop.pc # "boot"
       /\ \A x \in Path : LenOf(file[x])' = LenOf(file[x])
  BY <1>6
<1>8. CASE AbortAccounting(s)
  <2>1. temp' = temp /\ used_bytes' = used_bytes + (st.reserved - st.remaining)
    BY <1>2, <1>3, <1>8 DEF AbortAccounting, SaturatingSub
  <2>2. DiskBytes' = DiskBytes
    <3>1. \A i \in Inode : Linked(i)' <=> (Linked(i) /\ i # NoInode)
      BY <1>4, <2>1 DEF Linked, Inode, NoInode
    <3>2. DiskBytes' = DiskBytes - LenOf(NoInode)
      BY <1>1, <1>4, <3>1, Unlinked
    <3> QED
      BY <1>1, <3>2 DEF LenOf, NumbersOK
  <2>3. PICK e \in Nat : e = st.reserved - st.remaining /\ e <= st.reserved
    BY <1>3
  <2>4. used_bytes' + UnchargedBytes' + DiskBytes >= used_bytes + UnchargedBytes + DiskBytes'
    BY <1>0, <1>5, <2>1, <2>2, <2>3
  <2>5. used_bytes' + in_flight_bytes' <= Quota
    BY <1>0, <1>3, <1>4, <2>1, <2>3, <1>10
  <2> QED
    BY <1>11, <2>4, <2>5, Balanced
<1>9. CASE cleanup_rejected_upload(s)
  <2>1. /\ temp' = [temp EXCEPT ![st.path] = NoInode]
        /\ used_bytes' = SaturatingSub(used_bytes, st.prior)
    BY <1>2, <1>9 DEF cleanup_rejected_upload
  <2>2. temp[st.path] = st.inode /\ st.inode # NoInode
    BY <1>1, <1>2, StreamFields DEF ContentInv, HoldsItsPartial, Settling
  <2>3. Len(data[st.inode]) = st.prior + (st.reserved - st.remaining)
    BY <1>1, <1>2, <1>3 DEF ContentInv, HashCoversPartial
  <2>4. DiskBytes' = DiskBytes - Len(data[st.inode])
    <3>1. \A q \in Path : temp'[q] = IF q = st.path THEN NoInode ELSE temp[q]
      BY <1>1, <2>1 DEF CountersInv, DiskOK
    <3>2. Linked(st.inode) /\ \A i \in Inode : i # NoInode
      BY <1>3, <2>2 DEF Linked, Inode, NoInode
    <3>3. \A i \in Inode : Linked(i)' <=> (Linked(i) /\ i # st.inode)
      BY <1>1, <1>3, <1>4, <2>2, <3>1, <3>2 DEF Linked, ContentInv, NamesDistinct
    <3> QED
      BY <1>1, <1>3, <1>4, <2>2, <3>2, <3>3, Unlinked DEF LenOf
  <2>5. used_bytes' \in Nat /\ used_bytes' >= used_bytes - st.prior /\ used_bytes' <= used_bytes
    BY <1>1, <1>3, <2>1 DEF SaturatingSub, NumbersOK
  <2>6. used_bytes' + UnchargedBytes' + DiskBytes >= used_bytes + UnchargedBytes + DiskBytes'
    <3>1. PICK u2 \in Nat, n \in Nat, m \in Nat :
            /\ u2 = used_bytes' /\ n = st.prior /\ m = st.reserved - st.remaining
      BY <1>3, <2>5
    <3>2. u2 >= u - n /\ UnchargedBytes' = c - m /\ DiskBytes' = d - (n + m)
      BY <1>0, <1>5, <2>3, <2>4, <2>5, <3>1
    <3>3. u2 + (c - m) + d >= u + c + (d - (n + m))
      BY <3>1, <3>2
    <3> QED
      BY <1>0, <3>1, <3>2, <3>3
  <2>7. used_bytes' + in_flight_bytes' <= Quota
    BY <1>0, <1>3, <1>4, <1>10, <2>5
  <2> QED
    BY <1>11, <2>6, <2>7, Balanced
<1> QED
  BY <1>8, <1>9
\* A new upload has written nothing.
LEMMA UnchargedAccept ==
    ASSUME NEW s \in StreamId \ DOMAIN streams, NEW p, NEW i, NEW offset, NEW size \in Nat,
           NEW v, NEW opt, accept_put(s, p, i, offset, size, v, opt)
    PROVE  UnchargedBytes' = UnchargedBytes
<1> DEFINE st == [path |-> p, inode |-> i, version |-> v, opt |-> opt,
                  reserved |-> size, remaining |-> size, prior |-> offset,
                  hashed |-> <<>>, to_rehash |-> offset]
<1>1. /\ DOMAIN streams' = DOMAIN streams \cup {s} /\ streams'[s] = st
      /\ \A t \in DOMAIN streams : streams'[t] = streams[t]
  BY DEF accept_put, With
<1>2. st.reserved - st.remaining = 0
  OBVIOUS
<1> HIDE DEF st
<1>3. \A t \in StreamId : Uncharged'[t] = Uncharged[t]
  BY <1>1, <1>2 DEF Uncharged
<1>4. Uncharged' = Uncharged
  BY <1>3 DEF Uncharged
<1> QED
  BY <1>4 DEF UnchargedBytes

LEMMA StartFreshQuota ==
    ASSUME QuotaInv, ContentInv', NEW s \in StreamId, NEW p \in Path, NEW size \in 0..MaxFile,
           NEW v \in Versions, NEW opt \in Options,
           start_put_fresh(s, p, size, v, opt)
    PROVE  QuotaInv'
<1>1. PICK i \in Inode :
        /\ IF temp[p] # NoInode THEN i = temp[p] ELSE Fresh(i)
        /\ used_bytes' = SaturatingSub(used_bytes, Len(data[i]))
        /\ \/ /\ ~over_quota(used_bytes', size)
              /\ temp' = [temp EXCEPT ![p] = i]
              /\ accept_put(s, p, i, 0, size, v, opt)
           \/ /\ temp' = [temp EXCEPT ![p] = NoInode]
              /\ UNCHANGED <<in_flight_bytes, active_uploads, streams>>
        /\ UNCHANGED <<dirs, file, loop, jobs>>
        /\ Store([data EXCEPT ![i] = <<>>])
  BY DEF start_put_fresh
<1>2. /\ ContentInv /\ CountersInv /\ CountersInv' /\ NumbersOK /\ NumbersOK'
      /\ s \in StreamId \ DOMAIN streams /\ loop.pc = "idle" /\ i # NoInode /\ size \in Nat
  BY Numbers, NumbersAfter, UploadAssumption
     DEF QuotaInv, ContentInv, start_put_fresh, put_admissible, Idle, Inode, NoInode
<1>3. Running
  BY <1>2 DEF QuotaInv
<1>4. PICK d : d = [data EXCEPT ![i] = <<>>]
  OBVIOUS
<1>5. Store(d) /\ d[i] = <<>> /\ \A j \in Inode : j # i => d[j] = data[j]
  BY <1>1, <1>2, <1>4 DEF CountersInv, DiskOK
<1>6. \A q \in Path : file[q] # i /\ (q # p => temp[q] # i)
  BY <1>1, <1>2 DEF Fresh, InUse, ContentInv, NamesDistinct
<1>7. \A x \in Path : LenOf(file[x])' = LenOf(file[x])
  <2>1. \A x \in Path : file[x] # NoInode => d[file[x]] = data[file[x]]
    BY <1>2, <1>5, <1>6 DEF CountersInv, DiskOK
  <2> QED
    BY <1>1, <1>2, <1>5, <2>1, FilesKept
<1>8. PICK n \in Nat : n = Len(data[i])
  BY <1>2 DEF CountersInv, DiskOK, Content
<1>9. DiskBytes' = DiskBytes - n
  <2>1. temp[p] \in {i, NoInode} /\ temp'[p] \in {i, NoInode}
        /\ \A q \in Path : q # p => temp'[q] = temp[q]
    BY <1>1, <1>2 DEF CountersInv, DiskOK
  <2>2. \A j \in Inode : j # i => (Linked(j)' <=> Linked(j))
    BY <1>1, <2>1 DEF Linked, Inode, NoInode
  <2>3. \A j \in Inode : j # i => Occupied'[j] = Occupied[j]
    BY <1>5, <2>2, OccupiedAfter DEF Occupied
  <2>4. Occupied'[i] = 0
    BY <1>5, OccupiedAfter
  <2>5. Occupied[i] = n
    <3>1. CASE temp[p] # NoInode
      BY <1>1, <1>8, <3>1 DEF Occupied, Linked
    <3>2. CASE temp[p] = NoInode
      <4>1. ~InUse(i) /\ ~Linked(i)
        BY <1>1, <3>2 DEF Fresh, InUse, Linked
      <4>2. n = 0
        BY <1>8, <4>1 DEF QuotaInv, FreeEmpty
      <4> QED
        BY <4>1, <4>2 DEF Occupied
    <3> QED
      BY <3>1, <3>2
  <2>6. DiskBytes' = DiskBytes - n + 0
    BY <1>2, <2>3, <2>4, <2>5, InodeUpdate DEF DiskBytes, NumbersOK
  <2> QED
    BY <1>2, <1>8, <2>6 DEF NumbersOK
<1>10. UnchargedBytes' = UnchargedBytes
  <2>1. CASE accept_put(s, p, i, 0, size, v, opt)
    BY <1>2, <2>1, UnchargedAccept
  <2>2. CASE UNCHANGED streams
    BY <2>2 DEF UnchargedBytes, Uncharged
  <2> QED
    BY <1>1, <2>1, <2>2
<1>11. PICK u \in Nat, c \in Nat, e \in Nat, r \in Nat, u2 \in Nat :
        /\ u = used_bytes /\ c = UnchargedBytes /\ e = DiskBytes /\ r = in_flight_bytes
        /\ u2 = used_bytes'
  BY <1>2 DEF NumbersOK
<1>12. u2 >= u - n /\ u2 <= u /\ u + r <= Quota /\ Quota \in Nat
  <2>1. u2 = SaturatingSub(u, n) /\ u + r <= Quota /\ Quota \in Nat
    BY <1>1, <1>3, <1>8, <1>11, UploadAssumption DEF Running
  <2>2. u2 >= u - n /\ u2 <= u
    BY <2>1 DEF SaturatingSub
  <2> QED
    BY <2>1, <2>2
<1>13. used_bytes' + UnchargedBytes' + DiskBytes >= used_bytes + UnchargedBytes + DiskBytes'
  <2>1. u2 + c + e >= u + c + (e - n)
    BY <1>12
  <2> QED
    BY <1>9, <1>10, <1>11, <2>1
<1>14. used_bytes' + in_flight_bytes' <= Quota
  <2>1. CASE ~over_quota(used_bytes', size) /\ accept_put(s, p, i, 0, size, v, opt)
    <3>1. in_flight_bytes' = r + size /\ ~(u2 + r + size > Quota)
      BY <1>11, <2>1 DEF over_quota, accept_put
    <3>2. PICK q \in Nat, k \in Nat : q = Quota /\ k = size
      BY <1>2, <1>12
    <3>3. u2 + (r + k) <= q
      BY <3>1, <3>2
    <3> QED
      BY <1>11, <3>1, <3>2, <3>3
  <2>2. CASE UNCHANGED <<in_flight_bytes, active_uploads, streams>>
    <3>1. u2 + r <= Quota
      BY <1>12
    <3> QED
      BY <1>11, <2>2, <3>1
  <2> QED
    BY <1>1, <2>1, <2>2
<1>15. FreeEmpty'
  BY <1>5, StoreFrees
<1> QED
  BY <1>1, <1>2, <1>7, <1>13, <1>14, <1>15, Balanced

\* Steps that leave the disk and the usage as they are.
LEMMA NothingMoved ==
    ASSUME UNCHANGED <<file, temp, data>>
    PROVE  /\ DiskBytes' = DiskBytes
           /\ \A x \in Path : LenOf(file[x])' = LenOf(file[x])
<1>1. Occupied' = Occupied
  BY DEF Occupied, Linked
<1> QED
  BY <1>1 DEF DiskBytes, LenOf

LEMMA StartResumeQuota ==
    ASSUME QuotaInv, ContentInv', NEW s \in StreamId, NEW p \in Path, NEW size \in 0..MaxFile,
           NEW v \in Versions, NEW opt \in Options,
           start_put_resume(s, p, size, v, opt)
    PROVE  QuotaInv'
<1>1. PICK offset : offset = Len(data[temp[p]])
  OBVIOUS
<1>2. /\ ~over_quota(used_bytes, size) /\ accept_put(s, p, temp[p], offset, size, v, opt)
      /\ UNCHANGED <<file, temp, data, used_bytes, loop, jobs>>
      /\ s \in StreamId \ DOMAIN streams /\ loop.pc = "idle"
  BY <1>1 DEF start_put_resume, put_admissible, diskVars, Idle
<1>3. /\ CountersInv /\ CountersInv' /\ NumbersOK /\ NumbersOK' /\ size \in Nat /\ Quota \in Nat
  BY Numbers, NumbersAfter, UploadAssumption DEF QuotaInv, ContentInv
<1>4. UnchargedBytes' = UnchargedBytes /\ DiskBytes' = DiskBytes
  BY <1>2, <1>3, UnchargedAccept, NothingMoved
<1>5. \A x \in Path : LenOf(file[x])' = LenOf(file[x])
  BY <1>2, NothingMoved
<1>6. FreeEmpty'
  <2>1. \A j \in Inode : InUse(j) => InUse(j)'
    <3>1. \A t \in DOMAIN streams : t \in DOMAIN streams' /\ streams'[t] = streams[t]
      BY <1>2 DEF accept_put, With
    <3> QED
      BY <1>2, <3>1 DEF InUse
  <2> QED
    BY <1>2, <2>1 DEF QuotaInv, FreeEmpty
<1>7. used_bytes' + in_flight_bytes' <= Quota
  <2>1. PICK u \in Nat, r \in Nat : u = used_bytes /\ r = in_flight_bytes
    BY <1>3 DEF NumbersOK
  <2>2. ~(u + r + size > Quota) /\ used_bytes' = u /\ in_flight_bytes' = r + size
    BY <1>2, <2>1 DEF over_quota, accept_put
  <2> QED
    BY <1>3, <2>1, <2>2
<1>8. used_bytes' + UnchargedBytes' + DiskBytes >= used_bytes + UnchargedBytes + DiskBytes'
  BY <1>2, <1>3, <1>4 DEF NumbersOK
<1> QED
  BY <1>2, <1>5, <1>6, <1>7, <1>8, Balanced
\* Steps that move no bytes at all.
LEMMA QuietQuota ==
    ASSUME QuotaInv, ContentInv', loop.pc # "boot", loop'.pc # "boot",
           UNCHANGED <<file, temp, data, used_bytes, in_flight_bytes, jobs>>,
           Uncharged' = Uncharged, \A j \in Inode : InUse(j) => InUse(j)'
    PROVE  QuotaInv'
<1>1. UnchargedBytes' = UnchargedBytes /\ DiskBytes' = DiskBytes
  BY NothingMoved DEF UnchargedBytes
<1>2. \A x \in Path : LenOf(file[x])' = LenOf(file[x])
  BY NothingMoved
<1>3. FreeEmpty'
  BY DEF QuotaInv, FreeEmpty
<1>4. NumbersOK /\ Running
  BY Numbers DEF QuotaInv, ContentInv
<1>5. used_bytes' + UnchargedBytes' + DiskBytes >= used_bytes + UnchargedBytes + DiskBytes'
  BY <1>1, <1>4 DEF NumbersOK
<1>6. used_bytes' + in_flight_bytes' <= Quota
  BY <1>4 DEF Running
<1> QED
  BY <1>2, <1>3, <1>5, <1>6, Balanced

LEMMA RehashQuota ==
    ASSUME QuotaInv, ContentInv', NEW s \in DOMAIN streams, drive_rehash(s)
    PROVE  QuotaInv'
<1>1. CountersInv /\ streams[s] \in ReadingFileData
  BY StreamFields DEF QuotaInv, ContentInv
<1>2. PICK h, n : streams' = [streams EXCEPT ![s] = [streams[s] EXCEPT !.hashed = h, !.to_rehash = n]]
  <2>1. streams' = [streams EXCEPT ![s] = [streams[s] EXCEPT
                      !.hashed = Append(streams[s].hashed, data[streams[s].inode][
                                   streams[s].prior - streams[s].to_rehash + 1]),
                      !.to_rehash = streams[s].to_rehash - 1]]
    BY Zenon DEF drive_rehash
  <2> QED
    BY <2>1
<1>3. PICK new : new = [streams[s] EXCEPT !.hashed = h, !.to_rehash = n]
  OBVIOUS
<1>4. /\ new.inode = streams[s].inode /\ new.reserved = streams[s].reserved
      /\ new.remaining = streams[s].remaining
  BY <1>1, <1>3 DEF ReadingFileData
<1>5. DOMAIN streams' = DOMAIN streams /\ streams'[s] = new
      /\ \A t \in DOMAIN streams \ {s} : streams'[t] = streams[t]
  BY <1>1, <1>2, <1>3 DEF CountersInv, StreamsOK
<1>6. UNCHANGED <<file, temp, data, used_bytes, in_flight_bytes, loop, jobs>> /\ loop.pc = "idle"
  BY IdleOK DEF drive_rehash, diskVars, userVars
<1>7. Uncharged' = Uncharged
  BY <1>4, <1>5 DEF Uncharged
<1>8. \A j \in Inode : InUse(j) => InUse(j)'
  BY <1>4, <1>5, <1>6 DEF InUse
<1> QED
  BY <1>6, <1>7, <1>8, QuietQuota

\* A chunk: one more byte on disk, one more that nobody has charged.
LEMMA BodyQuota ==
    ASSUME QuotaInv, ContentInv', NEW s \in DOMAIN streams, NEW v \in Versions,
           drive_body(s, v)
    PROVE  QuotaInv'
<1>1. /\ ContentInv /\ CountersInv /\ CountersInv' /\ NumbersOK /\ NumbersOK'
      /\ Hashed(streams[s], data[streams[s].inode])
  BY Numbers, NumbersAfter, HashedEach DEF QuotaInv, ContentInv
<1>2. PICK st \in ReadingFileData : st = streams[s]
  BY <1>1, StreamFields
<1>3. PICK d \in Content : d = data[st.inode]
  BY <1>1, <1>2, StreamFields
<1>4. /\ st.inode \in Inode /\ st.reserved \in Nat /\ st.remaining \in Nat /\ Len(d) \in Nat
      /\ Hashed(st, d) /\ st.path \in Path /\ s \in StreamId
  BY <1>1, <1>2, <1>3 DEF ReadingFileData, Content, CountersInv, StreamsOK
<1>5. PICK h : h = Append(st.hashed, v)
  OBVIOUS
<1>6. PICK new : new = [st EXCEPT !.hashed = h, !.remaining = st.remaining - 1]
  OBVIOUS
<1>7. /\ loop.pc = "idle" /\ st.remaining > 0
      /\ UNCHANGED <<file, temp, used_bytes, in_flight_bytes, loop, jobs>>
      /\ streams' = [streams EXCEPT ![s] = new]
  <2>1. streams' = [streams EXCEPT ![s] = [streams[s] EXCEPT
                      !.hashed = Append(streams[s].hashed, v),
                      !.remaining = streams[s].remaining - 1]]
    BY Zenon DEF drive_body
  <2> QED
    BY <1>2, <1>5, <1>6, <2>1, IdleOK DEF drive_body, userVars
<1>8. PICK e : e = WriteAt(d, Len(d), v)
  OBVIOUS
<1>9. PICK f : f = [data EXCEPT ![st.inode] = e]
  OBVIOUS
<1>10. Store(f)
  <2>1. Store([data EXCEPT ![streams[s].inode] =
                 WriteAt(data[streams[s].inode],
                         streams[s].prior + streams[s].reserved - streams[s].remaining, v)])
    BY Zenon DEF drive_body
  <2>2. st.prior + st.reserved - st.remaining = Len(d)
    BY <1>4 DEF Hashed
  <2> QED
    BY <1>2, <1>3, <1>8, <1>9, <2>1, <2>2
<1>11. new.reserved = st.reserved /\ new.remaining = st.remaining - 1
  BY <1>6 DEF ReadingFileData
<1>12. DOMAIN streams' = DOMAIN streams /\ streams'[s] = new
       /\ \A t \in DOMAIN streams \ {s} : streams'[t] = streams[t]
  BY <1>1, <1>7 DEF CountersInv, StreamsOK
<1>13. UnchargedBytes' = UnchargedBytes + 1
  <2>1. PICK m \in Nat : m = st.reserved - st.remaining
    BY <1>4 DEF Hashed
  <2>2. Uncharged[s] = m /\ Uncharged'[s] = m + 1 /\ \A t \in StreamId : t # s => Uncharged'[t] = Uncharged[t]
    <3>1. new.reserved - new.remaining = m + 1
      BY <1>4, <1>11, <2>1
    <3> QED
      BY <1>2, <1>4, <1>12, <2>1, <3>1 DEF Uncharged
  <2>3. UnchargedBytes' = UnchargedBytes - m + (m + 1)
    BY <1>1, <1>4, <2>2, SlotUpdate DEF UnchargedBytes, NumbersOK
  <2> QED
    BY <1>1, <2>1, <2>3 DEF NumbersOK
<1>14. temp[st.path] = st.inode
  BY <1>1, <1>2, <1>7 DEF ContentInv, HoldsItsPartial, Settling
<1>15. f[st.inode] = e /\ \A j \in Inode : j # st.inode => f[j] = data[j]
  BY <1>1, <1>4, <1>9 DEF CountersInv, DiskOK
<1>16. DiskBytes' = DiskBytes + 1
  <2>1. PICK m \in Nat : m = Len(d)
    BY <1>4
  <2>2. \A j \in Inode : Linked(j)' <=> Linked(j)
    BY <1>7 DEF Linked
  <2>3. Linked(st.inode)
    BY <1>4, <1>14 DEF Linked
  <2>4. Len(e) = m + 1
    BY <1>8, <2>1, WriteAtEnd
  <2>5. Occupied[st.inode] = m /\ Occupied'[st.inode] = m + 1
        /\ \A j \in Inode : j # st.inode => Occupied'[j] = Occupied[j]
    <3>1. Occupied'[st.inode] = m + 1
      BY <1>4, <1>10, <1>15, <2>2, <2>3, <2>4, OccupiedAfter
    <3>2. \A j \in Inode : Occupied'[j] = IF Linked(j)' THEN Len(f[j]) ELSE 0
      BY <1>10, OccupiedAfter
    <3>3. \A j \in Inode : j # st.inode => Occupied'[j] = Occupied[j]
      BY <1>15, <2>2, <3>2 DEF Occupied
    <3> QED
      BY <1>3, <1>4, <2>1, <2>3, <3>1, <3>3 DEF Occupied
  <2>6. DiskBytes' = DiskBytes - m + (m + 1)
    <3>1. PICK o \in [Inode -> Nat], o2 \in [Inode -> Nat], i \in Inode :
            o = Occupied /\ o2 = Occupied' /\ i = st.inode
      BY <1>1, <1>4 DEF NumbersOK
    <3>2. Total(o2, MaxInodes) = Total(o, MaxInodes) - o[i] + o2[i]
      BY <2>5, <3>1, InodeUpdate
    <3> QED
      BY <2>5, <3>1, <3>2 DEF DiskBytes
  <2> QED
    BY <1>1, <2>1, <2>6 DEF NumbersOK
<1>17. \A x \in Path : LenOf(file[x])' = LenOf(file[x])
  <2>1. \A x \in Path : file[x] # NoInode => f[file[x]] = data[file[x]]
    BY <1>1, <1>4, <1>14, <1>15 DEF ContentInv, NamesDistinct, CountersInv, DiskOK
  <2> QED
    BY <1>1, <1>7, <1>10, <2>1, FilesKept
<1>18. used_bytes' + UnchargedBytes' + DiskBytes >= used_bytes + UnchargedBytes + DiskBytes'
  <2>1. PICK u \in Nat, c \in Nat, k \in Nat : u = used_bytes /\ c = UnchargedBytes /\ k = DiskBytes
    BY <1>1 DEF NumbersOK
  <2>2. u + (c + 1) + k >= u + c + (k + 1)
    OBVIOUS
  <2> QED
    BY <1>7, <1>13, <1>16, <2>1, <2>2
<1>19. used_bytes' + in_flight_bytes' <= Quota
  BY <1>7 DEF QuotaInv, Running
<1> QED
  BY <1>7, <1>10, <1>17, <1>18, <1>19, StoreFrees, Balanced

LEMMA GuardQuota ==
    ASSUME QuotaInv, ContentInv', NEW s \in DOMAIN streams, commit_guard(s)
    PROVE  QuotaInv'
<1>1. loop.pc = "idle" /\ jobs' = jobs
  BY IdleOK DEF commit_guard
<1>2. CASE (AbortAccounting(s) \/ cleanup_rejected_upload(s)) /\ UNCHANGED loop
  BY <1>1, <1>2, EndQuota
<1>3. CASE /\ loop' = [Idle EXCEPT !.pc = "rename", !.stream = s]
           /\ UNCHANGED <<diskVars, userVars, streams>>
  <2>1. /\ UNCHANGED <<file, temp, data, used_bytes, in_flight_bytes, jobs, streams>>
        /\ loop'.pc = "rename"
    BY <1>1, <1>3 DEF diskVars, userVars, Idle
  <2>2. Uncharged' = Uncharged /\ \A j \in Inode : InUse(j) => InUse(j)'
    BY <2>1 DEF Uncharged, InUse
  <2> QED
    BY <1>1, <2>1, <2>2, QuietQuota
<1> QED
  BY <1>2, <1>3 DEF commit_guard
\* The length of a file a name keeps is kept.
LEMMA NamedKept ==
    ASSUME CountersInv, Store(data), NEW x \in Path, NEW y \in Path, file'[x] = file[y]
    PROVE  LenOf(file[x])' = LenOf(file[y])
<1>1. file[y] # NoInode => file[y] \in Inode
  BY DEF CountersInv, DiskOK
<1>2. file[y] \in Inode => data'[file[y]] = data[file[y]]
  BY DEF Store, InUse
<1> QED
  BY <1>1, <1>2 DEF LenOf

LEMMA NameLengths ==
    ASSUME CountersInv, CountersInv', NEW x \in Path
    PROVE  LenOf(file[x]) \in Nat /\ LenOf(file[x])' \in Nat
<1>1. LenOf(file[x]) \in Nat
  BY LenOfType DEF CountersInv, DiskOK
<1>2. LenOf(file[x])' \in Nat
  <2>1. file'[x] \in Inode \cup {NoInode} /\ data' \in [Inode -> Content]
    BY DEF CountersInv, DiskOK
  <2> QED
    BY <2>1 DEF LenOf, Content
<1> QED
  BY <1>1, <1>2

\* The rename takes the old file's bytes off the disk; usage keeps them.
LEMMA RenameQuota ==
    ASSUME QuotaInv, ContentInv', NEW s \in DOMAIN streams, commit_rename(s)
    PROVE  QuotaInv'
<1>1. /\ ContentInv /\ CountersInv /\ CountersInv' /\ NumbersOK /\ NumbersOK'
      /\ loop.pc = "rename" /\ jobs' = jobs
  BY Numbers, NumbersAfter DEF QuotaInv, ContentInv, commit_rename
<1>2. PICK p \in Path : p = streams[s].path
  BY <1>1, StreamFields
<1>3. CASE AbortAccounting(s) /\ loop' = Idle
  BY <1>1, <1>3, EndQuota, IdleOK
<1>4. CASE /\ temp[p] # NoInode
           /\ file' = [file EXCEPT ![p] = temp[p]]
           /\ temp' = [temp EXCEPT ![p] = NoInode]
           /\ loop' = [loop EXCEPT !.pc = "settle"]
           /\ UNCHANGED <<dirs, userVars, streams>>
           /\ Store(data)
  <2>1. /\ loop'.pc = "settle" /\ used_bytes' = used_bytes /\ in_flight_bytes' = in_flight_bytes
        /\ streams' = streams
    BY <1>1, <1>4 DEF CountersInv, LoopOK, Loop, userVars
  <2>2. /\ file'[p] = temp[p] /\ temp'[p] = NoInode
        /\ \A q \in Path : q # p => file'[q] = file[q] /\ temp'[q] = temp[q]
    BY <1>1, <1>4 DEF CountersInv, DiskOK
  <2>3. PICK k \in Inode \cup {NoInode} : k = file[p]
    BY <1>1 DEF CountersInv, DiskOK
  <2>4. k # NoInode => Linked(k)
    BY <2>3 DEF Linked
  <2>5. \A i \in Inode : Linked(i)' <=> (Linked(i) /\ i # k)
    <3>1. \A i \in Inode : i # NoInode
      BY DEF Inode, NoInode
    <3>2. ASSUME NEW i \in Inode, Linked(i)' PROVE Linked(i) /\ i # k
      <4>1. PICK q \in Path : file'[q] = i \/ temp'[q] = i
        BY <3>2 DEF Linked
      <4>2. Linked(i)
        BY <2>2, <3>1, <4>1 DEF Linked
      <4>3. i # k
        BY <1>1, <1>4, <2>2, <2>3, <3>1, <4>1 DEF ContentInv, NamesDistinct
      <4> QED
        BY <4>2, <4>3
    <3>3. ASSUME NEW i \in Inode, Linked(i), i # k PROVE Linked(i)'
      BY <2>2, <2>3, <3>3 DEF Linked
    <3> QED
      BY <3>2, <3>3
  <2>6. DiskBytes' = DiskBytes - LenOf(k)
    BY <1>1, <1>4, <2>4, <2>5, Unlinked
  <2>7. UnchargedBytes' = UnchargedBytes
    BY <2>1 DEF UnchargedBytes, Uncharged
  <2>8. PICK u \in Nat, c \in Nat, d \in Nat, n \in Nat :
          /\ u = used_bytes /\ c = UnchargedBytes /\ d = DiskBytes /\ n = LenOf(k)
    BY <1>1, <2>3, NameLengths DEF NumbersOK
  <2>9. /\ used_bytes' = u /\ UnchargedBytes' = c /\ DiskBytes' = d - n
    BY <2>1, <2>6, <2>7, <2>8
  <2>10. \A x \in Path : x # p => LenOf(file[x])' = LenOf(file[x])
    BY <1>1, <1>4, <2>2, NamedKept
  <2>11. PICK o \in Nat, o2 \in Nat : o = OwedBytes /\ o2 = OwedBytes' /\ o2 <= o + n
    <3>0. OwedBytes \in Nat /\ OwedBytes' \in Nat /\ \A v \in DOMAIN jobs : v \in Workers
                                                     /\ jobs[v] \in Job /\ Victim(jobs[v]) \in Path
      BY <1>1 DEF NumbersOK, CountersInv, JobsOK, Job, Victim
    <3>1. CASE \A v \in DOMAIN jobs : Victim(jobs[v]) # p
      <4>1. \A v \in DOMAIN jobs : Owes(jobs[v])' = Owes(jobs[v])
        BY <1>1, <2>10, <3>0, <3>1 DEF Owes, Victim
      <4>2. OwedBytes' = OwedBytes
        BY <1>1, <4>1 DEF Owed, OwedBytes
      <4> QED
        BY <3>0, <4>2
    <3>2. ASSUME NEW w \in DOMAIN jobs, Victim(jobs[w]) = p PROVE OwedBytes' <= OwedBytes + n
      <4>1. \A v \in DOMAIN jobs : v # w => Victim(jobs[v]) # p
        BY <3>2 DEF QuotaInv, Apart, Collide, Victim
      <4>2. \A v \in DOMAIN jobs : v # w =>
              LenOf(file[Victim(jobs[v])])' = LenOf(file[Victim(jobs[v])])
        BY <1>1, <2>10, <3>0, <4>1 DEF Victim
      <4>3. OwedBytes' = OwedBytes - Owed[w] + Owed'[w]
        BY <1>1, <3>0, <4>2, OwedUpdate
      <4>4. PICK m2 \in Nat, z \in Nat : m2 = LenOf(file[p])' /\ z = jobs[w].size
        BY <1>1, <3>0, NameLengths DEF Job
      <4>5. Owed[w] = (IF jobs[w].pc = "act" THEN SaturatingSub(z, n) ELSE z)
        BY <2>3, <2>8, <3>0, <3>2, <4>4 DEF Owed, Owes
      <4>6. Owed'[w] = (IF jobs[w].pc = "act" THEN SaturatingSub(z, m2) ELSE z)
        BY <1>1, <3>0, <3>2, <4>4 DEF Owed, Owes, Victim
      <4>7. Owed[w] \in Nat /\ Owed'[w] \in Nat /\ Owed'[w] <= Owed[w] + n
        BY <4>5, <4>6 DEF SaturatingSub
      <4> QED
        BY <3>0, <4>3, <4>7
    <3> QED
      BY <3>0, <3>1, <3>2
  <2>12. used_bytes' + in_flight_bytes' <= Quota
    BY <1>1, <2>1 DEF QuotaInv, Running
  <2>13. FreeEmpty'
    BY <1>4, StoreFrees
  <2>14. used_bytes' + UnchargedBytes' + DiskBytes + OwedBytes
           >= used_bytes + UnchargedBytes + DiskBytes' + OwedBytes'
    <3>0. o2 <= o + n
      BY <2>11
    <3>1. u + c + d + o >= u + c + (d - n) + o2
      BY <3>0
    <3> QED
      BY <2>8, <2>9, <2>11, <3>1
  <2> QED
    BY <1>1, <2>1, <2>12, <2>13, <2>14, Covered
<1> QED
  BY <1>2, <1>3, <1>4 DEF commit_rename

\* The disk, when no name changes.
LEMMA NoNameMoved ==
    ASSUME CountersInv, CountersInv', UNCHANGED <<file, temp>>, Store(data)
    PROVE  DiskBytes' = DiskBytes
<1>1. \A i \in Inode : Linked(i)' <=> (Linked(i) /\ i # NoInode)
  BY DEF Linked, Inode, NoInode
<1>2. DiskBytes' = DiskBytes - LenOf(NoInode)
  BY <1>1, Unlinked
<1> QED
  BY <1>2, Numbers DEF LenOf, NumbersOK

LEMMA SettleQuota ==
    ASSUME QuotaInv, ContentInv', NEW s \in DOMAIN streams, commit_settle(s)
    PROVE  QuotaInv'
<1>1. /\ ContentInv /\ CountersInv /\ CountersInv' /\ NumbersOK /\ NumbersOK' /\ Quota \in Nat
      /\ loop.pc = "settle" /\ loop'.pc = "idle" /\ jobs' = jobs
      /\ UNCHANGED <<file, temp>> /\ Drop(s) /\ Store(data)
  BY Numbers, NumbersAfter, IdleOK, UploadAssumption DEF QuotaInv, ContentInv, commit_settle
<1>2. PICK st \in ReadingFileData : st = streams[s]
  BY <1>1, StreamFields
<1>3. PICK n \in Nat, m \in Nat : n = st.reserved /\ m = st.remaining /\ m <= n
  BY <1>1, <1>2 DEF ReadingFileData, CountersInv, StreamsOK, WithinBounds
<1>4. PICK u \in Nat, c \in Nat, d \in Nat, r \in Nat :
        /\ u = used_bytes /\ c = UnchargedBytes /\ d = DiskBytes /\ r = in_flight_bytes
  BY <1>1 DEF NumbersOK
<1>5. /\ used_bytes' = u + n /\ in_flight_bytes' = r - n /\ DiskBytes' = d
      /\ UnchargedBytes' = c - (n - m)
  BY <1>1, <1>2, <1>3, <1>4, NoNameMoved, UnchargedDrop DEF commit_settle
<1>6. u + n + (c - (n - m)) + d >= u + c + d
  BY <1>3
<1>7. u + r <= Quota
  BY <1>1, <1>4 DEF QuotaInv, Running
<1>8. u + n + (r - n) <= Quota
  BY <1>1, <1>7
<1>9. /\ used_bytes' + UnchargedBytes' + DiskBytes >= used_bytes + UnchargedBytes + DiskBytes'
      /\ used_bytes' + in_flight_bytes' <= Quota
  BY <1>4, <1>5, <1>6, <1>8
<1>10. \A x \in Path : LenOf(file[x])' = LenOf(file[x])
  BY <1>1, FilesKept
<1> QED
  BY <1>1, <1>9, <1>10, StoreFrees, Balanced

LEMMA PutStepQuota ==
    ASSUME QuotaInv, ContentInv', NEW s \in DOMAIN streams, PutStep(s)
    PROVE  QuotaInv'
<1>1. ASSUME rehash_fails(s) \/ decode_fails(s) \/ abort_put(s) PROVE QuotaInv'
  <2>1. /\ AbortAccounting(s) \/ cleanup_rejected_upload(s)
        /\ loop.pc = "idle" /\ loop'.pc = "idle" /\ jobs' = jobs
    BY <1>1, IdleOK DEF rehash_fails, decode_fails, abort_put
  <2> QED
    BY <2>1, EndQuota
<1> QED
  BY <1>1, RehashQuota, BodyQuota, GuardQuota, RenameQuota, SettleQuota DEF PutStep
-----------------------------------------------------------------------------
(***************************************************************************)
(* The quota: handler threads.                                             *)
(***************************************************************************)

\* Handler threads give bytes back to the disk before they give them back to
\* the user.
LEMMA HandlerQuota ==
    ASSUME QuotaInv, ContentInv', FreeEmpty', SelfRename', Apart', loop.pc # "boot",
           UNCHANGED <<in_flight_bytes, streams, loop>>,
           used_bytes' <= used_bytes, DiskBytes' <= DiskBytes,
           used_bytes' + DiskBytes + OwedBytes >= used_bytes + DiskBytes' + OwedBytes'
    PROVE  QuotaInv'
<1>1. NumbersOK /\ NumbersOK' /\ Running /\ Quota \in Nat
  BY Numbers, NumbersAfter, UploadAssumption DEF QuotaInv, ContentInv
<1>2. UnchargedBytes' = UnchargedBytes
  BY DEF UnchargedBytes, Uncharged
<1>3. PICK u \in Nat, c \in Nat, d \in Nat, o \in Nat, u2 \in Nat, d2 \in Nat, o2 \in Nat,
           r \in Nat, q \in Nat :
        /\ u = used_bytes /\ c = UnchargedBytes /\ d = DiskBytes /\ o = OwedBytes
        /\ u2 = used_bytes' /\ d2 = DiskBytes' /\ o2 = OwedBytes' /\ r = in_flight_bytes /\ q = Quota
  BY <1>1 DEF NumbersOK
<1>4. u + c >= d + o /\ d <= q /\ u + r <= q
  BY <1>1, <1>3 DEF Running, QuotaInv
<1>5. u2 <= u /\ d2 <= d /\ u2 + d + o >= u + d2 + o2
  BY <1>3
<1>6. u2 + c >= d2 + o2
  BY <1>4, <1>5
<1>7. d2 <= q /\ u2 + r <= q
  BY <1>4, <1>5
<1>8. Running' /\ DiskBytes' <= Quota
  BY <1>2, <1>3, <1>6, <1>7 DEF Running
<1> QED
  BY <1>8 DEF QuotaInv

\* A handler thread takes a job, having read how long its victim is.
LEMMA NewJobQuota ==
    ASSUME QuotaInv, ContentInv', NEW w \in Workers, NEW p \in Path, NEW q \in Path,
           rm_stat(w, p) \/ rename_stat(w, p, q), ~overlapped'
    PROVE  QuotaInv'
<1>1. /\ CountersInv /\ CountersInv' /\ NumbersOK /\ NumbersOK'
      /\ loop.pc # "boot" /\ w \notin DOMAIN jobs
      /\ UNCHANGED <<file, temp, data, used_bytes, in_flight_bytes, streams, loop>>
  BY Numbers, NumbersAfter
     DEF QuotaInv, ContentInv, rm_stat, rename_stat, take_job, Free, diskVars, userVars
<1>2. PICK j \in Job : /\ take_job(w, j) /\ j.pc = "act"
                       /\ j.size \in {0, SizeAt(Victim(j))}
                       /\ j.op = "rename" /\ j.from = j.to => j.size = 0
  <2>1. CASE rm_stat(w, p)
    <3>1. PICK j : j = [op |-> "rm", pc |-> "act", from |-> p, to |-> p, size |-> SizeAt(p)]
      OBVIOUS
    <3>2. j \in Job /\ j.op = "rm" /\ j.from = p /\ j.size = SizeAt(p) /\ j.pc = "act"
      BY <1>1, <3>1, SizeAtType DEF Job, CountersInv
    <3> QED
      BY <2>1, <3>1, <3>2 DEF rm_stat, Victim
  <2>2. CASE rename_stat(w, p, q)
    <3>0. PICK n : n = IF p # q /\ file[p] # NoInode THEN SizeAt(q) ELSE 0
      OBVIOUS
    <3>1. PICK j : j = [op |-> "rename", pc |-> "act", from |-> p, to |-> q, size |-> n]
      OBVIOUS
    <3>2. n \in Nat
      BY <1>1, <3>0, SizeAtType DEF CountersInv
    <3>3. /\ j \in Job /\ j.op = "rename" /\ j.from = p /\ j.to = q /\ j.size = n /\ j.pc = "act"
      BY <3>1, <3>2 DEF Job
    <3> QED
      BY <2>2, <3>0, <3>1, <3>3 DEF rename_stat, Victim
  <2> QED
    BY <2>1, <2>2
<1>3. /\ DOMAIN jobs' = DOMAIN jobs \cup {w} /\ jobs'[w] = j
      /\ \A v \in DOMAIN jobs : jobs'[v] = jobs[v]
  BY <1>1, <1>2 DEF With, take_job
<1>4. DiskBytes' = DiskBytes
  BY <1>1, NothingMoved
<1>5. Apart'
  <2>1. \A v \in DOMAIN jobs : ~Collide(jobs[v], j) /\ ~Collide(j, jobs[v])
    BY <1>2 DEF take_job, Collide
  <2>2. \A v, x \in DOMAIN jobs : v # x => ~Collide(jobs[v], jobs[x])
    BY DEF QuotaInv, Apart
  <2>3. \A v, x \in DOMAIN jobs' : v # x => ~Collide(jobs'[v], jobs'[x])
    BY <1>3, <2>1, <2>2
  <2> QED
    BY <2>3 DEF Apart, Collide, Victim
<1>6. OwedBytes' = OwedBytes
  <2>1. PICK x \in Path : x = Victim(j)
    BY DEF Victim, Job
  <2>2. PICK m \in Nat : m = LenOf(file[x])
    BY <1>1, NameLengths
  <2>3. j.size \in Nat /\ j.size <= m
    BY <1>2, <2>1, <2>2 DEF SizeAt, LenOf, Job
  <2>4. Owes(j)' = 0
    BY <1>1, <1>2, <2>1, <2>2, <2>3 DEF Owes, Victim, SaturatingSub, LenOf
  <2>5. Owed'[w] = 0 /\ Owed[w] = 0
    BY <1>1, <1>3, <2>4 DEF Owed, Owes, Victim
  <2>6. \A v \in DOMAIN jobs : LenOf(file[Victim(jobs[v])])' = LenOf(file[Victim(jobs[v])])
    BY <1>1, <1>3 DEF LenOf, Victim
  <2>7. OwedBytes' = OwedBytes - 0 + 0
    BY <1>1, <1>3, <2>5, <2>6, OwedUpdate
  <2> QED
    BY <1>1, <2>7 DEF NumbersOK
<1>9. SelfRename'
  <2>1. \A v \in DOMAIN jobs : jobs[v].op = "rename" /\ jobs[v].from = jobs[v].to => jobs[v].size = 0
    BY DEF QuotaInv, SelfRename
  <2>2. \A v \in DOMAIN jobs' : jobs'[v] = j \/ (v \in DOMAIN jobs /\ jobs'[v] = jobs[v])
    BY <1>3
  <2> QED
    BY <1>2, <2>1, <2>2 DEF SelfRename
<1>10. FreeEmpty'
  BY <1>1 DEF QuotaInv, FreeEmpty, InUse
<1>11. /\ used_bytes' <= used_bytes /\ DiskBytes' <= DiskBytes
       /\ used_bytes' + DiskBytes + OwedBytes >= used_bytes + DiskBytes' + OwedBytes'
  BY <1>1, <1>4, <1>6 DEF NumbersOK
<1> QED
  BY <1>1, <1>5, <1>9, <1>10, <1>11, HandlerQuota

\* A job goes on or ends: it stays apart from the others, which keep what they owe.
LEMMA JobAdvances ==
    ASSUME QuotaInv, ContentInv', NEW w \in DOMAIN jobs,
           \/ jobs' = Without(jobs, w)
           \/ jobs' = [jobs EXCEPT ![w].pc = "refund"],
           \A x \in Path : x \notin {jobs[w].from, jobs[w].to} => LenOf(file[x])' = LenOf(file[x])
    PROVE  /\ SelfRename' /\ Apart'
           /\ OwedBytes' = OwedBytes - Owed[w] + Owed'[w]
           /\ Owed[w] = Owes(jobs[w])
           /\ Owed'[w] = IF jobs' = Without(jobs, w) THEN 0 ELSE jobs[w].size
<1>1. CountersInv /\ CountersInv'
  BY DEF QuotaInv, ContentInv
<1>2. PICK j \in Job : j = jobs[w] /\ w \in Workers
  BY <1>1 DEF CountersInv, JobsOK
<1>3. \A v \in DOMAIN jobs : jobs[v] \in Job /\ v \in Workers /\ Victim(jobs[v]) \in Path
  BY <1>1 DEF CountersInv, JobsOK, Job, Victim
<1>4. ASSUME NEW v \in DOMAIN jobs, v # w
      PROVE  LenOf(file[Victim(jobs[v])])' = LenOf(file[Victim(jobs[v])])
             \/ jobs'[v] # jobs[v]
  <2>1. Victim(jobs[v]) \notin {jobs[w].from, jobs[w].to}
    BY <1>4 DEF QuotaInv, Apart, Collide
  <2> QED
    BY <1>3, <2>1 DEF Victim
<1>5. /\ DOMAIN jobs' \subseteq DOMAIN jobs
      /\ \A v \in DOMAIN jobs : v # w => v \in DOMAIN jobs' /\ jobs'[v] = jobs[v]
  BY DEF Without
<1>6. OwedBytes' = OwedBytes - Owed[w] + Owed'[w]
  BY <1>1, <1>2, <1>3, <1>4, <1>5, OwedUpdate
<1>7. PICK k : k = [j EXCEPT !.pc = "refund"]
  OBVIOUS
<1>8. k.pc = "refund" /\ k.size = j.size /\ k.op = j.op /\ k.from = j.from /\ k.to = j.to
  BY <1>7 DEF Job
<1>9. w \in DOMAIN jobs' => jobs' # Without(jobs, w) /\ jobs'[w] = k
  BY <1>1, <1>2, <1>7 DEF Without, CountersInv, JobsOK
<1>10. \A v \in DOMAIN jobs' : /\ v \in DOMAIN jobs
                               /\ jobs'[v].op = jobs[v].op /\ jobs'[v].size = jobs[v].size
                               /\ jobs'[v].from = jobs[v].from /\ jobs'[v].to = jobs[v].to
  BY <1>2, <1>5, <1>8, <1>9
<1>11. SelfRename'
  BY <1>10 DEF QuotaInv, SelfRename
<1>12. Apart'
  <2>1. \A v, x \in DOMAIN jobs : v # x => ~Collide(jobs[v], jobs[x])
    BY DEF QuotaInv, Apart
  <2>2. \A v, x \in DOMAIN jobs' : v # x => ~Collide(jobs'[v], jobs'[x])
    BY <1>10, <2>1 DEF Collide, Victim
  <2> QED
    BY <2>2 DEF Apart, Collide, Victim
<1>13. Owed[w] = Owes(jobs[w])
  BY <1>2 DEF Owed
<1>14. Owed'[w] = IF jobs' = Without(jobs, w) THEN 0 ELSE jobs[w].size
  <2>1. CASE jobs' = Without(jobs, w)
    BY <1>2, <2>1 DEF Owed, Without
  <2>2. CASE jobs' # Without(jobs, w)
    <3>1. w \in DOMAIN jobs' /\ jobs'[w] = k
      BY <1>1, <1>9, <2>2 DEF CountersInv, JobsOK
    <3> QED
      BY <1>2, <1>8, <2>2, <3>1 DEF Owed, Owes
  <2> QED
    BY <2>1, <2>2
<1> QED
  BY <1>6, <1>11, <1>12, <1>13, <1>14

\* The victim is unlinked (or renamed over), or the request fails.
LEMMA ActedQuota ==
    ASSUME QuotaInv, ContentInv', FreeEmpty', NEW w \in DOMAIN jobs,
           jobs[w].pc = "act", NEW n \in Nat, DiskBytes' = DiskBytes - n,
           UNCHANGED <<used_bytes, in_flight_bytes, streams, loop>>,
           \/ jobs' = Without(jobs, w)
           \/ /\ jobs' = [jobs EXCEPT ![w].pc = "refund"]
              /\ jobs[w].size = 0 \/ n = LenOf(file[Victim(jobs[w])]),
           \A x \in Path : x \notin {jobs[w].from, jobs[w].to} => LenOf(file[x])' = LenOf(file[x])
    PROVE  QuotaInv'
<1>1. /\ NumbersOK /\ NumbersOK' /\ CountersInv /\ loop.pc # "boot" /\ jobs[w] \in Job /\ w \in Workers
  BY Numbers, NumbersAfter DEF QuotaInv, ContentInv, Booting, CountersInv, JobsOK
<1>2. /\ SelfRename' /\ Apart'
      /\ OwedBytes' = OwedBytes - Owed[w] + Owed'[w]
      /\ Owed[w] = Owes(jobs[w])
      /\ Owed'[w] = IF jobs' = Without(jobs, w) THEN 0 ELSE jobs[w].size
  BY JobAdvances
<1>3. PICK d \in Nat, o \in Nat, u \in Nat, m \in Nat, x \in Nat, y \in Nat :
        /\ d = DiskBytes /\ o = OwedBytes /\ u = used_bytes /\ m = jobs[w].size
        /\ x = Owed[w] /\ y = Owed'[w]
  BY <1>1 DEF NumbersOK, Job
<1>4. y <= n + x
  <2>1. CASE jobs' = Without(jobs, w) \/ jobs[w].size = 0
    BY <1>2, <1>3, <2>1
  <2>2. CASE n = LenOf(file[Victim(jobs[w])])
    <3>1. x = SaturatingSub(m, n) /\ y <= m
      BY <1>2, <1>3, <2>2 DEF Owes
    <3> QED
      BY <3>1 DEF SaturatingSub
  <2> QED
    BY <2>1, <2>2
<1>5. u + d + o >= u + (d - n) + (o - x + y) /\ d - n <= d
  BY <1>4
<1>6. /\ used_bytes' <= used_bytes /\ DiskBytes' <= DiskBytes
      /\ used_bytes' + DiskBytes + OwedBytes >= used_bytes + DiskBytes' + OwedBytes'
  BY <1>2, <1>3, <1>5
<1> QED
  BY <1>1, <1>2, <1>6, HandlerQuota

\* A file that moves within the home takes its bytes along.
LEMMA FileMoved ==
    ASSUME ContentInv, CountersInv', NEW a \in Path, NEW b \in Path, a # b, file[a] # NoInode,
           file' = [file EXCEPT ![b] = file[a], ![a] = NoInode], temp' = temp, Store(data)
    PROVE  DiskBytes' = DiskBytes - LenOf(file[b])
<1>1. CountersInv /\ file \in [Path -> Inode \cup {NoInode}]
  BY DEF ContentInv, CountersInv, DiskOK
<1>2. /\ file'[b] = file[a] /\ file'[a] = NoInode
      /\ \A q \in Path : q # a /\ q # b => file'[q] = file[q]
  BY <1>1
<1>3. PICK k \in Inode \cup {NoInode} : k = file[b]
  BY <1>1
<1>4. k # NoInode => Linked(k)
  BY <1>3 DEF Linked
<1>5. \A i \in Inode : i # NoInode
  BY DEF Inode, NoInode
<1>6. ASSUME NEW i \in Inode, Linked(i)' PROVE Linked(i) /\ i # k
  <2>1. PICK q \in Path : file'[q] = i \/ temp[q] = i
    BY <1>6 DEF Linked
  <2>2. Linked(i)
    BY <1>2, <1>5, <2>1 DEF Linked
  <2>3. i # k
    BY <1>2, <1>3, <1>5, <2>1 DEF ContentInv, NamesDistinct
  <2> QED
    BY <2>2, <2>3
<1>7. ASSUME NEW i \in Inode, Linked(i), i # k PROVE Linked(i)'
  BY <1>2, <1>3, <1>7 DEF Linked
<1>8. DiskBytes' = DiskBytes - LenOf(k)
  BY <1>1, <1>4, <1>6, <1>7, Unlinked
<1> QED
  BY <1>3, <1>8

LEMMA FileRemoved ==
    ASSUME ContentInv, CountersInv', NEW a \in Path,
           file' = [file EXCEPT ![a] = NoInode], temp' = temp, Store(data)
    PROVE  DiskBytes' = DiskBytes - LenOf(file[a])
<1>1. CountersInv /\ file \in [Path -> Inode \cup {NoInode}]
  BY DEF ContentInv, CountersInv, DiskOK
<1>2. file'[a] = NoInode /\ \A q \in Path : q # a => file'[q] = file[q]
  BY <1>1
<1>3. PICK k \in Inode \cup {NoInode} : k = file[a]
  BY <1>1
<1>4. k # NoInode => Linked(k)
  BY <1>3 DEF Linked
<1>5. \A i \in Inode : i # NoInode
  BY DEF Inode, NoInode
<1>6. \A i \in Inode : Linked(i)' <=> (Linked(i) /\ i # k)
  BY <1>2, <1>3, <1>5 DEF Linked, ContentInv, NamesDistinct
<1>7. DiskBytes' = DiskBytes - LenOf(k)
  BY <1>1, <1>4, <1>6, Unlinked
<1> QED
  BY <1>3, <1>7

LEMMA RunningJobQuota ==
    ASSUME QuotaInv, ContentInv', NEW w \in DOMAIN jobs,
           rm_unlink(w) \/ rename_act(w) \/ quota_refund(w)
    PROVE  QuotaInv'
<1>1. /\ ContentInv /\ CountersInv /\ CountersInv' /\ NumbersOK /\ NumbersOK' /\ loop.pc # "boot"
  BY Numbers, NumbersAfter DEF QuotaInv, ContentInv, Booting
<1>2. PICK j \in Job : j = jobs[w]
  BY <1>1 DEF CountersInv, JobsOK
<1>3. PICK a \in Path, b \in Path : a = j.from /\ b = j.to
  BY DEF Job
<1>7. \A x \in Path : LenOf(file[x]) \in Nat
  BY <1>1, NameLengths
<1>8. CASE rm_unlink(w)
  <2>1. /\ j.op = "rm" /\ j.pc = "act" /\ file' = [file EXCEPT ![a] = NoInode]
        /\ UNCHANGED <<temp, used_bytes, in_flight_bytes, streams, loop>> /\ Store(data)
        /\ (jobs' = [jobs EXCEPT ![w].pc = "refund"] \/ jobs' = Without(jobs, w))
    BY <1>2, <1>3, <1>8 DEF rm_unlink, userVars
  <2>2. DiskBytes' = DiskBytes - LenOf(file[a])
    BY <1>1, <2>1, FileRemoved
  <2>3. Victim(jobs[w]) = a
    BY <1>2, <1>3, <2>1 DEF Victim
  <2>4. FreeEmpty'
    BY <2>1, StoreFrees
  <2>5. \A x \in Path : x # a => LenOf(file[x])' = LenOf(file[x])
    BY <1>1, <2>1, NamedKept DEF CountersInv, DiskOK
  <2> QED
    BY <1>2, <1>3, <1>7, <2>1, <2>2, <2>3, <2>4, <2>5, ActedQuota
<1>9. CASE rename_act(w)
  <2>1. /\ j.op = "rename" /\ j.pc = "act"
        /\ UNCHANGED <<temp, used_bytes, in_flight_bytes, streams, loop>> /\ Store(data)
    BY <1>2, <1>9 DEF rename_act, userVars
  <2>2. FreeEmpty'
    BY <2>1, StoreFrees
  <2>3. CASE /\ file' = file
             /\ \/ jobs' = Without(jobs, w)
                \/ a = b /\ jobs' = [jobs EXCEPT ![w].pc = "refund"]
    <3>1. DiskBytes' = DiskBytes
      BY <1>1, <2>1, <2>3, NoNameMoved
    <3>2. DiskBytes' = DiskBytes - 0
      BY <1>1, <3>1 DEF NumbersOK
    <3>3. a = b => j.size = 0
      BY <1>2, <1>3, <2>1 DEF QuotaInv, SelfRename
    <3>4. \A x \in Path : LenOf(file[x])' = LenOf(file[x])
      BY <1>1, <2>1, <2>3, NamedKept
    <3> QED
      BY <1>2, <2>1, <2>2, <2>3, <3>2, <3>3, <3>4, ActedQuota
  <2>5. CASE /\ a # b /\ file[a] # NoInode /\ jobs' = [jobs EXCEPT ![w].pc = "refund"]
             /\ file' = [file EXCEPT ![b] = file[a], ![a] = NoInode]
    <3>1. DiskBytes' = DiskBytes - LenOf(file[b])
      BY <1>1, <2>1, <2>5, FileMoved
    <3>2. Victim(jobs[w]) = b
      BY <1>2, <1>3, <2>1 DEF Victim
    <3>3. \A x \in Path : x \notin {a, b} => LenOf(file[x])' = LenOf(file[x])
      BY <1>1, <2>1, <2>5, NamedKept DEF CountersInv, DiskOK
    <3> QED
      BY <1>2, <1>3, <1>7, <2>1, <2>2, <2>5, <3>1, <3>2, <3>3, ActedQuota
  <2> QED
    BY <1>2, <1>3, <1>9, <2>3, <2>5 DEF rename_act
<1>10. CASE quota_refund(w)
  <2>1. /\ j.pc = "refund" /\ jobs' = Without(jobs, w)
        /\ UNCHANGED <<file, temp, data, in_flight_bytes, streams, loop>>
        /\ used_bytes' = SaturatingSub(used_bytes, j.size)
    BY <1>2, <1>10 DEF quota_refund, diskVars
  <2>2. \A x \in Path : LenOf(file[x])' = LenOf(file[x])
    BY <2>1 DEF LenOf
  <2>3. /\ SelfRename' /\ Apart' /\ OwedBytes' = OwedBytes - j.size + 0
    <3>1. /\ SelfRename' /\ Apart'
          /\ OwedBytes' = OwedBytes - Owed[w] + Owed'[w]
          /\ Owed[w] = Owes(jobs[w])
          /\ Owed'[w] = IF jobs' = Without(jobs, w) THEN 0 ELSE jobs[w].size
      BY <2>1, <2>2, JobAdvances
    <3>2. Owes(jobs[w]) = j.size
      BY <1>2, <2>1 DEF Owes
    <3> QED
      BY <2>1, <3>1, <3>2
  <2>4. DiskBytes' = DiskBytes /\ FreeEmpty'
    BY <2>1, NothingMoved DEF QuotaInv, FreeEmpty, InUse
  <2>5. PICK u \in Nat, u2 \in Nat, d \in Nat, o \in Nat, m \in Nat :
          /\ u = used_bytes /\ u2 = used_bytes' /\ d = DiskBytes /\ o = OwedBytes /\ m = j.size
    BY <1>1 DEF NumbersOK, Job
  <2>6. u2 <= u /\ u2 + d + o >= u + d + (o - m + 0)
    BY <2>1, <2>5 DEF SaturatingSub
  <2>7. /\ used_bytes' <= used_bytes /\ DiskBytes' <= DiskBytes
        /\ used_bytes' + DiskBytes + OwedBytes >= used_bytes + DiskBytes' + OwedBytes'
    BY <2>3, <2>4, <2>5, <2>6
  <2> QED
    BY <1>1, <2>1, <2>3, <2>4, <2>7, HandlerQuota
<1> QED
  BY <1>8, <1>9, <1>10
-----------------------------------------------------------------------------
(***************************************************************************)
(* The quota: the restart, and the walk that counts the home again.        *)
(***************************************************************************)

LEMMA CountedType ==
    ASSUME CountersInv, NEW S
    PROVE  Counted(S) \in [Inode -> Nat]
<1>1. \A i \in Inode : Len(data[i]) \in Nat
  BY DEF CountersInv, DiskOK, Content
<1> QED
  BY <1>1 DEF Counted

\* One more path adds the lengths of its file and its partial: they are two
\* different files and no path already counted has either.
LEMMA CountOneMore ==
    ASSUME CountersInv, NamesDistinct, NEW S \in SUBSET Path, NEW p \in Path \ S
    PROVE  /\ Total(Counted(S), MaxInodes) \in Nat
           /\ LenOf(file[p]) \in Nat /\ LenOf(temp[p]) \in Nat
           /\ Total(Counted(S \cup {p}), MaxInodes)
                = Total(Counted(S), MaxInodes) + LenOf(file[p]) + LenOf(temp[p])
<1>1. PICK f \in [Inode -> Nat], h \in [Inode -> Nat] : f = Counted(S) /\ h = Counted(S \cup {p})
  BY CountedType
<1>2. PICK a \in Inode \cup {NoInode}, b \in Inode \cup {NoInode} : a = file[p] /\ b = temp[p]
  BY DEF CountersInv, DiskOK
<1>3. PICK m \in Nat, n \in Nat : m = LenOf(a) /\ n = LenOf(b)
  BY LenOfType DEF CountersInv
<1>4. PICK g : g = [i \in Inode |-> IF i = a THEN m ELSE f[i]]
  OBVIOUS
<1>5. g \in [Inode -> Nat] /\ \A i \in Inode : i # NoInode
  BY <1>4 DEF Inode, NoInode
<1>6. /\ a \in Inode => f[a] = 0 /\ g[a] = m /\ h[a] = m
      /\ b \in Inode => f[b] = 0 /\ g[b] = 0 /\ h[b] = n
      /\ \A i \in Inode : i # a /\ i # b => h[i] = f[i]
      /\ \A i \in Inode : i # a => g[i] = f[i]
  <2>1. \A q \in S : q \in Path /\ q # p
    OBVIOUS
  <2>2. a \in Inode => /\ \A q \in S : file[q] # a /\ temp[q] # a
                       /\ a # b
    BY <1>2, <1>5, <2>1 DEF NamesDistinct
  <2>3. b \in Inode => \A q \in S : file[q] # b /\ temp[q] # b
    BY <1>2, <1>5, <2>1 DEF NamesDistinct
  <2>4. a \in Inode => f[a] = 0 /\ h[a] = m
    BY <1>1, <1>2, <1>3, <1>5, <2>2 DEF Counted, LenOf
  <2>5. b \in Inode => f[b] = 0 /\ h[b] = n
    BY <1>1, <1>2, <1>3, <1>5, <2>3 DEF Counted, LenOf
  <2>6. \A i \in Inode : i # a /\ i # b => h[i] = f[i]
    BY <1>1, <1>2 DEF Counted
  <2>7. b \in Inode => b # a
    BY <2>2
  <2> QED
    BY <1>4, <2>4, <2>5, <2>6, <2>7
<1>7. PICK x \in Nat, y \in Nat, z \in Nat :
        x = Total(f, MaxInodes) /\ y = Total(g, MaxInodes) /\ z = Total(h, MaxInodes)
  BY <1>5, TotalNat, UploadAssumption DEF Inode
<1>8. y = x + m
  <2>1. CASE a = NoInode
    <3>1. g = f
      BY <1>4, <1>5, <2>1
    <3> QED
      BY <1>3, <1>7, <2>1, <3>1 DEF LenOf
  <2>2. CASE a # NoInode
    <3>1. y = x - f[a] + g[a]
      BY <1>2, <1>5, <1>6, <1>7, <2>2, InodeUpdate
    <3> QED
      BY <1>6, <2>2, <3>1
  <2> QED
    BY <2>1, <2>2
<1>9. z = y + n
  <2>0. \A i \in Inode : i # b => h[i] = g[i]
    BY <1>6
  <2>1. CASE b = NoInode
    <3>1. h = g
      BY <1>5, <2>0, <2>1
    <3> QED
      BY <1>3, <1>7, <2>1, <3>1 DEF LenOf
  <2>2. CASE b # NoInode
    <3>1. z = y - g[b] + h[b]
      BY <1>2, <1>5, <1>7, <2>0, <2>2, InodeUpdate
    <3> QED
      BY <1>6, <2>2, <3>1
  <2> QED
    BY <2>1, <2>2
<1>10. z = x + m + n
  BY <1>8, <1>9
<1> QED
  BY <1>1, <1>2, <1>3, <1>7, <1>10

LEMMA NothingOwed == ASSUME DOMAIN jobs' = {} PROVE OwedBytes' = 0
<1>1. PICK f : f = Owed'
  OBVIOUS
<1>2. f \in [1..NWorkers -> Nat] /\ \A w \in 1..NWorkers : f[w] = 0
  BY <1>1 DEF Owed, Workers
<1>3. Total(f, NWorkers) = 0
  BY <1>2, TotalZero, UploadAssumption
<1> QED
  BY <1>1, <1>3 DEF OwedBytes

LEMMA WalkQuota ==
    ASSUME QuotaInv, ContentInv', NEW p \in loop.uncounted, walk_size(p)
    PROVE  QuotaInv'
<1>1. /\ ContentInv /\ CountersInv /\ CountersInv' /\ NumbersOK /\ NumbersOK' /\ Quota \in Nat
      /\ UNCHANGED <<file, temp, data, in_flight_bytes, streams, jobs>> /\ loop.pc = "boot"
  BY Numbers, NumbersAfter, UploadAssumption DEF QuotaInv, ContentInv, walk_size, diskVars
<1>2. Booting /\ loop.uncounted \subseteq Path
  BY <1>1 DEF QuotaInv, CountersInv, LoopOK, Loop
<1>3. PICK S \in SUBSET Path : S = Path \ loop.uncounted
  OBVIOUS
<1>4. used_bytes' = Total(Counted(S \cup {p}), MaxInodes)
  <2>1. used_bytes = Total(Counted(S), MaxInodes) /\ p \in Path \ S
    BY <1>2, <1>3 DEF Booting
  <2>2. used_bytes' = used_bytes + LenOf(file[p]) + LenOf(temp[p])
    BY DEF walk_size
  <2> QED
    BY <1>1, <2>1, <2>2, CountOneMore DEF ContentInv
<1>5. UnchargedBytes' = UnchargedBytes /\ DiskBytes' = DiskBytes
  BY <1>1, NothingMoved DEF UnchargedBytes, Uncharged
<1>6. FreeEmpty' /\ SelfRename' /\ Apart' /\ DiskBytes' <= Quota
  BY <1>1, <1>5 DEF QuotaInv, FreeEmpty, InUse, SelfRename, Apart
<1>7. CASE loop.uncounted = {p}
  <2>1. loop'.pc = "idle"
    BY <1>7, IdleOK DEF walk_size
  <2>2. Counted(S \cup {p}) = Occupied
    BY <1>2, <1>3, <1>7 DEF Counted, Occupied, Linked
  <2>3. used_bytes' = DiskBytes
    BY <1>4, <2>2 DEF DiskBytes
  <2>4. PICK c \in Nat, d \in Nat : c = UnchargedBytes /\ d = DiskBytes
    BY <1>1 DEF NumbersOK
  <2>5. d + c >= d + 0 /\ d + 0 <= Quota
    BY <1>1, <2>4 DEF QuotaInv
  <2>6. DOMAIN jobs' = {} /\ in_flight_bytes' = 0
    BY <1>1, <1>2 DEF Booting
  <2>7. OwedBytes' = 0
    BY <2>6, NothingOwed
  <2>8. Running'
    BY <1>5, <2>3, <2>4, <2>5, <2>6, <2>7 DEF Running
  <2> QED
    BY <1>6, <2>1, <2>8 DEF QuotaInv
<1>8. CASE loop.uncounted # {p}
  <2>1. loop'.pc = "boot" /\ loop'.uncounted = loop.uncounted \ {p}
    BY <1>1, <1>8 DEF walk_size, CountersInv, LoopOK, Loop
  <2>2. Path \ loop'.uncounted = S \cup {p}
    BY <1>2, <1>3, <2>1
  <2>3. Counted(Path \ loop.uncounted)' = Counted(S \cup {p})
    BY <1>1, <2>2 DEF Counted
  <2>4. Booting'
    BY <1>1, <1>2, <1>4, <2>3 DEF Booting
  <2> QED
    BY <1>6, <2>1, <2>4 DEF QuotaInv
<1> QED
  BY <1>7, <1>8

LEMMA RestartQuota ==
    ASSUME QuotaInv, ContentInv', NEW lost \in SUBSET DOMAIN streams, NEW stale, crash_and_sweep(lost, stale)
    PROVE  QuotaInv'
<1>1. /\ CountersInv /\ CountersInv' /\ NumbersOK /\ NumbersOK' /\ Quota \in Nat
  BY Numbers, NumbersAfter, UploadAssumption DEF QuotaInv, ContentInv
<1>2. /\ \A p \in Path : temp'[p] \in {temp[p], NoInode}
      /\ file' = file /\ used_bytes' = 0 /\ in_flight_bytes' = 0
      /\ DOMAIN streams' = {} /\ DOMAIN jobs' = {} /\ loop'.pc = "boot" /\ loop'.uncounted = Path
      /\ Store(LastChunkLost(lost))
  BY DEF crash_and_sweep
<1>3. \A i \in Inode : Len(LastChunkLost(lost)[i]) <= Len(data[i])
  <2> SUFFICES ASSUME NEW i \in Inode PROVE Len(LastChunkLost(lost)[i]) <= Len(data[i])
    OBVIOUS
  <2>1. PICK d \in Content : d = data[i]
    BY <1>1 DEF CountersInv, DiskOK
  <2>2. Len(d) \in Nat
    BY DEF Content
  <2>3. LastChunkLost(lost)[i] = d \/ (Len(d) > 0 /\ LastChunkLost(lost)[i] = SubSeq(d, 1, Len(d) - 1))
    <3>1. \A s \in lost : streams[s].prior \in Nat
      BY <1>1, StreamFields
    <3>2. LastChunkLost(lost)[i] =
            IF \E s \in lost : streams[s].inode = i /\ Len(d) > streams[s].prior
            THEN SubSeq(d, 1, Len(d) - 1) ELSE d
      BY <2>1 DEF LastChunkLost
    <3> QED
      BY <2>2, <3>1, <3>2
  <2>4. Len(d) > 0 => Len(SubSeq(d, 1, Len(d) - 1)) = Len(d) - 1
    <3>1. PICK n \in Nat : n = Len(d) /\ d \in Seq(Versions \cup {Hole})
      BY <2>2 DEF Content
    <3> QED
      BY <3>1
  <2> QED
    BY <2>1, <2>2, <2>3, <2>4
<1>4. DiskBytes' <= DiskBytes
  <2>1. \A i \in Inode : Linked(i)' => Linked(i)
    BY <1>2 DEF Linked, Inode, NoInode
  <2>2. \A i \in Inode : Occupied'[i] = IF Linked(i)' THEN Len(LastChunkLost(lost)[i]) ELSE 0
    BY <1>2, OccupiedAfter
  <2>3. \A i \in Inode : Occupied'[i] <= Occupied[i]
    <3>1. \A i \in Inode : Len(data[i]) \in Nat
      BY <1>1 DEF CountersInv, DiskOK, Content
    <3> QED
      BY <1>3, <2>1, <2>2, <3>1 DEF Occupied
  <2>4. PICK f \in [Inode -> Nat], g \in [Inode -> Nat] : f = Occupied' /\ g = Occupied
    BY <1>1 DEF NumbersOK
  <2>5. Total(f, MaxInodes) <= Total(g, MaxInodes)
    BY <2>3, <2>4, TotalMonotone, UploadAssumption DEF Inode
  <2> QED
    BY <2>4, <2>5 DEF DiskBytes
<1>5. DiskBytes' <= Quota
  <2>1. PICK d \in Nat, d2 \in Nat : d = DiskBytes /\ d2 = DiskBytes'
    BY <1>1 DEF NumbersOK
  <2>2. d2 <= d /\ d <= Quota
    BY <1>4, <2>1 DEF QuotaInv
  <2>3. d2 <= Quota
    BY <1>1, <2>2
  <2> QED
    BY <2>1, <2>3
<1>6. Total(Counted(Path \ loop.uncounted), MaxInodes)' = 0
  <2>1. PICK f : f = Counted(Path \ loop.uncounted)'
    OBVIOUS
  <2>2. f \in [Inode -> Nat] /\ \A i \in Inode : f[i] = 0
    BY <1>2, <2>1 DEF Counted
  <2>3. Total(f, MaxInodes) = 0
    BY <2>2, TotalZero, UploadAssumption DEF Inode
  <2> QED
    BY <2>1, <2>3
<1>7. Booting'
  BY <1>2, <1>6 DEF Booting
<1>8. FreeEmpty' /\ SelfRename' /\ Apart'
  BY <1>2, StoreFrees DEF SelfRename, Apart
<1> QED
  BY <1>2, <1>5, <1>7, <1>8 DEF QuotaInv

LEMMA InitQuota == Init => QuotaInv
<1> SUFFICES ASSUME Init PROVE QuotaInv
  OBVIOUS
<1>1. ContentInv /\ CountersInv /\ NumbersOK
  BY InitContent, InitCounters, Numbers
<1>2. /\ loop.pc = "idle" /\ DOMAIN jobs = {} /\ used_bytes = 0 /\ in_flight_bytes = 0
      /\ \A i \in Inode : data[i] = <<>>
  BY IdleOK DEF Init
<1>3. DiskBytes = 0
  <2>1. \A i \in Inode : Occupied[i] = 0
    BY <1>2 DEF Occupied
  <2> QED
    BY <1>1, <2>1, TotalZero, UploadAssumption DEF DiskBytes, Inode, NumbersOK
<1>4. OwedBytes = 0
  <2>1. \A w \in Workers : Owed[w] = 0
    BY <1>2 DEF Owed
  <2> QED
    BY <1>1, <2>1, TotalZero, UploadAssumption DEF OwedBytes, Workers, NumbersOK
<1>5. FreeEmpty /\ SelfRename /\ Apart /\ Running /\ DiskBytes <= Quota
  BY <1>1, <1>2, <1>3, <1>4, UploadAssumption DEF FreeEmpty, SelfRename, Apart, Running, NumbersOK
<1> QED
  BY <1>1, <1>2, <1>5 DEF QuotaInv

LEMMA NextQuota ==
    ASSUME MutDirs = {}, QuotaInv, [Next]_vars, ~overlapped'
    PROVE  QuotaInv'
<1>0. ContentInv'
  BY NextContent DEF QuotaInv
<1>1. ASSUME NEW s \in StreamId, NEW p \in Path, NEW size \in 0..MaxFile,
             NEW v \in Versions, NEW opt \in Options,
             start_put_fresh(s, p, size, v, opt) \/ start_put_resume(s, p, size, v, opt)
      PROVE  QuotaInv'
  BY <1>0, <1>1, StartFreshQuota, StartResumeQuota
<1>2. CASE UNCHANGED vars
  <2>1. UNCHANGED <<file, temp, data, used_bytes, in_flight_bytes, streams, loop, jobs>>
    BY <1>2 DEF vars, diskVars, userVars
  <2>2. Uncharged' = Uncharged /\ \A j \in Inode : InUse(j) => InUse(j)'
    BY <2>1 DEF Uncharged, InUse
  <2>3. CASE loop.pc # "boot"
    BY <1>0, <2>1, <2>2, <2>3, QuietQuota
  <2>4. CASE loop.pc = "boot"
    <3>1. Counted(Path \ loop.uncounted)' = Counted(Path \ loop.uncounted)
      BY <2>1 DEF Counted
    <3>2. Booting' /\ DiskBytes' = DiskBytes
      BY <2>1, <2>4, <3>1, NothingMoved DEF QuotaInv, Booting
    <3>3. FreeEmpty' /\ SelfRename' /\ Apart'
      BY <2>1 DEF QuotaInv, FreeEmpty, InUse, SelfRename, Apart
    <3> QED
      BY <1>0, <2>1, <2>4, <3>2, <3>3 DEF QuotaInv
  <2> QED
    BY <2>3, <2>4
<1>3. ASSUME NEW lost \in SUBSET DOMAIN streams, NEW stale, crash_and_sweep(lost, stale)
      PROVE  QuotaInv'
  BY <1>0, <1>3, RestartQuota
<1>4. ASSUME NEW p \in loop.uncounted, walk_size(p) PROVE QuotaInv'
  BY <1>0, <1>4, WalkQuota
<1>5. ASSUME NEW w \in DOMAIN jobs, rm_unlink(w) \/ rename_act(w) \/ quota_refund(w)
      PROVE  QuotaInv'
  BY <1>0, <1>5, RunningJobQuota
<1>6. ASSUME NEW s \in DOMAIN streams, PutStep(s) PROVE QuotaInv'
  BY <1>0, <1>6, PutStepQuota
<1>7. ASSUME NEW w \in Workers, \/ \E p \in Removes : rm_stat(w, p)
                               \/ \E r \in Renames : rename_stat(w, r[1], r[2])
      PROVE  QuotaInv'
  <2>1. CASE \E p \in Removes : rm_stat(w, p)
    BY <1>0, <2>1, NewJobQuota, UploadAssumption DEF Path
  <2>2. CASE \E r \in Renames : rename_stat(w, r[1], r[2])
    BY <1>0, <2>2, NewJobQuota, UploadAssumption DEF Path
  <2> QED
    BY <1>7, <2>1, <2>2
<1> QED
  BY <1>1, <1>2, <1>3, <1>4, <1>5, <1>6, <1>7 DEF Next

QuotaUnlessOverlapped == overlapped \in BOOLEAN /\ (overlapped \/ QuotaInv)

LEMMA QuotaInvariant == MutDirs = {} /\ Spec => []QuotaUnlessOverlapped
<1>1. CASE MutDirs = {}
  <2>1. QuotaUnlessOverlapped /\ [Next]_vars => QuotaUnlessOverlapped'
    BY <1>1, NextQuota, OverlapKept DEF QuotaUnlessOverlapped
  <2>2. Init => QuotaUnlessOverlapped
    BY InitQuota DEF QuotaUnlessOverlapped, Init
  <2> QED
    BY <2>1, <2>2, PTL DEF Spec
<1> QED
  BY <1>1

\* For any number of uploads, any number of handler threads and any quota, as
\* long as clients leave the directories alone: once the start-up walk is done,
\* the cached usage and what the open uploads wrote cover every byte on disk,
\* whatever was aborted, rejected, resumed, removed, renamed over or counted
\* again after a crash, up to the first time two handler threads have the same
\* file in hand between reading its size and refunding it.
THEOREM UsageCovered == MutDirs = {} /\ Spec => []UsageNeverUndercounts
<1>1. QuotaUnlessOverlapped => UsageNeverUndercounts
  <2> SUFFICES ASSUME QuotaInv, loop.pc # "boot" PROVE used_bytes + UnchargedBytes >= DiskBytes
    BY DEF QuotaUnlessOverlapped, UsageNeverUndercounts
  <2>1. NumbersOK /\ Running
    BY Numbers DEF QuotaInv, ContentInv
  <2> QED
    BY <2>1 DEF NumbersOK, Running
<1> QED
  BY <1>1, QuotaInvariant, PTL

\* Under the same conditions, the files and the partials of the home never
\* occupy more than the quota: not between a check and its reservation, not
\* while a resumed partial is both old usage and new upload, not while several
\* threads remove and rename other files, not after a crash.
THEOREM DiskStaysWithinQuota == MutDirs = {} /\ Spec => []DiskWithinQuota
<1>1. QuotaUnlessOverlapped => DiskWithinQuota
  BY DEF QuotaUnlessOverlapped, QuotaInv, DiskWithinQuota
<1> QED
  BY <1>1, QuotaInvariant, PTL
=============================================================================
