---------------------------- MODULE BridgeProofs ----------------------------
(***************************************************************************)
(* Proofs about the uploads and downloads of the web bridge, for any       *)
(* number of streams, paths, blocks and worker threads.  The properties    *)
(* say which meeting of two streams they stop at, by the history variables *)
(* overtaken, outlived and torn; up to that step they hold whatever the    *)
(* interleaving.                                                           *)
(***************************************************************************)
EXTENDS Bridge, FiniteSetTheorems, TLAPS

-----------------------------------------------------------------------------
(***************************************************************************)
(* Types.                                                                  *)
(***************************************************************************)

\* Before the temp file is opened, and from the open to the end of a Put.
PreOpen == {"none", "reserve", "load_used", "load_in_flight", "resolve", "claim", "open"}
Settled == {"settle_in_flight", "settle_used", "reply", "done"}
Holding == {"open", "open_failed", "body", "commit", "settle_in_flight", "settle_used",
            "reply", "drop_claim"}
Places == PreOpen \cup Holding \cup MidSegment \cup
          {"refused", "open_reply", "done", "get_open", "get_send"}

Task == [pc : Places, path : Paths \cup {NoInode}, size : Nat, noClobber : BOOLEAN,
         sumOk : BOOLEAN, loaded : Int, ino : Inodes \cup {NoInode}, sent : Nat,
         pending : Nat, opened : BOOLEAN, written : Int, got : Seq(Tasks \cup {Hole})]

TypeInv ==
  /\ t \in [Tasks -> Task]
  /\ temp \in [Paths -> Inodes \cup {NoInode}]
  /\ final \in [Paths -> Inodes \cup {NoInode}]
  /\ content \in [Inodes -> [Blocks -> Tasks \cup {Hole}]]
  /\ flen \in [Inodes -> 0..MaxSize]
  /\ used \in Int /\ inFlight \in Int

\* What the fields of a stream mean at its place.
FieldInv(u) ==
  /\ t[u].pc # "none" => t[u].path \in Paths /\ t[u].size \in 0..MaxSize
  /\ t[u].pc \in PreOpen => t[u].sent = 0 /\ t[u].pending = 0 /\ t[u].opened
  /\ t[u].pc \in {"body", "commit"} => t[u].ino \in Inodes /\ t[u].opened
  /\ t[u].pending # 0 => t[u].ino \in Inodes /\ t[u].pending = t[u].sent /\ t[u].opened
  /\ t[u].pc = "commit" => t[u].sumOk /\ t[u].sent = t[u].size
  /\ t[u].pc = "get_open" => t[u].sent = 0 /\ t[u].got = <<>>
  /\ t[u].sent <= t[u].size
  /\ t[u].pc \in {"commit", "refused", "open_failed", "open_reply", "get_open", "get_send"}
       => t[u].pending = 0
  /\ t[u].pc = "open_reply" => ~t[u].opened

-----------------------------------------------------------------------------
(***************************************************************************)
(* The claim.                                                              *)
(***************************************************************************)

\* A path has one holder, and while the clean-up of an opened temp is under
\* way, none.
ClaimInv ==
  /\ \A u \in Tasks : t[u].pc \in Holding => t[u].path \in claims
  /\ \A u, v \in Tasks : t[u].pc \in Holding /\ t[v].pc \in Holding /\ t[u].path = t[v].path
                           => u = v
  /\ \A u, v \in Tasks :
       t[u].pc \in {"drop_stat", "drop_remove"} /\ t[u].opened /\ t[v].pc \in Holding
         => t[u].path # t[v].path

-----------------------------------------------------------------------------
(***************************************************************************)
(* Inodes.                                                                 *)
(***************************************************************************)

\* The stream has an inode open that it writes, or may still write, to.
Own(u) == t[u].pc \in {"body", "commit"} \/ t[u].pending # 0

\* The inode is, or may still be, read.
Frozen(i) == \/ \E p \in Paths : final[p] = i
             \/ \E u \in Tasks : t[u].pc = "get_send" /\ t[u].ino = i

InodeInv ==
  /\ \A u, v \in Tasks : Own(u) /\ Own(v) /\ t[u].ino = t[v].ino => u = v
  /\ \A u \in Tasks, p \in Paths : Own(u) /\ temp[p] = t[u].ino =>
       /\ p = t[u].path
       /\ t[u].pc \in {"body", "commit", "drop_claim", "drop_stat", "drop_remove"}
  /\ \A u \in Tasks : Own(u) => ~Frozen(t[u].ino)
  /\ \A u \in Tasks : t[u].pc \in PreOpen =>
       /\ ~Frozen(u)
       /\ \A p \in Paths : temp[p] # u
       /\ \A v \in Tasks : Own(v) => t[v].ino # u
  /\ \A p, q \in Paths : temp[p] = temp[q] /\ temp[p] # NoInode => p = q
  /\ \A p \in Paths : temp[p] # NoInode => ~Frozen(temp[p])

\* The temp name stays on the inode of the upload that holds the claim.
TempInv ==
  \A u \in Tasks : t[u].pc \in {"body", "commit"} =>
    \/ temp[t[u].path] = t[u].ino
    \/ temp[t[u].path] = NoInode /\ \E v \in Tasks : ~t[v].opened /\ t[v].path = t[u].path

-----------------------------------------------------------------------------
(***************************************************************************)
(* Contents.                                                               *)
(***************************************************************************)

\* The whole body of an upload that was committed, or the file of the start.
Committed(i) == \/ i = Old /\ \A k \in Blocks : content[i][k] = Hole
                \/ \E u \in Tasks :
                     /\ t[u].pc \in Settled /\ t[u].ino = i /\ t[u].sumOk /\ t[u].size = flen[i]
                     /\ \A k \in 1..flen[i] : content[i][k] = u

ContentInv ==
  /\ \A u \in Tasks : t[u].pc \in {"body", "commit"} =>
       /\ flen[t[u].ino] = IF t[u].pending = 0 THEN t[u].sent ELSE t[u].sent - 1
       /\ \A k \in 1..flen[t[u].ino] : content[t[u].ino][k] = u
  /\ \A i \in Inodes : Frozen(i) => Committed(i)
  /\ \A u \in Tasks : t[u].pc = "get_send" =>
       /\ t[u].ino \in Inodes /\ t[u].size = flen[t[u].ino]
       /\ Len(t[u].got) = t[u].sent /\ t[u].sent <= t[u].size
       /\ \A k \in 1..t[u].sent : t[u].got[k] = content[t[u].ino][k]

BridgeInv == /\ TypeInv
             /\ \A u \in Tasks : FieldInv(u)
             /\ ClaimInv /\ InodeInv /\ TempInv /\ ContentInv
-----------------------------------------------------------------------------
(***************************************************************************)
(* What a step does to the record of its stream.                           *)
(***************************************************************************)

\* Only the record of u changes, and of it not what the file system sees.
Others(u) == \A v \in Tasks : v # u => t'[v] = t[v]

Same(u) == /\ t'[u].path = t[u].path /\ t'[u].size = t[u].size /\ t'[u].sumOk = t[u].sumOk
           /\ t'[u].ino = t[u].ino /\ t'[u].sent = t[u].sent
           /\ t'[u].pending = t[u].pending /\ t'[u].got = t[u].got

LEMMA Update ==
  ASSUME TypeInv, NEW u \in Tasks, NEW r \in Task, t' = [t EXCEPT ![u] = r]
  PROVE  t' \in [Tasks -> Task] /\ Others(u) /\ t'[u] = r
BY DEF TypeInv, Others

LEMMA Goto ==
  ASSUME TypeInv, NEW u \in Tasks, NEW pc \in Places, goto(u, pc)
  PROVE  /\ t' \in [Tasks -> Task] /\ Others(u) /\ Same(u)
         /\ t'[u].pc = pc /\ t'[u].opened = t[u].opened
<1>1. PICK r \in Task : r = t[u]
  BY DEF TypeInv
<1>2. PICK s : s = [r EXCEPT !.pc = pc]
  OBVIOUS
<1>3. s \in Task
  BY <1>2 DEF Task
<1>4. t' = [t EXCEPT ![u] = s]
  BY <1>1, <1>2 DEF goto
<1>5. t' \in [Tasks -> Task] /\ Others(u) /\ t'[u] = s
  BY <1>3, <1>4, Update
<1>6. /\ s.pc = pc /\ s.path = r.path /\ s.size = r.size /\ s.sumOk = r.sumOk /\ s.ino = r.ino
      /\ s.sent = r.sent /\ s.pending = r.pending /\ s.got = r.got /\ s.opened = r.opened
  BY <1>2 DEF Task
<1> QED
  BY <1>1, <1>5, <1>6 DEF Same

LEMMA LoadUsedRecord ==
  ASSUME TypeInv, NEW u \in Tasks, load_used(u)
  PROVE  /\ t' \in [Tasks -> Task] /\ Others(u) /\ Same(u)
         /\ t'[u].pc = "load_in_flight" /\ t'[u].opened = t[u].opened
<1>1. PICK r \in Task : r = t[u]
  BY DEF TypeInv
<1>2. PICK s : s = [r EXCEPT !.pc = "load_in_flight", !.loaded = used]
  OBVIOUS
<1>3. s \in Task
  BY <1>2 DEF Task, Places, PreOpen, TypeInv
<1>4. t' = [t EXCEPT ![u] = s]
  BY <1>1, <1>2 DEF load_used
<1>5. t' \in [Tasks -> Task] /\ Others(u) /\ t'[u] = s
  BY <1>3, <1>4, Update
<1>6. /\ s.pc = "load_in_flight" /\ s.path = r.path /\ s.size = r.size /\ s.sumOk = r.sumOk
      /\ s.ino = r.ino /\ s.sent = r.sent /\ s.pending = r.pending /\ s.got = r.got
      /\ s.opened = r.opened
  BY <1>2 DEF Task
<1> QED
  BY <1>1, <1>5, <1>6 DEF Same

LEMMA OpenFailedRecord ==
  ASSUME TypeInv, NEW u \in Tasks, open_failed(u)
  PROVE  /\ t' \in [Tasks -> Task] /\ Others(u) /\ Same(u)
         /\ t'[u].pc = "open_reply" /\ t'[u].opened = FALSE
<1>1. PICK r \in Task : r = t[u]
  BY DEF TypeInv
<1>2. PICK s : s = [r EXCEPT !.pc = "open_reply", !.opened = FALSE]
  OBVIOUS
<1>3. s \in Task
  BY <1>2 DEF Task, Places
<1>4. t' = [t EXCEPT ![u] = s]
  BY <1>1, <1>2 DEF open_failed
<1>5. t' \in [Tasks -> Task] /\ Others(u) /\ t'[u] = s
  BY <1>3, <1>4, Update
<1>6. /\ s.pc = "open_reply" /\ s.path = r.path /\ s.size = r.size /\ s.sumOk = r.sumOk
      /\ s.ino = r.ino /\ s.sent = r.sent /\ s.pending = r.pending /\ s.got = r.got
      /\ s.opened = FALSE
  BY <1>2 DEF Task
<1> QED
  BY <1>1, <1>5, <1>6 DEF Same

LEMMA DropStatRecord ==
  ASSUME TypeInv, NEW u \in Tasks, t[u].path \in Paths, drop_stat(u)
  PROVE  /\ t' \in [Tasks -> Task] /\ Others(u) /\ Same(u)
         /\ t'[u].pc = "drop_remove" /\ t'[u].opened = t[u].opened
         /\ used' \in Int
<1>1. PICK r \in Task : r = t[u]
  BY DEF TypeInv
<1>2. PICK n : /\ n = IF temp[r.path] = NoInode THEN 0 ELSE flen[temp[r.path]]
               /\ used' = used + n
               /\ t' = [t EXCEPT ![u] = [r EXCEPT !.pc = "drop_remove", !.written = n]]
  BY <1>1 DEF drop_stat
<1>3. n \in Int
  BY <1>1, <1>2 DEF TypeInv
<1>4. PICK s : s = [r EXCEPT !.pc = "drop_remove", !.written = n]
  OBVIOUS
<1>5. s \in Task
  BY <1>3, <1>4 DEF Task, Places, MidSegment
<1>6. t' \in [Tasks -> Task] /\ Others(u) /\ t'[u] = s
  BY <1>2, <1>4, <1>5, Update
<1>7. /\ s.pc = "drop_remove" /\ s.path = r.path /\ s.size = r.size /\ s.sumOk = r.sumOk
      /\ s.ino = r.ino /\ s.sent = r.sent /\ s.pending = r.pending /\ s.got = r.got
      /\ s.opened = r.opened
  BY <1>4 DEF Task
<1>8. used' \in Int
  BY <1>2, <1>3 DEF TypeInv
<1> QED
  BY <1>1, <1>6, <1>7, <1>8 DEF Same

LEMMA AcceptRecord ==
  ASSUME TypeInv, NEW u \in Tasks, NEW kind \in {"reserve", "get_open"}, accept_stream(u, kind)
  PROVE  /\ t' \in [Tasks -> Task] /\ Others(u) /\ t[u].pc = "none"
         /\ t'[u].pc = kind /\ t'[u].path \in Paths /\ t'[u].size \in Blocks
         /\ t'[u].sent = 0 /\ t'[u].pending = 0 /\ t'[u].opened = TRUE /\ t'[u].got = <<>>
<1>1. PICK p \in Paths, n \in Blocks, nc \in BOOLEAN, ok \in BOOLEAN :
        t' = [t EXCEPT ![u] = [NoTask EXCEPT !.pc = kind, !.path = p, !.size = n,
                                             !.noClobber = nc, !.sumOk = ok]]
  BY ZenonT(30) DEF accept_stream
<1>2. PICK s : s = [NoTask EXCEPT !.pc = kind, !.path = p, !.size = n,
                                  !.noClobber = nc, !.sumOk = ok]
  OBVIOUS
<1>3. s = [pc |-> kind, path |-> p, size |-> n, noClobber |-> nc,
           sumOk |-> ok, loaded |-> 0, ino |-> NoInode, sent |-> 0, pending |-> 0,
           opened |-> TRUE, written |-> 0, got |-> <<>>]
  BY <1>2 DEF NoTask
<1>4. n \in Nat /\ kind \in Places
  BY BridgeAssumption DEF Blocks, Places, PreOpen
<1>5. s \in Task
  BY <1>3, <1>4 DEF Task
<1>6. t' \in [Tasks -> Task] /\ Others(u) /\ t'[u] = s
  BY <1>1, <1>2, <1>5, Update
<1>7. /\ s.pc = kind /\ s.path = p /\ s.size = n /\ s.sent = 0 /\ s.pending = 0
      /\ s.opened = TRUE /\ s.got = <<>>
  BY <1>3
<1>8. t[u].pc = "none"
  BY DEF accept_stream
<1> QED
  BY <1>6, <1>7, <1>8

LEMMA OpenRecord ==
  ASSUME TypeInv, NEW u \in Tasks, NEW i \in Inodes,
         t' = [t EXCEPT ![u].pc = "body", ![u].ino = i]
  PROVE  /\ t' \in [Tasks -> Task] /\ Others(u)
         /\ t'[u].pc = "body" /\ t'[u].ino = i /\ t'[u].path = t[u].path
         /\ t'[u].size = t[u].size /\ t'[u].sumOk = t[u].sumOk /\ t'[u].sent = t[u].sent
         /\ t'[u].pending = t[u].pending /\ t'[u].opened = t[u].opened
<1>1. PICK r \in Task : r = t[u]
  BY DEF TypeInv
<1>2. PICK s : s = [r EXCEPT !.pc = "body", !.ino = i]
  OBVIOUS
<1>3. s \in Task
  BY <1>2 DEF Task, Places, Holding
<1>4. t' = [t EXCEPT ![u] = s]
  BY <1>1, <1>2
<1>5. t' \in [Tasks -> Task] /\ Others(u) /\ t'[u] = s
  BY <1>3, <1>4, Update
<1>6. /\ s.pc = "body" /\ s.path = r.path /\ s.size = r.size /\ s.sumOk = r.sumOk
      /\ s.ino = i /\ s.sent = r.sent /\ s.pending = r.pending /\ s.opened = r.opened
  BY <1>2 DEF Task
<1> QED
  BY <1>1, <1>5, <1>6

LEMMA ChunkRecord ==
  ASSUME TypeInv, NEW u \in Tasks, route_put_chunk(u)
  PROVE  /\ t' \in [Tasks -> Task] /\ Others(u)
         /\ t'[u].pc = t[u].pc /\ t'[u].ino = t[u].ino /\ t'[u].path = t[u].path
         /\ t'[u].size = t[u].size /\ t'[u].sumOk = t[u].sumOk
         /\ t'[u].sent = t[u].sent + 1 /\ t'[u].pending = t[u].sent + 1
         /\ t'[u].opened = t[u].opened
<1>1. PICK r \in Task : r = t[u]
  BY DEF TypeInv
<1>2. PICK s : s = [r EXCEPT !.sent = r.sent + 1, !.pending = r.sent + 1]
  OBVIOUS
<1>3. s \in Task
  <2>1. PICK n \in Nat : n = r.sent + 1
    BY DEF Task
  <2>2. s = [r EXCEPT !.sent = n, !.pending = n]
    BY <1>2, <2>1
  <2> QED
    BY <2>2 DEF Task
<1>4. t' = [t EXCEPT ![u] = s]
  <2>1. t' = [t EXCEPT ![u].sent = @ + 1, ![u].pending = t[u].sent + 1]
    BY DEF route_put_chunk
  <2> QED
    BY <1>1, <1>2, <2>1
<1>5. t' \in [Tasks -> Task] /\ Others(u) /\ t'[u] = s
  BY <1>3, <1>4, Update
<1>6. /\ s.pc = r.pc /\ s.path = r.path /\ s.size = r.size /\ s.sumOk = r.sumOk
      /\ s.ino = r.ino /\ s.sent = r.sent + 1 /\ s.pending = r.sent + 1
      /\ s.opened = r.opened
  BY <1>2 DEF Task
<1> QED
  BY <1>1, <1>5, <1>6

LEMMA LandsRecord ==
  ASSUME TypeInv, NEW u \in Tasks, t' = [t EXCEPT ![u].pending = 0]
  PROVE  /\ t' \in [Tasks -> Task] /\ Others(u)
         /\ t'[u].pc = t[u].pc /\ t'[u].ino = t[u].ino /\ t'[u].path = t[u].path
         /\ t'[u].size = t[u].size /\ t'[u].sumOk = t[u].sumOk
         /\ t'[u].sent = t[u].sent /\ t'[u].pending = 0
         /\ t'[u].opened = t[u].opened /\ t'[u].got = t[u].got
<1>1. PICK r \in Task : r = t[u]
  BY DEF TypeInv
<1>2. PICK s : s = [r EXCEPT !.pending = 0]
  OBVIOUS
<1>3. s \in Task
  BY <1>2 DEF Task
<1>4. t' = [t EXCEPT ![u] = s]
  BY <1>1, <1>2
<1>5. t' \in [Tasks -> Task] /\ Others(u) /\ t'[u] = s
  BY <1>3, <1>4, Update
<1>6. /\ s.pc = r.pc /\ s.path = r.path /\ s.size = r.size /\ s.sumOk = r.sumOk
      /\ s.ino = r.ino /\ s.sent = r.sent /\ s.pending = 0
      /\ s.opened = r.opened /\ s.got = r.got
  BY <1>2 DEF Task
<1> QED
  BY <1>1, <1>5, <1>6

LEMMA GetOpenRecord ==
  ASSUME TypeInv, NEW u \in Tasks, t[u].path \in Paths, get_open(u)
  PROVE  /\ t' \in [Tasks -> Task] /\ Others(u)
         /\ t'[u].pc = IF final[t[u].path] = NoInode THEN "done" ELSE "get_send"
         /\ t'[u].ino = final[t[u].path] /\ t'[u].path = t[u].path
         /\ t'[u].size = IF final[t[u].path] = NoInode THEN 0 ELSE flen[final[t[u].path]]
         /\ t'[u].sent = t[u].sent /\ t'[u].pending = t[u].pending
         /\ t'[u].opened = t[u].opened /\ t'[u].got = t[u].got
<1>1. PICK r \in Task : r = t[u]
  BY DEF TypeInv
<1>2. PICK i : i = final[r.path]
  OBVIOUS
<1>3. PICK pc, n : /\ pc = IF i = NoInode THEN "done" ELSE "get_send"
                   /\ n = IF i = NoInode THEN 0 ELSE flen[i]
  OBVIOUS
<1>4. i \in Inodes \cup {NoInode} /\ n \in Nat /\ pc \in Places
  BY <1>1, <1>2, <1>3 DEF TypeInv, Places
<1>5. PICK s : s = [r EXCEPT !.pc = pc, !.ino = i, !.size = n]
  OBVIOUS
<1>6. s \in Task
  BY <1>4, <1>5 DEF Task
<1>7. t' = [t EXCEPT ![u] = s]
  BY <1>1, <1>2, <1>3, <1>5 DEF get_open
<1>8. t' \in [Tasks -> Task] /\ Others(u) /\ t'[u] = s
  BY <1>6, <1>7, Update
<1>9. /\ s.pc = pc /\ s.path = r.path /\ s.size = n /\ s.ino = i /\ s.sent = r.sent
      /\ s.pending = r.pending /\ s.opened = r.opened /\ s.got = r.got
  BY <1>5 DEF Task
<1> QED
  BY <1>1, <1>2, <1>3, <1>8, <1>9

LEMMA GetChunkRecord ==
  ASSUME TypeInv, NEW u \in Tasks, NEW c \in Tasks \cup {Hole},
         t' = [t EXCEPT ![u].sent = @ + 1, ![u].got = Append(@, c)]
  PROVE  /\ t' \in [Tasks -> Task] /\ Others(u)
         /\ t'[u].pc = t[u].pc /\ t'[u].ino = t[u].ino /\ t'[u].path = t[u].path
         /\ t'[u].size = t[u].size /\ t'[u].sent = t[u].sent + 1
         /\ t'[u].pending = t[u].pending
         /\ t'[u].opened = t[u].opened /\ t'[u].got = Append(t[u].got, c)
<1>1. PICK r \in Task : r = t[u]
  BY DEF TypeInv
<1>2. PICK s : s = [r EXCEPT !.sent = r.sent + 1, !.got = Append(r.got, c)]
  OBVIOUS
<1>3. Append(r.got, c) \in Seq(Tasks \cup {Hole}) /\ r.sent + 1 \in Nat
  BY DEF Task
<1>4. s \in Task
  BY <1>2, <1>3 DEF Task
<1>5. t' = [t EXCEPT ![u] = s]
  BY <1>1, <1>2
<1>6. t' \in [Tasks -> Task] /\ Others(u) /\ t'[u] = s
  BY <1>4, <1>5, Update
<1>7. /\ s.pc = r.pc /\ s.path = r.path /\ s.size = r.size
      /\ s.ino = r.ino /\ s.sent = r.sent + 1 /\ s.pending = r.pending
      /\ s.opened = r.opened /\ s.got = Append(r.got, c)
  BY <1>2 DEF Task
<1> QED
  BY <1>1, <1>6, <1>7
-----------------------------------------------------------------------------
(***************************************************************************)
(* The steps that only move a stream on.                                   *)
(***************************************************************************)

\* The stream goes from one of the places A to one of B.
Move(u, A, B) == /\ t[u].pc \in A /\ t'[u].pc \in B
                 /\ t' \in [Tasks -> Task] /\ Others(u) /\ Same(u)
                 /\ t'[u].opened = t[u].opened

LEMMA GotoMove ==
  ASSUME TypeInv, NEW u \in Tasks, NEW A, NEW B, B \subseteq Places, t[u].pc \in A,
         \E pc \in B : goto(u, pc)
  PROVE  Move(u, A, B)
<1>1. PICK pc \in B : goto(u, pc)
  OBVIOUS
<1> QED
  BY <1>1, Goto DEF Move

LEMMA Move_reserve ==
  ASSUME TypeInv, NEW u \in Tasks, reserve(u)
  PROVE  Move(u, {"reserve"}, {"load_used"})
<1>1. {"load_used"} \subseteq Places
  BY DEF Places, PreOpen, Holding, MidSegment
<1>2. t[u].pc \in {"reserve"} /\ \E pc \in {"load_used"} : goto(u, pc)
  BY DEF reserve
<1> QED
  BY <1>1, <1>2, GotoMove

LEMMA Move_load_used ==
  ASSUME TypeInv, NEW u \in Tasks, load_used(u)
  PROVE  Move(u, {"load_used"}, {"load_in_flight"})
BY LoadUsedRecord DEF load_used, Move

LEMMA Move_load_in_flight ==
  ASSUME TypeInv, NEW u \in Tasks, load_in_flight(u)
  PROVE  Move(u, {"load_in_flight"}, {"refused", "resolve"})
<1>1. {"refused", "resolve"} \subseteq Places
  BY DEF Places, PreOpen, Holding, MidSegment
<1>2. t[u].pc \in {"load_in_flight"} /\ \E pc \in {"refused", "resolve"} : goto(u, pc)
  BY DEF load_in_flight
<1> QED
  BY <1>1, <1>2, GotoMove

LEMMA Move_resolve ==
  ASSUME TypeInv, NEW u \in Tasks, resolve(u)
  PROVE  Move(u, {"resolve"}, {"refused", "claim"})
<1>1. {"refused", "claim"} \subseteq Places
  BY DEF Places, PreOpen, Holding, MidSegment
<1>2. t[u].pc \in {"resolve"} /\ \E pc \in {"refused", "claim"} : goto(u, pc)
  BY DEF resolve
<1> QED
  BY <1>1, <1>2, GotoMove

LEMMA Move_claim ==
  ASSUME TypeInv, NEW u \in Tasks, claim(u)
  PROVE  Move(u, {"claim"}, {"refused", "open"})
<1>1. {"refused", "open"} \subseteq Places
  BY DEF Places, PreOpen, Holding, MidSegment
<1>2. t[u].pc \in {"claim"} /\ \E pc \in {"refused", "open"} : goto(u, pc)
  BY DEF claim, taken
<1> QED
  BY <1>1, <1>2, GotoMove

LEMMA Move_open_replied ==
  ASSUME TypeInv, NEW u \in Tasks, open_replied(u)
  PROVE  Move(u, {"open_reply"}, {"drop_stat"})
<1>1. {"drop_stat"} \subseteq Places
  BY DEF Places, PreOpen, Holding, MidSegment
<1>2. t[u].pc \in {"open_reply"} /\ \E pc \in {"drop_stat"} : goto(u, pc)
  BY DEF open_replied
<1> QED
  BY <1>1, <1>2, GotoMove

LEMMA Move_body_fails ==
  ASSUME TypeInv, NEW u \in Tasks, body_fails(u)
  PROVE  Move(u, {"body"}, {"drop_claim"})
<1>1. {"drop_claim"} \subseteq Places
  BY DEF Places, PreOpen, Holding, MidSegment
<1>2. t[u].pc \in {"body"} /\ \E pc \in {"drop_claim"} : goto(u, pc)
  BY DEF body_fails
<1> QED
  BY <1>1, <1>2, GotoMove

LEMMA Move_verify_put_checksum ==
  ASSUME TypeInv, NEW u \in Tasks, verify_put_checksum(u)
  PROVE  Move(u, {"body"}, {"commit", "drop_claim"})
<1>1. {"commit", "drop_claim"} \subseteq Places
  BY DEF Places, PreOpen, Holding, MidSegment
<1>2. t[u].pc \in {"body"} /\ \E pc \in {"commit", "drop_claim"} : goto(u, pc)
  BY DEF verify_put_checksum
<1> QED
  BY <1>1, <1>2, GotoMove

LEMMA Move_settle_in_flight ==
  ASSUME TypeInv, NEW u \in Tasks, settle_in_flight(u)
  PROVE  Move(u, {"settle_in_flight"}, {"settle_used"})
<1>1. {"settle_used"} \subseteq Places
  BY DEF Places, PreOpen, Holding, MidSegment
<1>2. t[u].pc \in {"settle_in_flight"} /\ \E pc \in {"settle_used"} : goto(u, pc)
  BY DEF settle_in_flight
<1> QED
  BY <1>1, <1>2, GotoMove

LEMMA Move_settle_used ==
  ASSUME TypeInv, NEW u \in Tasks, settle_used(u)
  PROVE  Move(u, {"settle_used"}, {"reply"})
<1>1. {"reply"} \subseteq Places
  BY DEF Places, PreOpen, Holding, MidSegment
<1>2. t[u].pc \in {"settle_used"} /\ \E pc \in {"reply"} : goto(u, pc)
  BY DEF settle_used
<1> QED
  BY <1>1, <1>2, GotoMove

LEMMA Move_put_done ==
  ASSUME TypeInv, NEW u \in Tasks, put_done(u)
  PROVE  Move(u, {"reply"}, {"done"})
<1>1. {"done"} \subseteq Places
  BY DEF Places, PreOpen, Holding, MidSegment
<1>2. t[u].pc \in {"reply"} /\ \E pc \in {"done"} : goto(u, pc)
  BY DEF put_done
<1> QED
  BY <1>1, <1>2, GotoMove

LEMMA Move_drop_claim ==
  ASSUME TypeInv, NEW u \in Tasks, drop_claim(u)
  PROVE  Move(u, {"drop_claim"}, {"drop_stat"})
<1>1. {"drop_stat"} \subseteq Places
  BY DEF Places, PreOpen, Holding, MidSegment
<1>2. t[u].pc \in {"drop_claim"} /\ \E pc \in {"drop_stat"} : goto(u, pc)
  BY DEF drop_claim
<1> QED
  BY <1>1, <1>2, GotoMove

LEMMA Move_drop_stat ==
  ASSUME TypeInv, NEW u \in Tasks, t[u].path \in Paths, drop_stat(u)
  PROVE  Move(u, {"drop_stat"}, {"drop_remove"})
BY DropStatRecord DEF drop_stat, Move

LEMMA Move_drop_release ==
  ASSUME TypeInv, NEW u \in Tasks, drop_release(u)
  PROVE  Move(u, {"refused", "drop_release"}, {"done"})
<1>1. {"done"} \subseteq Places
  BY DEF Places, PreOpen, Holding, MidSegment
<1>2. t[u].pc \in {"refused", "drop_release"} /\ \E pc \in {"done"} : goto(u, pc)
  BY DEF drop_release
<1> QED
  BY <1>1, <1>2, GotoMove
-----------------------------------------------------------------------------
(***************************************************************************)
(* The fields of a stream.                                                 *)
(***************************************************************************)

Fields == TypeInv /\ \A u \in Tasks : FieldInv(u)

LEMMA FieldRest ==
  ASSUME Fields, NEW u \in Tasks, Others(u), FieldInv(u)'
  PROVE  (\A v \in Tasks : FieldInv(v))'
BY DEF Fields, Others, FieldInv

\* The places of a move, and what the fields must be at the new one.
LEMMA FieldMove ==
  ASSUME Fields, NEW u \in Tasks, NEW A, NEW B, Move(u, A, B),
         t[u].pc # "none", t'[u].pc # "none",
         t'[u].pc \in PreOpen => t[u].pc \in PreOpen,
         t'[u].pc \in {"body", "commit"} => t[u].pc \in {"body", "commit"},
         t'[u].pc = "commit" => t[u].sumOk /\ t[u].sent = t[u].size /\ t[u].pending = 0,
         t'[u].pc # "get_open",
         t'[u].pc \in {"refused", "open_failed", "get_send"} => t[u].pending = 0,
         t'[u].pc # "open_reply"
  PROVE  (\A v \in Tasks : FieldInv(v))'
<1>1. FieldInv(u)'
  BY DEF Fields, FieldInv, Move, Same
<1> QED
  BY <1>1, FieldRest DEF Move
-----------------------------------------------------------------------------
(***************************************************************************)
(* The claim, and what a move leaves alone.                                *)
(***************************************************************************)

LEMMA ClaimKept ==
  ASSUME ClaimInv, NEW u \in Tasks, Others(u), t'[u].path = t[u].path, claims' = claims,
         t'[u].pc \in Holding => t[u].pc \in Holding,
         t'[u].pc \in {"drop_stat", "drop_remove"} /\ t'[u].opened
           => t[u].pc \in {"drop_stat", "drop_remove"} /\ t[u].opened
  PROVE  ClaimInv'
BY DEF ClaimInv, Others

LEMMA ClaimReleased ==
  ASSUME ClaimInv, NEW u \in Tasks, Others(u), t'[u].path = t[u].path,
         claims' = claims \ {t[u].path}, t[u].pc \in Holding, t'[u].pc \notin Holding
  PROVE  ClaimInv'
<1>1. \A v \in Tasks : v # u /\ t[v].pc \in Holding => t[v].path # t[u].path
  BY DEF ClaimInv
<1>2. (\A v \in Tasks : t[v].pc \in Holding => t[v].path \in claims)'
  BY <1>1 DEF ClaimInv, Others
<1>3. (\A v, w \in Tasks : t[v].pc \in Holding /\ t[w].pc \in Holding /\ t[v].path = t[w].path
                             => v = w)'
  BY DEF ClaimInv, Others
<1>4. (\A v, w \in Tasks :
         t[v].pc \in {"drop_stat", "drop_remove"} /\ t[v].opened /\ t[w].pc \in Holding
           => t[v].path # t[w].path)'
  BY <1>1 DEF ClaimInv, Others
<1> QED
  BY <1>2, <1>3, <1>4 DEF ClaimInv

LEMMA ClaimTaken ==
  ASSUME ClaimInv, NEW u \in Tasks, Others(u), t'[u].path = t[u].path,
         t[u].path \notin claims, claims' = claims \cup {t[u].path},
         t'[u].pc \in Holding, t'[u].pc \notin {"drop_stat", "drop_remove"},
         \A v \in Armed(t[u].path) : ~t[v].opened
  PROVE  ClaimInv'
<1>1. \A v \in Tasks : t[v].pc \in Holding => t[v].path # t[u].path
  BY DEF ClaimInv
<1>2. (\A v \in Tasks : t[v].pc \in Holding => t[v].path \in claims)'
  BY DEF ClaimInv, Others
<1>3. (\A v, w \in Tasks : t[v].pc \in Holding /\ t[w].pc \in Holding /\ t[v].path = t[w].path
                             => v = w)'
  BY <1>1 DEF ClaimInv, Others
<1>4. (\A v, w \in Tasks :
         t[v].pc \in {"drop_stat", "drop_remove"} /\ t[v].opened /\ t[w].pc \in Holding
           => t[v].path # t[w].path)'
  BY DEF ClaimInv, Others, Armed
<1> QED
  BY <1>2, <1>3, <1>4 DEF ClaimInv

\* A step that leaves the files and the stream's inode alone.
LEMMA QuietInv ==
  ASSUME BridgeInv, NEW u \in Tasks, Others(u), Same(u), UNCHANGED <<temp, final, content, flen>>,
         t'[u].opened = t[u].opened \/ ~t'[u].opened,
         t'[u].pc \in {"body", "commit"} => t[u].pc \in {"body", "commit"},
         t[u].pc \in {"body", "commit", "drop_claim", "drop_stat", "drop_remove"}
           => t'[u].pc \in {"body", "commit", "drop_claim", "drop_stat", "drop_remove"},
         t'[u].pc = "get_send" => t[u].pc = "get_send",
         t'[u].pc \in PreOpen => t[u].pc \in PreOpen,
         t[u].pc \in Settled => t'[u].pc \in Settled
  PROVE  InodeInv' /\ TempInv' /\ ContentInv'
<1> USE DEF BridgeInv
<1>1. \A v \in Tasks : Own(v)' => Own(v)
  BY DEF Own, Others, Same
<1>2. \A v \in Tasks : t'[v].ino = t[v].ino /\ t'[v].path = t[v].path
  BY DEF Others, Same
<1>3. \A i : Frozen(i)' => Frozen(i)
  BY <1>2 DEF Frozen, Others
<1>4. \A v \in Tasks : t'[v].pc \in PreOpen => t[v].pc \in PreOpen
  BY DEF Others
<1>5. \A v \in Tasks :
        t[v].pc \in {"body", "commit", "drop_claim", "drop_stat", "drop_remove"}
          => t'[v].pc \in {"body", "commit", "drop_claim", "drop_stat", "drop_remove"}
  BY DEF Others
<1>6. InodeInv'
  <2>1. (\A v, w \in Tasks : Own(v) /\ Own(w) /\ t[v].ino = t[w].ino => v = w)'
    BY <1>1, <1>2 DEF InodeInv
  <2>2. (\A v \in Tasks, p \in Paths : Own(v) /\ temp[p] = t[v].ino =>
           /\ p = t[v].path
           /\ t[v].pc \in {"body", "commit", "drop_claim", "drop_stat", "drop_remove"})'
    BY <1>1, <1>2, <1>5 DEF InodeInv
  <2>3. (\A v \in Tasks : Own(v) => ~Frozen(t[v].ino))'
    BY <1>1, <1>2, <1>3 DEF InodeInv
  <2>4. (\A v \in Tasks : t[v].pc \in PreOpen =>
           /\ ~Frozen(v)
           /\ \A p \in Paths : temp[p] # v
           /\ \A w \in Tasks : Own(w) => t[w].ino # v)'
    BY <1>1, <1>2, <1>3, <1>4 DEF InodeInv
  <2>5. (\A p, q \in Paths : temp[p] = temp[q] /\ temp[p] # NoInode => p = q)'
    BY DEF InodeInv
  <2>6. (\A p \in Paths : temp[p] # NoInode => ~Frozen(temp[p]))'
    BY <1>3 DEF InodeInv
  <2> QED
    BY <2>1, <2>2, <2>3, <2>4, <2>5, <2>6 DEF InodeInv
<1>7. TempInv'
  <2> SUFFICES ASSUME NEW v \in Tasks, t'[v].pc \in {"body", "commit"}
               PROVE  \/ temp[t'[v].path] = t'[v].ino
                      \/ /\ temp[t'[v].path] = NoInode
                         /\ \E w \in Tasks : ~t'[w].opened /\ t'[w].path = t'[v].path
    BY DEF TempInv
  <2>1. t[v].pc \in {"body", "commit"}
    BY DEF Others
  <2>2. \A w \in Tasks : ~t[w].opened => ~t'[w].opened
    BY DEF Others
  <2> QED
    BY <1>2, <2>1, <2>2 DEF TempInv
<1>8. ContentInv'
  <2>1. (\A v \in Tasks : t[v].pc \in {"body", "commit"} =>
           /\ flen[t[v].ino] = IF t[v].pending = 0 THEN t[v].sent ELSE t[v].sent - 1
           /\ \A k \in 1..flen[t[v].ino] : content[t[v].ino][k] = v)'
    <3> SUFFICES ASSUME NEW v \in Tasks, t'[v].pc \in {"body", "commit"}
                 PROVE  /\ flen[t'[v].ino] = IF t'[v].pending = 0 THEN t'[v].sent
                                                                ELSE t'[v].sent - 1
                        /\ \A k \in 1..flen[t'[v].ino] : content[t'[v].ino][k] = v
      OBVIOUS
    <3>1. /\ t[v].pc \in {"body", "commit"} /\ t'[v].ino = t[v].ino
          /\ t'[v].pending = t[v].pending /\ t'[v].sent = t[v].sent
      BY DEF Others, Same
    <3> QED
      BY <3>1 DEF ContentInv
  <2>2. (\A i \in Inodes : Frozen(i) => Committed(i))'
    <3> SUFFICES ASSUME NEW i \in Inodes, Frozen(i)' PROVE Committed(i)'
      OBVIOUS
    <3>1. Committed(i)
      BY <1>3 DEF ContentInv
    <3>2. \A v \in Tasks : t[v].pc \in Settled => /\ t'[v].pc \in Settled
                                                  /\ t'[v].sumOk = t[v].sumOk
                                                  /\ t'[v].size = t[v].size
      BY DEF Others, Same
    <3> QED
      BY <1>2, <3>1, <3>2 DEF Committed
  <2>3. (\A v \in Tasks : t[v].pc = "get_send" =>
           /\ t[v].ino \in Inodes /\ t[v].size = flen[t[v].ino]
           /\ Len(t[v].got) = t[v].sent /\ t[v].sent <= t[v].size
           /\ \A k \in 1..t[v].sent : t[v].got[k] = content[t[v].ino][k])'
    <3> SUFFICES ASSUME NEW v \in Tasks, t'[v].pc = "get_send"
                 PROVE  /\ t'[v].ino \in Inodes /\ t'[v].size = flen[t'[v].ino]
                        /\ Len(t'[v].got) = t'[v].sent /\ t'[v].sent <= t'[v].size
                        /\ \A k \in 1..t'[v].sent : t'[v].got[k] = content[t'[v].ino][k]
      OBVIOUS
    <3>1. /\ t[v].pc = "get_send" /\ t'[v].ino = t[v].ino /\ t'[v].size = t[v].size
          /\ t'[v].got = t[v].got /\ t'[v].sent = t[v].sent
      BY DEF Others, Same
    <3> QED
      BY <3>1 DEF ContentInv
  <2> QED
    BY <2>1, <2>2, <2>3 DEF ContentInv
<1> QED
  BY <1>6, <1>7, <1>8

\* From place a a stream may go on to b without touching a file.
Onward(a, b) ==
  /\ a # "none" /\ b \notin {"none", "get_open", "open_reply", "get_send"}
  /\ b \in PreOpen => a \in PreOpen
  /\ b \in {"body", "commit"} => a \in {"body", "commit"}
  /\ a \in {"body", "commit", "drop_claim", "drop_stat", "drop_remove"}
       => b \in {"body", "commit", "drop_claim", "drop_stat", "drop_remove"}
  /\ a \in Settled => b \in Settled

LEMMA MoveInv ==
  ASSUME BridgeInv, NEW u \in Tasks, NEW A, NEW B, Move(u, A, B), Onward(t[u].pc, t'[u].pc),
         t'[u].pc = "commit" => t[u].sumOk /\ t[u].sent = t[u].size /\ t[u].pending = 0,
         t'[u].pc \in {"refused", "open_failed"} => t[u].pending = 0,
         UNCHANGED <<temp, final, content, flen>>, used' \in Int, inFlight' \in Int, ClaimInv'
  PROVE  BridgeInv'
<1>1. TypeInv'
  BY DEF BridgeInv, TypeInv, Move
<1>2. (\A v \in Tasks : FieldInv(v))'
  BY FieldMove DEF BridgeInv, Fields, Onward
<1>3. InodeInv' /\ TempInv' /\ ContentInv'
  BY QuietInv DEF Move, Onward
<1> QED
  BY <1>1, <1>2, <1>3 DEF BridgeInv

-----------------------------------------------------------------------------
(***************************************************************************)
(* Steps that only move a stream on keep the invariant.                    *)
(***************************************************************************)

LEMMA Keeps_reserve ==
  ASSUME BridgeInv, NEW u \in Tasks, reserve(u)
  PROVE  BridgeInv'
<1> TypeInv /\ FieldInv(u) /\ ClaimInv
  BY DEF BridgeInv
<1>1. Move(u, {"reserve"}, {"load_used"})
  BY Move_reserve
<1>2. Onward(t[u].pc, t'[u].pc)
  BY <1>1 DEF Move, Onward, PreOpen, Settled
<1>3. UNCHANGED <<temp, final, content, flen>> /\ used' \in Int /\ inFlight' \in Int
  <2>1. t[u].size \in Int /\ used \in Int /\ inFlight \in Int
    BY DEF TypeInv, Task
  <2> QED
    BY <2>1 DEF reserve, fsVars
<1>4. ClaimInv'
  <2>1. claims' = claims
    BY DEF reserve
  <2> QED
    BY <1>1, <2>1, ClaimKept DEF Move, Same, Holding
<1> QED
  BY <1>1, <1>2, <1>3, <1>4, MoveInv DEF Move

LEMMA Keeps_load_used ==
  ASSUME BridgeInv, NEW u \in Tasks, load_used(u)
  PROVE  BridgeInv'
<1> TypeInv /\ FieldInv(u) /\ ClaimInv
  BY DEF BridgeInv
<1>1. Move(u, {"load_used"}, {"load_in_flight"})
  BY Move_load_used
<1>2. Onward(t[u].pc, t'[u].pc)
  BY <1>1 DEF Move, Onward, PreOpen, Settled
<1>3. UNCHANGED <<temp, final, content, flen>> /\ used' \in Int /\ inFlight' \in Int
  BY DEF load_used, fsVars, counters, TypeInv
<1>4. ClaimInv'
  <2>1. claims' = claims
    BY DEF load_used
  <2> QED
    BY <1>1, <2>1, ClaimKept DEF Move, Same, Holding
<1> QED
  BY <1>1, <1>2, <1>3, <1>4, MoveInv DEF Move

LEMMA Keeps_load_in_flight ==
  ASSUME BridgeInv, NEW u \in Tasks, load_in_flight(u)
  PROVE  BridgeInv'
<1> TypeInv /\ FieldInv(u) /\ ClaimInv
  BY DEF BridgeInv
<1>1. Move(u, {"load_in_flight"}, {"refused", "resolve"})
  BY Move_load_in_flight
<1>2. Onward(t[u].pc, t'[u].pc)
  BY <1>1 DEF Move, Onward, PreOpen, Settled
<1>3. UNCHANGED <<temp, final, content, flen>> /\ used' \in Int /\ inFlight' \in Int
  BY DEF load_in_flight, fsVars, counters, TypeInv
<1>4. ClaimInv'
  <2>1. claims' = claims
    BY DEF load_in_flight
  <2> QED
    BY <1>1, <2>1, ClaimKept DEF Move, Same, Holding
<1>5. t[u].pending = 0
  BY <1>1 DEF Move, FieldInv, PreOpen
<1> QED
  BY <1>1, <1>2, <1>3, <1>4, <1>5, MoveInv DEF Move

LEMMA Keeps_resolve ==
  ASSUME BridgeInv, NEW u \in Tasks, resolve(u)
  PROVE  BridgeInv'
<1> TypeInv /\ FieldInv(u) /\ ClaimInv
  BY DEF BridgeInv
<1>1. Move(u, {"resolve"}, {"refused", "claim"})
  BY Move_resolve
<1>2. Onward(t[u].pc, t'[u].pc)
  BY <1>1 DEF Move, Onward, PreOpen, Settled
<1>3. UNCHANGED <<temp, final, content, flen>> /\ used' \in Int /\ inFlight' \in Int
  BY DEF resolve, fsVars, counters, TypeInv
<1>4. ClaimInv'
  <2>1. claims' = claims
    BY DEF resolve
  <2> QED
    BY <1>1, <2>1, ClaimKept DEF Move, Same, Holding
<1>5. t[u].pending = 0
  BY <1>1 DEF Move, FieldInv, PreOpen
<1> QED
  BY <1>1, <1>2, <1>3, <1>4, <1>5, MoveInv DEF Move

LEMMA Keeps_claim ==
  ASSUME overtaken' = {}, BridgeInv, NEW u \in Tasks, claim(u)
  PROVE  BridgeInv'
<1> TypeInv /\ FieldInv(u) /\ ClaimInv
  BY DEF BridgeInv
<1>1. Move(u, {"claim"}, {"refused", "open"})
  BY Move_claim
<1>2. Onward(t[u].pc, t'[u].pc)
  BY <1>1 DEF Move, Onward, PreOpen, Settled
<1>3. UNCHANGED <<temp, final, content, flen>> /\ used' \in Int /\ inFlight' \in Int
  BY DEF claim, fsVars, counters, TypeInv
<1>4. ClaimInv'
  <2>1. CASE t[u].path \in claims
    <3>1. claims' = claims /\ t'[u].pc = "refused"
      <4>1. goto(u, "refused") /\ claims' = claims
        BY <2>1 DEF claim
      <4> QED
        BY <4>1, Goto DEF Places
    <3> QED
      BY <1>1, <3>1, ClaimKept DEF Move, Same, Holding
  <2>2. CASE t[u].path \notin claims
    <3>1. claims' = claims \cup {t[u].path} /\ t'[u].pc = "open"
      <4>1. goto(u, "open") /\ claims' = claims \cup {t[u].path}
        BY <2>2 DEF claim, taken
      <4> QED
        BY <4>1, Goto DEF Places, PreOpen
    <3>2. \A v \in Armed(t[u].path) : ~t[v].opened
      <4>1. PICK A : A = {v \in Armed(t[u].path) : t[v].opened}
        OBVIOUS
      <4>2. overtaken' = overtaken \cup (A \X {u})
        BY <2>2, <4>1 DEF claim, taken
      <4>3. ASSUME NEW v \in A PROVE FALSE
        <5>1. <<v, u>> \in A \X {u}
          BY <4>3
        <5> QED
          BY <4>2, <5>1
      <4> QED
        BY <4>1, <4>3
    <3> QED
      BY <1>1, <2>2, <3>1, <3>2, ClaimTaken DEF Move, Same, Holding
  <2> QED
    BY <2>1, <2>2
<1>5. t[u].pending = 0
  BY <1>1 DEF Move, FieldInv, PreOpen
<1> QED
  BY <1>1, <1>2, <1>3, <1>4, <1>5, MoveInv DEF Move

LEMMA Keeps_open_replied ==
  ASSUME BridgeInv, NEW u \in Tasks, open_replied(u)
  PROVE  BridgeInv'
<1> TypeInv /\ FieldInv(u) /\ ClaimInv
  BY DEF BridgeInv
<1>1. Move(u, {"open_reply"}, {"drop_stat"})
  BY Move_open_replied
<1>2. Onward(t[u].pc, t'[u].pc)
  BY <1>1 DEF Move, Onward, PreOpen, Settled
<1>3. UNCHANGED <<temp, final, content, flen>> /\ used' \in Int /\ inFlight' \in Int
  BY DEF open_replied, fsVars, counters, TypeInv
<1>4. ClaimInv'
  <2>1. claims' = claims /\ ~t[u].opened
    BY DEF open_replied, FieldInv
  <2> QED
    BY <1>1, <2>1, ClaimKept DEF Move, Same, Holding
<1> QED
  BY <1>1, <1>2, <1>3, <1>4, MoveInv DEF Move

LEMMA Keeps_body_fails ==
  ASSUME BridgeInv, NEW u \in Tasks, body_fails(u)
  PROVE  BridgeInv'
<1> TypeInv /\ FieldInv(u) /\ ClaimInv
  BY DEF BridgeInv
<1>1. Move(u, {"body"}, {"drop_claim"})
  BY Move_body_fails
<1>2. Onward(t[u].pc, t'[u].pc)
  BY <1>1 DEF Move, Onward, PreOpen, Settled
<1>3. UNCHANGED <<temp, final, content, flen>> /\ used' \in Int /\ inFlight' \in Int
  BY DEF body_fails, fsVars, counters, TypeInv
<1>4. ClaimInv'
  <2>1. claims' = claims
    BY DEF body_fails
  <2> QED
    BY <1>1, <2>1, ClaimKept DEF Move, Same, Holding
<1> QED
  BY <1>1, <1>2, <1>3, <1>4, MoveInv DEF Move

LEMMA Keeps_verify_put_checksum ==
  ASSUME BridgeInv, NEW u \in Tasks, verify_put_checksum(u)
  PROVE  BridgeInv'
<1> TypeInv /\ FieldInv(u) /\ ClaimInv
  BY DEF BridgeInv
<1>1. Move(u, {"body"}, {"commit", "drop_claim"})
  BY Move_verify_put_checksum
<1>2. Onward(t[u].pc, t'[u].pc)
  BY <1>1 DEF Move, Onward, PreOpen, Settled
<1>3. UNCHANGED <<temp, final, content, flen>> /\ used' \in Int /\ inFlight' \in Int
  BY DEF verify_put_checksum, fsVars, counters, TypeInv
<1>4. ClaimInv'
  <2>1. claims' = claims
    BY DEF verify_put_checksum
  <2> QED
    BY <1>1, <2>1, ClaimKept DEF Move, Same, Holding
<1>5. t'[u].pc = "commit" => t[u].sumOk /\ t[u].sent = t[u].size /\ t[u].pending = 0
  <2>1. t[u].sent = t[u].size /\ t[u].pending = 0
    BY DEF verify_put_checksum
  <2>2. CASE ~t[u].sumOk
    <3>1. goto(u, "drop_claim")
      BY <2>2 DEF verify_put_checksum
    <3>2. t'[u].pc = "drop_claim"
      BY <3>1, Goto DEF Places, Holding
    <3> QED
      BY <3>2
  <2> QED
    BY <2>1, <2>2
<1> QED
  BY <1>1, <1>2, <1>3, <1>4, <1>5, MoveInv DEF Move

LEMMA Keeps_settle_in_flight ==
  ASSUME BridgeInv, NEW u \in Tasks, settle_in_flight(u)
  PROVE  BridgeInv'
<1> TypeInv /\ FieldInv(u) /\ ClaimInv
  BY DEF BridgeInv
<1>1. Move(u, {"settle_in_flight"}, {"settle_used"})
  BY Move_settle_in_flight
<1>2. Onward(t[u].pc, t'[u].pc)
  BY <1>1 DEF Move, Onward, PreOpen, Settled
<1>3. UNCHANGED <<temp, final, content, flen>> /\ used' \in Int /\ inFlight' \in Int
  <2>1. t[u].size \in Int /\ used \in Int /\ inFlight \in Int
    BY DEF TypeInv, Task
  <2> QED
    BY <2>1 DEF settle_in_flight, fsVars
<1>4. ClaimInv'
  <2>1. claims' = claims
    BY DEF settle_in_flight
  <2> QED
    BY <1>1, <2>1, ClaimKept DEF Move, Same, Holding
<1> QED
  BY <1>1, <1>2, <1>3, <1>4, MoveInv DEF Move

LEMMA Keeps_settle_used ==
  ASSUME BridgeInv, NEW u \in Tasks, settle_used(u)
  PROVE  BridgeInv'
<1> TypeInv /\ FieldInv(u) /\ ClaimInv
  BY DEF BridgeInv
<1>1. Move(u, {"settle_used"}, {"reply"})
  BY Move_settle_used
<1>2. Onward(t[u].pc, t'[u].pc)
  BY <1>1 DEF Move, Onward, PreOpen, Settled
<1>3. UNCHANGED <<temp, final, content, flen>> /\ used' \in Int /\ inFlight' \in Int
  <2>1. t[u].size \in Int /\ used \in Int /\ inFlight \in Int
    BY DEF TypeInv, Task
  <2> QED
    BY <2>1 DEF settle_used, fsVars
<1>4. ClaimInv'
  <2>1. claims' = claims
    BY DEF settle_used
  <2> QED
    BY <1>1, <2>1, ClaimKept DEF Move, Same, Holding
<1> QED
  BY <1>1, <1>2, <1>3, <1>4, MoveInv DEF Move

LEMMA Keeps_put_done ==
  ASSUME BridgeInv, NEW u \in Tasks, put_done(u)
  PROVE  BridgeInv'
<1> TypeInv /\ FieldInv(u) /\ ClaimInv
  BY DEF BridgeInv
<1>1. Move(u, {"reply"}, {"done"})
  BY Move_put_done
<1>2. Onward(t[u].pc, t'[u].pc)
  BY <1>1 DEF Move, Onward, PreOpen, Settled
<1>3. UNCHANGED <<temp, final, content, flen>> /\ used' \in Int /\ inFlight' \in Int
  BY DEF put_done, fsVars, counters, TypeInv
<1>4. ClaimInv'
  <2>1. claims' = claims \ {t[u].path}
    BY DEF put_done
  <2> QED
    BY <1>1, <2>1, ClaimReleased DEF Move, Same, Holding
<1> QED
  BY <1>1, <1>2, <1>3, <1>4, MoveInv DEF Move

LEMMA Keeps_drop_claim ==
  ASSUME BridgeInv, NEW u \in Tasks, drop_claim(u)
  PROVE  BridgeInv'
<1> TypeInv /\ FieldInv(u) /\ ClaimInv
  BY DEF BridgeInv
<1>1. Move(u, {"drop_claim"}, {"drop_stat"})
  BY Move_drop_claim
<1>2. Onward(t[u].pc, t'[u].pc)
  BY <1>1 DEF Move, Onward, PreOpen, Settled
<1>3. UNCHANGED <<temp, final, content, flen>> /\ used' \in Int /\ inFlight' \in Int
  BY DEF drop_claim, fsVars, counters, TypeInv
<1>4. ClaimInv'
  <2>1. claims' = claims \ {t[u].path}
    BY DEF drop_claim
  <2> QED
    BY <1>1, <2>1, ClaimReleased DEF Move, Same, Holding
<1> QED
  BY <1>1, <1>2, <1>3, <1>4, MoveInv DEF Move

LEMMA Keeps_drop_stat ==
  ASSUME BridgeInv, NEW u \in Tasks, drop_stat(u)
  PROVE  BridgeInv'
<1> TypeInv /\ FieldInv(u) /\ ClaimInv
  BY DEF BridgeInv
<1>1. Move(u, {"drop_stat"}, {"drop_remove"}) /\ used' \in Int /\ inFlight' \in Int
  <2>1. t[u].path \in Paths
    BY DEF drop_stat, FieldInv
  <2> QED
    BY <2>1, Move_drop_stat, DropStatRecord DEF drop_stat, TypeInv
<1>2. Onward(t[u].pc, t'[u].pc)
  BY <1>1 DEF Move, Onward, PreOpen, Settled
<1>3. UNCHANGED <<temp, final, content, flen>>
  BY DEF drop_stat, fsVars
<1>4. ClaimInv'
  <2>1. claims' = claims
    BY DEF drop_stat
  <2> QED
    BY <1>1, <2>1, ClaimKept DEF Move, Same, Holding
<1> QED
  BY <1>1, <1>2, <1>3, <1>4, MoveInv DEF Move

LEMMA Keeps_drop_release ==
  ASSUME BridgeInv, NEW u \in Tasks, drop_release(u)
  PROVE  BridgeInv'
<1> TypeInv /\ FieldInv(u) /\ ClaimInv
  BY DEF BridgeInv
<1>1. Move(u, {"refused", "drop_release"}, {"done"})
  BY Move_drop_release
<1>2. Onward(t[u].pc, t'[u].pc)
  BY <1>1 DEF Move, Onward, PreOpen, Settled
<1>3. UNCHANGED <<temp, final, content, flen>> /\ used' \in Int /\ inFlight' \in Int
  <2>1. t[u].size \in Int /\ used \in Int /\ inFlight \in Int
    BY DEF TypeInv, Task
  <2> QED
    BY <2>1 DEF drop_release, fsVars
<1>4. ClaimInv'
  <2>1. claims' = claims
    BY DEF drop_release
  <2> QED
    BY <1>1, <2>1, ClaimKept DEF Move, Same, Holding
<1> QED
  BY <1>1, <1>2, <1>3, <1>4, MoveInv DEF Move
-----------------------------------------------------------------------------
(***************************************************************************)
(* Steps that touch a file, or start a stream.                             *)
(***************************************************************************)

LEMMA Keeps_open_failed ==
  ASSUME BridgeInv, NEW u \in Tasks, open_failed(u)
  PROVE  BridgeInv'
<1> TypeInv /\ FieldInv(u) /\ ClaimInv
  BY DEF BridgeInv
<1>1. /\ t' \in [Tasks -> Task] /\ Others(u) /\ Same(u)
      /\ t'[u].pc = "open_reply" /\ t'[u].opened = FALSE
  BY OpenFailedRecord
<1>2. /\ t[u].pc = "open_failed" /\ claims' = claims \ {t[u].path}
      /\ UNCHANGED <<temp, final, content, flen, used, inFlight>>
  BY DEF open_failed, fsVars, counters
<1>3. TypeInv'
  BY <1>1, <1>2 DEF TypeInv
<1>4. (\A v \in Tasks : FieldInv(v))'
  <2>1. FieldInv(u)'
    BY <1>1, <1>2 DEF FieldInv, Same, PreOpen
  <2> QED
    BY <1>1, <2>1, FieldRest DEF BridgeInv, Fields
<1>5. ClaimInv'
  BY <1>1, <1>2, ClaimReleased DEF Same, Holding
<1>6. InodeInv' /\ TempInv' /\ ContentInv'
  BY <1>1, <1>2, QuietInv DEF PreOpen, Settled
<1> QED
  BY <1>3, <1>4, <1>5, <1>6 DEF BridgeInv

\* The parts of InodeInv about the streams, and about the files.
LEMMA InodeParts ==
  ASSUME InodeInv
  PROVE  /\ \A u, v \in Tasks : Own(u) /\ Own(v) /\ t[u].ino = t[v].ino => u = v
         /\ \A u \in Tasks, p \in Paths : Own(u) /\ temp[p] = t[u].ino => p = t[u].path
         /\ \A u \in Tasks, p \in Paths : Own(u) /\ temp[p] = t[u].ino =>
              t[u].pc \in {"body", "commit", "drop_claim", "drop_stat", "drop_remove"}
         /\ \A u \in Tasks : Own(u) => ~Frozen(t[u].ino)
         /\ \A u \in Tasks : t[u].pc \in PreOpen => ~Frozen(u)
         /\ \A u \in Tasks, p \in Paths : t[u].pc \in PreOpen => temp[p] # u
         /\ \A u, v \in Tasks : t[u].pc \in PreOpen /\ Own(v) => t[v].ino # u
         /\ \A p, q \in Paths : temp[p] = temp[q] /\ temp[p] # NoInode => p = q
         /\ \A p \in Paths : temp[p] # NoInode => ~Frozen(temp[p])
BY DEF InodeInv

\* Committed contents stay committed when their blocks, their length and the
\* record of the upload that wrote them do.
LEMMA CommittedKept ==
  ASSUME NEW i, Committed(i), content'[i] = content[i], flen'[i] = flen[i],
         \A v \in Tasks : t[v].pc \in Settled =>
            /\ t'[v].pc \in Settled /\ t'[v].ino = t[v].ino /\ t'[v].sumOk = t[v].sumOk
            /\ t'[v].size = t[v].size
  PROVE  Committed(i)'
BY DEF Committed

LEMMA Keeps_accept_stream ==
  ASSUME BridgeInv, NEW u \in Tasks, NEW kind \in {"reserve", "get_open"}, accept_stream(u, kind)
  PROVE  BridgeInv'
<1> TypeInv /\ FieldInv(u) /\ ClaimInv /\ InodeInv /\ TempInv /\ ContentInv
  BY DEF BridgeInv
<1>1. /\ t' \in [Tasks -> Task] /\ Others(u) /\ t[u].pc = "none"
      /\ t'[u].pc = kind /\ t'[u].path \in Paths /\ t'[u].size \in Blocks
      /\ t'[u].sent = 0 /\ t'[u].pending = 0 /\ t'[u].opened = TRUE /\ t'[u].got = <<>>
  BY AcceptRecord
<1>2. UNCHANGED <<temp, final, content, flen, claims, used, inFlight>>
  BY DEF accept_stream, fsVars, counters
<1>3. TypeInv'
  BY <1>1, <1>2 DEF TypeInv
<1>4. (\A v \in Tasks : FieldInv(v))'
  <2>1. t'[u].size \in 0..MaxSize /\ 0 <= t'[u].size
    BY <1>1, BridgeAssumption DEF Blocks
  <2>2. FieldInv(u)'
    BY <1>1, <2>1 DEF FieldInv, PreOpen
  <2> QED
    BY <1>1, <2>2, FieldRest DEF BridgeInv, Fields
<1>5. ClaimInv'
  BY <1>1, <1>2 DEF ClaimInv, Others, Holding
<1>6. /\ \A v \in Tasks : Own(v)' => Own(v) /\ v # u
      /\ \A v \in Tasks : v # u => t'[v] = t[v]
      /\ \A i : Frozen(i)' => Frozen(i)
      /\ t[u].pc \in PreOpen /\ t[u].pc \notin Settled /\ t[u].opened
      /\ t'[u].pc \notin {"body", "commit", "get_send"}
  BY <1>1, <1>2 DEF Own, Others, Frozen, PreOpen, Settled, FieldInv
<1>7. InodeInv'
  BY <1>2, <1>6, InodeParts DEF InodeInv
<1>8. TempInv'
  <2> SUFFICES ASSUME NEW v \in Tasks, t'[v].pc \in {"body", "commit"}
               PROVE  \/ temp[t'[v].path] = t'[v].ino
                      \/ /\ temp[t'[v].path] = NoInode
                         /\ \E w \in Tasks : ~t'[w].opened /\ t'[w].path = t'[v].path
    BY <1>2 DEF TempInv
  <2> QED
    BY <1>6 DEF TempInv
<1>9. ContentInv'
  <2>1. (\A i \in Inodes : Frozen(i) => Committed(i))'
    BY <1>2, <1>6, CommittedKept DEF ContentInv
  <2> QED
    BY <1>2, <1>6, <2>1 DEF ContentInv
<1> QED
  BY <1>3, <1>4, <1>5, <1>7, <1>8, <1>9 DEF BridgeInv

LEMMA Keeps_route_put_chunk ==
  ASSUME BridgeInv, NEW u \in Tasks, route_put_chunk(u)
  PROVE  BridgeInv'
<1> TypeInv /\ FieldInv(u) /\ ClaimInv /\ InodeInv /\ TempInv /\ ContentInv
  BY DEF BridgeInv
<1>1. /\ t' \in [Tasks -> Task] /\ Others(u)
      /\ t'[u].pc = t[u].pc /\ t'[u].ino = t[u].ino /\ t'[u].path = t[u].path
      /\ t'[u].size = t[u].size /\ t'[u].sumOk = t[u].sumOk
      /\ t'[u].sent = t[u].sent + 1 /\ t'[u].pending = t[u].sent + 1
      /\ t'[u].opened = t[u].opened
  BY ChunkRecord
<1>2. /\ t[u].pc = "body" /\ t[u].sent < t[u].size /\ t[u].pending = 0
      /\ UNCHANGED <<temp, final, content, flen, claims, used, inFlight>>
  BY DEF route_put_chunk, fsVars, counters
<1>3. PICK n, m \in Nat : n = t[u].sent /\ m = t[u].size
  BY DEF TypeInv, Task
<1>4. TypeInv'
  BY <1>1, <1>2 DEF TypeInv
<1>5. (\A v \in Tasks : FieldInv(v))'
  <2>1. n + 1 <= m /\ n + 1 # 0
    BY <1>2, <1>3
  <2>2. FieldInv(u)'
    BY <1>1, <1>2, <1>3, <2>1 DEF FieldInv, PreOpen
  <2> QED
    BY <1>1, <2>2, FieldRest DEF BridgeInv, Fields
<1>6. ClaimInv'
  BY <1>1, <1>2, ClaimKept
<1>7. /\ \A v \in Tasks : Own(v)' => Own(v)
      /\ \A v \in Tasks : /\ t'[v].pc = t[v].pc /\ t'[v].ino = t[v].ino /\ t'[v].path = t[v].path
                          /\ t'[v].opened = t[v].opened /\ t'[v].sumOk = t[v].sumOk
                          /\ t'[v].size = t[v].size
      /\ \A i : Frozen(i)' => Frozen(i)
  BY <1>1, <1>2 DEF Own, Others, Frozen
<1>8. InodeInv'
  BY <1>2, <1>7, InodeParts DEF InodeInv
<1>9. TempInv'
  <2> SUFFICES ASSUME NEW v \in Tasks, t'[v].pc \in {"body", "commit"}
               PROVE  \/ temp[t'[v].path] = t'[v].ino
                      \/ /\ temp[t'[v].path] = NoInode
                         /\ \E w \in Tasks : ~t'[w].opened /\ t'[w].path = t'[v].path
    BY <1>2 DEF TempInv
  <2> QED
    BY <1>7 DEF TempInv
<1>10. ContentInv'
  <2>1. (\A i \in Inodes : Frozen(i) => Committed(i))'
    BY <1>2, <1>7, CommittedKept DEF ContentInv
  <2>2. flen[t[u].ino] = n /\ n + 1 # 0 /\ (n + 1) - 1 = n
    BY <1>2, <1>3 DEF ContentInv
  <2>3. ASSUME NEW v \in Tasks, t'[v].pc \in {"body", "commit"}
        PROVE  /\ flen'[t'[v].ino] = IF t'[v].pending = 0 THEN t'[v].sent ELSE t'[v].sent - 1
               /\ \A k \in 1..flen'[t'[v].ino] : content'[t'[v].ino][k] = v
    <3>1. CASE v = u
      BY <1>1, <1>2, <1>3, <2>2, <3>1 DEF ContentInv
    <3>2. CASE v # u
      BY <1>1, <1>2, <2>3, <3>2 DEF ContentInv, Others
    <3> QED
      BY <3>1, <3>2
  <2>4. ASSUME NEW v \in Tasks, t'[v].pc = "get_send"
        PROVE  v # u /\ t'[v] = t[v]
    BY <1>1, <1>2, <2>4 DEF Others
  <2> QED
    BY <1>2, <2>1, <2>3, <2>4 DEF ContentInv
<1> QED
  BY <1>4, <1>5, <1>6, <1>8, <1>9, <1>10 DEF BridgeInv

\* A write that lands late goes to an inode nobody reads.
LEMMA Keeps_write_lands ==
  ASSUME BridgeInv, NEW u \in Tasks, write_lands(u)
  PROVE  BridgeInv'
<1> TypeInv /\ FieldInv(u) /\ ClaimInv /\ InodeInv /\ TempInv /\ ContentInv
  BY DEF BridgeInv
<1>1. PICK i \in Inodes, k \in Nat : i = t[u].ino /\ k = t[u].pending /\ k # 0 /\ k = t[u].sent
  BY DEF write_lands, FieldInv, TypeInv, Task
<1>2. t[u].pc # "none" /\ k \in Blocks
  <2>1. t[u].pc # "none"
    BY <1>1 DEF FieldInv, PreOpen
  <2>2. k <= t[u].size /\ t[u].size \in 0..MaxSize
    BY <1>1, <2>1 DEF FieldInv
  <2> QED
    BY <1>1, <2>1, <2>2, BridgeAssumption DEF Blocks
<1>3. /\ content' = [content EXCEPT ![i][k] = u]
      /\ flen' = [flen EXCEPT ![i] = IF @ < k THEN k ELSE @]
      /\ t' = [t EXCEPT ![u].pending = 0]
      /\ UNCHANGED <<temp, final, claims, used, inFlight>>
  BY <1>1 DEF write_lands, counters
<1>4. /\ t' \in [Tasks -> Task] /\ Others(u)
      /\ t'[u].pc = t[u].pc /\ t'[u].ino = t[u].ino /\ t'[u].path = t[u].path
      /\ t'[u].size = t[u].size /\ t'[u].sumOk = t[u].sumOk
      /\ t'[u].sent = t[u].sent /\ t'[u].pending = 0
      /\ t'[u].opened = t[u].opened /\ t'[u].got = t[u].got
  BY <1>3, LandsRecord
<1>5. TypeInv'
  <2>1. PICK c \in [Blocks -> Tasks \cup {Hole}] : c = [content[i] EXCEPT ![k] = u]
    BY <1>2 DEF TypeInv
  <2>2. content' = [content EXCEPT ![i] = c]
    BY <1>3, <2>1 DEF TypeInv
  <2>3. content' \in [Inodes -> [Blocks -> Tasks \cup {Hole}]]
    BY <2>1, <2>2 DEF TypeInv
  <2>4. flen' \in [Inodes -> 0..MaxSize]
    <3>1. (IF flen[i] < k THEN k ELSE flen[i]) \in 0..MaxSize
      BY <1>2, BridgeAssumption DEF TypeInv, Blocks
    <3> QED
      BY <1>3, <3>1 DEF TypeInv
  <2> QED
    BY <1>3, <1>4, <2>3, <2>4 DEF TypeInv
<1>6. (\A v \in Tasks : FieldInv(v))'
  <2>1. FieldInv(u)'
    BY <1>4 DEF FieldInv
  <2> QED
    BY <1>4, <2>1, FieldRest DEF BridgeInv, Fields
<1>7. ClaimInv'
  BY <1>3, <1>4, ClaimKept
<1>8. /\ \A v \in Tasks : Own(v)' => Own(v)
      /\ \A v \in Tasks : /\ t'[v].pc = t[v].pc /\ t'[v].ino = t[v].ino /\ t'[v].path = t[v].path
                          /\ t'[v].opened = t[v].opened /\ t'[v].sumOk = t[v].sumOk
                          /\ t'[v].size = t[v].size /\ t'[v].sent = t[v].sent
                          /\ t'[v].got = t[v].got
      /\ \A j : Frozen(j)' => Frozen(j)
  BY <1>3, <1>4 DEF Own, Others, Frozen
<1>9. InodeInv'
  BY <1>3, <1>8, InodeParts DEF InodeInv
<1>10. TempInv'
  <2> SUFFICES ASSUME NEW v \in Tasks, t'[v].pc \in {"body", "commit"}
               PROVE  \/ temp[t'[v].path] = t'[v].ino
                      \/ /\ temp[t'[v].path] = NoInode
                         /\ \E w \in Tasks : ~t'[w].opened /\ t'[w].path = t'[v].path
    BY <1>3 DEF TempInv
  <2> QED
    BY <1>8 DEF TempInv
<1>11. ~Frozen(i) /\ Own(u)
  BY <1>1, InodeParts DEF Own
<1>12. \A j \in Inodes : j # i => content'[j] = content[j] /\ flen'[j] = flen[j]
  BY <1>3 DEF TypeInv
<1>13. ContentInv'
  <2>1. (\A j \in Inodes : Frozen(j) => Committed(j))'
    BY <1>8, <1>11, <1>12, CommittedKept DEF ContentInv
  <2>2. ASSUME NEW v \in Tasks, t'[v].pc \in {"body", "commit"}
        PROVE  /\ flen'[t'[v].ino] = IF t'[v].pending = 0 THEN t'[v].sent ELSE t'[v].sent - 1
               /\ \A b \in 1..flen'[t'[v].ino] : content'[t'[v].ino][b] = v
    <3>1. CASE v = u
      <4>1. flen[i] = k - 1 /\ \A b \in 1..(k - 1) : content[i][b] = u
        <5>1. t[u].pc \in {"body", "commit"}
          BY <1>8, <2>2, <3>1
        <5>2. /\ flen[t[u].ino] = IF t[u].pending = 0 THEN t[u].sent ELSE t[u].sent - 1
              /\ \A b \in 1..flen[t[u].ino] : content[t[u].ino][b] = u
          BY <5>1 DEF ContentInv
        <5>3. flen[i] = k - 1
          BY <1>1, <5>2
        <5> QED
          BY <1>1, <5>2, <5>3
      <4>2. flen'[i] = k
        BY <1>1, <1>3, <4>1 DEF TypeInv
      <4>3. \A b \in 1..k : content'[i][b] = u
        <5> SUFFICES ASSUME NEW b \in 1..k PROVE content'[i][b] = u
          OBVIOUS
        <5>1. b \in Blocks /\ (b = k \/ b \in 1..(k - 1))
          BY <1>1, <1>2, BridgeAssumption DEF Blocks
        <5> QED
          BY <1>3, <4>1, <5>1 DEF TypeInv
      <4> QED
        BY <1>1, <1>4, <3>1, <4>2, <4>3
    <3>2. CASE v # u
      <4>1. t'[v] = t[v]
        BY <1>4, <3>2 DEF Others
      <4>2. t[v].ino # i /\ t[v].ino \in Inodes
        <5>1. Own(v) /\ FieldInv(v)
          BY <2>2, <4>1 DEF Own, BridgeInv
        <5> QED
          BY <1>1, <1>11, <2>2, <3>2, <4>1, <5>1, InodeParts DEF FieldInv
      <4> QED
        BY <1>12, <2>2, <4>1, <4>2 DEF ContentInv
    <3> QED
      BY <3>1, <3>2
  <2>3. ASSUME NEW v \in Tasks, t'[v].pc = "get_send"
        PROVE  /\ t'[v].ino \in Inodes /\ t'[v].size = flen'[t'[v].ino]
               /\ Len(t'[v].got) = t'[v].sent /\ t'[v].sent <= t'[v].size
               /\ \A b \in 1..t'[v].sent : t'[v].got[b] = content'[t'[v].ino][b]
    <3>1. t[v].pc = "get_send" /\ t[v].ino \in Inodes
      BY <1>8, <2>3 DEF ContentInv
    <3>2. t[v].ino # i
      BY <1>11, <3>1 DEF Frozen
    <3> QED
      BY <1>8, <1>12, <3>1, <3>2 DEF ContentInv
  <2> QED
    BY <2>1, <2>2, <2>3 DEF ContentInv
<1> QED
  BY <1>5, <1>6, <1>7, <1>9, <1>10, <1>13 DEF BridgeInv

\* What open_temp truncates is no other stream's inode and nobody reads it.
LEMMA OpensFree ==
  ASSUME BridgeInv, NEW u \in Tasks, t[u].pc = "open",
         NEW i, i = IF temp[t[u].path] = NoInode THEN u ELSE temp[t[u].path]
  PROVE  /\ i \in Inodes /\ ~Frozen(i) /\ t[u].path \in Paths
         /\ \A v \in Tasks : Own(v) => t[v].ino # i
         /\ \A q \in Paths : q # t[u].path => temp[q] # i
         /\ \A v \in Tasks : v # u /\ t[v].pc \in PreOpen => v # i
         /\ ~Own(u)
<1> TypeInv /\ FieldInv(u) /\ ClaimInv /\ InodeInv
  BY DEF BridgeInv
<1>1. t[u].path \in Paths /\ t[u].pc \in PreOpen /\ ~Own(u)
  BY DEF FieldInv, PreOpen, Own
<1>2. i \in Inodes
  BY <1>1 DEF TypeInv, Inodes
<1>3. ~Frozen(i)
  BY <1>1, InodeParts
<1>4. ASSUME NEW v \in Tasks, Own(v) PROVE t[v].ino # i
  <2>1. CASE temp[t[u].path] = NoInode
    BY <1>1, <1>4, <2>1, InodeParts
  <2>2. CASE temp[t[u].path] # NoInode
    <3> SUFFICES ASSUME t[v].ino = temp[t[u].path] PROVE FALSE
      BY <2>2
    <3>1. /\ t[v].path = t[u].path
          /\ t[v].pc \in {"body", "commit", "drop_claim", "drop_stat", "drop_remove"}
      BY <1>1, <1>4, InodeParts
    <3>2. CASE t[v].pc \in {"body", "commit", "drop_claim"}
      <4>1. t[v].pc \in Holding /\ t[u].pc \in Holding
        BY <3>2 DEF Holding
      <4> QED
        BY <3>1, <3>2, <4>1 DEF ClaimInv
    <3>3. CASE t[v].pc \in {"drop_stat", "drop_remove"}
      <4>1. FieldInv(v) /\ t[v].pending # 0
        BY <1>4, <3>3 DEF BridgeInv, Own
      <4>2. t[v].opened /\ t[u].pc \in Holding
        BY <4>1 DEF FieldInv, Holding
      <4> QED
        BY <3>1, <3>3, <4>2 DEF ClaimInv
    <3> QED
      BY <3>1, <3>2, <3>3
  <2> QED
    BY <2>1, <2>2
<1>5. \A q \in Paths : q # t[u].path => temp[q] # i
  BY <1>1, InodeParts
<1>6. \A v \in Tasks : v # u /\ t[v].pc \in PreOpen => v # i
  BY <1>1, InodeParts
<1> QED
  BY <1>1, <1>2, <1>3, <1>4, <1>5, <1>6

LEMMA Keeps_open_temp ==
  ASSUME BridgeInv, NEW u \in Tasks, open_temp(u)
  PROVE  BridgeInv'
<1> TypeInv /\ FieldInv(u) /\ ClaimInv /\ InodeInv /\ TempInv /\ ContentInv
  BY DEF BridgeInv
<1>1. t[u].pc = "open" /\ UNCHANGED <<final, claims, used, inFlight>>
  BY DEF open_temp, counters
<1>2. PICK p, i : p = t[u].path /\ i = IF temp[p] = NoInode THEN u ELSE temp[p]
  OBVIOUS
<1>3. /\ i \in Inodes /\ ~Frozen(i) /\ p \in Paths
      /\ \A v \in Tasks : Own(v) => t[v].ino # i
      /\ \A q \in Paths : q # p => temp[q] # i
      /\ \A v \in Tasks : v # u /\ t[v].pc \in PreOpen => v # i
      /\ ~Own(u)
  BY <1>1, <1>2, OpensFree
<1>4. t[u].sent = 0 /\ t[u].pending = 0 /\ t[u].opened
  BY <1>1 DEF FieldInv, PreOpen
<1>5. CASE goto(u, "open_failed") /\ UNCHANGED <<temp, content, flen>>
  <2>1. Move(u, {"open"}, {"open_failed"})
    BY <1>1, <1>5, GotoMove DEF Places, Holding
  <2>2. Onward(t[u].pc, t'[u].pc)
    BY <2>1 DEF Move, Onward, PreOpen, Settled
  <2>3. ClaimInv'
    BY <1>1, <2>1, ClaimKept DEF Move, Same, Holding
  <2>4. used' \in Int /\ inFlight' \in Int
    BY <1>1 DEF TypeInv
  <2> QED
    BY <1>1, <1>4, <1>5, <2>1, <2>2, <2>3, <2>4, MoveInv DEF Move
<1>6. CASE /\ temp' = [temp EXCEPT ![p] = i]
           /\ content' = [content EXCEPT ![i] = [k \in Blocks |-> Hole]]
           /\ flen' = [flen EXCEPT ![i] = 0]
           /\ \/ t' = [t EXCEPT ![u].pc = "body", ![u].ino = i]
              \/ goto(u, "open_failed")
  <2>1. /\ t' \in [Tasks -> Task] /\ Others(u)
        /\ t'[u].path = p /\ t'[u].size = t[u].size /\ t'[u].sumOk = t[u].sumOk
        /\ t'[u].sent = 0 /\ t'[u].pending = 0 /\ t'[u].opened
        /\ t'[u].pc = "open_failed" \/ (t'[u].pc = "body" /\ t'[u].ino = i)
    <3>1. CASE t' = [t EXCEPT ![u].pc = "body", ![u].ino = i]
      <4>1. /\ t' \in [Tasks -> Task] /\ Others(u)
            /\ t'[u].pc = "body" /\ t'[u].ino = i /\ t'[u].path = t[u].path
            /\ t'[u].size = t[u].size /\ t'[u].sumOk = t[u].sumOk /\ t'[u].sent = t[u].sent
            /\ t'[u].pending = t[u].pending /\ t'[u].opened = t[u].opened
        <5> HIDE DEF TypeInv
        <5> QED
          BY <1>3, <3>1, OpenRecord
      <4> QED
        BY <1>2, <1>4, <4>1
    <3>2. CASE goto(u, "open_failed")
      <4>1. "open_failed" \in Places
        BY DEF Places, Holding
      <4> QED
        BY <1>2, <1>4, <3>2, <4>1, Goto DEF Same
    <3> QED
      BY <1>6, <3>1, <3>2
  <2>2. TypeInv'
    <3>1. temp' \in [Paths -> Inodes \cup {NoInode}]
      BY <1>3, <1>6 DEF TypeInv
    <3>2. [k \in Blocks |-> Hole] \in [Blocks -> Tasks \cup {Hole}]
      OBVIOUS
    <3>3. content' \in [Inodes -> [Blocks -> Tasks \cup {Hole}]]
      BY <1>6, <3>2 DEF TypeInv
    <3>4. flen' \in [Inodes -> 0..MaxSize]
      <4>1. 0 \in 0..MaxSize
        BY BridgeAssumption
      <4> QED
        BY <1>6, <4>1 DEF TypeInv
    <3> QED
      BY <1>1, <2>1, <3>1, <3>3, <3>4 DEF TypeInv
  <2>3. (\A v \in Tasks : FieldInv(v))'
    <3>1. FieldInv(u)'
      BY <1>1, <1>2, <1>3, <1>4, <2>1 DEF FieldInv, PreOpen
    <3> QED
      BY <2>1, <3>1, FieldRest DEF BridgeInv, Fields
  <2>4. ClaimInv'
    BY <1>1, <1>2, <2>1, ClaimKept DEF Holding
  <2>5. /\ \A v \in Tasks : v # u => t'[v] = t[v] /\ (Own(v)' <=> Own(v))
        /\ Own(u)' => t'[u].pc = "body" /\ t'[u].ino = i
        /\ \A j : Frozen(j)' <=> Frozen(j)
    BY <1>1, <2>1 DEF Own, Others, Frozen
  <2>6. temp'[p] = i /\ \A q \in Paths : q # p => temp'[q] = temp[q]
    BY <1>3, <1>6 DEF TypeInv
  <2>7. InodeInv'
    <3>1. (\A v, w \in Tasks : Own(v) /\ Own(w) /\ t[v].ino = t[w].ino => v = w)'
      BY <1>3, <2>5, InodeParts
    <3>2. (\A v \in Tasks, q \in Paths : Own(v) /\ temp[q] = t[v].ino =>
             /\ q = t[v].path
             /\ t[v].pc \in {"body", "commit", "drop_claim", "drop_stat", "drop_remove"})'
      <4> SUFFICES ASSUME NEW v \in Tasks, NEW q \in Paths, Own(v)', temp'[q] = t'[v].ino
                   PROVE  /\ q = t'[v].path
                          /\ t'[v].pc \in {"body", "commit", "drop_claim", "drop_stat",
                                           "drop_remove"}
        OBVIOUS
      <4>1. CASE v = u
        BY <1>3, <2>1, <2>5, <2>6, <4>1
      <4>2. CASE v # u
        <5>1. q # p
          BY <1>3, <2>5, <2>6, <4>2
        <5> QED
          BY <2>5, <2>6, <4>2, <5>1, InodeParts
      <4> QED
        BY <4>1, <4>2
    <3>3. (\A v \in Tasks : Own(v) => ~Frozen(t[v].ino))'
      BY <1>3, <2>5, InodeParts
    <3>4. (\A v \in Tasks : t[v].pc \in PreOpen =>
             /\ ~Frozen(v)
             /\ \A q \in Paths : temp[q] # v
             /\ \A w \in Tasks : Own(w) => t[w].ino # v)'
      <4> SUFFICES ASSUME NEW v \in Tasks, t'[v].pc \in PreOpen
                   PROVE  /\ ~Frozen(v)'
                          /\ \A q \in Paths : temp'[q] # v
                          /\ \A w \in Tasks : Own(w)' => t'[w].ino # v
        OBVIOUS
      <4>1. v # u /\ t[v].pc \in PreOpen
        BY <2>1, <2>5 DEF PreOpen
      <4> QED
        BY <1>3, <2>5, <2>6, <4>1, InodeParts
    <3>5. (\A q, r \in Paths : temp[q] = temp[r] /\ temp[q] # NoInode => q = r)'
      BY <1>3, <2>6, InodeParts
    <3>6. (\A q \in Paths : temp[q] # NoInode => ~Frozen(temp[q]))'
      BY <1>3, <2>5, <2>6, InodeParts
    <3> QED
      BY <3>1, <3>2, <3>3, <3>4, <3>5, <3>6 DEF InodeInv
  <2>8. TempInv'
    <3> SUFFICES ASSUME NEW v \in Tasks, t'[v].pc \in {"body", "commit"}
                 PROVE  \/ temp'[t'[v].path] = t'[v].ino
                        \/ /\ temp'[t'[v].path] = NoInode
                           /\ \E w \in Tasks : ~t'[w].opened /\ t'[w].path = t'[v].path
      BY DEF TempInv
    <3>1. CASE v = u
      BY <2>1, <2>6, <3>1
    <3>2. CASE v # u
      <4>1. t'[v] = t[v] /\ t[v].path # p /\ t[v].path \in Paths
        <5>1. t'[v] = t[v] /\ FieldInv(v)
          BY <2>5, <3>2 DEF BridgeInv
        <5>2. t[v].pc \in Holding /\ t[u].pc \in Holding
          BY <1>1, <5>1 DEF Holding
        <5>3. t[v].path \in Paths
          BY <5>1 DEF FieldInv
        <5> QED
          BY <1>2, <3>2, <5>1, <5>2, <5>3 DEF ClaimInv
      <4>2. \A w \in Tasks : ~t[w].opened => ~t'[w].opened /\ t'[w].path = t[w].path
        BY <1>4, <2>5
      <4> QED
        BY <2>6, <4>1, <4>2 DEF TempInv
    <3> QED
      BY <3>1, <3>2
  <2>9. /\ \A j \in Inodes : j # i => content'[j] = content[j] /\ flen'[j] = flen[j]
        /\ flen'[i] = 0
    BY <1>3, <1>6 DEF TypeInv
  <2>10. ContentInv'
    <3>1. (\A j \in Inodes : Frozen(j) => Committed(j))'
      <4> SUFFICES ASSUME NEW j \in Inodes, Frozen(j)' PROVE Committed(j)'
        OBVIOUS
      <4>1. j # i /\ Committed(j)
        BY <1>3, <2>5 DEF ContentInv
      <4>2. \A v \in Tasks : t[v].pc \in Settled => v # u /\ t'[v] = t[v]
        BY <1>1, <2>5 DEF Settled
      <4> QED
        BY <2>9, <4>1, <4>2, CommittedKept
    <3>2. ASSUME NEW v \in Tasks, t'[v].pc \in {"body", "commit"}
          PROVE  /\ flen'[t'[v].ino] = IF t'[v].pending = 0 THEN t'[v].sent ELSE t'[v].sent - 1
                 /\ \A b \in 1..flen'[t'[v].ino] : content'[t'[v].ino][b] = v
      <4>1. CASE v = u
        <5>1. flen'[t'[v].ino] = 0
          BY <2>1, <2>9, <3>2, <4>1
        <5> QED
          BY <2>1, <4>1, <5>1
      <4>2. CASE v # u
        <5>1. t'[v] = t[v] /\ Own(v) /\ FieldInv(v)
          BY <2>5, <3>2, <4>2 DEF Own, BridgeInv
        <5>2. t[v].ino # i /\ t[v].ino \in Inodes
          BY <1>3, <3>2, <5>1 DEF FieldInv
        <5> QED
          BY <2>9, <3>2, <5>1, <5>2 DEF ContentInv
      <4> QED
        BY <4>1, <4>2
    <3>3. ASSUME NEW v \in Tasks, t'[v].pc = "get_send"
          PROVE  /\ t'[v].ino \in Inodes /\ t'[v].size = flen'[t'[v].ino]
                 /\ Len(t'[v].got) = t'[v].sent /\ t'[v].sent <= t'[v].size
                 /\ \A b \in 1..t'[v].sent : t'[v].got[b] = content'[t'[v].ino][b]
      <4>1. v # u /\ t'[v] = t[v]
        BY <2>1, <2>5, <3>3
      <4>2. Frozen(t[v].ino) /\ t[v].ino \in Inodes
        BY <3>3, <4>1 DEF Frozen, ContentInv
      <4>3. t[v].ino # i
        BY <1>3, <4>2
      <4> QED
        BY <2>9, <3>3, <4>1, <4>2, <4>3 DEF ContentInv
    <3> QED
      BY <3>1, <3>2, <3>3 DEF ContentInv
  <2> QED
    BY <2>2, <2>3, <2>4, <2>7, <2>8, <2>10 DEF BridgeInv
<1> QED
  BY <1>2, <1>5, <1>6 DEF open_temp
LEMMA InodesNamed ==
  NoInode \notin Inodes
BY BridgeAssumption DEF Inodes

\* The rename takes the upload's own inode: TempInv says that it is at the temp
\* path, and ContentInv that it is the whole body.
LEMMA Keeps_commit_put ==
  ASSUME BridgeInv, NEW u \in Tasks, commit_put(u)
  PROVE  BridgeInv'
<1> TypeInv /\ FieldInv(u) /\ ClaimInv /\ InodeInv /\ TempInv /\ ContentInv
  BY DEF BridgeInv
<1>1. t[u].pc = "commit" /\ UNCHANGED <<content, flen, claims, used, inFlight>>
  BY DEF commit_put, counters
<1>2. PICK p, i : p = t[u].path /\ i = t[u].ino
  OBVIOUS
<1>3. /\ p \in Paths /\ i \in Inodes /\ t[u].sumOk /\ t[u].sent = t[u].size /\ t[u].pending = 0
      /\ t[u].opened
  BY <1>1, <1>2 DEF FieldInv
<1>4. CASE goto(u, "drop_claim") /\ UNCHANGED <<final, temp>>
  <2>1. {"drop_claim"} \subseteq Places
    BY DEF Places, Holding
  <2>2. Move(u, {"commit"}, {"drop_claim"})
    BY <1>1, <1>4, <2>1, GotoMove
  <2>3. Onward(t[u].pc, t'[u].pc)
    BY <2>2 DEF Move, Onward, PreOpen, Settled
  <2>4. ClaimInv'
    BY <1>1, <2>2, ClaimKept DEF Move, Same, Holding
  <2>5. used' \in Int /\ inFlight' \in Int
    BY <1>1 DEF TypeInv
  <2> QED
    BY <1>1, <1>4, <2>2, <2>3, <2>4, <2>5, MoveInv DEF Move
<1>5. CASE /\ temp[p] # NoInode
           /\ final' = [final EXCEPT ![p] = temp[p]]
           /\ temp' = [temp EXCEPT ![p] = NoInode]
           /\ goto(u, "settle_in_flight")
  <2>1. temp[p] = i
    BY <1>1, <1>2, <1>5 DEF TempInv
  <2>2. /\ t' \in [Tasks -> Task] /\ Others(u) /\ Same(u)
        /\ t'[u].pc = "settle_in_flight" /\ t'[u].opened = t[u].opened
    <3>1. "settle_in_flight" \in Places
      BY DEF Places, Holding
    <3> QED
      BY <1>5, <3>1, Goto
  <2>3. /\ final'[p] = i /\ \A q \in Paths : q # p => final'[q] = final[q]
        /\ temp'[p] = NoInode /\ \A q \in Paths : q # p => temp'[q] = temp[q]
    BY <1>3, <1>5, <2>1 DEF TypeInv
  <2>4. TypeInv'
    <3>1. final' \in [Paths -> Inodes \cup {NoInode}]
      BY <1>3, <1>5, <2>1 DEF TypeInv
    <3>2. temp' \in [Paths -> Inodes \cup {NoInode}]
      BY <1>5 DEF TypeInv
    <3> QED
      BY <1>1, <2>2, <3>1, <3>2 DEF TypeInv
  <2>5. (\A v \in Tasks : FieldInv(v))'
    <3>1. FieldInv(u)'
      BY <1>1, <1>3, <2>2 DEF FieldInv, Same, PreOpen
    <3> QED
      BY <2>2, <3>1, FieldRest DEF BridgeInv, Fields
  <2>6. ClaimInv'
    BY <1>1, <2>2, ClaimKept DEF Same, Holding
  <2>7. /\ \A v \in Tasks : v # u => t'[v] = t[v] /\ (Own(v)' <=> Own(v))
        /\ ~Own(u)' /\ Own(u)
    BY <1>1, <1>3, <2>2 DEF Own, Others, Same
  <2>8. \A j \in Inodes : Frozen(j)' => Frozen(j) \/ j = i
    BY <2>2, <2>3 DEF Frozen, Others
  <2>9. \A v \in Tasks : Own(v) => t[v].ino \in Inodes
    BY DEF BridgeInv, FieldInv, Own
  <2>10. InodeInv'
    <3>1. (\A v, w \in Tasks : Own(v) /\ Own(w) /\ t[v].ino = t[w].ino => v = w)'
      BY <2>7, InodeParts
    <3>2. (\A v \in Tasks, q \in Paths : Own(v) /\ temp[q] = t[v].ino =>
             /\ q = t[v].path
             /\ t[v].pc \in {"body", "commit", "drop_claim", "drop_stat", "drop_remove"})'
      BY <2>3, <2>7, <2>9, InodesNamed, InodeParts
    <3>3. (\A v \in Tasks : Own(v) => ~Frozen(t[v].ino))'
      <4> SUFFICES ASSUME NEW v \in Tasks, Own(v)' PROVE ~Frozen(t[v].ino)'
        OBVIOUS
      <4>1. t'[v] = t[v] /\ Own(v) /\ v # u
        BY <2>7
      <4>2. t[v].ino # i /\ t[v].ino \in Inodes /\ ~Frozen(t[v].ino)
        BY <1>2, <2>7, <2>9, <4>1, InodeParts
      <4> QED
        BY <2>8, <4>1, <4>2
    <3>4. (\A v \in Tasks : t[v].pc \in PreOpen =>
             /\ ~Frozen(v)
             /\ \A q \in Paths : temp[q] # v
             /\ \A w \in Tasks : Own(w) => t[w].ino # v)'
      <4> SUFFICES ASSUME NEW v \in Tasks, t'[v].pc \in PreOpen
                   PROVE  /\ ~Frozen(v)'
                          /\ \A q \in Paths : temp'[q] # v
                          /\ \A w \in Tasks : Own(w)' => t'[w].ino # v
        OBVIOUS
      <4>1. v # u /\ t[v].pc \in PreOpen
        BY <2>2, <2>7 DEF PreOpen
      <4>2. v # i /\ v \in Inodes
        BY <1>2, <2>7, <4>1, InodeParts DEF Inodes
      <4> QED
        BY <2>3, <2>7, <2>8, <4>1, <4>2, InodesNamed, InodeParts
    <3>5. (\A q, r \in Paths : temp[q] = temp[r] /\ temp[q] # NoInode => q = r)'
      BY <2>3, InodeParts
    <3>6. (\A q \in Paths : temp[q] # NoInode => ~Frozen(temp[q]))'
      <4> SUFFICES ASSUME NEW q \in Paths, temp'[q] # NoInode PROVE ~Frozen(temp[q])'
        OBVIOUS
      <4>1. q # p /\ temp'[q] = temp[q]
        BY <2>3
      <4>2. temp[q] # i /\ temp[q] \in Inodes
        BY <1>3, <1>5, <2>1, <4>1, InodeParts DEF TypeInv
      <4> QED
        BY <2>8, <4>1, <4>2, InodeParts
    <3> QED
      BY <3>1, <3>2, <3>3, <3>4, <3>5, <3>6 DEF InodeInv
  <2>11. TempInv'
    <3> SUFFICES ASSUME NEW v \in Tasks, t'[v].pc \in {"body", "commit"}
                 PROVE  \/ temp'[t'[v].path] = t'[v].ino
                        \/ /\ temp'[t'[v].path] = NoInode
                           /\ \E w \in Tasks : ~t'[w].opened /\ t'[w].path = t'[v].path
      BY DEF TempInv
    <3>1. v # u /\ t'[v] = t[v]
      BY <2>2, <2>7
    <3>2. t[v].path # p /\ t[v].path \in Paths
      <4>1. t[v].pc \in Holding /\ t[u].pc \in Holding
        BY <1>1, <3>1 DEF Holding
      <4>2. FieldInv(v)
        BY DEF BridgeInv
      <4> QED
        BY <1>2, <3>1, <4>1, <4>2 DEF ClaimInv, FieldInv
    <3>3. \A w \in Tasks : ~t[w].opened => ~t'[w].opened /\ t'[w].path = t[w].path
      BY <1>3, <2>7
    <3> QED
      BY <2>3, <3>1, <3>2, <3>3 DEF TempInv
  <2>12. ContentInv'
    <3>1. ASSUME NEW j \in Inodes, Frozen(j)' PROVE Committed(j)'
      <4>1. CASE j = i
        <5>1. flen[i] = t[u].size /\ \A k \in 1..flen[i] : content[i][k] = u
          BY <1>1, <1>2, <1>3 DEF ContentInv
        <5>2. /\ t'[u].pc \in Settled /\ t'[u].ino = i /\ t'[u].sumOk /\ t'[u].size = flen'[i]
              /\ \A k \in 1..flen'[i] : content'[i][k] = u
          BY <1>1, <1>2, <1>3, <2>2, <5>1 DEF Same, Settled
        <5> QED
          BY <4>1, <5>2 DEF Committed
      <4>2. CASE j # i
        <5>1. Committed(j)
          BY <2>8, <3>1, <4>2 DEF ContentInv
        <5>2. \A v \in Tasks : t[v].pc \in Settled => v # u /\ t'[v] = t[v]
          BY <1>1, <2>7 DEF Settled
        <5> QED
          BY <1>1, <5>1, <5>2, CommittedKept
      <4> QED
        BY <4>1, <4>2
    <3>2. ASSUME NEW v \in Tasks, t'[v].pc \in {"body", "commit", "get_send"}
          PROVE  t'[v] = t[v]
      BY <2>2, <2>7, <3>2
    <3> QED
      BY <1>1, <3>1, <3>2 DEF ContentInv
  <2> QED
    BY <2>4, <2>5, <2>6, <2>10, <2>11, <2>12 DEF BridgeInv
<1> QED
  BY <1>2, <1>4, <1>5 DEF commit_put

\* The clean-up takes the temp name away from nobody else, unless its own open
\* had failed.
LEMMA Keeps_drop_remove ==
  ASSUME BridgeInv, NEW u \in Tasks, drop_remove(u)
  PROVE  BridgeInv'
<1> TypeInv /\ FieldInv(u) /\ ClaimInv /\ InodeInv /\ TempInv /\ ContentInv
  BY DEF BridgeInv
<1>1. PICK p : p = t[u].path
  OBVIOUS
<1>2. /\ t[u].pc = "drop_remove" /\ p \in Paths
      /\ temp' = [temp EXCEPT ![p] = NoInode]
      /\ UNCHANGED <<final, content, flen, claims, inFlight>>
  BY <1>1 DEF drop_remove, FieldInv
<1>3. /\ t' \in [Tasks -> Task] /\ Others(u) /\ Same(u)
      /\ t'[u].pc = "drop_release" /\ t'[u].opened = t[u].opened
  <2>1. "drop_release" \in Places /\ goto(u, "drop_release")
    BY DEF Places, MidSegment, drop_remove
  <2> QED
    BY <2>1, Goto
<1>4. TypeInv'
  <2>1. temp' \in [Paths -> Inodes \cup {NoInode}]
    BY <1>2 DEF TypeInv
  <2>2. used' \in Int
    <3>1. t[u].written \in Int /\ used \in Int
      BY DEF TypeInv, Task
    <3> QED
      BY <3>1 DEF drop_remove
  <2> QED
    BY <1>2, <1>3, <2>1, <2>2 DEF TypeInv
<1>5. (\A v \in Tasks : FieldInv(v))'
  <2>1. FieldInv(u)'
    BY <1>2, <1>3 DEF FieldInv, Same, PreOpen
  <2> QED
    BY <1>3, <2>1, FieldRest DEF BridgeInv, Fields
<1>6. ClaimInv'
  BY <1>2, <1>3, ClaimKept DEF Same, Holding
<1>7. /\ \A v \in Tasks : v # u => t'[v] = t[v]
      /\ \A v \in Tasks : Own(v)' => Own(v)
      /\ \A v \in Tasks : t'[v].ino = t[v].ino /\ t'[v].path = t[v].path /\ t'[v].opened = t[v].opened
      /\ \A j : Frozen(j)' => Frozen(j)
  BY <1>2, <1>3 DEF Own, Others, Same, Frozen
<1>8. temp'[p] = NoInode /\ \A q \in Paths : q # p => temp'[q] = temp[q]
  BY <1>2 DEF TypeInv
<1>9. \A v \in Tasks : Own(v) => t[v].ino \in Inodes
  BY DEF BridgeInv, FieldInv, Own
<1>10. InodeInv'
  <2>1. (\A v, w \in Tasks : Own(v) /\ Own(w) /\ t[v].ino = t[w].ino => v = w)'
    BY <1>7, InodeParts
  <2>2. (\A v \in Tasks, q \in Paths : Own(v) /\ temp[q] = t[v].ino =>
           /\ q = t[v].path
           /\ t[v].pc \in {"body", "commit", "drop_claim", "drop_stat", "drop_remove"})'
    <3> SUFFICES ASSUME NEW v \in Tasks, NEW q \in Paths, Own(v)', temp'[q] = t'[v].ino
                 PROVE  /\ q = t'[v].path
                        /\ t'[v].pc \in {"body", "commit", "drop_claim", "drop_stat",
                                         "drop_remove"}
      OBVIOUS
    <3>1. Own(v) /\ temp'[q] = t[v].ino /\ t[v].ino # NoInode
      BY <1>7, <1>9, InodesNamed
    <3>2. q # p /\ temp[q] = t[v].ino
      BY <1>8, <3>1
    <3>3. /\ q = t[v].path
          /\ t[v].pc \in {"body", "commit", "drop_claim", "drop_stat", "drop_remove"}
      BY <3>1, <3>2, InodeParts
    <3>4. v # u
      BY <1>1, <3>2, <3>3
    <3> QED
      BY <1>7, <3>3, <3>4
  <2>3. (\A v \in Tasks : Own(v) => ~Frozen(t[v].ino))'
    BY <1>7, InodeParts
  <2>4. (\A v \in Tasks : t[v].pc \in PreOpen =>
           /\ ~Frozen(v)
           /\ \A q \in Paths : temp[q] # v
           /\ \A w \in Tasks : Own(w) => t[w].ino # v)'
    <3> SUFFICES ASSUME NEW v \in Tasks, t'[v].pc \in PreOpen
                 PROVE  /\ ~Frozen(v)'
                        /\ \A q \in Paths : temp'[q] # v
                        /\ \A w \in Tasks : Own(w)' => t'[w].ino # v
      OBVIOUS
    <3>1. t[v].pc \in PreOpen /\ v \in Inodes
      BY <1>3, <1>7 DEF PreOpen, Inodes
    <3> QED
      BY <1>7, <1>8, <3>1, InodesNamed, InodeParts
  <2>5. (\A q, r \in Paths : temp[q] = temp[r] /\ temp[q] # NoInode => q = r)'
    BY <1>8, InodeParts
  <2>6. (\A q \in Paths : temp[q] # NoInode => ~Frozen(temp[q]))'
    BY <1>7, <1>8, InodeParts
  <2> QED
    BY <2>1, <2>2, <2>3, <2>4, <2>5, <2>6 DEF InodeInv
<1>11. TempInv'
  <2> SUFFICES ASSUME NEW v \in Tasks, t'[v].pc \in {"body", "commit"}
               PROVE  \/ temp'[t'[v].path] = t'[v].ino
                      \/ /\ temp'[t'[v].path] = NoInode
                         /\ \E w \in Tasks : ~t'[w].opened /\ t'[w].path = t'[v].path
    BY DEF TempInv
  <2>1. v # u /\ t'[v] = t[v] /\ t[v].path \in Paths
    <3>1. v # u /\ t'[v] = t[v] /\ FieldInv(v)
      BY <1>3, <1>7 DEF BridgeInv
    <3> QED
      BY <3>1 DEF FieldInv
  <2>2. CASE t[v].path # p
    BY <1>7, <1>8, <2>1, <2>2 DEF TempInv
  <2>3. CASE t[v].path = p
    <3>1. ~t[u].opened
      <4>1. t[v].pc \in Holding
        BY <2>1 DEF Holding
      <4> QED
        BY <1>1, <1>2, <2>3, <4>1 DEF ClaimInv
    <3> QED
      BY <1>1, <1>7, <1>8, <2>1, <2>3, <3>1
  <2> QED
    BY <2>2, <2>3
<1>12. ContentInv'
  <2>1. (\A i \in Inodes : Frozen(i) => Committed(i))'
    <3>1. \A v \in Tasks : t[v].pc \in Settled => v # u /\ t'[v] = t[v]
      BY <1>2, <1>7 DEF Settled
    <3> QED
      BY <1>2, <1>7, <3>1, CommittedKept DEF ContentInv
  <2>2. ASSUME NEW v \in Tasks, t'[v].pc \in {"body", "commit", "get_send"}
        PROVE  t'[v] = t[v]
    BY <1>3, <1>7, <2>2
  <2> QED
    BY <1>2, <2>1, <2>2 DEF ContentInv
<1> QED
  BY <1>4, <1>5, <1>6, <1>10, <1>11, <1>12 DEF BridgeInv
\* A download reads an inode that a name refers to.
LEMMA Keeps_get_open ==
  ASSUME BridgeInv, NEW u \in Tasks, get_open(u)
  PROVE  BridgeInv'
<1> TypeInv /\ FieldInv(u) /\ ClaimInv /\ InodeInv /\ TempInv /\ ContentInv
  BY DEF BridgeInv
<1>1. /\ t[u].pc = "get_open" /\ t[u].path \in Paths
      /\ UNCHANGED <<temp, final, content, flen, claims, used, inFlight>>
  BY DEF get_open, FieldInv, fsVars, counters
<1>2. t[u].sent = 0 /\ t[u].got = <<>> /\ t[u].pending = 0
  BY <1>1 DEF FieldInv
<1>3. PICK i \in Inodes \cup {NoInode} : i = final[t[u].path]
  BY <1>1 DEF TypeInv
<1>4. /\ t' \in [Tasks -> Task] /\ Others(u)
      /\ t'[u].pc = IF i = NoInode THEN "done" ELSE "get_send"
      /\ t'[u].ino = i /\ t'[u].path = t[u].path
      /\ t'[u].size = IF i = NoInode THEN 0 ELSE flen[i]
      /\ t'[u].sent = 0 /\ t'[u].pending = 0 /\ t'[u].got = <<>>
      /\ t'[u].opened = t[u].opened
  BY <1>1, <1>2, <1>3, GetOpenRecord
<1>5. TypeInv'
  BY <1>1, <1>4 DEF TypeInv
<1>6. (\A v \in Tasks : FieldInv(v))'
  <2>1. t'[u].size \in 0..MaxSize
    <3>1. CASE i = NoInode
      BY <1>4, <3>1, BridgeAssumption
    <3>2. CASE i # NoInode
      BY <1>3, <1>4, <3>2 DEF TypeInv
    <3> QED
      BY <3>1, <3>2
  <2>2. 0 <= t'[u].size
    BY <2>1, BridgeAssumption
  <2>3. FieldInv(u)'
    BY <1>1, <1>4, <2>1, <2>2 DEF FieldInv, PreOpen
  <2> QED
    BY <1>4, <2>3, FieldRest DEF BridgeInv, Fields
<1>7. ClaimInv'
  BY <1>1, <1>4, ClaimKept DEF Holding
<1>8. /\ \A v \in Tasks : v # u => t'[v] = t[v]
      /\ \A v \in Tasks : Own(v)' => Own(v) /\ v # u
      /\ \A j : Frozen(j)' => Frozen(j)
      /\ t'[u].pc \notin PreOpen
  BY <1>1, <1>3, <1>4 DEF Own, Others, Frozen, PreOpen
<1>9. InodeInv'
  BY <1>1, <1>8, InodeParts DEF InodeInv
<1>10. TempInv'
  <2> SUFFICES ASSUME NEW v \in Tasks, t'[v].pc \in {"body", "commit"}
               PROVE  \/ temp[t'[v].path] = t'[v].ino
                      \/ /\ temp[t'[v].path] = NoInode
                         /\ \E w \in Tasks : ~t'[w].opened /\ t'[w].path = t'[v].path
    BY <1>1 DEF TempInv
  <2>1. v # u /\ t'[v] = t[v]
    BY <1>4, <1>8
  <2>2. \A w \in Tasks : t'[w].opened = t[w].opened /\ t'[w].path = t[w].path
    BY <1>4, <1>8
  <2> QED
    BY <2>1, <2>2 DEF TempInv
<1>11. ContentInv'
  <2>1. (\A j \in Inodes : Frozen(j) => Committed(j))'
    <3>1. \A v \in Tasks : t[v].pc \in Settled => v # u /\ t'[v] = t[v]
      BY <1>1, <1>8 DEF Settled
    <3> QED
      BY <1>1, <1>8, <3>1, CommittedKept DEF ContentInv
  <2>2. ASSUME NEW v \in Tasks, t'[v].pc \in {"body", "commit"}
        PROVE  v # u /\ t'[v] = t[v]
    BY <1>4, <1>8, <2>2
  <2>3. ASSUME NEW v \in Tasks, t'[v].pc = "get_send"
        PROVE  /\ t'[v].ino \in Inodes /\ t'[v].size = flen'[t'[v].ino]
               /\ Len(t'[v].got) = t'[v].sent /\ t'[v].sent <= t'[v].size
               /\ \A b \in 1..t'[v].sent : t'[v].got[b] = content'[t'[v].ino][b]
    <3>1. CASE v = u
      <4>1. i # NoInode
        BY <1>4, <2>3, <3>1
      <4>2. i \in Inodes /\ t'[u].size = flen[i] /\ flen[i] \in Nat
        BY <1>3, <1>4, <4>1, BridgeAssumption DEF TypeInv
      <4>3. Len(t'[u].got) = 0
        BY <1>4
      <4> QED
        BY <1>1, <1>4, <3>1, <4>2, <4>3
    <3>2. CASE v # u
      BY <1>1, <1>8, <2>3, <3>2 DEF ContentInv
    <3> QED
      BY <3>1, <3>2
  <2> QED
    BY <1>1, <2>1, <2>2, <2>3 DEF ContentInv
<1> QED
  BY <1>5, <1>6, <1>7, <1>9, <1>10, <1>11 DEF BridgeInv

LEMMA Keeps_get_send ==
  ASSUME BridgeInv, NEW u \in Tasks, get_send(u)
  PROVE  BridgeInv'
<1> TypeInv /\ FieldInv(u) /\ ClaimInv /\ InodeInv /\ TempInv /\ ContentInv
  BY DEF BridgeInv
<1>1. /\ t[u].pc = "get_send"
      /\ UNCHANGED <<temp, final, content, flen, claims, used, inFlight>>
  BY DEF get_send, fsVars, counters
<1>2. CASE goto(u, "done")
  <2>1. {"done"} \subseteq Places
    BY DEF Places
  <2>2. Move(u, {"get_send"}, {"done"})
    BY <1>1, <1>2, <2>1, GotoMove
  <2>3. Onward(t[u].pc, t'[u].pc)
    BY <2>2 DEF Move, Onward, PreOpen, Settled
  <2>4. ClaimInv'
    BY <1>1, <2>2, ClaimKept DEF Move, Same, Holding
  <2>5. used' \in Int /\ inFlight' \in Int
    BY <1>1 DEF TypeInv
  <2> QED
    BY <1>1, <2>2, <2>3, <2>4, <2>5, MoveInv DEF Move
<1>3. CASE /\ t[u].sent < t[u].size
           /\ t' = [t EXCEPT ![u].sent = @ + 1,
                             ![u].got = Append(@, content[t[u].ino][t[u].sent + 1])]
  <2>1. PICK n \in Nat, i \in Inodes : n = t[u].sent /\ i = t[u].ino
    BY <1>1 DEF TypeInv, Task, ContentInv
  <2>2. /\ t[u].size = flen[i] /\ flen[i] \in 0..MaxSize /\ n < flen[i]
        /\ t[u].got \in Seq(Tasks \cup {Hole}) /\ Len(t[u].got) = n
        /\ \A k \in 1..n : t[u].got[k] = content[i][k]
        /\ t[u].pending = 0
    BY <1>1, <1>3, <2>1 DEF ContentInv, TypeInv, Task, FieldInv
  <2>3. n + 1 \in Blocks /\ n + 1 <= flen[i]
    BY <2>2, BridgeAssumption DEF Blocks
  <2>4. PICK c \in Tasks \cup {Hole} : c = content[i][n + 1]
    BY <2>3 DEF TypeInv
  <2>5. /\ t' \in [Tasks -> Task] /\ Others(u)
        /\ t'[u].pc = t[u].pc /\ t'[u].ino = t[u].ino /\ t'[u].path = t[u].path
        /\ t'[u].size = t[u].size /\ t'[u].sent = t[u].sent + 1
        /\ t'[u].pending = t[u].pending
        /\ t'[u].opened = t[u].opened /\ t'[u].got = Append(t[u].got, c)
    <3>1. t' = [t EXCEPT ![u].sent = @ + 1, ![u].got = Append(@, c)]
      BY <1>3, <2>1, <2>4
    <3> QED
      BY <3>1, GetChunkRecord
  <2>6. TypeInv'
    BY <1>1, <2>5 DEF TypeInv
  <2>7. (\A v \in Tasks : FieldInv(v))'
    <3>1. n + 1 <= t[u].size
      BY <2>2, <2>3
    <3>2. FieldInv(u)'
      BY <1>1, <2>1, <2>2, <2>5, <3>1 DEF FieldInv, PreOpen
    <3> QED
      BY <2>5, <3>2, FieldRest DEF BridgeInv, Fields
  <2>8. ClaimInv'
    BY <1>1, <2>5, ClaimKept
  <2>9. /\ \A v \in Tasks : v # u => t'[v] = t[v]
        /\ \A v \in Tasks : Own(v)' => Own(v)
        /\ \A v \in Tasks : /\ t'[v].pc = t[v].pc /\ t'[v].ino = t[v].ino
                            /\ t'[v].path = t[v].path /\ t'[v].opened = t[v].opened
        /\ \A j : Frozen(j)' => Frozen(j)
    BY <1>1, <2>5 DEF Own, Others, Frozen
  <2>10. InodeInv'
    BY <1>1, <2>9, InodeParts DEF InodeInv
  <2>11. TempInv'
    <3> SUFFICES ASSUME NEW v \in Tasks, t'[v].pc \in {"body", "commit"}
                 PROVE  \/ temp[t'[v].path] = t'[v].ino
                        \/ /\ temp[t'[v].path] = NoInode
                           /\ \E w \in Tasks : ~t'[w].opened /\ t'[w].path = t'[v].path
      BY <1>1 DEF TempInv
    <3> QED
      BY <2>9 DEF TempInv
  <2>12. ContentInv'
    <3>1. (\A j \in Inodes : Frozen(j) => Committed(j))'
      <4>1. \A v \in Tasks : t[v].pc \in Settled => v # u /\ t'[v] = t[v]
        BY <1>1, <2>9 DEF Settled
      <4> QED
        BY <1>1, <2>9, <4>1, CommittedKept DEF ContentInv
    <3>2. ASSUME NEW v \in Tasks, t'[v].pc \in {"body", "commit"}
          PROVE  v # u /\ t'[v] = t[v]
      BY <1>1, <2>9, <3>2
    <3>3. ASSUME NEW v \in Tasks, t'[v].pc = "get_send"
          PROVE  /\ t'[v].ino \in Inodes /\ t'[v].size = flen'[t'[v].ino]
                 /\ Len(t'[v].got) = t'[v].sent /\ t'[v].sent <= t'[v].size
                 /\ \A b \in 1..t'[v].sent : t'[v].got[b] = content'[t'[v].ino][b]
      <4>1. CASE v = u
        <5>1. PICK g \in Seq(Tasks \cup {Hole}) : g = t[u].got
          BY <2>2
        <5>2. /\ Len(Append(g, c)) = n + 1 /\ Append(g, c)[n + 1] = c
              /\ \A b \in 1..n : Append(g, c)[b] = g[b]
          BY <2>2, <5>1
        <5>3. \A b \in 1..(n + 1) : Append(g, c)[b] = content[i][b]
          <6> SUFFICES ASSUME NEW b \in 1..(n + 1) PROVE Append(g, c)[b] = content[i][b]
            OBVIOUS
          <6>1. b = n + 1 \/ b \in 1..n
            OBVIOUS
          <6> QED
            BY <2>2, <2>4, <5>1, <5>2, <6>1
        <5>4. /\ t'[v].ino = i /\ flen' = flen /\ content' = content /\ t'[v].size = flen[i]
              /\ t'[v].sent = n + 1 /\ t'[v].got = Append(g, c)
          BY <1>1, <2>1, <2>2, <2>5, <4>1, <5>1
        <5>5. /\ t'[v].ino \in Inodes /\ t'[v].size = flen'[t'[v].ino]
              /\ Len(t'[v].got) = t'[v].sent /\ t'[v].sent <= t'[v].size
          BY <2>3, <5>2, <5>4
        <5>6. \A b \in 1..t'[v].sent : t'[v].got[b] = content'[t'[v].ino][b]
          BY <5>3, <5>4
        <5> QED
          BY <5>5, <5>6
      <4>2. CASE v # u
        BY <1>1, <2>9, <3>3, <4>2 DEF ContentInv
      <4> QED
        BY <4>1, <4>2
    <3> QED
      BY <1>1, <3>1, <3>2, <3>3 DEF ContentInv
  <2> QED
    BY <2>6, <2>7, <2>8, <2>10, <2>11, <2>12 DEF BridgeInv
<1> QED
  BY <1>2, <1>3 DEF get_send

\* A step that at most takes a name away from a file, or gives it another.
LEMMA NamesInv ==
  ASSUME BridgeInv, UNCHANGED <<t, temp, content, flen, claims, used, inFlight>>,
         final' \in [Paths -> Inodes \cup {NoInode}],
         \A j \in Inodes : Frozen(j)' => Frozen(j)
  PROVE  BridgeInv'
<1> TypeInv /\ ClaimInv /\ InodeInv /\ TempInv /\ ContentInv
  BY DEF BridgeInv
<1>1. TypeInv' /\ (\A v \in Tasks : FieldInv(v))' /\ ClaimInv' /\ TempInv'
  BY DEF BridgeInv, TypeInv, FieldInv, ClaimInv, TempInv
<1>2. \A v \in Tasks : (Own(v)' <=> Own(v)) /\ (Own(v) => t[v].ino \in Inodes)
  BY DEF Own, BridgeInv, FieldInv
<1>3. InodeInv'
  <2>1. (\A v \in Tasks : Own(v) => ~Frozen(t[v].ino))'
    BY <1>2, InodeParts
  <2>2. (\A v \in Tasks : t[v].pc \in PreOpen => ~Frozen(v))'
    BY InodeParts DEF Inodes
  <2>3. (\A q \in Paths : temp[q] # NoInode => ~Frozen(temp[q]))'
    <3> SUFFICES ASSUME NEW q \in Paths, temp[q] # NoInode PROVE ~Frozen(temp[q])'
      OBVIOUS
    <3>1. temp[q] \in Inodes /\ ~Frozen(temp[q])
      BY InodeParts DEF TypeInv
    <3> QED
      BY <3>1
  <2> QED
    BY <1>2, <2>1, <2>2, <2>3, InodeParts DEF InodeInv
<1>4. ContentInv'
  <2>1. (\A j \in Inodes : Frozen(j) => Committed(j))'
    BY CommittedKept DEF ContentInv
  <2> QED
    BY <2>1 DEF ContentInv
<1> QED
  BY <1>1, <1>3, <1>4 DEF BridgeInv

LEMMA Keeps_rm ==
  ASSUME BridgeInv, NEW p \in Paths, rm(p)
  PROVE  BridgeInv'
<1>1. /\ final' = [final EXCEPT ![p] = NoInode] /\ final \in [Paths -> Inodes \cup {NoInode}]
      /\ UNCHANGED <<t, temp, content, flen, claims, used, inFlight>>
  BY DEF rm, counters, BridgeInv, TypeInv
<1>2. final' \in [Paths -> Inodes \cup {NoInode}]
  BY <1>1
<1>3. \A j \in Inodes : Frozen(j)' => Frozen(j)
  BY <1>1, InodesNamed DEF Frozen
<1> QED
  BY <1>1, <1>2, <1>3, NamesInv

LEMMA Keeps_rename ==
  ASSUME BridgeInv, NEW p \in Paths, NEW q \in Paths, rename(p, q)
  PROVE  BridgeInv'
<1>1. /\ final' = [final EXCEPT ![q] = final[p], ![p] = NoInode]
      /\ final \in [Paths -> Inodes \cup {NoInode}]
      /\ UNCHANGED <<t, temp, content, flen, claims, used, inFlight>>
  BY DEF rename, counters, BridgeInv, TypeInv
<1>2. final' \in [Paths -> Inodes \cup {NoInode}]
  BY <1>1
<1>3. \A r \in Paths : final'[r] \in {final[r], final[p], NoInode}
  BY <1>1
<1>4. \A j \in Inodes : Frozen(j)' => Frozen(j)
  BY <1>1, <1>3, InodesNamed DEF Frozen
<1> QED
  BY <1>1, <1>2, <1>4, NamesInv
-----------------------------------------------------------------------------
(***************************************************************************)
(* The theorems.                                                           *)
(***************************************************************************)

LEMMA InitBridgeInv ==
  Init => BridgeInv
<1> SUFFICES ASSUME Init PROVE BridgeInv
  OBVIOUS
<1>1. PICK p \in Paths, where \in {"nowhere", "final", "partial"} :
        /\ final = [q \in Paths |-> IF where = "final" /\ q = p THEN Old ELSE NoInode]
        /\ temp = [q \in Paths |-> IF where = "partial" /\ q = p THEN Old ELSE NoInode]
        /\ used = IF where = "nowhere" THEN 0 ELSE 1
  BY DEF Init
<1>2. /\ t = [u \in Tasks |-> NoTask] /\ claims = {} /\ inFlight = 0
      /\ content = [i \in Inodes |-> [k \in Blocks |-> Hole]]
      /\ flen = [i \in Inodes |-> IF i = Old THEN 1 ELSE 0]
  BY DEF Init
<1>3. NoTask \in Task
  <2>1. "none" \in Places /\ <<>> \in Seq(Tasks \cup {Hole})
    BY DEF Places, PreOpen
  <2> QED
    BY <2>1 DEF NoTask, Task
<1>4. \A u \in Tasks : /\ t[u].pc = "none" /\ t[u].sent = 0 /\ t[u].pending = 0 /\ t[u].opened
                       /\ t[u].size = 0
  BY <1>2 DEF NoTask
<1>5. TypeInv
  <2>1. 0 \in 0..MaxSize /\ 1 \in 0..MaxSize
    BY BridgeAssumption
  <2>2. Old \in Inodes
    BY DEF Inodes
  <2>3. t \in [Tasks -> Task]
    BY <1>2, <1>3
  <2>4. content \in [Inodes -> [Blocks -> Tasks \cup {Hole}]]
    BY <1>2
  <2>5. flen \in [Inodes -> 0..MaxSize]
    BY <1>2, <2>1
  <2>6. temp \in [Paths -> Inodes \cup {NoInode}] /\ final \in [Paths -> Inodes \cup {NoInode}]
    BY <1>1, <2>2
  <2>7. used \in Int /\ inFlight \in Int
    BY <1>1, <1>2
  <2> QED
    BY <2>3, <2>4, <2>5, <2>6, <2>7 DEF TypeInv
<1>6. \A u \in Tasks : FieldInv(u)
  BY <1>4 DEF FieldInv
<1>7. ClaimInv
  BY <1>4 DEF ClaimInv, Holding
<1>8. /\ \A u \in Tasks : ~Own(u)
      /\ \A j \in Inodes : Frozen(j) => j = Old /\ where = "final"
  BY <1>1, <1>4, InodesNamed DEF Own, Frozen
<1>9. /\ \A q \in Paths : temp[q] # NoInode => temp[q] = Old /\ q = p /\ where = "partial"
      /\ \A u \in Tasks : u # Old /\ u # NoInode
      /\ Old \in Inodes
  BY <1>1, BridgeAssumption DEF Inodes
<1>10. InodeInv
  <2>1. \A u \in Tasks : ~Frozen(u) /\ \A q \in Paths : temp[q] # u
    BY <1>8, <1>9 DEF Inodes
  <2>2. \A q \in Paths : temp[q] # NoInode => ~Frozen(temp[q])
    BY <1>8, <1>9
  <2> QED
    BY <1>8, <1>9, <2>1, <2>2 DEF InodeInv
<1>11. TempInv
  BY <1>4 DEF TempInv
<1>12. ContentInv
  BY <1>2, <1>4, <1>8, <1>9 DEF ContentInv, Committed
<1> QED
  BY <1>5, <1>6, <1>7, <1>10, <1>11, <1>12 DEF BridgeInv

LEMMA NextBridgeInv ==
  ASSUME overtaken' = {}, BridgeInv, [Next]_vars
  PROVE  BridgeInv'
<1>1. CASE session_step \/ UNCHANGED vars
  <2>1. UNCHANGED <<t, temp, final, content, flen, claims, used, inFlight>>
    BY <1>1 DEF session_step, incoming_session, authenticate_session, auth_timeout,
                session_closes, vars, fsVars, counters
  <2>2. final' \in [Paths -> Inodes \cup {NoInode}]
    BY <2>1 DEF BridgeInv, TypeInv
  <2>3. \A j \in Inodes : Frozen(j)' => Frozen(j)
    BY <2>1 DEF Frozen
  <2> QED
    BY <2>1, <2>2, <2>3, NamesInv
<1>2. ASSUME NEW u \in Tasks, accept_stream(u, "reserve") \/ accept_stream(u, "get_open")
      PROVE  BridgeInv'
  BY <1>2, Keeps_accept_stream
<1>3. ASSUME NEW u \in Tasks, put_step(u)
      PROVE  BridgeInv'
  <2>1. CASE reserve(u) \/ load_used(u) \/ load_in_flight(u) \/ resolve(u) \/ claim(u)
    BY <2>1, Keeps_reserve, Keeps_load_used, Keeps_load_in_flight, Keeps_resolve, Keeps_claim
  <2>2. CASE open_temp(u) \/ open_failed(u) \/ open_replied(u)
    BY <2>2, Keeps_open_temp, Keeps_open_failed, Keeps_open_replied
  <2>3. CASE route_put_chunk(u) \/ write_lands(u) \/ body_fails(u)
    BY <2>3, Keeps_route_put_chunk, Keeps_write_lands, Keeps_body_fails
  <2>4. CASE verify_put_checksum(u) \/ commit_put(u) \/ settle_in_flight(u) \/ settle_used(u)
    BY <2>4, Keeps_verify_put_checksum, Keeps_commit_put, Keeps_settle_in_flight,
       Keeps_settle_used
  <2>5. CASE \/ put_done(u) \/ drop_claim(u) \/ drop_stat(u) \/ drop_remove(u)
             \/ drop_release(u)
    BY <2>5, Keeps_put_done, Keeps_drop_claim, Keeps_drop_stat, Keeps_drop_remove,
       Keeps_drop_release
  <2> QED
    BY <1>3, <2>1, <2>2, <2>3, <2>4, <2>5 DEF put_step
<1>4. ASSUME NEW u \in Tasks, get_step(u)
      PROVE  BridgeInv'
  BY <1>4, Keeps_get_open, Keeps_get_send DEF get_step
<1>5. ASSUME NEW p \in Paths, rm(p)
      PROVE  BridgeInv'
  BY <1>5, Keeps_rm
<1>6. ASSUME NEW p \in Paths, NEW q \in Paths, rename(p, q)
      PROVE  BridgeInv'
  BY <1>6, Keeps_rename
<1> QED
  BY <1>1, <1>2, <1>3, <1>4, <1>5, <1>6 DEF Next

\* No step forgets a meeting of two streams.
LEMMA HistoryGrows ==
  ASSUME [Next]_vars
  PROVE  overtaken \subseteq overtaken' /\ outlived \subseteq outlived' /\ torn \subseteq torn'
<1>1. CASE session_step \/ UNCHANGED vars
  BY <1>1 DEF session_step, incoming_session, authenticate_session, auth_timeout,
              session_closes, vars, history
<1>2. ASSUME NEW u \in Tasks, accept_stream(u, "reserve") \/ accept_stream(u, "get_open")
      PROVE  UNCHANGED history
  BY <1>2 DEF accept_stream
<1>3. ASSUME NEW u \in Tasks, put_step(u)
      PROVE  /\ overtaken \subseteq overtaken' /\ outlived \subseteq outlived'
             /\ torn \subseteq torn'
  <2>1. CASE load_used(u)
    BY <2>1 DEF load_used
  <2>2. CASE claim(u)
    BY <2>2 DEF claim, taken
  <2>3. CASE settle_in_flight(u)
    BY <2>3 DEF settle_in_flight
  <2>4. CASE \/ reserve(u) \/ load_in_flight(u) \/ resolve(u)
             \/ open_temp(u) \/ open_failed(u) \/ open_replied(u)
             \/ route_put_chunk(u) \/ write_lands(u) \/ body_fails(u)
             \/ verify_put_checksum(u) \/ commit_put(u) \/ settle_used(u) \/ put_done(u)
             \/ drop_claim(u) \/ drop_stat(u) \/ drop_remove(u) \/ drop_release(u)
    BY <2>4 DEF reserve, load_in_flight, resolve, open_temp, open_failed, open_replied,
                route_put_chunk, write_lands, body_fails, verify_put_checksum, commit_put,
                settle_used, put_done, drop_claim, drop_stat, drop_remove, drop_release, history
  <2> QED
    BY <1>3, <2>1, <2>2, <2>3, <2>4 DEF put_step
<1>4. ASSUME NEW u \in Tasks, get_step(u)
      PROVE  UNCHANGED history
  BY <1>4 DEF get_step, get_open, get_send
<1>5. ASSUME NEW p \in Paths, rm(p)
      PROVE  UNCHANGED history
  BY <1>5 DEF rm
<1>6. ASSUME NEW p \in Paths, NEW q \in Paths, rename(p, q)
      PROVE  UNCHANGED history
  BY <1>6 DEF rename
<1> QED
  BY <1>1, <1>2, <1>3, <1>4, <1>5, <1>6 DEF Next, history

LEMMA InvariantHolds ==
  Spec => [](overtaken # {} \/ BridgeInv)
<1>1. (overtaken # {} \/ BridgeInv) /\ [Next]_vars => (overtaken # {} \/ BridgeInv)'
  BY NextBridgeInv, HistoryGrows
<1> QED
  BY <1>1, InitBridgeInv, PTL DEF Spec

\* Whatever the number of workers, streams, paths and blocks, as long as no stream has
\* claimed the path of an aborted upload before that upload's clean-up: what a
\* name refers to is the whole verified body of one upload or the file of the
\* start, and a download delivers blocks of one upload only.  The rename of
\* commit_put, late blocking writes of aborted uploads, the reuse of a partial's
\* inode and the clean-up of PutGuard never mix two bodies.
THEOREM FilesStayWhole ==
  Spec => []CommittedWhole
<1>1. ASSUME BridgeInv PROVE CommittedWhole
  <2> TypeInv /\ ContentInv
    BY <1>1 DEF BridgeInv
  <2>1. ASSUME NEW p \in Paths, final[p] # NoInode PROVE Whole(final[p])
    <3>1. final[p] \in Inodes /\ Frozen(final[p])
      BY <2>1 DEF TypeInv, Frozen
    <3>2. Committed(final[p])
      BY <3>1 DEF ContentInv
    <3> QED
      BY <3>2 DEF Committed, Whole
  <2>2. ASSUME NEW u \in Tasks, t[u].pc = "get_send", NEW k \in 1..t[u].sent
        PROVE  t[u].got[k] = t[u].got[1]
    <3>1. PICK i \in Inodes, n \in Nat : i = t[u].ino /\ n = t[u].sent
      BY <2>2 DEF ContentInv, TypeInv, Task
    <3>2. /\ Frozen(i) /\ n <= flen[i] /\ flen[i] \in 0..MaxSize
          /\ \A b \in 1..n : t[u].got[b] = content[i][b]
      BY <2>2, <3>1 DEF Frozen, ContentInv, TypeInv
    <3>3. k \in 1..n /\ 1 \in 1..n /\ k \in 1..flen[i] /\ 1 \in 1..flen[i]
          /\ k \in Blocks /\ 1 \in Blocks
      BY <2>2, <3>1, <3>2, BridgeAssumption DEF Blocks
    <3>4. Committed(i)
      BY <3>2 DEF ContentInv
    <3>5. content[i][k] = content[i][1]
      BY <3>3, <3>4 DEF Committed
    <3> QED
      BY <3>2, <3>3, <3>5
  <2> QED
    BY <2>1, <2>2 DEF CommittedWhole, FilesWhole
<1>2. (overtaken # {} \/ BridgeInv) => CommittedWhole
  BY <1>1 DEF CommittedWhole
<1> QED
  BY <1>2, InvariantHolds, PTL
-----------------------------------------------------------------------------
(***************************************************************************)
(* The guards that outlive their uploads' claims.                          *)
(***************************************************************************)

ArmedPcs == {"open_reply", "drop_stat", "drop_remove"}

\* A guard that may still remove the temp of another stream's upload was armed when
\* that stream took the claim, and no other has removed it.
OutlivedInv ==
  /\ \A u, v \in Tasks : t[u].pc \in Holding /\ t[v].pc \in ArmedPcs /\ t[u].path = t[v].path
                           => <<v, u>> \in outlived
  /\ \A u \in Tasks : t[u].pc \in {"body", "commit"} =>
       temp[t[u].path] = t[u].ino \/ \E v \in Tasks : <<v, u>> \in outlived

\* A step that takes no claim and puts no name on or off a temp file.
LEMMA OutlivedRest ==
  ASSUME BridgeInv, OutlivedInv, outlived \subseteq outlived', temp' = temp,
         NEW u \in Tasks, Others(u),
         t'[u].pc \in Holding => t[u].pc \in Holding /\ t'[u].path = t[u].path,
         t'[u].pc \in ArmedPcs => t[u].pc \in Holding \cup ArmedPcs /\ t'[u].path = t[u].path,
         t'[u].pc \in {"body", "commit"} => t[u].pc \in {"body", "commit"} /\ t'[u].ino = t[u].ino
  PROVE  OutlivedInv'
<1>1. ASSUME NEW v \in Tasks, NEW w \in Tasks, t'[v].pc \in Holding, t'[w].pc \in ArmedPcs,
             t'[v].path = t'[w].path
      PROVE  <<w, v>> \in outlived'
  <2>1. v # w
    BY <1>1 DEF Holding, ArmedPcs
  <2>2. t[v].pc \in Holding /\ t[v].path = t'[v].path
    BY <1>1 DEF Others
  <2>3. t[w].pc \in Holding \cup ArmedPcs /\ t[w].path = t'[w].path
    BY <1>1 DEF Others
  <2>4. t[w].pc \notin Holding
    BY <1>1, <2>1, <2>2, <2>3 DEF BridgeInv, ClaimInv
  <2> QED
    BY <1>1, <2>2, <2>3, <2>4 DEF OutlivedInv
<1>2. ASSUME NEW v \in Tasks, t'[v].pc \in {"body", "commit"}
      PROVE  temp'[t'[v].path] = t'[v].ino \/ \E w \in Tasks : <<w, v>> \in outlived'
  <2>1. t[v].pc \in {"body", "commit"} /\ t'[v].path = t[v].path /\ t'[v].ino = t[v].ino
    BY <1>2 DEF Others, Holding
  <2> QED
    BY <2>1 DEF OutlivedInv
<1> QED
  BY <1>1, <1>2 DEF OutlivedInv

LEMMA Outlived_claim ==
  ASSUME BridgeInv, OutlivedInv, overtaken' = {}, NEW u \in Tasks, claim(u)
  PROVE  OutlivedInv'
<1> TypeInv /\ ClaimInv
  BY DEF BridgeInv
<1>0. Move(u, {"claim"}, {"refused", "open"}) /\ temp' = temp
  BY Move_claim DEF claim, fsVars
<1>1. CASE t[u].path \in claims
  <2>1. goto(u, "refused") /\ outlived' = outlived
    BY <1>1 DEF claim
  <2>2. t'[u].pc = "refused" /\ Others(u) /\ Same(u)
    BY <2>1, Goto DEF Places
  <2> QED
    BY <1>0, <2>1, <2>2, OutlivedRest DEF Holding, ArmedPcs
<1>2. CASE t[u].path \notin claims
  <2>1. PICK A, U : /\ A = {v \in Armed(t[u].path) : t[v].opened}
                    /\ U = {v \in Armed(t[u].path) : ~t[v].opened}
    OBVIOUS
  <2>2. /\ overtaken' = overtaken \cup (A \X {u}) /\ outlived' = outlived \cup (U \X {u})
        /\ goto(u, "open")
    BY <1>2, <2>1 DEF claim, taken
  <2>3. ASSUME NEW v \in A PROVE FALSE
    <3>1. <<v, u>> \in A \X {u}
      BY <2>3
    <3> QED
      BY <2>2, <3>1
  <2>4. \A v \in Tasks : t[v].pc \in ArmedPcs /\ t[v].path = t[u].path => <<v, u>> \in outlived'
    BY <2>1, <2>2, <2>3 DEF Armed, ArmedPcs
  <2>5. t'[u].pc = "open" /\ Others(u) /\ t'[u].path = t[u].path
    BY <2>2, Goto DEF Places, Same, PreOpen
  <2>6. \A v, w \in Tasks : t'[v].pc \in Holding /\ t'[w].pc \in ArmedPcs /\ t'[v].path = t'[w].path
                               => <<w, v>> \in outlived'
    <3> SUFFICES ASSUME NEW v \in Tasks, NEW w \in Tasks, t'[v].pc \in Holding,
                        t'[w].pc \in ArmedPcs, t'[v].path = t'[w].path
                 PROVE  <<w, v>> \in outlived'
      OBVIOUS
    <3>1. w # u /\ t'[w] = t[w]
      BY <2>5 DEF Others, ArmedPcs
    <3>2. CASE v = u
      BY <2>4, <2>5, <3>1, <3>2
    <3>3. CASE v # u
      BY <2>2, <2>5, <3>1, <3>3 DEF Others, OutlivedInv
    <3> QED
      BY <3>2, <3>3
  <2>7. \A v \in Tasks : t'[v].pc \in {"body", "commit"} =>
          temp'[t'[v].path] = t'[v].ino \/ \E w \in Tasks : <<w, v>> \in outlived'
    BY <1>0, <2>2, <2>5 DEF Others, OutlivedInv
  <2> QED
    BY <2>6, <2>7 DEF OutlivedInv
<1> QED
  BY <1>1, <1>2

\* A step that changes what is at the temp path of the upload that holds the claim,
\* or of one whose guard is armed.
LEMMA OutlivedTemp ==
  ASSUME BridgeInv, OutlivedInv, outlived' = outlived,
         NEW u \in Tasks, Others(u), t'[u].path = t[u].path,
         t[u].pc \in Holding \cup ArmedPcs,
         t'[u].pc \in Holding => t[u].pc \in Holding,
         t'[u].pc \notin ArmedPcs,
         t'[u].pc \in {"body", "commit"} => temp'[t[u].path] = t'[u].ino,
         \A q \in Paths : q # t[u].path => temp'[q] = temp[q]
  PROVE  OutlivedInv'
<1>1. \A v, w \in Tasks : t'[v].pc \in Holding /\ t'[w].pc \in ArmedPcs /\ t'[v].path = t'[w].path
                             => <<w, v>> \in outlived'
  BY DEF OutlivedInv, Others
<1>2. ASSUME NEW v \in Tasks, v # u, t'[v].pc \in {"body", "commit"}
      PROVE  temp'[t'[v].path] = t'[v].ino \/ \E w \in Tasks : <<w, v>> \in outlived'
  <2>1. t'[v] = t[v] /\ t[v].pc \in Holding /\ t[v].path \in Paths
    BY <1>2 DEF Others, Holding, BridgeInv, FieldInv
  <2>2. CASE t[v].path = t[u].path
    <3>1. t[u].pc \in ArmedPcs
      BY <1>2, <2>1, <2>2 DEF BridgeInv, ClaimInv
    <3> QED
      BY <2>1, <2>2, <3>1 DEF OutlivedInv
  <2>3. CASE t[v].path # t[u].path
    BY <1>2, <2>1, <2>3 DEF OutlivedInv
  <2> QED
    BY <2>2, <2>3
<1>3. \A v \in Tasks : t'[v].pc \in {"body", "commit"} =>
        temp'[t'[v].path] = t'[v].ino \/ \E w \in Tasks : <<w, v>> \in outlived'
  BY <1>2
<1> QED
  BY <1>1, <1>3 DEF OutlivedInv

LEMMA Outlived_open_temp ==
  ASSUME BridgeInv, OutlivedInv, NEW u \in Tasks, open_temp(u)
  PROVE  OutlivedInv'
<1> TypeInv /\ FieldInv(u)
  BY DEF BridgeInv
<1>1. t[u].pc = "open" /\ t[u].path \in Paths /\ outlived' = outlived
  BY DEF open_temp, history, FieldInv
<1>2. PICK p, i : p = t[u].path /\ i = IF temp[p] = NoInode THEN u ELSE temp[p]
  OBVIOUS
<1>3. i \in Inodes
  BY <1>1, <1>2 DEF TypeInv, Inodes
<1>4. CASE goto(u, "open_failed") /\ temp' = temp
  <2>1. t'[u].pc = "open_failed" /\ Others(u) /\ t'[u].path = t[u].path
    BY <1>4, Goto DEF Places, Holding, Same
  <2> QED
    BY <1>1, <1>4, <2>1, OutlivedTemp DEF Holding, ArmedPcs
<1>5. CASE temp' = [temp EXCEPT ![p] = i] /\ goto(u, "open_failed")
  <2>1. t'[u].pc = "open_failed" /\ Others(u) /\ t'[u].path = t[u].path
    BY <1>5, Goto DEF Places, Holding, Same
  <2>2. \A q \in Paths : q # t[u].path => temp'[q] = temp[q]
    BY <1>2, <1>5 DEF TypeInv
  <2> QED
    BY <1>1, <2>1, <2>2, OutlivedTemp DEF Holding, ArmedPcs
<1>6. CASE temp' = [temp EXCEPT ![p] = i] /\ t' = [t EXCEPT ![u].pc = "body", ![u].ino = i]
  <2>1. Others(u) /\ t'[u].pc = "body" /\ t'[u].ino = i /\ t'[u].path = t[u].path
    BY <1>3, <1>6, OpenRecord
  <2>2. temp'[t[u].path] = i /\ \A q \in Paths : q # t[u].path => temp'[q] = temp[q]
    BY <1>1, <1>2, <1>6 DEF TypeInv
  <2> QED
    BY <1>1, <2>1, <2>2, OutlivedTemp DEF Holding, ArmedPcs
<1> QED
  BY <1>2, <1>4, <1>5, <1>6 DEF open_temp

LEMMA Outlived_commit_put ==
  ASSUME BridgeInv, OutlivedInv, NEW u \in Tasks, commit_put(u)
  PROVE  OutlivedInv'
<1> TypeInv
  BY DEF BridgeInv
<1>1. t[u].pc = "commit" /\ outlived' = outlived
  BY DEF commit_put, history
<1>2. PICK pc \in {"settle_in_flight", "drop_claim"} : goto(u, pc)
  BY DEF commit_put
<1>3. t'[u].pc \in {"settle_in_flight", "drop_claim"} /\ Others(u) /\ t'[u].path = t[u].path
  BY <1>2, Goto DEF Places, Holding, Same
<1>4. \A q \in Paths : q # t[u].path => temp'[q] = temp[q]
  BY DEF commit_put, TypeInv
<1> QED
  BY <1>1, <1>3, <1>4, OutlivedTemp DEF Holding, ArmedPcs

LEMMA Outlived_drop_remove ==
  ASSUME BridgeInv, OutlivedInv, NEW u \in Tasks, drop_remove(u)
  PROVE  OutlivedInv'
<1> TypeInv
  BY DEF BridgeInv
<1>1. t[u].pc = "drop_remove" /\ outlived' = outlived
  BY DEF drop_remove, history
<1>2. t'[u].pc = "drop_release" /\ Others(u) /\ t'[u].path = t[u].path
  <2>1. goto(u, "drop_release") /\ "drop_release" \in Places
    BY DEF drop_remove, Places, MidSegment
  <2> QED
    BY <2>1, Goto DEF Same
<1>3. \A q \in Paths : q # t[u].path => temp'[q] = temp[q]
  BY DEF drop_remove, TypeInv
<1> QED
  BY <1>1, <1>2, <1>3, OutlivedTemp DEF Holding, ArmedPcs

\* The other steps of an upload.
LEMMA Outlived_moves ==
  ASSUME BridgeInv, OutlivedInv, outlived \subseteq outlived', NEW u \in Tasks,
         \/ reserve(u) \/ load_used(u) \/ load_in_flight(u) \/ resolve(u)
         \/ open_failed(u) \/ open_replied(u)
         \/ route_put_chunk(u) \/ write_lands(u) \/ body_fails(u)
         \/ verify_put_checksum(u) \/ settle_in_flight(u) \/ settle_used(u) \/ put_done(u)
         \/ drop_claim(u) \/ drop_stat(u) \/ drop_release(u)
  PROVE  OutlivedInv'
<1> TypeInv /\ FieldInv(u)
  BY DEF BridgeInv
<1>0. temp' = temp
  BY DEF reserve, load_used, load_in_flight, resolve, open_failed, open_replied,
         route_put_chunk, write_lands, body_fails, verify_put_checksum, settle_in_flight,
         settle_used, put_done, drop_claim, drop_stat, drop_release, fsVars
<1>1. CASE reserve(u) \/ load_used(u) \/ load_in_flight(u) \/ resolve(u)
  <2>1. Others(u) /\ t'[u].pc \in {"load_used", "load_in_flight", "refused", "resolve", "claim"}
    BY <1>1, Move_reserve, Move_load_used, Move_load_in_flight, Move_resolve DEF Move
  <2> QED
    BY <1>0, <2>1, OutlivedRest DEF Holding, ArmedPcs
<1>2. CASE open_failed(u)
  <2>1. Others(u) /\ Same(u) /\ t'[u].pc = "open_reply" /\ t[u].pc = "open_failed"
    BY <1>2, OpenFailedRecord DEF open_failed
  <2> QED
    BY <1>0, <2>1, OutlivedRest DEF Holding, ArmedPcs, Same
<1>3. CASE open_replied(u) \/ drop_claim(u) \/ drop_stat(u)
  <2>1. /\ Others(u) /\ Same(u) /\ t'[u].pc \in {"drop_stat", "drop_remove"}
        /\ t[u].pc \in {"open_reply", "drop_claim", "drop_stat"}
    <3>1. drop_stat(u) => t[u].path \in Paths
      BY DEF drop_stat, FieldInv
    <3> QED
      BY <1>3, <3>1, Move_open_replied, Move_drop_claim, Move_drop_stat DEF Move
  <2> QED
    BY <1>0, <2>1, OutlivedRest DEF Holding, ArmedPcs, Same
<1>4. CASE route_put_chunk(u) \/ write_lands(u)
  <2>1. /\ Others(u) /\ t'[u].pc = t[u].pc /\ t'[u].path = t[u].path /\ t'[u].ino = t[u].ino
    <3>1. write_lands(u) => t' = [t EXCEPT ![u].pending = 0]
      BY DEF write_lands
    <3> QED
      BY <1>4, <3>1, ChunkRecord, LandsRecord
  <2> QED
    BY <1>0, <2>1, OutlivedRest
<1>5. CASE body_fails(u) \/ verify_put_checksum(u)
  <2>1. /\ Others(u) /\ Same(u) /\ t'[u].pc \in {"commit", "drop_claim"} /\ t[u].pc = "body"
    BY <1>5, Move_body_fails, Move_verify_put_checksum DEF Move
  <2> QED
    BY <1>0, <2>1, OutlivedRest DEF Holding, ArmedPcs, Same
<1>6. CASE settle_in_flight(u) \/ settle_used(u)
  <2>1. /\ Others(u) /\ Same(u) /\ t'[u].pc \in {"settle_used", "reply"}
        /\ t[u].pc \in {"settle_in_flight", "settle_used"}
    BY <1>6, Move_settle_in_flight, Move_settle_used DEF Move
  <2> QED
    BY <1>0, <2>1, OutlivedRest DEF Holding, ArmedPcs, Same
<1>7. CASE put_done(u) \/ drop_release(u)
  <2>1. Others(u) /\ t'[u].pc = "done"
    BY <1>7, Move_put_done, Move_drop_release DEF Move
  <2> QED
    BY <1>0, <2>1, OutlivedRest DEF Holding, ArmedPcs
<1> QED
  BY <1>1, <1>2, <1>3, <1>4, <1>5, <1>6, <1>7

LEMMA Outlived_get ==
  ASSUME BridgeInv, OutlivedInv, outlived \subseteq outlived', NEW u \in Tasks,
         accept_stream(u, "reserve") \/ accept_stream(u, "get_open") \/ get_step(u)
  PROVE  OutlivedInv'
<1> TypeInv /\ FieldInv(u)
  BY DEF BridgeInv
<1>0. temp' = temp
  BY DEF accept_stream, get_step, get_open, get_send, fsVars
<1>1. CASE accept_stream(u, "reserve") \/ accept_stream(u, "get_open")
  <2>1. Others(u) /\ t'[u].pc \in {"reserve", "get_open"}
    BY <1>1, AcceptRecord
  <2> QED
    BY <1>0, <2>1, OutlivedRest DEF Holding, ArmedPcs
<1>2. CASE get_open(u)
  <2>1. t[u].path \in Paths
    BY <1>2 DEF get_open, FieldInv
  <2>2. Others(u) /\ t'[u].pc \in {"done", "get_send"}
    BY <1>2, <2>1, GetOpenRecord
  <2> QED
    BY <1>0, <2>2, OutlivedRest DEF Holding, ArmedPcs
<1>3. CASE get_send(u)
  <2>1. Others(u) /\ t'[u].pc \in {"done", "get_send"}
    <3>1. CASE t[u].sent < t[u].size
      <4>1. PICK c : c = content[t[u].ino][t[u].sent + 1]
        OBVIOUS
      <4>2. t[u].pc = "get_send" /\ t' = [t EXCEPT ![u].sent = @ + 1, ![u].got = Append(@, c)]
        BY <1>3, <3>1, <4>1 DEF get_send
      <4>3. c \in Tasks \cup {Hole}
        <5>1. /\ t[u].ino \in Inodes /\ t[u].size = flen[t[u].ino]
              /\ t[u].sent \in Nat /\ flen[t[u].ino] \in 0..MaxSize
          BY <4>2 DEF BridgeInv, ContentInv, TypeInv, Task
        <5>2. t[u].sent + 1 \in Blocks
          BY <3>1, <5>1, BridgeAssumption DEF Blocks
        <5> QED
          BY <4>1, <5>1, <5>2 DEF TypeInv
      <4> QED
        BY <4>2, <4>3, GetChunkRecord
    <3>2. CASE ~(t[u].sent < t[u].size)
      <4>1. goto(u, "done")
        BY <1>3, <3>2 DEF get_send
      <4> QED
        BY <4>1, Goto DEF Places
    <3> QED
      BY <3>1, <3>2
  <2> QED
    BY <1>0, <2>1, OutlivedRest DEF Holding, ArmedPcs
<1> QED
  BY <1>1, <1>2, <1>3 DEF get_step

LEMMA NextOutlivedInv ==
  ASSUME BridgeInv, OutlivedInv, overtaken' = {}, [Next]_vars
  PROVE  OutlivedInv'
<1>0. outlived \subseteq outlived'
  BY HistoryGrows
<1>1. CASE session_step \/ UNCHANGED vars \/ (\E p \in Paths : rm(p))
           \/ (\E p, q \in Paths : rename(p, q))
  <2>1. UNCHANGED <<t, temp>>
    BY <1>1 DEF session_step, incoming_session, authenticate_session, auth_timeout,
                session_closes, vars, fsVars, rm, rename
  <2> QED
    BY <1>0, <2>1 DEF OutlivedInv
<1>2. ASSUME NEW u \in Tasks, accept_stream(u, "reserve") \/ accept_stream(u, "get_open")
      PROVE  OutlivedInv'
  BY <1>0, <1>2, Outlived_get
<1>3. ASSUME NEW u \in Tasks, put_step(u)
      PROVE  OutlivedInv'
  BY <1>0, <1>3, Outlived_claim, Outlived_open_temp, Outlived_commit_put, Outlived_drop_remove,
     Outlived_moves DEF put_step
<1>4. ASSUME NEW u \in Tasks, get_step(u)
      PROVE  OutlivedInv'
  BY <1>0, <1>4, Outlived_get
<1> QED
  BY <1>1, <1>2, <1>3, <1>4 DEF Next

\* Whatever the number of workers, from the open to the commit the temp path refers to
\* the inode that the upload writes; what takes the name away is the guard of an
\* upload whose own open failed and that was armed when this one took the claim, or
\* follows the step in which a stream claims the path of an aborted upload before
\* that upload's clean-up.
THEOREM ClaimsProtectTemps ==
  Spec => []ClaimProtectsTemp
<1>1. Init => OutlivedInv
  BY DEF Init, NoTask, OutlivedInv, Holding
<1>2. (overtaken # {} \/ BridgeInv) /\ (overtaken # {} \/ OutlivedInv) /\ [Next]_vars
        => (overtaken # {} \/ OutlivedInv)'
  BY NextOutlivedInv, HistoryGrows
<1>3. (overtaken # {} \/ OutlivedInv) => ClaimProtectsTemp
  BY DEF OutlivedInv, ClaimProtectsTemp
<1> QED
  BY <1>1, <1>2, <1>3, InvariantHolds, PTL DEF Spec
-----------------------------------------------------------------------------
(***************************************************************************)
(* The quota.  An inode on disk is either covered, by the reservation of   *)
(* the upload that has it open, or charged to used_bytes.                  *)
(***************************************************************************)

\* The upload opened its temp file, and has neither charged nor removed it.
CoverPcs == {"body", "commit", "settle_in_flight", "settle_used",
             "drop_claim", "drop_stat", "drop_remove"}
Settling == {"settle_in_flight", "settle_used"}
Covers(u) == t[u].pc \in CoverPcs /\ t[u].opened
Keep(u) == Own(u) \/ Covers(u)

\* An inode is covered once, and under no other name than its upload's.
HoldInv ==
  /\ \A u, v \in Tasks : Keep(u) /\ Covers(v) /\ t[u].ino = t[v].ino => u = v
  /\ \A u \in Tasks, p \in Paths : Covers(u) /\ temp[p] = t[u].ino =>
       p = t[u].path /\ t[u].pc \notin Settling
  /\ \A u \in Tasks, p \in Paths : Covers(u) /\ final[p] = t[u].ino => t[u].pc \in Settling
  /\ \A u, v \in Tasks : t[u].pc \in PreOpen /\ Covers(v) => t[v].ino # u
  /\ \A u \in Tasks : Covers(u) => t[u].ino \in Inodes /\ flen[t[u].ino] <= t[u].size

\* The blocks on disk that no reservation covers.
Charged == {i \in Linked : \A u \in Tasks : Covers(u) => t[u].ino # i}
Cost == {b \in Charged \X Blocks : b[2] <= flen[b[1]]}

\* The blocks that the streams at the places P asked for.
AskedOf(s, P) == {b \in Tasks \X Blocks : s[b[1]].pc \in P /\ b[2] <= s[b[1]].size}
Asked(P) == AskedOf(t, P)

\* The reservation is in in_flight_bytes; the quota check let the upload through
\* and its bytes are neither charged nor given back.
Reserved == {"load_used", "load_in_flight", "refused", "resolve", "claim", "open",
             "open_failed", "open_reply", "body", "commit", "settle_in_flight",
             "drop_claim", "drop_stat", "drop_remove", "drop_release"}
Admitted == {"resolve", "claim", "open", "open_failed", "open_reply"} \cup CoverPcs

\* The blocks that guards have charged and will refund when they have removed them.
Refund(r) == [pc |-> r.pc, size |-> r.written]
Refunds == AskedOf([u \in Tasks |-> Refund(t[u])], {"drop_remove"})

\* What is charged covers the refunds to come too, however many guards are at work;
\* and a quota check between its two loads has seen all that is charged, and all
\* that is between the two operations of a settlement, unless it is torn.
UsageInv ==
  /\ inFlight = Cardinality(Asked(Reserved))
  /\ \A u \in Tasks : t[u].pc = "drop_remove" => t[u].written \in 0..MaxSize
  /\ Cardinality(Cost) + Cardinality(Refunds) <= used
  /\ \A u \in Tasks : t[u].pc = "load_in_flight" =>
       \/ u \in torn
       \/ Cardinality(Cost) + Cardinality(Asked({"settle_used"})) <= t[u].loaded

QuotaInv == torn # {} \/ Cardinality(Cost) + Cardinality(Asked(Admitted)) <= Quota
-----------------------------------------------------------------------------
(***************************************************************************)
(* Counting blocks.                                                        *)
(***************************************************************************)

LEMMA BlocksFinite ==
  ASSUME NEW S, IsFiniteSet(S)
  PROVE  IsFiniteSet(S \X Blocks)
<1>1. IsFiniteSet(Blocks)
  BY BridgeAssumption, FS_Interval DEF Blocks
<1> QED
  BY <1>1, FS_Product

LEMMA CostFinite ==
  ASSUME NEW S \in SUBSET (Inodes \X Blocks)
  PROVE  IsFiniteSet(S) /\ Cardinality(S) \in Nat
<1>1. IsFiniteSet(Inodes)
  BY BridgeAssumption, FS_AddElement DEF Inodes
<1>2. IsFiniteSet(Inodes \X Blocks)
  BY <1>1, BlocksFinite
<1>3. IsFiniteSet(S)
  BY <1>2, FS_Subset
<1> QED
  BY <1>3, FS_CardinalityType

LEMMA CostNat ==
  /\ IsFiniteSet(Cost) /\ Cardinality(Cost) \in Nat
  /\ IsFiniteSet(Cost') /\ Cardinality(Cost') \in Nat
<1>1. Cost \in SUBSET (Inodes \X Blocks) /\ Cost' \in SUBSET (Inodes \X Blocks)
  BY DEF Cost, Charged, Linked
<1> QED
  BY <1>1, CostFinite

LEMMA AskedFinite ==
  ASSUME NEW s, NEW P
  PROVE  IsFiniteSet(AskedOf(s, P)) /\ Cardinality(AskedOf(s, P)) \in Nat
<1>1. IsFiniteSet(Tasks \X Blocks)
  BY BridgeAssumption, BlocksFinite
<1>2. AskedOf(s, P) \in SUBSET (Tasks \X Blocks)
  BY DEF AskedOf
<1>3. IsFiniteSet(AskedOf(s, P))
  BY <1>1, <1>2, FS_Subset
<1> QED
  BY <1>3, FS_CardinalityType

\* The blocks of one stream.
LEMMA OneShare ==
  ASSUME NEW u, NEW n \in 0..MaxSize
  PROVE  /\ IsFiniteSet({u} \X (1..n)) /\ Cardinality({u} \X (1..n)) = n
<1>1. MaxSize \in Nat /\ n \in Nat
  BY BridgeAssumption
<1>2. IsFiniteSet(1..n) /\ Cardinality(1..n) = n
  BY <1>1, FS_Interval
<1>3. IsFiniteSet({u}) /\ Cardinality({u}) = 1
  BY FS_Singleton
<1>4. /\ IsFiniteSet({u} \X (1..n))
      /\ Cardinality({u} \X (1..n)) = Cardinality({u}) * Cardinality(1..n)
  BY <1>2, <1>3, FS_Product
<1> QED
  BY <1>1, <1>2, <1>3, <1>4

\* What a stream with the record r has asked for, if it is at one of the places P.
Share(r, P) == IF r.pc \in P THEN r.size ELSE 0

LEMMA ShareParts ==
  ASSUME NEW s, NEW P, NEW u \in Tasks, s[u].pc \in P => s[u].size \in 0..MaxSize,
         NEW R, R = {b \in AskedOf(s, P) : b[1] # u}
  PROVE  /\ IsFiniteSet(R) /\ Cardinality(R) \in Nat /\ Share(s[u], P) \in Nat
         /\ Cardinality(AskedOf(s, P)) = Cardinality(R) + Share(s[u], P)
<1>0. PICK n : n = Share(s[u], P)
  OBVIOUS
<1>1. n \in 0..MaxSize /\ n \in Nat
  BY <1>0, BridgeAssumption DEF Share
<1>2. IsFiniteSet(R) /\ Cardinality(R) \in Nat
  <2>1. R \in SUBSET AskedOf(s, P)
    OBVIOUS
  <2>2. IsFiniteSet(R)
    BY <2>1, AskedFinite, FS_Subset
  <2> QED
    BY <2>2, FS_CardinalityType
<1>n. PICK N : N = {u} \X (1..n)
  OBVIOUS
<1>3. IsFiniteSet(N) /\ Cardinality(N) = n
  BY <1>1, <1>n, OneShare
<1>4. R \cap N = {}
  BY <1>n
<1>5. AskedOf(s, P) = R \cup N
  <2>1. ASSUME NEW b \in AskedOf(s, P) PROVE b \in R \cup N
    <3>1. CASE b[1] # u
      BY <3>1
    <3>2. CASE b[1] = u
      <4>1. s[u].pc \in P /\ b[2] <= s[u].size /\ b[2] \in Blocks /\ b = <<b[1], b[2]>>
        BY <3>2 DEF AskedOf
      <4>2. b[2] \in 1..n
        BY <1>0, <1>1, <4>1 DEF Share, Blocks
      <4> QED
        BY <1>n, <3>2, <4>1, <4>2
    <3> QED
      BY <3>1, <3>2
  <2>2. ASSUME NEW k \in 1..n PROVE <<u, k>> \in AskedOf(s, P)
    <3>1. s[u].pc \in P /\ n = s[u].size
      BY <1>0, <1>1 DEF Share
    <3>2. k \in Blocks /\ k <= s[u].size
      BY <1>1, <3>1, BridgeAssumption DEF Blocks
    <3> QED
      BY <3>1, <3>2 DEF AskedOf
  <2>3. \A b \in N : b \in AskedOf(s, P)
    BY <1>n, <2>2
  <2> QED
    BY <2>1, <2>3
<1>6. Cardinality(R \cap N) = 0
  BY <1>4, FS_EmptySet
<1>7. Cardinality(R \cup N) = Cardinality(R) + Cardinality(N) - Cardinality(R \cap N)
  BY <1>2, <1>3, FS_Union
<1>8. Cardinality(R \cup N) = Cardinality(R) + n
  BY <1>1, <1>2, <1>3, <1>6, <1>7
<1> QED
  BY <1>0, <1>1, <1>2, <1>5, <1>8

\* A step of stream u moves what the streams at P ask for by its own share.
LEMMA AskedStep ==
  ASSUME NEW P, NEW u \in Tasks, Others(u),
         t[u].pc \in P => t[u].size \in 0..MaxSize,
         t'[u].pc \in P => t'[u].size \in 0..MaxSize
  PROVE  /\ Cardinality(Asked(P)') = Cardinality(Asked(P)) + Share(t'[u], P) - Share(t[u], P)
         /\ Cardinality(Asked(P)) \in Nat /\ Cardinality(Asked(P)') \in Nat
         /\ Share(t[u], P) \in Nat /\ Share(t'[u], P) \in Nat
<1>a. PICK R : R = {b \in AskedOf(t, P) : b[1] # u}
  OBVIOUS
<1>b. R = {b \in AskedOf(t', P) : b[1] # u}
  BY <1>a DEF Others, AskedOf
<1>1. /\ Cardinality(R) \in Nat /\ Share(t[u], P) \in Nat
      /\ Cardinality(AskedOf(t, P)) = Cardinality(R) + Share(t[u], P)
  BY <1>a, ShareParts
<1>2. /\ Share(t'[u], P) \in Nat
      /\ Cardinality(AskedOf(t', P)) = Cardinality(R) + Share(t'[u], P)
  BY <1>b, ShareParts
<1>3. Asked(P) = AskedOf(t, P) /\ Asked(P)' = AskedOf(t', P)
  BY DEF Asked
<1> QED
  BY <1>1, <1>2, <1>3

LEMMA AskedNat ==
  ASSUME NEW P
  PROVE  /\ IsFiniteSet(Asked(P)) /\ Cardinality(Asked(P)) \in Nat
         /\ IsFiniteSet(Asked(P)') /\ Cardinality(Asked(P)') \in Nat
BY AskedFinite DEF Asked

\* What a stream with the record r will refund.
Owes(r) == IF r.pc = "drop_remove" THEN r.written ELSE 0

LEMMA RefundStep ==
  ASSUME NEW u \in Tasks, Others(u),
         t[u].pc = "drop_remove" => t[u].written \in 0..MaxSize,
         t'[u].pc = "drop_remove" => t'[u].written \in 0..MaxSize
  PROVE  /\ Cardinality(Refunds') = Cardinality(Refunds) + Owes(t'[u]) - Owes(t[u])
         /\ Owes(t[u]) \in Nat /\ Owes(t'[u]) \in Nat
         /\ Cardinality(Refunds) \in Nat /\ Cardinality(Refunds') \in Nat
<1> DEFINE P == {"drop_remove"}
<1>s. PICK s : s = [v \in Tasks |-> Refund(t[v])]
  OBVIOUS
<1>z. PICK z : z = [v \in Tasks |-> Refund(t'[v])]
  OBVIOUS
<1>0. \A v \in Tasks : s[v] = Refund(t[v]) /\ z[v] = Refund(t'[v])
  BY <1>s, <1>z
<1>1. \A v \in Tasks : v # u => z[v] = s[v]
  <2> SUFFICES ASSUME NEW v \in Tasks, v # u PROVE z[v] = s[v]
    OBVIOUS
  <2>1. t'[v] = t[v]
    BY DEF Others
  <2> QED
    BY <1>0, <2>1
<1>2. s[u].pc = t[u].pc /\ s[u].size = t[u].written /\ z[u].pc = t'[u].pc /\ z[u].size = t'[u].written
  <2>1. \A r : Refund(r).pc = r.pc /\ Refund(r).size = r.written
    BY DEF Refund
  <2> HIDE DEF Refund
  <2> QED
    BY <1>0, <2>1
<1>a. PICK R : R = {b \in AskedOf(s, P) : b[1] # u}
  OBVIOUS
<1>b. R = {b \in AskedOf(z, P) : b[1] # u}
  BY <1>a, <1>1 DEF AskedOf
<1>3. /\ Cardinality(R) \in Nat /\ Share(s[u], P) \in Nat
      /\ Cardinality(AskedOf(s, P)) = Cardinality(R) + Share(s[u], P)
  BY <1>a, <1>2, ShareParts
<1>4. /\ Share(z[u], P) \in Nat
      /\ Cardinality(AskedOf(z, P)) = Cardinality(R) + Share(z[u], P)
  BY <1>b, <1>2, ShareParts
<1>5. Share(s[u], P) = Owes(t[u]) /\ Share(z[u], P) = Owes(t'[u])
  BY <1>2 DEF Share, Owes
<1>6. Refunds = AskedOf(s, P) /\ Refunds' = AskedOf(z, P)
  BY <1>s, <1>z DEF Refunds
<1> QED
  BY <1>3, <1>4, <1>5, <1>6

LEMMA RefundNat ==
  Cardinality(Refunds) \in Nat /\ Cardinality(Refunds') \in Nat
BY AskedFinite DEF Refunds

LEMMA CostShrinks ==
  ASSUME TypeInv, TypeInv',
         \A i \in Inodes : i \in Charged' /\ flen'[i] # 0 => i \in Charged /\ flen'[i] <= flen[i]
  PROVE  Cardinality(Cost') <= Cardinality(Cost)
<1>1. ASSUME NEW b \in Cost' PROVE b \in Cost
  <2>1. b \in Charged' \X Blocks /\ b[2] <= flen'[b[1]]
    BY <1>1 DEF Cost
  <2>2. PICK i \in Charged', k \in Blocks : b = <<i, k>>
    BY <2>1
  <2>3. i \in Inodes
    BY <2>2 DEF Charged, Linked
  <2>4. flen'[i] \in 0..MaxSize /\ flen[i] \in 0..MaxSize /\ k <= flen'[i] /\ k >= 1 /\ k \in Nat
    BY <2>1, <2>2, <2>3, BridgeAssumption DEF TypeInv, Blocks
  <2>5. i \in Charged /\ k <= flen[i]
    BY <2>2, <2>3, <2>4, BridgeAssumption
  <2> QED
    BY <2>2, <2>5 DEF Cost
<1>2. Cost' \in SUBSET Cost
  BY <1>1
<1> QED
  BY <1>2, CostNat, FS_Subset

LEMMA DiskNat ==
  disk \in Nat
<1>1. {b \in Linked \X Blocks : b[2] <= flen[b[1]]} \in SUBSET (Inodes \X Blocks)
  BY DEF Linked
<1> QED
  BY <1>1, CostFinite DEF disk

\* Every block on disk is charged, or lies in the size that its upload reserved.
LEMMA DiskCovered ==
  ASSUME BridgeInv, HoldInv, NEW P, \A u \in Tasks : Covers(u) => t[u].pc \in P
  PROVE  disk <= Cardinality(Cost) + Cardinality(Asked(P))
<1> DEFINE D == {b \in Linked \X Blocks : b[2] <= flen[b[1]]}
<1> DEFINE E == {b \in D : \E u \in Tasks : Covers(u) /\ t[u].ino = b[1]}
<1>1. D = Cost \cup E /\ Cost \cap E = {}
  BY DEF Cost, Charged
<1> DEFINE f == [b \in E |-> <<CHOOSE u \in Tasks : Covers(u) /\ t[u].ino = b[1], b[2]>>]
<1>2. ASSUME NEW b \in E
      PROVE  /\ f[b] \in Asked(P) /\ f[b][2] = b[2] /\ t[f[b][1]].ino = b[1] /\ b = <<b[1], b[2]>>
  <2>1. PICK u : u = CHOOSE v \in Tasks : Covers(v) /\ t[v].ino = b[1]
    OBVIOUS
  <2>2. u \in Tasks /\ Covers(u) /\ t[u].ino = b[1]
    BY <2>1
  <2>3. f[b] = <<u, b[2]>>
    BY <2>1
  <2>4. /\ b[2] \in Blocks /\ b[2] <= flen[b[1]] /\ flen[t[u].ino] <= t[u].size
        /\ t[u].ino \in Inodes /\ b = <<b[1], b[2]>>
    BY <2>2 DEF HoldInv
  <2>5. flen[t[u].ino] \in Int /\ t[u].size \in Int /\ b[2] \in Int
    BY <2>2, <2>4, BridgeAssumption DEF BridgeInv, TypeInv, Task, Blocks
  <2>6. b[2] <= t[u].size /\ t[u].pc \in P
    BY <2>2, <2>4, <2>5
  <2> QED
    BY <2>2, <2>3, <2>4, <2>6 DEF Asked, AskedOf
<1>3. f \in Injection(E, Asked(P))
  <2>1. f \in [E -> Asked(P)]
    BY <1>2
  <2>2. ASSUME NEW b \in E, NEW c \in E, f[b] = f[c] PROVE b = c
    <3> HIDE DEF f, E
    <3> QED
      BY <1>2, <2>2
  <2>3. IsInjective(f)
    <3>1. DOMAIN f = E
      OBVIOUS
    <3> HIDE DEF f, E
    <3> QED
      BY <2>2, <3>1 DEF IsInjective
  <2> QED
    BY <2>1, <2>3 DEF Injection
<1> HIDE DEF f
<1>4. IsFiniteSet(E) /\ Cardinality(E) <= Cardinality(Asked(P)) /\ Cardinality(E) \in Nat
  BY <1>3, AskedNat, FS_Injection, FS_CardinalityType
<1>5. Cardinality(D) = Cardinality(Cost) + Cardinality(E)
  <2>1. Cardinality(Cost \cup E) = Cardinality(Cost) + Cardinality(E) - Cardinality(Cost \cap E)
    BY <1>4, CostNat, FS_Union
  <2>2. Cardinality(Cost \cap E) = 0
    BY <1>1, FS_EmptySet
  <2> HIDE DEF D, E
  <2> QED
    BY <1>1, <1>4, <2>1, <2>2, CostNat
<1>6. disk = Cardinality(D)
  BY DEF disk
<1> HIDE DEF D, E
<1> QED
  BY <1>4, <1>5, <1>6, CostNat, AskedNat
-----------------------------------------------------------------------------
(***************************************************************************)
(* What a step does to the quota.                                          *)
(***************************************************************************)

LEMMA HoldParts ==
  ASSUME HoldInv
  PROVE  /\ \A u, v \in Tasks : Keep(u) /\ Covers(v) /\ t[u].ino = t[v].ino => u = v
         /\ \A u \in Tasks, p \in Paths : Covers(u) /\ temp[p] = t[u].ino =>
              p = t[u].path /\ t[u].pc \notin Settling
         /\ \A u \in Tasks, p \in Paths : Covers(u) /\ final[p] = t[u].ino => t[u].pc \in Settling
         /\ \A u, v \in Tasks : t[u].pc \in PreOpen /\ Covers(v) => t[v].ino # u
         /\ \A u \in Tasks : Covers(u) => t[u].ino \in Inodes /\ flen[t[u].ino] <= t[u].size
BY DEF HoldInv

\* The step gives nothing a new name and nobody a new inode.
Loosens ==
  /\ \A p \in Paths : temp'[p] \in {temp[p], NoInode}
  /\ \A p \in Paths : final'[p] # NoInode => \E q \in Paths : final[q] = final'[p]
  /\ \A v \in Tasks :
       /\ Keep(v)' => Keep(v) /\ t'[v].ino = t[v].ino
       /\ Covers(v)' => /\ Covers(v) /\ t'[v].path = t[v].path
                        /\ t'[v].pc \in Settling <=> t[v].pc \in Settling
                        /\ flen'[t'[v].ino] <= t'[v].size
       /\ t'[v].pc \in PreOpen => t[v].pc \in PreOpen

LEMMA LoosensHolds ==
  ASSUME HoldInv, Loosens
  PROVE  HoldInv'
<1>1. \A v \in Tasks : Covers(v)' => Keep(v)'
  BY DEF Keep
<1>2. \A v \in Tasks : Covers(v)' =>
        t'[v].ino = t[v].ino /\ t'[v].ino \in Inodes /\ t'[v].ino # NoInode
  BY <1>1, InodesNamed, HoldParts DEF Loosens
<1>3. (\A v, w \in Tasks : Keep(v) /\ Covers(w) /\ t[v].ino = t[w].ino => v = w)'
  BY <1>2, HoldParts DEF Loosens
<1>4. (\A v \in Tasks, p \in Paths : Covers(v) /\ temp[p] = t[v].ino =>
         p = t[v].path /\ t[v].pc \notin Settling)'
  <2> SUFFICES ASSUME NEW v \in Tasks, NEW p \in Paths, Covers(v)', temp'[p] = t'[v].ino
               PROVE  p = t'[v].path /\ t'[v].pc \notin Settling
    OBVIOUS
  <2>1. Covers(v) /\ temp[p] = t[v].ino
    BY <1>2 DEF Loosens
  <2> QED
    BY <2>1, HoldParts DEF Loosens
<1>5. (\A v \in Tasks, p \in Paths : Covers(v) /\ final[p] = t[v].ino => t[v].pc \in Settling)'
  <2> SUFFICES ASSUME NEW v \in Tasks, NEW p \in Paths, Covers(v)', final'[p] = t'[v].ino
               PROVE  t'[v].pc \in Settling
    OBVIOUS
  <2>1. PICK q \in Paths : final[q] = t[v].ino
    BY <1>2 DEF Loosens
  <2> QED
    BY <2>1, HoldParts DEF Loosens
<1>6. (\A v, w \in Tasks : t[v].pc \in PreOpen /\ Covers(w) => t[w].ino # v)'
  BY <1>2, HoldParts DEF Loosens
<1>7. (\A v \in Tasks : Covers(v) => t[v].ino \in Inodes /\ flen[t[v].ino] <= t[v].size)'
  BY <1>2 DEF Loosens
<1> QED
  BY <1>3, <1>4, <1>5, <1>6, <1>7 DEF HoldInv

\* The step leaves the names and the lengths alone, and covers what was covered.
Steady(u) ==
  /\ Others(u) /\ UNCHANGED <<temp, final, flen>>
  /\ Covers(u)' <=> Covers(u)
  /\ Keep(u)' => Keep(u) /\ t'[u].ino = t[u].ino
  /\ Covers(u) => /\ t'[u].ino = t[u].ino /\ t'[u].path = t[u].path /\ t'[u].size = t[u].size
                  /\ t'[u].pc \in Settling <=> t[u].pc \in Settling
  /\ t'[u].pc \in PreOpen => t[u].pc \in PreOpen

LEMMA SteadyHolds ==
  ASSUME TypeInv, TypeInv', HoldInv, NEW u \in Tasks, Steady(u)
  PROVE  HoldInv' /\ Cardinality(Cost') <= Cardinality(Cost)
<1>1. \A v \in Tasks : /\ Covers(v)' <=> Covers(v)
                       /\ Keep(v)' => Keep(v) /\ t'[v].ino = t[v].ino
                       /\ Covers(v) => /\ t'[v].ino = t[v].ino /\ t'[v].path = t[v].path
                                       /\ t'[v].size = t[v].size
                                       /\ t'[v].pc \in Settling <=> t[v].pc \in Settling
                       /\ t'[v].pc \in PreOpen => t[v].pc \in PreOpen
  BY DEF Steady, Others, Covers, Keep, Own
<1>2. UNCHANGED <<temp, final, flen>>
  BY DEF Steady
<1>3. Loosens
  <2>1. \A v \in Tasks : Covers(v)' => flen'[t'[v].ino] <= t'[v].size
    BY <1>1, <1>2, HoldParts
  <2> QED
    BY <1>1, <1>2, <2>1 DEF Loosens
<1>4. Charged' = Charged
  BY <1>1, <1>2 DEF Charged, Linked
<1>5. \A i \in Inodes : flen'[i] <= flen[i]
  BY <1>2 DEF TypeInv
<1> QED
  BY <1>3, <1>4, <1>5, CostShrinks, LoosensHolds

\* The sizes of the streams that are not at the start.
LEMMA SizeFits ==
  ASSUME BridgeInv, NEW u \in Tasks, t[u].pc # "none"
  PROVE  t[u].size \in 0..MaxSize
BY DEF BridgeInv, FieldInv

LEMMA PlacesStarted ==
  "none" \notin Reserved /\ "none" \notin Admitted
BY DEF Reserved, Admitted, CoverPcs

\* How the counters and the record of the stream that steps must fit.
Booked(u) == inFlight' = inFlight + Share(t'[u], Reserved) - Share(t[u], Reserved)

\* What is being settled, and what is not covered, together do not grow, or else
\* every quota check that is under way is torn.
Seen(u) ==
  \/ Cardinality(Cost') + Share(t'[u], {"settle_used"})
       <= Cardinality(Cost) + Share(t[u], {"settle_used"})
  \/ \A v \in Tasks : t'[v].pc = "load_in_flight" => v \in torn'

LEMMA SettlingStep ==
  ASSUME BridgeInv, BridgeInv', NEW u \in Tasks, Others(u)
  PROVE  /\ Cardinality(Asked({"settle_used"})') = Cardinality(Asked({"settle_used"}))
              + Share(t'[u], {"settle_used"}) - Share(t[u], {"settle_used"})
         /\ Cardinality(Asked({"settle_used"})) \in Nat
         /\ Cardinality(Asked({"settle_used"})') \in Nat
         /\ Share(t[u], {"settle_used"}) \in Nat /\ Share(t'[u], {"settle_used"}) \in Nat
<1>1. /\ t[u].pc # "none" => t[u].size \in 0..MaxSize
      /\ t'[u].pc # "none" => t'[u].size \in 0..MaxSize
  BY DEF BridgeInv, FieldInv
<1>2. /\ t[u].pc \in {"settle_used"} => t[u].size \in 0..MaxSize
      /\ t'[u].pc \in {"settle_used"} => t'[u].size \in 0..MaxSize
  BY <1>1
<1> QED
  BY <1>2, AskedStep

LEMMA UsageStep ==
  ASSUME BridgeInv, BridgeInv', UsageInv, torn \subseteq torn', NEW u \in Tasks, Others(u),
         Booked(u), Seen(u),
         Cardinality(Cost') + Owes(t'[u]) - Owes(t[u]) <= Cardinality(Cost) + (used' - used),
         t'[u].pc = "drop_remove" => t'[u].written \in 0..MaxSize,
         t'[u].pc = "load_in_flight" =>
            \/ u \in torn'
            \/ Cardinality(Cost') + Cardinality(Asked({"settle_used"})') <= t'[u].loaded
  PROVE  UsageInv'
<1>1. inFlight' = Cardinality(Asked(Reserved)')
  <2>1. /\ t[u].pc \in Reserved => t[u].size \in 0..MaxSize
        /\ t'[u].pc \in Reserved => t'[u].size \in 0..MaxSize
    <3>1. t'[u].pc # "none" => t'[u].size \in 0..MaxSize
      BY DEF BridgeInv, FieldInv
    <3> QED
      BY <3>1, SizeFits, PlacesStarted
  <2>2. Cardinality(Asked(Reserved)')
          = Cardinality(Asked(Reserved)) + Share(t'[u], Reserved) - Share(t[u], Reserved)
    BY <2>1, AskedStep
  <2> QED
    BY <2>2 DEF UsageInv, Booked
<1>2. (\A v \in Tasks : t[v].pc = "drop_remove" => t[v].written \in 0..MaxSize)'
  BY DEF UsageInv, Others
<1>3. (Cardinality(Cost) + Cardinality(Refunds) <= used)'
  <2>1. /\ Cardinality(Refunds') = Cardinality(Refunds) + Owes(t'[u]) - Owes(t[u])
        /\ Owes(t[u]) \in Nat /\ Owes(t'[u]) \in Nat
        /\ Cardinality(Refunds) \in Nat /\ Cardinality(Refunds') \in Nat
    BY RefundStep DEF UsageInv
  <2>2. used \in Int /\ used' \in Int /\ Cardinality(Cost) + Cardinality(Refunds) <= used
    BY DEF BridgeInv, TypeInv, UsageInv
  <2> QED
    BY <2>1, <2>2, CostNat
<1>4. (\A v \in Tasks : t[v].pc = "load_in_flight" =>
         v \in torn \/ Cardinality(Cost) + Cardinality(Asked({"settle_used"})) <= t[v].loaded)'
  <2> SUFFICES ASSUME NEW v \in Tasks, t'[v].pc = "load_in_flight", v \notin torn', v # u
               PROVE  Cardinality(Cost') + Cardinality(Asked({"settle_used"})') <= t'[v].loaded
    OBVIOUS
  <2>1. t'[v] = t[v] /\ t[v].pc = "load_in_flight" /\ v \notin torn
    BY DEF Others
  <2>2. /\ Cardinality(Cost) + Cardinality(Asked({"settle_used"})) <= t[v].loaded
        /\ t[v].loaded \in Int
    BY <2>1 DEF UsageInv, BridgeInv, TypeInv, Task
  <2>3. Cardinality(Cost') + Share(t'[u], {"settle_used"})
          <= Cardinality(Cost) + Share(t[u], {"settle_used"})
    BY DEF Seen
  <2> QED
    BY <2>1, <2>2, <2>3, CostNat, SettlingStep
<1> QED
  BY <1>1, <1>2, <1>3, <1>4 DEF UsageInv

\* The step changes used_bytes not at all.
LEMMA UsageCalm ==
  ASSUME BridgeInv, BridgeInv', UsageInv, torn \subseteq torn', NEW u \in Tasks, Others(u),
         Booked(u), used' = used, Cardinality(Cost') <= Cardinality(Cost),
         t'[u].pc # "load_in_flight", t'[u].pc # "drop_remove", t'[u].pc # "settle_used"
  PROVE  UsageInv'
<1>1. Owes(t'[u]) = 0 /\ Owes(t[u]) \in Nat /\ Share(t'[u], {"settle_used"}) = 0
  <2>1. t[u].pc = "drop_remove" => t[u].written \in Nat
    BY BridgeAssumption DEF UsageInv
  <2> QED
    BY <2>1 DEF Owes, Share
<1>2. Share(t[u], {"settle_used"}) \in Nat /\ used \in Int
  BY SettlingStep DEF BridgeInv, TypeInv
<1>3. Seen(u)
  BY <1>1, <1>2, CostNat DEF Seen
<1>4. Cardinality(Cost') + Owes(t'[u]) - Owes(t[u]) <= Cardinality(Cost) + (used' - used)
  BY <1>1, <1>2, CostNat
<1> QED
  BY <1>3, <1>4, UsageStep

LEMMA QuotaStep ==
  ASSUME BridgeInv, BridgeInv', QuotaInv, torn \subseteq torn', NEW u \in Tasks, Others(u),
         Cardinality(Cost') <= Cardinality(Cost) + Share(t[u], Admitted) - Share(t'[u], Admitted)
  PROVE  QuotaInv'
<1>1. /\ t[u].pc \in Admitted => t[u].size \in 0..MaxSize
      /\ t'[u].pc \in Admitted => t'[u].size \in 0..MaxSize
  <2>1. t'[u].pc # "none" => t'[u].size \in 0..MaxSize
    BY DEF BridgeInv, FieldInv
  <2> QED
    BY <2>1, SizeFits, PlacesStarted
<1>2. /\ Cardinality(Asked(Admitted)')
           = Cardinality(Asked(Admitted)) + Share(t'[u], Admitted) - Share(t[u], Admitted)
      /\ Cardinality(Asked(Admitted)) \in Nat
      /\ Share(t[u], Admitted) \in Nat /\ Share(t'[u], Admitted) \in Nat
  BY <1>1, AskedStep
<1>3. Quota \in Nat
  BY BridgeAssumption
<1>4. CASE torn # {}
  BY <1>4 DEF QuotaInv
<1>5. CASE torn = {}
  <2>1. Cardinality(Cost) + Cardinality(Asked(Admitted)) <= Quota
    BY <1>5 DEF QuotaInv
  <2>2. (Cardinality(Cost) + Cardinality(Asked(Admitted)) <= Quota)'
    BY <1>2, <1>3, <2>1, CostNat
  <2> QED
    BY <2>2 DEF QuotaInv
<1> QED
  BY <1>4, <1>5

\* A stream that was not let through, or stays let through, or is through.
LEMMA QuotaCalm ==
  ASSUME BridgeInv, BridgeInv', QuotaInv, torn \subseteq torn', NEW u \in Tasks, Others(u),
         Cardinality(Cost') <= Cardinality(Cost),
         t'[u].pc \in Admitted => t[u].pc \in Admitted /\ t'[u].size = t[u].size
  PROVE  QuotaInv'
<1>1. Share(t'[u], Admitted) \in Nat /\ Share(t[u], Admitted) \in Nat
  <2>1. t[u].size \in Nat /\ t'[u].size \in Nat
    BY DEF BridgeInv, TypeInv, Task
  <2> QED
    BY <2>1 DEF Share
<1>2. Share(t'[u], Admitted) <= Share(t[u], Admitted)
  <2>1. CASE t'[u].pc \in Admitted
    <3>1. Share(t'[u], Admitted) = Share(t[u], Admitted)
      BY <2>1 DEF Share
    <3> QED
      BY <1>1, <3>1
  <2>2. CASE t'[u].pc \notin Admitted
    <3>1. Share(t'[u], Admitted) = 0
      BY <2>2 DEF Share
    <3> QED
      BY <1>1, <3>1
  <2> QED
    BY <2>1, <2>2
<1>3. Cardinality(Cost') <= Cardinality(Cost) + Share(t[u], Admitted) - Share(t'[u], Admitted)
  BY <1>1, <1>2, CostNat
<1> QED
  BY <1>3, QuotaStep

\* A step of no stream.
LEMMA QuotaRest ==
  ASSUME BridgeInv, UsageInv, torn \subseteq torn', UNCHANGED <<t, used, inFlight>>,
         Cardinality(Cost') <= Cardinality(Cost)
  PROVE  UsageInv' /\ (QuotaInv => QuotaInv')
<1>1. (\A P : Asked(P)' = Asked(P)) /\ Refunds' = Refunds
  BY DEF Asked, Refunds
<1>2. used \in Int /\ Quota \in Nat /\ \A u \in Tasks : t[u].loaded \in Int
  BY BridgeAssumption DEF BridgeInv, TypeInv, Task
<1>3. UsageInv'
  <2>1. (Cardinality(Cost) + Cardinality(Refunds) <= used)'
    BY <1>1, <1>2, CostNat, RefundNat DEF UsageInv
  <2>2. (\A u \in Tasks : t[u].pc = "load_in_flight" =>
           u \in torn \/ Cardinality(Cost) + Cardinality(Asked({"settle_used"})) <= t[u].loaded)'
    BY <1>1, <1>2, CostNat, AskedNat DEF UsageInv
  <2> QED
    BY <1>1, <2>1, <2>2 DEF UsageInv
<1>4. ASSUME QuotaInv PROVE QuotaInv'
  <2>1. CASE torn # {}
    BY <2>1 DEF QuotaInv
  <2>2. CASE torn = {}
    BY <1>1, <1>2, <1>4, <2>2, CostNat, AskedNat DEF QuotaInv
  <2> QED
    BY <2>1, <2>2
<1> QED
  BY <1>3, <1>4
-----------------------------------------------------------------------------
(***************************************************************************)
(* Steps that leave what is covered alone keep the books.                  *)
(***************************************************************************)

BooksKept == HoldInv' /\ UsageInv' /\ (QuotaInv => QuotaInv')

LEMMA SteadyStep ==
  ASSUME BridgeInv, BridgeInv', HoldInv, UsageInv, torn \subseteq torn',
         NEW u \in Tasks, Steady(u), Booked(u),
         used' = used, t'[u].pc \notin {"load_in_flight", "drop_remove", "settle_used"},
         t'[u].pc \in Admitted => t[u].pc \in Admitted /\ t'[u].size = t[u].size
  PROVE  BooksKept
<1>1. HoldInv' /\ Cardinality(Cost') <= Cardinality(Cost) /\ Others(u)
  BY SteadyHolds DEF BridgeInv, Steady
<1> QED
  BY <1>1, UsageCalm, QuotaCalm DEF BooksKept

\* From place a a stream may go on to b and cover what it covered.
Level(a, b) ==
  /\ a \in CoverPcs <=> b \in CoverPcs
  /\ a \in Settling <=> b \in Settling
  /\ b \in {"body", "commit"} => a \in {"body", "commit"}
  /\ b \in PreOpen => a \in PreOpen

LEMMA MoveSteady ==
  ASSUME NEW u \in Tasks, NEW A, NEW B, Move(u, A, B), UNCHANGED <<temp, final, flen>>,
         Level(t[u].pc, t'[u].pc)
  PROVE  Steady(u)
<1>1. Covers(u)' <=> Covers(u)
  BY DEF Covers, Move, Level
<1>2. Own(u)' => Own(u)
  BY DEF Own, Move, Same, Level
<1> QED
  BY <1>1, <1>2 DEF Steady, Keep, Move, Same, Level

LEMMA SizeNat ==
  ASSUME TypeInv, NEW u \in Tasks
  PROVE  t[u].size \in Nat /\ inFlight \in Int /\ used \in Int
BY DEF TypeInv, Task

\* A step that keeps, takes or gives back the reservation.
LEMMA KeepsReservation ==
  ASSUME TypeInv, NEW u \in Tasks, t'[u].size = t[u].size, inFlight' = inFlight,
         t[u].pc \in Reserved <=> t'[u].pc \in Reserved
  PROVE  Booked(u)
<1>1. Share(t'[u], Reserved) = Share(t[u], Reserved) /\ Share(t[u], Reserved) \in Nat
  BY SizeNat DEF Share
<1>2. inFlight \in Int
  BY SizeNat
<1>3. inFlight' = inFlight + Share(t'[u], Reserved) - Share(t[u], Reserved)
  BY <1>1, <1>2
<1> QED
  BY <1>3 DEF Booked

LEMMA TakesReservation ==
  ASSUME TypeInv, NEW u \in Tasks, t'[u].size = t[u].size, inFlight' = inFlight + t[u].size,
         t[u].pc \notin Reserved, t'[u].pc \in Reserved
  PROVE  Booked(u)
<1>1. Share(t'[u], Reserved) = t[u].size /\ Share(t[u], Reserved) = 0
  BY DEF Share
<1>2. inFlight' = inFlight + Share(t'[u], Reserved) - Share(t[u], Reserved)
  BY <1>1, SizeNat
<1> QED
  BY <1>2 DEF Booked

LEMMA ReturnsReservation ==
  ASSUME TypeInv, NEW u \in Tasks, inFlight' = inFlight - t[u].size,
         t[u].pc \in Reserved, t'[u].pc \notin Reserved
  PROVE  Booked(u)
<1>1. Share(t[u], Reserved) = t[u].size /\ Share(t'[u], Reserved) = 0
  BY DEF Share
<1>2. inFlight' = inFlight + Share(t'[u], Reserved) - Share(t[u], Reserved)
  BY <1>1, SizeNat
<1> QED
  BY <1>2 DEF Booked

\* A move that changes no counter.
LEMMA MoveBooks ==
  ASSUME BridgeInv, BridgeInv', HoldInv, UsageInv, torn \subseteq torn',
         NEW u \in Tasks, NEW A, NEW B, Move(u, A, B),
         UNCHANGED <<temp, final, flen, used, inFlight>>, Level(t[u].pc, t'[u].pc),
         t[u].pc \in Reserved <=> t'[u].pc \in Reserved,
         t'[u].pc \notin {"load_in_flight", "drop_remove", "settle_used"},
         t'[u].pc \in Admitted => t[u].pc \in Admitted
  PROVE  BooksKept
<1>1. Steady(u)
  BY MoveSteady
<1>2. t'[u].size = t[u].size
  BY DEF Move, Same
<1>3. Booked(u)
  BY <1>2, KeepsReservation DEF BridgeInv
<1> QED
  BY <1>1, <1>2, <1>3, SteadyStep

LEMMA Books_reserve ==
  ASSUME BridgeInv, BridgeInv', HoldInv, UsageInv, torn \subseteq torn',
         NEW u \in Tasks, reserve(u)
  PROVE  BooksKept
<1> TypeInv
  BY DEF BridgeInv
<1>1. Move(u, {"reserve"}, {"load_used"})
  BY Move_reserve
<1>2. t[u].pc = "reserve" /\ t'[u].pc = "load_used" /\ t'[u].size = t[u].size
  BY <1>1 DEF Move, Same
<1>3. /\ UNCHANGED <<temp, final, flen>> /\ used' = used /\ inFlight' = inFlight + t[u].size
      /\ runnable(u)
  BY DEF reserve, fsVars
<1>4. Steady(u)
  BY <1>1, <1>2, <1>3, MoveSteady DEF Level, CoverPcs, Settling, PreOpen
<1>6. Booked(u)
  BY <1>2, <1>3, TakesReservation DEF Reserved
<1> QED
  BY <1>2, <1>3, <1>4, <1>6, SteadyStep DEF Admitted, CoverPcs

LEMMA Books_resolve ==
  ASSUME BridgeInv, BridgeInv', HoldInv, UsageInv, torn \subseteq torn',
         NEW u \in Tasks, resolve(u)
  PROVE  BooksKept
<1>1. Move(u, {"resolve"}, {"refused", "claim"})
  BY Move_resolve DEF BridgeInv
<1>2. UNCHANGED <<temp, final, flen, used, inFlight>>
  BY DEF resolve, fsVars, counters
<1>3. t[u].pc = "resolve" /\ t'[u].pc \in {"refused", "claim"}
  BY <1>1 DEF Move
<1>4. Level(t[u].pc, t'[u].pc)
  BY <1>3 DEF Level, CoverPcs, Settling, PreOpen
<1> QED
  BY <1>1, <1>2, <1>3, <1>4, MoveBooks DEF Reserved, Admitted, CoverPcs, MidSegment

LEMMA Books_claim ==
  ASSUME BridgeInv, BridgeInv', HoldInv, UsageInv, torn \subseteq torn',
         NEW u \in Tasks, claim(u)
  PROVE  BooksKept
<1>1. Move(u, {"claim"}, {"refused", "open"})
  BY Move_claim DEF BridgeInv
<1>2. UNCHANGED <<temp, final, flen, used, inFlight>>
  BY DEF claim, fsVars, counters
<1>3. t[u].pc = "claim" /\ t'[u].pc \in {"refused", "open"}
  BY <1>1 DEF Move
<1>4. Level(t[u].pc, t'[u].pc)
  BY <1>3 DEF Level, CoverPcs, Settling, PreOpen
<1> QED
  BY <1>1, <1>2, <1>3, <1>4, MoveBooks DEF Reserved, Admitted, CoverPcs, MidSegment

LEMMA Books_body_fails ==
  ASSUME BridgeInv, BridgeInv', HoldInv, UsageInv, torn \subseteq torn',
         NEW u \in Tasks, body_fails(u)
  PROVE  BooksKept
<1>1. Move(u, {"body"}, {"drop_claim"})
  BY Move_body_fails DEF BridgeInv
<1>2. UNCHANGED <<temp, final, flen, used, inFlight>>
  BY DEF body_fails, fsVars, counters
<1>3. t[u].pc = "body" /\ t'[u].pc = "drop_claim"
  BY <1>1 DEF Move
<1>4. Level(t[u].pc, t'[u].pc)
  BY <1>3 DEF Level, CoverPcs, Settling, PreOpen
<1> QED
  BY <1>1, <1>2, <1>3, <1>4, MoveBooks DEF Reserved, Admitted, CoverPcs, MidSegment

LEMMA Books_verify_put_checksum ==
  ASSUME BridgeInv, BridgeInv', HoldInv, UsageInv, torn \subseteq torn',
         NEW u \in Tasks, verify_put_checksum(u)
  PROVE  BooksKept
<1>1. Move(u, {"body"}, {"commit", "drop_claim"})
  BY Move_verify_put_checksum DEF BridgeInv
<1>2. UNCHANGED <<temp, final, flen, used, inFlight>>
  BY DEF verify_put_checksum, fsVars, counters
<1>3. t[u].pc = "body" /\ t'[u].pc \in {"commit", "drop_claim"}
  BY <1>1 DEF Move
<1>4. Level(t[u].pc, t'[u].pc)
  BY <1>3 DEF Level, CoverPcs, Settling, PreOpen
<1> QED
  BY <1>1, <1>2, <1>3, <1>4, MoveBooks DEF Reserved, Admitted, CoverPcs, MidSegment

LEMMA Books_put_done ==
  ASSUME BridgeInv, BridgeInv', HoldInv, UsageInv, torn \subseteq torn',
         NEW u \in Tasks, put_done(u)
  PROVE  BooksKept
<1>1. Move(u, {"reply"}, {"done"})
  BY Move_put_done DEF BridgeInv
<1>2. UNCHANGED <<temp, final, flen, used, inFlight>>
  BY DEF put_done, fsVars, counters
<1>3. t[u].pc = "reply" /\ t'[u].pc = "done"
  BY <1>1 DEF Move
<1>4. Level(t[u].pc, t'[u].pc)
  BY <1>3 DEF Level, CoverPcs, Settling, PreOpen
<1> QED
  BY <1>1, <1>2, <1>3, <1>4, MoveBooks DEF Reserved, Admitted, CoverPcs, MidSegment

LEMMA Books_drop_claim ==
  ASSUME BridgeInv, BridgeInv', HoldInv, UsageInv, torn \subseteq torn',
         NEW u \in Tasks, drop_claim(u)
  PROVE  BooksKept
<1>1. Move(u, {"drop_claim"}, {"drop_stat"})
  BY Move_drop_claim DEF BridgeInv
<1>2. UNCHANGED <<temp, final, flen, used, inFlight>> /\ runnable(u)
  BY DEF drop_claim, fsVars, counters
<1>3. t[u].pc = "drop_claim" /\ t'[u].pc = "drop_stat"
  BY <1>1 DEF Move
<1>4. Level(t[u].pc, t'[u].pc)
  BY <1>3 DEF Level, CoverPcs, Settling, PreOpen
<1> QED
  BY <1>1, <1>2, <1>3, <1>4, MoveBooks DEF Reserved, Admitted, CoverPcs

LEMMA Books_settle_in_flight ==
  ASSUME BridgeInv, BridgeInv', HoldInv, UsageInv, torn \subseteq torn',
         NEW u \in Tasks, settle_in_flight(u)
  PROVE  BooksKept
<1> TypeInv
  BY DEF BridgeInv
<1>1. Move(u, {"settle_in_flight"}, {"settle_used"})
  BY Move_settle_in_flight
<1>2. t[u].pc = "settle_in_flight" /\ t'[u].pc = "settle_used" /\ t'[u].size = t[u].size
  BY <1>1 DEF Move, Same
<1>3. /\ UNCHANGED <<temp, final, flen>> /\ used' = used /\ inFlight' = inFlight - t[u].size
      /\ runnable(u)
  BY DEF settle_in_flight, fsVars
<1>4. Steady(u)
  BY <1>1, <1>2, <1>3, MoveSteady DEF Level, CoverPcs, Settling, PreOpen
<1>5. HoldInv' /\ Cardinality(Cost') <= Cardinality(Cost) /\ Others(u)
  BY <1>4, SteadyHolds DEF BridgeInv, Steady
<1>6. Booked(u)
  BY <1>2, <1>3, ReturnsReservation DEF Reserved
<1>7. Seen(u)
  <2>1. torn' = torn \cup {v \in Tasks : t[v].pc = "load_in_flight"}
    BY DEF settle_in_flight
  <2>2. \A v \in Tasks : t'[v].pc = "load_in_flight" => v \in torn'
    BY <1>2, <1>5, <2>1 DEF Others
  <2> QED
    BY <2>2 DEF Seen
<1>8. UsageInv'
  <2>1. Owes(t'[u]) = 0 /\ Owes(t[u]) = 0 /\ used \in Int
    BY <1>2, SizeNat DEF Owes
  <2>2. Cardinality(Cost') + Owes(t'[u]) - Owes(t[u]) <= Cardinality(Cost) + (used' - used)
    BY <1>3, <1>5, <2>1, CostNat
  <2> QED
    BY <1>2, <1>5, <1>6, <1>7, <2>2, UsageStep
<1> QED
  BY <1>2, <1>5, <1>8, QuotaCalm DEF BooksKept, Admitted, CoverPcs

LEMMA Books_drop_release ==
  ASSUME BridgeInv, BridgeInv', HoldInv, UsageInv, torn \subseteq torn',
         NEW u \in Tasks, drop_release(u)
  PROVE  BooksKept
<1> TypeInv
  BY DEF BridgeInv
<1>1. Move(u, {"refused", "drop_release"}, {"done"})
  BY Move_drop_release
<1>2. t[u].pc \in {"refused", "drop_release"} /\ t'[u].pc = "done" /\ t'[u].size = t[u].size
  BY <1>1 DEF Move, Same
<1>3. UNCHANGED <<temp, final, flen>> /\ used' = used /\ inFlight' = inFlight - t[u].size
  BY DEF drop_release, fsVars
<1>4. Steady(u)
  BY <1>1, <1>2, <1>3, MoveSteady DEF Level, CoverPcs, Settling, PreOpen
<1>5. Booked(u)
  BY <1>2, <1>3, ReturnsReservation DEF Reserved, MidSegment
<1> QED
  BY <1>2, <1>3, <1>4, <1>5, SteadyStep DEF Admitted, CoverPcs

LEMMA Books_open_replied ==
  ASSUME BridgeInv, BridgeInv', HoldInv, UsageInv, torn \subseteq torn',
         NEW u \in Tasks, open_replied(u)
  PROVE  BooksKept
<1> TypeInv /\ FieldInv(u)
  BY DEF BridgeInv
<1>1. Move(u, {"open_reply"}, {"drop_stat"})
  BY Move_open_replied
<1>2. UNCHANGED <<temp, final, flen, used, inFlight>> /\ runnable(u)
  BY DEF open_replied, fsVars, counters
<1>3. t[u].pc = "open_reply" /\ t'[u].pc = "drop_stat" /\ t'[u].size = t[u].size
  BY <1>1 DEF Move, Same
<1>4. ~t[u].opened /\ ~t'[u].opened /\ t[u].pending = 0 /\ t'[u].pending = 0
  BY <1>1, <1>3 DEF FieldInv, Move, Same
<1>5. ~Covers(u) /\ ~Covers(u)' /\ ~Own(u)'
  BY <1>3, <1>4 DEF Covers, Own
<1>6. Steady(u)
  BY <1>1, <1>2, <1>3, <1>5 DEF Steady, Keep, Move, PreOpen
<1>8. Booked(u)
  BY <1>2, <1>3, KeepsReservation DEF Reserved
<1> QED
  BY <1>2, <1>3, <1>6, <1>8, SteadyStep DEF Admitted, CoverPcs

LEMMA Books_open_failed ==
  ASSUME BridgeInv, BridgeInv', HoldInv, UsageInv, torn \subseteq torn',
         NEW u \in Tasks, open_failed(u)
  PROVE  BooksKept
<1> TypeInv /\ FieldInv(u)
  BY DEF BridgeInv
<1>1. Others(u) /\ Same(u) /\ t'[u].pc = "open_reply"
  BY OpenFailedRecord
<1>2. UNCHANGED <<temp, final, flen, used, inFlight>> /\ t[u].pc = "open_failed"
  BY DEF open_failed, fsVars, counters
<1>3. t'[u].size = t[u].size /\ t[u].pending = 0 /\ t'[u].pending = 0
  BY <1>1, <1>2 DEF FieldInv, Same
<1>4. ~Covers(u) /\ ~Covers(u)' /\ ~Own(u)'
  BY <1>1, <1>2, <1>3 DEF Covers, CoverPcs, Own
<1>5. Steady(u)
  BY <1>1, <1>2, <1>4 DEF Steady, Keep, PreOpen
<1>6. Booked(u)
  BY <1>1, <1>2, <1>3, KeepsReservation DEF Reserved, MidSegment
<1> QED
  BY <1>1, <1>2, <1>3, <1>5, <1>6, SteadyStep DEF Admitted

LEMMA Books_accept_stream ==
  ASSUME BridgeInv, BridgeInv', HoldInv, UsageInv, torn \subseteq torn',
         NEW u \in Tasks,
         accept_stream(u, "reserve") \/ accept_stream(u, "get_open")
  PROVE  BooksKept
<1> TypeInv
  BY DEF BridgeInv
<1>1. PICK kind \in {"reserve", "get_open"} : accept_stream(u, kind)
  OBVIOUS
<1>2. Others(u) /\ t[u].pc = "none" /\ t'[u].pc = kind /\ t'[u].pending = 0
  BY <1>1, AcceptRecord
<1>3. UNCHANGED <<temp, final, flen, used, inFlight>>
  BY <1>1 DEF accept_stream, fsVars, counters
<1>4. ~Covers(u) /\ ~Covers(u)' /\ ~Own(u)'
  BY <1>2 DEF Covers, CoverPcs, Own
<1>5. Steady(u)
  BY <1>2, <1>3, <1>4 DEF Steady, Keep, PreOpen
<1>6. Booked(u)
  <2>1. Share(t'[u], Reserved) = 0 /\ Share(t[u], Reserved) = 0
    BY <1>2 DEF Share, Reserved
  <2> QED
    BY <1>3, <2>1, SizeNat DEF Booked
<1> QED
  BY <1>2, <1>3, <1>5, <1>6, SteadyStep DEF Admitted, CoverPcs

LEMMA Books_route_put_chunk ==
  ASSUME BridgeInv, BridgeInv', HoldInv, UsageInv, torn \subseteq torn',
         NEW u \in Tasks, route_put_chunk(u)
  PROVE  BooksKept
<1> TypeInv
  BY DEF BridgeInv
<1>1. /\ Others(u) /\ t'[u].pc = t[u].pc /\ t'[u].ino = t[u].ino /\ t'[u].path = t[u].path
      /\ t'[u].size = t[u].size /\ t'[u].opened = t[u].opened
  BY ChunkRecord
<1>2. UNCHANGED <<temp, final, flen, used, inFlight>> /\ t[u].pc = "body"
  BY DEF route_put_chunk, fsVars, counters
<1>3. Covers(u)' <=> Covers(u)
  BY <1>1 DEF Covers
<1>4. Keep(u)
  BY <1>2 DEF Keep, Own
<1>5. Steady(u)
  BY <1>1, <1>2, <1>3, <1>4 DEF Steady
<1>6. Booked(u)
  BY <1>1, <1>2, KeepsReservation
<1> QED
  BY <1>1, <1>2, <1>5, <1>6, SteadyStep

\* A download is in none of the books.
LEMMA Books_get ==
  ASSUME BridgeInv, BridgeInv', HoldInv, UsageInv, torn \subseteq torn',
         NEW u \in Tasks, get_step(u)
  PROVE  BooksKept
<1> TypeInv /\ FieldInv(u)
  BY DEF BridgeInv
<1>1. t[u].pc \in {"get_open", "get_send"} /\ UNCHANGED <<temp, final, flen, used, inFlight>>
  BY DEF get_step, get_open, get_send, fsVars, counters
<1>2. t[u].pending = 0 /\ t[u].path \in Paths
  BY <1>1 DEF FieldInv
<1>3. Others(u) /\ t'[u].pc \in {"get_send", "done"} /\ t'[u].pending = 0
  <2>1. CASE get_open(u)
    BY <1>2, <2>1, GetOpenRecord
  <2>2. CASE get_send(u) /\ t[u].sent < t[u].size
    <3>1. t'  = [t EXCEPT ![u].sent = @ + 1,
                          ![u].got = Append(@, content[t[u].ino][t[u].sent + 1])]
      BY <2>2 DEF get_send
    <3>2. t[u].pc = "get_send" /\ t[u].ino \in Inodes /\ t[u].size = flen[t[u].ino]
      BY <2>2 DEF get_send, BridgeInv, ContentInv
    <3>3. flen[t[u].ino] \in 0..MaxSize /\ t[u].sent \in Nat
      BY <3>2 DEF TypeInv, Task
    <3>4. t[u].sent + 1 \in Blocks
      BY <2>2, <3>2, <3>3, BridgeAssumption DEF Blocks
    <3>5. PICK c \in Tasks \cup {Hole} : c = content[t[u].ino][t[u].sent + 1]
      BY <3>2, <3>4 DEF TypeInv
    <3>6. t' = [t EXCEPT ![u].sent = @ + 1, ![u].got = Append(@, c)]
      BY <3>1, <3>5
    <3> QED
      BY <1>2, <3>2, <3>6, GetChunkRecord
  <2>3. CASE get_send(u) /\ ~(t[u].sent < t[u].size)
    <3>1. goto(u, "done") /\ "done" \in Places
      BY <2>3 DEF get_send, Places
    <3> QED
      BY <1>2, <3>1, Goto DEF Same
  <2> QED
    BY <2>1, <2>2, <2>3 DEF get_step
<1>4. ~Covers(u) /\ ~Covers(u)' /\ ~Own(u)'
  BY <1>1, <1>3 DEF Covers, CoverPcs, Own
<1>5. Steady(u)
  BY <1>1, <1>3, <1>4 DEF Steady, Keep, PreOpen
<1>6. Booked(u)
  <2>1. Share(t'[u], Reserved) = 0 /\ Share(t[u], Reserved) = 0
    BY <1>1, <1>3 DEF Share, Reserved
  <2> QED
    BY <1>1, <2>1, SizeNat DEF Booked
<1> QED
  BY <1>1, <1>3, <1>5, <1>6, SteadyStep DEF Admitted, CoverPcs

-----------------------------------------------------------------------------
(***************************************************************************)
(* The quota check.  Unless it is torn, what is charged and what is being  *)
(* settled never exceed, between its two loads, the first value it loaded. *)
(***************************************************************************)

LEMMA Books_load_used ==
  ASSUME BridgeInv, BridgeInv', HoldInv, UsageInv, torn \subseteq torn',
         NEW u \in Tasks, load_used(u)
  PROVE  BooksKept
<1> TypeInv
  BY DEF BridgeInv
<1>1. Move(u, {"load_used"}, {"load_in_flight"})
  BY Move_load_used
<1>2. /\ t[u].pc = "load_used" /\ t'[u].pc = "load_in_flight" /\ t'[u].size = t[u].size
      /\ Others(u)
  BY <1>1 DEF Move, Same
<1>3. UNCHANGED <<temp, final, flen, used, inFlight>>
  BY DEF load_used, fsVars, counters
<1>4. t'[u].loaded = used
  <2>1. t' = [t EXCEPT ![u].pc = "load_in_flight", ![u].loaded = used]
    BY DEF load_used
  <2>2. PICK r \in Task : r = t[u]
    BY DEF TypeInv
  <2>3. t'[u] = [r EXCEPT !.pc = "load_in_flight", !.loaded = used]
    BY <2>1, <2>2 DEF TypeInv
  <2> QED
    BY <2>3 DEF Task
<1>5. Steady(u)
  BY <1>1, <1>2, <1>3, MoveSteady DEF Level, CoverPcs, Settling, PreOpen
<1>6. HoldInv' /\ Cardinality(Cost') <= Cardinality(Cost)
  BY <1>5, SteadyHolds DEF BridgeInv
<1>7. Booked(u)
  BY <1>2, <1>3, KeepsReservation DEF Reserved, MidSegment
<1>8. /\ Seen(u)
      /\ Cardinality(Cost') + Owes(t'[u]) - Owes(t[u]) <= Cardinality(Cost) + (used' - used)
  <2>1. /\ Owes(t'[u]) = 0 /\ Owes(t[u]) = 0 /\ used \in Int
        /\ Share(t'[u], {"settle_used"}) = 0 /\ Share(t[u], {"settle_used"}) = 0
    BY <1>2, SizeNat DEF Owes, Share
  <2> QED
    BY <1>3, <1>6, <2>1, CostNat DEF Seen
<1>9. UsageInv'
  <2>1. u \in torn' \/ Cardinality(Cost') + Cardinality(Asked({"settle_used"})') <= t'[u].loaded
    <3>1. CASE \E v \in Tasks : t[v].pc = "settle_used"
      BY <3>1 DEF load_used
    <3>2. CASE ~\E v \in Tasks : t[v].pc = "settle_used"
      <4>1. Asked({"settle_used"})' = {}
        BY <1>2, <3>2 DEF Asked, AskedOf, Others
      <4>2. Cardinality(Asked({"settle_used"})') = 0
        BY <4>1, FS_EmptySet
      <4>3. used \in Int /\ Cardinality(Cost) + Cardinality(Refunds) <= used
        BY SizeNat DEF UsageInv
      <4> QED
        BY <1>4, <1>6, <4>2, <4>3, CostNat, RefundNat
    <3> QED
      BY <3>1, <3>2
  <2> QED
    BY <1>2, <1>7, <1>8, <2>1, UsageStep
<1> QED
  BY <1>2, <1>6, <1>9, QuotaCalm DEF BooksKept, Admitted, CoverPcs

LEMMA Books_load_in_flight ==
  ASSUME BridgeInv, BridgeInv', HoldInv, UsageInv, torn \subseteq torn',
         NEW u \in Tasks, load_in_flight(u)
  PROVE  BooksKept
<1> TypeInv
  BY DEF BridgeInv
<1>1. Move(u, {"load_in_flight"}, {"refused", "resolve"})
  BY Move_load_in_flight
<1>2. /\ t[u].pc = "load_in_flight" /\ t'[u].pc \in {"refused", "resolve"}
      /\ t'[u].size = t[u].size /\ Others(u)
  BY <1>1 DEF Move, Same
<1>3. UNCHANGED <<temp, final, flen, used, inFlight>>
  BY DEF load_in_flight, fsVars, counters
<1>5. Steady(u)
  BY <1>1, <1>2, <1>3, MoveSteady DEF Level, CoverPcs, Settling, PreOpen
<1>6. HoldInv' /\ Cardinality(Cost') <= Cardinality(Cost)
  BY <1>5, SteadyHolds DEF BridgeInv
<1>7. Booked(u)
  BY <1>2, <1>3, KeepsReservation DEF Reserved, MidSegment
<1>8. UsageInv'
  BY <1>2, <1>3, <1>6, <1>7, UsageCalm
<1>9. CASE t'[u].pc = "refused"
  BY <1>2, <1>6, <1>8, <1>9, QuotaCalm DEF BooksKept, Admitted, CoverPcs
<1>10. CASE t'[u].pc = "resolve"
  <2>1. ~(t[u].loaded + inFlight > Quota)
    <3>1. goto(u, IF t[u].loaded + inFlight > Quota THEN "refused" ELSE "resolve")
      BY DEF load_in_flight
    <3>2. t'[u].pc = IF t[u].loaded + inFlight > Quota THEN "refused" ELSE "resolve"
      <4>1. (IF t[u].loaded + inFlight > Quota THEN "refused" ELSE "resolve") \in Places
        BY DEF Places, PreOpen
      <4> QED
        BY <3>1, <4>1, Goto
    <3> QED
      BY <1>10, <3>2
  <2> DEFINE A == Asked(Reserved)'
             B == Asked({"settle_used"})'
  <2>2. Asked(Admitted)' \in SUBSET (A \cup B)
    <3>1. ASSUME NEW v \in Tasks, t'[v].pc \in Admitted
          PROVE  t'[v].pc \in Reserved \/ t'[v].pc \in {"settle_used"}
      BY <3>1 DEF Admitted, CoverPcs, Reserved
    <3> QED
      BY <3>1 DEF Asked, AskedOf
  <2>3. Cardinality(Asked(Admitted)') <= Cardinality(A) + Cardinality(B)
    <3>1. /\ IsFiniteSet(A) /\ Cardinality(A) \in Nat /\ IsFiniteSet(B) /\ Cardinality(B) \in Nat
      BY AskedNat
    <3> HIDE DEF A, B
    <3>2. /\ IsFiniteSet(A \cup B)
          /\ Cardinality(A \cup B) = Cardinality(A) + Cardinality(B) - Cardinality(A \cap B)
      BY <3>1, FS_Union
    <3>3. Cardinality(A \cap B) \in Nat
      BY <3>1, FS_Intersection, FS_CardinalityType
    <3>4. Cardinality(Asked(Admitted)') <= Cardinality(A \cup B)
      BY <2>2, <3>2, FS_Subset
    <3> QED
      BY <3>1, <3>2, <3>3, <3>4, AskedNat
  <2>4. inFlight = Cardinality(A)
    BY <1>3, <1>8 DEF UsageInv
  <2>5. Cardinality(B) = Cardinality(Asked({"settle_used"}))
    <3>1. Share(t'[u], {"settle_used"}) = 0 /\ Share(t[u], {"settle_used"}) = 0
      BY <1>2 DEF Share
    <3> QED
      BY <1>2, <3>1, SettlingStep
  <2>6. QuotaInv'
    <3>1. CASE u \in torn
      BY <3>1 DEF QuotaInv
    <3>2. CASE u \notin torn
      <4>1. /\ Cardinality(Cost) + Cardinality(Asked({"settle_used"})) <= t[u].loaded
            /\ t[u].loaded \in Int /\ Quota \in Nat
        BY <1>2, <3>2, BridgeAssumption DEF UsageInv, TypeInv, Task
      <4>2. Cardinality(A) \in Nat /\ Cardinality(B) \in Nat
        BY AskedNat
      <4> HIDE DEF A, B
      <4>3. (Cardinality(Cost) + Cardinality(Asked(Admitted)) <= Quota)'
        BY <1>6, <2>1, <2>3, <2>4, <2>5, <4>1, <4>2, CostNat, AskedNat
      <4> QED
        BY <4>3 DEF QuotaInv
    <3> QED
      BY <3>1, <3>2
  <2> QED
    BY <1>6, <1>8, <2>6 DEF BooksKept
<1> QED
  BY <1>2, <1>9, <1>10

-----------------------------------------------------------------------------
(***************************************************************************)
(* PutGuard::drop charges what it finds, and refunds it when it is gone.   *)
(***************************************************************************)

LEMMA Books_drop_stat ==
  ASSUME BridgeInv, BridgeInv', HoldInv, UsageInv, torn \subseteq torn',
         NEW u \in Tasks, drop_stat(u)
  PROVE  BooksKept
<1> TypeInv /\ FieldInv(u)
  BY DEF BridgeInv
<1>0. t[u].pc = "drop_stat" /\ t[u].path \in Paths
  BY DEF drop_stat, FieldInv
<1>1. Move(u, {"drop_stat"}, {"drop_remove"})
  BY <1>0, Move_drop_stat
<1>2. t'[u].pc = "drop_remove" /\ t'[u].size = t[u].size /\ Others(u)
  BY <1>1 DEF Move, Same
<1>3. UNCHANGED <<temp, final, flen, inFlight>>
  BY DEF drop_stat, fsVars
<1>4. PICK n \in 0..MaxSize : used' = used + n /\ t'[u].written = n
  <2>1. PICK n : /\ n = IF temp[t[u].path] = NoInode THEN 0 ELSE flen[temp[t[u].path]]
                 /\ used' = used + n
                 /\ t' = [t EXCEPT ![u].pc = "drop_remove", ![u].written = n]
    BY DEF drop_stat
  <2>2. n \in 0..MaxSize
    BY <1>0, <2>1, BridgeAssumption DEF TypeInv
  <2>3. PICK r \in Task : r = t[u]
    BY DEF TypeInv
  <2>4. t'[u] = [r EXCEPT !.pc = "drop_remove", !.written = n]
    BY <2>1, <2>3 DEF TypeInv
  <2>5. t'[u].written = n
    BY <2>4 DEF Task
  <2> QED
    BY <2>1, <2>2, <2>5
<1>5. Steady(u)
  BY <1>0, <1>1, <1>2, <1>3, MoveSteady DEF Level, CoverPcs, Settling, PreOpen
<1>6. HoldInv' /\ Cardinality(Cost') <= Cardinality(Cost)
  BY <1>5, SteadyHolds DEF BridgeInv
<1>7. Booked(u)
  BY <1>0, <1>2, <1>3, KeepsReservation DEF Reserved, MidSegment
<1>8. /\ Seen(u)
      /\ Cardinality(Cost') + Owes(t'[u]) - Owes(t[u]) <= Cardinality(Cost) + (used' - used)
  <2>1. /\ Owes(t'[u]) = n /\ Owes(t[u]) = 0 /\ used \in Int /\ n \in Int
        /\ Share(t'[u], {"settle_used"}) = 0 /\ Share(t[u], {"settle_used"}) = 0
    BY <1>0, <1>2, <1>4, SizeNat DEF Owes, Share
  <2> QED
    BY <1>4, <1>6, <2>1, CostNat DEF Seen
<1>9. UsageInv'
  BY <1>2, <1>4, <1>7, <1>8, UsageStep
<1> QED
  BY <1>0, <1>2, <1>6, <1>9, QuotaCalm DEF BooksKept, Admitted, CoverPcs

\* The clean-up takes the last name away from the inode that it stops to cover.
LEMMA Books_drop_remove ==
  ASSUME BridgeInv, BridgeInv', HoldInv, UsageInv, torn \subseteq torn',
         NEW u \in Tasks, drop_remove(u)
  PROVE  BooksKept
<1> TypeInv /\ FieldInv(u)
  BY DEF BridgeInv
<1>1. PICK p : p = t[u].path
  OBVIOUS
<1>2. /\ t[u].pc = "drop_remove" /\ p \in Paths /\ temp' = [temp EXCEPT ![p] = NoInode]
      /\ UNCHANGED <<final, flen, inFlight>>
  BY <1>1 DEF drop_remove, FieldInv
<1>3. Others(u) /\ Same(u) /\ t'[u].pc = "drop_release" /\ t'[u].opened = t[u].opened
  <2>1. "drop_release" \in Places /\ goto(u, "drop_release")
    BY DEF Places, MidSegment, drop_remove
  <2> QED
    BY <2>1, Goto
<1>4. t'[u].size = t[u].size /\ t'[u].ino = t[u].ino
  BY <1>3 DEF Same
<1>5. /\ ~Covers(u)' /\ (Own(u)' => Own(u))
      /\ \A v \in Tasks : v # u =>
           t'[v] = t[v] /\ (Covers(v)' <=> Covers(v)) /\ (Own(v)' <=> Own(v))
  BY <1>3 DEF Covers, CoverPcs, Own, Others, Same
<1>6. temp'[p] = NoInode /\ \A q \in Paths : q # p => temp'[q] = temp[q]
  BY <1>2 DEF TypeInv
<1>7. HoldInv'
  <2>1. \A v \in Tasks : Covers(v)' => flen'[t'[v].ino] <= t'[v].size
    BY <1>2, <1>5, HoldParts
  <2>2. \A v \in Tasks : Keep(v)' => Keep(v) /\ t'[v].ino = t[v].ino
    BY <1>4, <1>5 DEF Keep
  <2>3. \A q \in Paths : temp'[q] \in {temp[q], NoInode}
    BY <1>6
  <2>4. \A v \in Tasks : t'[v].pc \in PreOpen => t[v].pc \in PreOpen
    BY <1>3, <1>5 DEF PreOpen
  <2>5. Loosens
    BY <1>2, <1>5, <2>1, <2>2, <2>3, <2>4 DEF Loosens
  <2> QED
    BY <2>5, LoosensHolds
<1>8. Cardinality(Cost') <= Cardinality(Cost)
  <2>1. ASSUME NEW i \in Inodes, i \in Charged' PROVE i \in Charged
    <3>1. PICK q \in Paths : temp'[q] = i \/ final'[q] = i
      BY <2>1 DEF Charged, Linked
    <3>2. (temp[q] = i /\ q # p) \/ final[q] = i
      BY <1>2, <1>6, <3>1, InodesNamed
    <3>3. ASSUME NEW v \in Tasks, Covers(v), t[v].ino = i PROVE FALSE
      <4>1. CASE v = u
        BY <1>1, <1>2, <3>2, <3>3, <4>1, HoldParts DEF Settling
      <4>2. CASE v # u
        BY <1>5, <2>1, <3>3, <4>2 DEF Charged
      <4> QED
        BY <4>1, <4>2
    <3> QED
      BY <3>2, <3>3 DEF Charged, Linked
  <2>2. \A i \in Inodes : flen'[i] <= flen[i]
    BY <1>2 DEF TypeInv
  <2> QED
    BY <2>1, <2>2, CostShrinks DEF BridgeInv
<1>9. Booked(u)
  BY <1>2, <1>3, <1>4, KeepsReservation DEF Reserved, MidSegment
<1>10. /\ Seen(u)
       /\ Cardinality(Cost') + Owes(t'[u]) - Owes(t[u]) <= Cardinality(Cost) + (used' - used)
  <2>1. /\ Owes(t'[u]) = 0 /\ Owes(t[u]) = t[u].written
        /\ Share(t'[u], {"settle_used"}) = 0 /\ Share(t[u], {"settle_used"}) = 0
    BY <1>2, <1>3 DEF Owes, Share
  <2>2. t[u].written \in Nat /\ used \in Int
    BY <1>2, SizeNat, BridgeAssumption DEF UsageInv
  <2>3. used' = used \/ used' = used - t[u].written
    BY DEF drop_remove
  <2> QED
    BY <1>8, <2>1, <2>2, <2>3, CostNat DEF Seen
<1>11. UsageInv'
  BY <1>3, <1>9, <1>10, UsageStep
<1> QED
  BY <1>3, <1>4, <1>7, <1>8, <1>11, QuotaCalm DEF BooksKept, Admitted, CoverPcs
-----------------------------------------------------------------------------
(***************************************************************************)
(* The reservation becomes used bytes.                                     *)
(***************************************************************************)

LEMMA Books_settle_used ==
  ASSUME BridgeInv, BridgeInv', HoldInv, UsageInv, torn \subseteq torn',
         NEW u \in Tasks, settle_used(u)
  PROVE  BooksKept
<1> TypeInv /\ FieldInv(u)
  BY DEF BridgeInv
<1>1. Move(u, {"settle_used"}, {"reply"})
  BY Move_settle_used
<1>2. /\ t[u].pc = "settle_used" /\ t'[u].pc = "reply" /\ Others(u) /\ Same(u)
      /\ t'[u].size = t[u].size /\ t'[u].ino = t[u].ino
  BY <1>1 DEF Move, Same
<1>3. UNCHANGED <<temp, final, flen, inFlight>> /\ used' = used + t[u].size
  BY DEF settle_used, fsVars
<1>4. /\ ~Covers(u)' /\ (Own(u)' => Own(u))
      /\ \A v \in Tasks : v # u =>
           t'[v] = t[v] /\ (Covers(v)' <=> Covers(v)) /\ (Own(v)' <=> Own(v))
  BY <1>2 DEF Covers, CoverPcs, Own, Others, Same
<1>5. HoldInv'
  <2>1. \A v \in Tasks : Covers(v)' => flen'[t'[v].ino] <= t'[v].size
    BY <1>3, <1>4, HoldParts
  <2>2. \A v \in Tasks : Keep(v)' => Keep(v) /\ t'[v].ino = t[v].ino
    BY <1>2, <1>4 DEF Keep
  <2>3. \A v \in Tasks : t'[v].pc \in PreOpen => t[v].pc \in PreOpen
    BY <1>2, <1>4 DEF PreOpen
  <2>4. Loosens
    BY <1>3, <1>4, <2>1, <2>2, <2>3 DEF Loosens
  <2> QED
    BY <2>4, LoosensHolds
<1>n. PICK n \in 0..MaxSize : n = t[u].size
  BY <1>2, SizeFits
<1>6. Cardinality(Cost') <= Cardinality(Cost) + n
  <2>1. PICK i, N : i = t[u].ino /\ N = {i} \X (1..n)
    OBVIOUS
  <2>2. IsFiniteSet(N) /\ Cardinality(N) = n /\ n \in Nat
    <3>1. n \in Nat
      BY BridgeAssumption
    <3> QED
      BY <2>1, <3>1, OneShare
  <2>3. ASSUME NEW b \in Cost' PROVE b \in Cost \cup N
    <3>1. PICK j \in Charged', k \in Blocks : b = <<j, k>> /\ k <= flen[j]
      BY <1>3, <2>3 DEF Cost
    <3>2. j \in Linked /\ j \in Inodes
      BY <1>3, <3>1 DEF Charged, Linked
    <3>3. CASE j \in Charged
      BY <3>1, <3>3 DEF Cost
    <3>4. CASE j \notin Charged
      <4>1. PICK v \in Tasks : Covers(v) /\ t[v].ino = j
        BY <3>2, <3>4 DEF Charged
      <4>2. v = u
        BY <1>4, <3>1, <4>1 DEF Charged
      <4>3. j = i /\ flen[j] <= n /\ flen[j] \in 0..MaxSize
        BY <1>n, <2>1, <3>2, <4>1, <4>2, HoldParts DEF TypeInv
      <4>4. k \in 1..n
        BY <2>2, <3>1, <4>3, BridgeAssumption DEF Blocks
      <4> QED
        BY <2>1, <3>1, <4>3, <4>4
    <3> QED
      BY <3>3, <3>4
  <2>4. /\ IsFiniteSet(Cost \cup N)
        /\ Cardinality(Cost \cup N) = Cardinality(Cost) + Cardinality(N) - Cardinality(Cost \cap N)
    BY <2>2, CostNat, FS_Union
  <2>5. Cardinality(Cost') <= Cardinality(Cost \cup N)
    <3>1. Cost' \in SUBSET (Cost \cup N)
      BY <2>3
    <3> QED
      BY <2>4, <3>1, FS_Subset
  <2>6. Cardinality(Cost \cap N) \in Nat
    <3>1. Cost \cap N \in SUBSET N
      OBVIOUS
    <3>2. IsFiniteSet(Cost \cap N)
      BY <2>2, <3>1, FS_Subset
    <3> QED
      BY <3>2, FS_CardinalityType
  <2> QED
    BY <2>2, <2>4, <2>5, <2>6, CostNat
<1>7. Booked(u)
  BY <1>2, <1>3, KeepsReservation DEF Reserved, MidSegment
<1>8. /\ Seen(u)
      /\ Cardinality(Cost') + Owes(t'[u]) - Owes(t[u]) <= Cardinality(Cost) + (used' - used)
  <2>1. /\ Owes(t'[u]) = 0 /\ Owes(t[u]) = 0 /\ used \in Int /\ n \in Nat
        /\ Share(t'[u], {"settle_used"}) = 0 /\ Share(t[u], {"settle_used"}) = n
    BY <1>2, <1>n, SizeNat, BridgeAssumption DEF Owes, Share
  <2> QED
    BY <1>n, <1>3, <1>6, <2>1, CostNat DEF Seen
<1>9. UsageInv'
  BY <1>2, <1>7, <1>8, UsageStep
<1>10. QuotaInv => QuotaInv'
  <2>1. Share(t[u], Admitted) = n /\ Share(t'[u], Admitted) = 0 /\ n \in Nat
    BY <1>2, <1>n, BridgeAssumption DEF Share, Admitted, CoverPcs
  <2>2. Cardinality(Cost') <= Cardinality(Cost) + Share(t[u], Admitted) - Share(t'[u], Admitted)
    BY <1>6, <2>1, CostNat
  <2> QED
    BY <1>2, <2>2, QuotaStep
<1> QED
  BY <1>5, <1>9, <1>10 DEF BooksKept
-----------------------------------------------------------------------------
(***************************************************************************)
(* The steps that write, open and rename.                                  *)
(***************************************************************************)

\* A write, a late one too, lands in an inode that its upload covers, or that has
\* no name any more.
LEMMA Books_write_lands ==
  ASSUME BridgeInv, BridgeInv', HoldInv, UsageInv, torn \subseteq torn',
         NEW u \in Tasks, write_lands(u)
  PROVE  BooksKept
<1> TypeInv /\ FieldInv(u) /\ InodeInv
  BY DEF BridgeInv
<1>1. PICK i \in Inodes, k \in Nat : i = t[u].ino /\ k = t[u].pending /\ k # 0 /\ k = t[u].sent
  BY DEF write_lands, FieldInv, TypeInv, Task
<1>2. k <= t[u].size /\ t[u].opened /\ Own(u) /\ t[u].pc \notin PreOpen
  BY <1>1 DEF FieldInv, Own
<1>3. /\ flen' = [flen EXCEPT ![i] = IF @ < k THEN k ELSE @]
      /\ t' = [t EXCEPT ![u].pending = 0]
      /\ UNCHANGED <<temp, final, used, inFlight>>
  BY <1>1 DEF write_lands, counters
<1>4. /\ Others(u) /\ t'[u].pc = t[u].pc /\ t'[u].ino = t[u].ino /\ t'[u].path = t[u].path
      /\ t'[u].size = t[u].size /\ t'[u].opened = t[u].opened
  BY <1>3, LandsRecord
<1>5. t'[u].written = t[u].written
  <2>1. PICK r \in Task : r = t[u]
    BY DEF TypeInv
  <2>2. t'[u] = [r EXCEPT !.pending = 0]
    BY <1>3, <2>1 DEF TypeInv
  <2> QED
    BY <2>1, <2>2 DEF Task
<1>6. /\ \A v \in Tasks : v # u => t'[v] = t[v]
      /\ \A v \in Tasks : (Covers(v)' <=> Covers(v)) /\ (Keep(v)' => Keep(v))
                          /\ t'[v].ino = t[v].ino /\ t'[v].pc = t[v].pc
                          /\ t'[v].size = t[v].size /\ t'[v].path = t[v].path
  BY <1>2, <1>4 DEF Covers, Keep, Own, Others
<1>7. flen'[i] \in {k, flen[i]} /\ \A j \in Inodes : j # i => flen'[j] = flen[j]
  BY <1>3 DEF TypeInv
<1>8. HoldInv'
  <2>1. ASSUME NEW v \in Tasks, Covers(v) PROVE flen'[t[v].ino] <= t[v].size
    <3>1. t[v].ino \in Inodes /\ flen[t[v].ino] <= t[v].size
      BY <2>1, HoldParts
    <3>2. CASE t[v].ino # i
      BY <1>7, <3>1, <3>2
    <3>3. CASE t[v].ino = i
      <4>1. v = u
        BY <1>1, <1>2, <2>1, <3>3, HoldParts DEF Keep
      <4> QED
        BY <1>2, <1>7, <3>1, <3>3, <4>1
    <3> QED
      BY <3>2, <3>3
  <2>2. Loosens
    BY <1>3, <1>6, <2>1 DEF Loosens
  <2> QED
    BY <2>2, LoosensHolds
<1>9. Cardinality(Cost') <= Cardinality(Cost)
  <2>1. Charged' = Charged
    BY <1>3, <1>6 DEF Charged, Linked
  <2>2. i \notin Charged
    <3> SUFFICES ASSUME i \in Charged PROVE FALSE
      OBVIOUS
    <3>1. ~Covers(u)
      BY <1>1 DEF Charged
    <3>2. PICK q \in Paths : temp[q] = i \/ final[q] = i
      BY DEF Charged, Linked
    <3>3. ~Frozen(i)
      BY <1>1, <1>2, InodeParts
    <3>4. temp[q] = i
      BY <3>2, <3>3 DEF Frozen
    <3>5. t[u].pc \in {"body", "commit", "drop_claim", "drop_stat", "drop_remove"}
      BY <1>1, <1>2, <3>4, InodeParts
    <3> QED
      BY <1>2, <3>1, <3>5 DEF Covers, CoverPcs
  <2>3. \A j \in Inodes : j \in Charged' => j \in Charged /\ flen'[j] <= flen[j]
    BY <1>7, <2>1, <2>2 DEF TypeInv
  <2> QED
    BY <2>3, CostShrinks DEF BridgeInv
<1>10. Booked(u)
  BY <1>3, <1>4, KeepsReservation
<1>11. /\ Seen(u)
       /\ Cardinality(Cost') + Owes(t'[u]) - Owes(t[u]) <= Cardinality(Cost) + (used' - used)
  <2>1. /\ Owes(t'[u]) = Owes(t[u]) /\ Share(t'[u], {"settle_used"}) = Share(t[u], {"settle_used"})
        /\ used \in Int
    BY <1>4, <1>5, SizeNat DEF Owes, Share
  <2>2. Share(t[u], {"settle_used"}) \in Nat
    BY <1>4, SettlingStep
  <2>3. Owes(t[u]) \in Nat
    BY BridgeAssumption DEF Owes, UsageInv
  <2> QED
    BY <1>3, <1>9, <2>1, <2>2, <2>3, CostNat DEF Seen
<1>12. t'[u].pc = "drop_remove" => t'[u].written \in 0..MaxSize
  BY <1>4, <1>5 DEF UsageInv
<1>14. t'[u].pc # "load_in_flight"
  BY <1>2, <1>4 DEF PreOpen
<1>15. UsageInv'
  BY <1>4, <1>10, <1>11, <1>12, <1>14, UsageStep
<1> QED
  BY <1>4, <1>8, <1>9, <1>15, QuotaCalm DEF BooksKept

\* The inode that the open takes is covered by nobody: the claim keeps away the
\* uploads that had it open before.
LEMMA OpensUncovered ==
  ASSUME BridgeInv, HoldInv, NEW u \in Tasks, t[u].pc = "open",
         NEW i, i = IF temp[t[u].path] = NoInode THEN u ELSE temp[t[u].path],
         NEW v \in Tasks, Covers(v)
  PROVE  t[v].ino # i
<1> ClaimInv /\ FieldInv(u)
  BY DEF BridgeInv
<1>1. t[u].path \in Paths /\ t[u].pc \in PreOpen /\ t[u].pc \in Holding
  BY DEF FieldInv, PreOpen, Holding
<1>2. CASE temp[t[u].path] = NoInode
  BY <1>1, <1>2, HoldParts
<1>3. CASE temp[t[u].path] # NoInode
  <2> SUFFICES ASSUME t[v].ino = temp[t[u].path] PROVE FALSE
    BY <1>3
  <2>1. t[v].path = t[u].path /\ t[v].pc \notin Settling
    BY <1>1, HoldParts
  <2>2. t[v].pc \in CoverPcs /\ t[v].opened /\ v # u
    BY DEF Covers, CoverPcs
  <2>3. CASE t[v].pc \in {"drop_stat", "drop_remove"}
    BY <1>1, <2>1, <2>2, <2>3 DEF ClaimInv
  <2>4. CASE t[v].pc \in Holding
    BY <1>1, <2>1, <2>2, <2>4 DEF ClaimInv
  <2> QED
    BY <2>1, <2>2, <2>3, <2>4 DEF CoverPcs, Settling, Holding
<1> QED
  BY <1>2, <1>3

LEMMA Books_open_temp ==
  ASSUME BridgeInv, BridgeInv', HoldInv, UsageInv, torn \subseteq torn',
         NEW u \in Tasks, open_temp(u)
  PROVE  BooksKept
<1> TypeInv /\ FieldInv(u)
  BY DEF BridgeInv
<1>1. t[u].pc = "open" /\ UNCHANGED <<final, used, inFlight>>
  BY DEF open_temp, counters
<1>2. PICK p, i : p = t[u].path /\ i = IF temp[p] = NoInode THEN u ELSE temp[p]
  OBVIOUS
<1>3. /\ i \in Inodes /\ ~Frozen(i) /\ p \in Paths
      /\ \A v \in Tasks : Own(v) => t[v].ino # i
      /\ \A q \in Paths : q # p => temp[q] # i
      /\ \A v \in Tasks : v # u /\ t[v].pc \in PreOpen => v # i
  BY <1>1, <1>2, OpensFree
<1>4. \A v \in Tasks : Covers(v) => t[v].ino # i
  BY <1>1, <1>2, OpensUncovered
<1>5. t[u].pending = 0
  BY <1>1 DEF FieldInv, PreOpen
<1>6. CASE goto(u, "open_failed") /\ UNCHANGED <<temp, content, flen>>
  <2>1. Move(u, {"open"}, {"open_failed"})
    BY <1>1, <1>6, GotoMove DEF Places, Holding
  <2>2. t'[u].pc = "open_failed"
    BY <2>1 DEF Move
  <2>3. Level(t[u].pc, t'[u].pc)
    BY <1>1, <2>2 DEF Level, CoverPcs, Settling, PreOpen
  <2> QED
    BY <1>1, <1>6, <2>1, <2>2, <2>3, MoveBooks DEF Reserved, Admitted, CoverPcs, MidSegment
<1>7. CASE /\ temp' = [temp EXCEPT ![p] = i] /\ flen' = [flen EXCEPT ![i] = 0]
           /\ \/ t' = [t EXCEPT ![u].pc = "body", ![u].ino = i]
              \/ goto(u, "open_failed")
  <2>1. /\ Others(u) /\ t'[u].size = t[u].size /\ t'[u].path = p /\ t'[u].pending = 0
        /\ t'[u].pc = "open_failed" \/ (t'[u].pc = "body" /\ t'[u].ino = i)
    <3>1. CASE t' = [t EXCEPT ![u].pc = "body", ![u].ino = i]
      <4>1. /\ t' \in [Tasks -> Task] /\ Others(u)
            /\ t'[u].pc = "body" /\ t'[u].ino = i /\ t'[u].path = t[u].path
            /\ t'[u].size = t[u].size /\ t'[u].sumOk = t[u].sumOk /\ t'[u].sent = t[u].sent
            /\ t'[u].pending = t[u].pending /\ t'[u].opened = t[u].opened
        BY <1>3, <3>1, OpenRecord, Zenon
      <4> QED
        BY <1>2, <1>5, <4>1
    <3>2. CASE goto(u, "open_failed")
      <4>1. "open_failed" \in Places
        BY DEF Places, Holding
      <4> QED
        BY <1>2, <1>5, <3>2, <4>1, Goto DEF Same
    <3> QED
      BY <1>7, <3>1, <3>2
  <2>2. /\ temp'[p] = i /\ \A q \in Paths : q # p => temp'[q] = temp[q]
        /\ flen'[i] = 0 /\ \A j \in Inodes : j # i => flen'[j] = flen[j]
    BY <1>3, <1>7 DEF TypeInv
  <2>3. /\ Keep(u)' => t'[u].pc = "body" /\ t'[u].ino = i
        /\ Covers(u)' => Keep(u)'
        /\ ~Covers(u) /\ t'[u].pc \notin PreOpen /\ t'[u].pc \notin Settling
    BY <1>1, <2>1 DEF Keep, Own, Covers, CoverPcs, PreOpen, Settling
  <2>4. \A v \in Tasks : v # u =>
          t'[v] = t[v] /\ (Covers(v)' <=> Covers(v)) /\ (Keep(v)' <=> Keep(v))
    BY <2>1 DEF Keep, Own, Covers, Others
  <2>5. \A v \in Tasks : Keep(v) => t[v].ino # i
    BY <1>3, <1>4 DEF Keep
  <2>6. HoldInv'
    <3>1. (\A v, w \in Tasks : Keep(v) /\ Covers(w) /\ t[v].ino = t[w].ino => v = w)'
      <4> SUFFICES ASSUME NEW v \in Tasks, NEW w \in Tasks, Keep(v)', Covers(w)',
                          t'[v].ino = t'[w].ino, v # w
                   PROVE  FALSE
        OBVIOUS
      <4>1. CASE v = u
        BY <1>4, <2>3, <2>4, <4>1
      <4>2. CASE w = u
        BY <2>3, <2>4, <2>5, <4>2
      <4>3. CASE v # u /\ w # u
        BY <2>4, <4>3, HoldParts
      <4> QED
        BY <4>1, <4>2, <4>3
    <3>2. (\A v \in Tasks, q \in Paths : Covers(v) /\ temp[q] = t[v].ino =>
             q = t[v].path /\ t[v].pc \notin Settling)'
      <4> SUFFICES ASSUME NEW v \in Tasks, NEW q \in Paths, Covers(v)', temp'[q] = t'[v].ino
                   PROVE  q = t'[v].path /\ t'[v].pc \notin Settling
        OBVIOUS
      <4>1. CASE v = u
        <5>1. t'[v].ino = i
          BY <2>3, <4>1
        <5>2. q = p
          BY <1>3, <2>2, <5>1
        <5> QED
          BY <2>1, <2>3, <4>1, <5>2
      <4>2. CASE v # u
        <5>1. Covers(v) /\ t'[v] = t[v] /\ t[v].ino # i
          BY <1>4, <2>4, <4>2
        <5>2. temp[q] = t[v].ino
          BY <2>2, <5>1
        <5> QED
          BY <5>1, <5>2, HoldParts
      <4> QED
        BY <4>1, <4>2
    <3>3. (\A v \in Tasks, q \in Paths : Covers(v) /\ final[q] = t[v].ino => t[v].pc \in Settling)'
      <4> SUFFICES ASSUME NEW v \in Tasks, NEW q \in Paths, Covers(v)', final[q] = t'[v].ino
                   PROVE  t'[v].pc \in Settling
        BY <1>1
      <4>1. CASE v = u
        BY <1>3, <2>3, <4>1 DEF Frozen
      <4>2. CASE v # u
        BY <2>4, <4>2, HoldParts
      <4> QED
        BY <4>1, <4>2
    <3>4. (\A v, w \in Tasks : t[v].pc \in PreOpen /\ Covers(w) => t[w].ino # v)'
      <4> SUFFICES ASSUME NEW v \in Tasks, NEW w \in Tasks, t'[v].pc \in PreOpen, Covers(w)'
                   PROVE  t'[w].ino # v
        OBVIOUS
      <4>1. v # u /\ t[v].pc \in PreOpen
        BY <2>3, <2>4
      <4>2. CASE w = u
        BY <1>3, <2>3, <4>1, <4>2
      <4>3. CASE w # u
        BY <2>4, <4>1, <4>3, HoldParts
      <4> QED
        BY <4>2, <4>3
    <3>5. (\A v \in Tasks : Covers(v) => t[v].ino \in Inodes /\ flen[t[v].ino] <= t[v].size)'
      <4> SUFFICES ASSUME NEW v \in Tasks, Covers(v)'
                   PROVE  t'[v].ino \in Inodes /\ flen'[t'[v].ino] <= t'[v].size
        OBVIOUS
      <4>1. CASE v = u
        <5>1. t'[u].ino = i /\ t[u].size \in Nat
          BY <2>3, <4>1, SizeNat
        <5> QED
          BY <1>3, <2>1, <2>2, <4>1, <5>1
      <4>2. CASE v # u
        BY <1>4, <2>2, <2>4, <4>2, HoldParts
      <4> QED
        BY <4>1, <4>2
    <3> QED
      BY <3>1, <3>2, <3>3, <3>4, <3>5 DEF HoldInv
  <2>7. Cardinality(Cost') <= Cardinality(Cost)
    <3>1. ASSUME NEW j \in Inodes, j \in Charged', flen'[j] # 0
          PROVE  j \in Charged /\ flen'[j] <= flen[j]
      <4>1. j # i /\ flen'[j] = flen[j]
        BY <2>2, <3>1
      <4>2. PICK q \in Paths : temp'[q] = j \/ final'[q] = j
        BY <3>1 DEF Charged, Linked
      <4>3. temp[q] = j \/ final[q] = j
        BY <1>1, <2>2, <4>1, <4>2
      <4>4. \A v \in Tasks : Covers(v) => t[v].ino # j
        BY <2>3, <2>4, <3>1 DEF Charged
      <4>5. j \in Charged
        BY <4>3, <4>4 DEF Charged, Linked
      <4> QED
        BY <4>1, <4>5 DEF TypeInv
    <3> QED
      BY <3>1, CostShrinks DEF BridgeInv
  <2>8. Booked(u)
    BY <1>1, <2>1, KeepsReservation DEF Reserved, MidSegment
  <2>9. UsageInv'
    BY <1>1, <2>1, <2>7, <2>8, UsageCalm
  <2> QED
    BY <1>1, <2>1, <2>6, <2>7, <2>9, QuotaCalm DEF BooksKept, Admitted
<1> QED
  BY <1>2, <1>6, <1>7 DEF open_temp

\* The rename gives the covered inode its second kind of name.
LEMMA Books_commit_put ==
  ASSUME BridgeInv, BridgeInv', HoldInv, UsageInv, torn \subseteq torn',
         NEW u \in Tasks, commit_put(u)
  PROVE  BooksKept
<1> TypeInv /\ FieldInv(u) /\ TempInv
  BY DEF BridgeInv
<1>1. t[u].pc = "commit" /\ UNCHANGED <<flen, used, inFlight>>
  BY DEF commit_put, counters
<1>2. PICK p, i : p = t[u].path /\ i = t[u].ino
  OBVIOUS
<1>3. p \in Paths /\ i \in Inodes /\ t[u].opened /\ t[u].pending = 0
  BY <1>1, <1>2 DEF FieldInv
<1>4. CASE goto(u, "drop_claim") /\ UNCHANGED <<final, temp>>
  <2>1. Move(u, {"commit"}, {"drop_claim"})
    BY <1>1, <1>4, GotoMove DEF Places, Holding
  <2>2. t'[u].pc = "drop_claim"
    BY <2>1 DEF Move
  <2>3. Level(t[u].pc, t'[u].pc)
    BY <1>1, <2>2 DEF Level, CoverPcs, Settling, PreOpen
  <2> QED
    BY <1>1, <1>4, <2>1, <2>2, <2>3, MoveBooks DEF Reserved, Admitted, CoverPcs, MidSegment
<1>5. CASE /\ temp[p] # NoInode
           /\ final' = [final EXCEPT ![p] = temp[p]]
           /\ temp' = [temp EXCEPT ![p] = NoInode]
           /\ goto(u, "settle_in_flight")
  <2>1. temp[p] = i
    BY <1>1, <1>2, <1>5 DEF TempInv
  <2>2. /\ temp'[p] = NoInode /\ final'[p] = i
        /\ \A q \in Paths : q # p => temp'[q] = temp[q] /\ final'[q] = final[q]
    BY <1>3, <1>5, <2>1 DEF TypeInv
  <2>3. Others(u) /\ Same(u) /\ t'[u].pc = "settle_in_flight" /\ t'[u].opened = t[u].opened
    <3>1. "settle_in_flight" \in Places
      BY DEF Places, Holding
    <3> QED
      BY <1>5, <3>1, Goto
  <2>4. t'[u].size = t[u].size /\ t'[u].ino = i /\ t'[u].path = p /\ t'[u].pending = 0
    BY <1>2, <1>3, <2>3 DEF Same
  <2>5. Covers(u) /\ Covers(u)' /\ Keep(u)
    BY <1>1, <1>3, <2>3 DEF Covers, CoverPcs, Keep
  <2>6. \A v \in Tasks : v # u =>
          t'[v] = t[v] /\ (Covers(v)' <=> Covers(v)) /\ (Keep(v)' <=> Keep(v))
    BY <2>3 DEF Keep, Own, Covers, Others
  <2>7. \A v \in Tasks : (Covers(v)' <=> Covers(v)) /\ t'[v].ino = t[v].ino
                         /\ (Keep(v)' => Keep(v)) /\ t'[v].size = t[v].size
                         /\ (t'[v].pc \in PreOpen => t[v].pc \in PreOpen)
    BY <1>2, <2>3, <2>4, <2>5, <2>6 DEF PreOpen
  <2>8. HoldInv'
    <3>1. (\A v, w \in Tasks : Keep(v) /\ Covers(w) /\ t[v].ino = t[w].ino => v = w)'
      BY <2>7, HoldParts
    <3>2. (\A v \in Tasks, q \in Paths : Covers(v) /\ temp[q] = t[v].ino =>
             q = t[v].path /\ t[v].pc \notin Settling)'
      <4> SUFFICES ASSUME NEW v \in Tasks, NEW q \in Paths, Covers(v)', temp'[q] = t'[v].ino
                   PROVE  q = t'[v].path /\ t'[v].pc \notin Settling
        OBVIOUS
      <4>1. t[v].ino \in Inodes /\ t[v].ino # NoInode /\ Covers(v) /\ t'[v].ino = t[v].ino
        BY <2>7, HoldParts, InodesNamed
      <4>2. q # p /\ temp[q] = t[v].ino
        BY <2>2, <4>1
      <4>3. q = t[v].path /\ t[v].pc \notin Settling
        BY <4>1, <4>2, HoldParts
      <4>4. v # u
        BY <1>2, <4>2, <4>3
      <4> QED
        BY <2>6, <4>3, <4>4
    <3>3. (\A v \in Tasks, q \in Paths : Covers(v) /\ final[q] = t[v].ino => t[v].pc \in Settling)'
      <4> SUFFICES ASSUME NEW v \in Tasks, NEW q \in Paths, Covers(v)', final'[q] = t'[v].ino
                   PROVE  t'[v].pc \in Settling
        OBVIOUS
      <4>1. CASE v = u
        BY <2>3, <4>1 DEF Settling
      <4>2. CASE v # u
        <5>1. Covers(v) /\ t'[v] = t[v]
          BY <2>6, <4>2
        <5>2. q # p
          BY <1>2, <2>2, <2>5, <4>2, <5>1, HoldParts
        <5> QED
          BY <2>2, <5>1, <5>2, HoldParts
      <4> QED
        BY <4>1, <4>2
    <3>4. (\A v, w \in Tasks : t[v].pc \in PreOpen /\ Covers(w) => t[w].ino # v)'
      BY <2>7, HoldParts
    <3>5. (\A v \in Tasks : Covers(v) => t[v].ino \in Inodes /\ flen[t[v].ino] <= t[v].size)'
      BY <1>1, <2>7, HoldParts
    <3> QED
      BY <3>1, <3>2, <3>3, <3>4, <3>5 DEF HoldInv
  <2>9. Cardinality(Cost') <= Cardinality(Cost)
    <3>1. ASSUME NEW j \in Inodes, j \in Charged' PROVE j \in Charged
      <4>1. PICK q \in Paths : temp'[q] = j \/ final'[q] = j
        BY <3>1 DEF Charged, Linked
      <4>2. \E r \in Paths : temp[r] = j \/ final[r] = j
        BY <1>3, <2>1, <2>2, <4>1, InodesNamed
      <4>3. \A v \in Tasks : Covers(v) => t[v].ino # j
        BY <2>7, <3>1 DEF Charged
      <4> QED
        BY <4>2, <4>3 DEF Charged, Linked
    <3>2. \A j \in Inodes : flen'[j] <= flen[j]
      BY <1>1 DEF TypeInv
    <3> QED
      BY <3>1, <3>2, CostShrinks DEF BridgeInv
  <2>10. Booked(u)
    BY <1>1, <2>3, <2>4, KeepsReservation DEF Reserved, MidSegment
  <2>11. UsageInv'
    BY <1>1, <2>3, <2>9, <2>10, UsageCalm
  <2> QED
    BY <1>1, <2>3, <2>4, <2>8, <2>9, <2>11, QuotaCalm DEF BooksKept, Admitted, CoverPcs
<1> QED
  BY <1>2, <1>4, <1>5 DEF commit_put

\* Removing and renaming files gives nothing a new name, and sessions touch no file.
LEMMA Books_names ==
  ASSUME BridgeInv, BridgeInv', HoldInv, UsageInv, torn \subseteq torn',
         UNCHANGED <<t, temp, flen, used, inFlight>>,
         \A p \in Paths : final'[p] # NoInode => \E q \in Paths : final[q] = final'[p]
  PROVE  BooksKept
<1> TypeInv
  BY DEF BridgeInv
<1>1. \A v \in Tasks : (Covers(v)' <=> Covers(v)) /\ (Keep(v)' <=> Keep(v))
  BY DEF Covers, Keep, Own
<1>2. HoldInv'
  <2>1. Loosens
    BY <1>1, HoldParts DEF Loosens
  <2> QED
    BY <2>1, LoosensHolds
<1>3. Cardinality(Cost') <= Cardinality(Cost)
  <2>1. ASSUME NEW j \in Inodes, j \in Charged' PROVE j \in Charged
    <3>1. PICK q \in Paths : temp[q] = j \/ final'[q] = j
      BY <2>1 DEF Charged, Linked
    <3>2. \E r \in Paths : temp[r] = j \/ final[r] = j
      BY <3>1, InodesNamed
    <3>3. \A v \in Tasks : Covers(v) => t[v].ino # j
      BY <1>1, <2>1 DEF Charged
    <3> QED
      BY <3>2, <3>3 DEF Charged, Linked
  <2>2. \A j \in Inodes : flen'[j] <= flen[j]
    BY DEF TypeInv
  <2> QED
    BY <2>1, <2>2, CostShrinks DEF BridgeInv
<1> QED
  BY <1>2, <1>3, QuotaRest DEF BooksKept

LEMMA Books_rm ==
  ASSUME BridgeInv, BridgeInv', HoldInv, UsageInv, torn \subseteq torn',
         NEW p \in Paths, rm(p)
  PROVE  BooksKept
<1>1. /\ final' = [final EXCEPT ![p] = NoInode] /\ final \in [Paths -> Inodes \cup {NoInode}]
      /\ UNCHANGED <<t, temp, flen, used, inFlight>>
  BY DEF rm, counters, BridgeInv, TypeInv
<1>2. \A r \in Paths : final'[r] # NoInode => \E s \in Paths : final[s] = final'[r]
  BY <1>1
<1> QED
  BY <1>1, <1>2, Books_names

LEMMA Books_rename ==
  ASSUME BridgeInv, BridgeInv', HoldInv, UsageInv, torn \subseteq torn',
         NEW p \in Paths, NEW q \in Paths, rename(p, q)
  PROVE  BooksKept
<1>1. /\ final' = [final EXCEPT ![q] = final[p], ![p] = NoInode]
      /\ final \in [Paths -> Inodes \cup {NoInode}]
      /\ UNCHANGED <<t, temp, flen, used, inFlight>>
  BY DEF rename, counters, BridgeInv, TypeInv
<1>2. \A r \in Paths : final'[r] \in {final[r], final[p], NoInode}
  BY <1>1
<1>3. \A r \in Paths : final'[r] # NoInode => \E s \in Paths : final[s] = final'[r]
  BY <1>2
<1> QED
  BY <1>1, <1>3, Books_names
-----------------------------------------------------------------------------
(***************************************************************************)
(* The theorems about the quota.                                           *)
(***************************************************************************)

LEMMA InitBooks ==
  ASSUME Init
  PROVE  HoldInv /\ UsageInv /\ (DiskWithinQuota => QuotaInv)
<1>0. BridgeInv
  BY InitBridgeInv
<1>1. PICK p \in Paths, where \in {"nowhere", "final", "partial"} :
        /\ final = [q \in Paths |-> IF where = "final" /\ q = p THEN Old ELSE NoInode]
        /\ temp = [q \in Paths |-> IF where = "partial" /\ q = p THEN Old ELSE NoInode]
        /\ used = IF where = "nowhere" THEN 0 ELSE 1
  BY DEF Init
<1>2. /\ t = [u \in Tasks |-> NoTask] /\ inFlight = 0
      /\ flen = [i \in Inodes |-> IF i = Old THEN 1 ELSE 0]
  BY DEF Init
<1>3. \A u \in Tasks : t[u].pc = "none" /\ ~Covers(u)
  BY <1>2 DEF NoTask, Covers, CoverPcs
<1>4. HoldInv
  BY <1>3 DEF HoldInv
<1>5. \A P : "none" \notin P => Asked(P) = {} /\ Cardinality(Asked(P)) = 0
  BY <1>3, FS_EmptySet DEF Asked, AskedOf
<1>6. Cardinality(Cost) <= used
  <2>1. \A i \in Linked : i = Old /\ where # "nowhere"
    BY <1>1, InodesNamed DEF Linked
  <2>2. CASE where = "nowhere"
    <3>1. Cost = {}
      BY <2>1, <2>2 DEF Cost, Charged
    <3> QED
      BY <1>1, <2>2, <3>1, FS_EmptySet
  <2>3. CASE where # "nowhere"
    <3>1. ASSUME NEW b \in Cost PROVE b = <<Old, 1>>
      <4>1. PICK i \in Linked, k \in Blocks : b = <<i, k>> /\ k <= flen[i]
        BY <3>1 DEF Cost, Charged
      <4>2. i = Old /\ flen[i] = 1 /\ k >= 1 /\ k \in Nat
        BY <1>2, <2>1, <4>1, BridgeAssumption DEF Inodes, Blocks
      <4> QED
        BY <4>1, <4>2
    <3>2. Cost \in SUBSET {<<Old, 1>>}
      BY <3>1
    <3>3. IsFiniteSet({<<Old, 1>>}) /\ Cardinality({<<Old, 1>>}) = 1
      BY FS_Singleton
    <3>4. Cardinality(Cost) <= 1
      BY <3>2, <3>3, FS_Subset
    <3> QED
      BY <1>1, <2>3, <3>4
  <2> QED
    BY <2>2, <2>3
<1>7. UsageInv
  <2>1. Refunds = {}
    BY <1>3 DEF Refunds, AskedOf, Refund
  <2>2. Cardinality(Cost) + Cardinality(Refunds) <= used
    BY <1>6, <2>1, CostNat, FS_EmptySet
  <2>3. inFlight = Cardinality(Asked(Reserved))
    BY <1>2, <1>5, PlacesStarted
  <2> QED
    BY <1>3, <2>2, <2>3 DEF UsageInv
<1>8. ASSUME DiskWithinQuota PROVE QuotaInv
  <2>1. PICK D : D = {b \in Linked \X Blocks : b[2] <= flen[b[1]]}
    OBVIOUS
  <2>2. Cost \in SUBSET D /\ D \in SUBSET (Inodes \X Blocks)
    BY <2>1 DEF Cost, Charged, Linked
  <2>3. IsFiniteSet(D) /\ Cardinality(D) \in Nat
    BY <2>2, CostFinite
  <2>4. Cardinality(Cost) <= Cardinality(D)
    BY <2>2, <2>3, FS_Subset
  <2>5. Cardinality(D) <= Quota /\ Quota \in Nat
    BY <1>8, <2>1, BridgeAssumption DEF DiskWithinQuota, disk, Init
  <2> QED
    BY <1>5, <2>3, <2>4, <2>5, CostNat, PlacesStarted DEF QuotaInv
<1> QED
  BY <1>4, <1>7, <1>8

LEMMA NextBooks ==
  ASSUME overtaken' = {}, BridgeInv, HoldInv, UsageInv, [Next]_vars
  PROVE  BooksKept
<1>0. BridgeInv' /\ torn \subseteq torn'
  BY NextBridgeInv, HistoryGrows
<1>1. CASE session_step \/ UNCHANGED vars
  <2>1. UNCHANGED <<t, temp, final, flen, used, inFlight>>
    BY <1>1 DEF session_step, incoming_session, authenticate_session, auth_timeout,
                session_closes, vars, fsVars, counters
  <2> QED
    BY <1>0, <2>1, Books_names
<1>2. ASSUME NEW u \in Tasks, accept_stream(u, "reserve") \/ accept_stream(u, "get_open")
      PROVE  BooksKept
  BY <1>0, <1>2, Books_accept_stream
<1>3. ASSUME NEW u \in Tasks, put_step(u)
      PROVE  BooksKept
  <2>1. CASE reserve(u) \/ load_used(u) \/ load_in_flight(u) \/ resolve(u) \/ claim(u)
    BY <1>0, <2>1, Books_reserve, Books_load_used, Books_load_in_flight, Books_resolve,
       Books_claim
  <2>2. CASE open_temp(u) \/ open_failed(u) \/ open_replied(u)
    BY <1>0, <2>2, Books_open_temp, Books_open_failed, Books_open_replied
  <2>3. CASE route_put_chunk(u) \/ write_lands(u) \/ body_fails(u)
    BY <1>0, <2>3, Books_route_put_chunk, Books_write_lands, Books_body_fails
  <2>4. CASE verify_put_checksum(u) \/ commit_put(u) \/ settle_in_flight(u) \/ settle_used(u)
    BY <1>0, <2>4, Books_verify_put_checksum, Books_commit_put, Books_settle_in_flight,
       Books_settle_used
  <2>5. CASE \/ put_done(u) \/ drop_claim(u) \/ drop_stat(u) \/ drop_remove(u)
             \/ drop_release(u)
    BY <1>0, <2>5, Books_put_done, Books_drop_claim, Books_drop_stat, Books_drop_remove,
       Books_drop_release
  <2> QED
    BY <1>3, <2>1, <2>2, <2>3, <2>4, <2>5 DEF put_step
<1>4. ASSUME NEW u \in Tasks, get_step(u)
      PROVE  BooksKept
  BY <1>0, <1>4, Books_get
<1>5. ASSUME NEW p \in Paths, rm(p)
      PROVE  BooksKept
  BY <1>0, <1>5, Books_rm
<1>6. ASSUME NEW p \in Paths, NEW q \in Paths, rename(p, q)
      PROVE  BooksKept
  BY <1>0, <1>6, Books_rename
<1> QED
  BY <1>1, <1>2, <1>3, <1>4, <1>5, <1>6 DEF Next

Books == BridgeInv /\ HoldInv /\ UsageInv

LEMMA BooksHold ==
  Spec => [](overtaken # {} \/ Books)
<1>1. Init => Books
  BY InitBooks, InitBridgeInv DEF Books
<1>2. (overtaken # {} \/ Books) /\ [Next]_vars => (overtaken # {} \/ Books)'
  BY NextBridgeInv, NextBooks, HistoryGrows DEF BooksKept, Books
<1> QED
  BY <1>1, <1>2, PTL DEF Spec

\* Whatever the number of workers, used_bytes and in_flight_bytes together cover
\* every byte on disk, partials included, except while the settlement of a committed
\* upload is between its two operations: a reservation covers an upload's inode from
\* the open to the charge, or to the clean-up of PutGuard, and what no reservation
\* covers is charged, together with the refunds that guards at work still owe.  Late
\* writes, failed opens, reused partials, Rm and Rename do not break it; a stream
\* that claims the path of an aborted upload before that upload's clean-up does.
THEOREM CountersCoverDisk ==
  Spec => []UsageCoversDisk
<1>1. ASSUME BridgeInv, HoldInv, UsageInv PROVE UsageCoversDisk
  <2> SUFFICES ASSUME \A u \in Tasks : t[u].pc # "settle_used" PROVE disk <= used + inFlight
    BY DEF UsageCoversDisk, CountersCover
  <2>1. \A u \in Tasks : Covers(u) => t[u].pc \in Reserved
    BY DEF Covers, CoverPcs, Reserved
  <2>2. disk <= Cardinality(Cost) + Cardinality(Asked(Reserved))
    BY <1>1, <2>1, DiskCovered
  <2>3. Cardinality(Cost) <= used /\ inFlight = Cardinality(Asked(Reserved)) /\ used \in Int
    BY <1>1, CostNat, RefundNat DEF UsageInv, BridgeInv, TypeInv
  <2>4. disk \in Nat
    BY DiskNat
  <2> QED
    BY <2>2, <2>3, <2>4, CostNat, AskedNat
<1>2. (overtaken # {} \/ Books) => UsageCoversDisk
  BY <1>1 DEF Books, UsageCoversDisk
<1> QED
  BY <1>2, BooksHold, PTL

\* Whatever the number of workers, a home that is within its quota when the bridge
\* starts stays within it, partials included, whatever the uploads that run
\* concurrently, as long as no quota check loads its two counters around a
\* settlement and no stream claims the path of an aborted upload before that upload's
\* clean-up.  The reservation is made before the check, and any other check has seen
\* all that is charged or about to be.
THEOREM QuotaKept ==
  DiskWithinQuota /\ Spec => []DiskWithinQuota
<1>1. ASSUME BridgeInv, HoldInv, QuotaInv PROVE DiskWithinQuota
  <2>1. \A u \in Tasks : Covers(u) => t[u].pc \in Admitted
    BY DEF Covers, Admitted
  <2>2. disk <= Cardinality(Cost) + Cardinality(Asked(Admitted))
    BY <1>1, <2>1, DiskCovered
  <2> QED
    BY <1>1, <2>2, DiskNat, CostNat, AskedNat, BridgeAssumption DEF QuotaInv, DiskWithinQuota
<1>2. Init /\ DiskWithinQuota => QuotaInv
  BY InitBooks
<1>3. (overtaken # {} \/ Books) /\ (overtaken # {} \/ QuotaInv) /\ [Next]_vars
        => (overtaken # {} \/ QuotaInv)'
  BY NextBooks, HistoryGrows DEF BooksKept, Books
<1>4. (overtaken # {} \/ Books) /\ (overtaken # {} \/ QuotaInv) => DiskWithinQuota
  BY <1>1 DEF Books, DiskWithinQuota
<1> QED
  BY <1>2, <1>3, <1>4, BooksHold, PTL DEF Spec
=============================================================================
