--------------------------- MODULE DownloadProofs ---------------------------
(***************************************************************************)
(* Proofs about a download, for every set of contents, chunk and window    *)
(* size and any number of commits, lost connections and failed reads: the  *)
(* two sides hash the same bytes, the download implements AtomicCopy, and  *)
(* it does not throw away what it has.                                     *)
(*                                                                         *)
(* The inductive invariant describes the stream: the unread body cells,    *)
(* with what the codec has pending, cut up one stretch of the file the     *)
(* server opened, and only the trailer follows them.                       *)
(***************************************************************************)
EXTENDS Download, SequenceTheorems, WellFoundedInduction, TLAPS

\* Induction up to n, over the set of the numbers for which a fact holds.
LEMMA UpTo ==
    ASSUME NEW n \in Nat, NEW G, 0 \in G, \A m \in 1..n : m - 1 \in G => m \in G
    PROVE  \A m \in 0..n : m \in G
<1> SUFFICES ASSUME ~\A m \in 0..n : m \in G PROVE FALSE
  OBVIOUS
<1> DEFINE B == {m \in 0..n : m \notin G}
<1>b. B \in SUBSET Nat /\ B # {}
  OBVIOUS
<1>0. PICK R : R = OpToRel(<, Nat)
  OBVIOUS
<1>1. IsWellFoundedOn(R, Nat)
  BY <1>0, NatLessThanWellFounded
<1>2. PICK m \in B : \A b \in B : ~(<<b, m>> \in R)
  BY <1>1, <1>b, WFMin
<1>3. \A b \in B : b < m => <<b, m>> \in R
  BY <1>0 DEF OpToRel
<1>4. m \in 1..n
  OBVIOUS
<1>5. m - 1 \in 0..n /\ m - 1 < m
  BY <1>4
<1>6. m - 1 \notin B
  BY <1>2, <1>3, <1>5
<1> QED
  BY <1>4, <1>5, <1>6

-----------------------------------------------------------------------------
(***************************************************************************)
(* Types.                                                                  *)
(***************************************************************************)

Codecs == {"identity", "zstd"}
Response == [ok : BOOLEAN, size : Nat, total : Nat,
             enc : Codecs \cup {"NotFound", "InvalidRange"}]

Payload == ({1, 2} \X Response) \cup Blocks \cup Seq(Blocks) \cup ({1, 2} \X Seq(Blocks))
Cell == [k : {"frame", "data", "zstd", "zend"}, v : Payload]

Sender == [st : {"none", "sending", "done"}, file : Seq(Blocks), pos : Nat, prefix : Nat,
           total : Nat, sent : Nat, enc : Codecs, buffered : Seq(Blocks),
           pending : Seq(Cell), frameFin : BOOLEAN, hash : Seq(Blocks),
           trailer : BOOLEAN, trailerOff : Nat]

Getter == [st : {"idle", "waiting", "body", "ok", "failed"}, offset : Nat, retried : BOOLEAN,
           size : Nat, enc : Codecs, received : Nat, frame : BOOLEAN, hash : Seq(Blocks),
           trailer : Seq(Cell), buf : Seq(Cell), fin : BOOLEAN]

TypeInv ==
  /\ remote \in Versions \cup {NoFile}
  /\ local \in Seq(Blocks) \cup {NoFile}
  /\ snd \in Sender /\ cli \in Getter
  /\ wire \in Seq(Cell)
  /\ req \in Nat \cup {NoReq}
  /\ at \in {"poll", "prefix", "body", "trailer"}
  /\ fin \in BOOLEAN

-----------------------------------------------------------------------------
(***************************************************************************)
(* The server: what it has hashed is what it has read, and the body starts *)
(* where the client's copy ends.                                           *)
(***************************************************************************)

\* Where the body starts in the file.
Base == Len(snd.file) - snd.total

SenderInv ==
  /\ at # "poll" => snd.st = "sending" /\ req = NoReq
  /\ snd.total <= Len(snd.file) /\ snd.sent <= snd.total
  /\ snd.pos + snd.prefix = Base + snd.sent
  /\ snd.hash = SubSeq(snd.file, 1, snd.pos)
  /\ at \in {"body", "trailer"} => snd.prefix = 0
  /\ at = "trailer" \/ snd.trailerOff > 0 => snd.prefix = 0 /\ body_sent
  /\ snd.trailerOff <= 2
  /\ snd.enc = "identity" => snd.pending = <<>> /\ snd.buffered = <<>>
  /\ snd.frameFin => snd.sent = snd.total /\ snd.buffered = <<>>
  /\ Len(snd.buffered) <= snd.sent
  /\ snd.buffered = SubSeq(snd.file, Base + snd.sent - Len(snd.buffered) + 1, Base + snd.sent)

-----------------------------------------------------------------------------
(***************************************************************************)
(* The stream.                                                             *)
(***************************************************************************)

\* The blocks a body cell stands for.
Text(c) == IF c.k = "data" THEN <<c.v>> ELSE c.v

\* The cells b cut the stretch lo+1..hi of f at the points p.
Cuts(b, p, f, lo, hi) ==
  /\ p \in [0..Len(b) -> Nat] /\ p[0] = lo /\ p[Len(b)] = hi
  /\ \A i, j \in 0..Len(b) : i <= j => p[i] <= p[j]
  /\ \A j \in 1..Len(b) : Text(b[j]) = SubSeq(f, p[j - 1] + 1, p[j])

Plain(b) == \A j \in 1..Len(b) : b[j].k = "data"
Packed(b) == \A j \in 1..Len(b) : b[j].k # "data"

\* What may follow in a body of which the client has seen the end of the frame if ended.
Kinds(b, enc, frameFin, ended) ==
  /\ enc = "identity" => Plain(b)
  /\ enc = "zstd" =>
       /\ \A j \in 1..Len(b) : b[j].k = IF frameFin /\ j = Len(b) THEN "zend" ELSE "zstd"
       /\ ended <=> frameFin /\ b = <<>>

\* The first n cells of the trailer of f.
IsTrailer(t, f, n) ==
  /\ Len(t) = n
  /\ \A j \in 1..Len(t) : t[j] = cell("data", <<j, f>>)

\* What the response says of the sender.
Describes(resp) ==
  /\ resp \in Response
  /\ resp.ok => /\ resp.size = snd.total /\ resp.total = Len(snd.file)
                /\ resp.enc = snd.enc
  /\ ~resp.ok => snd.st = "done"

\* The client has s to read, after the response if it waits for that.
Unread(s) == IF cli.st = "waiting"
             THEN \E resp : Describes(resp) /\ cli.buf \o wire = framed(resp) \o s
             ELSE wire = s

\* The cells b are the part of the body after the first r blocks that has left the codec.
Holds(b, p, r, ended) ==
  /\ Cuts(b, p, snd.file, Base + r, Base + snd.sent - Len(snd.buffered))
  /\ Kinds(b, snd.enc, snd.frameFin, ended)

Stream(body, tail, p) ==
  /\ Unread(body \o tail)
  /\ Holds(body \o snd.pending, p, cli.received, cli.frame)
  /\ IsTrailer(cli.trailer \o tail, snd.file, snd.trailerOff)

StreamInv ==
  busy /\ req = NoReq => \E body, tail \in Seq(Cell) : \E p : Stream(body, tail, p)

-----------------------------------------------------------------------------
(***************************************************************************)
(* The client.                                                             *)
(***************************************************************************)

\* The server reads a version that the path has named since this get began.
SeenInv ==
  /\ busy /\ req = NoReq /\ (snd.st = "sending" \/ snd.trailerOff > 0) => snd.file \in seen
  /\ req # NoReq => cli.st = "waiting" /\ wire = <<>> /\ cli.buf = <<>> /\ remote \in seen

WaitingInv ==
  cli.st = "waiting" =>
    /\ cli.offset = length(local) /\ cli.received = 0 /\ ~cli.frame
    /\ cli.trailer = <<>> /\ Len(cli.buf) <= 1
    /\ cli.retried => cli.offset = 0

\* The file at the path is the hashed prefix and, after it, the blocks of the server's file.
Progress(c, path) ==
  /\ c.size = snd.total /\ c.enc = snd.enc /\ c.offset = Base
  /\ c.received <= snd.total
  /\ path = c.hash /\ Len(c.hash) = c.offset + c.received
  /\ \A i \in 1..c.received : c.hash[c.offset + i] = snd.file[c.offset + i]

BodyInv == cli.st = "body" => Progress(cli, local)

DownloadInv == TypeInv /\ SenderInv /\ StreamInv /\ SeenInv /\ WaitingInv /\ BodyInv

-----------------------------------------------------------------------------
(***************************************************************************)
(* Sequences cut in two.                                                   *)
(***************************************************************************)

LEMMA Joined ==
    ASSUME NEW S, NEW s \in Seq(S), NEW t \in Seq(S), NEW u, u = s \o t
    PROVE  /\ Len(s) \in Nat /\ Len(t) \in Nat
           /\ u \in Seq(S) /\ Len(u) = Len(s) + Len(t)
           /\ \A i \in 1..Len(s) : u[i] = s[i]
           /\ \A i \in 1..Len(t) : u[Len(s) + i] = t[i]
<1>1. Len(s) \in Nat /\ Len(t) \in Nat
  BY LenProperties
<1>2. /\ u \in Seq(S) /\ Len(u) = Len(s) + Len(t)
      /\ \A i \in 1..(Len(s) + Len(t)) : u[i] = IF i <= Len(s) THEN s[i] ELSE t[i - Len(s)]
  BY ConcatProperties
<1>3. ASSUME NEW i \in 1..Len(s) PROVE u[i] = s[i]
  <2>1. i \in 1..(Len(s) + Len(t)) /\ i <= Len(s)
    BY <1>1
  <2> QED
    BY <1>2, <2>1
<1>4. ASSUME NEW i \in 1..Len(t) PROVE u[Len(s) + i] = t[i]
  <2>1. Len(s) + i \in 1..(Len(s) + Len(t)) /\ ~(Len(s) + i <= Len(s)) /\ Len(s) + i - Len(s) = i
    BY <1>1
  <2> QED
    BY <1>2, <2>1
<1> QED
  BY <1>1, <1>2, <1>3, <1>4

Follows(u, s, t) ==
  (\A i \in 1..Len(s) : u[i] = s[i]) /\ \A i \in 1..Len(t) : u[Len(s) + i] = t[i]

LEMMA FollowsJoined ==
    ASSUME NEW S, NEW s \in Seq(S), NEW t \in Seq(S)
    PROVE  Follows(s \o t, s, t)
BY Joined DEF Follows

Regrouped(x, y, z) == (x \o y) \o z = x \o (y \o z)

LEMMA Regroup ==
    ASSUME NEW S, NEW x \in Seq(S), NEW y \in Seq(S), NEW z \in Seq(S)
    PROVE  Regrouped(x, y, z)
BY ConcatAssociative DEF Regrouped

LEMMA Split ==
    ASSUME NEW S, NEW s \in Seq(S), NEW m \in 0..Len(s)
    PROVE  /\ SubSeq(s, 1, m) \in Seq(S) /\ Len(SubSeq(s, 1, m)) = m
           /\ \A i \in 1..m : SubSeq(s, 1, m)[i] = s[i]
           /\ SubSeq(s, m + 1, Len(s)) \in Seq(S)
           /\ Len(SubSeq(s, m + 1, Len(s))) = Len(s) - m
           /\ \A i \in 1..(Len(s) - m) : SubSeq(s, m + 1, Len(s))[i] = s[m + i]
           /\ SubSeq(s, 1, m) \o SubSeq(s, m + 1, Len(s)) = s
<1>1. Len(s) \in Nat /\ m \in Int /\ m + 1 \in Int /\ 1 \in Int
  BY LenProperties
<1>2. (\A i \in 1..m : s[i] \in S) /\ (\A i \in (m + 1)..Len(s) : s[i] \in S)
  BY ElementOfSeq, <1>1
<1>3. /\ SubSeq(s, 1, m) \in Seq(S) /\ Len(SubSeq(s, 1, m)) = m
      /\ \A i \in 1..m : SubSeq(s, 1, m)[i] = s[i]
  <2>1. /\ SubSeq(s, 1, m) \in Seq(S) /\ Len(SubSeq(s, 1, m)) = IF 1 <= m THEN m - 1 + 1 ELSE 0
        /\ \A i \in 1..(m - 1 + 1) : SubSeq(s, 1, m)[i] = s[1 + i - 1]
    BY <1>1, <1>2, SubSeqProperties
  <2> QED
    BY <2>1
<1>4. /\ SubSeq(s, m + 1, Len(s)) \in Seq(S)
      /\ Len(SubSeq(s, m + 1, Len(s))) = Len(s) - m
      /\ \A i \in 1..(Len(s) - m) : SubSeq(s, m + 1, Len(s))[i] = s[m + i]
  <2>1. /\ SubSeq(s, m + 1, Len(s)) \in Seq(S)
        /\ Len(SubSeq(s, m + 1, Len(s))) = IF m + 1 <= Len(s) THEN Len(s) - (m + 1) + 1 ELSE 0
        /\ \A i \in 1..(Len(s) - (m + 1) + 1) : SubSeq(s, m + 1, Len(s))[i] = s[m + 1 + i - 1]
    BY <1>1, <1>2, SubSeqProperties
  <2> QED
    BY <1>1, <2>1
<1>5. SubSeq(s, 1, m) \o SubSeq(s, m + 1, Len(s)) = s
  <2>1. 1 \in 1..(Len(s) + 1) /\ m \in (1 - 1)..Len(s) /\ Len(s) \in m..Len(s)
    BY <1>1
  <2>2. SubSeq(s, 1, m) \o SubSeq(s, m + 1, Len(s)) = SubSeq(s, 1, Len(s))
    BY <2>1, ConcatAdjacentSubSeq
  <2> QED
    BY <2>2, SubSeqFull
<1> QED
  BY <1>3, <1>4, <1>5

\* A cut inside the first of two joined sequences.
LEMMA SplitFirst ==
    ASSUME NEW S, NEW s \in Seq(S), NEW t \in Seq(S), NEW m \in 0..Len(s)
    PROVE  /\ s \o t \in Seq(S) /\ Len(s \o t) = Len(s) + Len(t)
           /\ SubSeq(s \o t, 1, m) = SubSeq(s, 1, m)
           /\ SubSeq(s \o t, m + 1, Len(s \o t)) = SubSeq(s, m + 1, Len(s)) \o t
<1>1. Len(s) \in Nat /\ Len(t) \in Nat
  BY LenProperties
<1>2. /\ s \o t \in Seq(S) /\ Len(s \o t) = Len(s) + Len(t)
      /\ \A i \in 1..(Len(s) + Len(t)) : (s \o t)[i] = IF i <= Len(s) THEN s[i] ELSE t[i - Len(s)]
  BY ConcatProperties
<1>3. m \in 0..Len(s \o t)
  BY <1>1, <1>2
<1>4. PICK u \in Seq(S) : u = s \o t
  BY <1>2
<1>5. PICK a \in Seq(S) : a = SubSeq(s, m + 1, Len(s))
  BY Split
<1>6. Len(a) = Len(s) - m /\ \A i \in 1..(Len(s) - m) : a[i] = s[m + i]
  BY <1>5, Split
<1>7. /\ SubSeq(u, 1, m) \in Seq(S) /\ Len(SubSeq(u, 1, m)) = m
      /\ \A i \in 1..m : SubSeq(u, 1, m)[i] = u[i]
      /\ SubSeq(u, m + 1, Len(u)) \in Seq(S)
      /\ Len(SubSeq(u, m + 1, Len(u))) = Len(u) - m
      /\ \A i \in 1..(Len(u) - m) : SubSeq(u, m + 1, Len(u))[i] = u[m + i]
  BY <1>3, <1>4, Split, SMTT(60)
<1>8. /\ SubSeq(s, 1, m) \in Seq(S) /\ Len(SubSeq(s, 1, m)) = m
      /\ \A i \in 1..m : SubSeq(s, 1, m)[i] = s[i]
  BY Split
<1>9. SubSeq(u, 1, m) = SubSeq(s, 1, m)
  <2>1. \A i \in 1..m : SubSeq(u, 1, m)[i] = SubSeq(s, 1, m)[i]
    BY <1>1, <1>2, <1>4, <1>7, <1>8
  <2> QED
    BY <1>7, <1>8, <2>1, SeqEqual
<1>10. PICK w \in Seq(S) : w = a \o t
  BY ConcatProperties
<1>n. PICK n \in Nat : n = Len(s)
  BY <1>1
<1>l. PICK l \in Nat : l = Len(t)
  BY <1>1
<1>w. /\ Len(w) = n - m + l /\ (\A i \in 1..(n - m) : w[i] = a[i])
      /\ \A i \in 1..l : w[n - m + i] = t[i]
  <2>1. Len(a) = n - m
    BY <1>n, <1>6
  <2>2. /\ Len(w) = Len(a) + Len(t) /\ (\A i \in 1..Len(a) : w[i] = a[i])
        /\ \A i \in 1..Len(t) : w[Len(a) + i] = t[i]
    BY <1>10, Joined, SMTT(60)
  <2> QED
    BY <1>l, <2>1, <2>2, Zenon
<1>u. /\ Len(u) = n + l /\ (\A i \in 1..n : u[i] = s[i])
      /\ \A i \in 1..l : u[n + i] = t[i]
  BY <1>n, <1>l, <1>4, Joined
<1>11. SubSeq(u, m + 1, Len(u)) = w
  <2>0. m \in 0..n
    BY <1>n
  <2>1. Len(SubSeq(u, m + 1, Len(u))) = Len(w)
    BY <1>u, <1>w, <1>7, <2>0
  <2>2. ASSUME NEW i \in 1..Len(w) PROVE SubSeq(u, m + 1, Len(u))[i] = w[i]
    <3>1. i \in 1..(n - m + l) /\ m + i \in 1..(n + l) /\ i \in 1..(Len(u) - m)
      BY <2>0, <1>u, <1>w
    <3>2. SubSeq(u, m + 1, Len(u))[i] = u[m + i]
      BY <3>1, <1>7
    <3>5. CASE i <= n - m
      <4>1. m + i <= n /\ i \in 1..(n - m)
        BY <2>0, <3>1, <3>5
      <4>2. u[m + i] = s[m + i] /\ w[i] = a[i] /\ a[i] = s[m + i]
        BY <4>1, <3>1, <3>5, <1>n, <1>u, <1>w, <1>6
      <4> QED
        BY <3>2, <4>2
    <3>6. CASE ~(i <= n - m)
      <4>1. PICK o \in 1..l : o = i - (n - m)
        BY <2>0, <3>1, <3>6
      <4>2. m + i = n + o /\ i = n - m + o
        BY <2>0, <3>1, <4>1
      <4>3. u[n + o] = t[o] /\ w[n - m + o] = t[o]
        BY <1>u, <1>w
      <4> QED
        BY <4>2, <4>3, <3>2
    <3> QED
      BY <3>5, <3>6
  <2> QED
    BY <1>7, <2>1, <2>2, SeqEqual
<1> QED
  BY <1>2, <1>4, <1>5, <1>9, <1>10, <1>11

\* A cut inside the second of two joined sequences.
LEMMA SplitSecond ==
    ASSUME NEW S, NEW s \in Seq(S), NEW t \in Seq(S), NEW m \in 0..Len(t)
    PROVE  /\ s \o t \in Seq(S) /\ Len(s \o t) = Len(s) + Len(t)
           /\ SubSeq(s \o t, 1, Len(s) + m) = s \o SubSeq(t, 1, m)
           /\ SubSeq(s \o t, Len(s) + m + 1, Len(s \o t)) = SubSeq(t, m + 1, Len(t))
<1>1. PICK n \in Nat : n = Len(s)
  BY LenProperties
<1>2. PICK l \in Nat : l = Len(t)
  BY LenProperties
<1>3. PICK u \in Seq(S) : u = s \o t
  BY ConcatProperties
<1>4. Len(u) = n + l /\ \A i \in 1..(n + l) : u[i] = IF i <= n THEN s[i] ELSE t[i - n]
  BY <1>1, <1>2, <1>3, ConcatProperties
<1>5. PICK a \in Seq(S) : a = SubSeq(t, 1, m)
  BY Split
<1>6. Len(a) = m /\ \A i \in 1..m : a[i] = t[i]
  BY <1>5, Split
<1>7. PICK b \in Seq(S) : b = SubSeq(t, m + 1, l)
  BY <1>2, Split
<1>8. Len(b) = l - m /\ \A i \in 1..(l - m) : b[i] = t[m + i]
  BY <1>2, <1>7, Split
<1>9. n + m \in 0..Len(u) /\ m \in 0..l
  BY <1>1, <1>2, <1>4
<1>10. PICK c \in Seq(S) : c = SubSeq(u, 1, n + m)
  BY <1>9, Split
<1>11. Len(c) = n + m /\ \A i \in 1..(n + m) : c[i] = u[i]
  BY <1>9, <1>10, Split
<1>12. PICK d \in Seq(S) : d = SubSeq(u, n + m + 1, Len(u))
  BY <1>9, Split
<1>13. Len(d) = n + l - (n + m) /\ \A i \in 1..(n + l - (n + m)) : d[i] = u[n + m + i]
  BY <1>4, <1>9, <1>12, Split
<1>14. PICK w \in Seq(S) : w = s \o a
  BY ConcatProperties
<1>w. Len(w) = n + m /\ \A i \in 1..(n + m) : w[i] = IF i <= n THEN s[i] ELSE a[i - n]
  BY <1>1, <1>6, <1>14, ConcatProperties, ZenonT(60)
<1>15. c = w
  <2>1. ASSUME NEW i \in 1..(n + m) PROVE c[i] = w[i]
    <3>1. i \in 1..(n + l) /\ c[i] = u[i]
      BY <1>9, <1>11
    <3>2. CASE i <= n
      BY <3>1, <3>2, <1>4, <1>w
    <3>3. CASE ~(i <= n)
      <4>1. i - n \in 1..m
        BY <1>9, <3>3
      <4> QED
        BY <3>1, <3>3, <4>1, <1>4, <1>6, <1>w
    <3> QED
      BY <3>2, <3>3
  <2> QED
    BY <1>11, <1>w, <2>1, SeqEqual
<1>16. d = b
  <2>1. \A i \in 1..(l - m) : d[i] = b[i]
    <3> TAKE i \in 1..(l - m)
    <3>1. n + m + i \in 1..(n + l) /\ ~(n + m + i <= n) /\ n + m + i - n = m + i
      BY <1>9
    <3>2. i \in 1..(n + l - (n + m))
      BY <1>9
    <3>3. d[i] = u[n + m + i]
      BY <1>13, <3>2
    <3>4. u[n + m + i] = t[m + i]
      BY <1>4, <3>1
    <3> QED
      BY <1>8, <3>3, <3>4
  <2>2. Len(d) = Len(b) /\ Len(b) = l - m
    BY <1>8, <1>9, <1>13, SMTT(60)
  <2> QED
    BY <2>1, <2>2, SeqEqual
<1> QED
  BY <1>1, <1>2, <1>3, <1>4, <1>5, <1>7, <1>10, <1>12, <1>14, <1>15, <1>16

-----------------------------------------------------------------------------
(***************************************************************************)
(* Cut points.                                                             *)
(***************************************************************************)

\* Without its first k cells, the body covers what is left of the stretch.
LEMMA CutsDrop ==
    ASSUME NEW b \in Seq(Cell), NEW p, NEW f, NEW lo, NEW hi, NEW k \in 0..Len(b),
           Cuts(b, p, f, lo, hi)
    PROVE  \E q : Cuts(SubSeq(b, k + 1, Len(b)), q, f, p[k], hi)
<1>n. PICK n \in Nat : n = Len(b)
  BY LenProperties
<1>1. PICK c \in Seq(Cell) : c = SubSeq(b, k + 1, Len(b))
  BY Split
<1>2. Len(c) = n - k /\ \A i \in 1..(n - k) : c[i] = b[k + i]
  BY <1>n, <1>1, Split, ZenonT(60)
<1>3. PICK q : q = [i \in 0..(n - k) |-> p[k + i]]
  OBVIOUS
<1>4. k \in 0..n /\ \A i \in 0..(n - k) : k + i \in 0..n
  BY <1>n
<1>5. /\ p \in [0..n -> Nat] /\ p[n] = hi
      /\ \A i, j \in 0..n : i <= j => p[i] <= p[j]
      /\ \A j \in 1..n : Text(b[j]) = SubSeq(f, p[j - 1] + 1, p[j])
  BY <1>n DEF Cuts
<1>6. q \in [0..(n - k) -> Nat] /\ q[0] = p[k] /\ q[n - k] = hi
  BY <1>3, <1>4, <1>5
<1>7. \A i, j \in 0..(n - k) : i <= j => q[i] <= q[j]
  BY <1>3, <1>4, <1>5
<1>8. ASSUME NEW j \in 1..(n - k) PROVE Text(c[j]) = SubSeq(f, q[j - 1] + 1, q[j])
  <2>1. k + j \in 1..n /\ k + j - 1 = k + (j - 1) /\ j - 1 \in 0..(n - k) /\ j \in 0..(n - k)
    BY <1>4
  <2>2. q[j - 1] = p[k + j - 1] /\ q[j] = p[k + j]
    BY <1>3, <2>1
  <2>3. Text(b[k + j]) = SubSeq(f, p[k + j - 1] + 1, p[k + j])
    BY <1>5, <2>1, SMTT(60)
  <2> QED
    BY <1>2, <2>2, <2>3
<1>9. Cuts(c, q, f, p[k], hi)
  BY <1>2, <1>6, <1>7, <1>8 DEF Cuts
<1> QED
  BY <1>1, <1>9

\* One more cell.
LEMMA CutsAppend ==
    ASSUME NEW b \in Seq(Cell), NEW p, NEW f, NEW lo, NEW hi \in Nat, NEW top \in Nat,
           NEW c \in Cell, Cuts(b, p, f, lo, hi), hi <= top, Text(c) = SubSeq(f, hi + 1, top)
    PROVE  \E q : Cuts(b \o <<c>>, q, f, lo, top)
<1>n. PICK n \in Nat : n = Len(b)
  BY LenProperties
<1>0. <<c>> \in Seq(Cell) /\ Len(<<c>>) = 1 /\ <<c>>[1] = c
  OBVIOUS
<1>1. PICK d \in Seq(Cell) : d = b \o <<c>>
  BY <1>0, ConcatProperties
<1>2. Len(d) = n + 1 /\ (\A i \in 1..n : d[i] = b[i]) /\ d[n + 1] = c
  <2>1. Len(d) = n + 1 /\ \A i \in 1..(n + 1) : d[i] = IF i <= n THEN b[i] ELSE <<c>>[i - n]
    BY <1>n, <1>0, <1>1, ConcatProperties
  <2> QED
    BY <1>0, <2>1
<1>3. PICK q : q = [i \in 0..(n + 1) |-> IF i = n + 1 THEN top ELSE p[i]]
  OBVIOUS
<1>5. /\ p \in [0..n -> Nat] /\ p[0] = lo /\ p[n] = hi
      /\ \A i, j \in 0..n : i <= j => p[i] <= p[j]
      /\ \A j \in 1..n : Text(b[j]) = SubSeq(f, p[j - 1] + 1, p[j])
  BY <1>n DEF Cuts
<1>6. q[n + 1] = top /\ \A i \in 0..n : q[i] = p[i] /\ q[i] \in Nat
  BY <1>3, <1>5
<1>7. q \in [0..(n + 1) -> Nat] /\ q[0] = lo /\ q[n + 1] = top
  BY <1>3, <1>5, <1>6
<1>8. ASSUME NEW i \in 0..(n + 1), NEW j \in 0..(n + 1), i <= j PROVE q[i] <= q[j]
  <2>1. CASE j = n + 1
    <3>0. n \in 0..n
      OBVIOUS
    <3>1. \A m \in 0..n : p[m] <= hi /\ p[m] \in Nat
      BY <1>5, <3>0
    <3>2. \A m \in 0..n : q[m] <= top
      BY <1>6, <3>1
    <3> QED
      BY <1>6, <2>1, <3>2
  <2>2. CASE j # n + 1
    <3>1. i \in 0..n /\ j \in 0..n
      BY <1>8, <2>2
    <3> QED
      BY <1>5, <1>6, <1>8, <3>1
  <2> QED
    BY <2>1, <2>2
<1>9. ASSUME NEW j \in 1..(n + 1) PROVE Text(d[j]) = SubSeq(f, q[j - 1] + 1, q[j])
  <2>1. CASE j = n + 1
    <3>1. q[j - 1] = hi /\ q[j] = top /\ d[j] = c
      BY <1>2, <1>5, <1>6, <2>1
    <3> QED
      BY <3>1
  <2>2. CASE j # n + 1
    <3>1. j \in 1..n /\ j \in 0..n /\ j - 1 \in 0..n
      BY <2>2
    <3>2. q[j - 1] = p[j - 1] /\ q[j] = p[j] /\ d[j] = b[j]
      BY <1>2, <1>6, <3>1
    <3> QED
      BY <1>5, <3>1, <3>2
  <2> QED
    BY <2>1, <2>2
<1>10. Cuts(d, q, f, lo, top)
  BY <1>2, <1>7, <1>8, <1>9 DEF Cuts
<1> QED
  BY <1>1, <1>10

\* What a stretch of a file is.
LEMMA Stretch ==
    ASSUME NEW S, NEW f \in Seq(S), NEW lo \in Nat, NEW hi \in Nat, lo <= hi, hi <= Len(f)
    PROVE  /\ SubSeq(f, lo + 1, hi) \in Seq(S)
           /\ Len(SubSeq(f, lo + 1, hi)) = hi - lo
           /\ \A i \in 1..(hi - lo) : SubSeq(f, lo + 1, hi)[i] = f[lo + i]
<1>1. \A i \in (lo + 1)..hi : f[i] \in S
  BY ElementOfSeq, LenProperties
<1>2. /\ SubSeq(f, lo + 1, hi) \in Seq(S)
      /\ Len(SubSeq(f, lo + 1, hi)) = IF lo + 1 <= hi THEN hi - (lo + 1) + 1 ELSE 0
      /\ \A i \in 1..(hi - (lo + 1) + 1) : SubSeq(f, lo + 1, hi)[i] = f[lo + 1 + i - 1]
  BY <1>1, SubSeqProperties
<1> QED
  BY <1>2

\* Two stretches that meet.
LEMMA StretchJoin ==
    ASSUME NEW S, NEW f \in Seq(S), NEW lo \in Nat, NEW mid \in Nat, NEW hi \in Nat,
           lo <= mid, mid <= hi, hi <= Len(f)
    PROVE  SubSeq(f, lo + 1, mid) \o SubSeq(f, mid + 1, hi) = SubSeq(f, lo + 1, hi)
<1>1. Len(f) \in Nat
  BY LenProperties
<1>2. lo + 1 \in 1..(Len(f) + 1) /\ mid \in (lo + 1 - 1)..Len(f) /\ hi \in mid..Len(f)
  BY <1>1
<1> QED
  BY <1>2, ConcatAdjacentSubSeq

\* The decoder puts a compressed body's cells together again.
LEMMA Decode ==
    ASSUME NEW b \in Seq(Cell), NEW p, NEW f \in Seq(Blocks), NEW lo \in Nat, NEW hi \in Nat,
           hi <= Len(f), Cuts(b, p, f, lo, hi), Packed(b)
    PROVE  decoded(b) = SubSeq(f, lo + 1, hi)
<1>n. PICK n \in Nat : n = Len(b)
  BY LenProperties
<1>5. /\ p \in [0..n -> Nat] /\ p[0] = lo /\ p[n] = hi
      /\ \A i, j \in 0..n : i <= j => p[i] <= p[j]
      /\ \A j \in 1..n : b[j].v = SubSeq(f, p[j - 1] + 1, p[j])
  BY <1>n DEF Cuts, Text, Packed
<1>6. PICK T : T = [i \in 0..n |-> SubSeq(f, lo + 1, p[i])]
  OBVIOUS
<1>7. T[0] = <<>>
  <2>0. 0 \in 0..n
    OBVIOUS
  <2>1. T[0] = SubSeq(f, lo + 1, lo)
    BY <1>5, <1>6, <2>0
  <2> QED
    BY <2>1, SubSeqEmpty
<1>8. ASSUME NEW i \in 1..n PROVE T[i] = T[i - 1] \o b[i].v
  <2>1. i \in 0..n /\ i - 1 \in 0..n /\ 0 \in 0..n /\ n \in 0..n
    OBVIOUS
  <2>2. lo <= p[i - 1] /\ p[i - 1] <= p[i] /\ p[i] <= hi /\ p[i - 1] \in Nat /\ p[i] \in Nat
    BY <1>5, <2>1
  <2>3. p[i] <= Len(f)
    BY <2>2, LenProperties
  <2>4. SubSeq(f, lo + 1, p[i - 1]) \o SubSeq(f, p[i - 1] + 1, p[i]) = SubSeq(f, lo + 1, p[i])
    BY <2>2, <2>3, StretchJoin, ZenonT(60)
  <2> QED
    BY <1>5, <1>6, <2>1, <2>4
<1> DEFINE Eq(s) == s = [i \in 0..n |-> IF i = 0 THEN <<>> ELSE s[i - 1] \o b[i].v]
<1>9. Eq(T)
  <2>1. \A i \in 0..n : T[i] = IF i = 0 THEN <<>> ELSE T[i - 1] \o b[i].v
    <3> TAKE i \in 0..n
    <3>1. CASE i = 0
      BY <1>7, <3>1
    <3>2. CASE i # 0
      <4>1. i \in 1..n
        BY <3>2
      <4> QED
        BY <1>8, <3>2, <4>1
    <3> QED
      BY <3>1, <3>2
  <2> QED
    BY <1>6, <2>1
<1>10. PICK R : R = CHOOSE s : Eq(s)
  OBVIOUS
<1>11. Eq(R)
  BY <1>9, <1>10
<1>12. decoded(b) = R[n]
  BY <1>10, <1>n DEF decoded
<1>13. R[0] = <<>> /\ \A i \in 1..n : R[i] = R[i - 1] \o b[i].v
  <2>1. \A i \in 0..n : R[i] = IF i = 0 THEN <<>> ELSE R[i - 1] \o b[i].v
    BY <1>11, Zenon
  <2>2. 0 \in 0..n /\ \A i \in 1..n : i \in 0..n /\ i # 0
    OBVIOUS
  <2> QED
    BY <2>1, <2>2, Zenon
<1> HIDE DEF Eq
<1> DEFINE G == {m \in 0..n : R[m] = T[m]}
<1>14. 0 \in G
  BY <1>7, <1>13
<1>15. ASSUME NEW m \in 1..n, m - 1 \in G PROVE m \in G
  <2>1. R[m - 1] = T[m - 1] /\ m \in 0..n
    BY <1>15
  <2>2. R[m] = R[m - 1] \o b[m].v /\ T[m] = T[m - 1] \o b[m].v
    BY <1>8, <1>13
  <2> QED
    BY <2>1, <2>2
<1>16. \A m \in 0..n : m \in G
  <2> HIDE DEF G
  <2> QED
    BY <1>14, <1>15, UpTo
<1>17. R[n] = T[n]
  BY <1>16
<1> QED
  BY <1>5, <1>6, <1>12, <1>17

\* A plain body has one block in each cell.
LEMMA UnitCuts ==
    ASSUME NEW b \in Seq(Cell), NEW p, NEW f \in Seq(Blocks), NEW lo \in Nat, NEW hi \in Nat,
           hi <= Len(f), Cuts(b, p, f, lo, hi), Plain(b)
    PROVE  /\ \A j \in 0..Len(b) : p[j] = lo + j
           /\ \A j \in 1..Len(b) : b[j].v = f[lo + j]
           /\ hi = lo + Len(b)
<1>n. PICK n \in Nat : n = Len(b)
  BY LenProperties
<1>5. /\ p \in [0..n -> Nat] /\ p[0] = lo /\ p[n] = hi
      /\ \A i, j \in 0..n : i <= j => p[i] <= p[j]
      /\ \A j \in 1..n : Text(b[j]) = SubSeq(f, p[j - 1] + 1, p[j])
  BY <1>n DEF Cuts
<1>6. ASSUME NEW j \in 1..n PROVE p[j] = p[j - 1] + 1 /\ b[j].v = f[p[j]]
  <2>1. j \in 0..n /\ j - 1 \in 0..n /\ n \in 0..n
    OBVIOUS
  <2>2. p[j - 1] <= p[j] /\ p[j] <= hi /\ p[j - 1] \in Nat /\ p[j] \in Nat
    BY <1>5, <2>1
  <2>3. p[j] <= Len(f)
    BY <2>2, LenProperties
  <2>x. PICK x \in Nat : x = p[j - 1]
    BY <2>2
  <2>y. PICK y \in Nat : y = p[j]
    BY <2>2
  <2>w. PICK w : w = SubSeq(f, x + 1, y)
    OBVIOUS
  <2>4. Len(w) = y - x /\ \A i \in 1..(y - x) : w[i] = f[x + i]
    <3>1. x <= y /\ y <= Len(f)
      BY <2>2, <2>3, <2>x, <2>y
    <3>2. /\ Len(SubSeq(f, x + 1, y)) = y - x
          /\ \A i \in 1..(y - x) : SubSeq(f, x + 1, y)[i] = f[x + i]
      BY <3>1, Stretch
    <3> QED
      BY <2>w, <3>2
  <2>5. w = <<b[j].v>>
    <3>1. w = Text(b[j])
      BY <1>5, <2>w, <2>x, <2>y
    <3> QED
      BY <1>n, <3>1 DEF Text, Plain
  <2>6. Len(w) = 1 /\ w[1] = b[j].v
    BY <2>5
  <2>7. y = x + 1 /\ w[1] = f[x + 1]
    <3>0. y - x = 1
      BY <2>4, <2>6, Zenon
    <3>1. y = x + 1
      BY <3>0
    <3>2. 1 \in 1..(y - x)
      BY <3>1
    <3> QED
      BY <2>4, <3>1, <3>2
  <2> QED
    BY <2>6, <2>7, <2>x, <2>y
<1> DEFINE G == {m \in 0..n : p[m] = lo + m}
<1>7. 0 \in G
  BY <1>5
<1>8. ASSUME NEW m \in 1..n, m - 1 \in G PROVE m \in G
  BY <1>6, <1>8
<1>9. \A m \in 0..n : m \in G
  <2> HIDE DEF G
  <2> QED
    BY <1>7, <1>8, UpTo
<1>10. \A j \in 0..n : p[j] = lo + j
  BY <1>9
<1>11. ASSUME NEW j \in 1..n PROVE b[j].v = f[lo + j]
  <2>1. j \in 0..n
    OBVIOUS
  <2> QED
    BY <1>6, <1>10, <2>1
<1>12. hi = lo + n
  BY <1>5, <1>10
<1> QED
  BY <1>n, <1>10, <1>11, <1>12

-----------------------------------------------------------------------------
(***************************************************************************)
(* accept_download_bytes takes body cells as body and nothing else.        *)
(***************************************************************************)

\* m cells of a body and what follows it, of which n are the body's.
Parted(S, body, tail, m, n, cells) ==
  /\ n \in 0..Len(body) /\ n \in 0..m /\ m - n \in 0..Len(tail)
  /\ m - n > 0 => n = Len(body)
  /\ cells \in Seq(S) /\ Len(cells) = m
  /\ \A i \in 1..n : cells[i] = body[i]
  /\ \A i \in 1..(m - n) : cells[n + i] = tail[i]
  /\ SubSeq(cells, 1, n) = SubSeq(body, 1, n)
  /\ SubSeq(cells, n + 1, Len(cells)) = SubSeq(tail, 1, m - n)
  /\ SubSeq(body \o tail, m + 1, Len(body \o tail))
       = SubSeq(body, n + 1, Len(body)) \o SubSeq(tail, m - n + 1, Len(tail))

LEMMA TakeCells ==
    ASSUME NEW S, NEW body \in Seq(S), NEW tail \in Seq(S), NEW m \in 0..Len(body \o tail),
           NEW n, n = least(m, Len(body)), NEW cells, cells = SubSeq(body \o tail, 1, m)
    PROVE  Parted(S, body, tail, m, n, cells)
<1>b. PICK b \in Nat : b = Len(body)
  BY LenProperties
<1>t. PICK t \in Nat : t = Len(tail)
  BY LenProperties
<1>u. PICK u \in Seq(S) : u = body \o tail
  BY Joined
<1>ul. Len(u) = b + t
  BY <1>b, <1>t, <1>u, Joined
<1>m. m \in 0..(b + t) /\ m \in 0..Len(u)
  BY <1>u, <1>ul
<1>c. cells \in Seq(S) /\ Len(cells) = m
  BY <1>m, <1>u, Split
<1>1. CASE m <= b
  <2>1. n = m /\ m \in 0..Len(body) /\ m - n = 0
    BY <1>1, <1>b, <1>m DEF least
  <2>2. /\ cells = SubSeq(body, 1, m)
        /\ SubSeq(body \o tail, m + 1, Len(body \o tail)) = SubSeq(body, m + 1, Len(body)) \o tail
    <3>1. m \in 0..Len(body)
      BY <2>1
    <3>2. /\ SubSeq(body \o tail, 1, m) = SubSeq(body, 1, m)
          /\ SubSeq(body \o tail, m + 1, Len(body \o tail)) = SubSeq(body, m + 1, Len(body)) \o tail
      BY <3>1, SplitFirst
    <3> QED
      BY <3>2
  <2>3. \A i \in 1..m : cells[i] = body[i]
    <3>1. \A i \in 1..m : SubSeq(body, 1, m)[i] = body[i]
      BY <2>1, Split, Zenon
    <3> QED
      BY <2>2, <3>1
  <2>4. SubSeq(cells, 1, n) = SubSeq(body, 1, n)
    <3>1. SubSeq(cells, 1, m) = cells
      BY <1>c, SubSeqFull, Zenon
    <3> QED
      BY <2>1, <2>2, <3>1, Zenon
  <2>5. SubSeq(cells, n + 1, Len(cells)) = <<>> /\ SubSeq(tail, 1, m - n) = <<>>
    BY <1>c, <1>m, <2>1, SubSeqEmpty
  <2>6. SubSeq(tail, m - n + 1, Len(tail)) = tail
    BY <2>1, SubSeqFull
  <2>7. n \in 0..Len(body) /\ n \in 0..m /\ m - n \in 0..Len(tail) /\ ~(m - n > 0)
    BY <1>t, <1>m, <2>1
  <2>8. \A i \in 1..(m - n) : cells[n + i] = tail[i]
    BY <2>1
  <2>9. SubSeq(body \o tail, m + 1, Len(body \o tail))
          = SubSeq(body, n + 1, Len(body)) \o SubSeq(tail, m - n + 1, Len(tail))
    BY <2>1, <2>2, <2>6, Zenon
  <2> QED
    BY <1>c, <2>1, <2>3, <2>4, <2>5, <2>7, <2>8, <2>9, Zenon DEF Parted
<1>2. CASE ~(m <= b)
  <2>1. n = b
    BY <1>2, <1>b, <1>m DEF least
  <2>2. PICK k \in 0..t : k = m - n /\ m = b + k /\ k > 0
    BY <1>2, <1>m, <2>1
  <2>3. /\ cells = body \o SubSeq(tail, 1, k)
        /\ SubSeq(body \o tail, m + 1, Len(body \o tail)) = SubSeq(tail, k + 1, Len(tail))
    <3>1. k \in 0..Len(tail) /\ m = Len(body) + k
      BY <1>b, <1>t, <2>2
    <3> QED
      BY <3>1, SplitSecond, ZenonT(60)
  <2>4. PICK a \in Seq(S) : a = SubSeq(tail, 1, k) /\ Len(a) = k /\ \A i \in 1..k : a[i] = tail[i]
    <3>1. k \in 0..Len(tail)
      BY <1>t
    <3>2. /\ SubSeq(tail, 1, k) \in Seq(S) /\ Len(SubSeq(tail, 1, k)) = k
          /\ \A i \in 1..k : SubSeq(tail, 1, k)[i] = tail[i]
      BY <3>1, Split, Zenon
    <3> QED
      BY <3>2
  <2>5. (\A i \in 1..b : cells[i] = body[i]) /\ \A i \in 1..k : cells[b + i] = tail[i]
    <3>0. cells = body \o a
      BY <2>3, <2>4
    <3>1. Follows(body \o a, body, a)
      BY FollowsJoined, Zenon
    <3>2. Follows(cells, body, a)
      BY <3>0, <3>1, Zenon
    <3> QED
      BY <1>b, <2>4, <3>2, Zenon DEF Follows
  <2>6. Len(body) \in 0..Len(body)
    BY <1>b
  <2>7. /\ SubSeq(body \o a, 1, Len(body)) = SubSeq(body, 1, Len(body))
        /\ SubSeq(body \o a, Len(body) + 1, Len(body \o a)) = SubSeq(body, Len(body) + 1, Len(body)) \o a
    BY <2>6, SplitFirst, ZenonT(60)
  <2>8. SubSeq(body, Len(body) + 1, Len(body)) = <<>>
    BY <1>b, SubSeqEmpty
  <2>9. /\ SubSeq(cells, 1, n) = SubSeq(body, 1, n)
        /\ SubSeq(cells, n + 1, Len(cells)) = SubSeq(tail, 1, k)
    <3>1. <<>> \o a = a
      BY ConcatEmptySeq
    <3> QED
      BY <1>b, <2>1, <2>3, <2>4, <2>7, <2>8, <3>1, Zenon
  <2>10. SubSeq(body, n + 1, Len(body)) \o SubSeq(tail, k + 1, Len(tail)) = SubSeq(tail, k + 1, Len(tail))
    <3>1. SubSeq(tail, k + 1, Len(tail)) \in Seq(S)
      BY <1>t, <2>2, Split
    <3> QED
      BY <1>b, <2>1, <2>8, <3>1, ConcatEmptySeq
  <2>11. n \in 0..Len(body) /\ n \in 0..m /\ m - n \in 0..Len(tail) /\ n = Len(body)
    BY <1>b, <1>t, <1>m, <2>1, <2>2
  <2> QED
    BY <1>b, <1>c, <2>1, <2>2, <2>3, <2>5, <2>9, <2>10, <2>11, Zenon DEF Parted
<1> QED
  BY <1>1, <1>2, <1>b, <1>m

LEMMA CutsTake ==
    ASSUME NEW b \in Seq(Cell), NEW p, NEW f, NEW lo, NEW hi, NEW k \in 0..Len(b),
           Cuts(b, p, f, lo, hi)
    PROVE  \E q : Cuts(SubSeq(b, 1, k), q, f, lo, p[k])
<1>n. PICK n \in Nat : n = Len(b)
  BY LenProperties
<1>1. PICK c \in Seq(Cell) : c = SubSeq(b, 1, k)
  BY Split
<1>2. Len(c) = k /\ \A i \in 1..k : c[i] = b[i]
  BY <1>1, Split
<1>3. PICK q : q = [i \in 0..k |-> p[i]]
  OBVIOUS
<1>4. k \in 0..n /\ k \in 0..k /\ 0 \in 0..k /\ \A i \in 0..k : i \in 0..n
  BY <1>n
<1>5. /\ p \in [0..n -> Nat] /\ p[0] = lo
      /\ \A i, j \in 0..n : i <= j => p[i] <= p[j]
      /\ \A j \in 1..n : Text(b[j]) = SubSeq(f, p[j - 1] + 1, p[j])
  BY <1>n DEF Cuts
<1>6. \A i \in 0..k : q[i] = p[i] /\ q[i] \in Nat
  BY <1>3, <1>4, <1>5
<1>7. q \in [0..k -> Nat] /\ q[0] = lo /\ q[k] = p[k]
  BY <1>3, <1>4, <1>5, <1>6
<1>8. \A i, j \in 0..k : i <= j => q[i] <= q[j]
  BY <1>4, <1>5, <1>6
<1>9. ASSUME NEW j \in 1..k PROVE Text(c[j]) = SubSeq(f, q[j - 1] + 1, q[j])
  <2>1. j \in 1..n /\ j - 1 \in 0..k /\ j \in 0..k
    BY <1>4
  <2> QED
    BY <1>2, <1>5, <1>6, <2>1
<1>10. Cuts(c, q, f, lo, p[k])
  BY <1>2, <1>7, <1>8, <1>9 DEF Cuts
<1> QED
  BY <1>1, <1>10

\* What the sender's fields are.
LEMMA SenderTypes ==
    ASSUME TypeInv, SenderInv
    PROVE  /\ snd.file \in Seq(Blocks) /\ Len(snd.file) \in Nat
           /\ snd.total \in Nat /\ snd.sent \in Nat /\ snd.pos \in Nat /\ snd.prefix \in Nat
           /\ snd.enc \in Codecs /\ snd.buffered \in Seq(Blocks) /\ Len(snd.buffered) \in Nat
           /\ snd.pending \in Seq(Cell) /\ Len(snd.pending) \in Nat
           /\ snd.frameFin \in BOOLEAN /\ snd.trailer \in BOOLEAN /\ snd.trailerOff \in Nat
           /\ snd.hash \in Seq(Blocks) /\ snd.st \in {"none", "sending", "done"}
           /\ Base \in Nat /\ Base + snd.total = Len(snd.file)
           /\ Base + snd.sent - Len(snd.buffered) \in Nat
           /\ Base + snd.sent - Len(snd.buffered) <= Base + snd.sent
           /\ Base + snd.sent <= Len(snd.file)
<1>1. /\ snd.file \in Seq(Blocks)
      /\ snd.total \in Nat /\ snd.sent \in Nat /\ snd.pos \in Nat /\ snd.prefix \in Nat
      /\ snd.enc \in Codecs /\ snd.buffered \in Seq(Blocks)
      /\ snd.pending \in Seq(Cell)
      /\ snd.frameFin \in BOOLEAN /\ snd.trailer \in BOOLEAN /\ snd.trailerOff \in Nat
      /\ snd.hash \in Seq(Blocks) /\ snd.st \in {"none", "sending", "done"}
  BY DEF TypeInv, Sender
<1>2. Len(snd.file) \in Nat /\ Len(snd.buffered) \in Nat /\ Len(snd.pending) \in Nat
  BY <1>1, LenProperties
<1>3. snd.total <= Len(snd.file) /\ snd.sent <= snd.total /\ Len(snd.buffered) <= snd.sent
  BY DEF SenderInv
<1>4. /\ Base \in Nat /\ Base + snd.total = Len(snd.file)
      /\ Base + snd.sent - Len(snd.buffered) \in Nat
      /\ Base + snd.sent - Len(snd.buffered) <= Base + snd.sent
      /\ Base + snd.sent <= Len(snd.file)
  <2>1. PICK l \in Nat : l = Len(snd.file)
    BY <1>2
  <2>2. PICK r \in Nat : r = Len(snd.buffered)
    BY <1>2
  <2>3. Base = l - snd.total
    BY <2>1 DEF Base
  <2> QED
    <3>1. snd.total \in Nat /\ snd.sent \in Nat
      BY <1>1
    <3>2. PICK t \in Nat : t = snd.total
      BY <3>1
    <3>3. PICK q \in Nat : q = snd.sent
      BY <3>1
    <3>4. t <= l /\ q <= t /\ r <= q
      BY <1>3, <2>1, <2>2, <3>2, <3>3
    <3>5. PICK o \in Nat : o = l - t
      BY <3>4
    <3>6. o = Base
      BY <2>3, <3>2, <3>5
    <3>7. o + t = l /\ o + q - r \in Nat /\ o + q - r <= o + q /\ o + q <= l
      BY <3>4, <3>5
    <3> QED
      BY <2>1, <2>2, <3>2, <3>3, <3>6, <3>7, Zenon
<1> QED
  BY <1>1, <1>2, <1>4, Zenon

\* The trailer's cells are not the end of a frame, and come after the whole body.
LEMMA TailCells ==
    ASSUME TypeInv, SenderInv, NEW t \in Seq(Cell), NEW tail \in Seq(Cell),
           IsTrailer(t \o tail, snd.file, snd.trailerOff)
    PROVE  /\ \A i \in 1..Len(tail) : tail[i].k = "data"
           /\ Len(tail) > 0 => body_sent
           /\ Len(t) + Len(tail) = snd.trailerOff
<1>1. PICK u : u = t \o tail
  OBVIOUS
<1>2. /\ Len(t) \in Nat /\ Len(tail) \in Nat /\ Len(u) = Len(t) + Len(tail)
      /\ \A i \in 1..Len(tail) : u[Len(t) + i] = tail[i]
  BY <1>1, Joined
<1>3. Len(u) = snd.trailerOff /\ \A j \in 1..Len(u) : u[j] = cell("data", <<j, snd.file>>)
  BY <1>1 DEF IsTrailer
<1>4. ASSUME NEW i \in 1..Len(tail) PROVE tail[i].k = "data"
  <2>1. Len(t) + i \in 1..Len(u)
    BY <1>2
  <2>2. tail[i] = cell("data", <<Len(t) + i, snd.file>>)
    BY <1>2, <1>3, <2>1
  <2> QED
    BY <2>2 DEF cell
<1> QED
  BY <1>2, <1>3, <1>4 DEF SenderInv

\* What is held of a plain body is what has been sent and not taken.
LEMMA PlainHeld ==
    ASSUME TypeInv, SenderInv, NEW held \in Seq(Cell), NEW p, NEW r \in Nat,
           Cuts(held, p, snd.file, Base + r, Base + snd.sent - Len(snd.buffered)),
           Plain(held), snd.buffered = <<>>
    PROVE  snd.sent = r + Len(held)
<1>s. PICK q \in Nat : q = snd.sent
  BY SenderTypes
<1>o. PICK o \in Nat : o = Base
  BY SenderTypes
<1>f. PICK f \in Seq(Blocks) : f = snd.file
  BY SenderTypes
<1>3. PICK lo \in Nat : lo = o + r
  OBVIOUS
<1>4. PICK hi \in Nat : hi = o + q
  OBVIOUS
<1>5. Len(snd.buffered) = 0
  OBVIOUS
<1>6. Base + r = lo /\ Base + snd.sent - Len(snd.buffered) = hi
  BY <1>5, <1>s, <1>o, <1>3, <1>4
<1>7. Cuts(held, p, f, lo, hi)
  BY <1>6, <1>f
<1>8. hi <= Len(f)
  BY <1>s, <1>o, <1>f, <1>4, SenderTypes
<1>9. hi = lo + Len(held)
  BY <1>7, <1>8, UnitCuts, ZenonT(60)
<1>10. Len(held) \in Nat
  BY LenProperties
<1> QED
  BY <1>s, <1>3, <1>4, <1>9, <1>10

\* Of the m cells, the first n are also the first of what is held of the body, and the
\* others belong to the trailer.
Heads(held, b, m, n, cells) ==
  /\ Len(held) = b + Len(snd.pending)
  /\ n <= b /\ n <= m /\ (m > n => n = b /\ body_sent)
  /\ Len(cells) = m
  /\ \A i \in 1..n : cells[i] = held[i]
  /\ \A i \in 1..m : i > n => cells[i].k = "data"

HeldFor(c, held, p) == /\ c.enc = snd.enc /\ c.size = snd.total
                       /\ Holds(held, p, c.received, c.frame)

LEMMA BodyTake ==
    ASSUME TypeInv, SenderInv, NEW held \in Seq(Cell), NEW p,
           NEW c \in Getter, HeldFor(c, held, p),
           NEW b \in Nat, NEW m \in Nat, NEW n \in Nat, NEW cells \in Seq(Cell),
           Heads(held, b, m, n, cells)
    PROVE  body_take(c, cells) = n
<1> USE DEF Heads, Holds, HeldFor
<1>5. CASE snd.enc = "identity"
  <2>1. snd.pending = <<>> /\ snd.buffered = <<>> /\ Len(snd.buffered) = 0 /\ Len(snd.pending) = 0
    BY <1>5 DEF SenderInv
  <2>2. Plain(held)
    BY <1>5 DEF Kinds
  <2>r. PICK r \in Nat : r = c.received
    BY DEF Getter
  <2>4. snd.sent = r + Len(held)
    BY <2>1, <2>2, <2>r, PlainHeld
  <2>5. snd.sent = r + b
    BY <2>1, <2>4
  <2>6. snd.sent <= snd.total /\ snd.total \in Nat
    BY SenderTypes DEF SenderInv
  <2>7. m > n => snd.sent = snd.total
    BY <1>5 DEF body_sent
  <2>8. least(c.size - c.received, m) = n
    BY <2>r, <2>5, <2>6, <2>7 DEF least
  <2> QED
    BY <1>5, <2>8 DEF body_take
<1>6. CASE snd.enc = "zstd"
  <2>1. /\ \A j \in 1..Len(held) : held[j].k = IF snd.frameFin /\ j = Len(held) THEN "zend" ELSE "zstd"
        /\ c.frame <=> snd.frameFin /\ held = <<>>
    BY <1>6 DEF Kinds
  <2>2. CASE c.frame
    <3>0. held = <<>> /\ Len(held) = 0
      BY <2>1, <2>2
    <3>1. b = 0
      BY <3>0, SenderTypes
    <3>2. n = 0
      BY <3>1
    <3> QED
      BY <1>6, <2>2, <3>2 DEF body_take
  <2>3. CASE ~c.frame
    <3> DEFINE ends == { i \in DOMAIN cells : cells[i].k = "zend" }
    <3>1. ASSUME NEW i \in 1..m, cells[i].k = "zend"
          PROVE  i = n /\ snd.frameFin /\ n = Len(held)
      <4>1. i \in 1..n
        BY <3>1
      <4>0. Len(snd.pending) \in Nat
        BY SenderTypes
      <4>2. i \in 1..Len(held) /\ Len(held) >= n
        BY <4>0, <4>1
      <4>3. held[i].k = "zend"
        BY <3>1, <4>1
      <4>4. snd.frameFin /\ i = Len(held)
        BY <2>1, <4>2, <4>3
      <4> QED
        BY <4>1, <4>2, <4>4
    <3>2. ends = { i \in 1..m : cells[i].k = "zend" }
      BY LenProperties
    <3>3. m > n => n \in ends
      <4> HAVE m > n
      <4>1. snd.frameFin /\ snd.pending = <<>> /\ n = b
        BY <1>6 DEF body_sent
      <4>2. Len(snd.pending) = 0
        BY <4>1
      <4>3. Len(held) = n /\ held # <<>>
        BY <2>1, <2>3, <4>1, <4>2
      <4>4. n \in 1..Len(held) /\ n \in 1..n /\ n \in 1..m
        BY <4>3, EmptySeq
      <4>5. cells[n] = held[n] /\ held[n].k = "zend"
        BY <2>1, <4>1, <4>3, <4>4
      <4> QED
        BY <3>2, <4>4, <4>5
    <3>4. ends = {} \/ ends = {n}
      BY <3>1, <3>2
    <3>c. body_take(c, cells) = IF ends = {} THEN Len(cells)
                                 ELSE CHOOSE i \in ends : \A j \in ends : i <= j
      BY <1>6, <2>3 DEF body_take
    <3> HIDE DEF ends
    <3>5. CASE ends = {}
      BY <3>3, <3>5, <3>c
    <3>6. CASE ends = {n}
      BY <3>6, <3>c
    <3> QED
      BY <3>4, <3>5, <3>6
  <2> QED
    BY <2>2, <2>3
<1> QED
  BY <1>5, <1>6, SenderTypes DEF Codecs

\* The codec the client was told is the one the cells are in.
Fits(c, held) ==
  /\ c.enc \in Codecs
  /\ c.enc = "identity" => Plain(held)
  /\ c.enc = "zstd" => Packed(held)

\* The cells taken decode to the stretch they cut.
Yields(c, held, n, p, f, lo, hi) ==
  /\ p[n] \in Nat /\ lo <= p[n] /\ p[n] <= hi
  /\ plaintext(c, SubSeq(held, 1, n)) = SubSeq(f, lo + 1, p[n])

LEMMA TakenText ==
    ASSUME NEW held \in Seq(Cell), NEW p, NEW f \in Seq(Blocks), NEW lo \in Nat, NEW hi \in Nat,
           hi <= Len(f), Cuts(held, p, f, lo, hi), NEW n \in 0..Len(held), NEW c, Fits(c, held)
    PROVE  Yields(c, held, n, p, f, lo, hi)
<1> USE DEF Yields, Fits
<1>1. p[n] \in Nat /\ lo <= p[n] /\ p[n] <= hi
  <2>1. 0 \in 0..Len(held) /\ Len(held) \in 0..Len(held) /\ 0 <= n /\ n <= Len(held)
    BY LenProperties
  <2> QED
    BY <2>1 DEF Cuts
<1>2. PICK top \in Nat : top = p[n]
  BY <1>1
<1>f. top <= Len(f) /\ lo <= top
  BY <1>1, <1>2, LenProperties
<1>3. PICK cells \in Seq(Cell) : cells = SubSeq(held, 1, n)
  BY Split
<1>4. Len(cells) = n /\ \A i \in 1..n : cells[i] = held[i]
  BY <1>3, Split
<1>5. PICK q : Cuts(cells, q, f, lo, top)
  BY <1>2, <1>3, CutsTake
<1>6. \A i \in 1..n : i \in 1..Len(held)
  BY LenProperties
<1>7. CASE c.enc = "identity"
  <2>1. Plain(cells)
    BY <1>4, <1>6, <1>7 DEF Plain
  <2>2. (\A j \in 1..n : cells[j].v = f[lo + j]) /\ top = lo + n
    BY <1>4, <1>5, <1>f, <2>1, UnitCuts, ZenonT(60)
  <2>3. PICK s \in Seq(Blocks) : s = SubSeq(f, lo + 1, top)
    BY <1>f, Stretch
  <2>4. Len(s) = top - lo /\ \A i \in 1..(top - lo) : s[i] = f[lo + i]
    BY <1>f, <2>3, Stretch
  <2>5. n \in Nat /\ top - lo = n
    BY <2>2, LenProperties
  <2>6. s = [i \in 1..n |-> s[i]]
    BY <2>4, <2>5, LenProperties
  <2>7. [i \in 1..n |-> cells[i].v] = s
    BY <2>2, <2>4, <2>5, <2>6
  <2>8. DOMAIN cells = 1..n
    BY <1>4, LenProperties
  <2>9. plaintext(c, cells) = [i \in 1..n |-> cells[i].v]
    BY <1>7, <2>8 DEF plaintext
  <2> QED
    BY <1>1, <1>2, <1>3, <2>3, <2>7, <2>9
<1>8. CASE c.enc = "zstd"
  <2>1. Packed(cells)
    BY <1>4, <1>6, <1>8 DEF Packed
  <2>2. decoded(cells) = SubSeq(f, lo + 1, top)
    BY <1>5, <1>f, <2>1, Decode
  <2> QED
    BY <1>1, <1>2, <1>3, <1>8, <2>2 DEF plaintext
<1> QED
  BY <1>7, <1>8 DEF Codecs

\* What is left of a body, and whether its end has been seen.
LEMMA TakenKinds ==
    ASSUME NEW held \in Seq(Cell), NEW n \in 0..Len(held), NEW enc \in Codecs,
           NEW frameFin \in BOOLEAN, NEW ended \in BOOLEAN, Kinds(held, enc, frameFin, ended)
    PROVE  Kinds(SubSeq(held, n + 1, Len(held)), enc, frameFin,
                 ended \/ (enc = "zstd" /\ n > 0 /\ held[n].k = "zend"))
<1>h. PICK h \in Nat : h = Len(held)
  BY LenProperties
<1>1. PICK rest \in Seq(Cell) : rest = SubSeq(held, n + 1, Len(held))
  BY Split
<1>2. Len(rest) = h - n /\ \A i \in 1..(h - n) : rest[i] = held[n + i]
  BY <1>h, <1>1, Split, ZenonT(60)
<1>3. n \in 0..h /\ \A i \in 1..(h - n) : n + i \in 1..h
  BY <1>h
<1>4. CASE enc = "identity"
  <2>1. \A j \in 1..h : held[j].k = "data"
    BY <1>4, <1>h DEF Kinds, Plain
  <2>2. Plain(rest)
    <3>1. ASSUME NEW j \in 1..(h - n) PROVE rest[j].k = "data"
      <4>1. n + j \in 1..h /\ rest[j] = held[n + j]
        BY <1>2, <1>3
      <4> QED
        BY <2>1, <4>1
    <3> QED
      BY <1>2, <3>1 DEF Plain
  <2> QED
    BY <1>1, <1>4, <2>2 DEF Kinds
<1>5. CASE enc = "zstd"
  <2>1. /\ \A j \in 1..h : held[j].k = IF frameFin /\ j = h THEN "zend" ELSE "zstd"
        /\ ended <=> frameFin /\ held = <<>>
    BY <1>5, <1>h DEF Kinds
  <2>2. ASSUME NEW j \in 1..Len(rest)
        PROVE  rest[j].k = IF frameFin /\ j = Len(rest) THEN "zend" ELSE "zstd"
    <3>1. j \in 1..(h - n) /\ n + j \in 1..h /\ (n + j = h <=> j = Len(rest))
      BY <1>2, <1>3
    <3> QED
      BY <1>2, <2>1, <3>1
  <2>3. rest = <<>> <=> n = h
    <3>1. rest = <<>> <=> Len(rest) = 0
      BY EmptySeq
    <3> QED
      BY <1>2, <1>3, <3>1
  <2>4. held = <<>> <=> h = 0
    BY <1>h, EmptySeq
  <2>5. ended \/ (n > 0 /\ held[n].k = "zend") <=> frameFin /\ rest = <<>>
    <3>1. CASE n = 0
      BY <2>1, <2>3, <2>4, <3>1
    <3>2. CASE n # 0
      <4>1. n \in 1..h /\ n > 0 /\ h # 0
        BY <1>3, <3>2
      <4>2. held[n].k = "zend" <=> frameFin /\ n = h
        BY <2>1, <4>1
      <4> QED
        BY <2>1, <2>3, <2>4, <4>1, <4>2
    <3> QED
      BY <3>1, <3>2
  <2>6. (ended \/ (enc = "zstd" /\ n > 0 /\ held[n].k = "zend")) <=> frameFin /\ rest = <<>>
    BY <1>5, <2>5, Zenon
  <2>7. enc # "identity"
    BY <1>5
  <2>8. \A j \in 1..Len(rest) : rest[j].k = IF frameFin /\ j = Len(rest) THEN "zend" ELSE "zstd"
    BY <2>2
  <2>9. Kinds(rest, enc, frameFin, ended \/ (enc = "zstd" /\ n > 0 /\ held[n].k = "zend"))
    BY <2>6, <2>7, <2>8, Zenon DEF Kinds
  <2> QED
    BY <1>1, <2>9, Zenon
<1> QED
  BY <1>4, <1>5 DEF Codecs

\* What accept_download_bytes makes of some cells: the next stretch of the file, and
\* what is left of the body and the trailer.
TakenAs(c, path, cells, rest, text, frame, t, body, tail, q) ==
  /\ accept_download_bytes(c, path, cells) =
       [c |-> [c EXCEPT !.received = @ + Len(text), !.frame = frame, !.hash = @ \o text,
                        !.trailer = t],
        path |-> path \o text]
  /\ text \in Seq(Blocks) /\ frame \in BOOLEAN /\ t \in Seq(Cell)
  /\ body \in Seq(Cell) /\ tail \in Seq(Cell)
  /\ c.received + Len(text) <= snd.sent
  /\ text = SubSeq(snd.file, Base + c.received + 1, Base + c.received + Len(text))
  /\ rest = body \o tail
  /\ Holds(body \o snd.pending, q, c.received + Len(text), frame)
  /\ IsTrailer(t \o tail, snd.file, snd.trailerOff)

LEMMA Taken ==
    ASSUME TypeInv, SenderInv, NEW body \in Seq(Cell), NEW tail \in Seq(Cell), NEW p,
           NEW c \in Getter, NEW path \in Seq(Blocks), c.enc = snd.enc, c.size = snd.total,
           Holds(body \o snd.pending, p, c.received, c.frame),
           IsTrailer(c.trailer \o tail, snd.file, snd.trailerOff),
           NEW stream, stream = body \o tail, NEW m \in 0..Len(stream)
    PROVE  \E text, frame, t, left, end, q :
             TakenAs(c, path, SubSeq(stream, 1, m), SubSeq(stream, m + 1, Len(stream)),
                     text, frame, t, left, end, q)
<1>n0. PICK n : n = least(m, Len(body))
  OBVIOUS
<1>c0. PICK cells : cells = SubSeq(stream, 1, m)
  OBVIOUS
<1>b. PICK b \in Nat : b = Len(body)
  BY LenProperties
<1>e. PICK e \in Nat : e = Len(tail)
  BY LenProperties
<1>c. c.received \in Nat /\ c.trailer \in Seq(Cell) /\ c.frame \in BOOLEAN /\ c.enc \in Codecs
  BY DEF Getter
<1>h. PICK held \in Seq(Cell) : held = body \o snd.pending
  BY SenderTypes, Joined
<1>h1. /\ Len(held) = b + Len(snd.pending) /\ b <= Len(held)
       /\ \A i \in 1..b : held[i] = body[i]
  BY <1>b, <1>h, SenderTypes, Joined, SMTT(60)
<1>0. Parted(Cell, body, tail, m, n, cells)
  <2>1. m \in 0..Len(body \o tail) /\ cells = SubSeq(body \o tail, 1, m)
    BY <1>c0
  <2> QED
    BY <1>n0, <2>1, TakeCells
<1>1. /\ n \in 0..Len(body) /\ n \in 0..m /\ m - n \in 0..Len(tail)
      /\ m - n > 0 => n = Len(body)
      /\ cells \in Seq(Cell) /\ Len(cells) = m
      /\ \A i \in 1..n : cells[i] = body[i]
      /\ \A i \in 1..(m - n) : cells[n + i] = tail[i]
      /\ SubSeq(cells, 1, n) = SubSeq(body, 1, n)
      /\ SubSeq(cells, n + 1, Len(cells)) = SubSeq(tail, 1, m - n)
      /\ SubSeq(stream, m + 1, Len(stream))
           = SubSeq(body, n + 1, Len(body)) \o SubSeq(tail, m - n + 1, Len(tail))
  BY <1>0, Zenon DEF Parted
<1>m. m \in Nat /\ n \in Nat /\ n <= b /\ n <= m /\ m - n <= e
  <2>1. Len(stream) \in Nat
    BY <1>b, <1>e, Joined
  <2> QED
    BY <1>1, <1>b, <1>e, <2>1
<1>2. body_take(c, cells) = n
  <2>1. m > n => n = b /\ body_sent
    <3> HAVE m > n
    <3>1. Len(tail) > 0 /\ n = b
      BY <1>1, <1>b, <1>e, <1>m
    <3> QED
      BY <1>c, <3>1, TailCells
  <2>2. \A i \in 1..n : cells[i] = held[i]
    BY <1>1, <1>h1, <1>m
  <2>3. ASSUME NEW i \in 1..m, i > n PROVE cells[i].k = "data"
    <3>1. PICK j \in 1..(m - n) : i = n + j
      BY <1>m, <2>3
    <3>2. cells[i] = tail[j] /\ j \in 1..Len(tail)
      BY <1>1, <1>m, <1>e, <3>1
    <3> QED
      BY <1>c, <3>2, TailCells
  <2>4. HeldFor(c, held, p)
    BY <1>h, Zenon DEF HeldFor
  <2> QED
    <3>1. Len(held) = b + Len(snd.pending) /\ cells \in Seq(Cell) /\ Len(cells) = m
      BY <1>1, <1>h1
    <3>2. m \in Nat /\ n \in Nat /\ n <= b /\ n <= m
      BY <1>m
    <3> QED
      <4>1. Heads(held, b, m, n, cells)
        <5>1. \A i \in 1..m : i > n => cells[i].k = "data"
          BY <2>3
        <5> QED
          BY <2>1, <2>2, <3>1, <3>2, <5>1, Zenon DEF Heads
      <4> QED
        BY <2>4, <3>1, <3>2, <4>1, BodyTake
<1>f. PICK f \in Seq(Blocks) : f = snd.file
  BY SenderTypes
<1>lo. PICK lo \in Nat : lo = Base + c.received
  <2>1. Base \in Nat /\ c.received \in Nat
    BY <1>c, SenderTypes, Zenon
  <2> QED
    BY <2>1
<1>hi. PICK hi \in Nat : hi = Base + snd.sent - Len(snd.buffered)
  BY SenderTypes
<1>hi1. hi <= Len(f) /\ hi <= Base + snd.sent
  BY <1>f, <1>hi, SenderTypes
<1>3. Cuts(held, p, f, lo, hi) /\ Kinds(held, snd.enc, snd.frameFin, c.frame)
  BY <1>f, <1>h, <1>lo, <1>hi DEF Holds
<1>n. n \in 0..Len(held)
  <2>1. Len(snd.pending) \in Nat
    BY SenderTypes, LenProperties
  <2>2. Len(held) = b + Len(snd.pending)
    BY <1>h1
  <2>3. n \in Nat /\ n <= b /\ b \in Nat
    BY <1>m, <1>b
  <2> QED
    BY <2>1, <2>2, <2>3
<1>4. SubSeq(cells, 1, n) = SubSeq(held, 1, n)
  <2>1. SubSeq(body \o snd.pending, 1, n) = SubSeq(body, 1, n)
    BY <1>1, SenderTypes, SplitFirst
  <2> QED
    BY <1>1, <1>h, <2>1
<1>5. (c.enc = "identity" => Plain(held)) /\ (c.enc = "zstd" => Packed(held))
  <2>1. Kinds(held, c.enc, snd.frameFin, c.frame)
    BY <1>3
  <2> QED
    BY <2>1 DEF Kinds, Packed
<1>60. /\ p[n] \in Nat /\ lo <= p[n] /\ p[n] <= hi
       /\ plaintext(c, SubSeq(held, 1, n)) = SubSeq(f, lo + 1, p[n])
  <2>1. hi <= Len(f) /\ c.enc \in Codecs
    BY <1>hi1, <1>c
  <2> QED
    <3>1. Fits(c, held)
      BY <1>5, <2>1, Zenon DEF Fits
    <3>2. Yields(c, held, n, p, f, lo, hi)
      BY <1>3, <1>n, <2>1, <3>1, TakenText
    <3> QED
      BY <3>2, Zenon DEF Yields
<1>6. PICK top \in Nat : top = p[n] /\ lo <= top /\ top <= hi
  BY <1>60
<1>61. top <= Len(f)
  BY <1>6, <1>hi1, LenProperties
<1>70. SubSeq(f, lo + 1, top) \in Seq(Blocks) /\ Len(SubSeq(f, lo + 1, top)) = top - lo
  BY <1>6, <1>61, Stretch, SMTT(30)
<1>7. PICK text \in Seq(Blocks) : text = SubSeq(f, lo + 1, top)
  BY <1>70
<1>8. Len(text) = top - lo
  BY <1>7, <1>70
<1>9. plaintext(c, SubSeq(cells, 1, n)) = text
  BY <1>4, <1>60, <1>6, <1>7
<1>11. /\ SubSeq(body, n + 1, Len(body)) \in Seq(Cell)
       /\ SubSeq(tail, 1, m - n) \in Seq(Cell)
       /\ SubSeq(tail, m - n + 1, Len(tail)) \in Seq(Cell)
       /\ SubSeq(tail, 1, m - n) \o SubSeq(tail, m - n + 1, Len(tail)) = tail
  <2>1. PICK k \in 0..Len(tail) : k = m - n
    BY <1>1
  <2>2. /\ SubSeq(tail, 1, k) \in Seq(Cell) /\ SubSeq(tail, k + 1, Len(tail)) \in Seq(Cell)
        /\ SubSeq(tail, 1, k) \o SubSeq(tail, k + 1, Len(tail)) = tail
    BY Split
  <2>3. SubSeq(body, n + 1, Len(body)) \in Seq(Cell)
    BY <1>1, Split
  <2> QED
    BY <2>1, <2>2, <2>3
<1>x. PICK first \in Seq(Cell) : first = SubSeq(tail, 1, m - n)
  BY <1>11
<1>y. PICK end \in Seq(Cell) : end = SubSeq(tail, m - n + 1, Len(tail))
  BY <1>11
<1>z. PICK left \in Seq(Cell) : left = SubSeq(body, n + 1, Len(body))
  BY <1>11
<1>w. PICK t \in Seq(Cell) : t = c.trailer \o first
  BY <1>c, ConcatProperties
<1>v. PICK frame \in BOOLEAN : frame = (c.frame \/ (c.enc = "zstd" /\ n > 0 /\ cells[n].k = "zend"))
  BY <1>c
<1>10. accept_download_bytes(c, path, cells) =
         [c |-> [c EXCEPT !.received = @ + Len(text), !.frame = frame, !.hash = @ \o text,
                          !.trailer = t],
          path |-> path \o text]
  BY <1>1, <1>2, <1>9, <1>x, <1>w, <1>v DEF accept_download_bytes
<1>12. t \o end = c.trailer \o tail
  <2>1. first \o end = tail
    BY <1>11, <1>x, <1>y
  <2>2. (c.trailer \o first) \o end = c.trailer \o (first \o end)
    <3>1. PICK z \in Seq(Cell) : z = c.trailer
      BY <1>c
    <3>2. Regrouped(z, first, end)
      BY Regroup
    <3> QED
      BY <3>1, <3>2 DEF Regrouped
  <2> QED
    BY <1>w, <2>1, <2>2
<1>13. left \o snd.pending = SubSeq(held, n + 1, Len(held))
  <2>1. SubSeq(body \o snd.pending, n + 1, Len(body \o snd.pending)) = SubSeq(body, n + 1, Len(body)) \o snd.pending
    <3>1. PICK z \in Seq(Cell) : z = snd.pending
      BY SenderTypes
    <3>2. n \in 0..Len(body)
      BY <1>1
    <3>3. SubSeq(body \o z, n + 1, Len(body \o z)) = SubSeq(body, n + 1, Len(body)) \o z
      BY <3>2, SplitFirst, ZenonT(60)
    <3> QED
      BY <3>1, <3>3
  <2> QED
    BY <1>h, <1>z, <2>1
<1>14. PICK q : Cuts(left \o snd.pending, q, f, top, hi)
  BY <1>3, <1>6, <1>13, <1>n, CutsDrop
<1>15. Kinds(left \o snd.pending, snd.enc, snd.frameFin, frame)
  <2>1. Kinds(held, snd.enc, snd.frameFin, c.frame)
    BY <1>3
  <2>2. Kinds(SubSeq(held, n + 1, Len(held)), snd.enc, snd.frameFin,
              c.frame \/ (snd.enc = "zstd" /\ n > 0 /\ held[n].k = "zend"))
    BY <1>c, <1>n, <2>1, SenderTypes, TakenKinds, ZenonT(60)
  <2>3. n > 0 => cells[n] = held[n]
    <3> HAVE n > 0
    <3>1. n \in 1..n /\ n \in 1..b
      BY <1>m
    <3> QED
      BY <1>1, <1>h1, <3>1
  <2>4. frame = (c.frame \/ (snd.enc = "zstd" /\ n > 0 /\ held[n].k = "zend"))
    BY <2>3, <1>c, <1>v
  <2> QED
    BY <1>13, <2>2, <2>4
<1>17. /\ Base + c.received = lo /\ Base + (c.received + Len(text)) = top
       /\ Base + c.received + Len(text) = top /\ c.received + Len(text) <= snd.sent
  <2>1. PICK o \in Nat : o = Base
    BY SenderTypes
  <2>2. PICK r \in Nat : r = c.received
    BY <1>c
  <2>3. PICK x \in Nat : x = snd.sent
    BY SenderTypes
  <2>4. lo = o + r /\ Len(text) = top - lo /\ top <= o + x
    <3>1. hi <= o + x
      BY <1>hi1, <2>1, <2>3
    <3>2. top <= o + x
      BY <1>6, <3>1, SMTT(60)
    <3>3. lo = o + r
      BY <1>lo, <2>1, <2>2
    <3> QED
      BY <1>8, <3>2, <3>3
  <2>5. o + (r + (top - lo)) = top /\ o + r + (top - lo) = top /\ r + (top - lo) <= x
    <3>1. lo = o + r /\ top <= o + x /\ lo <= top
      BY <2>4, <1>6
    <3> QED
      BY <3>1
  <2> QED
    BY <2>1, <2>2, <2>3, <2>4, <2>5
<1>18. TakenAs(c, path, cells, SubSeq(stream, m + 1, Len(stream)), text, frame, t, left, end, q)
  <2>1. IsTrailer(t \o end, snd.file, snd.trailerOff)
    BY <1>12
  <2>2. text = SubSeq(snd.file, Base + c.received + 1, Base + c.received + Len(text))
    BY <1>7, <1>17, <1>f
  <2>3. Holds(left \o snd.pending, q, c.received + Len(text), frame)
    BY <1>14, <1>15, <1>17, <1>f, <1>hi DEF Holds
  <2>4. SubSeq(stream, m + 1, Len(stream)) = left \o end
    BY <1>1, <1>y, <1>z
  <2> QED
    BY <1>10, <1>17, <2>1, <2>2, <2>3, <2>4, Zenon DEF TakenAs
<1> QED
  BY <1>18, <1>c0, Zenon

-----------------------------------------------------------------------------
(***************************************************************************)
(* Steps of the server.                                                    *)
(***************************************************************************)

\* Steps after which the stream is what it was.
LEMMA StreamKept ==
    ASSUME StreamInv, UNCHANGED <<cli, wire, req>>,
           snd'.st = snd.st, snd'.file = snd.file, snd'.total = snd.total, snd'.sent = snd.sent,
           snd'.enc = snd.enc, snd'.buffered = snd.buffered, snd'.pending = snd.pending,
           snd'.frameFin = snd.frameFin, snd'.trailerOff = snd.trailerOff
    PROVE  StreamInv'
<1>1. SUFFICES ASSUME (busy /\ req = NoReq)'
               PROVE  (\E body, tail \in Seq(Cell) : \E p : Stream(body, tail, p))'
  BY DEF StreamInv
<1>2. busy /\ req = NoReq
  BY <1>1 DEF busy
<1>b. PICK body, tail \in Seq(Cell) : \E p : Stream(body, tail, p)
  BY <1>2 DEF StreamInv
<1>3. PICK p : Stream(body, tail, p)
  BY <1>b
<1>4. Base' = Base
  BY DEF Base
<1>5. ASSUME NEW resp PROVE Describes(resp) => Describes(resp)'
  BY DEF Describes
<1>6. Unread(body \o tail)'
  BY <1>3, <1>5 DEF Stream, Unread
<1>7. Holds(body \o snd.pending, p, cli.received, cli.frame)'
  BY <1>3, <1>4 DEF Stream, Holds
<1>8. IsTrailer(cli.trailer \o tail, snd.file, snd.trailerOff)'
  BY <1>3 DEF Stream
<1>9. Stream(body, tail, p)'
  BY <1>6, <1>7, <1>8 DEF Stream
<1> QED
  BY <1>9

\* Steps that leave the sender, the client and the stream alone.
LEMMA LoopStep ==
    ASSUME DownloadInv, UNCHANGED <<remote, seen, snd, req, wire, cli, local>>,
           at' \in {"poll", "prefix", "body", "trailer"}, fin' \in BOOLEAN,
           at' # "poll" => snd.st = "sending" /\ req = NoReq,
           at' \in {"body", "trailer"} => snd.prefix = 0, at' = "trailer" => body_sent
    PROVE  DownloadInv'
<1>1. TypeInv /\ SenderInv /\ StreamInv /\ SeenInv /\ WaitingInv /\ BodyInv
  BY DEF DownloadInv
<1>2. TypeInv'
  BY <1>1 DEF TypeInv
<1>3. Base' = Base /\ body_sent' = body_sent
  BY DEF Base, body_sent
<1>4. SenderInv'
  BY <1>1, <1>3 DEF SenderInv
<1>5. StreamInv'
  BY <1>1, StreamKept
<1>6. SeenInv' /\ WaitingInv' /\ BodyInv'
  BY <1>1, <1>3 DEF SeenInv, WaitingInv, BodyInv, Progress, busy
<1> QED
  BY <1>2, <1>4, <1>5, <1>6 DEF DownloadInv

LEMMA LoopSteps ==
    ASSUME DownloadInv,
           drive_sending_streams \/ read_failed \/ send_after_fin \/ body_complete
    PROVE  DownloadInv'
<1>1. TypeInv /\ SenderInv
  BY DEF DownloadInv
<1>2. CASE drive_sending_streams
  BY <1>1, <1>2, LoopStep DEF drive_sending_streams, clientVars, TypeInv
<1>3. CASE read_failed
  BY <1>1, <1>3, LoopStep DEF read_failed, clientVars, TypeInv
<1>4. CASE send_after_fin
  BY <1>1, <1>4, LoopStep DEF send_after_fin, clientVars, TypeInv
<1>5. CASE body_complete
  <2>1. snd.st = "sending" /\ req = NoReq /\ snd.prefix = 0
    BY <1>1, <1>5 DEF body_complete, SenderInv
  <2> QED
    BY <1>1, <1>5, <2>1, LoopStep DEF body_complete, clientVars, TypeInv
<1> QED
  BY <1>2, <1>3, <1>4, <1>5

\* The sender start_get makes.
NewSender(st, file, pre, total, enc) ==
  [st |-> st, file |-> file, pos |-> 0, prefix |-> pre, total |-> total,
   sent |-> 0, enc |-> enc, buffered |-> <<>>, pending |-> <<>>,
   frameFin |-> FALSE, hash |-> <<>>, trailer |-> FALSE, trailerOff |-> 0]

\* What the server has done with a request it has read.
Started(resp, st, file, pre, total, enc) ==
  /\ resp \in Response /\ file \in Seq(Blocks) /\ total \in Nat /\ pre \in Nat
  /\ enc \in Codecs /\ st \in {"sending", "done"}
  /\ wire' = wire \o framed(resp)
  /\ snd' = NewSender(st, file, pre, total, enc)
  /\ resp.ok => resp.size = total /\ resp.total = Len(file) /\ resp.enc = enc
  /\ ~resp.ok => st = "done"
  /\ pre + total = Len(file)
  /\ st = "sending" => file \in seen
  /\ at' = IF st = "sending" THEN "prefix" ELSE "poll"

LEMMA Starts ==
    ASSUME TypeInv, SeenInv, start_get \/ start_get_refused
    PROVE  \E resp, st, file, pre, total, enc : Started(resp, st, file, pre, total, enc)
<1>1. CASE start_get
  <2>1. remote # NoFile /\ remote \in Seq(Blocks) /\ req <= Len(remote) /\ req \in Nat
        /\ at' = "prefix" /\ remote \in seen
    BY <1>1, DownloadAssumption DEF start_get, TypeInv, SeenInv
  <2>2. PICK enc \in Encodings(Len(remote) - req) :
          /\ wire' = wire \o framed(FileReady(Len(remote) - req, Len(remote), enc))
          /\ snd' = [NoSender EXCEPT !.st = "sending", !.file = remote, !.prefix = req,
                                     !.total = Len(remote) - req, !.enc = enc]
    BY <1>1 DEF start_get
  <2>3. enc \in Codecs
    BY DEF Encodings, Codecs
  <2>4. PICK n \in Nat : n = Len(remote)
    BY <2>1, LenProperties
  <2>5. PICK r \in Nat : r = req /\ r <= n
    BY <2>1, <2>4
  <2>6. PICK total \in Nat : total = n - r /\ r + total = n
    BY <2>5
  <2>7. PICK resp : resp = FileReady(total, n, enc)
    OBVIOUS
  <2>8. resp \in Response /\ resp.ok /\ resp.size = total /\ resp.total = n /\ resp.enc = enc
    BY <2>7, <2>3 DEF FileReady, Response
  <2>9. snd' = NewSender("sending", remote, r, total, enc)
    BY <2>2, <2>4, <2>5, <2>6 DEF NoSender, NewSender
  <2>10. wire' = wire \o framed(resp)
    BY <2>2, <2>4, <2>5, <2>6, <2>7
  <2>11. Started(resp, "sending", remote, r, total, enc)
    BY <2>1, <2>3, <2>4, <2>6, <2>8, <2>9, <2>10 DEF Started
  <2> QED
    BY <2>11
<1>2. CASE start_get_refused
  <2>1. PICK resp \in Response : ~resp.ok /\ wire' = wire \o framed(resp)
    <3>1. PICK code \in {"NotFound", "InvalidRange"} : wire' = wire \o framed(Refused(code))
      BY <1>2 DEF start_get_refused
    <3>2. Refused(code) \in Response /\ ~Refused(code).ok
      BY DEF Refused, Response
    <3> QED
      BY <3>1, <3>2
  <2>2. snd' = NewSender("done", <<>>, 0, 0, "identity")
    <3>1. snd' = [NoSender EXCEPT !.st = "done"]
      BY <1>2 DEF start_get_refused
    <3> QED
      BY <3>1 DEF NoSender, NewSender
  <2>3. at' = "poll"
    <3>1. at = "poll" /\ at' = at
      BY <1>2 DEF start_get_refused
    <3> QED
      BY <3>1
  <2>4. <<>> \in Seq(Blocks) /\ Len(<<>>) = 0 /\ "identity" \in Codecs
    BY EmptySeq DEF Codecs
  <2>5. Started(resp, "done", <<>>, 0, 0, "identity")
    BY <2>1, <2>2, <2>3, <2>4 DEF Started
  <2> QED
    BY <2>5
<1> QED
  BY <1>1, <1>2

LEMMA StartInv ==
    ASSUME DownloadInv, start_get \/ start_get_refused
    PROVE  DownloadInv'
<1>0. TypeInv /\ SenderInv /\ StreamInv /\ SeenInv /\ WaitingInv /\ BodyInv
  BY DEF DownloadInv
<1>1. /\ req # NoReq /\ req \in Nat /\ req' = NoReq /\ cli' = cli /\ local' = local /\ seen' = seen
      /\ remote' = remote /\ fin' = fin
      /\ cli.st = "waiting" /\ wire = <<>> /\ cli.buf = <<>> /\ remote \in seen
  BY <1>0 DEF start_get, start_get_refused, SeenInv, clientVars, TypeInv
<1>2. PICK resp, st, file, pre, total, enc : Started(resp, st, file, pre, total, enc)
  BY <1>0, Starts
<1>3. /\ resp \in Response /\ file \in Seq(Blocks) /\ total \in Nat /\ pre \in Nat
      /\ enc \in Codecs /\ st \in {"sending", "done"}
      /\ wire' = wire \o framed(resp)
      /\ snd' = NewSender(st, file, pre, total, enc)
      /\ resp.ok => resp.size = total /\ resp.total = Len(file) /\ resp.enc = enc
      /\ ~resp.ok => st = "done"
      /\ pre + total = Len(file)
      /\ st = "sending" => file \in seen
      /\ at' = IF st = "sending" THEN "prefix" ELSE "poll"
  BY <1>2 DEF Started
<1>t. pre \in Nat
  BY <1>3
<1>4. /\ snd'.st = st /\ snd'.file = file /\ snd'.pos = 0 /\ snd'.prefix = pre
      /\ snd'.total = total /\ snd'.sent = 0 /\ snd'.enc = enc /\ snd'.buffered = <<>>
      /\ snd'.pending = <<>> /\ snd'.frameFin = FALSE /\ snd'.hash = <<>>
      /\ snd'.trailer = FALSE /\ snd'.trailerOff = 0
  BY <1>3 DEF NewSender
<1>5. snd' \in Sender
  <2>1. <<>> \in Seq(Blocks) /\ <<>> \in Seq(Cell)
    BY EmptySeq
  <2> QED
    BY <1>3, <2>1 DEF NewSender, Sender
<1>6. framed(resp) \in Seq(Cell) /\ Len(framed(resp)) = 2
  <2>1. cell("frame", <<1, resp>>) \in Cell /\ cell("frame", <<2, resp>>) \in Cell
    <3>1. <<1, resp>> \in Payload /\ <<2, resp>> \in Payload
      BY <1>3 DEF Payload
    <3> QED
      BY <3>1 DEF cell, Cell
  <2> QED
    BY <2>1 DEF framed
<1>7. wire' = framed(resp)
  BY <1>1, <1>3, <1>6, ConcatEmptySeq
<1>8. TypeInv'
  BY <1>0, <1>1, <1>3, <1>5, <1>6, <1>7 DEF TypeInv
<1>9. Len(file) \in Nat /\ Base' = pre
  BY <1>3, <1>4, LenProperties DEF Base
<1>10. SenderInv'
  <2>1. SubSeq(file, 1, 0) = <<>> /\ SubSeq(file, pre + 1, pre) = <<>> /\ Len(<<>>) = 0
    <3>1. pre \in Int /\ pre + 1 \in Int /\ 0 \in Int /\ 1 \in Int /\ 0 < 1 /\ pre < pre + 1
      BY <1>t
    <3> QED
      BY <3>1, SubSeqEmpty, EmptySeq
  <2>a. Base' + 0 - 0 + 1 = pre + 1 /\ Base' + 0 = pre
    BY <1>t, <1>9
  <2>2. snd'.buffered = SubSeq(snd'.file, Base' + snd'.sent - Len(snd'.buffered) + 1, Base' + snd'.sent)
    BY <1>4, <2>1, <2>a
  <2>3. snd'.hash = SubSeq(snd'.file, 1, snd'.pos)
    BY <1>4, <2>1
  <2> QED
    BY <1>1, <1>3, <1>4, <1>9, <2>1, <2>2, <2>3 DEF SenderInv
<1>11. StreamInv'
  <2>1. Describes(resp)'
    BY <1>3, <1>4 DEF Describes
  <2>2. <<>> \in Seq(Cell) /\ <<>> \o <<>> = <<>> /\ Len(<<>>) = 0
    OBVIOUS
  <2>3. cli'.buf \o wire' = framed(resp) \o <<>>
    BY <1>1, <1>6, <1>7, ConcatEmptySeq
  <2>4. Unread(<<>> \o <<>>)'
    BY <1>1, <2>1, <2>2, <2>3 DEF Unread
  <2>5. cli'.received = 0 /\ ~cli'.frame /\ cli'.trailer = <<>>
    BY <1>0, <1>1 DEF WaitingInv
  <2>6. PICK p : p = [i \in 0..0 |-> pre]
    OBVIOUS
  <2>7. Cuts(<<>>, p, file, pre, pre)
    BY <1>t, <2>2, <2>6 DEF Cuts
  <2>8. Holds(<<>> \o snd.pending, p, cli.received, cli.frame)'
    <3>1. <<>> \o snd'.pending = <<>>
      BY <1>4, <2>2, Zenon
    <3>2. Base' + cli'.received = pre /\ Base' + snd'.sent - Len(snd'.buffered) = pre
      BY <1>t, <1>4, <1>9, <2>2, <2>5
    <3>3. Kinds(<<>>, enc, FALSE, cli'.frame)
      BY <2>2, <2>5 DEF Kinds, Plain
    <3> QED
      BY <1>4, <2>7, <3>1, <3>2, <3>3 DEF Holds
  <2>9. IsTrailer(cli.trailer \o <<>>, snd.file, snd.trailerOff)'
    BY <1>4, <2>2, <2>5 DEF IsTrailer
  <2>10. Stream(<<>>, <<>>, p)'
    BY <2>4, <2>8, <2>9 DEF Stream
  <2> QED
    BY <2>2, <2>10 DEF StreamInv
<1>12. SeenInv'
  BY <1>0, <1>1, <1>3, <1>4 DEF SeenInv
<1>13. WaitingInv' /\ BodyInv'
  BY <1>0, <1>1 DEF WaitingInv, BodyInv, Progress
<1> QED
  BY <1>8, <1>10, <1>11, <1>12, <1>13 DEF DownloadInv

\* Reading n more blocks and hashing them.
LEMMA ReadOn ==
    ASSUME NEW f \in Seq(Blocks), NEW pos \in Nat, NEW n \in Nat, pos + n <= Len(f)
    PROVE  /\ slice(f, pos, n) \in Seq(Blocks) /\ Len(slice(f, pos, n)) = n
           /\ \A i \in 1..n : slice(f, pos, n)[i] = f[pos + i]
           /\ SubSeq(f, 1, pos) \o slice(f, pos, n) = SubSeq(f, 1, pos + n)
<1>1. PICK hi \in Nat : hi = pos + n /\ pos <= hi /\ hi <= Len(f) /\ hi - pos = n
  OBVIOUS
<1>2. /\ SubSeq(f, pos + 1, hi) \in Seq(Blocks)
      /\ Len(SubSeq(f, pos + 1, hi)) = hi - pos
      /\ \A i \in 1..(hi - pos) : SubSeq(f, pos + 1, hi)[i] = f[pos + i]
  BY <1>1, Stretch
<1>3. SubSeq(f, 1, pos) \o SubSeq(f, pos + 1, hi) = SubSeq(f, 1, hi)
  <2>1. SubSeq(f, 0 + 1, pos) \o SubSeq(f, pos + 1, hi) = SubSeq(f, 0 + 1, hi)
    BY <1>1, StretchJoin
  <2> QED
    BY <2>1
<1> QED
  BY <1>1, <1>2, <1>3 DEF slice

\* One chunk of the prefix.
LEMMA RehashInv ==
    ASSUME DownloadInv, send_phase_prefix_rehash
    PROVE  DownloadInv'
<1>0. TypeInv /\ SenderInv /\ StreamInv /\ SeenInv /\ WaitingInv /\ BodyInv
  BY DEF DownloadInv
<1>1. PICK n : /\ n = least(snd.prefix, Chunk)
               /\ snd' = [snd EXCEPT !.hash = @ \o slice(snd.file, snd.pos, n),
                                     !.pos = @ + n, !.prefix = @ - n]
               /\ at' = after_prefix_chunk(snd.prefix - n)
  BY DEF send_phase_prefix_rehash
<1>2. /\ at = "prefix" /\ remote' = remote /\ seen' = seen /\ req' = req /\ wire' = wire
      /\ fin' = fin /\ cli' = cli /\ local' = local
  BY DEF send_phase_prefix_rehash, clientVars
<1>p. PICK pre \in Nat : pre = snd.prefix
  BY <1>0, SenderTypes
<1>q. PICK pos \in Nat : pos = snd.pos
  BY <1>0, SenderTypes
<1>f. PICK f \in Seq(Blocks) : f = snd.file
  BY <1>0, SenderTypes
<1>b. PICK end \in Nat : end = Base + snd.sent /\ end <= Len(f)
  BY <1>0, <1>f, SenderTypes
<1>3. pos + pre = end
  BY <1>0, <1>p, <1>q, <1>b DEF SenderInv
<1>4. n \in Nat /\ n <= pre
  BY <1>1, <1>p, DownloadAssumption DEF least
<1>5. PICK left \in Nat : left = pre - n
  BY <1>4
<1>6. PICK next \in Nat : next = pos + n /\ next <= Len(f) /\ next + left = end
  <2>1. Len(f) \in Nat
    BY LenProperties
  <2> QED
    BY <1>3, <1>4, <1>5, <1>b, <2>1
<1>7. /\ slice(f, pos, n) \in Seq(Blocks)
      /\ SubSeq(f, 1, pos) \o slice(f, pos, n) = SubSeq(f, 1, pos + n)
  BY <1>4, <1>6, ReadOn, ZenonT(60)
<1>8. PICK h \in Seq(Blocks) : h = SubSeq(f, 1, pos) \o slice(f, pos, n) /\ h = SubSeq(f, 1, next)
  <2>1. snd.hash \in Seq(Blocks) /\ snd.hash = SubSeq(f, 1, pos)
    BY <1>0, <1>f, <1>q, SenderTypes DEF SenderInv
  <2> QED
    BY <1>6, <1>7, <2>1, ConcatProperties
<1>9. snd' = [snd EXCEPT !.hash = h, !.pos = next, !.prefix = left]
  <2>1. snd.hash = SubSeq(f, 1, pos)
    BY <1>0, <1>f, <1>q DEF SenderInv
  <2> QED
    BY <1>1, <1>5, <1>6, <1>8, <1>f, <1>p, <1>q, <2>1
<1>10. snd \in Sender
  BY <1>0 DEF TypeInv
<1>11. snd' \in Sender
  BY <1>9, <1>10 DEF Sender
<1>12. /\ snd'.hash = h /\ snd'.pos = next /\ snd'.prefix = left
       /\ snd'.st = snd.st /\ snd'.file = snd.file /\ snd'.total = snd.total
       /\ snd'.sent = snd.sent /\ snd'.enc = snd.enc /\ snd'.buffered = snd.buffered
       /\ snd'.pending = snd.pending /\ snd'.frameFin = snd.frameFin
       /\ snd'.trailerOff = snd.trailerOff
  BY <1>9, <1>10 DEF Sender
<1>13. at' = IF left > 0 THEN "poll" ELSE "body"
  BY <1>1, <1>5, <1>p DEF after_prefix_chunk
<1>14. TypeInv'
  BY <1>0, <1>2, <1>11, <1>13 DEF TypeInv
<1>15. Base' = Base /\ body_sent' = body_sent
  BY <1>12 DEF Base, body_sent
<1>16. SenderInv'
  <2>1. snd'.pos + snd'.prefix = Base' + snd'.sent
    BY <1>6, <1>12, <1>15, <1>b
  <2>2. snd'.hash = SubSeq(snd'.file, 1, snd'.pos)
    BY <1>8, <1>12, <1>f
  <2>3. snd.prefix = 0 => left = 0
    BY <1>4, <1>5, <1>p
  <2>4. at' # "trailer" /\ (at' = "body" => left = 0)
    BY <1>13, <1>5
  <2>5. snd'.trailerOff > 0 => snd'.prefix = 0 /\ body_sent'
    BY <1>0, <1>12, <1>15, <2>3 DEF SenderInv
  <2>6. snd.st = "sending" /\ req = NoReq
    BY <1>0, <1>2 DEF SenderInv
  <2> QED
    BY <1>0, <1>2, <1>12, <1>15, <2>1, <2>2, <2>4, <2>5, <2>6 DEF SenderInv
<1>17. StreamInv'
  BY <1>0, <1>2, <1>12, StreamKept
<1>18. SeenInv' /\ WaitingInv' /\ BodyInv'
  BY <1>0, <1>2, <1>12, <1>15 DEF SeenInv, WaitingInv, BodyInv, Progress, busy
<1> QED
  BY <1>14, <1>16, <1>17, <1>18 DEF DownloadInv

-----------------------------------------------------------------------------
(***************************************************************************)
(* What the server writes to the stream.                                   *)
(***************************************************************************)

\* The cells of the l blocks of f after the first hi.
DataOf(o, f, hi, l) == Len(o) = l /\ \A i \in 1..l : o[i] = cell("data", f[hi + i])

\* More blocks of a plain body.
LEMMA CutsData ==
    ASSUME NEW b \in Seq(Cell), NEW p, NEW f \in Seq(Blocks), NEW lo, NEW hi \in Nat,
           NEW l \in Nat, hi + l <= Len(f), NEW o \in Seq(Cell),
           DataOf(o, f, hi, l), Cuts(b, p, f, lo, hi)
    PROVE  \E q : Cuts(b \o o, q, f, lo, hi + l)
<1>n. PICK n \in Nat : n = Len(b)
  BY LenProperties
<1>1. PICK d \in Seq(Cell) : d = b \o o
  BY ConcatProperties
<1>2. /\ Len(d) = n + l /\ (\A i \in 1..n : d[i] = b[i])
      /\ \A i \in 1..l : d[n + i] = o[i]
  <2>1. /\ Len(d) = Len(b) + Len(o) /\ (\A i \in 1..Len(b) : d[i] = b[i])
        /\ \A i \in 1..Len(o) : d[Len(b) + i] = o[i]
    BY <1>1, Joined
  <2> QED
    BY <1>n, <2>1, Zenon DEF DataOf
<1>3. PICK q : q = [i \in 0..(n + l) |-> IF i <= n THEN p[i] ELSE hi + (i - n)]
  OBVIOUS
<1>5. /\ p \in [0..n -> Nat] /\ p[0] = lo /\ p[n] = hi
      /\ \A i, j \in 0..n : i <= j => p[i] <= p[j]
      /\ \A j \in 1..n : Text(b[j]) = SubSeq(f, p[j - 1] + 1, p[j])
  BY <1>n DEF Cuts
<1>6. /\ \A i \in 0..n : q[i] = p[i] /\ q[i] \in Nat /\ q[i] <= hi
      /\ \A i \in 0..l : q[n + i] = hi + i
  <2>1. ASSUME NEW i \in 0..n PROVE q[i] = p[i] /\ q[i] \in Nat /\ q[i] <= hi
    <3>1. i \in 0..(n + l) /\ i <= n /\ n \in 0..n
      OBVIOUS
    <3> QED
      BY <1>3, <1>5, <3>1
  <2>2. ASSUME NEW i \in 0..l PROVE q[n + i] = hi + i
    <3>1. n + i \in 0..(n + l) /\ (n + i <= n <=> i = 0) /\ n + i - n = i
      OBVIOUS
    <3>2. q[n + i] = IF n + i <= n THEN p[n + i] ELSE hi + (n + i - n)
      BY <1>3, <3>1
    <3>3. CASE i = 0
      BY <1>5, <3>1, <3>2, <3>3
    <3>4. CASE i # 0
      BY <3>1, <3>2, <3>4
    <3> QED
      BY <3>3, <3>4
  <2> QED
    BY <2>1, <2>2
<1>a. \A i \in 0..(n + l) : i \in 0..n \/ \E k \in 1..l : i = n + k /\ k \in 0..l
  <2> TAKE i \in 0..(n + l)
  <2>1. CASE i <= n
    BY <2>1
  <2>2. CASE ~(i <= n)
    <3>1. i - n \in 1..l /\ i = n + (i - n) /\ i - n \in 0..l
      BY <2>2
    <3> QED
      BY <3>1
  <2> QED
    BY <2>1, <2>2
<1>7. q \in [0..(n + l) -> Nat] /\ q[0] = lo /\ q[n + l] = hi + l
  <2>1. 0 \in 0..n /\ l \in 0..l
    OBVIOUS
  <2>2. ASSUME NEW i \in 0..(n + l) PROVE q[i] \in Nat
    <3>1. CASE i \in 0..n
      BY <1>6, <3>1
    <3>2. CASE \E k \in 1..l : i = n + k /\ k \in 0..l
      <4>1. PICK k \in 1..l : i = n + k /\ k \in 0..l
        BY <3>2
      <4>2. q[n + k] = hi + k
        BY <1>6, <4>1
      <4> QED
        BY <4>1, <4>2
    <3> QED
      BY <1>a, <3>1, <3>2
  <2> QED
    BY <1>3, <1>5, <1>6, <2>1, <2>2
<1>8. ASSUME NEW i \in 0..(n + l), NEW j \in 0..(n + l), i <= j PROVE q[i] <= q[j]
  <2>1. CASE j \in 0..n
    <3>1. i \in 0..n
      BY <1>8, <2>1
    <3> QED
      BY <1>5, <1>6, <1>8, <2>1, <3>1
  <2>2. CASE \E k \in 1..l : j = n + k /\ k \in 0..l
    <3>1. PICK k \in 1..l : j = n + k /\ k \in 0..l
      BY <2>2
    <3>2. q[j] = hi + k
      BY <1>6, <3>1
    <3>3. CASE i \in 0..n
      BY <1>6, <3>2, <3>3
    <3>4. CASE \E m \in 1..l : i = n + m /\ m \in 0..l
      <4>1. PICK m \in 1..l : i = n + m /\ m \in 0..l
        BY <3>4
      <4>2. q[i] = hi + m /\ m <= k
        BY <1>6, <1>8, <3>1, <4>1
      <4> QED
        BY <3>2, <4>2
    <3> QED
      BY <1>a, <3>3, <3>4
  <2> QED
    BY <1>a, <2>1, <2>2
<1>9. ASSUME NEW j \in 1..(n + l) PROVE Text(d[j]) = SubSeq(f, q[j - 1] + 1, q[j])
  <2>1. CASE j \in 0..n
    <3>1. j \in 1..n /\ j - 1 \in 0..n
      BY <2>1
    <3>2. q[j - 1] = p[j - 1] /\ q[j] = p[j] /\ d[j] = b[j]
      BY <1>2, <1>6, <2>1, <3>1
    <3> QED
      BY <1>5, <3>1, <3>2
  <2>2. CASE \E k \in 1..l : j = n + k /\ k \in 0..l
    <3>1. PICK k \in 1..l : j = n + k /\ k \in 0..l
      BY <2>2
    <3>2. PICK i \in 0..l : i = k - 1 /\ j - 1 = n + i
      BY <3>1
    <3>3. q[n + k] = hi + k /\ q[n + i] = hi + i /\ d[n + k] = o[k]
      BY <1>2, <1>6, <3>1
    <3>4. PICK x \in Nat : x = hi + i /\ x + 1 = hi + k /\ x + 1 <= Len(f)
      <4>1. Len(f) \in Nat
        BY LenProperties
      <4> QED
        BY <3>1, <3>2, <4>1
    <3>5. Text(o[k]) = <<f[x + 1]>>
      BY <3>1, <3>4, SMTT(60) DEF Text, cell, DataOf
    <3>6. SubSeq(f, x + 1, x + 1) = <<f[x + 1]>>
      <4>1. x + 1 \in 1..Len(f) /\ x + 1 \in Nat
        <5>1. Len(f) \in Nat
          BY LenProperties
        <5> QED
          BY <3>4, <5>1
      <4>2. /\ SubSeq(f, x + 1, x + 1) \in Seq(Blocks)
            /\ Len(SubSeq(f, x + 1, x + 1)) = 1
            /\ SubSeq(f, x + 1, x + 1)[1] = f[x + 1]
        <5>1. x <= x + 1 /\ x + 1 - x = 1 /\ 1 \in 1..1
          OBVIOUS
        <5>2. /\ SubSeq(f, x + 1, x + 1) \in Seq(Blocks)
              /\ Len(SubSeq(f, x + 1, x + 1)) = x + 1 - x
              /\ \A m \in 1..(x + 1 - x) : SubSeq(f, x + 1, x + 1)[m] = f[x + m]
          BY <3>4, <4>1, <5>1, Stretch
        <5> QED
          BY <5>1, <5>2
      <4>3. f[x + 1] \in Blocks
        BY <4>1, ElementOfSeq
      <4>4. PICK y \in Seq(Blocks) : y = SubSeq(f, x + 1, x + 1)
        BY <4>2
      <4>5. PICK z \in Blocks : z = f[x + 1]
        BY <4>3
      <4>6. Len(y) = 1 /\ y[1] = z
        BY <4>2, <4>4, <4>5
      <4>7. y = <<z>>
        <5>1. <<z>> \in Seq(Blocks) /\ Len(<<z>>) = 1 /\ <<z>>[1] = z
          OBVIOUS
        <5>2. \A m \in 1..Len(y) : y[m] = <<z>>[m]
          BY <4>6, <5>1
        <5> QED
          BY <4>6, <5>1, <5>2, SeqEqual
      <4> QED
        BY <4>4, <4>5, <4>7
    <3> QED
      BY <3>1, <3>2, <3>3, <3>4, <3>5, <3>6
  <2>3. j \in 0..(n + l)
    OBVIOUS
  <2> QED
    BY <1>a, <2>1, <2>2, <2>3
<1>10. Cuts(d, q, f, lo, hi + l)
  BY <1>2, <1>7, <1>8, <1>9 DEF Cuts
<1> QED
  BY <1>1, <1>10

\* The stream takes a first part of what it is offered.
LEMMA Accepted ==
    ASSUME NEW S, NEW cells \in Seq(S), Len(wire) \in Nat
    PROVE  \E k \in 0..Len(cells) : accepted(cells) = SubSeq(cells, 1, k)
                                    /\ Len(accepted(cells)) = k
<1>1. PICK n \in Nat : n = Len(cells)
  BY LenProperties
<1>2. PICK w \in Nat : w = Len(wire)
  OBVIOUS
<1>3. PICK r \in Int : r = Window - w /\ r = room
  <2>1. Window \in Nat
    BY DownloadAssumption
  <2> QED
    BY <1>2, <2>1 DEF room
<1>4. accepted(cells) = SubSeq(cells, 1, least(n, r))
  BY <1>1, <1>3 DEF accepted
<1>5. CASE n < r
  <2>1. n \in 0..Len(cells) /\ least(n, r) = n
    BY <1>1, <1>5 DEF least
  <2> QED
    BY <1>4, <2>1, Split
<1>6. CASE ~(n < r) /\ r >= 0
  <2>1. r \in 0..Len(cells) /\ least(n, r) = r
    BY <1>1, <1>6 DEF least
  <2> QED
    BY <1>4, <2>1, Split
<1>7. CASE ~(n < r) /\ r < 0
  <2>1. 0 \in 0..Len(cells) /\ least(n, r) = r
    BY <1>1, <1>7 DEF least
  <2>2. SubSeq(cells, 1, r) = <<>> /\ SubSeq(cells, 1, 0) = <<>> /\ Len(<<>>) = 0
    BY <1>7, SubSeqEmpty, EmptySeq
  <2> QED
    BY <1>4, <2>1, <2>2
<1> QED
  BY <1>5, <1>6, <1>7

LEMMA FramedCells ==
    ASSUME NEW resp \in Response
    PROVE  framed(resp) \in Seq(Cell) /\ Len(framed(resp)) = 2
<1>1. <<1, resp>> \in Payload /\ <<2, resp>> \in Payload
  BY DEF Payload
<1>2. cell("frame", <<1, resp>>) \in Cell /\ cell("frame", <<2, resp>>) \in Cell
  BY <1>1 DEF cell, Cell
<1> QED
  BY <1>2 DEF framed

\* The client's unread part grows by what is appended to the stream.
LEMMA UnreadGrows ==
    ASSUME NEW s \in Seq(Cell), NEW out \in Seq(Cell), Unread(s), wire \in Seq(Cell),
           cli.buf \in Seq(Cell), wire' = wire \o out, cli' = cli,
           \A resp : Describes(resp) => Describes(resp)'
    PROVE  Unread(s \o out)'
<1>1. CASE cli.st = "waiting"
  <2>1. PICK resp : Describes(resp) /\ cli.buf \o wire = framed(resp) \o s
    BY <1>1 DEF Unread
  <2>2. framed(resp) \in Seq(Cell)
    BY <2>1, FramedCells DEF Describes
  <2>3. PICK fr \in Seq(Cell) : fr = framed(resp)
    BY <2>2
  <2>4. PICK buf \in Seq(Cell) : buf = cli.buf
    OBVIOUS
  <2>5. PICK w \in Seq(Cell) : w = wire
    OBVIOUS
  <2>6. Regrouped(buf, w, out) /\ Regrouped(fr, s, out)
    BY Regroup
  <2>7. buf \o w = fr \o s
    BY <2>1, <2>3, <2>4, <2>5
  <2>8. buf \o (w \o out) = fr \o (s \o out)
    BY <2>6, <2>7 DEF Regrouped
  <2>9. cli'.buf \o wire' = framed(resp) \o (s \o out)
    BY <2>3, <2>4, <2>5, <2>8
  <2> QED
    BY <1>1, <2>1, <2>9 DEF Unread
<1>2. CASE cli.st # "waiting"
  BY <1>2 DEF Unread
<1> QED
  BY <1>1, <1>2

\* The cells out carry on the body: after them the stream holds what the codec has let go.
Extends(out) ==
  \A b \in Seq(Cell) :
    (\E p : Holds(b \o snd.pending, p, cli.received, cli.frame))
      => (\E q : Holds((b \o out) \o snd.pending, q, cli.received, cli.frame))'

\* Nothing of the trailer is there before its first cell is sent.
LEMMA NoTrailer ==
    ASSUME NEW t \in Seq(Cell), NEW tail \in Seq(Cell), NEW f, IsTrailer(t \o tail, f, 0)
    PROVE  t = <<>> /\ tail = <<>>
<1>1. Len(t \o tail) = 0 /\ Len(t \o tail) = Len(t) + Len(tail)
  BY ConcatProperties DEF IsTrailer
<1>2. Len(t) \in Nat /\ Len(tail) \in Nat
  BY LenProperties
<1>3. Len(t) = 0 /\ Len(tail) = 0
  BY <1>1, <1>2
<1> QED
  BY <1>3, EmptySeq

\* A step of the sender that writes part of the body.
LEMMA BodyGrows ==
    ASSUME DownloadInv, NEW out \in Seq(Cell), wire' = wire \o out, Extends(out),
           UNCHANGED <<remote, seen, req, cli, local>>,
           at = "body", snd.trailerOff = 0, snd'.trailerOff = 0,
           snd'.st = snd.st, snd'.file = snd.file, snd'.total = snd.total,
           snd'.enc = snd.enc, TypeInv', SenderInv'
    PROVE  DownloadInv'
<1>0. TypeInv /\ SenderInv /\ StreamInv /\ SeenInv /\ WaitingInv /\ BodyInv
  BY DEF DownloadInv
<1>1. Base' = Base
  BY DEF Base
<1>2. req = NoReq
  BY <1>0 DEF SenderInv
<1>3. StreamInv'
  <2>1. SUFFICES ASSUME busy' PROVE (\E body, tail \in Seq(Cell) : \E p : Stream(body, tail, p))'
    BY DEF StreamInv
  <2>2. busy
    BY <2>1 DEF busy
  <2>3. PICK body, tail \in Seq(Cell) : \E p : Stream(body, tail, p)
    BY <1>0, <1>2, <2>2 DEF StreamInv
  <2>4. PICK p : Stream(body, tail, p)
    BY <2>3
  <2>t. cli.trailer \in Seq(Cell) /\ cli.buf \in Seq(Cell) /\ wire \in Seq(Cell)
    BY <1>0 DEF TypeInv, Getter
  <2>5. tail = <<>> /\ cli.trailer = <<>>
    BY <2>4, <2>t, NoTrailer DEF Stream
  <2>6. body \o tail = body /\ body \o out \in Seq(Cell)
    BY <2>5, ConcatEmptySeq, ConcatProperties
  <2>7. \A resp : Describes(resp) => Describes(resp)'
    BY DEF Describes
  <2>8. Unread(body)
    BY <2>4, <2>6 DEF Stream
  <2>9. Unread(body \o out)'
    BY <2>7, <2>8, <2>t, UnreadGrows
  <2>10. PICK new \in Seq(Cell) : new = body \o out
    BY <2>6
  <2>11. new \o <<>> = new /\ <<>> \in Seq(Cell)
    BY ConcatEmptySeq, EmptySeq
  <2>12. Unread(new \o <<>>)'
    BY <2>9, <2>10, <2>11
  <2>13. PICK q : Holds(new \o snd.pending, q, cli.received, cli.frame)'
    BY <2>4, <2>10 DEF Stream, Extends
  <2>14. IsTrailer(cli.trailer \o <<>>, snd.file, snd.trailerOff)'
    <3>1. cli.trailer \o tail = <<>> /\ cli'.trailer \o <<>> = <<>>
      BY <2>5, <2>11, ConcatEmptySeq
    <3> QED
      BY <3>1, <2>4, <2>5 DEF Stream
  <2>15. Stream(new, <<>>, q)'
    BY <2>12, <2>13, <2>14 DEF Stream
  <2> QED
    BY <2>11, <2>15
<1>4. SeenInv'
  BY <1>0, <1>2 DEF SeenInv, busy
<1>5. WaitingInv' /\ BodyInv'
  BY <1>0, <1>1 DEF WaitingInv, BodyInv, Progress
<1> QED
  BY <1>3, <1>4, <1>5 DEF DownloadInv

\* The first k blocks of a chunk that was read at pos.
LEMMA ChunkHead ==
    ASSUME NEW f \in Seq(Blocks), NEW pos \in Nat, NEW n \in Nat, pos + n <= Len(f),
           NEW k \in 0..n
    PROVE  slice(slice(f, pos, n), 0, k) = slice(f, pos, k)
<1>1. PICK c \in Seq(Blocks) : c = slice(f, pos, n)
  BY ReadOn
<1>2. Len(c) = n /\ \A i \in 1..n : c[i] = f[pos + i]
  BY <1>1, ReadOn
<1>3. k \in Nat /\ k <= n /\ pos + k <= Len(f) /\ 0 + k <= Len(c) /\ 0 \in Nat
  <2>1. Len(f) \in Nat
    BY LenProperties
  <2> QED
    BY <1>2, <2>1
<1>4. PICK d \in Seq(Blocks) : d = slice(f, pos, k)
  BY <1>3, ReadOn
<1>5. Len(d) = k /\ \A i \in 1..k : d[i] = f[pos + i]
  BY <1>3, <1>4, ReadOn
<1>6. PICK e \in Seq(Blocks) : e = slice(c, 0, k)
  BY <1>3, ReadOn
<1>7. Len(e) = k /\ \A i \in 1..k : e[i] = c[0 + i]
  BY <1>3, <1>6, ReadOn, ZenonT(60)
<1>8. ASSUME NEW i \in 1..k PROVE e[i] = d[i]
  <2>1. 0 + i = i /\ i \in 1..n
    BY <1>3
  <2> QED
    BY <1>2, <1>5, <1>7, <2>1
<1>9. e = d
  BY <1>5, <1>7, <1>8, SeqEqual
<1> QED
  BY <1>1, <1>4, <1>6, <1>9

\* The server in the body phase: n more blocks are to be read at pos.
LEMMA BodyPhase ==
    ASSUME TypeInv, SenderInv, at = "body", ~body_sent \/ snd.sent < snd.total
    PROVE  /\ snd.st = "sending" /\ req = NoReq /\ snd.prefix = 0 /\ snd.trailerOff = 0
           /\ snd.pos = Base + snd.sent
           /\ snd.sent < snd.total => ~snd.frameFin
           /\ \A n \in Nat : n <= snd.total - snd.sent => snd.pos + n <= Len(snd.file)
<1>1. snd.st = "sending" /\ req = NoReq /\ snd.prefix = 0
  BY DEF SenderInv
<1>2. snd.trailerOff \in Nat /\ snd.pos \in Nat /\ snd.sent \in Nat /\ snd.total \in Nat
      /\ Base \in Nat /\ Base + snd.total = Len(snd.file)
  BY SenderTypes
<1>3. snd.trailerOff = 0
  <2>1. snd.trailerOff > 0 => body_sent
    BY DEF SenderInv
  <2>2. snd.sent < snd.total => ~body_sent
    BY <1>2 DEF body_sent
  <2> QED
    BY <1>2, <2>1, <2>2
<1>4. snd.pos = Base + snd.sent
  BY <1>1, <1>2 DEF SenderInv
<1>5. snd.sent < snd.total => ~snd.frameFin
  <2>1. snd.frameFin => snd.sent = snd.total
    BY Zenon DEF SenderInv
  <2> HAVE snd.sent < snd.total
  <2>2. snd.sent # snd.total
    BY <1>2
  <2> QED
    BY <2>1, <2>2, Zenon
<1>6. ASSUME NEW n \in Nat, n <= snd.total - snd.sent PROVE snd.pos + n <= Len(snd.file)
  <2>1. PICK o \in Nat : o = Base
    BY <1>2
  <2>2. PICK x \in Nat : x = snd.sent
    BY <1>2
  <2>3. PICK y \in Nat : y = snd.total
    BY <1>2
  <2>4. o + x + n <= o + y
    BY <1>6, <2>2, <2>3
  <2> QED
    BY <1>2, <1>4, <2>1, <2>2, <2>3, <2>4
<1> QED
  BY <1>1, <1>3, <1>4, <1>5, <1>6

LEMMA IdentityInv ==
    ASSUME DownloadInv, send_phase_body_identity
    PROVE  DownloadInv'
<1>0. TypeInv /\ SenderInv
  BY DEF DownloadInv
<1>1. /\ at = "body" /\ snd.enc = "identity" /\ snd.sent < snd.total
      /\ remote' = remote /\ seen' = seen /\ req' = req /\ fin' = fin
      /\ cli' = cli /\ local' = local
  BY DEF send_phase_body_identity, clientVars
<1>2. PICK want, chunk, out :
        /\ want = least(snd.total - snd.sent, Chunk)
        /\ chunk = slice(snd.file, snd.pos, want)
        /\ out = accepted([i \in 1..want |-> cell("data", chunk[i])])
        /\ wire' = wire \o out
        /\ snd' = [snd EXCEPT !.hash = @ \o hashed(chunk, Len(out)),
                              !.sent = @ + Len(out), !.pos = @ + Len(out)]
        /\ at' = after_write(Len(out), want)
  BY DEF send_phase_body_identity
<1>3. /\ snd.st = "sending" /\ req = NoReq /\ snd.prefix = 0 /\ snd.trailerOff = 0
      /\ snd.pos = Base + snd.sent
      /\ \A n \in Nat : n <= snd.total - snd.sent => snd.pos + n <= Len(snd.file)
  BY <1>0, <1>1, BodyPhase
<1>f. PICK f \in Seq(Blocks) : f = snd.file
  BY <1>0, SenderTypes
<1>p. PICK pos \in Nat : pos = snd.pos
  BY <1>0, SenderTypes
<1>s. PICK sent \in Nat : sent = snd.sent
  BY <1>0, SenderTypes
<1>t. PICK total \in Nat : total = snd.total /\ sent < total
  BY <1>0, <1>1, <1>s, SenderTypes
<1>o. PICK o \in Nat : o = Base /\ pos = o + sent
  BY <1>0, <1>3, <1>p, <1>s, SenderTypes
<1>4. want \in Nat /\ want <= total - sent
  <2>1. want = least(total - sent, Chunk) /\ Chunk \in Nat
    BY <1>2, <1>s, <1>t, DownloadAssumption
  <2> QED
    BY <2>1, <1>t DEF least
<1>5. pos + want <= Len(f)
  BY <1>3, <1>4, <1>f, <1>p, <1>s, <1>t
<1>6. /\ chunk \in Seq(Blocks) /\ Len(chunk) = want
      /\ \A i \in 1..want : chunk[i] = f[pos + i]
  BY <1>2, <1>4, <1>5, <1>f, <1>p, ReadOn, SMTT(60)
<1>7. PICK cells : cells = [i \in 1..want |-> cell("data", chunk[i])]
  OBVIOUS
<1>8. cells \in Seq(Cell) /\ Len(cells) = want
  <2>1. ASSUME NEW i \in 1..want PROVE cell("data", chunk[i]) \in Cell
    <3>1. chunk[i] \in Blocks
      BY <1>6, ElementOfSeq
    <3> QED
      BY <3>1 DEF cell, Cell, Payload
  <2>2. cells \in [1..want -> Cell]
    BY <1>7, <2>1
  <2> QED
    BY <1>4, <2>2
<1>9. PICK k \in 0..want : out = SubSeq(cells, 1, k) /\ Len(out) = k
  <2>1. Len(wire) \in Nat
    BY <1>0, LenProperties DEF TypeInv
  <2> QED
    BY <1>2, <1>7, <1>8, <2>1, Accepted
<1>10. out \in Seq(Cell) /\ \A i \in 1..k : out[i] = cell("data", f[pos + i])
  <2>1. out \in Seq(Cell) /\ \A i \in 1..k : out[i] = cells[i]
    BY <1>8, <1>9, Split
  <2>2. \A i \in 1..k : i \in 1..want
    BY <1>4
  <2> QED
    BY <1>6, <1>7, <2>1, <2>2
<1>k. k \in Nat /\ k <= want /\ pos + k <= Len(f) /\ sent + k <= total
  <2>1. Len(f) \in Nat
    BY LenProperties
  <2> QED
    BY <1>4, <1>5, <2>1
<1>h. snd.hash = SubSeq(f, 1, pos) /\ snd.hash \in Seq(Blocks)
  BY <1>0, <1>f, <1>p, SenderTypes DEF SenderInv
<1>11. PICK h \in Seq(Blocks) : h = snd.hash \o hashed(chunk, k) /\ h = SubSeq(f, 1, pos + k)
  <2>1. hashed(chunk, k) = slice(f, pos, k)
    BY <1>2, <1>4, <1>5, <1>f, <1>p, ChunkHead DEF hashed
  <2>2. /\ slice(f, pos, k) \in Seq(Blocks)
        /\ SubSeq(f, 1, pos) \o slice(f, pos, k) = SubSeq(f, 1, pos + k)
    BY <1>k, ReadOn
  <2> QED
    BY <1>h, <2>1, <2>2, ConcatProperties
<1>12. PICK x \in Nat : x = sent + k
  BY <1>k
<1>13. PICK y \in Nat : y = pos + k /\ y = o + x
  BY <1>k, <1>o, <1>12
<1>14. snd' = [snd EXCEPT !.hash = h, !.sent = x, !.pos = y]
  BY <1>2, <1>9, <1>11, <1>12, <1>13, <1>s, <1>p
<1>15. snd \in Sender
  BY <1>0 DEF TypeInv
<1>16. snd' \in Sender
  BY <1>14, <1>15 DEF Sender
<1>17. /\ snd'.hash = h /\ snd'.pos = y /\ snd'.prefix = snd.prefix
       /\ snd'.st = snd.st /\ snd'.file = snd.file /\ snd'.total = snd.total
       /\ snd'.sent = x /\ snd'.enc = snd.enc /\ snd'.buffered = snd.buffered
       /\ snd'.pending = snd.pending /\ snd'.frameFin = snd.frameFin
       /\ snd'.trailerOff = snd.trailerOff
  BY <1>14, <1>15 DEF Sender
<1>18. at' \in {"poll", "body"}
  BY <1>2 DEF after_write
<1>19. TypeInv'
  <2>1. wire \in Seq(Cell)
    BY <1>0 DEF TypeInv
  <2>2. wire' \in Seq(Cell)
    BY <1>2, <1>10, <2>1, ConcatProperties
  <2> QED
    BY <1>0, <1>1, <1>16, <1>18, <2>2 DEF TypeInv
<1>20. Base' = Base
  BY <1>17 DEF Base
<1>b. snd.pending = <<>> /\ snd.buffered = <<>> /\ Len(snd.buffered) = 0 /\ ~snd.frameFin
  <2>1. Len(<<>>) = 0
    BY EmptySeq
  <2>2. snd.frameFin => sent = total
    BY <1>0, <1>s, <1>t DEF SenderInv
  <2> QED
    BY <1>0, <1>1, <1>t, <2>1, <2>2 DEF SenderInv
<1>21. SenderInv'
  <2>1. snd'.hash = SubSeq(snd'.file, 1, snd'.pos)
    BY <1>11, <1>13, <1>17, <1>f
  <2>2. snd'.total <= Len(snd'.file) /\ snd'.sent <= snd'.total
    BY <1>0, <1>k, <1>12, <1>17, <1>t DEF SenderInv
  <2>3. snd'.pos + snd'.prefix = Base' + snd'.sent
    BY <1>3, <1>13, <1>17, <1>20, <1>o
  <2>4. snd'.buffered = SubSeq(snd'.file, Base' + snd'.sent - Len(snd'.buffered) + 1, Base' + snd'.sent)
        /\ Len(snd'.buffered) <= snd'.sent
    <3>1. SubSeq(f, y + 1, y) = <<>>
      <4>1. y + 1 \in Int /\ y \in Int /\ y < y + 1
        BY <1>13
      <4> QED
        BY <4>1, SubSeqEmpty
    <3>2. Base' + snd'.sent = y /\ Base' + snd'.sent - Len(snd'.buffered) + 1 = y + 1
      BY <1>13, <1>17, <1>20, <1>o, <1>b
    <3>3. snd'.buffered = <<>> /\ Len(snd'.buffered) = 0
      BY <1>17, <1>b
    <3> QED
      BY <1>12, <1>17, <1>f, <3>1, <3>2, <3>3
  <2>5. at' # "trailer" /\ ~(snd'.trailerOff > 0) /\ snd'.trailerOff <= 2
    BY <1>3, <1>17, <1>18
  <2> QED
    BY <1>0, <1>1, <1>3, <1>17, <1>18, <1>b, <2>1, <2>2, <2>3, <2>4, <2>5 DEF SenderInv
<1>22. Extends(out)
  <2>1. SUFFICES ASSUME NEW b \in Seq(Cell), NEW p,
                        Holds(b \o snd.pending, p, cli.received, cli.frame)
                 PROVE  (\E q : Holds((b \o out) \o snd.pending, q, cli.received, cli.frame))'
    BY DEF Extends
  <2>2. b \o snd.pending = b
    BY <1>b, ConcatEmptySeq
  <2>3. PICK d \in Seq(Cell) : d = b \o out
    BY <1>10, ConcatProperties
  <2>4. d \o snd'.pending = d
    BY <1>17, <1>b, ConcatEmptySeq
  <2>5. Base + snd.sent - Len(snd.buffered) = pos
    BY <1>b, <1>s, <1>o
  <2>6. Cuts(b, p, f, Base + cli.received, pos) /\ Plain(b)
    BY <1>1, <1>f, <2>1, <2>2, <2>5 DEF Holds, Kinds
  <2>7. DataOf(out, f, pos, k)
    BY <1>9, <1>10 DEF DataOf
  <2>8. PICK q : Cuts(d, q, f, Base + cli.received, pos + k)
    BY <1>k, <1>10, <2>3, <2>6, <2>7, CutsData
  <2>9. Plain(d)
    <3>1. /\ Len(b) \in Nat /\ Len(d) = Len(b) + Len(out) /\ (\A i \in 1..Len(b) : d[i] = b[i])
          /\ \A i \in 1..Len(out) : d[Len(b) + i] = out[i]
      BY <1>10, <2>3, Joined
    <3>2. ASSUME NEW i \in 1..Len(d) PROVE d[i].k = "data"
      <4>1. CASE i \in 1..Len(b)
        BY <2>6, <3>1, <4>1 DEF Plain
      <4>2. CASE i \notin 1..Len(b)
        <5>1. PICK j \in 1..k : i = Len(b) + j
          <6>1. PICK m \in Nat : m = Len(b)
            BY <3>1
          <6>2. i \in 1..(m + k) /\ i \notin 1..m
            BY <1>9, <3>1, <4>2, <6>1
          <6>3. i - m \in 1..k /\ i = m + (i - m)
            BY <1>k, <6>2
          <6> QED
            BY <6>1, <6>3
        <5>2. d[i] = cell("data", f[pos + j])
          BY <1>9, <1>10, <3>1, <5>1
        <5> QED
          BY <5>2 DEF cell
      <4> QED
        BY <4>1, <4>2
    <3> QED
      BY <3>2 DEF Plain
  <2>10. Base' + snd'.sent - Len(snd'.buffered) = pos + k
    BY <1>13, <1>17, <1>20, <1>b, <1>o
  <2>11. Kinds(d, snd'.enc, snd'.frameFin, cli'.frame)
    BY <1>1, <1>17, <2>9 DEF Kinds
  <2>12. Holds(d \o snd.pending, q, cli.received, cli.frame)'
    BY <1>1, <1>17, <1>20, <1>f, <2>4, <2>8, <2>10, <2>11 DEF Holds
  <2> QED
    BY <2>3, <2>12
<1> QED
  BY <1>1, <1>2, <1>3, <1>10, <1>17, <1>19, <1>21, <1>22, BodyGrows

\* The codec emits one more piece, or the end of the frame.
LEMMA KindsMore ==
    ASSUME NEW b \in Seq(Cell), NEW c \in Cell, NEW last \in BOOLEAN, NEW ended \in BOOLEAN,
           Kinds(b, "zstd", FALSE, ended), c.k = IF last THEN "zend" ELSE "zstd"
    PROVE  Kinds(b \o <<c>>, "zstd", last, ended)
<1>n. PICK n \in Nat : n = Len(b)
  BY LenProperties
<1>0. <<c>> \in Seq(Cell) /\ Len(<<c>>) = 1 /\ <<c>>[1] = c /\ 1 \in 1..1
  OBVIOUS
<1>1. PICK d \in Seq(Cell) : d = b \o <<c>>
  BY <1>0, ConcatProperties
<1>2. Len(d) = n + 1 /\ (\A i \in 1..n : d[i] = b[i]) /\ d[n + 1] = c
  <2>1. Len(d) = n + 1 /\ \A i \in 1..(n + 1) : d[i] = IF i <= n THEN b[i] ELSE <<c>>[i - n]
    BY <1>n, <1>0, <1>1, ConcatProperties
  <2> QED
    BY <1>0, <2>1
<1>3. (\A j \in 1..n : b[j].k = "zstd") /\ ~ended
  BY <1>n DEF Kinds
<1>4. ASSUME NEW j \in 1..(n + 1) PROVE d[j].k = IF last /\ j = n + 1 THEN "zend" ELSE "zstd"
  <2>1. CASE j = n + 1
    BY <1>2, <2>1
  <2>2. CASE j # n + 1
    <3>1. j \in 1..n
      BY <2>2
    <3> QED
      BY <1>2, <1>3, <2>2, <3>1
  <2> QED
    BY <2>1, <2>2
<1>5. d # <<>>
  <2>1. Len(d) # 0
    BY <1>2
  <2> QED
    BY <2>1, EmptySeq
<1>6. Kinds(d, "zstd", last, ended)
  BY <1>2, <1>3, <1>4, <1>5 DEF Kinds
<1> QED
  BY <1>1, <1>6

\* The stream takes some of the codec's output.
LEMMA DrainInv ==
    ASSUME DownloadInv, at = "body", snd.enc = "zstd", ~body_sent,
           UNCHANGED <<remote, seen, req, fin, cli, local>>, NEW out,
           out = accepted(snd.pending), wire' = wire \o out,
           snd' = [snd EXCEPT !.pending = SubSeq(@, Len(out) + 1, Len(@))],
           at' \in {"poll", "body"}
    PROVE  DownloadInv'
<1>0. TypeInv /\ SenderInv
  BY DEF DownloadInv
<1>1. snd.st = "sending" /\ req = NoReq /\ snd.prefix = 0 /\ snd.trailerOff = 0
  BY <1>0, BodyPhase
<1>2. PICK pend \in Seq(Cell) : pend = snd.pending
  BY <1>0, SenderTypes
<1>3. PICK k \in 0..Len(pend) : out = SubSeq(pend, 1, k) /\ Len(out) = k
  <2>1. Len(wire) \in Nat
    BY <1>0, LenProperties DEF TypeInv
  <2> QED
    BY <1>2, <2>1, Accepted
<1>4. PICK rest \in Seq(Cell) : rest = SubSeq(pend, k + 1, Len(pend))
  BY Split
<1>5. out \in Seq(Cell) /\ out \o rest = pend
  BY <1>3, <1>4, Split, ZenonT(60)
<1>6. snd' = [snd EXCEPT !.pending = rest]
  BY <1>2, <1>3, <1>4
<1>15. snd \in Sender
  BY <1>0 DEF TypeInv
<1>16. snd' \in Sender
  BY <1>6, <1>15 DEF Sender
<1>17. /\ snd'.hash = snd.hash /\ snd'.pos = snd.pos /\ snd'.prefix = snd.prefix
       /\ snd'.st = snd.st /\ snd'.file = snd.file /\ snd'.total = snd.total
       /\ snd'.sent = snd.sent /\ snd'.enc = snd.enc /\ snd'.buffered = snd.buffered
       /\ snd'.pending = rest /\ snd'.frameFin = snd.frameFin
       /\ snd'.trailerOff = snd.trailerOff
  BY <1>6, <1>15 DEF Sender
<1>19. TypeInv'
  <2>1. wire \in Seq(Cell)
    BY <1>0 DEF TypeInv
  <2>2. wire' \in Seq(Cell)
    BY <1>5, <2>1, ConcatProperties
  <2> QED
    BY <1>0, <1>16, <2>2 DEF TypeInv
<1>20. Base' = Base
  BY <1>17 DEF Base
<1>21. SenderInv'
  <2>1. at' # "trailer" /\ ~(snd'.trailerOff > 0) /\ snd'.trailerOff <= 2
    BY <1>1, <1>17
  <2>2. snd'.enc # "identity"
    BY <1>17
  <2> QED
    BY <1>0, <1>1, <1>17, <1>20, <2>1, <2>2 DEF SenderInv
<1>22. Extends(out)
  <2>1. SUFFICES ASSUME NEW b \in Seq(Cell), NEW p,
                        Holds(b \o snd.pending, p, cli.received, cli.frame)
                 PROVE  (\E q : Holds((b \o out) \o snd.pending, q, cli.received, cli.frame))'
    BY DEF Extends
  <2>2. Regrouped(b, out, rest)
    BY <1>5, Regroup
  <2>3. (b \o out) \o snd'.pending = b \o snd.pending
    BY <1>2, <1>5, <1>17, <2>2 DEF Regrouped
  <2>4. Holds((b \o out) \o snd.pending, p, cli.received, cli.frame)'
    BY <1>17, <1>20, <2>1, <2>3 DEF Holds
  <2> QED
    BY <2>4
<1> QED
  BY <1>1, <1>5, <1>17, <1>19, <1>21, <1>22, BodyGrows

\* What the codec holds is the stretch of the file it has read and not let go.
LEMMA Gathered ==
    ASSUME TypeInv, SenderInv
    PROVE  \E lo, r, mid \in Nat :
             /\ r <= snd.sent /\ lo + r = mid /\ r = Len(snd.buffered)
             /\ mid = Base + snd.sent /\ lo = Base + snd.sent - Len(snd.buffered)
             /\ snd.buffered = SubSeq(snd.file, lo + 1, mid)
<1>1. PICK r \in Nat : r = Len(snd.buffered)
  BY SenderTypes
<1>2. PICK sent \in Nat : sent = snd.sent
  BY SenderTypes
<1>3. PICK o \in Nat : o = Base
  BY SenderTypes
<1>4. r <= sent
  BY <1>1, <1>2 DEF SenderInv
<1>5. PICK mid \in Nat : mid = o + sent
  OBVIOUS
<1>6. PICK lo \in Nat : lo = o + sent - r /\ lo + r = mid
  BY <1>4, <1>5
<1>7. snd.buffered = SubSeq(snd.file, o + sent - r + 1, o + sent)
  BY <1>1, <1>2, <1>3 DEF SenderInv
<1> QED
  BY <1>1, <1>2, <1>3, <1>4, <1>5, <1>6, <1>7

\* A stretch without blocks.
LEMMA NoStretch ==
    ASSUME NEW f, NEW x \in Nat
    PROVE  SubSeq(f, x + 1, x) = <<>>
<1>1. x \in Int /\ x + 1 \in Int /\ x < x + 1
  OBVIOUS
<1> QED
  BY <1>1, SubSeqEmpty

\* One turn of the encoder loop.
Pushes(want, chunk) ==
  /\ at = "body" /\ snd.enc = "zstd" /\ snd.pending = <<>> /\ snd.sent < snd.total
  /\ UNCHANGED <<remote, seen, req, fin, cli, local, wire, at>>
  /\ want = least(snd.total - snd.sent, Chunk) /\ chunk = slice(snd.file, snd.pos, want)
  /\ snd' \in push([snd EXCEPT !.hash = @ \o chunk, !.sent = @ + want, !.pos = @ + want], chunk)

\* The codec reads a chunk: it keeps all it holds, or lets all of it go.
LEMMA PushInv ==
    ASSUME DownloadInv, NEW want, NEW chunk, Pushes(want, chunk)
    PROVE  DownloadInv'
<1>0. TypeInv /\ SenderInv
  BY DEF DownloadInv
<1>g. /\ at = "body" /\ snd.enc = "zstd" /\ snd.pending = <<>>
      /\ UNCHANGED <<remote, seen, req, fin, cli, local, wire, at>>
  BY Zenon DEF Pushes
<1>l. snd.sent < snd.total
  BY Zenon DEF Pushes
<1>1. /\ snd.st = "sending" /\ req = NoReq /\ snd.prefix = 0 /\ snd.trailerOff = 0
      /\ snd.pos = Base + snd.sent /\ ~snd.frameFin
      /\ \A n \in Nat : n <= snd.total - snd.sent => snd.pos + n <= Len(snd.file)
  BY <1>0, <1>g, <1>l, BodyPhase
<1>f. PICK f \in Seq(Blocks) : f = snd.file
  BY <1>0, SenderTypes
<1>p. PICK pos \in Nat : pos = snd.pos
  BY <1>0, SenderTypes
<1>s. PICK sent \in Nat : sent = snd.sent
  BY <1>0, SenderTypes
<1>t. PICK total \in Nat : total = snd.total /\ sent < total
  BY <1>0, <1>l, <1>s, SenderTypes
<1>o. PICK o \in Nat : o = Base /\ pos = o + sent
  BY <1>0, <1>1, <1>p, <1>s, SenderTypes
<1>4. want \in Nat /\ want <= total - sent
  <2>1. want = least(total - sent, Chunk) /\ Chunk \in Nat
    BY <1>s, <1>t, DownloadAssumption DEF Pushes
  <2> QED
    BY <2>1, <1>t DEF least
<1>5. pos + want <= Len(f)
  BY <1>1, <1>4, <1>f, <1>p, <1>s, <1>t
<1>6. chunk = slice(f, pos, want)
  BY <1>f, <1>p DEF Pushes
<1>7. PICK lo \in Nat, r \in Nat :
             /\ r <= sent /\ lo + r = pos /\ r = Len(snd.buffered)
             /\ lo = Base + snd.sent - Len(snd.buffered)
             /\ snd.buffered = SubSeq(f, lo + 1, pos)
  <2>1. PICK lo, r, mid \in Nat :
             /\ r <= snd.sent /\ lo + r = mid /\ r = Len(snd.buffered)
             /\ mid = Base + snd.sent /\ lo = Base + snd.sent - Len(snd.buffered)
             /\ snd.buffered = SubSeq(snd.file, lo + 1, mid)
    BY <1>0, Gathered
  <2>2. mid = pos
    BY <1>1, <1>p, <2>1
  <2> QED
    BY <1>f, <1>s, <2>1, <2>2
<1>u. lo <= pos /\ lo + r = pos /\ r <= sent
  <2>1. lo + r = pos /\ r <= sent
    BY <1>7, Zenon
  <2> QED
    BY <2>1
<1>8. PICK hi \in Nat : hi = pos + want /\ pos <= hi /\ hi <= Len(f) /\ lo <= hi
                        /\ hi - lo = r + want
  BY <1>4, <1>5, <1>u
<1>9. PICK all \in Seq(Blocks) : all = snd.buffered \o chunk /\ all = SubSeq(f, lo + 1, hi)
                                 /\ Len(all) = hi - lo
  <2>1. SubSeq(f, lo + 1, pos) \o SubSeq(f, pos + 1, hi) = SubSeq(f, lo + 1, hi)
    <3>1. lo <= pos /\ pos <= hi /\ hi <= Len(f)
      BY <1>8, <1>u, Zenon
    <3> QED
      BY <3>1, StretchJoin
  <2>2. SubSeq(f, lo + 1, hi) \in Seq(Blocks) /\ Len(SubSeq(f, lo + 1, hi)) = hi - lo
    BY <1>8, Stretch
  <2>3. chunk = SubSeq(f, pos + 1, hi)
    BY <1>6, <1>8 DEF slice
  <2>4. snd.buffered = SubSeq(f, lo + 1, pos)
    BY <1>7
  <2> QED
    BY <2>1, <2>2, <2>3, <2>4
<1>h. snd.hash = SubSeq(f, 1, pos) /\ snd.hash \in Seq(Blocks)
  BY <1>0, <1>f, <1>p, SenderTypes DEF SenderInv
<1>11. PICK h \in Seq(Blocks) : h = snd.hash \o chunk /\ h = SubSeq(f, 1, hi)
  <2>2. /\ slice(f, pos, want) \in Seq(Blocks)
        /\ SubSeq(f, 1, pos) \o slice(f, pos, want) = SubSeq(f, 1, pos + want)
    BY <1>4, <1>5, ReadOn, ZenonT(60)
  <2> QED
    BY <1>6, <1>8, <1>h, <2>2, ConcatProperties
<1>12. PICK x \in Nat : x = sent + want /\ x <= total /\ hi = o + x
  <2>1. hi = pos + want /\ pos = o + sent
    BY <1>8, <1>o, Zenon
  <2> QED
    BY <1>4, <1>t, <2>1
<1>c. PICK c \in Cell : c = cell("zstd", all)
  BY DEF cell, Cell, Payload
<1>15. snd \in Sender
  BY <1>0 DEF TypeInv
<1>14. PICK e : e = [snd EXCEPT !.hash = h, !.sent = x, !.pos = hi]
  OBVIOUS
<1>a. e.buffered = snd.buffered
  BY <1>14, <1>15 DEF Sender
<1>b. snd' \in push(e, chunk)
  BY <1>8, <1>11, <1>12, <1>14, <1>p, <1>s DEF Pushes
<1>d. \/ snd' = [e EXCEPT !.buffered = all]
      \/ snd' = [e EXCEPT !.buffered = <<>>, !.pending = <<c>>]
  <2>1. \/ snd' = [e EXCEPT !.buffered = @ \o chunk]
        \/ snd' = [e EXCEPT !.buffered = <<>>, !.pending = <<cell("zstd", e.buffered \o chunk)>>]
    BY <1>b DEF push
  <2> QED
    BY <1>9, <1>a, <1>c, <2>1
<1>e. PICK buf \in Seq(Blocks), pend \in Seq(Cell) :
        /\ (buf = all /\ pend = <<>>) \/ (buf = <<>> /\ pend = <<c>>)
        /\ snd' = [snd EXCEPT !.hash = h, !.sent = x, !.pos = hi, !.buffered = buf,
                              !.pending = pend]
  <2>1. <<>> \in Seq(Blocks) /\ <<>> \in Seq(Cell) /\ <<c>> \in Seq(Cell)
    BY EmptySeq
  <2>2. CASE snd' = [e EXCEPT !.buffered = all]
    <3>1. snd' = [snd EXCEPT !.hash = h, !.sent = x, !.pos = hi, !.buffered = all,
                             !.pending = <<>>]
      <4>1. e \in Sender /\ e.pending = <<>>
        BY <1>14, <1>15, <1>g DEF Sender
      <4>2. [e EXCEPT !.buffered = all] = [e EXCEPT !.buffered = all, !.pending = <<>>]
        BY <4>1 DEF Sender
      <4> QED
        BY <1>14, <2>2, <4>2
    <3> QED
      BY <2>1, <3>1
  <2>3. CASE snd' = [e EXCEPT !.buffered = <<>>, !.pending = <<c>>]
    <3>1. snd' = [snd EXCEPT !.hash = h, !.sent = x, !.pos = hi, !.buffered = <<>>,
                             !.pending = <<c>>]
      BY <1>14, <1>15, <2>3 DEF Sender
    <3> QED
      BY <2>1, <3>1
  <2> QED
    BY <1>d, <2>2, <2>3
<1>16. snd' \in Sender
  BY <1>e, <1>15 DEF Sender
<1>17. /\ snd'.hash = h /\ snd'.pos = hi /\ snd'.prefix = snd.prefix
       /\ snd'.st = snd.st /\ snd'.file = snd.file /\ snd'.total = snd.total
       /\ snd'.sent = x /\ snd'.enc = snd.enc /\ snd'.buffered = buf
       /\ snd'.pending = pend /\ snd'.frameFin = snd.frameFin
       /\ snd'.trailerOff = snd.trailerOff
  BY <1>e, <1>15 DEF Sender
<1>19. TypeInv'
  BY <1>0, <1>g, <1>16 DEF TypeInv
<1>20. Base' = Base
  BY <1>17 DEF Base
<1>z. /\ buf = <<>> => Len(buf) = 0 /\ Base' + x - Len(buf) = hi
      /\ buf = all => Len(buf) <= x /\ Base' + x - Len(buf) = lo
  <2>1. buf = <<>> => Len(buf) = 0
    BY EmptySeq
  <2>2. hi = pos + want /\ x = sent + want /\ pos = o + sent /\ hi - lo = r + want
    BY <1>8, <1>12, <1>o
  <2>3. r + want <= x /\ o + x - (r + want) = lo /\ o + x = hi
    BY <1>4, <1>u, <2>2
  <2> QED
    <3>1. Base' = o /\ (buf = all => Len(buf) = r + want)
      BY <1>8, <1>9, <1>20, <1>o, Zenon
    <3>2. CASE buf = <<>>
      BY <3>1, <3>2, <2>1, <2>3
    <3>3. CASE buf = all
      <4>1. Len(buf) = r + want
        BY <3>1, <3>3
      <4>2. Base' + x - Len(buf) = lo /\ Len(buf) <= x
        BY <3>1, <4>1, <2>3
      <4>3. buf = <<>> => hi = lo
        BY <2>1, <2>2, <4>1, <1>4
      <4>4. Base' + x = hi
        BY <3>1, <2>3
      <4> QED
        BY <2>1, <4>1, <4>2, <4>3, <4>4, <3>1, <2>3
    <3> QED
      BY <1>e, <3>2, <3>3
<1>y. /\ buf = SubSeq(f, Base' + x - Len(buf) + 1, Base' + x)
      /\ Len(buf) <= x
  <2>0. Base' + x = hi
    BY <1>12, <1>20, <1>o
  <2>1. CASE buf = <<>>
    BY <1>z, <2>0, <2>1, NoStretch
  <2>2. CASE buf = all
    BY <1>9, <1>z, <2>0, <2>2
  <2> QED
    BY <1>e, <2>1, <2>2
<1>21. SenderInv'
  <2>1. snd'.hash = SubSeq(snd'.file, 1, snd'.pos)
    BY <1>11, <1>17, <1>f
  <2>2. snd'.total <= Len(snd'.file) /\ snd'.sent <= snd'.total
    BY <1>0, <1>12, <1>17, <1>t DEF SenderInv
  <2>3. snd'.pos + snd'.prefix = Base' + snd'.sent
    BY <1>1, <1>12, <1>17, <1>20, <1>o
  <2>4. snd'.buffered = SubSeq(snd'.file, Base' + snd'.sent - Len(snd'.buffered) + 1, Base' + snd'.sent)
        /\ Len(snd'.buffered) <= snd'.sent
    BY <1>17, <1>f, <1>y
  <2>5. at' = "body" /\ ~(snd'.trailerOff > 0) /\ snd'.trailerOff <= 2
    BY <1>1, <1>17, <1>g
  <2>6. snd'.enc # "identity" /\ ~snd'.frameFin
    BY <1>1, <1>17, <1>g
  <2> QED
    BY <1>1, <1>17, <1>g, <2>1, <2>2, <2>3, <2>4, <2>5, <2>6 DEF SenderInv
<1>22. Extends(<<>>)
  <2>1. SUFFICES ASSUME NEW b \in Seq(Cell), NEW p,
                        Holds(b \o snd.pending, p, cli.received, cli.frame)
                 PROVE  (\E q : Holds((b \o <<>>) \o snd.pending, q, cli.received, cli.frame))'
    BY DEF Extends
  <2>2. b \o snd.pending = b /\ b \o <<>> = b
    BY <1>g, ConcatEmptySeq
  <2>3. Cuts(b, p, f, Base + cli.received, lo) /\ Kinds(b, "zstd", FALSE, cli.frame)
    <3>1. lo = Base + snd.sent - Len(snd.buffered)
      BY <1>7, Zenon
    <3>2. snd.frameFin = FALSE
      BY <1>0, <1>1, SenderTypes
    <3> QED
      BY <1>g, <1>f, <2>1, <2>2, <3>1, <3>2, Zenon DEF Holds
  <2>w. snd'.enc = "zstd" /\ snd'.frameFin = FALSE /\ snd'.file = f /\ snd'.pending = pend
    BY <1>g, <1>0, <1>1, <1>17, <1>f, SenderTypes
  <2>x. cli'.received = cli.received /\ cli'.frame = cli.frame
    BY <1>g
  <2>4. CASE buf = all /\ pend = <<>>
    <3>1. b \o snd'.pending = b
      BY <1>17, <2>2, <2>4
    <3>2. Base' + snd'.sent - Len(snd'.buffered) = lo
      BY <1>17, <1>z, <2>4
    <3>3. Holds(b \o snd.pending, p, cli.received, cli.frame)'
      BY <1>20, <2>w, <2>x, <2>3, <3>1, <3>2 DEF Holds
    <3> QED
      BY <2>2, <3>3
  <2>5. CASE buf = <<>> /\ pend = <<c>>
    <3>1. Text(c) = SubSeq(f, lo + 1, hi) /\ c.k = "zstd"
      BY <1>9, <1>c DEF Text, cell
    <3>2. lo <= hi
      BY <1>7, <1>8
    <3>3. PICK q : Cuts(b \o <<c>>, q, f, Base + cli.received, hi)
      BY <2>3, <3>1, <3>2, CutsAppend
    <3>4. cli.frame \in BOOLEAN
      BY <1>0 DEF TypeInv, Getter
    <3>5. Kinds(b \o <<c>>, "zstd", FALSE, cli.frame)
      BY <2>3, <3>1, <3>4, KindsMore
    <3>6. Base' + snd'.sent - Len(snd'.buffered) = hi
      BY <1>17, <1>z, <2>5
    <3>7. Holds(b \o snd.pending, q, cli.received, cli.frame)'
      BY <1>20, <2>w, <2>x, <2>5, <3>3, <3>5, <3>6 DEF Holds
    <3> QED
      BY <2>2, <3>7
  <2> QED
    BY <1>e, <2>4, <2>5
<1>23. <<>> \in Seq(Cell) /\ wire' = wire \o <<>>
  BY <1>0, <1>g, ConcatEmptySeq, EmptySeq DEF TypeInv
<1> QED
  BY <1>1, <1>g, <1>17, <1>19, <1>21, <1>22, <1>23, BodyGrows

\* The end of the encoder loop.
Finishes ==
  /\ at = "body" /\ snd.enc = "zstd" /\ snd.pending = <<>> /\ snd.sent = snd.total
  /\ ~snd.frameFin /\ snd' = finish(snd)
  /\ UNCHANGED <<remote, seen, req, fin, cli, local, wire, at>>

\* The codec lets go what it holds and ends the frame.
LEMMA FinishInv ==
    ASSUME DownloadInv, Finishes
    PROVE  DownloadInv'
<1>0. TypeInv /\ SenderInv
  BY DEF DownloadInv
<1>g. /\ at = "body" /\ snd.enc = "zstd" /\ snd.pending = <<>> /\ snd.sent = snd.total
      /\ ~snd.frameFin
      /\ UNCHANGED <<remote, seen, req, fin, cli, local, wire, at>>
  BY Zenon DEF Finishes
<1>1. /\ snd.st = "sending" /\ req = NoReq /\ snd.prefix = 0 /\ snd.trailerOff = 0
  <2>1. ~body_sent
    BY <1>g DEF body_sent
  <2> QED
    BY <1>0, <1>g, <2>1, BodyPhase
<1>f. PICK f \in Seq(Blocks) : f = snd.file
  BY <1>0, SenderTypes
<1>7. PICK lo, r, mid \in Nat :
             /\ r <= snd.sent /\ lo + r = mid /\ r = Len(snd.buffered)
             /\ mid = Base + snd.sent /\ lo = Base + snd.sent - Len(snd.buffered)
             /\ snd.buffered = SubSeq(snd.file, lo + 1, mid)
  BY <1>0, Gathered
<1>u. lo + r = mid /\ r = Len(snd.buffered) /\ mid = Base + snd.sent
      /\ lo = Base + snd.sent - Len(snd.buffered)
  BY <1>7, Zenon
<1>v. snd.buffered = SubSeq(f, lo + 1, mid) /\ snd.buffered \in Seq(Blocks)
  BY <1>0, <1>7, <1>f, SenderTypes
<1>m. lo <= mid /\ (r = 0 => lo = mid)
  <2>1. lo + r = mid
    BY <1>u, Zenon
  <2> QED
    BY <2>1
<1>d. PICK e \in Cell : e = cell("zend", <<>>)
  <2>1. <<>> \in Payload
    BY EmptySeq DEF Payload
  <2> QED
    BY <2>1 DEF cell, Cell
<1>c. PICK c \in Cell : c = cell("zstd", snd.buffered)
  <2>1. snd.buffered \in Payload
    BY <1>v DEF Payload
  <2> QED
    BY <2>1 DEF cell, Cell
<1>e. <<e>> \in Seq(Cell) /\ <<c>> \in Seq(Cell) /\ <<>> \in Seq(Cell) /\ <<>> \in Seq(Blocks)
  BY EmptySeq
<1>i. e.k = "zend" /\ Text(e) = <<>> /\ c.k = "zstd" /\ Text(c) = snd.buffered
  BY <1>d, <1>c DEF cell, Text
<1>2. PICK pend \in Seq(Cell) :
        /\ (snd.buffered = <<>> /\ pend = <<e>>) \/ (snd.buffered # <<>> /\ pend = <<c>> \o <<e>>)
        /\ snd' = [snd EXCEPT !.buffered = <<>>, !.pending = pend, !.frameFin = TRUE]
  <2>1. snd' = [snd EXCEPT !.buffered = <<>>,
                           !.pending = (IF snd.buffered = <<>> THEN <<>> ELSE <<c>>) \o <<e>>,
                           !.frameFin = TRUE]
    BY <1>c, <1>d DEF Finishes, finish
  <2>2. <<>> \o <<e>> = <<e>> /\ <<c>> \o <<e>> \in Seq(Cell)
    BY <1>e, ConcatEmptySeq, ConcatProperties
  <2> QED
    BY <1>e, <2>1, <2>2
<1>15. snd \in Sender
  BY <1>0 DEF TypeInv
<1>16. snd' \in Sender
  BY <1>2, <1>e, <1>15 DEF Sender
<1>17. /\ snd'.hash = snd.hash /\ snd'.pos = snd.pos /\ snd'.prefix = snd.prefix
       /\ snd'.st = snd.st /\ snd'.file = snd.file /\ snd'.total = snd.total
       /\ snd'.sent = snd.sent /\ snd'.enc = snd.enc /\ snd'.buffered = <<>>
       /\ snd'.pending = pend /\ snd'.frameFin = TRUE
       /\ snd'.trailerOff = snd.trailerOff
  BY <1>2, <1>15 DEF Sender
<1>19. TypeInv'
  BY <1>0, <1>g, <1>16 DEF TypeInv
<1>20. Base' = Base
  BY <1>17 DEF Base
<1>z. Base' + snd'.sent = mid /\ Len(snd'.buffered) = 0
      /\ Base' + snd'.sent - Len(snd'.buffered) = mid
  <2>1. Base' + snd'.sent = mid
    BY <1>17, <1>20, <1>u, Zenon
  <2>2. Len(snd'.buffered) = 0
    BY <1>17, EmptySeq
  <2>3. PICK y \in Nat : y = snd'.sent
    BY <1>0, <1>17, SenderTypes
  <2>4. y - 0 = y
    OBVIOUS
  <2> QED
    BY <2>1, <2>2, <2>3, <2>4
<1>21. SenderInv'
  <2>1. snd'.buffered = SubSeq(snd'.file, Base' + snd'.sent - Len(snd'.buffered) + 1, Base' + snd'.sent)
        /\ Len(snd'.buffered) <= snd'.sent
    <3>1. snd.sent \in Nat
      BY <1>0, SenderTypes
    <3>2. SubSeq(f, mid + 1, mid) = <<>>
      BY NoStretch
    <3> QED
      BY <1>17, <1>f, <1>z, <3>1, <3>2
  <2>2. at' = "body" /\ ~(snd'.trailerOff > 0) /\ snd'.trailerOff <= 2
    BY <1>1, <1>17, <1>g
  <2>3. snd'.enc # "identity"
    BY <1>17, <1>g
  <2>4. snd'.pos + snd'.prefix = Base' + snd'.sent /\ snd'.hash = SubSeq(snd'.file, 1, snd'.pos)
    BY <1>0, <1>17, <1>20 DEF SenderInv
  <2>5. snd'.total <= Len(snd'.file) /\ snd'.sent <= snd'.total
    BY <1>0, <1>17 DEF SenderInv
  <2> QED
    BY <1>1, <1>17, <1>g, <2>1, <2>2, <2>3, <2>4, <2>5 DEF SenderInv
<1>22. Extends(<<>>)
  <2>1. SUFFICES ASSUME NEW b \in Seq(Cell), NEW p,
                        Holds(b \o snd.pending, p, cli.received, cli.frame)
                 PROVE  (\E q : Holds((b \o <<>>) \o snd.pending, q, cli.received, cli.frame))'
    BY DEF Extends
  <2>2. b \o snd.pending = b /\ b \o <<>> = b
    BY <1>g, ConcatEmptySeq
  <2>3. Cuts(b, p, f, Base + cli.received, lo) /\ Kinds(b, "zstd", FALSE, cli.frame)
    <3>1. lo = Base + snd.sent - Len(snd.buffered)
      BY <1>7, Zenon
    <3>2. snd.frameFin = FALSE
      BY <1>0, <1>g, SenderTypes
    <3> QED
      BY <1>g, <1>f, <2>1, <2>2, <3>1, <3>2, Zenon DEF Holds
  <2>f. cli.frame \in BOOLEAN
    BY <1>0 DEF TypeInv, Getter
  <2>z. Text(e) = SubSeq(f, mid + 1, mid) /\ mid <= mid
    BY <1>i, NoStretch
  <2>4. PICK q : Cuts(b \o pend, q, f, Base + cli.received, mid) /\ Kinds(b \o pend, "zstd", TRUE, cli.frame)
    <3>1. CASE snd.buffered = <<>> /\ pend = <<e>>
      <4>1. Len(snd.buffered) = 0
        BY <3>1, EmptySeq
      <4>2. lo = mid
        BY <1>m, <1>u, <4>1
      <4>3. \E q : Cuts(b \o <<e>>, q, f, Base + cli.received, mid)
        BY <2>3, <2>z, <4>2, CutsAppend
      <4>4. Kinds(b \o <<e>>, "zstd", TRUE, cli.frame)
        BY <1>i, <2>3, <2>f, KindsMore
      <4> QED
        BY <3>1, <4>3, <4>4
    <3>2. CASE snd.buffered # <<>> /\ pend = <<c>> \o <<e>>
      <4>1. Text(c) = SubSeq(f, lo + 1, mid)
        BY <1>i, <1>v
      <4>2. PICK q : Cuts(b \o <<c>>, q, f, Base + cli.received, mid)
        BY <1>m, <2>3, <4>1, CutsAppend
      <4>3. Kinds(b \o <<c>>, "zstd", FALSE, cli.frame)
        BY <1>i, <2>3, <2>f, KindsMore
      <4>4. PICK d \in Seq(Cell) : d = b \o <<c>>
        BY <1>e, ConcatProperties
      <4>5. Cuts(d, q, f, Base + cli.received, mid) /\ Kinds(d, "zstd", FALSE, cli.frame)
        BY <4>2, <4>3, <4>4
      <4>6. \E q1 : Cuts(d \o <<e>>, q1, f, Base + cli.received, mid)
        BY <2>z, <4>5, CutsAppend
      <4>7. Kinds(d \o <<e>>, "zstd", TRUE, cli.frame)
        BY <1>i, <2>f, <4>5, KindsMore
      <4>8. Regrouped(b, <<c>>, <<e>>)
        BY <1>e, Regroup
      <4>9. d \o <<e>> = b \o pend
        BY <3>2, <4>4, <4>8 DEF Regrouped
      <4> QED
        BY <4>6, <4>7, <4>9
    <3> QED
      BY <1>2, <3>1, <3>2
  <2>w. snd'.enc = "zstd" /\ snd'.frameFin = TRUE /\ snd'.file = f /\ snd'.pending = pend
    BY <1>g, <1>17, <1>f
  <2>x. cli'.received = cli.received /\ cli'.frame = cli.frame
    BY <1>g
  <2>5. Holds(b \o snd.pending, q, cli.received, cli.frame)'
    BY <1>20, <1>z, <2>w, <2>x, <2>4 DEF Holds
  <2> QED
    BY <2>2, <2>5
<1>23. <<>> \in Seq(Cell) /\ wire' = wire \o <<>>
  BY <1>0, <1>g, ConcatEmptySeq, EmptySeq DEF TypeInv
<1> QED
  BY <1>1, <1>g, <1>17, <1>19, <1>21, <1>22, <1>23, BodyGrows

LEMMA ZstdInv ==
    ASSUME DownloadInv, send_phase_body_zstd
    PROVE  DownloadInv'
<1>1. /\ at = "body" /\ snd.enc = "zstd" /\ ~body_sent
      /\ UNCHANGED <<remote, seen, req, fin, cli, local>>
  BY DEF send_phase_body_zstd, clientVars
<1>2. CASE /\ snd.pending # <<>> /\ ~fin
           /\ LET out == accepted(snd.pending)
              IN /\ wire' = wire \o out
                 /\ snd' = [snd EXCEPT !.pending = SubSeq(@, Len(out) + 1, Len(@))]
                 /\ at' = after_write(Len(out), Len(snd.pending))
  <2>1. PICK out : /\ out = accepted(snd.pending) /\ wire' = wire \o out
                   /\ snd' = [snd EXCEPT !.pending = SubSeq(@, Len(out) + 1, Len(@))]
                   /\ at' = after_write(Len(out), Len(snd.pending))
    BY <1>2
  <2>2. at' \in {"poll", "body"}
    BY <2>1 DEF after_write
  <2> QED
    BY <1>1, <2>1, <2>2, DrainInv
<1>3. CASE /\ snd.pending = <<>> /\ snd.sent < snd.total
           /\ LET want == least(snd.total - snd.sent, Chunk)
                  chunk == slice(snd.file, snd.pos, want)
              IN snd' \in push([snd EXCEPT !.hash = @ \o chunk, !.sent = @ + want,
                                           !.pos = @ + want], chunk)
           /\ UNCHANGED <<wire, at>>
  <2>1. PICK want, chunk : Pushes(want, chunk)
    BY <1>1, <1>3 DEF Pushes
  <2> QED
    BY <2>1, PushInv
<1>4. CASE /\ snd.pending = <<>> /\ snd.sent = snd.total /\ ~snd.frameFin
           /\ snd' = finish(snd)
           /\ UNCHANGED <<wire, at>>
  BY <1>1, <1>4, FinishInv DEF Finishes
<1> QED
  BY <1>2, <1>3, <1>4 DEF send_phase_body_zstd

\* The cells of a trailer that begins with the first part of it.
LEMMA TrailerGrows ==
    ASSUME NEW t \in Seq(Cell), NEW out \in Seq(Cell), NEW f, NEW n \in Nat, NEW k \in Nat,
           IsTrailer(t, f, n), Len(out) = k,
           \A i \in 1..k : out[i] = cell("data", <<n + i, f>>)
    PROVE  IsTrailer(t \o out, f, n + k)
<1>1. PICK u \in Seq(Cell) : u = t \o out
  BY ConcatProperties
<1>2. Len(t) = n /\ \A j \in 1..n : t[j] = cell("data", <<j, f>>)
  BY DEF IsTrailer
<1>3. Len(u) = n + k /\ \A i \in 1..(n + k) : u[i] = IF i <= n THEN t[i] ELSE out[i - n]
  BY <1>1, <1>2, ConcatProperties, ZenonT(60)
<1>4. ASSUME NEW j \in 1..(n + k) PROVE u[j] = cell("data", <<j, f>>)
  <2>1. CASE j <= n
    BY <1>2, <1>3, <2>1
  <2>2. CASE ~(j <= n)
    <3>1. PICK i \in 1..k : i = j - n /\ n + i = j
      BY <2>2
    <3> QED
      BY <1>3, <2>2, <3>1
  <2> QED
    BY <2>1, <2>2
<1>5. IsTrailer(u, f, n + k)
  BY <1>3, <1>4 DEF IsTrailer
<1> QED
  BY <1>1, <1>5

\* In the trailer phase the hash is that of the whole file.
LEMMA WholeHashed ==
    ASSUME TypeInv, SenderInv, at = "trailer"
    PROVE  snd.hash = snd.file /\ body_sent /\ snd.prefix = 0
<1>1. body_sent /\ snd.prefix = 0
  BY DEF SenderInv
<1>2. snd.sent = snd.total
  BY <1>1 DEF body_sent
<1>3. PICK pos \in Nat : pos = snd.pos
  BY SenderTypes
<1>4. PICK n \in Nat : n = Len(snd.file) /\ Base + snd.sent = n
  BY <1>2, SenderTypes
<1>5. pos + 0 = n
  BY <1>1, <1>3, <1>4 DEF SenderInv
<1>6. snd.hash = SubSeq(snd.file, 1, pos)
  BY <1>3 DEF SenderInv
<1>7. SubSeq(snd.file, 1, Len(snd.file)) = snd.file
  BY SenderTypes, SubSeqFull
<1>8. pos = Len(snd.file)
  BY <1>4, <1>5
<1> QED
  BY <1>1, <1>6, <1>7, <1>8

\* One write of the trailer.
TrailerWrite(cells, left, out) ==
  /\ cells = << cell("data", <<1, snd.hash>>), cell("data", <<2, snd.hash>>) >>
  /\ left = SubSeq(cells, snd.trailerOff + 1, 2)
  /\ out = accepted(left)
  /\ wire' = wire \o out
  /\ snd' = [snd EXCEPT !.trailer = TRUE, !.trailerOff = @ + Len(out),
                        !.st = IF Len(out) = Len(left) THEN "done" ELSE @]
  /\ fin' = (Len(out) = Len(left))

LEMMA TrailerInv ==
    ASSUME DownloadInv, send_phase_trailer
    PROVE  DownloadInv'
<1>0. TypeInv /\ SenderInv /\ StreamInv /\ SeenInv /\ WaitingInv /\ BodyInv
  BY DEF DownloadInv
<1>1. /\ at = "trailer" /\ at' = "poll" /\ remote' = remote /\ seen' = seen /\ req' = req
      /\ cli' = cli /\ local' = local
  BY DEF send_phase_trailer, clientVars
<1>2. PICK cells, left, out : TrailerWrite(cells, left, out)
  BY DEF send_phase_trailer, TrailerWrite
<1>3. snd.hash = snd.file /\ body_sent /\ snd.prefix = 0
  BY <1>0, <1>1, WholeHashed
<1>r. req = NoReq /\ snd.st = "sending"
  BY <1>0, <1>1 DEF SenderInv
<1>f. PICK f \in Seq(Blocks) : f = snd.file
  BY <1>0, SenderTypes
<1>n. PICK n \in 0..2 : n = snd.trailerOff
  <2>1. snd.trailerOff \in Nat /\ snd.trailerOff <= 2
    BY <1>0, SenderTypes DEF SenderInv
  <2> QED
    BY <2>1
<1>4. cells = << cell("data", <<1, f>>), cell("data", <<2, f>>) >>
  BY <1>2, <1>3, <1>f DEF TrailerWrite
<1>5. cells \in Seq(Cell) /\ Len(cells) = 2 /\ \A i \in 1..2 : cells[i] = cell("data", <<i, f>>)
  <2>1. <<1, f>> \in Payload /\ <<2, f>> \in Payload
    BY DEF Payload
  <2>2. cell("data", <<1, f>>) \in Cell /\ cell("data", <<2, f>>) \in Cell
    BY <2>1 DEF cell, Cell
  <2>3. \A i \in 1..2 : i = 1 \/ i = 2
    OBVIOUS
  <2> QED
    BY <1>4, <2>2, <2>3
<1>6. left \in Seq(Cell) /\ Len(left) = 2 - n /\ \A i \in 1..(2 - n) : left[i] = cells[n + i]
  <2>1. left = SubSeq(cells, n + 1, Len(cells)) /\ n \in 0..Len(cells)
    BY <1>2, <1>5, <1>n DEF TrailerWrite
  <2>2. left \in Seq(Cell) /\ Len(left) = Len(cells) - n
        /\ \A i \in 1..(Len(cells) - n) : left[i] = cells[n + i]
    BY <1>5, <2>1, Split, ZenonT(60)
  <2> QED
    BY <1>5, <2>2
<1>7. PICK k \in 0..(2 - n) : out = SubSeq(left, 1, k) /\ Len(out) = k
  <2>1. Len(wire) \in Nat
    BY <1>0, LenProperties DEF TypeInv
  <2>2. out = accepted(left)
    BY <1>2 DEF TrailerWrite
  <2>3. \E k \in 0..Len(left) : out = SubSeq(left, 1, k) /\ Len(out) = k
    BY <1>6, <2>1, <2>2, Accepted
  <2> QED
    BY <1>6, <2>3
<1>8. out \in Seq(Cell) /\ \A i \in 1..k : out[i] = cell("data", <<n + i, f>>)
  <2>1. k \in 0..Len(left)
    BY <1>6
  <2>2. out \in Seq(Cell) /\ \A i \in 1..k : out[i] = left[i]
    BY <1>6, <1>7, <2>1, Split
  <2>3. \A i \in 1..k : i \in 1..(2 - n) /\ n + i \in 1..2
    OBVIOUS
  <2> QED
    BY <1>5, <1>6, <2>2, <2>3
<1>m. PICK m \in 0..2 : m = n + k
  OBVIOUS
<1>9. PICK st \in {"sending", "done"} :
        snd' = [snd EXCEPT !.trailer = TRUE, !.trailerOff = m, !.st = st]
  <2>1. snd' = [snd EXCEPT !.trailer = TRUE, !.trailerOff = m,
                           !.st = IF Len(out) = Len(left) THEN "done" ELSE @]
    BY <1>2, <1>7, <1>m, <1>n DEF TrailerWrite
  <2> QED
    BY <2>1, <1>r
<1>15. snd \in Sender
  BY <1>0 DEF TypeInv
<1>16. snd' \in Sender
  <2>1. m \in Nat
    OBVIOUS
  <2>2. st \in {"none", "sending", "done"}
    OBVIOUS
  <2> QED
    BY <1>9, <1>15, <2>1, <2>2 DEF Sender
<1>17. /\ snd'.hash = snd.hash /\ snd'.pos = snd.pos /\ snd'.prefix = snd.prefix
       /\ snd'.st = st /\ snd'.file = snd.file /\ snd'.total = snd.total
       /\ snd'.sent = snd.sent /\ snd'.enc = snd.enc /\ snd'.buffered = snd.buffered
       /\ snd'.pending = snd.pending /\ snd'.frameFin = snd.frameFin
       /\ snd'.trailerOff = m
  BY <1>9, <1>15 DEF Sender
<1>w. wire \in Seq(Cell) /\ wire' = wire \o out
  BY <1>0, <1>2 DEF TypeInv, TrailerWrite
<1>19. TypeInv'
  <2>1. wire' \in Seq(Cell)
    BY <1>8, <1>w, ConcatProperties
  <2>2. fin' \in BOOLEAN
    BY <1>2 DEF TrailerWrite
  <2> QED
    BY <1>0, <1>1, <1>16, <2>1, <2>2 DEF TypeInv
<1>20. Base' = Base /\ body_sent' = body_sent
  BY <1>17 DEF Base, body_sent
<1>21. SenderInv'
  <2>1. snd'.trailerOff <= 2 /\ snd'.prefix = 0 /\ body_sent' /\ at' = "poll"
    BY <1>1, <1>3, <1>17, <1>20
  <2> QED
    BY <1>0, <1>17, <1>20, <2>1 DEF SenderInv
<1>22. StreamInv'
  <2>1. SUFFICES ASSUME busy' PROVE (\E body, tail \in Seq(Cell) : \E p : Stream(body, tail, p))'
    BY DEF StreamInv
  <2>2. busy
    BY <1>1, <2>1 DEF busy
  <2>3. PICK body, tail \in Seq(Cell) : \E p : Stream(body, tail, p)
    BY <1>0, <1>r, <2>2 DEF StreamInv
  <2>4. PICK p : Stream(body, tail, p)
    BY <2>3
  <2>t. cli.trailer \in Seq(Cell) /\ cli.buf \in Seq(Cell)
    BY <1>0 DEF TypeInv, Getter
  <2>7. \A resp : Describes(resp) => Describes(resp)'
    <3>1. ASSUME NEW resp, Describes(resp) PROVE resp.ok
      BY <3>1, <1>r DEF Describes
    <3> QED
      BY <3>1, <1>17 DEF Describes
  <2>8. PICK s \in Seq(Cell) : s = body \o tail /\ Unread(s)
    BY <2>4, ConcatProperties DEF Stream
  <2>9. Unread(s \o out)'
    BY <1>1, <1>8, <1>w, <2>7, <2>8, <2>t, UnreadGrows
  <2>10. PICK end \in Seq(Cell) : end = tail \o out
    BY <1>8, ConcatProperties
  <2>11. Regrouped(body, tail, out)
    BY <1>8, Regroup
  <2>12. s \o out = body \o end
    BY <2>8, <2>10, <2>11 DEF Regrouped
  <2>13. Unread(body \o end)'
    BY <2>9, <2>12
  <2>14. Holds(body \o snd.pending, p, cli.received, cli.frame)'
    BY <1>1, <1>17, <1>20, <2>4 DEF Stream, Holds
  <2>15. PICK t \in Seq(Cell) : t = cli.trailer
    BY <2>t
  <2>16. PICK u \in Seq(Cell) : u = t \o tail
    BY ConcatProperties
  <2>17. IsTrailer(u, f, n)
    BY <1>f, <1>n, <2>4, <2>15, <2>16 DEF Stream
  <2>18. IsTrailer(u \o out, f, n + k)
    <3>1. n \in Nat /\ k \in Nat
      OBVIOUS
    <3> QED
      BY <1>7, <1>8, <2>17, <3>1, TrailerGrows
  <2>19. Regrouped(t, tail, out)
    BY <1>8, Regroup
  <2>20. u \o out = t \o end
    BY <2>10, <2>16, <2>19 DEF Regrouped
  <2>21. IsTrailer(cli.trailer \o end, snd.file, snd.trailerOff)'
    BY <1>1, <1>17, <1>f, <1>m, <2>15, <2>18, <2>20
  <2>22. Stream(body, end, p)'
    BY <2>13, <2>14, <2>21 DEF Stream
  <2> QED
    BY <2>22
<1>23. SeenInv'
  BY <1>0, <1>1, <1>17, <1>r DEF SeenInv, busy
<1>24. WaitingInv' /\ BodyInv'
  BY <1>0, <1>1, <1>17, <1>20 DEF WaitingInv, BodyInv, Progress
<1> QED
  BY <1>19, <1>21, <1>22, <1>23, <1>24 DEF DownloadInv

-----------------------------------------------------------------------------
(***************************************************************************)
(* Steps of the client.                                                    *)
(***************************************************************************)

\* Reading the first n cells moves them from the stream to the buffer.
LEMMA IncompleteInv ==
    ASSUME DownloadInv, recv_message_incomplete
    PROVE  DownloadInv'
<1>0. TypeInv /\ SenderInv /\ StreamInv /\ SeenInv /\ WaitingInv /\ BodyInv
  BY DEF DownloadInv
<1>1. /\ cli.st = "waiting" /\ remote' = remote /\ seen' = seen /\ snd' = snd /\ at' = at
      /\ req' = req /\ fin' = fin /\ local' = local
  BY DEF recv_message_incomplete, serverVars
<1>2. PICK d \in delivered :
        /\ Len(cli.buf) + d[1] < 2
        /\ cli' = [cli EXCEPT !.buf = @ \o SubSeq(wire, 1, d[1]), !.fin = d[2]]
        /\ wire' = SubSeq(wire, d[1] + 1, Len(wire))
  BY DEF recv_message_incomplete
<1>w. PICK w \in Seq(Cell) : w = wire
  BY <1>0 DEF TypeInv
<1>b. PICK b \in Seq(Cell) : b = cli.buf
  BY <1>0 DEF TypeInv, Getter
<1>3. PICK n \in 0..Len(w), x \in BOOLEAN : n = d[1] /\ x = d[2]
  BY <1>w DEF delivered
<1>4. PICK first \in Seq(Cell) : first = SubSeq(w, 1, n) /\ Len(first) = n
  <2>1. SubSeq(w, 1, n) \in Seq(Cell) /\ Len(SubSeq(w, 1, n)) = n
    BY Split
  <2> QED
    BY <2>1
<1>5. PICK rest \in Seq(Cell) : rest = SubSeq(w, n + 1, Len(w)) /\ Len(rest) = Len(w) - n
  BY Split
<1>6. first \o rest = w
  BY <1>4, <1>5, Split
<1>7. PICK buf \in Seq(Cell) : buf = b \o first /\ Len(buf) = Len(b) + n
  <2>1. b \o first \in Seq(Cell) /\ Len(b \o first) = Len(b) + Len(first)
    BY ConcatProperties
  <2> QED
    BY <1>4, <2>1
<1>8. cli' = [cli EXCEPT !.buf = buf, !.fin = x] /\ wire' = rest
  BY <1>2, <1>3, <1>4, <1>5, <1>7, <1>w, <1>b
<1>9. cli \in Getter
  BY <1>0 DEF TypeInv
<1>10. cli' \in Getter
  BY <1>8, <1>9 DEF Getter
<1>11. /\ cli'.st = cli.st /\ cli'.offset = cli.offset /\ cli'.retried = cli.retried
       /\ cli'.received = cli.received /\ cli'.frame = cli.frame /\ cli'.trailer = cli.trailer
       /\ cli'.buf = buf
  BY <1>8, <1>9 DEF Getter
<1>12. TypeInv'
  BY <1>0, <1>1, <1>8, <1>10 DEF TypeInv
<1>13. Base' = Base /\ body_sent' = body_sent
  BY <1>1 DEF Base, body_sent
<1>14. SenderInv'
  BY <1>0, <1>1, <1>13 DEF SenderInv
<1>15. buf \o rest = b \o w
  <2>1. Regrouped(b, first, rest)
    BY Regroup
  <2> QED
    BY <1>6, <1>7, <2>1 DEF Regrouped
<1>16. StreamInv'
  <2>1. SUFFICES ASSUME req' = NoReq
                 PROVE  (\E body, tail \in Seq(Cell) : \E p : Stream(body, tail, p))'
    BY DEF StreamInv
  <2>2. busy /\ req = NoReq
    BY <1>1, <2>1 DEF busy
  <2>3. PICK body, tail \in Seq(Cell) : \E p : Stream(body, tail, p)
    BY <1>0, <2>2 DEF StreamInv
  <2>4. PICK p : Stream(body, tail, p)
    BY <2>3
  <2>5. PICK resp : Describes(resp) /\ cli.buf \o wire = framed(resp) \o (body \o tail)
    BY <1>1, <2>4 DEF Stream, Unread
  <2>6. Describes(resp)'
    BY <1>1, <2>5 DEF Describes
  <2>7. cli'.buf \o wire' = framed(resp) \o (body \o tail)
    BY <1>8, <1>11, <1>15, <1>w, <1>b, <2>5
  <2>8. Unread(body \o tail)'
    BY <1>1, <1>11, <2>6, <2>7 DEF Unread
  <2>9. Holds(body \o snd.pending, p, cli.received, cli.frame)'
    BY <1>1, <1>11, <1>13, <2>4 DEF Stream, Holds
  <2>10. IsTrailer(cli.trailer \o tail, snd.file, snd.trailerOff)'
    BY <1>1, <1>11, <2>4 DEF Stream
  <2>11. Stream(body, tail, p)'
    BY <2>8, <2>9, <2>10 DEF Stream
  <2> QED
    BY <2>11
<1>17. SeenInv'
  <2>1. ASSUME req # NoReq PROVE wire' = <<>> /\ cli'.buf = <<>>
    <3>1. w = <<>> /\ b = <<>>
      BY <1>0, <1>w, <1>b, <2>1 DEF SeenInv
    <3>2. Len(w) = 0 /\ Len(b) = 0
      BY <3>1, EmptySeq
    <3>3. n = 0 /\ Len(rest) = 0 /\ Len(buf) = 0
      BY <1>5, <1>7, <3>2
    <3> QED
      BY <1>8, <1>11, <3>3, EmptySeq
  <2> QED
    BY <1>0, <1>1, <1>11, <2>1 DEF SeenInv, busy
<1>18. WaitingInv'
  <2>1. Len(b) \in Nat /\ n \in Nat /\ Len(b) + n < 2
    BY <1>2, <1>3, <1>b, LenProperties
  <2>2. Len(buf) <= 1
    BY <1>7, <2>1
  <2> QED
    BY <1>0, <1>1, <1>11, <2>2 DEF WaitingInv, length
<1>19. BodyInv'
  BY <1>1, <1>11 DEF BodyInv
<1> QED
  BY <1>12, <1>14, <1>16, <1>17, <1>18, <1>19 DEF DownloadInv

SecondSplit(s, t, m) ==
  /\ Len(s \o t) = Len(s) + Len(t)
  /\ SubSeq(s \o t, 1, Len(s) + m) = s \o SubSeq(t, 1, m)
  /\ SubSeq(s \o t, Len(s) + m + 1, Len(s \o t)) = SubSeq(t, m + 1, Len(t))

LEMMA SplitSecondAs ==
    ASSUME NEW S, NEW s \in Seq(S), NEW t \in Seq(S), NEW m \in 0..Len(t)
    PROVE  SecondSplit(s, t, m)
BY SplitSecond DEF SecondSplit

\* The stream's first two cells are the response, and the others the body and the trailer.
FrameSplit(R, s, n, m) ==
  /\ (cli.buf \o SubSeq(wire, 1, n))[1].v[2] = R
  /\ SubSeq(cli.buf \o SubSeq(wire, 1, n), 3, Len(cli.buf \o SubSeq(wire, 1, n))) = SubSeq(s, 1, m)
  /\ SubSeq(wire, n + 1, Len(wire)) = SubSeq(s, m + 1, Len(s))

Framed(R, s) == cli.buf \o wire = framed(R) \o s

LEMMA FrameRead ==
    ASSUME TypeInv, NEW R \in Response, NEW s \in Seq(Cell), Framed(R, s),
           NEW n \in 0..Len(wire), Len(cli.buf) + n >= 2
    PROVE  \E m \in 0..Len(s) : FrameSplit(R, s, n, m)
<1>w. PICK w \in Seq(Cell) : w = wire
  BY DEF TypeInv
<1>b. PICK b \in Seq(Cell) : b = cli.buf
  BY DEF TypeInv, Getter
<1>f. PICK f \in Seq(Cell) : f = framed(R) /\ Len(f) = 2
  BY FramedCells
<1>g. f[1].v[2] = R
  BY <1>f DEF framed, cell
<1>i. PICK i \in Nat : i = Len(b)
  BY LenProperties
<1>j. PICK j \in Nat : j = Len(w)
  BY LenProperties
<1>k. PICK k \in Nat : k = Len(s)
  BY LenProperties
<1>n. n \in 0..j /\ n \in 0..Len(w) /\ i + n >= 2
  BY <1>w, <1>j, <1>b, <1>i
<1>1. PICK u \in Seq(Cell) : u = b \o w /\ u = f \o s
  <2>1. b \o w \in Seq(Cell) /\ b \o w = f \o s
    BY <1>w, <1>b, <1>f, ConcatProperties DEF Framed
  <2> QED
    BY <2>1
<1>2. i + j = 2 + k
  <2>1. Len(u) = Len(b) + Len(w) /\ Len(u) = Len(f) + Len(s)
    <3>1. Len(b \o w) = Len(b) + Len(w) /\ Len(f \o s) = Len(f) + Len(s)
      BY ConcatProperties
    <3> QED
      BY <1>1, <3>1, Zenon
  <2> QED
    BY <1>f, <1>i, <1>j, <1>k, <2>1
<1>3. PICK m \in 0..k : i + n = 2 + m
  <2>1. i + n - 2 \in 0..k /\ i + n = 2 + (i + n - 2)
    BY <1>2, <1>n
  <2> QED
    BY <2>1
<1>4. /\ SubSeq(u, 1, i + n) = b \o SubSeq(w, 1, n)
      /\ SubSeq(u, i + n + 1, Len(u)) = SubSeq(w, n + 1, Len(w))
  <2>1. SecondSplit(b, w, n)
    BY <1>n, SplitSecondAs
  <2> QED
    BY <1>1, <1>i, <2>1, Zenon DEF SecondSplit
<1>5. /\ SubSeq(u, 1, 2 + m) = f \o SubSeq(s, 1, m)
      /\ SubSeq(u, 2 + m + 1, Len(u)) = SubSeq(s, m + 1, Len(s))
  <2>1. m \in 0..Len(s)
    BY <1>k
  <2>2. SecondSplit(f, s, m)
    BY <2>1, SplitSecondAs
  <2> QED
    BY <1>1, <1>f, <2>2, Zenon DEF SecondSplit
<1>6. PICK x \in Seq(Cell) : x = SubSeq(s, 1, m)
  BY <1>k, Split
<1>7. b \o SubSeq(w, 1, n) = f \o x
  BY <1>3, <1>4, <1>5, <1>6
<1>8. SubSeq(w, n + 1, Len(w)) = SubSeq(s, m + 1, Len(s))
  BY <1>3, <1>4, <1>5
<1>9. PICK y \in Seq(Cell) : y = f \o x
  BY ConcatProperties
<1>10. y[1] = f[1]
  <2>1. \A o \in 1..Len(f) : y[o] = f[o]
    BY <1>9, Joined
  <2>2. 1 \in 1..Len(f)
    BY <1>f
  <2> QED
    BY <2>1, <2>2
<1>11. SubSeq(y, 3, Len(y)) = x
  <2>1. 0 \in 0..Len(x)
    BY LenProperties
  <2>2. SubSeq(f \o x, Len(f) + 0 + 1, Len(f \o x)) = SubSeq(x, 0 + 1, Len(x))
    <3>1. SecondSplit(f, x, 0)
      BY <2>1, SplitSecondAs
    <3> QED
      BY <3>1, Zenon DEF SecondSplit
  <2>3. Len(f) + 0 + 1 = 3 /\ 0 + 1 = 1
    BY <1>f
  <2>4. SubSeq(x, 1, Len(x)) = x
    BY SubSeqFull
  <2> QED
    BY <1>9, <2>2, <2>3, <2>4
<1>12. b \o SubSeq(w, 1, n) = y
  BY <1>7, <1>9
<1>13. FrameSplit(R, s, n, m)
  BY <1>6, <1>8, <1>10, <1>11, <1>12, <1>g, <1>w, <1>b DEF FrameSplit
<1> QED
  BY <1>13, <1>k

LEMMA EndOfText ==
    ASSUME NEW o \in Nat, NEW r \in Nat, NEW l \in Nat
    PROVE  \E hi \in Nat : hi = (o + r) + l /\ hi = o + (r + l)
OBVIOUS

\* The text that follows the first r blocks of the body makes the local file longer.
LEMMA ProgressGrows ==
    ASSUME TypeInv, SenderInv, NEW c \in Getter, NEW path \in Seq(Blocks), Progress(c, path),
           NEW text \in Seq(Blocks), NEW n \in Nat, n = c.received + Len(text), n <= snd.sent,
           text = SubSeq(snd.file, Base + c.received + 1, Base + c.received + Len(text)),
           NEW d, d.size = c.size, d.enc = c.enc, d.offset = c.offset, d.received = n,
           NEW new, new = path \o text, d.hash = new
    PROVE  Progress(d, new)
<1>f. PICK f \in Seq(Blocks) : f = snd.file
  BY SenderTypes
<1>o. PICK o \in Nat : o = Base
  BY SenderTypes
<1>r. PICK r \in Nat : r = c.received
  BY DEF Getter
<1>l. PICK l \in Nat : l = Len(text) /\ n = r + l
  BY <1>r, LenProperties
<1>1. /\ c.size = snd.total /\ c.enc = snd.enc /\ c.offset = o
      /\ path = c.hash /\ Len(path) = o + r
      /\ \A i \in 1..r : path[o + i] = f[o + i]
  BY <1>f, <1>o, <1>r DEF Progress
<1>2. PICK lo \in Nat : lo = o + r
  OBVIOUS
<1>3. PICK hi \in Nat : hi = lo + l /\ hi = o + n
  <2>1. \E hi \in Nat : hi = (o + r) + l /\ hi = o + (r + l)
    BY EndOfText
  <2> QED
    BY <1>2, <1>l, <2>1, Zenon
<1>4. hi <= Len(f) /\ n <= snd.total
  <2>1. Base + snd.total = Len(f) /\ snd.total \in Nat /\ snd.sent \in Nat
    BY <1>f, SenderTypes
  <2>2. snd.sent <= snd.total
    BY DEF SenderInv
  <2>3. n <= snd.total
    BY <2>1, <2>2
  <2>4. PICK x \in Nat : x = snd.total
    BY <2>1
  <2>5. o + x = Len(f) /\ n <= x
    BY <1>o, <2>1, <2>3, <2>4
  <2> QED
    BY <1>3, <2>3, <2>5
<1>5. text = SubSeq(f, lo + 1, hi)
  BY <1>f, <1>o, <1>r, <1>l, <1>2, <1>3
<1>6. \A i \in 1..l : text[i] = f[lo + i]
  <2>1. lo <= hi /\ hi - lo = l
    BY <1>3
  <2>2. \A i \in 1..(hi - lo) : SubSeq(f, lo + 1, hi)[i] = f[lo + i]
    BY <1>4, <2>1, Stretch, SMTT(60)
  <2> QED
    BY <1>5, <2>1, <2>2
<1>7. /\ Len(new) = lo + l /\ (\A i \in 1..lo : new[i] = path[i])
      /\ \A i \in 1..l : new[lo + i] = text[i]
  <2>1. /\ Len(new) = Len(path) + Len(text) /\ (\A i \in 1..Len(path) : new[i] = path[i])
        /\ \A i \in 1..Len(text) : new[Len(path) + i] = text[i]
    BY Joined
  <2>2. Len(path) = lo /\ Len(text) = l
    BY <1>1, <1>2, <1>l
  <2> QED
    BY <2>1, <2>2, Zenon
<1>8. ASSUME NEW i \in 1..n PROVE new[o + i] = f[o + i]
  <2>1. CASE i <= r
    <3>1. i \in 1..r /\ o + i \in 1..lo
      BY <1>2, <2>1
    <3> QED
      BY <1>1, <1>7, <3>1
  <2>2. CASE ~(i <= r)
    <3>1. PICK j \in 1..l : j = i - r
      BY <1>l, <2>2
    <3>2. o + i = lo + j
      BY <1>2, <3>1
    <3>3. new[lo + j] = f[lo + j]
      BY <1>6, <1>7
    <3> QED
      BY <3>2, <3>3
  <2> QED
    BY <2>1, <2>2
<1>9. Len(new) = o + n
  BY <1>3, <1>7
<1> QED
  BY <1>1, <1>4, <1>8, <1>9, <1>f, <1>o, ZenonT(60) DEF Progress

\* What lies at the path, as contents.
Kept == IF local = NoFile THEN <<>> ELSE local

\* A read adds to the file at the path, or ends the get because the stream ended early.
ReadEnds ==
  \/ cli'.st = "failed" /\ cli'.fin /\ local' = NoFile
  \/ cli'.st = "body" /\ \E text \in Seq(Blocks) : local' = Kept \o text

\* The client after one read.
LEMMA AfterRead ==
    ASSUME TypeInv, SenderInv, SeenInv, busy, req = NoReq,
           UNCHANGED <<remote, seen, snd, at, req, fin>>,
           NEW c \in Getter, NEW path \in Seq(Blocks), c.st = "body", Progress(c, path),
           NEW cells, NEW text, NEW frame, NEW t, NEW left, NEW end, NEW q,
           TakenAs(c, path, cells, wire', text, frame, t, left, end, q),
           after_read(accept_download_bytes(c, path, cells)), path = Kept
    PROVE  DownloadInv' /\ ReadEnds
<1>1. /\ text \in Seq(Blocks) /\ frame \in BOOLEAN /\ t \in Seq(Cell)
      /\ left \in Seq(Cell) /\ end \in Seq(Cell)
      /\ text = SubSeq(snd.file, Base + c.received + 1, Base + c.received + Len(text))
      /\ wire' = left \o end
      /\ IsTrailer(t \o end, snd.file, snd.trailerOff)
  BY Zenon DEF TakenAs
<1>2. PICK n \in Nat : n = c.received + Len(text)
  <2>1. c.received \in Nat /\ Len(text) \in Nat
    BY <1>1, LenProperties DEF Getter
  <2> QED
    BY <2>1
<1>3. n <= snd.sent /\ Holds(left \o snd.pending, q, n, frame)
  BY <1>2, Zenon DEF TakenAs
<1>4. PICK new \in Seq(Blocks) : new = path \o text
  BY <1>1, ConcatProperties
<1>5. path = c.hash
  BY DEF Progress
<1>6. PICK e : e = [c EXCEPT !.received = n, !.frame = frame, !.hash = new, !.trailer = t]
  OBVIOUS
<1>7. accept_download_bytes(c, path, cells) = [c |-> e, path |-> new]
  BY <1>2, <1>4, <1>5, <1>6 DEF TakenAs
<1>8. e \in Getter /\ e.st = "body"
  BY <1>1, <1>6 DEF Getter
<1>9. PICK st \in {"body", "failed"} :
        /\ cli' = [e EXCEPT !.st = st] /\ local' = IF st = "failed" THEN NoFile ELSE new
        /\ st = "failed" => e.fin
  <2>1. after_read([c |-> e, path |-> new])
    BY <1>7
  <2>2. CASE e.fin /\ ~satisfied(e)
    <3>1. cli' = [e EXCEPT !.st = "failed"] /\ local' = NoFile
      BY <2>1, <2>2 DEF after_read
    <3> QED
      BY <2>2, <3>1
  <2>3. CASE ~(e.fin /\ ~satisfied(e))
    <3>1. cli' = [e EXCEPT !.st = "body"] /\ local' = new
      BY <1>8, <2>1, <2>3 DEF after_read
    <3> QED
      BY <3>1
  <2> QED
    BY <2>2, <2>3
<1>10. /\ cli' \in Getter /\ cli'.st = st /\ cli'.received = n /\ cli'.frame = frame
       /\ cli'.hash = new /\ cli'.trailer = t /\ cli'.size = c.size /\ cli'.enc = c.enc
       /\ cli'.offset = c.offset
  BY <1>1, <1>6, <1>8, <1>9 DEF Getter
<1>11. TypeInv'
  <2>1. wire' \in Seq(Cell)
    BY <1>1, ConcatProperties
  <2> QED
    BY <1>9, <1>10, <2>1 DEF TypeInv
<1>12. Base' = Base /\ body_sent' = body_sent
  BY DEF Base, body_sent
<1>13. SenderInv'
  BY <1>12 DEF SenderInv
<1>14. StreamInv'
  <2>1. CASE st = "failed"
    BY <1>10, <2>1 DEF StreamInv, busy
  <2>2. CASE st = "body"
    <3>1. Unread(left \o end)'
      BY <1>1, <1>10, <2>2 DEF Unread
    <3>2. Holds(left \o snd.pending, q, cli.received, cli.frame)'
      BY <1>3, <1>10, <1>12 DEF Holds
    <3>3. IsTrailer(cli.trailer \o end, snd.file, snd.trailerOff)'
      BY <1>1, <1>10
    <3>4. Stream(left, end, q)'
      BY <3>1, <3>2, <3>3 DEF Stream
    <3> QED
      BY <1>1, <3>4 DEF StreamInv
  <2> QED
    BY <2>1, <2>2
<1>15. SeenInv' /\ WaitingInv'
  BY <1>10 DEF SeenInv, WaitingInv
<1>16. BodyInv'
  <2>1. SUFFICES ASSUME st = "body" PROVE Progress(cli, local)'
    BY <1>10 DEF BodyInv
  <2>2. PICK d : d = cli'
    OBVIOUS
  <2>3. d.size = c.size /\ d.enc = c.enc /\ d.offset = c.offset /\ d.received = n /\ d.hash = new
    BY <1>10, <2>2
  <2>4. Progress(d, new)
    BY <1>1, <1>2, <1>3, <1>4, <2>3, ProgressGrows
  <2>5. local' = new
    BY <1>9, <2>1
  <2> QED
    BY <1>12, <2>2, <2>4, <2>5 DEF Progress
<1>17. ReadEnds
  <2>1. CASE st = "failed"
    <3>1. cli'.fin = e.fin
      BY <1>8, <1>9 DEF Getter
    <3> QED
      BY <1>9, <1>10, <2>1, <3>1 DEF ReadEnds
  <2>2. CASE st = "body"
    <3>1. local' = Kept \o text
      BY <1>4, <1>9, <2>2
    <3> QED
      BY <1>1, <1>10, <2>2, <3>1 DEF ReadEnds
  <2> QED
    BY <2>1, <2>2
<1> QED
  BY <1>11, <1>13, <1>14, <1>15, <1>16, <1>17 DEF DownloadInv

\* The download loop reads some cells.
LEMMA RecvInv ==
    ASSUME DownloadInv, do_get_recv
    PROVE  DownloadInv' /\ ReadEnds
<1>0. TypeInv /\ SenderInv /\ StreamInv /\ SeenInv /\ WaitingInv /\ BodyInv
  BY DEF DownloadInv
<1>1. cli.st = "body" /\ UNCHANGED <<remote, seen, snd, at, req, fin>>
  BY DEF do_get_recv, serverVars
<1>2. PICK d \in delivered :
        /\ after_read(accept_download_bytes([cli EXCEPT !.fin = d[2]], local,
                                            SubSeq(wire, 1, d[1])))
        /\ wire' = SubSeq(wire, d[1] + 1, Len(wire))
  BY DEF do_get_recv
<1>3. PICK n \in 0..Len(wire), x \in BOOLEAN : n = d[1] /\ x = d[2]
  BY DEF delivered
<1>4. busy /\ req = NoReq
  BY <1>0, <1>1 DEF SeenInv, busy
<1>5. Progress(cli, local)
  BY <1>0, <1>1 DEF BodyInv
<1>6. PICK c : c = [cli EXCEPT !.fin = x]
  OBVIOUS
<1>7. c \in Getter /\ c.st = "body" /\ c.size = cli.size /\ c.enc = cli.enc
      /\ c.offset = cli.offset /\ c.received = cli.received /\ c.frame = cli.frame
      /\ c.hash = cli.hash /\ c.trailer = cli.trailer
  <2>1. cli \in Getter
    BY <1>0 DEF TypeInv
  <2> QED
    BY <1>1, <1>6, <2>1 DEF Getter
<1>8. PICK path \in Seq(Blocks) : path = local
  <2>1. cli.hash \in Seq(Blocks)
    BY <1>0 DEF TypeInv, Getter
  <2> QED
    BY <1>5, <2>1 DEF Progress
<1>9. Progress(c, path)
  BY <1>5, <1>7, <1>8 DEF Progress
<1>10. PICK body, tail \in Seq(Cell) : \E p : Stream(body, tail, p)
  BY <1>0, <1>4 DEF StreamInv
<1>11. PICK p : Stream(body, tail, p)
  BY <1>10
<1>12. PICK s : s = wire /\ s = body \o tail
  BY <1>1, <1>11 DEF Stream, Unread
<1>13. /\ Holds(body \o snd.pending, p, c.received, c.frame)
       /\ IsTrailer(c.trailer \o tail, snd.file, snd.trailerOff)
  BY <1>7, <1>11 DEF Stream
<1>14. c.enc = snd.enc /\ c.size = snd.total
  BY <1>9 DEF Progress
<1>15. n \in 0..Len(s)
  BY <1>12
<1>16. \E text, frame, t, left, end, q :
         TakenAs(c, path, SubSeq(s, 1, n), SubSeq(s, n + 1, Len(s)), text, frame, t, left, end, q)
  BY <1>0, <1>7, <1>12, <1>13, <1>14, <1>15, Taken
<1>17. PICK text, frame, t, left, end, q :
         TakenAs(c, path, SubSeq(s, 1, n), wire', text, frame, t, left, end, q)
  BY <1>2, <1>3, <1>12, <1>16
<1>18. after_read(accept_download_bytes(c, path, SubSeq(s, 1, n)))
  BY <1>2, <1>3, <1>6, <1>8, <1>12
<1>19. path = Kept
  BY <1>8, DownloadAssumption DEF Kept
<1> QED
  BY <1>0, <1>1, <1>4, <1>7, <1>9, <1>17, <1>18, <1>19, AfterRead

\* A response that has arrived, and what is left of the stream after it.
Answered(r, s, body, tail, p, m) ==
  /\ cli.st = "waiting" /\ req = NoReq /\ r.d[2] \in BOOLEAN
  /\ Describes(r.resp)
  /\ body \in Seq(Cell) /\ tail \in Seq(Cell) /\ s = body \o tail /\ m \in 0..Len(s)
  /\ r.carryover = SubSeq(s, 1, m)
  /\ SubSeq(wire, r.d[1] + 1, Len(wire)) = SubSeq(s, m + 1, Len(s))
  /\ Holds(body \o snd.pending, p, cli.received, cli.frame)
  /\ IsTrailer(cli.trailer \o tail, snd.file, snd.trailerOff)

LEMMA ResponseRead ==
    ASSUME DownloadInv, NEW r \in response
    PROVE  \E s, body, tail, p, m : Answered(r, s, body, tail, p, m)
<1>0. TypeInv /\ SenderInv /\ StreamInv /\ SeenInv /\ WaitingInv /\ BodyInv
  BY DEF DownloadInv
<1>1. PICK d \in delivered :
        /\ cli.st = "waiting" /\ Len(cli.buf \o SubSeq(wire, 1, d[1])) >= 2
        /\ r = [resp |-> (cli.buf \o SubSeq(wire, 1, d[1]))[1].v[2],
                carryover |-> SubSeq(cli.buf \o SubSeq(wire, 1, d[1]), 3,
                                     Len(cli.buf \o SubSeq(wire, 1, d[1]))),
                d |-> d]
  BY DEF response
<1>2. PICK n \in 0..Len(wire), x \in BOOLEAN : n = d[1] /\ x = d[2]
  BY DEF delivered
<1>w. PICK w \in Seq(Cell) : w = wire
  BY <1>0 DEF TypeInv
<1>b. PICK b \in Seq(Cell) : b = cli.buf
  BY <1>0 DEF TypeInv, Getter
<1>3. Len(b) + n >= 2
  <2>0. n \in 0..Len(w)
    BY <1>w
  <2>1. PICK first \in Seq(Cell) : first = SubSeq(w, 1, n)
    BY <2>0, Split
  <2>2. Len(first) = n
    BY <2>0, <2>1, Split
  <2>3. Len(b \o first) = Len(b) + Len(first)
    BY ConcatProperties
  <2>4. Len(b \o first) >= 2
    BY <1>1, <1>2, <1>w, <1>b, <2>1
  <2> QED
    BY <2>2, <2>3, <2>4
<1>4. req = NoReq
  <2>1. SUFFICES ASSUME req # NoReq PROVE FALSE
    OBVIOUS
  <2>2. wire = <<>> /\ b = <<>>
    BY <1>0, <1>b, <2>1 DEF SeenInv
  <2>3. Len(wire) = 0 /\ Len(b) = 0
    BY <2>2, EmptySeq
  <2> QED
    BY <1>3, <2>3
<1>5. busy
  BY <1>1 DEF busy
<1>6. PICK body, tail \in Seq(Cell) : \E p : Stream(body, tail, p)
  BY <1>0, <1>4, <1>5 DEF StreamInv
<1>7. PICK p : Stream(body, tail, p)
  BY <1>6
<1>8. PICK s \in Seq(Cell) : s = body \o tail
  BY ConcatProperties
<1>9. PICK R : Describes(R) /\ Framed(R, s)
  BY <1>1, <1>7, <1>8 DEF Stream, Unread, Framed
<1>10. R \in Response /\ Len(cli.buf) + n >= 2
  BY <1>3, <1>9, <1>b DEF Describes
<1>11. PICK m \in 0..Len(s) : FrameSplit(R, s, n, m)
  BY <1>0, <1>9, <1>10, FrameRead
<1>12. r.resp = R /\ r.carryover = SubSeq(s, 1, m)
       /\ SubSeq(wire, r.d[1] + 1, Len(wire)) = SubSeq(s, m + 1, Len(s))
  BY <1>1, <1>2, <1>11 DEF FrameSplit
<1>13. r.d[2] \in BOOLEAN
  BY <1>1, <1>2
<1>14. /\ Holds(body \o snd.pending, p, cli.received, cli.frame)
       /\ IsTrailer(cli.trailer \o tail, snd.file, snd.trailerOff)
  BY <1>7 DEF Stream
<1>15. Answered(r, s, body, tail, p, m)
  BY <1>1, <1>4, <1>8, <1>9, <1>12, <1>13, <1>14 DEF Answered
<1> QED
  BY <1>15

\* FileReady: the body begins where the local file ends.
LEMMA ResponseInv ==
    ASSUME DownloadInv, do_get_response
    PROVE  DownloadInv' /\ ReadEnds
<1>0. TypeInv /\ SenderInv /\ StreamInv /\ SeenInv /\ WaitingInv /\ BodyInv
  BY DEF DownloadInv
<1>1. PICK r \in response : file_ready(r.resp, r.carryover, r.d)
  BY DEF do_get_response
<1>2. PICK s, body, tail, p, m : Answered(r, s, body, tail, p, m)
  BY ResponseRead
<1>3. /\ cli.st = "waiting" /\ req = NoReq /\ r.d[2] \in BOOLEAN
      /\ body \in Seq(Cell) /\ tail \in Seq(Cell) /\ s = body \o tail /\ m \in 0..Len(s)
  BY <1>2, Zenon DEF Answered
<1>4. Describes(r.resp) /\ r.carryover = SubSeq(s, 1, m)
      /\ SubSeq(wire, r.d[1] + 1, Len(wire)) = SubSeq(s, m + 1, Len(s))
      /\ Holds(body \o snd.pending, p, cli.received, cli.frame)
      /\ IsTrailer(cli.trailer \o tail, snd.file, snd.trailerOff)
  BY <1>2, Zenon DEF Answered
<1>5. PICK x \in BOOLEAN : x = r.d[2]
  BY <1>3
<1>6. PICK pre : pre = Kept
  OBVIOUS
<1>7. PICK c, path :
        /\ c = [cli EXCEPT !.st = "body", !.size = r.resp.size, !.enc = r.resp.enc,
                           !.buf = <<>>, !.fin = x, !.hash = SubSeq(pre, 1, cli.offset)]
        /\ path = IF cli.offset = 0 THEN <<>> ELSE local
        /\ after_read(accept_download_bytes(c, path, r.carryover))
  BY <1>1, <1>5, <1>6 DEF file_ready, Kept
<1>8. /\ r.resp.ok /\ cli.offset + r.resp.size = r.resp.total
      /\ wire' = SubSeq(wire, r.d[1] + 1, Len(wire))
  BY <1>1 DEF file_ready
<1>9. UNCHANGED <<remote, seen, snd, at, req, fin>>
  BY <1>1 DEF do_get_response, file_ready, serverVars
<1>10. r.resp.size = snd.total /\ r.resp.total = Len(snd.file) /\ r.resp.enc = snd.enc
  BY <1>4, <1>8 DEF Describes
<1>11. cli.offset = length(local) /\ cli.received = 0 /\ cli.frame = FALSE /\ cli.trailer = <<>>
  <2>1. cli.frame \in BOOLEAN
    BY <1>0 DEF TypeInv, Getter
  <2> QED
    BY <1>0, <1>3, <2>1 DEF WaitingInv
<1>12. pre \in Seq(Blocks) /\ Len(pre) = cli.offset
  <2>1. local \in Seq(Blocks) \cup {NoFile}
    BY <1>0 DEF TypeInv
  <2>2. <<>> \in Seq(Blocks) /\ Len(<<>>) = 0
    BY EmptySeq
  <2> QED
    BY <1>6, <1>11, <2>1, <2>2 DEF length, Kept
<1>13. path = pre
  <2>1. CASE cli.offset = 0
    BY <1>7, <1>12, <2>1, EmptySeq
  <2>2. CASE cli.offset # 0
    <3>1. local # NoFile
      BY <1>11, <2>2 DEF length
    <3> QED
      BY <1>6, <1>7, <2>2, <3>1 DEF Kept
  <2> QED
    BY <2>1, <2>2
<1>14. SubSeq(pre, 1, cli.offset) = pre
  BY <1>12, SubSeqFull
<1>o. PICK o \in Nat : o = Base /\ o = cli.offset
  <2>1. cli.offset \in Nat
    BY <1>0 DEF TypeInv, Getter
  <2>2. cli.offset + snd.total = Len(snd.file)
    BY <1>8, <1>10
  <2>3. Base + snd.total = Len(snd.file) /\ Base \in Nat /\ snd.total \in Nat
    BY <1>0, SenderTypes
  <2>4. PICK y \in Nat : y = snd.total
    BY <2>3
  <2>5. cli.offset + y = Base + y
    BY <2>2, <2>3, <2>4
  <2> QED
    BY <2>1, <2>3, <2>5
<1>15. c = [cli EXCEPT !.st = "body", !.size = snd.total, !.enc = snd.enc,
                       !.buf = <<>>, !.fin = x, !.hash = pre]
  BY <1>7, <1>10, <1>14
<1>16. /\ c \in Getter /\ c.st = "body" /\ c.size = snd.total /\ c.enc = snd.enc
       /\ c.offset = cli.offset /\ c.received = 0 /\ c.frame = cli.frame /\ c.hash = pre
       /\ c.trailer = cli.trailer
  <2>1. cli \in Getter
    BY <1>0 DEF TypeInv
  <2>2. snd.total \in Nat /\ snd.enc \in Codecs /\ <<>> \in Seq(Cell)
    BY <1>0, SenderTypes, EmptySeq
  <2> QED
    BY <1>11, <1>12, <1>15, <2>1, <2>2 DEF Getter
<1>17. Progress(c, path)
  <2>1. snd.total \in Nat
    BY <1>0, SenderTypes
  <2>2. o + 0 = o
    OBVIOUS
  <2> QED
    BY <1>12, <1>13, <1>16, <1>o, <2>1, <2>2 DEF Progress
<1>18. busy
  BY <1>3 DEF busy
<1>19. /\ Holds(body \o snd.pending, p, c.received, c.frame)
       /\ IsTrailer(c.trailer \o tail, snd.file, snd.trailerOff)
  BY <1>4, <1>11, <1>16
<1>20. \E text, frame, t, left, end, q :
         TakenAs(c, pre, SubSeq(s, 1, m), SubSeq(s, m + 1, Len(s)), text, frame, t, left, end, q)
  BY <1>0, <1>3, <1>12, <1>16, <1>19, Taken, ZenonT(60)
<1>21. PICK text, frame, t, left, end, q :
         TakenAs(c, pre, SubSeq(s, 1, m), wire', text, frame, t, left, end, q)
  BY <1>4, <1>8, <1>20
<1>22. after_read(accept_download_bytes(c, pre, SubSeq(s, 1, m)))
  BY <1>4, <1>7, <1>13
<1>23. c \in Getter /\ c.st = "body" /\ Progress(c, pre)
  BY <1>13, <1>16, <1>17
<1> QED
  BY <1>0, <1>3, <1>6, <1>9, <1>12, <1>18, <1>21, <1>22, <1>23, AfterRead

\* A get is begun, or begun again, while the server's loop is idle.
LEMMA RequestInv ==
    ASSUME TypeInv, SenderInv, at = "poll", NEW retried \in BOOLEAN, NEW path,
           path \in Seq(Blocks) \cup {NoFile}, request(retried, path), local' = path,
           UNCHANGED <<remote, snd, at>>, retried => path = NoFile
    PROVE  DownloadInv'
<1>1. length(path) \in Nat
  BY LenProperties DEF length
<1>2. PICK n \in Nat : n = length(path)
  BY <1>1
<1>3. /\ cli' = [NoGet EXCEPT !.st = "waiting", !.retried = retried, !.offset = n]
      /\ req' = n /\ seen' = {remote} /\ wire' = <<>> /\ fin' = FALSE
  BY <1>2 DEF request
<1>4. /\ cli'.st = "waiting" /\ cli'.offset = n /\ cli'.retried = retried
      /\ cli'.received = 0 /\ cli'.frame = FALSE /\ cli'.trailer = <<>> /\ cli'.buf = <<>>
  BY <1>3 DEF NoGet
<1>5. <<>> \in Seq(Blocks) /\ <<>> \in Seq(Cell) /\ Len(<<>>) = 0
  BY EmptySeq
<1>6. cli' \in Getter
  BY <1>3, <1>5 DEF NoGet, Getter, Codecs
<1>7. TypeInv'
  BY <1>3, <1>5, <1>6 DEF TypeInv
<1>8. Base' = Base /\ body_sent' = body_sent
  BY DEF Base, body_sent
<1>9. SenderInv'
  BY <1>8 DEF SenderInv
<1>10. req' # NoReq
  BY <1>3, DownloadAssumption
<1>11. StreamInv'
  BY <1>10 DEF StreamInv
<1>12. SeenInv'
  BY <1>3, <1>4, <1>10 DEF SeenInv
<1>13. WaitingInv'
  <2>1. retried => n = 0
    BY <1>2 DEF length
  <2>2. length(local)' = n
    BY <1>2 DEF length
  <2> QED
    BY <1>4, <1>5, <2>1, <2>2 DEF WaitingInv
<1>14. BodyInv'
  BY <1>4 DEF BodyInv
<1> QED
  BY <1>7, <1>9, <1>11, <1>12, <1>13, <1>14 DEF DownloadInv

\* A get ends: nobody reads the stream any more.
LEMMA EndInv ==
    ASSUME TypeInv, TypeInv', SenderInv', cli'.st \in {"ok", "failed"}, req' = NoReq
    PROVE  DownloadInv'
<1>1. StreamInv' /\ SeenInv' /\ WaitingInv' /\ BodyInv'
  BY DEF StreamInv, SeenInv, WaitingInv, BodyInv, busy
<1> QED
  BY <1>1 DEF DownloadInv

LEMMA RefusedInv ==
    ASSUME DownloadInv, do_get_refused
    PROVE  DownloadInv'
<1>0. TypeInv /\ SenderInv
  BY DEF DownloadInv
<1>1. PICK r \in response : refused(r.resp, r.carryover, r.d)
  BY DEF do_get_refused
<1>2. PICK s, body, tail, p, m : Answered(r, s, body, tail, p, m)
  BY ResponseRead
<1>3. req = NoReq /\ Describes(r.resp)
  BY <1>2, Zenon DEF Answered
<1>4. ~r.resp.ok
  BY <1>1 DEF refused
<1>5. at = "poll"
  BY <1>0, <1>3, <1>4 DEF Describes, SenderInv
<1>6. UNCHANGED <<remote, snd, at>>
  BY DEF do_get_refused, serverVars
<1>7. CASE local' = NoFile /\ request(TRUE, NoFile)
  BY <1>0, <1>5, <1>6, <1>7, RequestInv
<1>8. CASE /\ local' \in {local, NoFile} /\ cli' = [cli EXCEPT !.st = "failed", !.buf = <<>>]
           /\ wire' = <<>> /\ UNCHANGED <<req, fin>>
  <2>1. cli \in Getter /\ <<>> \in Seq(Cell)
    BY <1>0, EmptySeq DEF TypeInv
  <2>2. cli' \in Getter /\ cli'.st = "failed"
    BY <1>8, <2>1 DEF Getter
  <2>3. TypeInv'
    BY <1>0, <1>6, <1>8, <2>1, <2>2 DEF TypeInv
  <2>4. Base' = Base /\ body_sent' = body_sent
    BY <1>6 DEF Base, body_sent
  <2>5. SenderInv'
    BY <1>0, <1>6, <1>8, <2>4 DEF SenderInv
  <2> QED
    BY <1>0, <1>3, <1>8, <2>2, <2>3, <2>5, EndInv
<1> QED
  BY <1>1, <1>7, <1>8 DEF refused

LEMMA VerifyInv ==
    ASSUME DownloadInv, do_get_verify
    PROVE  DownloadInv'
<1>0. TypeInv /\ SenderInv /\ SeenInv
  BY DEF DownloadInv
<1>1. /\ cli.st = "body" /\ UNCHANGED <<remote, seen, snd, at, req, wire, fin>>
      /\ local' \in {local, NoFile}
  BY DEF do_get_verify, serverVars
<1>2. PICK st \in {"ok", "failed"} : cli' = [cli EXCEPT !.st = st]
  BY DEF do_get_verify
<1>3. cli \in Getter
  BY <1>0 DEF TypeInv
<1>4. cli' \in Getter /\ cli'.st = st
  BY <1>2, <1>3 DEF Getter
<1>5. TypeInv'
  BY <1>0, <1>1, <1>4 DEF TypeInv
<1>6. Base' = Base /\ body_sent' = body_sent
  BY <1>1 DEF Base, body_sent
<1>7. SenderInv'
  BY <1>0, <1>1, <1>6 DEF SenderInv
<1>8. req' = NoReq
  BY <1>0, <1>1 DEF SeenInv
<1> QED
  BY <1>0, <1>4, <1>5, <1>7, <1>8, EndInv

-----------------------------------------------------------------------------
(***************************************************************************)
(* The environment.                                                        *)
(***************************************************************************)

LEMMA GetInv ==
    ASSUME DownloadInv, do_get
    PROVE  DownloadInv'
<1>0. TypeInv /\ SenderInv
  BY DEF DownloadInv
<1>1. at = "poll" /\ request(FALSE, local) /\ UNCHANGED <<remote, snd, at, local>>
  BY DEF do_get, serverVars
<1>2. local \in Seq(Blocks) \cup {NoFile}
  BY <1>0 DEF TypeInv
<1> QED
  BY <1>0, <1>1, <1>2, RequestInv

LEMMA RemoteInv ==
    ASSUME DownloadInv, remote_changes
    PROVE  DownloadInv'
<1>0. TypeInv /\ SenderInv /\ StreamInv /\ SeenInv /\ WaitingInv /\ BodyInv
  BY DEF DownloadInv
<1>1. UNCHANGED <<snd, at, req, wire, fin, cli, local>>
  BY DEF remote_changes, serverVars, clientVars
<1>2. /\ remote' \in Versions \cup {NoFile}
      /\ seen' = IF busy THEN seen \cup {remote'} ELSE seen
  BY DEF remote_changes
<1>3. TypeInv'
  BY <1>0, <1>1, <1>2 DEF TypeInv
<1>4. Base' = Base /\ body_sent' = body_sent
  BY <1>1 DEF Base, body_sent
<1>5. SenderInv'
  BY <1>0, <1>1, <1>4 DEF SenderInv
<1>6. StreamInv'
  BY <1>0, <1>1, StreamKept
<1>7. SeenInv'
  BY <1>0, <1>1, <1>2 DEF SeenInv, busy
<1>8. WaitingInv' /\ BodyInv'
  BY <1>0, <1>1, <1>4 DEF WaitingInv, BodyInv, Progress, length
<1> QED
  BY <1>3, <1>5, <1>6, <1>7, <1>8 DEF DownloadInv

\* A connection that carries no transfer.
LEMMA NoSenderInv ==
    ASSUME snd = NoSender, at = "poll"
    PROVE  snd \in Sender /\ SenderInv
<1>1. /\ snd.st = "none" /\ snd.file = <<>> /\ snd.pos = 0 /\ snd.prefix = 0
      /\ snd.total = 0 /\ snd.sent = 0 /\ snd.enc = "identity" /\ snd.buffered = <<>>
      /\ snd.pending = <<>> /\ snd.frameFin = FALSE /\ snd.hash = <<>>
      /\ snd.trailer = FALSE /\ snd.trailerOff = 0
  BY DEF NoSender
<1>2. <<>> \in Seq(Blocks) /\ <<>> \in Seq(Cell) /\ Len(<<>>) = 0
  BY EmptySeq
<1>3. snd \in Sender
  BY <1>2 DEF NoSender, Sender, Codecs
<1>4. Base = 0
  BY <1>1, <1>2 DEF Base
<1>5. snd.buffered = SubSeq(snd.file, Base + snd.sent - Len(snd.buffered) + 1, Base + snd.sent)
      /\ snd.hash = SubSeq(snd.file, 1, snd.pos)
  <2>1. SubSeq(<<>>, 0 + 1, 0) = <<>>
    BY NoStretch
  <2>2. 0 + (0 - 0) + 1 = 1 /\ 0 + 0 = 0 /\ 0 + 1 = 1
    OBVIOUS
  <2> QED
    BY <1>1, <1>2, <1>4, <2>1, <2>2
<1> QED
  BY <1>1, <1>2, <1>3, <1>4, <1>5 DEF SenderInv

LEMMA LostInv ==
    ASSUME DownloadInv, connection_lost
    PROVE  DownloadInv'
<1>0. TypeInv
  BY DEF DownloadInv
<1>1. /\ cli' = [cli EXCEPT !.st = "failed", !.buf = <<>>]
      /\ snd' = NoSender /\ at' = "poll" /\ req' = NoReq /\ wire' = <<>> /\ fin' = FALSE
      /\ local' = local /\ remote' = remote
  BY DEF connection_lost, kept_on_error
<1>2. cli \in Getter /\ <<>> \in Seq(Cell)
  BY <1>0, EmptySeq DEF TypeInv
<1>3. cli' \in Getter /\ cli'.st = "failed"
  BY <1>1, <1>2 DEF Getter
<1>4. NoSender' = NoSender
  BY DEF NoSender
<1>5. (snd = NoSender)' /\ (at = "poll")'
  BY <1>1, <1>4
<1>6. (snd \in Sender)' /\ SenderInv'
  BY <1>5, NoSenderInv, PTL
<1>7. snd' \in Sender
  BY <1>6 DEF Sender, Codecs, Cell, Payload, Response
<1>8. TypeInv'
  BY <1>0, <1>1, <1>2, <1>3, <1>7 DEF TypeInv
<1> QED
  BY <1>0, <1>1, <1>3, <1>6, <1>8, EndInv

LEMMA InitInv ==
    ASSUME Init
    PROVE  DownloadInv
<1>1. snd \in Sender /\ SenderInv
  BY NoSenderInv DEF Init
<1>2. <<>> \in Seq(Blocks) /\ <<>> \in Seq(Cell)
  BY EmptySeq
<1>3. cli = NoGet /\ cli.st = "idle"
  BY DEF Init, NoGet
<1>4. cli \in Getter
  BY <1>2, <1>3 DEF NoGet, Getter, Codecs
<1>5. TypeInv
  BY <1>1, <1>2, <1>4, DownloadAssumption DEF Init, TypeInv
<1>6. StreamInv /\ SeenInv /\ WaitingInv /\ BodyInv
  BY <1>3 DEF Init, StreamInv, SeenInv, WaitingInv, BodyInv, busy
<1> QED
  BY <1>1, <1>5, <1>6 DEF DownloadInv

LEMMA Inductive == DownloadInv /\ [Next]_vars => DownloadInv'
<1>1. SUFFICES ASSUME DownloadInv, [Next]_vars PROVE DownloadInv'
  OBVIOUS
<1>2. CASE ServerStep
  BY <1>1, <1>2, StartInv, LoopSteps, RehashInv, IdentityInv, ZstdInv, TrailerInv, Zenon
     DEF ServerStep
<1>3. CASE ClientStep
  BY <1>1, <1>3, IncompleteInv, ResponseInv, RefusedInv, RecvInv, VerifyInv, Zenon DEF ClientStep
<1>4. CASE do_get
  BY <1>1, <1>4, GetInv
<1>5. CASE remote_changes
  BY <1>1, <1>5, RemoteInv
<1>6. CASE connection_lost
  BY <1>1, <1>6, LostInv
<1>7. CASE UNCHANGED vars
  <2>1. UNCHANGED <<remote, seen, snd, at, req, wire, fin, cli, local>>
    BY <1>7 DEF vars
  <2>2. TypeInv /\ SenderInv
    BY <1>1 DEF DownloadInv
  <2> QED
    BY <1>1, <2>1, <2>2, LoopStep DEF TypeInv, SenderInv
<1> QED
  BY <1>1, <1>2, <1>3, <1>4, <1>5, <1>6, <1>7 DEF Next

LEMMA Invariance == Spec => []DownloadInv
<1>1. Init => DownloadInv
  BY InitInv
<1> QED
  BY <1>1, Inductive, PTL DEF Spec

-----------------------------------------------------------------------------
(***************************************************************************)
(* What the client has when it compares the digests.                       *)
(***************************************************************************)

\* All of the file from the offset on, and the trailer of the whole file.
Arrived(f) ==
  /\ f \in seen /\ f \in Seq(Blocks)
  /\ local = cli.hash /\ Len(cli.hash) = Len(f)
  /\ cli.offset \in 0..Len(f)
  /\ \A i \in 1..Len(f) : i > cli.offset => cli.hash[i] = f[i]
  /\ \A i \in 1..2 : cli.trailer[i].v = <<i, f>>

LEMMA BodyEnds ==
    ASSUME TypeInv, SenderInv, Progress(cli, local), is_complete(cli), body_sent,
           NEW b \in Seq(Cell), NEW p, Holds(b, p, cli.received, cli.frame)
    PROVE  cli.received = snd.total
<1>1. cli.received \in Nat /\ snd.total \in Nat /\ Base \in Nat /\ snd.enc \in Codecs
  BY SenderTypes DEF TypeInv, Getter
<1>2. cli.received <= snd.total /\ cli.size = snd.total /\ cli.enc = snd.enc
  BY DEF Progress
<1>3. CASE snd.enc = "identity"
  <2>1. cli.received >= snd.total
    BY <1>2, <1>3 DEF is_complete
  <2> QED
    BY <1>1, <1>2, <2>1
<1>4. CASE snd.enc = "zstd"
  <2>1. cli.frame
    BY <1>2, <1>4 DEF is_complete
  <2>2. b = <<>> /\ snd.frameFin
    BY <1>4, <2>1 DEF Holds, Kinds
  <2>3. snd.sent = snd.total /\ snd.buffered = <<>> /\ Len(snd.buffered) = 0
    BY <2>2, EmptySeq DEF SenderInv
  <2>4. Len(b) = 0
    BY <2>2, EmptySeq
  <2>5. Base + cli.received = Base + (snd.total - 0)
    BY <2>3, <2>4 DEF Holds, Cuts
  <2> QED
    BY <1>1, <2>5
<1> QED
  BY <1>1, <1>3, <1>4 DEF Codecs

LEMMA Complete ==
    ASSUME DownloadInv, cli.st = "body", satisfied(cli)
    PROVE  Arrived(snd.file) /\ req = NoReq
<1>0. TypeInv /\ SenderInv /\ StreamInv /\ SeenInv /\ WaitingInv /\ BodyInv
  BY DEF DownloadInv
<1>1. is_complete(cli) /\ Len(cli.trailer) >= 2
  BY DEF satisfied
<1>2. Progress(cli, local)
  BY <1>0 DEF BodyInv
<1>3. busy /\ req = NoReq
  BY <1>0 DEF busy, SeenInv
<1>4. PICK body, tail \in Seq(Cell) : \E p : Stream(body, tail, p)
  BY <1>0, <1>3 DEF StreamInv
<1>5. PICK p : Stream(body, tail, p)
  BY <1>4
<1>t. PICK t \in Seq(Cell) : t = cli.trailer
  BY <1>0 DEF TypeInv, Getter
<1>6. PICK u \in Seq(Cell) : u = t \o tail
  BY ConcatProperties
<1>7. /\ Len(u) = snd.trailerOff
      /\ \A j \in 1..Len(u) : u[j] = cell("data", <<j, snd.file>>)
  BY <1>5, <1>6, <1>t DEF Stream, IsTrailer
<1>8. PICK k \in Nat, l \in Nat : k = Len(t) /\ l = Len(tail) /\ k >= 2
  BY <1>1, <1>t, LenProperties
<1>j. Len(u) = k + l /\ \A j \in 1..k : u[j] = t[j]
  BY <1>6, <1>8, Joined
<1>9. k = 2 /\ snd.trailerOff = 2
  <2>1. PICK m \in Nat : m = snd.trailerOff /\ m <= 2
    BY <1>0, SenderTypes DEF SenderInv
  <2>2. m = k + l
    BY <1>7, <1>j, <2>1
  <2> QED
    BY <1>8, <2>1, <2>2
<1>10. \A i \in 1..2 : cli.trailer[i].v = <<i, snd.file>>
  <2>1. SUFFICES ASSUME NEW i \in 1..2 PROVE cli.trailer[i].v = <<i, snd.file>>
    OBVIOUS
  <2>2. i \in 1..k /\ i \in 1..Len(u)
    BY <1>7, <1>9
  <2>3. t[i] = cell("data", <<i, snd.file>>)
    BY <1>7, <1>j, <2>2
  <2> QED
    BY <1>t, <2>3 DEF cell
<1>11. snd.file \in seen /\ body_sent
  BY <1>0, <1>3, <1>9 DEF SeenInv, SenderInv
<1>f. PICK f \in Seq(Blocks) : f = snd.file
  BY <1>0, SenderTypes
<1>12. cli.received = snd.total
  <2>1. PICK b \in Seq(Cell) : b = body \o snd.pending
    BY <1>0, SenderTypes, ConcatProperties
  <2>2. Holds(b, p, cli.received, cli.frame)
    BY <1>5, <2>1 DEF Stream
  <2> QED
    BY <1>0, <1>1, <1>2, <1>11, <2>2, BodyEnds
<1>13. PICK n \in Nat, o \in Nat : n = snd.total /\ o = Base /\ o + n = Len(f)
  BY <1>0, <1>f, SenderTypes
<1>14. /\ local = cli.hash /\ Len(cli.hash) = o + n /\ cli.offset = o
       /\ \A i \in 1..n : cli.hash[o + i] = f[o + i]
  BY <1>2, <1>12, <1>13, <1>f DEF Progress
<1>15. ASSUME NEW i \in 1..Len(f), i > o PROVE cli.hash[i] = f[i]
  <2>1. PICK j \in 1..n : i = o + j
    <3>1. i - o \in 1..n /\ i = o + (i - o)
      BY <1>13, <1>15
    <3> QED
      BY <3>1
  <2> QED
    BY <1>14, <2>1
<1>16. cli.offset \in 0..Len(f)
  BY <1>13, <1>14
<1> QED
  BY <1>3, <1>10, <1>11, <1>13, <1>14, <1>15, <1>16, <1>f DEF Arrived

\* The digests agree exactly when the file at the path is the server's.
LEMMA Compared ==
    ASSUME NEW f, Arrived(f), TypeInv
    PROVE  trailer_matches(cli) <=> cli.hash = f
BY DEF Arrived, trailer_matches

LEMMA SamePrefix ==
    ASSUME NEW h \in Seq(Blocks), NEW f \in Seq(Blocks), Len(h) = Len(f), NEW o \in 0..Len(f),
           \A i \in 1..Len(f) : i > o => h[i] = f[i]
    PROVE  IsPrefix(SubSeq(h, 1, o), f) <=> h = f
<1>n. PICK n \in Nat : n = Len(f) /\ n = Len(h)
  BY LenProperties
<1>1. PICK s \in Seq(Blocks) : s = SubSeq(h, 1, o) /\ Len(s) = o /\ \A i \in 1..o : s[i] = h[i]
  <2>1. /\ SubSeq(h, 1, o) \in Seq(Blocks) /\ Len(SubSeq(h, 1, o)) = o
        /\ \A i \in 1..o : SubSeq(h, 1, o)[i] = h[i]
    BY Split
  <2> QED
    BY <2>1, Zenon
<1>2. PICK g \in Seq(Blocks) : g = SubSeq(f, 1, o) /\ Len(g) = o /\ \A i \in 1..o : g[i] = f[i]
  <2>1. /\ SubSeq(f, 1, o) \in Seq(Blocks) /\ Len(SubSeq(f, 1, o)) = o
        /\ \A i \in 1..o : SubSeq(f, 1, o)[i] = f[i]
    BY Split
  <2> QED
    BY <2>1, Zenon
<1>3. IsPrefix(s, f) <=> s = g
  <2>1. SubSeq(s, 1, o) = s
    BY <1>1, SubSeqFull
  <2> QED
    BY <1>1, <1>2, <1>n, <2>1 DEF IsPrefix
<1>4. ASSUME s = g PROVE h = f
  <2>1. ASSUME NEW i \in 1..n PROVE h[i] = f[i]
    BY <1>1, <1>2, <1>4, <1>n
  <2> QED
    BY <1>n, <2>1, SeqEqual
<1> QED
  BY <1>1, <1>2, <1>3, <1>4

\* Both sides hash the same bytes in the same order. A download that starts from a
\* true prefix of the file that start_get opened passes the comparison at the end of
\* do_get_inner, and any other is caught: for every chunk size and flow-control window,
\* whatever part of each chunk the stream takes and however the codec groups the body.
THEOREM DigestsAgree == Spec => []NoFalseMismatch
<1>1. DownloadInv => NoFalseMismatch
  <2>1. SUFFICES ASSUME DownloadInv, cli.st = "body", satisfied(cli)
                 PROVE  IsPrefix(SubSeq(cli.hash, 1, cli.offset), snd.file)
                          <=> trailer_matches(cli)
    BY DEF NoFalseMismatch
  <2>2. Arrived(snd.file) /\ TypeInv
    BY <2>1, Complete DEF DownloadInv
  <2>3. cli.hash \in Seq(Blocks)
    BY <2>2 DEF TypeInv, Getter
  <2>4. IsPrefix(SubSeq(cli.hash, 1, cli.offset), snd.file) <=> cli.hash = snd.file
    BY <2>2, <2>3, SamePrefix DEF Arrived
  <2> QED
    BY <2>2, <2>4, Compared
<1> QED
  BY <1>1, Invariance, PTL

-----------------------------------------------------------------------------
(***************************************************************************)
(* The download implements the atomic copy.                                *)
(***************************************************************************)

LEMMA Stutters ==
    ASSUME UNCHANGED <<remote, seen>>,
           UNCHANGED <<cli, local>> \/ (cli.st \in {"waiting", "body"} /\ cli'.st \in {"waiting", "body"})
    PROVE  UNCHANGED Abstract!acVars
BY DEF Abstract!acVars, busy

LEMMA GivesUp ==
    ASSUME UNCHANGED <<remote, seen>>, busy, cli'.st = "failed"
    PROVE  Abstract!GiveUp
BY DEF Abstract!GiveUp, busy

LEMMA Begins ==
    ASSUME cli.st # "ok", NEW retried \in BOOLEAN, NEW path, request(retried, path),
           UNCHANGED remote
    PROVE  Abstract!Begin
<1>1. cli'.st = "waiting" /\ seen' = {remote}
  BY DEF request, NoGet
<1> QED
  BY <1>1 DEF Abstract!Begin, busy

LEMMA Reads ==
    ASSUME DownloadInv, do_get_recv \/ do_get_response
    PROVE  Abstract!GiveUp \/ UNCHANGED Abstract!acVars
<1>1. ReadEnds
  BY RecvInv, ResponseInv
<1>2. cli.st \in {"waiting", "body"} /\ UNCHANGED <<remote, seen>>
  BY DEF do_get_recv, do_get_response, file_ready, response
<1>3. CASE cli'.st = "failed"
  BY <1>2, <1>3, GivesUp DEF busy
<1>4. CASE cli'.st = "body"
  BY <1>2, <1>4, Stutters
<1> QED
  BY <1>1, <1>3, <1>4 DEF ReadEnds

\* A refused get ends, or begins again once without the stale file.
Refusals ==
  \/ cli'.st = "failed" /\ seen' = seen /\ local' = local
  \/ cli.retried /\ cli.offset > 0
  \/ local' = NoFile /\ ~cli.retried /\ request(TRUE, NoFile)

LEMMA Refuses ==
    ASSUME DownloadInv, do_get_refused
    PROVE  cli.st = "waiting" /\ remote' = remote /\ Refusals
<1>1. PICK r \in response : refused(r.resp, r.carryover, r.d)
  BY DEF do_get_refused
<1>2. cli.st = "waiting"
  BY <1>1 DEF response
<1>3. cli \in Getter
  BY DEF DownloadInv, TypeInv
<1>4. [cli EXCEPT !.st = "failed", !.buf = <<>>].st = "failed"
  BY <1>3 DEF Getter
<1>5. Refusals
  BY <1>1, <1>4 DEF refused, Refusals
<1> QED
  BY <1>2, <1>5 DEF do_get_refused

LEMMA RefusedOnce ==
    ASSUME DownloadInv, do_get_refused
    PROVE  \/ cli'.st = "failed" /\ seen' = seen /\ local' = local
           \/ local' = NoFile /\ ~cli.retried /\ request(TRUE, NoFile)
<1>1. cli.st = "waiting" /\ Refusals
  BY Refuses
<1>2. ~(cli.retried /\ cli.offset > 0)
  <2>1. cli.retried => cli.offset = 0
    BY <1>1 DEF DownloadInv, WaitingInv
  <2> QED
    BY <2>1
<1> QED
  BY <1>1, <1>2, Zenon DEF Refusals

LEMMA Delivers ==
    ASSUME DownloadInv, do_get_verify
    PROVE  Abstract!Deliver \/ Abstract!GiveUp
<1>1. cli.st = "body" /\ satisfied(cli) /\ UNCHANGED <<remote, seen>>
  BY DEF do_get_verify
<1>2. Arrived(snd.file) /\ TypeInv
  BY <1>1, Complete DEF DownloadInv
<1>3. cli \in Getter
  BY <1>2 DEF TypeInv
<1>4. CASE verified(cli)
  <2>1. cli'.st = "ok" /\ local' = local
    BY <1>3, <1>4 DEF do_get_verify, Getter
  <2>2. cli.hash = snd.file
    BY <1>2, <1>4, Compared DEF verified
  <2>3. local' \in seen
    BY <1>2, <2>1, <2>2 DEF Arrived
  <2> QED
    BY <1>1, <2>1, <2>3 DEF Abstract!Deliver, busy
<1>5. CASE ~verified(cli)
  <2>1. cli'.st = "failed"
    BY <1>3, <1>5 DEF do_get_verify, Getter
  <2> QED
    BY <1>1, <2>1, GivesUp DEF busy
<1> QED
  BY <1>4, <1>5

LEMMA Replaces ==
    ASSUME remote_changes
    PROVE  \E c \in Versions \cup {NoFile} : Abstract!Replace(c)
<1>1. PICK f \in Versions \cup {NoFile} :
        /\ remote' = f
        /\ seen' = IF busy THEN seen \cup {f} ELSE seen
  BY DEF remote_changes
<1>2. Abstract!Replace(f)
  BY <1>1 DEF remote_changes, Abstract!Replace, busy, clientVars
<1> QED
  BY <1>1, <1>2

\* The download of do_get, with its resume and its one retry, implements the atomic
\* copy: a file that do_get_verify reports as verified is, whole, one of the contents
\* the remote path named while the download ran, whatever uploads replaced it meanwhile
\* and whatever prefix an earlier attempt left at the local path.
THEOREM DownloadRefinesAtomicCopy == Spec => CopiesAtomically
<1>1. Init => Abstract!Init
  BY DEF Init, Abstract!Init, NoGet, busy
<1>2. DownloadInv /\ [Next]_vars => [Abstract!Next]_(Abstract!acVars)
  <2>1. SUFFICES ASSUME DownloadInv, [Next]_vars
                 PROVE  Abstract!Next \/ UNCHANGED Abstract!acVars
    OBVIOUS
  <2>2. CASE ServerStep \/ UNCHANGED vars
    <3>1. UNCHANGED <<remote, seen, cli, local>>
      BY <2>2 DEF ServerStep, start_get, start_get_refused, drive_sending_streams,
         send_phase_prefix_rehash, read_failed, send_after_fin, send_phase_body_identity,
         send_phase_body_zstd, body_complete, send_phase_trailer, clientVars, vars
    <3> QED
      BY <3>1, Stutters
  <2>3. CASE recv_message_incomplete
    <3>1. cli \in Getter
      BY <2>1 DEF DownloadInv, TypeInv
    <3>2. cli.st = "waiting" /\ cli'.st = "waiting" /\ UNCHANGED <<remote, seen>>
      BY <2>3, <3>1 DEF recv_message_incomplete, Getter
    <3> QED
      BY <3>2, Stutters
  <2>4. CASE do_get_recv \/ do_get_response
    BY <2>1, <2>4, Reads DEF Abstract!Next
  <2>5. CASE do_get_refused
    <3>1. cli.st = "waiting" /\ remote' = remote
      BY <2>1, <2>5, Refuses
    <3>2. CASE cli'.st = "failed" /\ seen' = seen
      BY <3>1, <3>2, GivesUp DEF Abstract!Next, busy
    <3>3. CASE request(TRUE, NoFile)
      BY <3>1, <3>3, Begins DEF Abstract!Next
    <3> QED
      BY <2>1, <2>5, <3>2, <3>3, RefusedOnce
  <2>6. CASE do_get_verify
    BY <2>1, <2>6, Delivers DEF Abstract!Next
  <2>7. CASE do_get
    <3>1. cli.st # "ok" /\ request(FALSE, local) /\ remote' = remote
      BY <2>7 DEF do_get
    <3> QED
      BY <3>1, Begins DEF Abstract!Next
  <2>8. CASE remote_changes
    BY <2>8, Replaces DEF Abstract!Next
  <2>9. CASE connection_lost
    <3>1. cli \in Getter
      BY <2>1 DEF DownloadInv, TypeInv
    <3>2. busy /\ cli'.st = "failed" /\ UNCHANGED <<remote, seen>>
      BY <2>9, <3>1 DEF connection_lost, Getter
    <3> QED
      BY <3>2, GivesUp DEF Abstract!Next
  <2> QED
    BY <2>1, <2>2, <2>3, <2>4, <2>5, <2>6, <2>7, <2>8, <2>9 DEF Next, ClientStep
<1> QED
  BY <1>1, <1>2, Invariance, PTL DEF Spec, CopiesAtomically, Abstract!Spec

-----------------------------------------------------------------------------
(***************************************************************************)
(* What is at the local path is not thrown away.                           *)
(***************************************************************************)

\* The step drops nothing from the file at the path.
Keeps == local = NoFile \/ (local' # NoFile /\ IsPrefix(local, local'))

LEMMA Grown ==
    ASSUME NEW s \in Seq(Blocks), NEW t \in Seq(Blocks), NEW u, u = s \o t
    PROVE  u \in Seq(Blocks) /\ IsPrefix(s, u)
<1>1. /\ u \in Seq(Blocks) /\ Len(s) \in Nat /\ Len(t) \in Nat /\ Len(u) = Len(s) + Len(t)
      /\ \A i \in 1..Len(s) : u[i] = s[i]
  BY Joined
<1>2. PICK n \in Nat : n = Len(s) /\ n \in 0..Len(u)
  BY <1>1
<1>3. PICK v \in Seq(Blocks) : v = SubSeq(u, 1, n) /\ Len(v) = n /\ \A i \in 1..n : v[i] = u[i]
  <2>1. /\ SubSeq(u, 1, n) \in Seq(Blocks) /\ Len(SubSeq(u, 1, n)) = n
        /\ \A i \in 1..n : SubSeq(u, 1, n)[i] = u[i]
    BY <1>1, <1>2, Split
  <2> QED
    BY <2>1, Zenon
<1>4. v = s
  BY <1>1, <1>2, <1>3, SeqEqual
<1>5. SubSeq(s, 1, n) = s
  BY <1>2, SubSeqFull
<1> QED
  BY <1>1, <1>2, <1>3, <1>4, <1>5 DEF IsPrefix

LEMMA Untouched ==
    ASSUME TypeInv, local' = local
    PROVE  Keeps
<1>1. SUFFICES ASSUME local # NoFile PROVE IsPrefix(local, local)
  BY DEF Keeps
<1>2. PICK s \in Seq(Blocks) : s = local
  BY <1>1 DEF TypeInv
<1>3. SubSeq(s, 1, Len(s)) = s /\ Len(s) <= Len(s)
  BY SubSeqFull, LenProperties
<1> QED
  BY <1>2, <1>3 DEF IsPrefix

LEMMA ReadKeeps ==
    ASSUME TypeInv, ReadEnds
    PROVE  Keeps \/ (cli'.st = "failed" /\ cli'.fin)
<1>1. SUFFICES ASSUME local # NoFile, NEW text \in Seq(Blocks), local' = Kept \o text PROVE Keeps
  BY DEF ReadEnds, Keeps
<1>2. PICK s \in Seq(Blocks) : s = local /\ local' = s \o text
  BY <1>1 DEF TypeInv, Kept
<1>3. local' \in Seq(Blocks) /\ IsPrefix(s, local')
  BY <1>2, Grown
<1> QED
  BY <1>2, <1>3, DownloadAssumption DEF Keeps

\* A step takes bytes from the local file only for a reason it knows: do_get_verify
\* found a wrong digest, a read met the server's early FIN, or the server refused the
\* resumed offset and the one retry begins. A lost connection, a second refusal or a
\* vanished remote file leaves every byte in place for the next resume.
THEOREM PartialIsKept == Spec => PartialKept
<1> DEFINE Reason == \/ Keeps
                     \/ cli.st = "body" /\ satisfied(cli) /\ ~trailer_matches(cli)
                     \/ busy /\ cli'.st = "failed" /\ cli'.fin
                     \/ cli.st = "waiting" /\ ~cli.retried /\ cli'.retried
<1>1. DownloadInv /\ [Next]_vars => [Reason]_vars
  <2>1. SUFFICES ASSUME DownloadInv, Next PROVE Reason
    OBVIOUS
  <2>2. TypeInv /\ cli \in Getter
    BY <2>1 DEF DownloadInv, TypeInv
  <2>3. CASE do_get_recv \/ do_get_response
    <3>1. ReadEnds
      BY <2>1, <2>3, RecvInv, ResponseInv
    <3>2. busy
      BY <2>3 DEF do_get_recv, do_get_response, response, busy
    <3> QED
      BY <2>2, <3>1, <3>2, ReadKeeps
  <2>4. CASE do_get_refused
    <3>1. cli.st = "waiting"
      BY <2>1, <2>4, Refuses
    <3>2. CASE local' = local
      BY <2>2, <3>2, Untouched
    <3>3. CASE ~cli.retried /\ request(TRUE, NoFile)
      <4>1. cli'.retried
        BY <3>3 DEF request, NoGet
      <4> QED
        BY <3>1, <3>3, <4>1
    <3> QED
      BY <2>1, <2>4, <3>2, <3>3, RefusedOnce
  <2>5. CASE do_get_verify
    <3>1. CASE verified(cli)
      <4>1. local' = local
        BY <2>5, <3>1 DEF do_get_verify
      <4> QED
        BY <2>2, <4>1, Untouched
    <3>2. CASE ~verified(cli)
      BY <2>5, <3>2 DEF do_get_verify, verified
    <3> QED
      BY <3>1, <3>2
  <2>6. CASE ServerStep \/ recv_message_incomplete \/ do_get \/ remote_changes
    <3>1. local' = local
      BY <2>6 DEF ServerStep, start_get, start_get_refused, drive_sending_streams,
         send_phase_prefix_rehash, read_failed, send_after_fin, send_phase_body_identity,
         send_phase_body_zstd, body_complete, send_phase_trailer, clientVars,
         recv_message_incomplete, do_get, remote_changes
    <3> QED
      BY <2>2, <3>1, Untouched
  <2>7. CASE connection_lost
    <3>1. local' = local
      BY <2>7 DEF connection_lost, kept_on_error
    <3> QED
      BY <2>2, <3>1, Untouched
  <2> QED
    BY <2>1, <2>3, <2>4, <2>5, <2>6, <2>7 DEF Next, ClientStep
<1> QED
  BY <1>1, Invariance, PTL DEF Spec, PartialKept, Keeps
=============================================================================
