------------------------------- MODULE Download -------------------------------
(***************************************************************************)
(* One file downloaded from the server by the command-line client: the     *)
(* server's SendingFileData state machine (transfer_get.rs), the framed    *)
(* response and the body on one QUIC stream (transport.rs, proto.rs), the  *)
(* zstd wrappers (compress.rs) and the client's do_get with its resume and *)
(* its one retry (client transfer.rs).                                     *)
(*                                                                         *)
(* Data. A file is a sequence of blocks; a BLAKE3 state is the sequence of *)
(* the blocks fed to it, so two digests are equal exactly when the hashed  *)
(* bytes are. The stream is a sequence of cells: a framed message is two   *)
(* cells (length prefix and payload), a body block one cell, the 32-byte   *)
(* trailer two cells. The client tells body from trailer by position, as   *)
(* the code does. A zstd cell carries the blocks it decodes to.            *)
(*                                                                         *)
(* Files on the server change only by a committed Put's rename or by Rm,   *)
(* so an open descriptor keeps the version it was opened on.               *)
(***************************************************************************)
EXTENDS Integers, Sequences, SequencesExt, FiniteSets

CONSTANTS Blocks,        \* what contents are made of
          Versions,      \* contents the remote file takes
          Locals,        \* what may lie at the local path beforehand
          NoFile,        \* nothing at that path
          NoReq,         \* no request on the stream
          Chunk,         \* SEND_CHUNK_SIZE, in blocks
          Window,        \* stream flow-control window, in cells
          ZstdMin,       \* 1024 bytes, in blocks: shorter bodies are not compressed
          MaxCommits,    \* bound: replacements of the remote file
          MaxDrops,      \* bound: lost connections
          MaxReadFails   \* bound: failed reads of the server's file

ASSUME DownloadAssumption ==
    /\ Chunk \in Nat \ {0}
    /\ Window \in Nat /\ Window >= 2
    /\ ZstdMin \in Nat
    /\ Versions \subseteq Seq(Blocks)
    /\ Locals \subseteq Seq(Blocks) \cup {NoFile}
    /\ NoFile \notin Seq(Blocks)
    /\ NoReq \notin Nat

VARIABLES remote,     \* the file the path names now, or NoFile
          seen,       \* contents the path has named since this get began
          snd,        \* StreamState::SendingFileData of the stream
          at,         \* where the server's loop is: "poll" or a send phase
          woken,      \* a packet is waiting for the server's poll
          req,        \* the Get request's offset, not yet read by the server
          wire,       \* cells the server queued and the client has not read
          fin,        \* the server's FIN is queued
          cli,        \* do_get_inner's locals
          local,      \* the file at the client's path
          commits, drops, readFails

vars == <<remote, seen, snd, at, woken, req, wire, fin, cli, local, commits, drops, readFails>>
serverVars == <<snd, at>>
clientVars == <<cli, local>>
faultVars == <<commits, drops, readFails>>

least(a, b) == IF a < b THEN a ELSE b
slice(s, from, n) == SubSeq(s, from + 1, from + n)
cell(kind, value) == [k |-> kind, v |-> value]
length(f) == IF f = NoFile THEN 0 ELSE Len(f)
room == Window - Len(wire)

\* stream_send: the transport takes what the flow-control window leaves.
accepted(cells) == SubSeq(cells, 1, least(Len(cells), room))

----------------------------------------------------------------------------
\* The server.

NoSender == [st |-> "none", file |-> <<>>, pos |-> 0, prefix |-> 0, total |-> 0,
             sent |-> 0, enc |-> "identity", buffered |-> <<>>, pending |-> <<>>,
             frameFin |-> FALSE, hash |-> <<>>, trailer |-> FALSE, trailerOff |-> 0]

\* encode_framed_message and stream_send_all: both cells, or the connection fails.
framed(resp) == << cell("frame", <<1, resp>>), cell("frame", <<2, resp>>) >>

FileReady(size, total, enc) == [ok |-> TRUE, size |-> size, total |-> total, enc |-> enc]
Refused(code) == [ok |-> FALSE, size |-> 0, total |-> 0, enc |-> code]

\* The codecs start_get may choose for a body of n blocks: whether the client
\* offers zstd and whether the name looks compressible are left open.
Encodings(n) == IF n >= ZstdMin THEN {"identity", "zstd"} ELSE {"identity"}

\* start_get when the file cannot be opened or the offset lies past its end.
start_get_refused ==
    /\ req # NoReq /\ at = "poll"
    /\ remote = NoFile \/ req > length(remote)
    /\ wire' = wire \o framed(Refused(IF remote = NoFile THEN "NotFound" ELSE "InvalidRange"))
    /\ snd' = [NoSender EXCEPT !.st = "done"]
    /\ req' = NoReq
    /\ woken' = FALSE
    /\ UNCHANGED <<remote, seen, at, fin, clientVars, faultVars>>

\* start_get: open, answer FileReady, and enter SendingFileData; the same loop
\* iteration goes on to drive_sending_streams.
start_get ==
    /\ req # NoReq /\ at = "poll"
    /\ remote # NoFile /\ req <= Len(remote)
    /\ \E enc \in Encodings(Len(remote) - req) :
         /\ wire' = wire \o framed(FileReady(Len(remote) - req, Len(remote), enc))
         /\ snd' = [NoSender EXCEPT !.st = "sending", !.file = remote, !.prefix = req,
                                    !.total = Len(remote) - req, !.enc = enc]
    /\ req' = NoReq
    /\ at' = "prefix"
    /\ woken' = FALSE
    /\ UNCHANGED <<remote, seen, fin, clientVars, faultVars>>

\* Fault: local work does not shorten the poll timeout.
never_local_progress == FALSE

\* stream_needs_local_progress: the poll timeout is zero.
needs_local_progress == snd.st = "sending" /\ snd.prefix > 0

\* drive_sending_streams in a loop iteration that a packet or the zero timeout starts.
drive_sending_streams ==
    /\ at = "poll" /\ req = NoReq
    /\ snd.st = "sending"
    /\ woken \/ needs_local_progress
    /\ at' = "prefix"
    /\ woken' = FALSE
    /\ UNCHANGED <<remote, seen, snd, req, wire, fin, clientVars, faultVars>>

\* One chunk of the resumed prefix is hashed; the last one falls through to the body.
after_prefix_chunk(left) == IF left > 0 THEN "poll" ELSE "body"

send_phase_prefix_rehash ==
    /\ at = "prefix"
    /\ LET n == least(snd.prefix, Chunk)
       IN /\ snd' = [snd EXCEPT !.hash = @ \o slice(snd.file, snd.pos, n),
                                !.pos = @ + n, !.prefix = @ - n]
          /\ at' = after_prefix_chunk(snd.prefix - n)
    /\ UNCHANGED <<remote, seen, woken, req, wire, fin, clientVars, faultVars>>

\* read_exact fails: FIN the stream and report Failed. drive_sending_streams
\* leaves the state in place, so a later iteration drives it again.
read_failed ==
    /\ readFails < MaxReadFails
    /\ snd.st = "sending"
    /\ \/ at = "prefix" /\ snd.prefix > 0
       \/ at = "body" /\ snd.sent < snd.total /\ snd.pending = <<>>
    /\ fin' = TRUE
    /\ at' = "poll"
    /\ readFails' = readFails + 1
    /\ UNCHANGED <<remote, seen, snd, woken, req, wire, clientVars, commits, drops>>

body_sent == IF snd.enc = "identity" THEN snd.sent = snd.total
             ELSE snd.sent = snd.total /\ snd.frameFin /\ snd.pending = <<>>

\* stream_send on a stream whose FIN is queued: Failed, the state stays.
send_after_fin ==
    /\ fin /\ snd.st = "sending"
    /\ \/ at = "body" /\ IF snd.enc = "identity" THEN snd.sent < snd.total
                                                  ELSE snd.pending # <<>>
       \/ at = "trailer"
    /\ at' = "poll"
    /\ UNCHANGED <<remote, seen, snd, woken, req, wire, fin, clientVars, faultVars>>

\* Blocked returns to poll, a full write goes round the loop again.
after_write(written, wanted) == IF written < wanted THEN "poll" ELSE "body"

\* Fault: the chunk is hashed before the stream has taken it.
hashed_whole(chunk, n) == chunk

\* The part of a chunk that goes into the hash: what the stream took.
hashed(chunk, n) == slice(chunk, 0, n)

\* A chunk is read and offered; only what the stream took is hashed and counted,
\* and the reader seeks back over the rest.
send_phase_body_identity ==
    /\ at = "body" /\ snd.enc = "identity" /\ snd.sent < snd.total /\ ~fin
    /\ LET want == least(snd.total - snd.sent, Chunk)
           chunk == slice(snd.file, snd.pos, want)
           out == accepted([i \in 1..want |-> cell("data", chunk[i])])
       IN /\ wire' = wire \o out
          /\ snd' = [snd EXCEPT !.hash = @ \o hashed(chunk, Len(out)),
                                !.sent = @ + Len(out), !.pos = @ + Len(out)]
          /\ at' = after_write(Len(out), want)
    /\ UNCHANGED <<remote, seen, woken, req, fin, clientVars, faultVars>>

\* ZstdEncoder::push: the codec keeps what it read or emits everything it holds.
push(e, chunk) == { [e EXCEPT !.buffered = @ \o chunk],
                    [e EXCEPT !.buffered = <<>>,
                              !.pending = <<cell("zstd", e.buffered \o chunk)>>] }

\* ZstdEncoder::finish: the rest of the plaintext and the end of the frame.
finish(e) == [e EXCEPT !.buffered = <<>>,
                       !.pending = (IF e.buffered = <<>> THEN <<>>
                                    ELSE <<cell("zstd", e.buffered)>>)
                                   \o <<cell("zend", <<>>)>>,
                       !.frameFin = TRUE]

\* Pending output first, then the next chunk, then the end of the frame.
send_phase_body_zstd ==
    /\ at = "body" /\ snd.enc = "zstd" /\ ~body_sent
    /\ \/ /\ snd.pending # <<>> /\ ~fin
          /\ LET out == accepted(snd.pending)
             IN /\ wire' = wire \o out
                /\ snd' = [snd EXCEPT !.pending = SubSeq(@, Len(out) + 1, Len(@))]
                /\ at' = after_write(Len(out), Len(snd.pending))
       \/ /\ snd.pending = <<>> /\ snd.sent < snd.total
          /\ LET want == least(snd.total - snd.sent, Chunk)
                 chunk == slice(snd.file, snd.pos, want)
             IN snd' \in push([snd EXCEPT !.hash = @ \o chunk, !.sent = @ + want,
                                          !.pos = @ + want], chunk)
          /\ UNCHANGED <<wire, at>>
       \/ /\ snd.pending = <<>> /\ snd.sent = snd.total /\ ~snd.frameFin
          /\ snd' = finish(snd)
          /\ UNCHANGED <<wire, at>>
    /\ UNCHANGED <<remote, seen, woken, req, fin, clientVars, faultVars>>

body_complete ==
    /\ at = "body" /\ body_sent
    /\ at' = "trailer"
    /\ UNCHANGED <<remote, seen, snd, woken, req, wire, fin, clientVars, faultVars>>

\* The trailer's offset survives a blocked write; the FIN follows the last cell.
send_phase_trailer ==
    /\ at = "trailer" /\ ~fin
    /\ LET cells == << cell("data", <<1, snd.hash>>), cell("data", <<2, snd.hash>>) >>
           left == SubSeq(cells, snd.trailerOff + 1, 2)
           out == accepted(left)
           all == Len(out) = Len(left)
       IN /\ wire' = wire \o out
          /\ snd' = [snd EXCEPT !.trailer = TRUE, !.trailerOff = @ + Len(out),
                                !.st = IF all THEN "done" ELSE @]
          /\ fin' = all
    /\ at' = "poll"
    /\ UNCHANGED <<remote, seen, woken, req, clientVars, faultVars>>

----------------------------------------------------------------------------
\* The client.

NoGet == [st |-> "idle", offset |-> 0, retried |-> FALSE, size |-> 0, enc |-> "identity",
          received |-> 0, frame |-> FALSE, hash |-> <<>>, trailer |-> <<>>,
          buf |-> <<>>, fin |-> FALSE]

busy == cli.st \in {"waiting", "body"}

\* do_get_inner up to the request: a stream of its own, the offset is the length
\* of whatever lies at the local path.
request(retried, path) ==
    /\ cli' = [NoGet EXCEPT !.st = "waiting", !.retried = retried, !.offset = length(path)]
    /\ req' = length(path)
    /\ seen' = {remote}
    /\ wire' = <<>>
    /\ fin' = FALSE
    /\ woken' = TRUE

\* do_get on an open connection; after a failure the user may call it again.
do_get ==
    /\ cli.st \in {"idle", "failed"} /\ at = "poll"
    /\ request(FALSE, local)
    /\ UNCHANGED <<remote, serverVars, local, faultVars>>

\* stream_recv: some cells were delivered, and the FIN with or after the last one.
delivered == { d \in (0..Len(wire)) \X BOOLEAN :
                 /\ d[2] => cli.fin \/ (fin /\ d[1] = Len(wire))
                 /\ cli.fin => d[2]
                 /\ d[1] > 0 \/ (d[2] /\ ~cli.fin) }

is_complete(c) == IF c.enc = "identity" THEN c.received >= c.size ELSE c.frame

\* Everything the loop waits for has arrived.
satisfied(c) == is_complete(c) /\ Len(c.trailer) >= 2

decoded(cells) ==
    LET text[n \in 0..Len(cells)] == IF n = 0 THEN <<>> ELSE text[n - 1] \o cells[n].v
    IN text[Len(cells)]

\* accept_download_bytes: how many of the cells belong to the body.
body_take(c, cells) ==
    IF c.enc = "identity" THEN least(c.size - c.received, Len(cells))
    ELSE IF c.frame THEN 0
    ELSE LET ends == { i \in DOMAIN cells : cells[i].k = "zend" }
         IN IF ends = {} THEN Len(cells) ELSE CHOOSE i \in ends : \A j \in ends : i <= j

plaintext(c, cells) ==
    IF c.enc = "identity" THEN [i \in DOMAIN cells |-> cells[i].v]
                          ELSE decoded(cells)

\* The blocks go to the file and the hasher, the rest is the trailer.
accept_download_bytes(c, path, cells) ==
    LET n == body_take(c, cells)
        text == plaintext(c, SubSeq(cells, 1, n))
    IN [c |-> [c EXCEPT !.received = @ + Len(text),
                        !.frame = @ \/ (c.enc = "zstd" /\ n > 0 /\ cells[n].k = "zend"),
                        !.hash = @ \o text,
                        !.trailer = @ \o SubSeq(cells, n + 1, Len(cells))],
        path |-> path \o text]

\* The stream ended before the body and the trailer were there: the file is removed.
after_read(r) ==
    LET early == r.c.fin /\ ~satisfied(r.c)
    IN /\ cli' = [r.c EXCEPT !.st = IF early THEN "failed" ELSE @]
       /\ local' = IF early THEN NoFile ELSE r.path

\* poll_response_with_buf and recv_message before the frame is whole.
recv_message_incomplete ==
    /\ cli.st = "waiting"
    /\ \E d \in delivered :
         /\ Len(cli.buf) + d[1] < 2
         /\ cli' = [cli EXCEPT !.buf = @ \o SubSeq(wire, 1, d[1]), !.fin = d[2]]
         /\ wire' = SubSeq(wire, d[1] + 1, Len(wire))
    /\ woken' = TRUE
    /\ UNCHANGED <<remote, seen, serverVars, req, fin, local, faultVars>>

\* recv_message has a whole frame; what it drained past the frame is carried over.
\* The stream may still hold undelivered cells.
response ==
    LET buf(d) == cli.buf \o SubSeq(wire, 1, d[1])
    IN { [resp |-> buf(d)[1].v[2], carryover |-> SubSeq(buf(d), 3, Len(buf(d))), d |-> d] :
         d \in { x \in delivered : cli.st = "waiting" /\ Len(buf(x)) >= 2 } }

file_ready(resp, carryover, d) ==
    LET c == [cli EXCEPT !.st = "body", !.size = resp.size, !.enc = resp.enc,
                         !.buf = <<>>, !.fin = d[2],
                         !.hash = SubSeq(IF local = NoFile THEN <<>> ELSE local, 1, cli.offset)]
        path == IF cli.offset = 0 THEN <<>> ELSE local
    IN /\ resp.ok
       /\ cli.offset + resp.size = resp.total
       /\ after_read(accept_download_bytes(c, path, carryover))
       /\ wire' = SubSeq(wire, d[1] + 1, Len(wire))
       /\ woken' = TRUE
       /\ UNCHANGED <<seen, req, fin>>

\* InvalidRange on a resumed Get: the local file is stale, remove it and start over
\* once on a fresh stream. Any other refusal leaves the file alone.
refused(resp, carryover, d) ==
    /\ ~resp.ok
    /\ IF resp.enc = "InvalidRange" /\ cli.offset > 0
       THEN /\ local' = NoFile
            /\ IF cli.retried THEN /\ cli' = [cli EXCEPT !.st = "failed", !.buf = <<>>]
                                   /\ wire' = <<>>
                                   /\ woken' = TRUE
                                   /\ UNCHANGED <<seen, req, fin>>
                              ELSE request(TRUE, NoFile)
       ELSE /\ cli' = [cli EXCEPT !.st = "failed", !.buf = <<>>]
            /\ wire' = <<>>
            /\ woken' = TRUE
            /\ UNCHANGED <<seen, req, fin, local>>

do_get_response == /\ \E r \in response : file_ready(r.resp, r.carryover, r.d)
                   /\ UNCHANGED <<remote, serverVars, faultVars>>
do_get_refused == /\ \E r \in response : refused(r.resp, r.carryover, r.d)
                  /\ UNCHANGED <<remote, serverVars, faultVars>>

\* The download loop: one stream_recv, and the checks after it.
do_get_recv ==
    /\ cli.st = "body" /\ ~satisfied(cli)
    /\ \E d \in delivered :
         /\ after_read(accept_download_bytes([cli EXCEPT !.fin = d[2]], local,
                                             SubSeq(wire, 1, d[1])))
         /\ wire' = SubSeq(wire, d[1] + 1, Len(wire))
    /\ woken' = TRUE
    /\ UNCHANGED <<remote, seen, serverVars, req, fin, faultVars>>

trailer_matches(c) == \A i \in 1..2 : c.trailer[i].v = <<i, c.hash>>

\* Fault: the digests are not compared.
verified_unseen(c) == TRUE

verified(c) == trailer_matches(c)

\* The loop is left: compare the trailer with the hash of prefix and body.
do_get_verify ==
    /\ cli.st = "body" /\ satisfied(cli)
    /\ cli' = [cli EXCEPT !.st = IF verified(cli) THEN "ok" ELSE "failed"]
    /\ local' = IF verified(cli) THEN local ELSE NoFile
    /\ UNCHANGED <<remote, seen, serverVars, woken, req, wire, fin, faultVars>>

----------------------------------------------------------------------------
\* The environment.

\* Another upload commits, or the file is removed: the name refers to something
\* else, open descriptors do not.
remote_changes ==
    /\ commits < MaxCommits
    /\ \E f \in Versions \cup {NoFile} :
         /\ f # remote
         /\ remote' = f
         /\ seen' = IF busy THEN seen \cup {f} ELSE seen
    /\ commits' = commits + 1
    /\ UNCHANGED <<serverVars, woken, req, wire, fin, clientVars, drops, readFails>>

\* Fault: an error on the connection is treated like a bad checksum.
removed_on_error(path) == NoFile

\* An error that leaves do_get_inner through `?` does not touch the file.
kept_on_error(path) == path

\* The connection is lost or the client is killed: the server drops the stream's
\* state, do_get_inner fails and leaves the local file as it is. The next do_get
\* runs on a new connection.
connection_lost ==
    /\ drops < MaxDrops
    /\ busy /\ ~(cli.st = "body" /\ satisfied(cli))
    /\ cli' = [cli EXCEPT !.st = "failed", !.buf = <<>>]
    /\ snd' = NoSender /\ at' = "poll"
    /\ req' = NoReq /\ wire' = <<>> /\ fin' = FALSE /\ woken' = FALSE
    /\ local' = kept_on_error(local)
    /\ drops' = drops + 1
    /\ UNCHANGED <<remote, seen, commits, readFails>>

Init == /\ remote \in Versions \cup {NoFile}
        /\ local \in Locals
        /\ seen = {}
        /\ snd = NoSender /\ at = "poll" /\ woken = FALSE
        /\ req = NoReq /\ wire = <<>> /\ fin = FALSE
        /\ cli = NoGet
        /\ commits = 0 /\ drops = 0 /\ readFails = 0

ServerStep == \/ start_get \/ start_get_refused \/ drive_sending_streams
              \/ send_phase_prefix_rehash \/ read_failed \/ send_after_fin
              \/ send_phase_body_identity \/ send_phase_body_zstd
              \/ body_complete \/ send_phase_trailer

ClientStep == \/ recv_message_incomplete \/ do_get_response \/ do_get_refused
              \/ do_get_recv \/ do_get_verify

Next == ServerStep \/ ClientStep \/ do_get \/ remote_changes \/ connection_lost

Spec == Init /\ [][Next]_vars

\* The server's loop runs and quiche delivers what is queued while the connection
\* lives. Nobody is obliged to start a download, lose a connection or change a file.
FairSpec == Spec /\ WF_vars(ServerStep) /\ WF_vars(ClientStep)

----------------------------------------------------------------------------
\* Properties.

\* A download that starts from a true prefix of the version the server opened is
\* not refused at the trailer: whatever the stream accepts, however the reader
\* seeks back, both sides hash the same bytes in the same order.
NoFalseMismatch ==
    (cli.st = "body" /\ satisfied(cli))
        => (IsPrefix(SubSeq(cli.hash, 1, cli.offset), snd.file) <=> trailer_matches(cli))

\* A step takes bytes from the local file only for a reason it knows: a checksum
\* that failed, a stream the server ended early, or a local file longer than the
\* remote one, once. Losing the connection keeps every byte for the next resume.
PartialKept ==
    [][ \/ local = NoFile
        \/ local' # NoFile /\ IsPrefix(local, local')
        \/ cli.st = "body" /\ satisfied(cli) /\ ~trailer_matches(cli)
        \/ busy /\ cli'.st = "failed" /\ cli'.fin
        \/ cli.st = "waiting" /\ ~cli.retried /\ cli'.retried ]_vars

\* A get that has begun ends: with bodies and prefixes longer than a chunk, a
\* window smaller than the body, FINs that arrive with the data or after it, and a
\* server that sleeps in poll unless a packet or local work wakes it.
GetEnds == busy ~> ~busy

Abstract == INSTANCE AtomicCopy
            WITH Contents <- Versions \cup {NoFile},
                 NoCopy <- NoReq,
                 source <- remote,
                 candidates <- seen,
                 copy <- IF cli.st = "ok" THEN local ELSE NoReq

\* The download implements the atomic copy: a file reported as verified is, whole,
\* a content the path named while the download ran, never a mix of two uploads or
\* of a stale local prefix and a new suffix.
CopiesAtomically == Abstract!Spec
=============================================================================
