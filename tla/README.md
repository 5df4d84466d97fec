# qftp: TLA+ models, model checking and proofs

qftp is a file-transfer protocol over QUIC, written in Rust.  The modules in
this directory model the parts of it in which the order of steps matters,
check them with TLC on small instances, and prove the central results with
TLAPS for every value of the constants.

Contents

1. The system
2. Modules
3. Module `Upload`
4. Module `Server`
5. Modules `Download` and `AtomicCopy`
6. Module `Bridge`
7. Module `Admission`
8. Module `Homes`
9. Module `Trust`
10. Module `ClientUpload`
11. Runs, bounds and what they show
12. Fairness
13. Proofs
14. Where the code and its own words disagree
15. What is not modelled
16. Plan

## 1. The system

The native server (`crates/qftp-server`) is one event-loop thread (mio and
quiche) and a pool of four handler threads.  The loop owns every connection and
every upload and download stream.  A handler thread runs one blocking filesystem
request at a time and hands the answer back through a channel and a waker.  All
connections of one user share that user's counters and upload claims.  The web
bridge (`crates/qftp-web-bridge`) serves the same requests over WebTransport
from tokio tasks.  The client (`crates/qftp-client`) is sequential per
connection; several client processes of one user share their trust and session
files.

| Component | State it keeps | Operations | Talks to | What is hard | What makes it correct | Module |
|---|---|---|---|---|---|---|
| Upload state machine: `transfer_put.rs`, `stream.rs` | `ReadingFileData` per stream, the partial file, a claim, a reservation | `start_put`, `drive_put` (re-hash, body, trailer, commit), `Drop` | user counters (atomics), filesystem, event loop | many ways to end; resume over a partial of unknown origin; commit is several system calls | reservation returned exactly once; one writer per partial; committed bytes are the verified bytes; usage covers the disk | `Upload` |
| User directory: `user.rs` | users, homes, ACL, quota; `used_bytes`, `in_flight_bytes`, `active_uploads` | `from_config`, `resolve_identity`, `build_user` (sweep and walk) | uploads, handlers, the connection's identity | homes written in many ways; counters rebuilt from the disk after a crash | homes are apart; identities unambiguous; counters exact | `Homes`, `Upload` |
| Request handlers: `handler.rs`, `fs_safe.rs` | none; the filesystem | Pwd, Cd, Ls, Stat, Mkdir, Rmdir, Rm, Rename, Chmod, path resolution | filesystem, user counters | checks and system calls interleave with other threads' | refunds match what was removed; no path leaves the home | `Homes`, `Upload` |
| Event loop: `server.rs`, `connection.rs` | the connection table, `handler_in_flight`, queue, `cwd` and user per connection | accept, read and gate requests, dispatch, apply results, reap, drain | everything else in the server | results that come back after their connection is gone; identity that changes between gate and dispatch; shutdown | one job per connection, in order, to the right owner, as the right user; slots exact; every request answered | `Server` |
| Download: `transfer_get.rs`, `compress.rs`, client `transfer.rs` | `SendingFileData` per stream; the local file and its offset | `start_get`, `drive_get`; `do_get` with resume and one retry | filesystem, quiche's send window | partial writes, a reader that fails half way, a remote file replaced meanwhile | the local file is a remote file, whole; every get ends | `Download` |
| Limits and retry: `limits.rs`, `retry.rs` | token buckets, connection counters, the retry key | `try_consume`, `try_acquire`, `release`, `mint`, `verify` | accept path | tables at their limit, two clocks, spoofed sources | rates and caps hold; no slot lost; an address is validated | `Admission`, `Server` |
| Framing and types: `protocol.rs`, `transport.rs` | receive buffers | `recv_message`, `send_message`, `stream_send_all` | quiche | messages split at any point, partial writes | a frame is read whole or not at all | `Download`, `Server` (in part) |
| Web bridge: `qftp-web-bridge/src` | sessions, streams, an upload guard per request | session gates, `do_put`, `do_get`, `Rm`, `Rename` | user counters, filesystem | tasks on several workers; order of drops; late writes | the same promises as the native upload | `Bridge` |
| Client uploads: `oneshot.rs`, `sync.rs`, `watch.rs`, `transfer.rs` | local files, remote index, event batches | put, sync, watch | server | files and connections change under a command | no_clobber holds; only orphans are deleted; watch mirrors | `ClientUpload` |
| Client trust and sessions: `connect.rs`, `known_hosts.rs`, `session_store.rs` | pinned fingerprints, tickets | lookup, pin, load, save | TLS library, files | processes sharing two files; three clocks | a changed key is refused; a ticket is for its own identity and expires | `Trust` |
| Client shell and fan-out, configuration, admin tool, benchmark, metrics, page server | | | | interactive, offline or stateless | left out | |

`PROJECT.json` lists every component with its sources and status, and every
hazard with its line in the source.

## 2. Modules

| Module | What it is |
|---|---|
| `Upload` | one user's uploads, quota counters, claims and disk, with the handler threads that change the same home |
| `Server` | the event loop: connection table, caps, identity, request queue, handler pool, shutdown |
| `Download` | one get from open to verified file: the server's sender, the stream, the client |
| `AtomicCopy` | the abstract specification of a download, which `Download` implements |
| `Bridge` | the web bridge: sessions, streams, uploads and downloads as tasks |
| `Admission` | token buckets, retry tokens and the accept path that uses them |
| `Homes` | loading `users.toml`, identities, path resolution and the request handlers on a tree with links |
| `Trust` | client processes that pin certificates and save session tickets |
| `ClientUpload` | the client's put, sync and watch |
| `MCUpload` ... `MCClientUpload` | the instances: requests, trees, certificates, symmetry |
| `Sums` | the sum of a function over `1..n`, as a recursive function |
| `UploadProofs`, `ServerProofs`, `DownloadProofs`, `BridgeProofs`, `AdmissionProofs`, `HomesProofs`, `TrustProofs`, `ClientUploadProofs` | theorems about the module of that name |

The modules meet in what one assumes of the other: `ClientUpload` takes a Put as
the one step `Upload` shows it to be; `Server` allows the rate limiter to refuse
any request and `Admission` says when it does; `Server` has jobs that act in
their user's home and `Homes` shows what such a job can touch; `Bridge` uses the
counters of `Upload` from several threads.

Operators have the names of the functions they model.  An operator whose
comment begins with "Fault:" is a wrong version of the definition that follows
it; it is used only to show that a property would notice that fault.

## 3. Module `Upload`

One user, one home.  The disk is `dirs` (which directories exist), `file` and
`temp` (for each path, the inode committed there and the inode of its
`.qftp.partial`) and `data` (the content of each inode).  An inode lives while a
name or an open handle refers to it, which is what makes a partial outlive a
rename of its directory.  One unit of length is one chunk; a chunk's bytes are
abstracted to the version of the client's file they came from, and `Hole` is a
chunk nobody wrote.

| Action | Code |
|---|---|
| `start_put_fresh` | `start_put` with offset 0: create or truncate the partial, refund what a stale one was charged, reserve, check the quota, remove the partial if refused |
| `start_put_resume` | `start_put` with an offset: it must equal the partial's length |
| `drive_rehash`, `rehash_fails` | the resumed prefix goes through the hasher from the disk, in slices |
| `drive_body`, `decode_fails` | a body chunk is written, hashed and counted; a compressed body that does not decode is rejected |
| `abort_put` | every early return after which `StreamState::drop` does the accounting |
| `commit_guard`, `commit_rename`, `commit_settle` | the three parts of the commit between which a handler thread can run |
| `rm_stat`, `rm_unlink`, `rename_stat`, `rename_act`, `quota_refund` | `quota_aware_remove` and `quota_aware_rename`, one action per system call or atomic update |
| `Mkdir`, `Rmdir`, `RenameDir` | the directory requests of `handle_request` |
| `crash_and_sweep`, `walk_size` | the process dies at any point; `build_user` sweeps the stale partials and counts what is left |

A refusal that touches neither the disk nor a counter leaves the state as it
was, so it is the absence of a step: those refusals are the guards of
`put_admissible`.  `abort_put` is enabled at any time, which covers a client
that goes away, one that sends too much or too little, and a write error.

`jobs` has what each of the `NWorkers` handler threads is doing.  A thread reads
a size, acts, and refunds what it read; two threads that have the same file in
hand (`Collide`) can both refund it.  The history variable `overlapped`, which no
action reads, records that this has happened.  The two quota properties promise
something up to that moment only; `UsageKeptCorrect` and `QuotaRespected` promise
it without the condition, and the code breaks them (section 14).

## 4. Module `Server`

The connection table is a function from SCIDs to `ConnectionContext` records.
The SCID is derived from the DCID the client chose, so a connection can come
back under an SCID that the pool still holds a job of; `generation` tells them
apart.  The two channels of the pool are one set, `pool`, of jobs that are
queued, running or done.  `responses` is what the clients have seen: the
connection and stream a response went to, the connection it was computed for,
and whether it was whole.

| Action | Code |
|---|---|
| `try_acquire` | an Initial that passed the checks takes a slot, unless a cap refuses it |
| `accept_fails`, `try_accept` | `try_accept` returns early and the slot's guard gives it back, or the connection enters the table and the slot is committed |
| `handshake_completes`, `connection_ends` | what quiche reports about the peer |
| `phase_reap_connections` | closed or half-open entries go, and their slot with them |
| `upgrade_user_from_cert` | a finished handshake gives the connection its user and home, or closes it |
| `answer_inline` | refusals, Quota and Quit: answered in the loop |
| `handle_simple` | everything else: dispatched, or queued behind the job in flight |
| `worker_takes`, `worker_finishes` | a handler thread runs the job; only a successful Cd changes the directory |
| `drop_handler_result`, `apply_handler_result` | the result of a connection that is gone, or has been replaced, is dropped; else the directory is taken over, the response sent and the next request dispatched |
| `poll_without_timeout`, `packet_wakes` | the loop goes to sleep with no timer to wake it; a packet that opens no connection wakes it |
| `signal_arrives`, `phase_shutdown_drain`, `loop_stops`, `process_exits` | shutdown |

Between `try_acquire` and the end of `try_accept` the loop does nothing else (`run` is
"accepting", `slot` the prefix that is charged), but handler threads go on.

`asleep` is the other place where the loop's position in an iteration matters:
the shutdown flag was clear when it was read, and with no connection there is no
timer.  A packet, a finished job (the waker) or a signal that interrupts `poll`
ends it; setting the flag does not.

Three abstractions are worth knowing.  The timers of quiche and of the half-open
limit are not counted: an unfinished handshake may be reaped at any time, which
allows more orders than the real timers do.  The rate limiter may refuse any
request, so `answer_inline` is enabled for every request that is readable.  The
send window is a choice: any response may turn out not to fit, and then the client
has a part of it and `whole` is false.

## 5. Modules `Download` and `AtomicCopy`

One get of one path.  A file is a sequence of blocks and a hash state is the
sequence of blocks fed to it.  The stream is a sequence of cells, of which it
takes at most `Window` at a time; the client tells body from trailer by
position, as the code does, so a frame, the body and the trailer may arrive in
one read or cell by cell.

| Action | Code |
|---|---|
| `start_get`, `start_get_refused` | `start_get`: resolution, the offset against the length, the encoding |
| `drive_sending_streams` | one iteration of the loop: it goes round only if a packet came, or if `needs_local_progress` made the poll timeout zero |
| `send_phase_prefix_rehash`, `send_phase_body_identity`, `send_phase_body_zstd`, `send_phase_trailer`, `read_failed` | the phases of `drive_get`: a short write seeks the reader back and hashes what was taken; a failed read resets the stream |
| `do_get`, `recv_message_incomplete`, `do_get_response`, `do_get_refused`, `do_get_recv`, `do_get_verify` | the client: the offset is the length of whatever is at the local path; an `InvalidRange` on a resume removes it and asks again, once |
| `remote_changes`, `connection_lost` | a commit or Rm replaces the path, an open handle keeps its version; the connection goes away |

`AtomicCopy` knows nothing of streams: a source is replaced as a whole, and a
copy is one of the contents the source had while the copy was being made.
`Download` implements it with `copy` mapped to the local file once verified.

## 6. Module `Bridge`

A stream is a task; the code between two awaits is a segment, and `Workers`
segments run at a time (`MidSegment`, `runnable`).  Each step of a segment is an
atomic operation on a counter or a system call.  `spawn_blocking` work and
tokio's buffered writes run on threads of their own: `write_lands` is a write
that reaches the inode after `write_all` has returned, even after its task ended.

`session_step` covers the permit, origin and token gates and the deadline.
`reserve`, `load_used`, `load_own_size`, `load_in_flight` are the quota check
load by load; `resolve`, `claim`, `open_temp`, `open_failed`, `route_put_chunk`,
`verify_put_checksum`, `commit_put`, `settle_in_flight`, `settle_used` the rest of
`do_put`; `drop_claim`, `drop_stat`, `drop_remove`, `drop_release` what the two
guards do when they are dropped, in their order; `get_open` and `get_send` are
`do_get`; `rm` and `rename` the requests that change the same files.

Three history variables, which no action reads, record the meetings of streams after
which the code no longer keeps its promise: `overtaken` (a stream claimed the path
of an aborted upload before that upload's guard had cleaned up), `outlived` (the
same, of an upload whose own open had failed) and `torn` (a quota check had one of
its loads on each side of a settlement, or both inside it).  The passing properties
hold up to such a meeting, on any number of workers; each has a counterpart
without the condition, which the code breaks (section 14).

## 7. Module `Admission`

`try_consume` is the limiter's critical section: the sweep on its cadence, room
for a new prefix at the cap (the evicted bucket is the oldest of a sample that
the hash map's order picks, so any sample may be it), refill, take.
`try_accept` is the path of an Initial that no connection answers to: rate, retry
(`send_retry`, delivered to the owner of the source address or lost), token
(`verify`), slot.  `request` is the rate check of a request, `reap` gives a slot
back.  Anybody may write any source address; a client can replay the last token
it received.  `now` is `Instant`, which only grows, and `wall` is `SystemTime`,
which `set_clock` moves both ways.  `restart` makes a new key and an empty table.

The observer `watch` counts what one prefix is granted from an arbitrary moment
on (`start_watching`); an eviction or a restart, which forget what was spent,
begin the count again.  `AdmissionAssumption` includes `Rate * IdleCutoff >= Burst`:
a bucket idle long enough to be swept would be full again.  The code does not
enforce this; with its 300 s cutoff it holds for the default burst and rate.
`AddressValidated` is about who receives at an address: it does not depend on a
token's lifetime or on the key's, which the model has and no property is about.

## 8. Module `Homes`

A path is a sequence of names, a node a directory, a file or a link to a
directory.  `follow` is one component of the kernel's path lookup; `canonicalize`,
`way` and `located` are the lookups built from it.  `load` is `from_config`: the checks
of the specs, each home made absolute, created (`create_dir_all`, which fails on a
file in its way), canonicalised and compared with the ones before it, and the implicit
anonymous user.  `connect` gives a session its user.  A request is `resolve`
(component by component, with `..` and links), `recheck` and the system call
(`cd`, `ls`, `stat`, `get`, `mkdir`, `rmdir`, `rm`, `rename`, `set_mode`), three steps
between which the other session's steps fall.  The re-check's walk over the ancestors
is one step.  Put is here as far as names go: `put_open` makes or reopens the
partial after a re-check, `put_recheck` looks at the final path again when the body
is complete, `put_commit` renames and `put_mode` sets the mode; `put_abort` leaves
the partial, and `put_reject` removes it by its path, with no re-check of its own.
So Put has two windows, from a check to the call it is for, and one that stays open
while the body arrives, to the removal of a rejected partial.  `raced` marks a request whose
checked path was changed by a rename between its re-check and its system call: the one
window path-based calls cannot close.  The re-check looks only below the home and lets
the home itself be a link, so it relies on what `from_config` established at the start:
`HomesStayReal` says that this is still so.  `OpsStayInside` says nothing of what a raced
request touches; `OnlyOwnerWrites` makes no exception for it.

## 9. Module `Trust`

A process reads `known_hosts` and perhaps a ticket (`start`, `resume_ticket`),
tries the resolved addresses in turn (`next_address`), completes a handshake or
not (`handshake`, `handshake_fails`), checks the certificate as its mode says
(`checked`: pin, CA and name, or nothing), appends a new pin (`append_to_file`) and saves its
ticket in three system calls (`save`, `write_all`, `write_owner_only`).  It can be
killed at each.  The environment repoints an address, renews a certificate,
touches the ticket file, steps the clock and edits `known_hosts`.  Ticket files
of three formats may be lying there at the start.  The TLS library is external.
The look-up comes before the handshake and the append after it, so two first
contacts can both append; `SessionsHonourPin` says what such a pair of lines is worth,
and `EntriesDistinct` that there is no such pair, which is violated (section 14).

## 10. Module `ClientUpload`

One command against a server that others use too.  put: the probe, the clobber
decision, the upload with resume and the stale-partial retry (`put_probe`,
`put_send`, `do_put_stale`, `put_done`).  An upload can fail with nothing done, with a
partial left, or after the server's commit with the answer lost (`do_put_err`).
Whether the server commits is one step here (`committed`): the window between its
last no_clobber check and its rename is in module `Upload`.

sync: read `.qftpignore` (`load`; an error means no rules), walk the local tree
one directory at a time while files and directories change (`walk_local`; of an
unreadable directory any part of the entries is seen), connect, list the remote
tree the same way, plan, upload, delete (`establish`, `walk_remote`, `plan`,
`sync_put`, `sync_delete`).  `walked` is history: each file as it was when the walk
came to its directory.

watch: events are queued by the notifier, coalesced per path, and flushed in
batches over a connection that may be lost (`recv_event`, `flush`, `flush_upload`,
`flush_delete`, `session_lost`).  A removal is skipped when the parent directory is
gone (`flush_delete_skip`), sent and perhaps refused, which is only logged
(`flush_delete_rm`), or cut off (`flush_delete_cut`).  A file may be read while it is
being replaced (`Torn`).  Renaming a directory (`local_rename_dir`) is one pair of
events for the directory, and none for the files in it.  `lost`, `skipped` and
`unnoticed` are history: the paths whose last request failed or was never sent, the
removals given up, and the files that moved along with a directory.

## 11. Runs, bounds and what they show

Distinct states in parentheses.

| Run | Properties | Shows |
|---|---|---|
| `upload_quota` (951 486) | `TypeOK`, `OneWriterPerPartial`, `UsageNeverUndercounts`, `DiskWithinQuota` | two uploads over two paths, two handler threads that remove and rename, crashes and resumes: no partial has two writers and, up to the first time both threads have one file in hand, usage never falls short of the disk and the home never exceeds the quota |
| `upload_integrity` | `HashCoversPartial`, `CommitsVerifiedBytes` | two contents, plain, verified and compressed uploads of one path with aborts, crashes and resumes over the other content's partial: what is renamed into place is whole and is what the digest covered |
| `upload_dirs` | `InFlightExact`, `ClaimsExact` | uploads abort, resume, are rejected or crash while directories are renamed under them: reservations and claims balance |
| `server_jobs` (1 410 857) | `OneJobPerConnection`, `EveryRequestAccounted`, `RunsInOrder`, `RepliesToOwner`, `RunsAsAdmitted`, `CwdInsideHome`, `SlotsExact` | mTLS, early data, missing and unknown certificates; a connection is reaped with jobs in the pool and its SCID comes back, or another is open beside it: no request is lost, doubled, reordered, answered to the wrong connection or run as the wrong user; connections and accepts under caps that both refuse: slots come back |
| `server_live` (18 073) | `RequestsAnswered`, `ShutdownCompletes` | one handler thread, a stale job ahead in the queue, accepts that fail again and again: a request gets its whole response unless the transport cuts it off, and a drain that has begun ends |
| `download` (86 677) | `NoFalseMismatch`, `PartialKept`, `GetEnds`, `CopiesAtomically` | a get, fresh or resumed from a true, foreign or overlong prefix, plain or compressed, while the file is replaced, a read fails and the connection drops: it ends, implements `AtomicCopy`, and keeps what it has |
| `bridge` (1 981 042) | `CommittedWhole`, `ClaimProtectsTemp`, `UsageCoversDisk`, `DiskWithinQuota` | two streams on two workers, with blocking calls and writes on other threads: no mixed file, and counters that cover the disk, up to the meetings of section 6 |
| `bridge_quota_race` (violation) | `QuotaRespected` | the same instance: section 14 |
| `admission` (312 196) | `RateBounded`, `TableBounded`, `AddressValidated` | two clients, four addresses, three prefixes, a table of two buckets, spoofing, replay, clock changes and a restart |
| `homes` (135 007) | `HomesApart`, `HomesStayReal`, `OpsStayInside`, `OnlyOwnerWrites` | configurations with equal, nested, escaping and linked homes; two sessions whose requests and uploads interleave with renames of directories that hold links |
| `trust` (4 149 469) | `SessionsHonourPin`, `TicketsBound`, `CaSessionsNamed`, `TicketsExpire` | two processes under `-T`, `--ca` and `--insecure`, a silent first address, tickets of three formats, one change of the world |
| `client_upload` (2 030 516) | `NoClobberKept`, `DeletesOnlyOrphans`, `MirroredWhenQuiet` | put under three policies, sync --delete and watch, while another client writes, local files and directories change, some cannot be read, requests are refused and the connection drops, also with the answer of a committed put |

Bounds.

* Upload.  Two streams are the smallest number at which two uploads of one user
  meet; a third adds nothing to a claim or a sum.  Two paths let a rename clobber.
  A quota of two chunks with files of up to two makes one upload fill the home
  and two compete for the last chunk.  Two handler threads are the smallest number
  that can have one file in hand.  `upload_quota` stops at a state in which they
  have (`UpToOverlap`), after which its two quota properties say nothing; the type invariant
  and the single writer are proved for what comes after.  The other two runs have
  one thread, which already interleaves with the event loop at every system call.
  `MaxInodes` never refuses a step.
* Server.  `MaxGen` = 2 gives one reuse of an SCID; `MaxRequests` = 3 gives a job in
  flight and a queue of two, the shortest that has an order; two handler threads
  let a stale job and a new one run at once.  `FewRequests` allows three requests on
  the first connection and two on the next, and two in all while both are
  open.  Two SCIDs and three prefixes under caps of two and one: two connections make the
  total refuse a third prefix, and one makes its prefix's cap refuse a second; the slot
  that `try_accept` holds counts too.  `server_live` uses no symmetry.
* Download.  Files of up to five blocks are three chunks of two, so prefix and
  body both take several chunks, the last one short; a window of two cells is
  smaller than a body and than frame plus trailer.  One commit, one lost
  connection and one failed read each fall anywhere.
* Bridge.  Two workers, two tasks and two paths, bodies of up to two blocks, a quota of
  three: either upload fits, both do not.
* Admission.  Three prefixes over a table of two make evictions; a burst of one
  request and a cutoff of two ticks make the sweep drop a bucket exactly when it is full;
  a token lifetime of 0 over a wall clock of two values makes tokens expire
  and become valid again.
* Homes.  Two requests per session: one that makes the tree unexpected and one
  that meets it.  Two sessions are enough for every property, each of which is
  about one victim and one intruder.  The upload is to a file below `x`, which
  the other session can rename away and replace by a directory with a link in it.  One configuration has an empty home, which
  a request for `/` could remove.
* Trust.  Two runs of two processes, two servers, two ticks: a pin made by one
  process is met by another, and a ticket ages past its TTL between two runs.
* ClientUpload.  Two local changes make a rename after a write, a directory that is
  renamed after a file in it was written, or a change during the upload of another;
  one remote change falls between probe and upload; the connection is lost once.  A sync,
  whose walk and listing interleave with all of it, meets two of these (`FewForSync`).

Deadlock is checked in the upload runs, where a crash is always possible, and
not where the modelled system ends by itself (a finished command, an exited
process) or its bounds are used up.

Every property of every passing run has a faulty version of some definition
under which TLC finds it violated (`mutants` in `PROJECT.json`).

## 12. Fairness

`server_live` (`Server!FairSpec`):

* `LoopFairness`: reaping, the identity upgrade, the drain and the end of the
  loop are strongly fair.  The loop's poll timeout is the least of quiche's
  timers and the half-open deadlines, 250 ms while draining, and each wake-up
  goes through all phases.  Strong, because the phases come between two accepts: each is
  disabled while the loop is in `try_accept` and enabled again after it.  This
  assumes that the socket runs dry now and then: `recv_from` is called until it would
  block (server.rs:731), so a flood that never lets it would keep the loop from its
  other phases.  `try_accept` itself returns (`accept_fails` is weakly fair).  The drain is not enabled while the
  loop is `asleep`, and nothing is promised to wake it.  No property says that a
  half-open connection is reaped: this is what the fairness assumes.
* `PoolFairness`: for each request, being taken by a thread and finishing are
  weakly fair, and having its result applied is strongly fair, for the same reason.
  Each needs a different argument: the channel is FIFO and has finitely many jobs in
  front; a handler's system calls return and a panic is caught; the waker of a
  finished job wakes the loop.
* Nothing is assumed of the peers, the handshake, new connections or signals.

`download` (`Download!FairSpec`): weak fairness of the server's steps and of the
client's, each as a whole.  The server's loop runs while it is awake; whether it
wakes is part of the model (`woken`, `needs_local_progress`), so a poll that sleeps
over unfinished work is a counterexample to `GetEnds` and not excluded by
fairness.  quiche delivers what was accepted while the connection lives.  Nothing is
assumed of losses, commits or new gets.

A request need not be answered if its connection or the server goes away, or if the
transport takes only a part of the response; `RequestsAnswered` says so, and a part of
a response is not an answer.  `AlwaysResponded` does not except the last case, and is
violated under the same fairness (section 14).

## 13. Proofs

TLAPS checks every step of the eight `...Proofs` modules.  The results hold for
any constants that satisfy the assumption named in the component's module:

| Assumption | Says, and why the code allows it |
|---|---|
| `UploadAssumption` | sizes are naturals; `Hole` is no content |
| `ServerAssumption` | caps are naturals; the sets of SCIDs and prefixes are finite; every user may Cd and ask for Quota and Quit (`acl_reject` has no rule for those) |
| `DownloadAssumption` | `SEND_CHUNK_SIZE` is not 0; the window takes a framed message (`stream_send_all` fails otherwise); files are sequences of blocks |
| `BridgeAssumption` | one size bound and a quota; streams are finitely many |
| `AdmissionAssumption` | a bucket idle past the sweep's cutoff would be full again (section 7) |
| `TrustAssumption` | the resolver returned an address; tickets that lie there at the start were written by some client of this program; certificates have well-formed names |
| `TreesAssumption` | entries are directories, files or links; the root is a real directory other than `/` (`from_config` canonicalises it); the operator's links lead to directories, by their canonical paths |
| `InputsAssumption` | what the parsers return: user specs with a name, requests with one of ten operations |
| `ClientUploadAssumption` | finitely many files, named by non-empty paths |

| Theorem | Says |
|---|---|
| `UploadProofs!TypeCorrect` | `Spec => []TypeOK`: neither counter wraps below zero |
| `UploadProofs!InFlightIsExact` | `in_flight_bytes` is the sum of the open uploads' reservations |
| `UploadProofs!ClaimsAreExact` | `active_uploads` is the set of the open uploads' destinations, one upload each |
| `UploadProofs!OneWriter` | no two uploads write one partial, none writes a committed file (1) |
| `UploadProofs!HashCovers` | the hasher has seen exactly what the partial holds (1) |
| `UploadProofs!VerifiedBytesCommitted` | what is renamed into place is whole and is what the digest covered (1) |
| `UploadProofs!UsageCovered` | until two handler threads have one file in hand, cached usage and what the open uploads wrote cover the disk (1) |
| `UploadProofs!DiskStaysWithinQuota` | until then, files and partials together stay within the quota (1) |
| `ServerProofs!TypeCorrect` | `Spec => []TypeOK`; no run repeats it, `SlotsExact` says more of the counters |
| `ServerProofs!SlotsAreExact` | the counters are the numbers of entries and of the slot that an accept holds, in total and per prefix, within the caps |
| `ServerProofs!JobsRunAsAdmitted` | a job runs as the user that admitted it; with mTLS never as anonymous |
| `ServerProofs!CwdStaysInsideHome` | directories of connections and jobs belong to the user's home |
| `ServerProofs!OneJobAlways` | `handler_in_flight` is exactly "the pool holds a job of this connection", and there is at most one |
| `ServerProofs!RequestsRunInOrder` | a connection's requests run in the order they were read, each in the directory the earlier ones left |
| `ServerProofs!RequestsAccounted` | every request of a connection is waiting, in the pool or answered, and in one place only |
| `ServerProofs!ResponsesReachTheirOwner` | a response is sent on the connection it was computed for, also when an SCID comes back |
| `DownloadProofs!DigestsAgree` | at the comparison the digests agree exactly when the local prefix was a true one |
| `DownloadProofs!DownloadRefinesAtomicCopy` | `Spec => Abstract!Spec`: what is reported as verified is one content the path named meanwhile, whole |
| `DownloadProofs!PartialIsKept` | action property: bytes leave the local file only for the three reasons the code has |
| `BridgeProofs!FilesStayWhole` | until a stream is overtaken, a name refers to one upload's whole verified body |
| `BridgeProofs!ClaimsProtectTemps` | until then, from open to commit the temp path is the inode the upload writes, unless a guard it met at its claim (`outlived`) took the name |
| `BridgeProofs!CountersCoverDisk` | until then, the two counters together cover every byte on disk, except between the two operations of a settlement |
| `BridgeProofs!QuotaKept` | until a stream is overtaken or a check torn, a home within its quota at the start stays within it (2) |
| `AdmissionProofs!TypeCorrect` | `Spec => []TypeOK`: no bucket is overdrawn, over-filled or dated in the future |
| `AdmissionProofs!RateStaysBounded` | from any moment on, grants are within the burst and the refill |
| `AdmissionProofs!TableStaysBounded` | the table stays within its cap |
| `AdmissionProofs!PeersValidated` | with retry required, a connection's opener receives at its address |
| `HomesProofs!HomesAreApart` | whatever `users.toml` says and whatever links the tree holds, a directory the server starts with has its homes under the root and none inside another |
| `HomesProofs!HomesRemainReal` | every home stays a directory that no link leads to (3) |
| `HomesProofs!OpsRemainInside` | working directories stay in the home, and so does what a request touches that was not overtaken after its last check, an upload's partial, file and mode included (3) |
| `HomesProofs!OwnersWrite` | action property: what lies in a named user's home changes only by that user's own system calls, Put's included, overtaken or not (3) |
| `TrustProofs!PinsHonoured` | with `known_hosts` left alone, every session under `-T` is with the first pinned certificate, or of a process that found none and has pinned its own |
| `TrustProofs!TicketsAreBound` | the ticket file tells the truth about its blob, and a ticket is offered only for the pinned identity |
| `TrustProofs!CaSessionsAreNamed` | a session under `--ca` is with a certificate that chains and bears the name |
| `TrustProofs!TicketsAgeOut` | action property: no ticket with a save time is offered past its lifetime by more than the clock was stepped |
| `ClientUploadProofs!NoClobberAlways` | action property: `put --no-clobber` never replaces a file that is there when the server commits |
| `ClientUploadProofs!OnlyOrphansDeleted` | sync deletes only what its walk did not find and no rule it read covers: what had no local counterpart, lies in an unreadable directory, or is `.qftpignore` |
| `ClientUploadProofs!MirrorsWhenQuiet` | when watch has nothing queued, every path is mirrored but those in `lost`, `skipped` and `unnoticed` |

The numbers of uploads, handler threads and runtime workers are free everywhere.
Nine theorems carry a hypothesis, because the property is false without it
(section 14 has the counterexamples):

1. `MutDirs = {}`: clients neither rename nor remove directories.  A renamed
   directory takes running uploads' partials with it.
2. `DiskWithinQuota` in the first state: the home fits its quota when the bridge
   starts.  The check limits what uploads add; it cannot shrink a home that an
   administrator gave a quota below its size.
3. `LinksLeadAway \/ []NoRace`: the links in the tree at the start lead neither
   below the root nor above it, or no request changes the tree between another's
   re-check and its system call.  `from_config` and the handlers make no links, so
   the first is up to the operator alone; the second holds while one client is active.

The arguments.

* Upload, counters.  The invariant is `CountersInv`: the types, `InFlightExact`
  and `ClaimsExact` together.  None of them is inductive alone: `in_flight_bytes
  - reserved` is a natural only because the counter is the sum and the stream is
  one of its terms, and a `Drop` that removes a path from `active_uploads` leaves
  the others' claims alone only because no two uploads have the same path.
* Upload, content.  `ContentInv` adds that an inode has one name
  (`NamesDistinct`), that an upload's handle is the partial of its destination
  until the rename (`HoldsItsPartial`), and that nothing is left to receive or
  check between the guard and the rename (`ReadyToRename`).  The claim on the
  destination is then a claim on the inode, which is why a renamed directory
  breaks it.
* Upload, quota.  `QuotaInv` adds `Running`: usage plus uncharged bytes cover the
  disk and all that the handler threads will refund beyond what they free
  (`OwedBytes`, a sum over the threads), and usage plus reservations stay within the
  quota.  A thread owes nothing as long as the file whose size it read is still there;
  what one thread does changes what another owes only if both have that file in
  hand, which `Apart` excludes.  `Apart` is what is lost when `overlapped` becomes true, so
  the invariant that is carried through a behaviour is `overlapped \/ QuotaInv`.  After
  a crash, `Booting` says that usage is the sum of what `walk_size` has passed.  The
  bytes on disk are a sum over inodes; `FreeEmpty` says that an inode out of use
  counts 0.
* Sums.  `Total` is a recursive function.  Its algebra is by induction, which
  the provers cannot take from the library, so `UpTo` does it over a
  set of numbers with a least counterexample: `RunsExist` gives the running
  totals, `TotalRuns` says that `Total` is the last of them, `TotalUpdate`
  that changing one term changes the total by the difference.
* Slots.  `SlotsExact` is inductive on top of `TypeOK`.  The proof is about
  cardinalities: `try_acquire` charges the slot, `try_accept` turns it into one element
  of the table and of one prefix's part of it, a reap removes one, and the saturating subtraction of `release`
  never saturates because the entry being removed is counted.
* Identity.  `IdentityInv` adds to the two properties what is true of a
  connection's queue: a queued request was admitted for the connection's present
  user.  This is inductive because of two gates in different functions: with mTLS
  or named users, early data is refused altogether, and
  `upgrade_user_from_cert` runs before any stream is read; so nothing can be
  queued as anonymous on a connection that may still change its user.  Without
  mTLS a peer is never asked for a certificate, and the user never changes.
* One job.  `JobsInv` adds that every generation in the table or the pool is
  below `next_generation` and that no two entries share one, so a new connection
  cannot find a job of its own in the pool.
* Requests.  `OrderInv` orders the job in the pool before the queue and the queue
  by stream, below the next stream to be read.  `AccountInv` says where each
  stream that was read is now (pool, queue or responses) and that responses of
  one generation and stream are one response; a stale job cannot add a second
  because its generation is in nobody's entry.
* Rate.  `RateInv` says what the bound is at each stage of a bucket: while it is
  tracked, the cost of the grants plus the tokens left is covered by the burst and
  the inflow up to its last refill; one that was not touched since the watch
  began granted nothing; once it is swept, the grants cost no more than
  the inflow up to now.  The last part is where the assumption on the cutoff is needed, and it
  is what lets a full bucket be handed out afterwards.
* Retry.  `RetryInv` adds that the token a client holds is for an address it
  owns: tokens are sent to the address they are for.
* Table.  Room is made before the new bucket is added, so the bound is inductive
  with the finiteness of the set of prefixes.
* Download.  `DownloadInv` describes the stream: there are cut points of the file
  that the server opened such that the unread body cells, followed by the codec's
  pending output, are the pieces between them, from where the client is to where
  the codec is (`Holds`, `Cuts`), and after them only the part of the trailer that
  was written (`IsTrailer`).  `SenderInv` says that the server has hashed exactly
  what it has read, though it seeks back, and `Progress` that the local file is the
  hashed prefix followed by the blocks of the server's file.  What one read takes
  is one lemma for both codecs and any grouping of cells (`Taken`): the next
  stretch of the file, and a stream of the same form.  At the comparison the
  pieces have run out (`Complete`), so client and server hold files of one length that
  differ at most before the offset.  The refinement follows: `Deliver` is
  `do_get_verify` with equal digests, `GiveUp` the other ends, `Begin` a get or
  its retry.  `SeenInv` supplies that the opened file is a candidate.
* Bridge.  The claim alone does not protect a temp file: it is dropped before the guard
  removes the file.  `ClaimInv` says that nobody holds a claim on the path of an opened
  upload that is being cleaned up, which is what "not overtaken" means as an invariant.
  An upload whose own open failed is another matter: `TempInv` allows it to have taken
  the name away, and `OutlivedInv` says that it was then met at the claim.  `InodeInv`
  keeps the inodes of running uploads, of names and of open downloads apart, so that
  a late write (`write_lands`) reaches nobody else's file.
* Bridge, quota.  Every inode on disk is either covered by one upload's reservation,
  from the open to the charge or the clean-up (`Covers`; `HoldInv` adds that it is
  covered once, under its upload's own name, and no longer than the reserved size),
  or charged (`Cost`).  `UsageInv` says that `in_flight_bytes` is the number of
  blocks the reservations ask for, and that `used_bytes` is at least the cost and the
  refunds that guards in the middle of a clean-up will make (`Refunds`, summed over the
  guards).  A check between its two loads has seen at least the cost and all that is
  between the two operations of a settlement, unless it is torn (`Seen`).
  `QuotaInv` follows: charged blocks and admitted sizes together are within the
  quota.  An injection of the covered blocks into the reserved ones (`DiskCovered`)
  turns both into statements about the disk.
* Homes, paths.  A lookup is a recursive function over the components;
  `StepsExist` gives such functions for any step, and `Canonicalize` its equations.  From
  them: a path below a real directory with no link on it is found where it says
  (`NoLinkOnTheWay`), and where links lead away, a lookup ends at the path itself
  or away (`PathsStray`).
* Homes, loading.  `Settled` is the invariant of the loop over the users: the homes
  so far are real directories under the root, in the tree as the loop has left it,
  and pairwise apart.  Creating the next home cannot turn an earlier one into something else,
  because `create_dir_all` only fills what was missing (`Created`); a later home
  behind a link or a `..` is compared in its canonical form.
* Homes, requests.  `HomesInv` adds for each session what its re-check is worth
  (`Fresh`): until another session changes the tree, its paths are found where they say.
  For Put that includes that no link lies on the way (`PlainWay`), because its partial
  lies beside the path that was checked and is reached the same way (`PlainBeside`).
  `RecheckMeans` derives this from `recheck_ancestors_no_symlinks`, which looks at
  nothing above the home, so it needs every home to be real; that in turn needs every
  session to change nothing but what lies strictly below its own home or outside the root
  (`InScope`).  `HomesSurvive` closes the circle: homes are apart, so no home lies at
  or below a place in another's scope; one's own home is excluded by
  `target # root` in the re-check; and the implicit anonymous user, whose home
  contains all others, may only read (`Writers`).
* Trust.  `TrustInv` says of each process at each of its steps what it has read
  and what it will write: the ticket in its temporary file tells the truth, and the
  pin it checked was the first line for its host in a file that others only extend.
* Client.  The walk of sync is a search of a tree that changes: `Accounted` says of
  each file that the walk has found it, had no reason to, or has a directory above it
  left to visit.  A file's directories exist (`DirsInv`), so a directory that is visited
  pushes the one below it that leads to the file (`ChildToward`).  `SyncInv` keeps the
  delete plan within what the finished walk left over, and empty as long as an upload may
  fail.  `WatchInv` is about the last event of each path: it, the batch, or the upload in
  progress will bring the remote file to the local content, unless the path is in
  `lost`, `skipped` or `unnoticed`; `Tells` is what the events of a change must say for
  this to be kept.

Only model-checked, and why:

* `RequestsAnswered`, `ShutdownCompletes`, `GetEnds`: liveness
  under fairness is out of the prover's reach.

## 14. Where the code and its own words disagree

One is kept as a run that must end in a violation; the quotation is in `PROJECT.json`.

* `bridge_quota_race` (`QuotaRespected`): `do_put` takes a committed upload out of
  `in_flight_bytes` and then adds it to `used_bytes`.  With two workers a second
  upload can check the quota in between and see the bytes in neither counter; the
  comment at the check (transfer.rs:465) says that concurrent uploads cannot overshoot.

For the others the modules define the property without the condition that the checked
one states.  Each is violated when it takes the place of the properties in the named
configuration:

| Property | Configuration | The code says | What happens |
|---|---|---|---|
| `Upload!UsageKeptCorrect` | `Upload_quota.cfg` without its constraint | `Rm` "keeps the per-user `used_bytes` cache correct" (handler.rs:403) | two handler threads, with an Rm and a Rename or two Renames of one file, read its size and both refund it (handler.rs:476) |
| `Upload!QuotaRespected` | the same | Puts that would push the home past its quota are refused (user.rs:150) | the understated usage then lets a Put through |
| `Upload!CommitsVerifiedBytes` | `Upload_integrity.cfg` with `Dirs` and `MutDirs` = `{a, b}` | the claim keeps two Puts from writing one file (stream.rs:285) | the claim is on a path and the bytes are in an inode: renaming the directory of a running upload lets a second Put write the same partial |
| `Bridge!NeverInterleaved` | `Bridge.cfg` | the claim keeps a second upload from interleaving writes into the temp file (transfer.rs:592) | an aborted upload drops its claim before its guard removes the temp file; a second upload opens that file, and a late write of the first lands in it |
| `Bridge!TempNameKept` | `Bridge.cfg`, also with `Workers = 1` | the second of two Puts that share a temp is refused (user.rs:178) | an upload whose open failed has dropped its claim and keeps its guard until the reply is written; the guard removes the temp of the next upload |
| `Bridge!UsageKeptSafe` | `Bridge.cfg` | after the guard's refund the next check "sees the correct on-disk state" (transfer.rs:431) | the guard stats and removes another upload's temp, and the counters hold the bytes of one of them only |
| `Server!AlwaysResponded` | `Server_live.cfg` | "the client always gets a response" (server.rs:378) | `apply_handler_result` only logs a response that did not fit the stream's window (server.rs:503); the client keeps an open connection with part of a frame on it |
| `Trust!EntriesDistinct` | `Trust.cfg` | the lock is there "so we don't get duplicate or interleaved entries" (known_hosts.rs:197) | the look-up is before the handshake and not under the lock, so two first contacts both append |
| `ClientUpload!OrphansOnly` | `ClientUpload.cfg` | "--delete removes remote files that have no local counterpart" (sync.rs:10) | a local directory that cannot be read counts as empty (sync.rs:264), and its remote files are removed; so is a remote `.qftpignore` |
| `ClientUpload!ExcludedKept` | `ClientUpload.cfg` | deleting an excluded file "would destroy a file the user explicitly told sync to leave alone" (sync.rs:141) | a `.qftpignore` that cannot be read yields no rules (sync.rs:341), and `--delete` removes what it excludes |
| `ClientUpload!RemovalsSent` | `ClientUpload.cfg` | "If even the parent disappeared, just trust the strip prefix check; we're only sending an Rm" (watch.rs:284) | the removal is skipped (watch.rs:291), and the remote files of a removed directory stay |
| `ClientUpload!RenamesMirrored` | `ClientUpload.cfg` | rename modes are split out so that the source is not left "on the remote forever" (watch.rs:208) | a renamed directory is one path: its Rm is refused and logged (watch.rs:374), its upload skipped (watch.rs:338), and the remote keeps every file under the old name |

Seen in the models, without a property of their own:

* Upload, overwrite drift: a Put over an existing file charges the new bytes and
  never refunds the replaced ones (transfer_put.rs:979), so cached usage only
  drifts upwards until the next restart; Rename handles the same case.
* Homes, removal without a re-check: the comment at the commit (transfer_put.rs:940)
  says that every other mutating system call re-checks right before the call; the
  removal of a rejected partial (transfer_put.rs:67) does not (`put_reject`).
* Homes, raced link: with a link that leads back into the root (`a/y/d` to the root) and
  a directory `x/d/b` in a's home, a Rmdir of `x/d/b` that has passed its re-check
  (handler.rs:232) and is overtaken by the renames of `x` to `z` and of `y` to `x`
  removes b's empty home, and `HomesStayReal` is violated.  The comment at
  handler.rs:231 says that the re-check only narrows this window.

Two in the server are visible in the model's actions, outside what the
liveness properties promise:

* With no connection open, `poll` waits without a timeout (server.rs:717), and a
  signal handled after the flag was checked and before the wait began wakes
  nobody: `poll_without_timeout` then has no `phase_shutdown_drain`.
* A signal delivered inside `poll` makes `run` return the interrupted error
  (server.rs:598); connections are not drained (`signal_arrives`).

And in the client:

* watch: the batch is local to a session, so the events of a lost connection
  are gone, and a failed put or a refused Rm is not tried again (`lost`).
* sync exits with success although uploads failed (it then deletes nothing).
* sync: the comment at sync.rs:75 says that parse failures fall back to an empty rule
  set with a warning; the parser skips the lines it cannot use, one by one.
* put in interactive mode: a file that appears after the probe is overwritten
  without a question, as no_clobber is set only where the probe's answer asks for it.

And in `Admission`: `try_accept` verifies a token twice, reading the clock each
time (server.rs:960, 992), so that a token may expire in between; it is then
treated as a bad token, which is one of the outcomes `try_accept` has.

## 15. What is not modelled

* The inline fallback of `dispatch_handler_job` for a pool whose channel is
  closed.  The threads end only when the sender is dropped, after `run` has
  returned, and a handler's panic is caught, so it cannot be reached.
* A `no_clobber` commit re-checks the destination and then renames over it
  unconditionally; a Rename that lands between the two is overwritten.  `Upload`
  has the two steps and shows the window as soon as `Renames` is not empty; no
  run is kept for it.  The bridge's commit does not look again at all
  (transfer.rs:804), nor does `Bridge!commit_put`.
* A bridge process and a server process on one home.  Each has its own `used_bytes`,
  `in_flight_bytes` and claims, so neither sees the other's uploads until a restart.
  `Upload` and `Bridge` each have one process.
* What the notifier itself misses: files created in a new directory before it is
  watched.  `ClientUpload` takes one event per change of a watched path as given.
* Empty local directories: sync and watch send files only.
* Failures of system calls that no client can cause (`ftruncate` on an open
  partial, `recv_from` reporting an ICMP error).
* The cryptography: handshake, certificates, tickets and MACs are what the
  libraries report.
* Serialisation of messages, the codec's bytes, UDP batching and pacing,
  logging, metrics, the page server of the bridge, argument and configuration
  parsing: data without control, or stateless.
* The interactive shell, recursive get and put, fan-out (independent puts on
  threads that share nothing), the client's requests that only print an answer,
  the admin tool, the benchmark and the conformance runner.

## 16. Plan

Models to add if the code grows: the recursive transfers of the shell, and the
pool's inline fallback once it can be reached.
