------------------------------- MODULE Upload -------------------------------
(***************************************************************************)
(* One user's uploads in the native qftp server: the Put stream state      *)
(* machine (transfer_put.rs, stream.rs), the quota counters and the claim  *)
(* set it shares with every connection of that user (user.rs), and the     *)
(* handler-pool threads that run Rm, Rename, Mkdir and Rmdir on the same   *)
(* home directory at the same time (handler.rs).                           *)
(*                                                                         *)
(* Two kinds of thread take steps.  The event loop owns every Put: what it *)
(* does to one stream between two reads of that stream is one action,      *)
(* except that the commit is three (guard, rename, settle) because a       *)
(* handler thread can run between any two of its system calls and see the  *)
(* difference.  A handler thread's Rm and Rename are likewise split at     *)
(* their system calls: read the size, act, refund.                         *)
(*                                                                         *)
(* One unit of length is one chunk.  The bytes of a chunk are abstracted   *)
(* to the version of the client's file they were read from.                *)
(***************************************************************************)
EXTENDS Integers, Sequences, Sums

CONSTANTS
    Dirs,        \* directories directly under the user's home
    MutDirs,     \* the ones clients also rename, create and remove
    Names,       \* file names
    Removes,     \* paths clients ask to Rm
    Renames,     \* <<from, to>> pairs of paths clients ask to Rename
    NStreams,    \* upload streams open at once
    NWorkers,    \* HANDLER_WORKERS, the handler-pool threads
    MaxInodes,   \* files, partials and open handles on disk at once
    MaxFile,     \* MAX_FILE_SIZE, in chunks
    Versions,    \* contents the clients upload
    Options,     \* the [no_clobber, checksum, zstd] combinations clients send
    Quota,       \* quota_bytes, in chunks
    Hole         \* a chunk nobody wrote (a write past a truncated end)

ASSUME UploadAssumption ==
    /\ MutDirs \subseteq Dirs
    /\ Removes \subseteq Dirs \X Names
    /\ Renames \subseteq (Dirs \X Names) \X (Dirs \X Names)
    /\ NStreams \in Nat
    /\ NWorkers \in Nat
    /\ MaxInodes \in Nat
    /\ MaxFile \in Nat
    /\ Options \subseteq [no_clobber: BOOLEAN, checksum: BOOLEAN, zstd: BOOLEAN]
    /\ Quota \in Nat
    /\ Hole \notin Versions

VARIABLES
    dirs,             \* the directories that exist
    file,             \* path -> inode committed there, or NoInode
    temp,             \* path -> inode of its `.qftp.partial`, or NoInode
    data,             \* inode -> content
    used_bytes,       \* User::used_bytes
    in_flight_bytes,  \* User::in_flight_bytes
    active_uploads,   \* User::active_uploads, the claimed destinations
    streams,          \* StreamState::ReadingFileData of the open uploads
    loop,             \* where the event loop is inside a commit, or booting
    jobs,             \* what each busy handler thread is in the middle of
    overlapped        \* history: two handler threads have had the same file in hand

diskVars == <<dirs, file, temp, data>>
userVars == <<used_bytes, in_flight_bytes, active_uploads>>
vars == <<diskVars, userVars, streams, loop, jobs, overlapped>>

Path == Dirs \X Names
StreamId == 1..NStreams
Workers == 1..NWorkers
NoInode == 0
Inode == 1..MaxInodes
Content == Seq(Versions \cup {Hole})

ReadingFileData ==
    [path: Path, inode: Inode, version: Versions, opt: Options,
     reserved: Nat, remaining: Nat, prior: Nat, hashed: Content,
     to_rehash: Nat]   \* ResumeRehash::remaining; 0 once rehash is None

Job == [op: {"rm", "rename"}, pc: {"act", "refund"},
        from: Path, to: Path, size: Nat]

Loop == [pc: {"idle", "rename", "settle"}, stream: {0} \cup StreamId,
         uncounted: {{}}]
   \cup [pc: {"boot"}, stream: {0}, uncounted: SUBSET Path]

Idle == [pc |-> "idle", stream |-> 0, uncounted |-> {}]

TypeOK ==
    /\ dirs \in SUBSET Dirs
    /\ file \in [Path -> Inode \cup {NoInode}]
    /\ temp \in [Path -> Inode \cup {NoInode}]
    /\ data \in [Inode -> Content]
    /\ used_bytes \in Nat
    /\ in_flight_bytes \in Nat
    /\ active_uploads \in SUBSET Path
    /\ DOMAIN streams \subseteq StreamId
    /\ streams \in [DOMAIN streams -> ReadingFileData]
    /\ loop \in Loop
    /\ loop.pc \in {"rename", "settle"} => loop.stream \in DOMAIN streams
    /\ DOMAIN jobs \subseteq Workers
    /\ jobs \in [DOMAIN jobs -> Job]
    /\ overlapped \in BOOLEAN

Init ==
    /\ dirs = Dirs
    /\ file = [p \in Path |-> NoInode]
    /\ temp = [p \in Path |-> NoInode]
    /\ data = [i \in Inode |-> <<>>]
    /\ used_bytes = 0
    /\ in_flight_bytes = 0
    /\ active_uploads = {}
    /\ streams = <<>>
    /\ loop = Idle
    /\ jobs = <<>>
    /\ overlapped = FALSE

-----------------------------------------------------------------------------
(***************************************************************************)
(* The filesystem the server runs on: names, inodes and open handles.      *)
(***************************************************************************)

InUse(i) ==
    \/ \E p \in Path : file[p] = i \/ temp[p] = i
    \/ \E s \in DOMAIN streams : streams[s].inode = i

\* An inode lives while a name or an open handle refers to it.
Store(d) == data' = [i \in Inode |-> IF InUse(i)' THEN d[i] ELSE <<>>]

\* A new file takes the lowest free inode (any one would do).
Fresh(i) == /\ ~InUse(i)
            /\ \A j \in Inode : j < i => InUse(j)

\* The length fs::symlink_metadata reports for the regular file at p.
SizeAt(p) == IF file[p] = NoInode THEN 0 ELSE Len(data[file[p]])

\* Content d after one chunk v is written at chunk position n (from 0).
WriteAt(d, n, v) ==
    [k \in 1..(IF Len(d) > n THEN Len(d) ELSE n + 1) |->
        IF k = n + 1 THEN v ELSE IF k <= Len(d) THEN d[k] ELSE Hole]

\* Fault: a plain subtraction, which a u64 would wrap.
UnsaturatedSub(a, b) == a - b

SaturatingSub(a, b) == IF a > b THEN a - b ELSE 0

With(f, x, v) == [y \in DOMAIN f \cup {x} |-> IF y = x THEN v ELSE f[y]]
Without(f, x) == [y \in DOMAIN f \ {x} |-> f[y]]

-----------------------------------------------------------------------------
(***************************************************************************)
(* How a stream ends (transfer_put.rs, stream.rs).                         *)
(***************************************************************************)

\* Fault: the claim is forgotten when the state drops.
drop_leaking_claim(s) ==
    /\ streams' = Without(streams, s)
    /\ UNCHANGED active_uploads

\* The state drops: its claim goes with it.
Drop(s) ==
    /\ streams' = Without(streams, s)
    /\ active_uploads' = active_uploads \ {streams[s].path}

\* Fault: an abort releases the reservation but does not charge the partial.
abort_uncharged(s) ==
    /\ in_flight_bytes' = in_flight_bytes - streams[s].reserved
    /\ UNCHANGED <<used_bytes, dirs, file, temp>>
    /\ Drop(s)
    /\ Store(data)

\* Fault: an abort releases only what was still to come.
abort_releasing_rest(s) ==
    /\ in_flight_bytes' = in_flight_bytes - streams[s].remaining
    /\ used_bytes' = used_bytes
                     + SaturatingSub(streams[s].reserved, streams[s].remaining)
    /\ UNCHANGED <<dirs, file, temp>>
    /\ Drop(s)
    /\ Store(data)

\* StreamState::drop of an upload that did not complete: the reservation is
\* released and what this session wrote is charged, because the partial
\* stays on disk for a later resume.
AbortAccounting(s) ==
    /\ in_flight_bytes' = in_flight_bytes - streams[s].reserved
    /\ used_bytes' = used_bytes
                     + SaturatingSub(streams[s].reserved, streams[s].remaining)
    /\ UNCHANGED <<dirs, file, temp>>
    /\ Drop(s)
    /\ Store(data)

\* cleanup_rejected_upload: the partial is known bad and is deleted, the
\* reservation released and the resumed prefix refunded.
cleanup_rejected_upload(s) ==
    /\ temp' = [temp EXCEPT ![streams[s].path] = NoInode]
    /\ in_flight_bytes' = in_flight_bytes - streams[s].reserved
    /\ used_bytes' = SaturatingSub(used_bytes, streams[s].prior)
    /\ UNCHANGED <<dirs, file>>
    /\ Drop(s)
    /\ Store(data)

-----------------------------------------------------------------------------
(***************************************************************************)
(* start_put.  A request refused before it touches the disk or a counter   *)
(* leaves the state as it was: those refusals are the guards.              *)
(***************************************************************************)

\* Fault: no UploadClaim.
put_unclaimed(s, p, offset, size, opt) ==
    /\ loop = Idle
    /\ s \notin DOMAIN streams
    /\ \A t \in StreamId : t < s => t \in DOMAIN streams
    /\ offset > 0 => opt.checksum
    /\ opt.zstd => opt.checksum
    /\ offset + size <= MaxFile
    /\ p[1] \in dirs
    /\ ~(opt.no_clobber /\ file[p] # NoInode)

put_admissible(s, p, offset, size, opt) ==
    /\ loop = Idle
    /\ s \notin DOMAIN streams
    /\ \A t \in StreamId : t < s => t \in DOMAIN streams  \* any free slot would do
    /\ offset > 0 => opt.checksum
    /\ opt.zstd => opt.checksum
    /\ offset + size <= MaxFile
    /\ p[1] \in dirs
    /\ ~(opt.no_clobber /\ file[p] # NoInode)
    /\ p \notin active_uploads                  \* UploadClaim::try_claim

\* Fault: the check does not see the other uploads' reservations.
over_quota_alone(used, size) == used + size > Quota

\* The in-flight reservation counts in its own check.
over_quota(used, size) == used + in_flight_bytes + size > Quota

\* Fault: a resume goes straight to the body.
accept_unhashed(s, p, i, offset, size, v, opt) ==
    /\ in_flight_bytes' = in_flight_bytes + size
    /\ active_uploads' = active_uploads \cup {p}
    /\ streams' = With(streams, s,
          [path |-> p, inode |-> i, version |-> v, opt |-> opt,
           reserved |-> size, remaining |-> size, prior |-> offset,
           hashed |-> <<>>, to_rehash |-> 0])

accept_put(s, p, i, offset, size, v, opt) ==
    /\ in_flight_bytes' = in_flight_bytes + size
    /\ active_uploads' = active_uploads \cup {p}
    /\ streams' = With(streams, s,
          [path |-> p, inode |-> i, version |-> v, opt |-> opt,
           reserved |-> size, remaining |-> size, prior |-> offset,
           hashed |-> <<>>, to_rehash |-> offset])

\* offset = 0: create or reuse the partial.  A stale one is refunded and
\* truncated before the quota check, and removed if that check fails.
start_put_fresh(s, p, size, v, opt) ==
    /\ put_admissible(s, p, 0, size, opt)
    /\ \E i \in Inode :
        /\ IF temp[p] # NoInode THEN i = temp[p] ELSE Fresh(i)
        /\ LET refunded == SaturatingSub(used_bytes, Len(data[i])) IN
            /\ used_bytes' = refunded
            /\ \/ /\ ~over_quota(refunded, size)
                  /\ temp' = [temp EXCEPT ![p] = i]
                  /\ accept_put(s, p, i, 0, size, v, opt)
               \/ /\ over_quota(refunded, size)
                  /\ temp' = [temp EXCEPT ![p] = NoInode]
                  /\ UNCHANGED <<in_flight_bytes, active_uploads, streams>>
        /\ UNCHANGED <<dirs, file, loop, jobs, overlapped>>
        /\ Store([data EXCEPT ![i] = <<>>])

\* offset > 0: the partial must exist and be exactly that long.
start_put_resume(s, p, size, v, opt) ==
    /\ temp[p] # NoInode
    /\ LET offset == Len(data[temp[p]]) IN
        /\ offset > 0
        /\ put_admissible(s, p, offset, size, opt)
        /\ ~over_quota(used_bytes, size)
        /\ accept_put(s, p, temp[p], offset, size, v, opt)
    /\ UNCHANGED <<diskVars, used_bytes, loop, jobs, overlapped>>

-----------------------------------------------------------------------------
(***************************************************************************)
(* drive_put, one chunk at a time.                                         *)
(***************************************************************************)

\* One slice of the resumed prefix through the hasher, from the disk.
drive_rehash(s) ==
    LET st == streams[s]
        pos == st.prior - st.to_rehash + 1 IN
    /\ loop = Idle
    /\ st.to_rehash > 0
    /\ pos <= Len(data[st.inode])
    /\ streams' = [streams EXCEPT
          ![s].hashed = Append(@, data[st.inode][pos]),
          ![s].to_rehash = @ - 1]
    /\ UNCHANGED <<diskVars, userVars, loop, jobs, overlapped>>

\* The partial shrank, or reading it failed.
rehash_fails(s) ==
    /\ loop = Idle
    /\ streams[s].to_rehash > 0
    /\ cleanup_rejected_upload(s)
    /\ UNCHANGED <<loop, jobs, overlapped>>

\* Phase A: one body chunk is written, hashed and counted.
drive_body(s, v) ==
    LET st == streams[s] IN
    /\ loop = Idle
    /\ st.to_rehash = 0
    /\ st.remaining > 0
    /\ streams' = [streams EXCEPT ![s].hashed = Append(@, v),
                                  ![s].remaining = @ - 1]
    /\ UNCHANGED <<dirs, file, temp, userVars, loop, jobs, overlapped>>
    /\ Store([data EXCEPT ![st.inode] =
                 WriteAt(@, st.prior + st.reserved - st.remaining, v)])

\* A compressed body that does not decode to what was declared.
decode_fails(s) ==
    /\ loop = Idle
    /\ streams[s].to_rehash = 0
    /\ streams[s].opt.zstd
    /\ cleanup_rejected_upload(s)
    /\ UNCHANGED <<loop, jobs, overlapped>>

\* Every other way an upload ends early: the connection goes away or idles
\* out, the client sends too much or stops short of the body or the trailer.
abort_put(s) ==
    /\ loop = Idle
    /\ AbortAccounting(s)
    /\ UNCHANGED <<loop, jobs, overlapped>>

\* What the client's digest covers: its whole file, prefix included.
Digest(st) == [k \in 1..(st.prior + st.reserved) |-> st.version]

\* Fault: only the bytes of this session are compared.
verified_body_only(st) ==
    st.opt.checksum =>
        \A k \in (st.prior + 1)..(st.prior + st.reserved) : st.hashed[k] = st.version

verified(st) == st.opt.checksum => st.hashed = Digest(st)

\* Phase B up to the rename: checksum, ancestor re-check, and
\* no_clobber_commit_guard.
commit_guard(s) ==
    LET st == streams[s] IN
    /\ loop = Idle
    /\ st.to_rehash = 0
    /\ st.remaining = 0
    /\ UNCHANGED <<jobs, overlapped>>
    /\ \/ /\ ~verified(st)
          /\ cleanup_rejected_upload(s)
          /\ UNCHANGED loop
       \/ /\ verified(st)
          /\ st.path[1] \notin dirs
          /\ AbortAccounting(s)
          /\ UNCHANGED loop
       \/ /\ verified(st)
          /\ st.path[1] \in dirs
          /\ st.opt.no_clobber /\ file[st.path] # NoInode
          /\ cleanup_rejected_upload(s)
          /\ UNCHANGED loop
       \/ /\ verified(st)
          /\ st.path[1] \in dirs
          /\ ~(st.opt.no_clobber /\ file[st.path] # NoInode)
          /\ loop' = [Idle EXCEPT !.pc = "rename", !.stream = s]
          /\ UNCHANGED <<diskVars, userVars, streams>>

\* fs::rename(temp_path, final_path): whatever is at the destination goes.
commit_rename(s) ==
    LET p == streams[s].path IN
    /\ loop.pc = "rename" /\ loop.stream = s
    /\ UNCHANGED <<jobs, overlapped>>
    /\ \/ /\ temp[p] # NoInode
          /\ file' = [file EXCEPT ![p] = temp[p]]
          /\ temp' = [temp EXCEPT ![p] = NoInode]
          /\ loop' = [loop EXCEPT !.pc = "settle"]
          /\ UNCHANGED <<dirs, userVars, streams>>
          /\ Store(data)
       \/ /\ temp[p] = NoInode
          /\ AbortAccounting(s)
          /\ loop' = Idle

\* The reservation becomes usage; the stream is done.
commit_settle(s) ==
    /\ loop.pc = "settle" /\ loop.stream = s
    /\ in_flight_bytes' = in_flight_bytes - streams[s].reserved
    /\ used_bytes' = used_bytes + streams[s].reserved
    /\ Drop(s)
    /\ loop' = Idle
    /\ UNCHANGED <<dirs, file, temp, jobs, overlapped>>
    /\ Store(data)

-----------------------------------------------------------------------------
(***************************************************************************)
(* Handler threads (handler.rs).  They run while the event loop does, and  *)
(* never touch a partial by name; renaming its directory moves it though.  *)
(***************************************************************************)

\* The server is up and a handler thread is free to take a job (any free one
\* would do).
Free(w) ==
    /\ loop.pc # "boot"
    /\ w \in Workers \ DOMAIN jobs
    /\ \A v \in Workers : v < w => v \in DOMAIN jobs

\* The file whose length a job read, and refunds once that file is gone.
Victim(j) == IF j.op = "rm" THEN j.from ELSE j.to

\* One job can remove, replace or move away what the other is going to refund.
Collide(i, j) == Victim(i) \in {j.from, j.to} \/ Victim(j) \in {i.from, i.to}

take_job(w, j) ==
    /\ jobs' = With(jobs, w, j)
    /\ overlapped' = (overlapped \/ \E v \in DOMAIN jobs : Collide(jobs[v], j))
    /\ UNCHANGED <<diskVars, userVars, streams, loop>>

\* quota_aware_remove up to the size it read before removing.
rm_stat(w, p) ==
    /\ Free(w)
    /\ file[p] # NoInode
    /\ take_job(w, [op |-> "rm", pc |-> "act", from |-> p, to |-> p,
                    size |-> SizeAt(p)])

\* fs::remove_file: refund follows only a removal that worked.
rm_unlink(w) ==
    /\ jobs[w].op = "rm" /\ jobs[w].pc = "act"
    /\ IF file[jobs[w].from] # NoInode
       THEN jobs' = [jobs EXCEPT ![w].pc = "refund"]
       ELSE jobs' = Without(jobs, w)
    /\ file' = [file EXCEPT ![jobs[w].from] = NoInode]
    /\ UNCHANGED <<dirs, temp, userVars, streams, loop, overlapped>>
    /\ Store(data)

\* quota_aware_rename up to the size of what it is about to clobber.
rename_stat(w, p, q) ==
    /\ Free(w)
    /\ take_job(w,
          [op |-> "rename", pc |-> "act", from |-> p, to |-> q,
           size |-> IF p # q /\ file[p] # NoInode THEN SizeAt(q) ELSE 0])

\* handle_request's Rename arm resolves both paths again, then renames.
rename_act(w) ==
    LET j == jobs[w] IN
    /\ j.op = "rename" /\ j.pc = "act"
    /\ \/ /\ file[j.from] # NoInode /\ j.to[1] \in dirs
          /\ jobs' = [jobs EXCEPT ![w].pc = "refund"]
          /\ file' = IF j.from = j.to THEN file
                     ELSE [file EXCEPT ![j.to] = file[j.from],
                                       ![j.from] = NoInode]
       \/ /\ ~(file[j.from] # NoInode /\ j.to[1] \in dirs)
          /\ jobs' = Without(jobs, w)
          /\ UNCHANGED file
    /\ UNCHANGED <<dirs, temp, userVars, streams, loop, overlapped>>
    /\ Store(data)

\* The refund at the end of both.
quota_refund(w) ==
    /\ jobs[w].pc = "refund"
    /\ used_bytes' = SaturatingSub(used_bytes, jobs[w].size)
    /\ jobs' = Without(jobs, w)
    /\ UNCHANGED <<diskVars, in_flight_bytes, active_uploads, streams, loop, overlapped>>

Empty(d) == \A n \in Names : file[<<d, n>>] = NoInode /\ temp[<<d, n>>] = NoInode

Mkdir(w, d) ==
    /\ Free(w) /\ d \notin dirs
    /\ dirs' = dirs \cup {d}
    /\ UNCHANGED <<file, temp, data, userVars, streams, loop, jobs, overlapped>>

Rmdir(w, d) ==
    /\ Free(w) /\ d \in dirs /\ Empty(d)
    /\ dirs' = dirs \ {d}
    /\ UNCHANGED <<file, temp, data, userVars, streams, loop, jobs, overlapped>>

\* Rename of a directory, partials included.  rename(2) accepts an absent or
\* an empty destination; a directory is no regular file, so nothing is
\* refunded.
RenameDir(w, a, b) ==
    /\ Free(w) /\ a # b
    /\ a \in dirs
    /\ Empty(b)
    /\ dirs' = (dirs \ {a}) \cup {b}
    /\ file' = [p \in Path |-> IF p[1] = b THEN file[<<a, p[2]>>]
                               ELSE IF p[1] = a THEN NoInode ELSE file[p]]
    /\ temp' = [p \in Path |-> IF p[1] = b THEN temp[<<a, p[2]>>]
                               ELSE IF p[1] = a THEN NoInode ELSE temp[p]]
    /\ UNCHANGED <<data, userVars, streams, loop, jobs, overlapped>>

-----------------------------------------------------------------------------
(***************************************************************************)
(* The process dies at any point and starts again (user.rs).  Nothing of   *)
(* it survives but the disk; a stream's last chunk may still have been in  *)
(* its BufWriter.                                                          *)
(***************************************************************************)

LastChunkLost(lost) ==
    [i \in Inode |->
        IF \E s \in lost : streams[s].inode = i /\ Len(data[i]) > streams[s].prior
        THEN SubSeq(data[i], 1, Len(data[i]) - 1) ELSE data[i]]

\* sweep_stale_partials removes the partials older than a day, then walk_size
\* starts from zero.
crash_and_sweep(lost, stale) ==
    /\ temp' = [p \in Path |-> IF p \in stale THEN NoInode ELSE temp[p]]
    /\ used_bytes' = 0
    /\ in_flight_bytes' = 0
    /\ active_uploads' = {}
    /\ streams' = <<>>
    /\ jobs' = <<>>
    /\ loop' = [pc |-> "boot", stream |-> 0, uncounted |-> Path]
    /\ UNCHANGED <<dirs, file, overlapped>>
    /\ Store(LastChunkLost(lost))

LenOf(i) == IF i = NoInode THEN 0 ELSE Len(data[i])

\* walk_size visits the files of one path; after the last the server is up.
walk_size(p) ==
    /\ loop.pc = "boot"
    /\ used_bytes' = used_bytes + LenOf(file[p]) + LenOf(temp[p])
    /\ loop' = IF loop.uncounted = {p} THEN Idle
               ELSE [loop EXCEPT !.uncounted = @ \ {p}]
    /\ UNCHANGED <<diskVars, in_flight_bytes, active_uploads, streams, jobs, overlapped>>

-----------------------------------------------------------------------------
PutStep(s) ==
    \/ drive_rehash(s)
    \/ rehash_fails(s)
    \/ \E v \in Versions : drive_body(s, v)
    \/ decode_fails(s)
    \/ abort_put(s)
    \/ commit_guard(s)
    \/ commit_rename(s)
    \/ commit_settle(s)

Next ==
    \/ \E s \in StreamId, p \in Path, size \in 0..MaxFile, v \in Versions, opt \in Options :
        \/ start_put_fresh(s, p, size, v, opt)
        \/ start_put_resume(s, p, size, v, opt)
    \/ \E s \in DOMAIN streams : PutStep(s)
    \/ \E w \in Workers :
        \/ \E p \in Removes : rm_stat(w, p)
        \/ \E r \in Renames : rename_stat(w, r[1], r[2])
        \/ \E d \in MutDirs : Mkdir(w, d) \/ Rmdir(w, d)
        \/ \E a, b \in MutDirs : RenameDir(w, a, b)
    \/ \E w \in DOMAIN jobs : rm_unlink(w) \/ rename_act(w) \/ quota_refund(w)
    \/ \E lost \in SUBSET DOMAIN streams, stale \in SUBSET {p \in Path : temp[p] # NoInode} :
        crash_and_sweep(lost, stale)
    \/ \E p \in loop.uncounted : walk_size(p)

Spec == Init /\ [][Next]_vars

-----------------------------------------------------------------------------
(***************************************************************************)
(* Properties.                                                             *)
(***************************************************************************)

\* What each stream slot has reserved against the user's in-flight counter.
Reservations ==
    [s \in StreamId |-> IF s \in DOMAIN streams THEN streams[s].reserved ELSE 0]

\* The in-flight counter is exactly what the open uploads reserved: every way
\* an upload ends (commit, rejection, Drop) gives its reservation back once
\* and only once, so the counter neither leaks nor wraps below zero.
InFlightExact == in_flight_bytes = Total(Reservations, NStreams)

\* active_uploads is exactly the destinations of the open uploads, and no two
\* open uploads have the same one (UploadClaim).
ClaimsExact ==
    /\ active_uploads = {streams[s].path : s \in DOMAIN streams}
    /\ \A s, t \in DOMAIN streams : streams[s].path = streams[t].path => s = t

Settling(s) == loop.pc = "settle" /\ loop.stream = s

\* No two uploads hold the same partial, and an upload that has not begun to
\* commit does not hold a committed file: the interleaved writes UploadClaim is
\* there to prevent cannot happen.
OneWriterPerPartial ==
    \A s \in DOMAIN streams :
        /\ \A t \in DOMAIN streams : streams[s].inode = streams[t].inode => s = t
        /\ ~Settling(s) => \A p \in Path : file[p] # streams[s].inode

\* What is renamed into place is whole, and is what the digest covered.  The
\* hash is taken over the bytes received, not over the file, so this needs the
\* partial to have had one writer and the resumed prefix to be what was read.
CommitsVerifiedBytes ==
    loop.pc = "rename" =>
        LET st == streams[loop.stream]
            i == temp[st.path] IN
        i # NoInode =>
            /\ Len(data[i]) = st.prior + st.reserved
            /\ st.opt.checksum => data[i] = Digest(st)

\* The hasher has seen exactly the bytes of the partial: while the resumed
\* prefix is re-read, its first part; afterwards, the whole of it.  The length
\* is the prefix plus what this session wrote, which is what Drop charges on
\* an abort, a resume must match and a fresh Put refunds.
HashCoversPartial ==
    \A s \in DOMAIN streams :
        LET st == streams[s]
            d == data[st.inode] IN
        /\ Len(d) = st.prior + st.reserved - st.remaining
        /\ st.remaining <= st.reserved
        /\ st.to_rehash > 0 => /\ st.remaining = st.reserved
                               /\ st.to_rehash <= st.prior
        /\ Len(st.hashed) = Len(d) - st.to_rehash
        /\ \A k \in 1..Len(st.hashed) : st.hashed[k] = d[k]

\* What the files and the partials of the home occupy on disk.
Linked(i) == \E p \in Path : file[p] = i \/ temp[p] = i

Occupied == [i \in Inode |-> IF Linked(i) THEN Len(data[i]) ELSE 0]

DiskBytes == Total(Occupied, MaxInodes)

\* Bytes on disk that the open uploads wrote and nobody has charged yet.
Uncharged == [s \in StreamId |-> IF s \in DOMAIN streams
                                 THEN streams[s].reserved - streams[s].remaining ELSE 0]

UnchargedBytes == Total(Uncharged, NStreams)

\* The cached usage covers what is on disk, unless two handler threads ever had
\* the same file in hand: then both may refund the bytes one of them freed
\* (UsageKeptCorrect has no such condition, and the code breaks it).
UsageNeverUndercounts ==
    overlapped \/ loop.pc = "boot" \/ used_bytes + UnchargedBytes >= DiskBytes

\* What the quota promises, under the same condition: the home never holds more
\* than quota_bytes, partials included, whatever mix of uploads, aborts,
\* removals, renames and restarts ran on however many handler threads.
DiskWithinQuota == overlapped \/ DiskBytes <= Quota

\* handler.rs: quota_aware_remove and quota_aware_rename "keep the per-user
\* used_bytes cache correct", for any handler threads that run them at once.
UsageKeptCorrect ==
    loop.pc # "boot" => used_bytes + UnchargedBytes >= DiskBytes

\* user.rs: Puts that would push the home past quota_bytes are refused, for any
\* handler threads that run at once.
QuotaRespected == DiskBytes <= Quota
=============================================================================
