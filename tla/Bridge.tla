-------------------------------- MODULE Bridge --------------------------------
(***************************************************************************)
(* The WebTransport bridge: sessions that authenticate under a deadline,   *)
(* streams that carry one request each, and the bridge's own upload and    *)
(* download paths (web-bridge main.rs, auth.rs, transfer.rs).              *)
(*                                                                         *)
(* Unlike qftp-server, whose uploads all run on one thread, the bridge     *)
(* runs every stream as a tokio task. The code between two awaits is a     *)
(* synchronous segment; Workers segments run at a time, each step of one   *)
(* is an atomic operation on the shared User or a file system call, and    *)
(* file system work handed to spawn_blocking runs on threads of its own.   *)
(* Streams are spawned detached: nothing cancels them, a session that ends *)
(* makes their reads fail.                                                 *)
(*                                                                         *)
(* Data. A file is an inode; what block k of an inode holds is the task    *)
(* that wrote it, so two uploads never have equal blocks. The bodies are   *)
(* 1..MaxSize blocks and a checksum is right or wrong.                     *)
(*                                                                         *)
(* History. Two places of do_put are open to another stream: the claim is  *)
(* given up before the guard that removes the temp file has run, and the   *)
(* quota check loads two counters between which a settlement moves bytes.  *)
(* overtaken, outlived and torn record who met whom there; no action reads *)
(* them.                                                                   *)
(***************************************************************************)
EXTENDS Integers, Sequences, FiniteSets

CONSTANTS Tasks,        \* streams
          Old,          \* the inode that may exist when the bridge starts
          Paths,
          NoInode,
          Hole,         \* a block nobody wrote
          MaxSize,      \* bound: blocks of a body
          Quota,        \* user.quota_bytes
          Workers,      \* tokio worker threads
          MaxStreams,   \* MAX_CONCURRENT_STREAMS
          AuthEnabled,  \* --users-tokens was given
          Origins,      \* --allowed-origins: a set, "unset" or "any"
          Policy

ASSUME BridgeAssumption ==
    /\ MaxSize \in Nat \ {0} /\ Quota \in Nat /\ Workers \in Nat \ {0} /\ MaxStreams \in Nat \ {0}
    /\ AuthEnabled \in BOOLEAN
    /\ Policy \in {"Unconfigured", "AllowAny", "List"}
    /\ IsFiniteSet(Tasks) /\ Old \notin Tasks /\ NoInode \notin Tasks \cup {Old}

VARIABLES session,      \* the session's phase and user
          t,            \* per stream: the locals of its task
          temp,         \* inode at temp_path_for(p), or NoInode
          final,        \* inode at p, or NoInode
          content,      \* what each block of an inode holds
          flen,         \* an inode's length
          claims,       \* user.active_uploads
          used,         \* user.used_bytes
          inFlight,     \* user.in_flight_bytes
          overtaken,    \* <<v, u>>: u claimed the path of an aborted v before v's clean-up
          outlived,     \* <<v, u>>: the same, of a v whose open of the temp had failed
          torn          \* uploads whose quota check missed bytes being settled

vars == <<session, t, temp, final, content, flen, claims, used, inFlight,
          overtaken, outlived, torn>>
fsVars == <<temp, final, content, flen>>
counters == <<used, inFlight>>
history == <<overtaken, outlived, torn>>

Inodes == Tasks \cup {Old}
Blocks == 1..MaxSize

NoTask == [pc |-> "none", path |-> NoInode, size |-> 0, noClobber |-> FALSE,
           sumOk |-> TRUE, loaded |-> 0, ino |-> NoInode, sent |-> 0, pending |-> 0,
           opened |-> TRUE, written |-> 0, got |-> <<>>]

----------------------------------------------------------------------------
\* Sessions.

\* OriginPolicy::admits.
admits(origin) == CASE Policy = "AllowAny" -> TRUE
                    [] Policy = "List" -> origin \in Origins
                    [] Policy = "Unconfigured" -> origin = "none" \/ AuthEnabled

\* TokenDirectory::resolve: no user for an unknown token, the anonymous user when
\* there are no tokens.
resolve_token(token) == IF ~AuthEnabled THEN "anonymous"
                        ELSE IF token = "known" THEN "named" ELSE "nobody"

incoming_session == /\ session.st = "none"
                    /\ session' = [session EXCEPT !.st = "auth"]
                    /\ UNCHANGED <<t, fsVars, claims, counters, history>>

authenticate_session ==
    /\ session.st = "auth"
    /\ \E origin \in {"none", "listed", "other"}, token \in {"known", "unknown"} :
         LET user == IF admits(origin) THEN resolve_token(token) ELSE "nobody"
         IN session' = IF user = "nobody" THEN [st |-> "none", user |-> "nobody"]
                                          ELSE [st |-> "open", user |-> user]
    /\ UNCHANGED <<t, fsVars, claims, counters, history>>

\* SESSION_AUTH_TIMEOUT gives the session's permit back.
auth_timeout == /\ session.st = "auth"
                /\ session' = [st |-> "none", user |-> "nobody"]
                /\ UNCHANGED <<t, fsVars, claims, counters, history>>

\* accept_bi fails: the loop ends, the streams it spawned run on.
session_closes == /\ session.st = "open"
                  /\ session' = [session EXCEPT !.st = "closed"]
                  /\ UNCHANGED <<t, fsVars, claims, counters, history>>

----------------------------------------------------------------------------
\* Scheduling of the streams' tasks.

\* Places inside a synchronous segment: the task holds its worker.
MidSegment == {"load_used", "load_in_flight", "settle_used",
               "drop_stat", "drop_remove", "drop_release"}

running(u) == t[u].pc \notin {"none", "done"}

runnable(u) ==
    t[u].pc \in MidSegment \/ Cardinality({v \in Tasks : t[v].pc \in MidSegment}) < Workers

goto(u, pc) == t' = [t EXCEPT ![u].pc = pc]

\* handle_session accepts a stream while it has a permit; the request is decoded,
\* validated and cleared by the ACL: only a named user may write.
accept_stream(u, kind) ==
    /\ session.st = "open"
    /\ t[u].pc = "none"
    /\ Cardinality({v \in Tasks : running(v)}) < MaxStreams
    /\ kind = "reserve" => session.user = "named"
    /\ \E p \in Paths, n \in Blocks, nc \in BOOLEAN, ok \in BOOLEAN :
         /\ kind = "get_open" => n = 1 /\ ~nc /\ ok
         /\ t' = [t EXCEPT ![u] = [NoTask EXCEPT !.pc = kind, !.path = p, !.size = n,
                                                 !.noClobber = nc, !.sumOk = ok]]
    /\ UNCHANGED <<session, fsVars, claims, counters, history>>

----------------------------------------------------------------------------
\* Put.

\* do_put: InFlightReservation::reserve, before the quota is looked at.
reserve(u) ==
    /\ t[u].pc = "reserve" /\ runnable(u)
    /\ inFlight' = inFlight + t[u].size
    /\ goto(u, "load_used")
    /\ UNCHANGED <<session, fsVars, claims, used, history>>

load_used(u) ==
    /\ t[u].pc = "load_used"
    /\ t' = [t EXCEPT ![u].pc = "load_in_flight", ![u].loaded = used]
    /\ torn' = IF \E v \in Tasks : t[v].pc = "settle_used" THEN torn \cup {u} ELSE torn
    /\ UNCHANGED <<session, fsVars, claims, counters, overtaken, outlived>>

\* Fault: only this upload's own size is added.
load_own_size(u) ==
    /\ t[u].pc = "load_in_flight"
    /\ goto(u, IF t[u].loaded + t[u].size > Quota THEN "refused" ELSE "resolve")
    /\ UNCHANGED <<session, fsVars, claims, counters, history>>

\* The check uses the two values as they were loaded, one after the other.
load_in_flight(u) ==
    /\ t[u].pc = "load_in_flight"
    /\ goto(u, IF t[u].loaded + inFlight > Quota THEN "refused" ELSE "resolve")
    /\ UNCHANGED <<session, fsVars, claims, counters, history>>

\* resolve_and_open_temp: the path is resolved on the blocking pool, and what was
\* found there decides no_clobber.
resolve(u) ==
    /\ t[u].pc = "resolve"
    /\ goto(u, IF t[u].noClobber /\ final[t[u].path] # NoInode THEN "refused" ELSE "claim")
    /\ UNCHANGED <<session, fsVars, claims, counters, history>>

\* The streams whose guards will still remove what is at the temp path of p.
Armed(p) == {v \in Tasks : t[v].pc \in {"open_reply", "drop_stat", "drop_remove"}
                            /\ t[v].path = p}

\* u has the claim of its path, whoever is cleaning up there.
taken(u) ==
    /\ claims' = claims \cup {t[u].path}
    /\ overtaken' = overtaken \cup ({v \in Armed(t[u].path) : t[v].opened} \X {u})
    /\ outlived' = outlived \cup ({v \in Armed(t[u].path) : ~t[v].opened} \X {u})
    /\ goto(u, "open")

\* Fault: whether the path was already claimed is not looked at.
claim_unchecked(u) ==
    /\ t[u].pc = "claim" /\ runnable(u)
    /\ taken(u)
    /\ UNCHANGED <<session, fsVars, counters, torn>>

\* UploadClaim::try_claim, and the guard learns the temp path before the open.
claim(u) ==
    /\ t[u].pc = "claim" /\ runnable(u)
    /\ IF t[u].path \in claims
       THEN goto(u, "refused") /\ UNCHANGED <<claims, overtaken, outlived>>
       ELSE taken(u)
    /\ UNCHANGED <<session, fsVars, counters, torn>>

\* create or open, truncate: a partial left at the path keeps its inode. The open,
\* or setting the permissions after it, may fail.
open_temp(u) ==
    /\ t[u].pc = "open"
    /\ LET p == t[u].path
           i == IF temp[p] = NoInode THEN u ELSE temp[p]
       IN \/ /\ temp' = [temp EXCEPT ![p] = i]
             /\ content' = [content EXCEPT ![i] = [k \in Blocks |-> Hole]]
             /\ flen' = [flen EXCEPT ![i] = 0]
             /\ \/ t' = [t EXCEPT ![u].pc = "body", ![u].ino = i]
                \/ goto(u, "open_failed")
          \/ goto(u, "open_failed") /\ UNCHANGED <<temp, content, flen>>
    /\ UNCHANGED <<session, final, claims, counters, history>>

\* resolve_and_open_temp returns the error: its claim goes here, and do_put's guard,
\* which knows the temp path, lives until the reply is written.
open_failed(u) ==
    /\ t[u].pc = "open_failed" /\ runnable(u)
    /\ claims' = claims \ {t[u].path}
    /\ t' = [t EXCEPT ![u].pc = "open_reply", ![u].opened = FALSE]
    /\ UNCHANGED <<session, fsVars, counters, history>>

open_replied(u) ==
    /\ t[u].pc = "open_reply" /\ runnable(u)
    /\ goto(u, "drop_stat")
    /\ UNCHANGED <<session, fsVars, claims, counters, history>>

\* route_put_chunk: tokio's File takes the chunk and writes it on the blocking
\* pool; only the next write, or the flush, waits for it.
route_put_chunk(u) ==
    /\ t[u].pc = "body" /\ runnable(u)
    /\ t[u].sent < t[u].size /\ t[u].pending = 0
    /\ t' = [t EXCEPT ![u].sent = @ + 1, ![u].pending = t[u].sent + 1]
    /\ UNCHANGED <<session, fsVars, claims, counters, history>>

\* The blocking write, which a dropped File does not wait for either.
write_lands(u) ==
    /\ t[u].pending # 0
    /\ LET i == t[u].ino
       IN /\ content' = [content EXCEPT ![i][t[u].pending] = u]
          /\ flen' = [flen EXCEPT ![i] = IF @ < t[u].pending THEN t[u].pending ELSE @]
    /\ t' = [t EXCEPT ![u].pending = 0]
    /\ UNCHANGED <<session, temp, final, claims, counters, history>>

\* The stream ends early, is reset with its session, or carries too much.
body_fails(u) ==
    /\ t[u].pc = "body" /\ runnable(u)
    /\ goto(u, "drop_claim")
    /\ UNCHANGED <<session, fsVars, claims, counters, history>>

\* Fault: any checksum will do.
verify_skipped(u) ==
    /\ t[u].pc = "body" /\ runnable(u)
    /\ t[u].sent = t[u].size /\ t[u].pending = 0
    /\ goto(u, "commit")
    /\ UNCHANGED <<session, fsVars, claims, counters, history>>

\* flush, then verify_put_checksum.
verify_put_checksum(u) ==
    /\ t[u].pc = "body" /\ runnable(u)
    /\ t[u].sent = t[u].size /\ t[u].pending = 0
    /\ goto(u, IF t[u].sumOk THEN "commit" ELSE "drop_claim")
    /\ UNCHANGED <<session, fsVars, claims, counters, history>>

\* commit_put: the rename on the blocking pool; no_clobber is not looked at again.
\* The destination can still turn out to be a directory.
commit_put(u) ==
    /\ t[u].pc = "commit"
    /\ LET p == t[u].path
       IN \/ /\ temp[p] # NoInode
             /\ final' = [final EXCEPT ![p] = temp[p]]
             /\ temp' = [temp EXCEPT ![p] = NoInode]
             /\ goto(u, "settle_in_flight")
          \/ goto(u, "drop_claim") /\ UNCHANGED <<final, temp>>
    /\ UNCHANGED <<session, content, flen, claims, counters, history>>

\* The reservation becomes used bytes, in two operations. A quota check that has
\* loaded used_bytes, and not yet in_flight_bytes, sees the bytes in neither.
settle_in_flight(u) ==
    /\ t[u].pc = "settle_in_flight" /\ runnable(u)
    /\ inFlight' = inFlight - t[u].size
    /\ goto(u, "settle_used")
    /\ torn' = torn \cup {v \in Tasks : t[v].pc = "load_in_flight"}
    /\ UNCHANGED <<session, fsVars, claims, used, overtaken, outlived>>

\* Fault: the committed bytes are not charged.
settle_uncharged(u) ==
    /\ t[u].pc = "settle_used"
    /\ goto(u, "reply")
    /\ UNCHANGED <<session, fsVars, claims, counters, history>>

settle_used(u) ==
    /\ t[u].pc = "settle_used"
    /\ used' = used + t[u].size
    /\ goto(u, "reply")
    /\ UNCHANGED <<session, fsVars, claims, inFlight, history>>

\* The response is written and do_put returns: the claim goes, the guard is disarmed.
put_done(u) ==
    /\ t[u].pc = "reply" /\ runnable(u)
    /\ claims' = claims \ {t[u].path}
    /\ goto(u, "done")
    /\ UNCHANGED <<session, fsVars, counters, history>>

\* do_put returns an error. Locals drop in reverse order: the claim, then the guard.
drop_claim(u) ==
    /\ t[u].pc = "drop_claim" /\ runnable(u)
    /\ claims' = claims \ {t[u].path}
    /\ goto(u, "drop_stat")
    /\ UNCHANGED <<session, fsVars, counters, history>>

\* PutGuard::drop: what is at the temp path now is charged,
drop_stat(u) ==
    /\ t[u].pc = "drop_stat"
    /\ LET i == temp[t[u].path]
           n == IF i = NoInode THEN 0 ELSE flen[i]
       IN /\ used' = used + n
          /\ t' = [t EXCEPT ![u].pc = "drop_remove", ![u].written = n]
    /\ UNCHANGED <<session, fsVars, claims, inFlight, history>>

\* removed and refunded,
drop_remove(u) ==
    /\ t[u].pc = "drop_remove"
    /\ LET p == t[u].path
       IN /\ temp' = [temp EXCEPT ![p] = NoInode]
          /\ used' = IF temp[p] = NoInode THEN used ELSE used - t[u].written
    /\ goto(u, "drop_release")
    /\ UNCHANGED <<session, final, content, flen, claims, inFlight, history>>

\* and InFlightReservation::drop runs last; before the claim it is all there is.
drop_release(u) ==
    /\ t[u].pc \in {"refused", "drop_release"} /\ runnable(u)
    /\ inFlight' = inFlight - t[u].size
    /\ goto(u, "done")
    /\ UNCHANGED <<session, fsVars, claims, used, history>>

----------------------------------------------------------------------------
\* Get, and the one-shot requests.

\* do_get: resolve and open on the blocking pool.
get_open(u) ==
    /\ t[u].pc = "get_open"
    /\ LET i == final[t[u].path]
       IN t' = [t EXCEPT ![u].pc = IF i = NoInode THEN "done" ELSE "get_send",
                         ![u].ino = i, ![u].size = IF i = NoInode THEN 0 ELSE flen[i]]
    /\ UNCHANGED <<session, fsVars, claims, counters, history>>

\* One chunk read, written to the stream and hashed; the trailer ends the stream.
get_send(u) ==
    /\ t[u].pc = "get_send"
    /\ IF t[u].sent < t[u].size
       THEN t' = [t EXCEPT ![u].sent = @ + 1,
                           ![u].got = Append(@, content[t[u].ino][t[u].sent + 1])]
       ELSE goto(u, "done")
    /\ UNCHANGED <<session, fsVars, claims, counters, history>>

\* dispatch_request hands Rm and Rename to the shared handler, without the native
\* server's quota-aware wrappers: no counter changes.
rm(p) ==
    /\ session.st = "open" /\ session.user = "named"
    /\ final[p] # NoInode
    /\ final' = [final EXCEPT ![p] = NoInode]
    /\ UNCHANGED <<session, t, temp, content, flen, claims, counters, history>>

rename(p, q) ==
    /\ session.st = "open" /\ session.user = "named"
    /\ p # q /\ final[p] # NoInode
    /\ final' = [final EXCEPT ![q] = final[p], ![p] = NoInode]
    /\ UNCHANGED <<session, t, temp, content, flen, claims, counters, history>>

----------------------------------------------------------------------------
put_step(u) ==
    \/ reserve(u) \/ load_used(u) \/ load_in_flight(u)
    \/ resolve(u) \/ claim(u)
    \/ open_temp(u) \/ open_failed(u) \/ open_replied(u)
    \/ route_put_chunk(u) \/ write_lands(u) \/ body_fails(u)
    \/ verify_put_checksum(u) \/ commit_put(u)
    \/ settle_in_flight(u) \/ settle_used(u) \/ put_done(u)
    \/ drop_claim(u) \/ drop_stat(u) \/ drop_remove(u) \/ drop_release(u)

get_step(u) == get_open(u) \/ get_send(u)

session_step == \/ incoming_session \/ authenticate_session
                \/ auth_timeout \/ session_closes

\* At the start the home may hold a file or a partial of an earlier run, which the
\* walk at startup counted.
Init ==
    /\ session = [st |-> "none", user |-> "nobody"]
    /\ t = [u \in Tasks |-> NoTask]
    /\ \E p \in Paths, where \in {"nowhere", "final", "partial"} :
         /\ final = [q \in Paths |-> IF where = "final" /\ q = p THEN Old ELSE NoInode]
         /\ temp = [q \in Paths |-> IF where = "partial" /\ q = p THEN Old ELSE NoInode]
         /\ used = IF where = "nowhere" THEN 0 ELSE 1
    /\ content = [i \in Inodes |-> [k \in Blocks |-> Hole]]
    /\ flen = [i \in Inodes |-> IF i = Old THEN 1 ELSE 0]
    /\ claims = {}
    /\ inFlight = 0
    /\ overtaken = {} /\ outlived = {} /\ torn = {}

Next ==
    \/ session_step
    \/ \E u \in Tasks : accept_stream(u, "reserve") \/ accept_stream(u, "get_open")
    \/ \E u \in Tasks : put_step(u) \/ get_step(u)
    \/ \E p \in Paths : rm(p)
    \/ \E p, q \in Paths : rename(p, q)

Spec == Init /\ [][Next]_vars

----------------------------------------------------------------------------
\* Properties.

Linked == { i \in Inodes : \E p \in Paths : temp[p] = i \/ final[p] = i }

\* Bytes on disk, partials included.
disk == Cardinality({ b \in Linked \X Blocks : b[2] <= flen[b[1]] })

Whole(i) == \/ i = Old /\ \A k \in Blocks : content[i][k] = Hole
            \/ \E u \in Tasks :
                 /\ t[u].ino = i /\ t[u].sumOk /\ t[u].size = flen[i]
                 /\ \A k \in 1..flen[i] : content[i][k] = u

FilesWhole ==
    /\ \A p \in Paths : final[p] # NoInode => Whole(final[p])
    /\ \A u \in Tasks : t[u].pc = "get_send" => \A k \in 1..t[u].sent :
            t[u].got[k] = t[u].got[1]

CountersCover == (\A u \in Tasks : t[u].pc # "settle_used") => disk <= used + inFlight

\* What a name refers to is, whole, the verified body of one upload (or the file
\* that was there), and so is what a download delivers: aborted uploads of the same
\* path, their late writes and the reuse of a partial's inode leave no trace in it,
\* on any number of workers, as long as no stream has claimed the path of an aborted
\* upload before that upload's clean-up (do_put drops the claim first).
CommittedWhole == overtaken # {} \/ FilesWhole

\* From the open to the commit the claim keeps the temp name on the inode that the
\* upload writes: only an upload whose own open failed, and whose guard was still
\* armed when this one took the claim, removes it; and, of the aborted uploads, one
\* whose claim was taken before its clean-up.
ClaimProtectsTemp ==
    \/ overtaken # {}
    \/ \A u \in Tasks : t[u].pc \in {"body", "commit"} =>
          \/ temp[t[u].path] = t[u].ino
          \/ \E v \in Tasks : <<v, u>> \in outlived

\* Away from an upload that is moving its reservation, the two counters together
\* cover the disk, so quota checks err on the safe side, as long as no stream has
\* claimed the path of an aborted upload before that upload's clean-up.
UsageCoversDisk == overtaken # {} \/ CountersCover

\* Uploads that run concurrently never take the disk past the quota, as long as no
\* quota check missed bytes between the two operations of a settlement and no stream
\* has claimed the path of an aborted upload before that upload's clean-up.
DiskWithinQuota == overtaken # {} \/ torn # {} \/ disk <= Quota

----------------------------------------------------------------------------
\* What the comments of the code say without those conditions.

\* The claim keeps two uploads of a path from interleaving in its one temp file, so
\* a file is the body of one upload (resolve_and_open_temp's comment on its claim).
NeverInterleaved == FilesWhole

\* No upload removes the temp file that the holder of the claim is writing (the
\* comment on User::active_uploads: of two Puts to one path the second is refused).
TempNameKept == \A u \in Tasks : t[u].pc \in {"body", "commit"} => temp[t[u].path] = t[u].ino

\* A quota check sees what is on disk (PutGuard::drop's comment on its refund).
UsageKeptSafe == CountersCover

\* Reserving before checking keeps two uploads from passing the limit together
\* (do_put's comment on its quota check).
QuotaRespected == disk <= Quota
=============================================================================
