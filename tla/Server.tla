------------------------------- MODULE Server -------------------------------
(***************************************************************************)
(* The native server's event loop (server.rs, connection.rs): the          *)
(* connection table and its caps (limits.rs), the identity a connection    *)
(* serves requests as, and the pool of handler threads that runs the       *)
(* blocking requests of every connection.                                  *)
(*                                                                         *)
(* The event loop is one thread; each of its actions here is what it does  *)
(* to one connection in one phase of an iteration.  The handler threads    *)
(* take steps at any time.  The two mpsc channels are FIFO, and a          *)
(* connection never has more than one job in them (OneJobPerConnection),   *)
(* so all FIFO adds is an order between connections: the channels are      *)
(* sets, and fairness asks for every job what FIFO gives it.               *)
(*                                                                         *)
(* A connection's SCID is derived from the DCID the client chose, so a     *)
(* client that comes back with the same DCID gets the SCID it had before.  *)
(* Put and Get streams are the business of other modules.                  *)
(***************************************************************************)
EXTENDS Integers, Sequences, FiniteSets

CONSTANTS
    Scids,           \* SCIDs the clients' DCIDs derive to
    Ips,             \* address prefixes (bucket_key)
    NoSlot,
    Anonymous,       \* UserDirectory::anonymous
    Named,           \* the named users of users.toml
    NoCert,          \* the peer presented no certificate
    BadCert,         \* its certificate names no user, or more than one
    MtlsRequired,    \* ServerConfig::mtls_required
    Dirs,            \* directories clients Cd to
    Ops,             \* requests clients send, a subset of AllOps
    Acl,             \* the <<user, op>> pairs that acl_reject lets pass
    MaxTotal,        \* Caps::max_total_connections
    MaxPerIp,        \* Caps::max_per_ip_connections
    HandlerWorkers,  \* HANDLER_WORKERS
    MaxGen,          \* bound: connections accepted in a run
    MaxRequests      \* bound: requests on one connection

AllOps == {"cd", "stat", "rm", "quota", "quit"}

ASSUME ServerAssumption ==
    /\ Anonymous \notin Named
    /\ NoCert \notin Named
    /\ BadCert \notin Named \cup {NoCert}
    /\ MtlsRequired \in BOOLEAN
    /\ Ops \subseteq AllOps
    /\ (Named \cup {Anonymous}) \X {"cd", "quota", "quit"} \subseteq Acl
    /\ MaxTotal \in Nat
    /\ MaxPerIp \in Nat
    /\ HandlerWorkers \in Nat
    /\ MaxGen \in Nat
    /\ MaxRequests \in Nat
    /\ IsFiniteSet(Scids)
    /\ NoSlot \notin Ips

VARIABLES
    conns,            \* the connection table, keyed by SCID
    next_generation,
    total,            \* ConnectionCounter::total
    per_ip,           \* ConnectionCounter::per_ip; 0 is an absent entry
    slot,             \* the prefix of try_accept's ConnectionSlot, or NoSlot
    pool,             \* the jobs given to the handler pool, with their results
    responses,        \* the responses sent, as the clients see them
    shutdown,         \* the flag the signal handlers set
    closing,          \* run's local of that name
    asleep,           \* in poll, or about to be, with nothing to time it out
    run               \* "serving", "accepting" (in try_accept), "stopped" (run has
                      \* returned), "exited"

vars == <<conns, next_generation, total, per_ip, slot, pool, responses,
          shutdown, closing, asleep, run>>

User == Named \cup {Anonymous}
Root == "root"                                   \* the home directory itself
Cwd == [home: User, dir: Dirs \cup {Root}]
Home(u) == [home |-> u, dir |-> Root]
Request == [op: Ops, dir: Dirs]
Stream == 0..(MaxRequests - 1)

\* A request that passed the gates; `admitted` is the user whose permissions
\* let it pass.
Queued == [stream: Stream, req: Request, admitted: User]

ConnectionContext ==
    [generation: Nat, ip: Ips, user: User, cwd: Cwd, handler_in_flight: BOOLEAN,
     pending: Seq(Queued),
     established: BOOLEAN, early: BOOLEAN, cert: Named \cup {NoCert, BadCert},
     closing: BOOLEAN,     \* quiche: close() was called, or the peer is gone
     opened: 0..MaxRequests]

HandlerJob ==
    [scid: Scids, generation: Nat, stream: Stream, req: Request, admitted: User,
     user: User, cwd: Cwd, new_cwd: Cwd, at: {"queued", "running", "done"}]

\* A response on a stream of the connection of that generation, and the
\* generation it was computed for.
Reply == [generation: Nat, stream: Stream, for: Nat, whole: BOOLEAN]

TypeOK ==
    /\ DOMAIN conns \subseteq Scids
    /\ conns \in [DOMAIN conns -> ConnectionContext]
    /\ next_generation \in Nat
    /\ total \in Nat
    /\ per_ip \in [Ips -> Nat]
    /\ slot \in Ips \cup {NoSlot}
    /\ pool \in SUBSET HandlerJob
    /\ responses \in SUBSET Reply
    /\ shutdown \in BOOLEAN
    /\ closing \in BOOLEAN
    /\ asleep \in BOOLEAN
    /\ run \in {"serving", "accepting", "stopped", "exited"}
    /\ run = "accepting" <=> slot # NoSlot

Init ==
    /\ conns = <<>>
    /\ next_generation = 0
    /\ total = 0
    /\ per_ip = [ip \in Ips |-> 0]
    /\ slot = NoSlot
    /\ pool = {}
    /\ responses = {}
    /\ shutdown = FALSE
    /\ closing = FALSE
    /\ asleep = FALSE
    /\ run = "serving"

With(f, x, v) == [y \in DOMAIN f \cup {x} |-> IF y = x THEN v ELSE f[y]]
Without(f, x) == [y \in DOMAIN f \ {x} |-> f[y]]

-----------------------------------------------------------------------------
(***************************************************************************)
(* Accepting and reaping connections.                                      *)
(***************************************************************************)

\* ConnectionCounter::release.
release(ip) ==
    /\ total' = IF total > 0 THEN total - 1 ELSE 0
    /\ per_ip' = [per_ip EXCEPT ![ip] = IF @ > 0 THEN @ - 1 ELSE 0]

\* An Initial for no connection of the table that passed the DCID check, the rate
\* limiter and the retry token: ConnectionCounter::try_acquire.  One that a cap
\* refuses is dropped (packet_wakes).
try_acquire(ip) ==
    /\ run = "serving"
    /\ ~closing
    /\ total < MaxTotal
    /\ per_ip[ip] < MaxPerIp
    /\ total' = total + 1
    /\ per_ip' = [per_ip EXCEPT ![ip] = @ + 1]
    /\ slot' = ip
    /\ run' = "accepting"
    /\ asleep' = FALSE
    /\ UNCHANGED <<conns, next_generation, pool, responses, shutdown, closing>>

\* Fault: the slot is given back by nobody.
accept_leaks ==
    /\ run = "accepting"
    /\ slot' = NoSlot
    /\ run' = "serving"
    /\ UNCHANGED <<conns, next_generation, total, per_ip, pool, responses, shutdown,
                   closing, asleep>>

\* quiche rejects the Initial, or its SCID is in the table after all: try_accept
\* returns and the guard that it drops gives the slot back.
accept_fails ==
    /\ run = "accepting"
    /\ release(slot)
    /\ slot' = NoSlot
    /\ run' = "serving"
    /\ UNCHANGED <<conns, next_generation, pool, responses, shutdown, closing, asleep>>

\* The connection enters the table and the slot is committed.
try_accept(c, ip, early) ==
    /\ run = "accepting"
    /\ slot = ip
    /\ c \notin DOMAIN conns
    /\ next_generation < MaxGen
    /\ conns' = With(conns, c,
          [generation |-> next_generation, ip |-> ip,
           user |-> Anonymous, cwd |-> Home(Anonymous),
           handler_in_flight |-> FALSE, pending |-> <<>>,
           established |-> FALSE, early |-> early, cert |-> NoCert,
           closing |-> FALSE, opened |-> 0])
    /\ next_generation' = next_generation + 1
    /\ slot' = NoSlot
    /\ run' = "serving"
    /\ UNCHANGED <<total, per_ip, pool, responses, shutdown, closing, asleep>>

\* The TLS handshake completes.  Without mTLS no certificate is asked for;
\* with it, a client may still present none.
handshake_completes(c, cert) ==
    /\ run = "serving"
    /\ ~conns[c].established /\ ~conns[c].closing
    /\ cert = NoCert \/ MtlsRequired
    /\ conns' = [conns EXCEPT ![c].established = TRUE, ![c].cert = cert]
    /\ UNCHANGED <<next_generation, total, per_ip, slot, pool, responses,
                   shutdown, closing, asleep, run>>

\* The peer closes, resets or idles out, or sending to it fails.
connection_ends(c) ==
    /\ run = "serving"
    /\ ~conns[c].closing
    /\ conns' = [conns EXCEPT ![c].closing = TRUE]
    /\ UNCHANGED <<next_generation, total, per_ip, slot, pool, responses,
                   shutdown, closing, asleep, run>>

\* half_open_expired, or the close has drained.
reapable(cc) == cc.closing \/ ~cc.established

phase_reap_connections(c) ==
    /\ run = "serving"
    /\ reapable(conns[c])
    /\ conns' = Without(conns, c)
    /\ release(conns[c].ip)
    /\ UNCHANGED <<next_generation, slot, pool, responses, shutdown, closing, asleep, run>>

-----------------------------------------------------------------------------
(***************************************************************************)
(* The identity a connection serves requests as.                           *)
(***************************************************************************)

needs_upgrade(cc) ==
    /\ cc.user = Anonymous
    /\ cc.established
    /\ cc.cert # NoCert \/ MtlsRequired

\* Fault: the upgrade leaves the working directory alone.
upgrade_user_only(c) ==
    LET cc == conns[c] IN
    /\ run = "serving"
    /\ needs_upgrade(cc)
    /\ cc.cert \in Named
    /\ conns' = [conns EXCEPT ![c].user = cc.cert]
    /\ UNCHANGED <<next_generation, total, per_ip, slot, pool, responses,
                   shutdown, closing, asleep, run>>

\* process_readable_streams calls this before it reads any stream.
upgrade_user_from_cert(c) ==
    LET cc == conns[c] IN
    /\ run = "serving"
    /\ needs_upgrade(cc)
    /\ \/ /\ cc.cert \in Named
          /\ conns' = [conns EXCEPT ![c].user = cc.cert, ![c].cwd = Home(cc.cert)]
       \/ /\ cc.cert \notin Named
          /\ ~cc.closing
          /\ conns' = [conns EXCEPT ![c].closing = TRUE]
    /\ UNCHANGED <<next_generation, total, per_ip, slot, pool, responses,
                   shutdown, closing, asleep, run>>

request_is_replay_safe(req) == req.op \in {"cd", "stat", "quit"}

in_early_data(cc) == cc.early /\ ~cc.established

\* Fault: no identity gate on early data.
early_data_ungated(req) == ~request_is_replay_safe(req)

\* refuse_all is mtls_required || has_named_users().
early_data_refused(req) ==
    MtlsRequired \/ Named # {} \/ ~request_is_replay_safe(req)

\* A request can be read off some stream of the connection.
readable(cc) == /\ ~needs_upgrade(cc)
                /\ cc.established \/ in_early_data(cc)
                /\ cc.opened < MaxRequests

\* validate_request_prerequisites, but for the rate limiter.
admissible(cc, req) ==
    /\ in_early_data(cc) => ~early_data_refused(req)
    /\ <<cc.user, req.op>> \in Acl

-----------------------------------------------------------------------------
(***************************************************************************)
(* Requests.  plan_actions decodes and gates one request per readable      *)
(* stream, execute_pending_actions acts on it.  A send that fails ends the *)
(* sweep and closes the connection; the requests it had decoded and not    *)
(* yet acted on are then as good as never read.                            *)
(***************************************************************************)

reply(cc, stream, for, whole) ==
    [generation |-> cc.generation, stream |-> stream, for |-> for, whole |-> whole]

\* dispatch_handler_job, as the job it hands over.
job(c, cc, q) ==
    [scid |-> c, generation |-> cc.generation, stream |-> q.stream, req |-> q.req,
     admitted |-> q.admitted, user |-> cc.user, cwd |-> cc.cwd,
     new_cwd |-> cc.cwd, at |-> "queued"]

\* Refused (malformed, rate limited, early data, ACL), or answered at once
\* (Quota, Quit).  A response that does not fit closes the connection.
answer_inline(c, req) ==
    LET cc == conns[c] IN
    /\ run = "serving"
    /\ readable(cc)
    /\ \E whole \in BOOLEAN :
        /\ responses' = responses \cup
              {reply(cc, cc.opened, cc.generation, whole)}
        /\ conns' = [conns EXCEPT
              ![c].opened = @ + 1,
              ![c].closing = @ \/ ~whole \/ (req.op = "quit" /\ admissible(cc, req))]
    /\ UNCHANGED <<next_generation, total, per_ip, slot, pool, shutdown, closing, asleep, run>>

\* HandleSimple: one job at a time per connection, the rest queue.
handle_simple(c, req) ==
    LET cc == conns[c]
        q == [stream |-> cc.opened, req |-> req, admitted |-> cc.user] IN
    /\ run = "serving"
    /\ readable(cc)
    /\ req.op \notin {"quota", "quit"}
    /\ admissible(cc, req)
    /\ \/ /\ cc.handler_in_flight
          /\ conns' = [conns EXCEPT ![c].opened = @ + 1,
                                    ![c].pending = Append(@, q)]
          /\ UNCHANGED pool
       \/ /\ ~cc.handler_in_flight
          /\ conns' = [conns EXCEPT ![c].opened = @ + 1,
                                    ![c].handler_in_flight = TRUE]
          /\ pool' = pool \cup {job(c, cc, q)}
    /\ UNCHANGED <<next_generation, total, per_ip, slot, responses, shutdown, closing, asleep, run>>

-----------------------------------------------------------------------------
(***************************************************************************)
(* Handler threads.  They outlive run: queued jobs are still taken while   *)
(* HandlerPool::drop waits.                                                *)
(***************************************************************************)

worker_takes(j) ==
    /\ run # "exited"
    /\ j.at = "queued"
    /\ Cardinality({k \in pool : k.at = "running"}) < HandlerWorkers
    /\ pool' = (pool \ {j}) \cup {[j EXCEPT !.at = "running"]}
    /\ UNCHANGED <<conns, next_generation, total, per_ip, slot, responses,
                   shutdown, closing, asleep, run>>

\* run_handler under catch_unwind.  Only a Cd that works moves cwd; one that
\* fails or panics leaves it as it was.
worker_finishes(j) ==
    /\ run # "exited"
    /\ j.at = "running"
    /\ \E d \in {j.cwd} \cup (IF j.req.op = "cd"
                              THEN {[home |-> j.user, dir |-> j.req.dir]} ELSE {}) :
        pool' = (pool \ {j}) \cup {[j EXCEPT !.at = "done", !.new_cwd = d]}
    /\ UNCHANGED <<conns, next_generation, total, per_ip, slot, responses,
                   shutdown, closing, asleep, run>>

\* Fault: results are routed by SCID alone.
never_stale(ctx_generation, result_generation) == FALSE

handler_result_is_stale(ctx_generation, result_generation) ==
    ctx_generation # result_generation

handler_result_user_matches(ctx_user, result_user) == ctx_user = result_user

\* Fault: dispatching the next job does not mark it in flight.
advance_unmarked(cc) ==
    [cc EXCEPT !.handler_in_flight = FALSE,
               !.pending = IF @ = <<>> THEN @ ELSE Tail(@)]

\* Fault: handler_in_flight is not reset when the queue is empty.
advance_stuck(cc) ==
    IF cc.pending = <<>> THEN cc ELSE [cc EXCEPT !.pending = Tail(@)]

\* The connection after a result: no job in flight, then the next one is.
advance(cc) ==
    IF cc.pending = <<>> THEN [cc EXCEPT !.handler_in_flight = FALSE]
    ELSE [cc EXCEPT !.pending = Tail(@)]

\* Fault: the queue is popped and nothing dispatched.
next_jobs_dropped(c, cc) == {}

next_jobs(c, cc) == IF cc.pending = <<>> THEN {} ELSE {job(c, cc, Head(cc.pending))}

\* The connection is gone, or a new one has its SCID: the result is dropped.
drop_handler_result(j) ==
    /\ run = "serving"
    /\ j.at = "done"
    /\ \/ j.scid \notin DOMAIN conns
       \/ /\ j.scid \in DOMAIN conns
          /\ handler_result_is_stale(conns[j.scid].generation, j.generation)
    /\ pool' = pool \ {j}
    /\ asleep' = FALSE
    /\ UNCHANGED <<conns, next_generation, total, per_ip, slot, responses,
                   shutdown, closing, run>>

\* Fault: the next job is dispatched before the result's cwd is taken over.
apply_next_first(j) ==
    LET c == j.scid IN
    /\ run = "serving"
    /\ j.at = "done"
    /\ c \in DOMAIN conns
    /\ ~handler_result_is_stale(conns[c].generation, j.generation)
    /\ responses' = responses \cup {reply(conns[c], j.stream, j.generation, TRUE)}
    /\ conns' = [conns EXCEPT ![c] = [advance(@) EXCEPT !.cwd = j.new_cwd]]
    /\ pool' = (pool \ {j}) \cup next_jobs(c, conns[c])
    /\ UNCHANGED <<next_generation, total, per_ip, slot, shutdown, closing, asleep, run>>

\* The response of a job that ran as another user is replaced by "requires
\* 1-RTT", and its cwd is not taken over.  send_message may put only part of
\* the response on the stream; that is logged and nothing else.
apply_handler_result(j) ==
    LET c == j.scid
        cc == IF handler_result_user_matches(conns[c].user, j.user)
              THEN [conns[c] EXCEPT !.cwd = j.new_cwd] ELSE conns[c] IN
    /\ run = "serving"
    /\ j.at = "done"
    /\ c \in DOMAIN conns
    /\ ~handler_result_is_stale(conns[c].generation, j.generation)
    /\ \E whole \in BOOLEAN :
        responses' = responses \cup
            {reply(cc, j.stream, j.generation, whole)}
    /\ conns' = [conns EXCEPT ![c] = advance(cc)]
    /\ pool' = (pool \ {j}) \cup next_jobs(c, cc)
    /\ UNCHANGED <<next_generation, total, per_ip, slot, shutdown, closing, asleep, run>>

-----------------------------------------------------------------------------
(***************************************************************************)
(* Shutdown.                                                               *)
(***************************************************************************)

\* The flag was clear when phase_shutdown_drain looked, and
\* compute_poll_timeout found no connection and so no timer: poll waits until
\* something arrives.
poll_without_timeout ==
    /\ run = "serving"
    /\ ~asleep /\ ~shutdown /\ ~closing
    /\ DOMAIN conns = {}
    /\ asleep' = TRUE
    /\ UNCHANGED <<conns, next_generation, total, per_ip, slot, pool, responses,
                   shutdown, closing, run>>

\* phase_ingress on a packet that opens no connection.
packet_wakes ==
    /\ run = "serving"
    /\ asleep
    /\ asleep' = FALSE
    /\ UNCHANGED <<conns, next_generation, total, per_ip, slot, pool, responses,
                   shutdown, closing, run>>

\* SIGINT or SIGTERM: the handler sets the flag.  If it ran on the loop's
\* thread inside poll, poll returns Interrupted, and run returns that error;
\* on another thread, or before poll has begun to wait, it wakes nobody.
signal_arrives ==
    /\ run = "serving"
    /\ ~shutdown
    /\ shutdown' = TRUE
    /\ run' \in {"serving", "stopped"}
    /\ UNCHANGED <<conns, next_generation, total, per_ip, slot, pool, responses, closing, asleep>>

\* Fault: draining mode is entered, but no connection is closed.
drain_without_close ==
    /\ run = "serving"
    /\ ~asleep
    /\ shutdown /\ ~closing
    /\ closing' = TRUE
    /\ UNCHANGED <<conns, next_generation, total, per_ip, slot, pool, responses,
                   shutdown, asleep, run>>

phase_shutdown_drain ==
    /\ run = "serving"
    /\ ~asleep
    /\ shutdown /\ ~closing
    /\ closing' = TRUE
    /\ conns' = [c \in DOMAIN conns |-> [conns[c] EXCEPT !.closing = TRUE]]
    /\ UNCHANGED <<next_generation, total, per_ip, slot, pool, responses, shutdown, asleep, run>>

loop_stops ==
    /\ run = "serving"
    /\ closing /\ DOMAIN conns = {}
    /\ run' = "stopped"
    /\ UNCHANGED <<conns, next_generation, total, per_ip, slot, pool, responses,
                   shutdown, closing, asleep>>

\* HandlerPool::drop waits for the threads, but not for ever; then the
\* process and all it held are gone.
process_exits ==
    /\ run = "stopped"
    /\ run' = "exited"
    /\ conns' = <<>>
    /\ total' = 0
    /\ per_ip' = [ip \in Ips |-> 0]
    /\ pool' = {}
    /\ UNCHANGED <<next_generation, slot, responses, shutdown, closing, asleep>>

-----------------------------------------------------------------------------
Next ==
    \/ \E ip \in Ips : try_acquire(ip)
    \/ accept_fails
    \/ \E c \in Scids, ip \in Ips, early \in BOOLEAN : try_accept(c, ip, early)
    \/ \E c \in DOMAIN conns :
        \/ \E cert \in Named \cup {NoCert, BadCert} : handshake_completes(c, cert)
        \/ connection_ends(c)
        \/ phase_reap_connections(c)
        \/ upgrade_user_from_cert(c)
        \/ \E req \in Request : answer_inline(c, req) \/ handle_simple(c, req)
    \/ \E j \in pool :
        \/ worker_takes(j)
        \/ worker_finishes(j)
        \/ drop_handler_result(j)
        \/ apply_handler_result(j)
    \/ poll_without_timeout
    \/ packet_wakes
    \/ signal_arrives
    \/ phase_shutdown_drain
    \/ loop_stops
    \/ process_exits

Spec == Init /\ [][Next]_vars

\* What the scheduling promises.  The loop wakes for every timer, packet and waker and
\* then goes through all its phases, however often it is in try_accept in between, so
\* its fairness is strong; without one it sleeps on.  A queued job reaches a thread
\* (the channel is FIFO) and the system calls of a handler return.  Nothing is
\* promised of the peers or of the signals.
JobOf(c, g, s) == {j \in pool : j.scid = c /\ j.generation = g /\ j.stream = s}

LoopFairness ==
    /\ \A c \in Scids :
        /\ SF_vars(c \in DOMAIN conns /\ phase_reap_connections(c))
        /\ SF_vars(c \in DOMAIN conns /\ upgrade_user_from_cert(c))
    /\ SF_vars(phase_shutdown_drain)
    /\ SF_vars(loop_stops)
    /\ WF_vars(accept_fails)

PoolFairness ==
    \A c \in Scids, g \in 0..(MaxGen - 1), s \in Stream :
        /\ WF_vars(\E j \in JobOf(c, g, s) : worker_takes(j))
        /\ WF_vars(\E j \in JobOf(c, g, s) : worker_finishes(j))
        /\ SF_vars(\E j \in JobOf(c, g, s) :
                      drop_handler_result(j) \/ apply_handler_result(j))

FairSpec == Spec /\ LoopFairness /\ PoolFairness

-----------------------------------------------------------------------------
(***************************************************************************)
(* Properties.                                                             *)
(***************************************************************************)

\* The jobs of the connection that has SCID c now; a job of an earlier
\* connection with that SCID is not one of them.
JobsOf(c) == {j \in pool : j.scid = c /\ j.generation = conns[c].generation}

\* handler_in_flight tells exactly whether the pool holds a job of this very
\* connection, and it never holds two: the flag survives reaping and reuse of
\* the SCID, results that are dropped, and the hand-over from a result to the
\* next queued request.
OneJobPerConnection ==
    \A c \in DOMAIN conns :
        /\ conns[c].handler_in_flight <=> JobsOf(c) # {}
        /\ \A j, k \in JobsOf(c) : j = k
        /\ conns[c].pending # <<>> => conns[c].handler_in_flight

\* Where request s of connection c is: its responses, its jobs, its places in
\* the queue.
Whereabouts(c, s) ==
    Cardinality({r \in responses : r.generation = conns[c].generation /\ r.stream = s})
    + Cardinality({j \in JobsOf(c) : j.stream = s})
    + Cardinality({i \in DOMAIN conns[c].pending : conns[c].pending[i].stream = s})

\* No request of a live connection is lost, answered twice, run twice, or both
\* answered and still to be run: each one is in exactly one place.
EveryRequestAccounted ==
    \A c \in DOMAIN conns : \A s \in 0..(conns[c].opened - 1) : Whereabouts(c, s) = 1

\* Requests that depend on the working directory run in the order in which
\* they were read (connection.rs: "so `cwd` updates from `Cd` stay correctly
\* ordered"): the queue is in order, the job out is older than all of it, and
\* that job runs with the directory all the earlier ones left behind.
RunsInOrder ==
    \A c \in DOMAIN conns :
        LET q == conns[c].pending IN
        /\ \A i, k \in DOMAIN q : i < k => q[i].stream < q[k].stream
        /\ \A j \in JobsOf(c) :
            /\ j.cwd = conns[c].cwd
            /\ \A i \in DOMAIN q : j.stream < q[i].stream

\* A response is computed for the connection it is sent on, never for an
\* earlier one that had the same SCID (finding L-6 in the code's comments).
RepliesToOwner == \A r \in responses : r.for = r.generation

\* What a handler thread runs, it runs as the user whose permissions let the
\* request pass: acl_reject is asked when a request is read, the user of the
\* job is taken when it is dispatched, and the connection may authenticate in
\* between.  With mTLS no request at all runs as the anonymous user.
RunsAsAdmitted ==
    \A j \in pool : /\ j.user = j.admitted
                    /\ <<j.user, j.req.op>> \in Acl
                    /\ MtlsRequired => j.user # Anonymous

\* connection.rs says of cwd: "Always inside `user.home`".
CwdInsideHome ==
    /\ \A c \in DOMAIN conns : conns[c].cwd.home = conns[c].user
    /\ \A j \in pool : j.cwd.home = j.user /\ j.new_cwd.home = j.user

\* The counters behind the caps count exactly the connections in the table and the
\* slot that try_accept holds, in total and by prefix, whichever way a connection or
\* an accept ends; so no more than the caps allow are ever open, and a slot is never
\* lost.
SlotsExact ==
    /\ total = Cardinality(DOMAIN conns) + (IF slot = NoSlot THEN 0 ELSE 1)
    /\ \A ip \in Ips :
        /\ per_ip[ip] = Cardinality({c \in DOMAIN conns : conns[c].ip = ip})
                        + (IF slot = ip THEN 1 ELSE 0)
        /\ per_ip[ip] <= MaxPerIp
    /\ total <= MaxTotal

Alive(g) == \E c \in DOMAIN conns : conns[c].generation = g /\ ~conns[c].closing
Asked(g, s) == \E c \in DOMAIN conns : conns[c].generation = g /\ s < conns[c].opened
Answered(g, s) == \E r \in responses : r.generation = g /\ r.stream = s /\ r.whole
CutOff(g, s) == \E r \in responses : r.generation = g /\ r.stream = s /\ ~r.whole
Stopped == run \in {"stopped", "exited"}

\* Every request that was read is answered, unless its connection or the server goes
\* away first, or the transport takes only a part of the response (which
\* apply_handler_result logs and leaves at that): no queued request waits for ever
\* behind a handler_in_flight that nothing will clear.
RequestsAnswered ==
    \A g \in 0..(MaxGen - 1), s \in Stream :
        Asked(g, s) ~> Answered(g, s) \/ CutOff(g, s) \/ ~Alive(g) \/ Stopped

\* What dispatch_handler_job's comment says, "so the client always gets a response":
\* a whole one, while connection and server live.
AlwaysResponded ==
    \A g \in 0..(MaxGen - 1), s \in Stream :
        Asked(g, s) ~> Answered(g, s) \/ ~Alive(g) \/ Stopped

\* A shutdown request that finds the loop awake, or woken by a connection's
\* timer, ends it, whatever the clients do.
ShutdownCompletes == shutdown /\ ~asleep ~> Stopped
=============================================================================
