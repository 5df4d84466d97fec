---------------------------- MODULE ServerProofs ----------------------------
(***************************************************************************)
(* Proofs about Server, for any SCIDs, prefixes, users, caps and number of *)
(* handler threads.                                                        *)
(***************************************************************************)
EXTENDS Server, FiniteSetTheorems, TLAPS

-----------------------------------------------------------------------------
(***************************************************************************)
(* Types.                                                                  *)
(***************************************************************************)

ConnsOK == /\ DOMAIN conns \subseteq Scids
           /\ conns \in [DOMAIN conns -> ConnectionContext]

\* Replacing one connection by another one of the right type.
LEMMA ReplaceType ==
    ASSUME ConnsOK, NEW c \in DOMAIN conns, NEW v \in ConnectionContext,
           conns' = [conns EXCEPT ![c] = v]
    PROVE  ConnsOK'
BY DEF ConnsOK

\* The field updates the actions make stay within the type.
LEMMA ContextUpdates ==
    ASSUME NEW cc \in ConnectionContext
    PROVE  /\ [cc EXCEPT !.closing = TRUE] \in ConnectionContext
           /\ \A cert \in Named \cup {NoCert, BadCert} :
                [cc EXCEPT !.established = TRUE, !.cert = cert] \in ConnectionContext
           /\ \A u \in User, d \in Cwd :
                [cc EXCEPT !.user = u, !.cwd = d] \in ConnectionContext
           /\ \A d \in Cwd : [cc EXCEPT !.cwd = d] \in ConnectionContext
           /\ \A b \in BOOLEAN :
                [cc EXCEPT !.handler_in_flight = b] \in ConnectionContext
BY DEF ConnectionContext

LEMMA HomeType == ASSUME NEW u \in User PROVE Home(u) \in Cwd
BY DEF Home, Cwd, Root

\* A request taken off a readable stream, and the job made of it.
LEMMA JobType ==
    ASSUME NEW c \in Scids, NEW cc \in ConnectionContext, NEW q \in Queued
    PROVE  job(c, cc, q) \in HandlerJob
BY DEF job, HandlerJob, ConnectionContext, Queued

LEMMA AdvanceType ==
    ASSUME NEW c \in Scids, NEW cc \in ConnectionContext
    PROVE  /\ advance(cc) \in ConnectionContext
           /\ next_jobs(c, cc) \in SUBSET HandlerJob
<1>1. cc.pending \in Seq(Queued)
  BY DEF ConnectionContext
<1>2. CASE cc.pending = <<>>
  BY <1>2, ContextUpdates DEF advance, next_jobs
<1>3. CASE cc.pending # <<>>
  <2>1. Tail(cc.pending) \in Seq(Queued) /\ Head(cc.pending) \in Queued
    BY <1>1, <1>3
  <2>2. [cc EXCEPT !.pending = Tail(cc.pending)] \in ConnectionContext
    BY <2>1 DEF ConnectionContext
  <2> QED
    BY <1>3, <2>1, <2>2, JobType DEF advance, next_jobs
<1> QED
  BY <1>2, <1>3

LEMMA InitType == Init => TypeOK
<1> SUFFICES ASSUME Init PROVE TypeOK
  OBVIOUS
<1>1. conns = <<>> /\ DOMAIN conns = {}
  BY DEF Init
<1>2. conns \in [DOMAIN conns -> ConnectionContext]
  BY <1>1
<1>3. per_ip \in [Ips -> Nat] /\ pool \in SUBSET HandlerJob /\ responses \in SUBSET Reply
  BY DEF Init
<1> QED
  BY <1>1, <1>2, <1>3 DEF Init, TypeOK

LEMMA AcceptType ==
    ASSUME TypeOK, NEW c \in Scids, NEW ip \in Ips, NEW early \in BOOLEAN,
           try_accept(c, ip, early)
    PROVE  TypeOK'
<1>1. Anonymous \in User
  BY DEF User
<1> DEFINE cc == [generation |-> next_generation, ip |-> ip,
                  user |-> Anonymous, cwd |-> Home(Anonymous),
                  handler_in_flight |-> FALSE, pending |-> <<>>,
                  established |-> FALSE, early |-> early, cert |-> NoCert,
                  closing |-> FALSE, opened |-> 0]
<1>2. cc \in ConnectionContext
  BY <1>1, HomeType, ServerAssumption DEF ConnectionContext, TypeOK
<1> HIDE DEF cc
<1>3. conns' = With(conns, c, cc)
  BY DEF try_accept, cc
<1>4. DOMAIN conns' \subseteq Scids /\ conns' \in [DOMAIN conns' -> ConnectionContext]
  BY <1>2, <1>3 DEF With, TypeOK
<1>5. total' \in Nat /\ next_generation' \in Nat /\ per_ip' \in [Ips -> Nat]
  BY DEF try_accept, TypeOK
<1> QED
  BY <1>4, <1>5 DEF try_accept, TypeOK

LEMMA ConnectionStepType ==
    ASSUME TypeOK, NEW c \in DOMAIN conns,
           \/ \E cert \in Named \cup {NoCert, BadCert} : handshake_completes(c, cert)
           \/ connection_ends(c)
           \/ upgrade_user_from_cert(c)
    PROVE  TypeOK'
<1>1. conns[c] \in ConnectionContext /\ ConnsOK
  BY DEF TypeOK, ConnsOK
<1>2. \E v \in ConnectionContext : conns' = [conns EXCEPT ![c] = v]
  <2>1. CASE \E cert \in Named \cup {NoCert, BadCert} : handshake_completes(c, cert)
    <3>1. PICK cert \in Named \cup {NoCert, BadCert} : handshake_completes(c, cert)
      BY <2>1
    <3>2. conns' = [conns EXCEPT ![c] =
                      [conns[c] EXCEPT !.established = TRUE, !.cert = cert]]
      BY <3>1 DEF handshake_completes
    <3> QED
      BY <1>1, <3>2, ContextUpdates
  <2>2. CASE connection_ends(c)
    <3>1. conns' = [conns EXCEPT ![c] = [conns[c] EXCEPT !.closing = TRUE]]
      BY <2>2 DEF connection_ends
    <3> QED
      BY <1>1, <3>1, ContextUpdates
  <2>3. CASE upgrade_user_from_cert(c)
    <3>1. CASE conns[c].cert \in Named /\
               conns' = [conns EXCEPT ![c].user = conns[c].cert,
                                      ![c].cwd = Home(conns[c].cert)]
      <4>1. conns[c].cert \in User
        BY <3>1 DEF User
      <4>2. conns' = [conns EXCEPT ![c] = [conns[c] EXCEPT !.user = conns[c].cert,
                                                 !.cwd = Home(conns[c].cert)]]
        BY <3>1
      <4> QED
        BY <1>1, <4>1, <4>2, HomeType, ContextUpdates
    <3>2. CASE conns' = [conns EXCEPT ![c].closing = TRUE]
      <4>1. conns' = [conns EXCEPT ![c] = [conns[c] EXCEPT !.closing = TRUE]]
        BY <3>2
      <4> QED
        BY <1>1, <4>1, ContextUpdates
    <3> QED
      BY <2>3, <3>1, <3>2 DEF upgrade_user_from_cert
  <2> QED
    BY <2>1, <2>2, <2>3
<1>3. ConnsOK'
  BY <1>1, <1>2, ReplaceType
<1> QED
  BY <1>3 DEF handshake_completes, connection_ends, upgrade_user_from_cert, TypeOK, ConnsOK

LEMMA ReapType ==
    ASSUME TypeOK, NEW c \in DOMAIN conns, phase_reap_connections(c)
    PROVE  TypeOK'
<1>1. DOMAIN conns' \subseteq Scids /\ conns' \in [DOMAIN conns' -> ConnectionContext]
  BY DEF phase_reap_connections, Without, TypeOK
<1>2. conns[c].ip \in Ips /\ release(conns[c].ip)
  BY DEF phase_reap_connections, TypeOK, ConnectionContext
<1>3. total' \in Nat /\ per_ip' \in [Ips -> Nat]
  BY <1>2 DEF release, TypeOK
<1> QED
  BY <1>1, <1>3 DEF phase_reap_connections, TypeOK

\* A stream number that is still free, and a request that fits it.
LEMMA ReadableType ==
    ASSUME NEW cc \in ConnectionContext, readable(cc), NEW req \in Request
    PROVE  /\ cc.opened \in Stream /\ cc.opened + 1 \in 0..MaxRequests
           /\ [stream |-> cc.opened, req |-> req, admitted |-> cc.user] \in Queued
<1>1. cc.opened \in 0..MaxRequests /\ cc.opened < MaxRequests /\ cc.user \in User
  BY DEF ConnectionContext, readable
<1>2. cc.opened \in Stream /\ cc.opened + 1 \in 0..MaxRequests
  BY <1>1, ServerAssumption DEF Stream
<1> QED
  BY <1>1, <1>2 DEF Queued

LEMMA ReplyType ==
    ASSUME NEW cc \in ConnectionContext, NEW s \in Stream, NEW g \in Nat, NEW w \in BOOLEAN
    PROVE  reply(cc, s, g, w) \in Reply
BY DEF reply, Reply, ConnectionContext

\* What an answer changes in the table.
LEMMA AnswerForm ==
    ASSUME NEW c \in DOMAIN conns, NEW req \in Request, answer_inline(c, req)
    PROVE  \E b \in BOOLEAN :
             conns' = [conns EXCEPT ![c] =
                         [conns[c] EXCEPT !.opened = conns[c].opened + 1, !.closing = b]]
<1> DEFINE cc == conns[c]
<1>1. PICK whole \in BOOLEAN :
        conns' = [conns EXCEPT
              ![c].opened = @ + 1,
              ![c].closing = @ \/ ~whole \/ (req.op = "quit" /\ admissible(cc, req))]
  BY DEF answer_inline
<1> DEFINE b == cc.closing \/ ~whole \/ (req.op = "quit" /\ admissible(cc, req))
<1>2. b \in BOOLEAN
  OBVIOUS
<1>3. conns' = [conns EXCEPT ![c] = [cc EXCEPT !.opened = cc.opened + 1, !.closing = b]]
  BY <1>1, Zenon
<1> QED
  BY <1>2, <1>3, Zenon

LEMMA AnswerType ==
    ASSUME TypeOK, NEW c \in DOMAIN conns, NEW req \in Request, answer_inline(c, req)
    PROVE  TypeOK'
<1> DEFINE cc == conns[c]
<1>1. cc \in ConnectionContext /\ cc.generation \in Nat /\ ConnsOK
  BY DEF TypeOK, ConnsOK, ConnectionContext
<1>2. cc.opened \in Stream /\ cc.opened + 1 \in 0..MaxRequests
  BY <1>1, ReadableType DEF answer_inline
<1>3. \E whole \in BOOLEAN :
        responses' = responses \cup {reply(cc, cc.opened, cc.generation, whole)}
  BY DEF answer_inline
<1>4. responses' \in SUBSET Reply
  BY <1>1, <1>2, <1>3, ReplyType DEF TypeOK
<1>5. PICK b \in BOOLEAN :
        conns' = [conns EXCEPT ![c] = [cc EXCEPT !.opened = cc.opened + 1, !.closing = b]]
  BY AnswerForm
<1>6. [cc EXCEPT !.opened = cc.opened + 1, !.closing = b] \in ConnectionContext
  BY <1>1, <1>2 DEF ConnectionContext
<1>7. ConnsOK'
  BY <1>1, <1>5, <1>6, ReplaceType
<1> QED
  BY <1>4, <1>7 DEF answer_inline, TypeOK, ConnsOK

LEMMA HandleType ==
    ASSUME TypeOK, NEW c \in DOMAIN conns, NEW req \in Request, handle_simple(c, req)
    PROVE  TypeOK'
<1> DEFINE cc == conns[c]
           q == [stream |-> cc.opened, req |-> req, admitted |-> cc.user]
<1>1. cc \in ConnectionContext /\ ConnsOK /\ c \in Scids
  BY DEF TypeOK, ConnsOK
<1>2. q \in Queued /\ cc.opened + 1 \in 0..MaxRequests
  BY <1>1, ReadableType DEF handle_simple
<1> HIDE DEF q
<1>3. CASE cc.handler_in_flight
  <2>1. /\ conns' = [conns EXCEPT ![c].opened = @ + 1, ![c].pending = Append(@, q)]
        /\ pool' = pool
    BY <1>3 DEF handle_simple, q
  <2>2. conns' = [conns EXCEPT ![c] = [cc EXCEPT !.opened = cc.opened + 1,
                                            !.pending = Append(cc.pending, q)]]
    BY <2>1, Zenon
  <2>3. Append(cc.pending, q) \in Seq(Queued)
    BY <1>1, <1>2 DEF ConnectionContext
  <2>4. [cc EXCEPT !.opened = cc.opened + 1, !.pending = Append(cc.pending, q)]
          \in ConnectionContext
    BY <1>1, <1>2, <2>3 DEF ConnectionContext
  <2>5. ConnsOK'
    BY <1>1, <2>2, <2>4, ReplaceType
  <2> QED
    BY <2>1, <2>5 DEF handle_simple, TypeOK, ConnsOK
<1>4. CASE ~cc.handler_in_flight
  <2>1. /\ conns' = [conns EXCEPT ![c].opened = @ + 1, ![c].handler_in_flight = TRUE]
        /\ pool' = pool \cup {job(c, cc, q)}
    BY <1>4 DEF handle_simple, q
  <2>2. conns' = [conns EXCEPT ![c] = [cc EXCEPT !.opened = cc.opened + 1,
                                            !.handler_in_flight = TRUE]]
    BY <2>1, Zenon
  <2>3. [cc EXCEPT !.opened = cc.opened + 1, !.handler_in_flight = TRUE]
          \in ConnectionContext
    BY <1>1, <1>2 DEF ConnectionContext
  <2>4. ConnsOK'
    BY <1>1, <2>2, <2>3, ReplaceType
  <2>5. pool' \in SUBSET HandlerJob
    BY <1>1, <1>2, <2>1, JobType DEF TypeOK
  <2> QED
    BY <2>4, <2>5 DEF handle_simple, TypeOK, ConnsOK
<1> QED
  BY <1>3, <1>4

LEMMA WorkerType ==
    ASSUME TypeOK, NEW j \in pool, worker_takes(j) \/ worker_finishes(j)
    PROVE  TypeOK'
<1>1. j \in HandlerJob
  BY DEF TypeOK
<1>2. CASE worker_takes(j)
  <2>1. [j EXCEPT !.at = "running"] \in HandlerJob
    BY <1>1 DEF HandlerJob
  <2> QED
    BY <1>2, <2>1 DEF worker_takes, TypeOK
<1>3. CASE worker_finishes(j)
  <2>1. PICK d \in {j.cwd} \cup (IF j.req.op = "cd"
                                 THEN {[home |-> j.user, dir |-> j.req.dir]} ELSE {}) :
          pool' = (pool \ {j}) \cup {[j EXCEPT !.at = "done", !.new_cwd = d]}
    BY <1>3 DEF worker_finishes
  <2>2. d \in Cwd
    BY <1>1, <2>1 DEF HandlerJob, Cwd, Request
  <2>3. [j EXCEPT !.at = "done", !.new_cwd = d] \in HandlerJob
    BY <1>1, <2>2 DEF HandlerJob
  <2> QED
    BY <1>3, <2>1, <2>3 DEF worker_finishes, TypeOK
<1> QED
  BY <1>2, <1>3

\* The connection a result is applied to, with the result's cwd or its own.
Applied(j) ==
    IF handler_result_user_matches(conns[j.scid].user, j.user)
    THEN [conns[j.scid] EXCEPT !.cwd = j.new_cwd] ELSE conns[j.scid]

\* Taking over a cwd, and moving on to the next job, leave the rest alone.
LEMMA AppliedFields ==
    ASSUME TypeOK, NEW j \in pool, j.scid \in DOMAIN conns
    PROVE  LET cc == conns[j.scid] IN
           /\ Applied(j) \in ConnectionContext
           /\ Applied(j).generation = cc.generation /\ Applied(j).ip = cc.ip
           /\ Applied(j).user = cc.user /\ Applied(j).pending = cc.pending
           /\ Applied(j).cert = cc.cert
           /\ Applied(j).handler_in_flight = cc.handler_in_flight
           /\ Applied(j).opened = cc.opened
           /\ \/ Applied(j).cwd = cc.cwd
              \/ cc.user = j.user /\ Applied(j).cwd = j.new_cwd
<1> DEFINE cc == conns[j.scid]
<1>1. cc \in ConnectionContext /\ j.new_cwd \in Cwd
  BY DEF TypeOK, HandlerJob
<1>2. CASE cc.user = j.user
  <2>1. Applied(j) = [cc EXCEPT !.cwd = j.new_cwd]
    BY <1>2 DEF Applied, handler_result_user_matches
  <2>2. Applied(j) \in ConnectionContext
    BY <1>1, <2>1, ContextUpdates
  <2> QED
    BY <1>1, <1>2, <2>1, <2>2 DEF ConnectionContext
<1>3. CASE cc.user # j.user
  <2>1. Applied(j) = cc
    BY <1>3 DEF Applied, handler_result_user_matches
  <2> QED
    BY <1>1, <2>1
<1> QED
  BY <1>2, <1>3

LEMMA AdvanceFields ==
    ASSUME NEW cc \in ConnectionContext
    PROVE  /\ advance(cc).generation = cc.generation /\ advance(cc).ip = cc.ip
           /\ advance(cc).user = cc.user /\ advance(cc).cwd = cc.cwd
           /\ advance(cc).cert = cc.cert /\ advance(cc).opened = cc.opened
           /\ cc.pending = <<>> => /\ advance(cc).pending = <<>>
                                  /\ advance(cc).handler_in_flight = FALSE
           /\ cc.pending # <<>> => /\ advance(cc).pending = Tail(cc.pending)
                                  /\ advance(cc).handler_in_flight = cc.handler_in_flight
<1>1. CASE cc.pending = <<>>
  BY <1>1 DEF advance, ConnectionContext
<1>2. CASE cc.pending # <<>>
  BY <1>2 DEF advance, ConnectionContext
<1> QED
  BY <1>1, <1>2

LEMMA ApplyType ==
    ASSUME TypeOK, NEW j \in pool, apply_handler_result(j)
    PROVE  TypeOK'
<1> DEFINE c == j.scid
           cc == Applied(j)
<1>1. j \in HandlerJob /\ c \in DOMAIN conns /\ c \in Scids /\ conns[c] \in ConnectionContext
  BY DEF TypeOK, apply_handler_result
<1>2. cc \in ConnectionContext
  BY <1>1, AppliedFields
<1>3. /\ \E whole \in BOOLEAN :
           responses' = responses \cup {reply(cc, j.stream, j.generation, whole)}
      /\ conns' = [conns EXCEPT ![c] = advance(cc)]
      /\ pool' = (pool \ {j}) \cup next_jobs(c, cc)
  BY DEF apply_handler_result, Applied
<1> HIDE DEF cc, c
<1>4. responses' \in SUBSET Reply
  BY <1>1, <1>2, <1>3, ReplyType DEF TypeOK, HandlerJob
<1>5. ConnsOK'
  BY <1>1, <1>2, <1>3, AdvanceType, ReplaceType DEF TypeOK, ConnsOK
<1>6. pool' \in SUBSET HandlerJob
  BY <1>1, <1>2, <1>3, AdvanceType DEF TypeOK
<1> QED
  BY <1>4, <1>5, <1>6 DEF apply_handler_result, TypeOK, ConnsOK

LEMMA DrainType ==
    ASSUME TypeOK, phase_shutdown_drain
    PROVE  TypeOK'
<1>1. \A c \in DOMAIN conns : [conns[c] EXCEPT !.closing = TRUE] \in ConnectionContext
  BY ContextUpdates DEF TypeOK
<1>2. DOMAIN conns' \subseteq Scids /\ conns' \in [DOMAIN conns' -> ConnectionContext]
  BY <1>1 DEF phase_shutdown_drain, TypeOK
<1> QED
  BY <1>2 DEF phase_shutdown_drain, TypeOK

LEMMA ExitType ==
    ASSUME TypeOK, process_exits
    PROVE  TypeOK'
<1>1. conns' = <<>> /\ DOMAIN conns' = {}
  BY DEF process_exits
<1>2. conns' \in [DOMAIN conns' -> ConnectionContext]
  BY <1>1
<1>3. per_ip' \in [Ips -> Nat] /\ pool' \in SUBSET HandlerJob
  BY DEF process_exits
<1> QED
  BY <1>1, <1>2, <1>3 DEF process_exits, TypeOK

\* A slot is taken, or given back without a connection.
SlotStep == (\E ip \in Ips : try_acquire(ip)) \/ accept_fails

LEMMA SlotStepRest ==
    ASSUME SlotStep
    PROVE  UNCHANGED <<conns, next_generation, pool, responses, shutdown, closing>>
BY DEF SlotStep, try_acquire, accept_fails

LEMMA SlotStepType ==
    ASSUME TypeOK, SlotStep
    PROVE  TypeOK'
<1>1. total' \in Nat /\ per_ip' \in [Ips -> Nat] /\ slot' \in Ips \cup {NoSlot}
  BY DEF SlotStep, try_acquire, accept_fails, release, TypeOK
<1>2. run' \in {"serving", "accepting"} /\ (run' = "accepting" <=> slot' # NoSlot)
  BY ServerAssumption DEF SlotStep, try_acquire, accept_fails
<1>3. asleep' \in BOOLEAN
  BY DEF SlotStep, try_acquire, accept_fails, TypeOK
<1> QED
  BY <1>1, <1>2, <1>3, SlotStepRest DEF TypeOK

LEMMA NextType == TypeOK /\ [Next]_vars => TypeOK'
<1> SUFFICES ASSUME TypeOK, [Next]_vars PROVE TypeOK'
  OBVIOUS
<1>1. ASSUME NEW c \in Scids, NEW ip \in Ips, NEW early \in BOOLEAN,
             try_accept(c, ip, early)
      PROVE  TypeOK'
  BY <1>1, AcceptType
<1>2. ASSUME NEW c \in DOMAIN conns,
             \/ \E cert \in Named \cup {NoCert, BadCert} : handshake_completes(c, cert)
             \/ connection_ends(c)
             \/ phase_reap_connections(c)
             \/ upgrade_user_from_cert(c)
             \/ \E req \in Request : answer_inline(c, req) \/ handle_simple(c, req)
      PROVE  TypeOK'
  BY <1>2, ConnectionStepType, ReapType, AnswerType, HandleType
<1>3. ASSUME NEW j \in pool,
             \/ worker_takes(j) \/ worker_finishes(j)
             \/ drop_handler_result(j) \/ apply_handler_result(j)
      PROVE  TypeOK'
  <2>1. CASE drop_handler_result(j)
    BY <2>1 DEF drop_handler_result, TypeOK
  <2> QED
    BY <1>3, <2>1, WorkerType, ApplyType
<1>4. CASE poll_without_timeout \/ packet_wakes \/ signal_arrives \/ loop_stops
  BY <1>4 DEF poll_without_timeout, packet_wakes, signal_arrives, loop_stops, TypeOK
<1>5. CASE UNCHANGED vars
  BY <1>5 DEF vars, TypeOK
<1> QED
  BY <1>1, <1>2, <1>3, <1>4, <1>5, DrainType, ExitType, SlotStepType DEF Next, SlotStep

\* Every reachable state has its type: in particular neither connection
\* counter is ever taken below zero, and no queue or job refers to a request
\* that was not read.
THEOREM TypeCorrect == Spec => []TypeOK
BY InitType, NextType, PTL DEF Spec

-----------------------------------------------------------------------------
(***************************************************************************)
(* The caps.                                                               *)
(***************************************************************************)

At(ip) == {c \in DOMAIN conns : conns[c].ip = ip}

LEMMA TableFinite ==
    ASSUME TypeOK
    PROVE  /\ IsFiniteSet(DOMAIN conns)
           /\ \A ip \in Ips : IsFiniteSet(At(ip))
<1>1. IsFiniteSet(DOMAIN conns)
  BY ServerAssumption, FS_Subset DEF TypeOK
<1>2. \A ip \in Ips : At(ip) \subseteq DOMAIN conns
  BY DEF At
<1> QED
  BY <1>1, <1>2, FS_Subset

\* A step that neither opens nor reaps a connection.
LEMMA SlotsKept ==
    ASSUME SlotsExact, DOMAIN conns' = DOMAIN conns,
           \A c \in DOMAIN conns : conns'[c].ip = conns[c].ip,
           total' = total, per_ip' = per_ip, slot' = slot
    PROVE  SlotsExact'
<1>1. \A ip \in Ips : At(ip)' = At(ip)
  BY DEF At
<1> QED
  BY <1>1 DEF SlotsExact, At

LEMMA AcceptSlots ==
    ASSUME TypeOK, SlotsExact, NEW c \in Scids, NEW ip \in Ips, NEW early \in BOOLEAN,
           try_accept(c, ip, early)
    PROVE  SlotsExact'
<1>1. /\ DOMAIN conns' = DOMAIN conns \cup {c} /\ c \notin DOMAIN conns
      /\ conns'[c].ip = ip
      /\ \A d \in DOMAIN conns : conns'[d] = conns[d]
  BY DEF try_accept, With
<1>2. Cardinality(DOMAIN conns') = Cardinality(DOMAIN conns) + 1
  BY <1>1, TableFinite, FS_AddElement
<1>3. At(ip)' = At(ip) \cup {c} /\ c \notin At(ip)
  BY <1>1 DEF At
<1>4. Cardinality(At(ip)') = Cardinality(At(ip)) + 1
  BY <1>3, TableFinite, FS_AddElement
<1>5. \A k \in Ips \ {ip} : At(k)' = At(k)
  BY <1>1 DEF At
<1>6. UNCHANGED <<total, per_ip>> /\ slot = ip /\ slot' = NoSlot
  BY DEF try_accept
<1>7. /\ total = Cardinality(DOMAIN conns) + 1 /\ total <= MaxTotal
      /\ per_ip[ip] = Cardinality(At(ip)) + 1
      /\ \A k \in Ips : per_ip[k] <= MaxPerIp
      /\ \A k \in Ips \ {ip} : per_ip[k] = Cardinality(At(k)) + 0
  BY <1>6, ServerAssumption DEF SlotsExact, At
<1>8. total' = Cardinality(DOMAIN conns') /\ total' <= MaxTotal
  BY <1>2, <1>6, <1>7
<1>9. \A k \in Ips : Cardinality(At(k)') \in Nat
  <2>1. \A k \in Ips : IsFiniteSet(At(k)) /\ Cardinality(At(k)) \in Nat
    BY TableFinite, FS_CardinalityType
  <2> QED
    BY <1>4, <1>5, <2>1
<1>10. \A k \in Ips : per_ip'[k] = Cardinality(At(k)') /\ per_ip'[k] <= MaxPerIp
  <2>1. \A k \in Ips : Cardinality(At(k)) \in Nat
    BY TableFinite, FS_CardinalityType
  <2> QED
    BY <1>4, <1>5, <1>6, <1>7, <2>1
<1>11. Cardinality(DOMAIN conns') \in Nat
  BY <1>2, TableFinite, FS_CardinalityType
<1>12. slot' # ip /\ \A k \in Ips : slot' # k
  BY <1>6, ServerAssumption
<1>13. /\ total' = Cardinality(DOMAIN conns') + (IF slot' = NoSlot THEN 0 ELSE 1)
       /\ \A k \in Ips : per_ip'[k] = Cardinality(At(k)') + (IF slot' = k THEN 1 ELSE 0)
  BY <1>6, <1>8, <1>9, <1>10, <1>11, <1>12
<1> QED
  BY <1>8, <1>10, <1>13 DEF SlotsExact, At

LEMMA AcquireSlots ==
    ASSUME TypeOK, SlotsExact, SlotStep
    PROVE  SlotsExact'
<1>0. /\ conns' = conns /\ \A k \in Ips : At(k)' = At(k)
  BY SlotStepRest DEF At
<1>1. /\ total \in Nat /\ per_ip \in [Ips -> Nat]
      /\ Cardinality(DOMAIN conns) \in Nat /\ \A k \in Ips : Cardinality(At(k)) \in Nat
  BY TableFinite, FS_CardinalityType DEF TypeOK
<1>2. /\ total = Cardinality(DOMAIN conns) + (IF slot = NoSlot THEN 0 ELSE 1)
      /\ \A k \in Ips : /\ per_ip[k] = Cardinality(At(k)) + (IF slot = k THEN 1 ELSE 0)
                        /\ per_ip[k] <= MaxPerIp
      /\ total <= MaxTotal
  BY DEF SlotsExact, At
<1>3. ASSUME NEW ip \in Ips, try_acquire(ip) PROVE SlotsExact'
  <2>1. /\ slot = NoSlot /\ slot' = ip /\ total' = total + 1 /\ total < MaxTotal
        /\ per_ip' = [per_ip EXCEPT ![ip] = @ + 1] /\ per_ip[ip] < MaxPerIp
    BY <1>3 DEF try_acquire, TypeOK
  <2>2. \A k \in Ips : per_ip'[k] = Cardinality(At(k)') + (IF slot' = k THEN 1 ELSE 0)
                       /\ per_ip'[k] <= MaxPerIp
    BY <1>0, <1>1, <1>2, <2>1, ServerAssumption
  <2>3. /\ total' = Cardinality(DOMAIN conns') + (IF slot' = NoSlot THEN 0 ELSE 1)
        /\ total' <= MaxTotal
    BY <1>0, <1>1, <1>2, <2>1, ServerAssumption
  <2> QED
    BY <2>2, <2>3 DEF SlotsExact, At
<1>4. CASE accept_fails
  <2>1. PICK ip \in Ips : ip = slot
    BY <1>4, ServerAssumption DEF accept_fails, TypeOK
  <2>2. /\ slot' = NoSlot /\ total' = IF total > 0 THEN total - 1 ELSE 0
        /\ per_ip' = [per_ip EXCEPT ![ip] = IF @ > 0 THEN @ - 1 ELSE 0]
    BY <1>4, <2>1 DEF accept_fails, release
  <2>3. \A k \in Ips : per_ip'[k] = Cardinality(At(k)') + (IF slot' = k THEN 1 ELSE 0)
                       /\ per_ip'[k] <= MaxPerIp
    BY <1>0, <1>1, <1>2, <2>1, <2>2, ServerAssumption
  <2>4. /\ total' = Cardinality(DOMAIN conns') + (IF slot' = NoSlot THEN 0 ELSE 1)
        /\ total' <= MaxTotal
    BY <1>0, <1>1, <1>2, <2>1, <2>2, ServerAssumption
  <2> QED
    BY <2>3, <2>4 DEF SlotsExact, At
<1> QED
  BY <1>3, <1>4 DEF SlotStep

LEMMA ReapSlots ==
    ASSUME TypeOK, SlotsExact, NEW c \in DOMAIN conns, phase_reap_connections(c)
    PROVE  SlotsExact'
<1>0. PICK ip \in Ips : ip = conns[c].ip
  BY DEF TypeOK, ConnectionContext
<1>1. /\ DOMAIN conns' = DOMAIN conns \ {c}
      /\ \A d \in DOMAIN conns' : conns'[d] = conns[d]
  BY DEF phase_reap_connections, Without
<1>2. Cardinality(DOMAIN conns') = Cardinality(DOMAIN conns) - 1
  BY <1>1, TableFinite, FS_RemoveElement
<1>3. At(ip)' = At(ip) \ {c} /\ c \in At(ip)
  BY <1>0, <1>1 DEF At
<1>4. Cardinality(At(ip)') = Cardinality(At(ip)) - 1
  BY <1>0, <1>3, TableFinite, FS_RemoveElement
<1>5. \A k \in Ips \ {ip} : At(k)' = At(k)
  BY <1>0, <1>1 DEF At
<1>6. /\ total' = IF total > 0 THEN total - 1 ELSE 0
      /\ per_ip' = [per_ip EXCEPT ![ip] = IF @ > 0 THEN @ - 1 ELSE 0]
  BY <1>0 DEF phase_reap_connections, release
<1>s. slot = NoSlot /\ slot' = NoSlot
  BY DEF phase_reap_connections, TypeOK
<1>t. Cardinality(DOMAIN conns) \in Nat /\ \A k \in Ips : Cardinality(At(k)) \in Nat
  BY TableFinite, FS_CardinalityType
<1>7. /\ total = Cardinality(DOMAIN conns) /\ total \in Nat /\ total <= MaxTotal
      /\ \A k \in Ips : per_ip[k] = Cardinality(At(k)) /\ per_ip[k] \in Nat
                        /\ per_ip[k] <= MaxPerIp
      /\ per_ip \in [Ips -> Nat]
  BY <1>s, <1>t, ServerAssumption DEF SlotsExact, At, TypeOK
<1>8. total > 0 /\ per_ip[ip] > 0
  <2>1. Cardinality(DOMAIN conns') \in Nat /\ Cardinality(At(ip)') \in Nat
    <3>1. IsFiniteSet(DOMAIN conns') /\ IsFiniteSet(At(ip)')
      BY <1>0, <1>1, <1>3, TableFinite, FS_Subset
    <3> QED
      BY <3>1, FS_CardinalityType
  <2> QED
    BY <1>0, <1>2, <1>4, <1>7, <2>1
<1>9. total' = Cardinality(DOMAIN conns') /\ total' <= MaxTotal
  BY <1>2, <1>6, <1>7, <1>8, ServerAssumption
<1>10. \A k \in Ips : per_ip'[k] = Cardinality(At(k)') /\ per_ip'[k] <= MaxPerIp
  <2>1. per_ip'[ip] = Cardinality(At(ip)') /\ per_ip'[ip] <= MaxPerIp
    BY <1>0, <1>4, <1>6, <1>7, <1>8, ServerAssumption
  <2>2. \A k \in Ips \ {ip} : per_ip'[k] = Cardinality(At(k)') /\ per_ip'[k] <= MaxPerIp
    BY <1>5, <1>6, <1>7
  <2> QED
    BY <2>1, <2>2
<1>11. \A k \in Ips : per_ip'[k] = Cardinality(At(k)') + 0
  BY <1>4, <1>5, <1>10, <1>t
<1>12. total' = Cardinality(DOMAIN conns') + 0
  BY <1>2, <1>9, <1>t
<1> QED
  BY <1>s, <1>9, <1>10, <1>11, <1>12, ServerAssumption DEF SlotsExact, At

LEMMA InitSlots == Init => SlotsExact
<1> SUFFICES ASSUME Init PROVE SlotsExact
  OBVIOUS
<1>1. DOMAIN conns = {} /\ \A ip \in Ips : At(ip) = {}
  BY DEF Init, At
<1>2. Cardinality({}) = 0
  BY FS_EmptySet
<1> QED
  BY <1>1, <1>2, ServerAssumption DEF Init, SlotsExact, At

LEMMA ExitSlots == ASSUME TypeOK, process_exits PROVE SlotsExact'
<1>1. DOMAIN conns' = {} /\ \A ip \in Ips : At(ip)' = {}
  BY DEF process_exits, At
<1>2. Cardinality({}) = 0
  BY FS_EmptySet
<1> QED
  BY <1>1, <1>2, ServerAssumption DEF process_exits, SlotsExact, At, TypeOK

LEMMA NextSlots == TypeOK /\ TypeOK' /\ SlotsExact /\ [Next]_vars => SlotsExact'
<1> SUFFICES ASSUME TypeOK, TypeOK', SlotsExact, [Next]_vars PROVE SlotsExact'
  OBVIOUS
<1>1. ASSUME NEW c \in Scids, NEW ip \in Ips, NEW early \in BOOLEAN,
             try_accept(c, ip, early)
      PROVE  SlotsExact'
  BY <1>1, AcceptSlots
<1>2. ASSUME NEW c \in DOMAIN conns, phase_reap_connections(c)
      PROVE  SlotsExact'
  BY <1>2, ReapSlots
<1>3. ASSUME NEW c \in DOMAIN conns,
             \/ \E cert \in Named \cup {NoCert, BadCert} : handshake_completes(c, cert)
             \/ connection_ends(c)
             \/ upgrade_user_from_cert(c)
             \/ \E req \in Request : answer_inline(c, req) \/ handle_simple(c, req)
      PROVE  SlotsExact'
  <2>1. UNCHANGED <<total, per_ip, slot>>
    BY <1>3 DEF handshake_completes, connection_ends, upgrade_user_from_cert,
                answer_inline, handle_simple
  <2>2. /\ DOMAIN conns' = DOMAIN conns
        /\ \A d \in DOMAIN conns : conns'[d].ip = conns[d].ip
    <3>1. conns[c] \in ConnectionContext
      BY DEF TypeOK
    <3>2. CASE \E cert \in Named \cup {NoCert, BadCert} : handshake_completes(c, cert)
      BY <3>1, <3>2 DEF handshake_completes, ConnectionContext
    <3>3. CASE connection_ends(c)
      BY <3>1, <3>3 DEF connection_ends, ConnectionContext
    <3>4. CASE upgrade_user_from_cert(c)
      BY <3>1, <3>4 DEF upgrade_user_from_cert, ConnectionContext
    <3>5. ASSUME NEW req \in Request, answer_inline(c, req)
          PROVE  /\ DOMAIN conns' = DOMAIN conns
                 /\ \A d \in DOMAIN conns : conns'[d].ip = conns[d].ip
      BY <3>1, <3>5 DEF answer_inline, ConnectionContext
    <3>6. ASSUME NEW req \in Request, handle_simple(c, req)
          PROVE  /\ DOMAIN conns' = DOMAIN conns
                 /\ \A d \in DOMAIN conns : conns'[d].ip = conns[d].ip
      BY <3>1, <3>6 DEF handle_simple, ConnectionContext
    <3> QED
      BY <1>3, <3>2, <3>3, <3>4, <3>5, <3>6
  <2> QED
    BY <2>1, <2>2, SlotsKept
<1>4. ASSUME NEW j \in pool, apply_handler_result(j)
      PROVE  SlotsExact'
  <2>1. /\ j.scid \in DOMAIN conns /\ conns[j.scid] \in ConnectionContext
        /\ conns' = [conns EXCEPT ![j.scid] = advance(Applied(j))]
        /\ UNCHANGED <<total, per_ip, slot>>
    BY <1>4 DEF apply_handler_result, Applied, TypeOK
  <2>2. Applied(j).ip = conns[j.scid].ip /\ Applied(j) \in ConnectionContext
    BY <2>1, AppliedFields
  <2>3. advance(Applied(j)).ip = conns[j.scid].ip
    BY <2>2, AdvanceFields
  <2>4. \A d \in DOMAIN conns : conns'[d].ip = conns[d].ip
    BY <2>1, <2>3
  <2> QED
    BY <2>1, <2>4, SlotsKept
<1>5. CASE phase_shutdown_drain
  <2>1. \A c \in DOMAIN conns : conns'[c].ip = conns[c].ip
    BY <1>5 DEF phase_shutdown_drain, TypeOK, ConnectionContext
  <2> QED
    BY <1>5, <2>1, SlotsKept DEF phase_shutdown_drain
<1>6. ASSUME UNCHANGED <<conns, total, per_ip, slot>> PROVE SlotsExact'
  BY <1>6, SlotsKept
<1>7. ASSUME NEW j \in pool, worker_takes(j) \/ worker_finishes(j) \/ drop_handler_result(j)
      PROVE  SlotsExact'
  BY <1>6, <1>7 DEF worker_takes, worker_finishes, drop_handler_result
<1>8. CASE poll_without_timeout \/ packet_wakes \/ signal_arrives \/ loop_stops \/ UNCHANGED vars
  BY <1>6, <1>8 DEF poll_without_timeout, packet_wakes, signal_arrives, loop_stops, vars
<1> QED
  BY <1>1, <1>2, <1>3, <1>4, <1>5, <1>7, <1>8, ExitSlots, AcquireSlots DEF Next, SlotStep

\* For any caps, the counters behind them always count exactly the table, in
\* total and by prefix, and never exceed them.
THEOREM SlotsAreExact == Spec => []SlotsExact
<1>1. Init => TypeOK /\ SlotsExact
  BY InitType, InitSlots
<1>2. TypeOK /\ SlotsExact /\ [Next]_vars => (TypeOK /\ SlotsExact)'
  BY NextType, NextSlots
<1> QED
  BY <1>1, <1>2, PTL DEF Spec

-----------------------------------------------------------------------------
(***************************************************************************)
(* Identity.  The invariant says why an upgrade finds nothing queued: with *)
(* mTLS no request of an anonymous connection is ever admitted, early data *)
(* included, and without mTLS no connection has a certificate.             *)
(***************************************************************************)

ConnIdentity(cc) ==
    /\ cc.cwd.home = cc.user
    /\ cc.cert # NoCert => MtlsRequired
    /\ MtlsRequired /\ cc.user = Anonymous => cc.pending = <<>>
    /\ \A i \in DOMAIN cc.pending :
        /\ cc.pending[i].admitted = cc.user
        /\ <<cc.user, cc.pending[i].req.op>> \in Acl

JobIdentity(j) ==
    /\ j.user = j.admitted
    /\ <<j.user, j.req.op>> \in Acl
    /\ MtlsRequired => j.user # Anonymous
    /\ j.cwd.home = j.user
    /\ j.new_cwd.home = j.user

IdentityInv == /\ \A c \in DOMAIN conns : ConnIdentity(conns[c])
               /\ \A j \in pool : JobIdentity(j)

\* A queued request becomes a job that runs as the user it was admitted for.
LEMMA DispatchIdentity ==
    ASSUME NEW c, NEW cc \in ConnectionContext, NEW q \in Queued,
           cc.cwd.home = cc.user, q.admitted = cc.user, <<cc.user, q.req.op>> \in Acl,
           MtlsRequired => cc.user # Anonymous
    PROVE  JobIdentity(job(c, cc, q))
BY DEF JobIdentity, job

\* What is admitted on a readable stream is admitted for a user that will not
\* change any more.
LEMMA AdmittedIdentity ==
    ASSUME NEW cc \in ConnectionContext, NEW req \in Request,
           readable(cc), admissible(cc, req)
    PROVE  /\ MtlsRequired => cc.user # Anonymous
           /\ <<cc.user, req.op>> \in Acl
BY DEF readable, admissible, needs_upgrade, in_early_data, early_data_refused

LEMMA HandleIdentity ==
    ASSUME TypeOK, IdentityInv, NEW c \in DOMAIN conns, NEW req \in Request,
           handle_simple(c, req)
    PROVE  IdentityInv'
<1> DEFINE cc == conns[c]
           q == [stream |-> cc.opened, req |-> req, admitted |-> cc.user]
<1>1. cc \in ConnectionContext /\ ConnIdentity(cc)
  BY DEF TypeOK, IdentityInv
<1>2. (MtlsRequired => cc.user # Anonymous) /\ <<cc.user, req.op>> \in Acl
  BY <1>1, AdmittedIdentity DEF handle_simple
<1>3. q \in Queued /\ q.admitted = cc.user /\ q.req = req
  BY <1>1, ReadableType DEF handle_simple
<1>4. /\ DOMAIN conns' = DOMAIN conns
      /\ \A d \in DOMAIN conns \ {c} : conns'[d] = conns[d]
  BY DEF handle_simple, TypeOK
<1> HIDE DEF q
<1>5. CASE cc.handler_in_flight
  <2>1. /\ conns' = [conns EXCEPT ![c].opened = @ + 1, ![c].pending = Append(@, q)]
        /\ pool' = pool
    BY <1>5 DEF handle_simple, q
  <2>2. /\ conns'[c].cwd = cc.cwd /\ conns'[c].user = cc.user /\ conns'[c].cert = cc.cert
        /\ conns'[c].pending = Append(cc.pending, q)
    BY <1>1, <2>1 DEF ConnectionContext
  <2>3. \A i \in DOMAIN Append(cc.pending, q) :
          /\ Append(cc.pending, q)[i].admitted = cc.user
          /\ <<cc.user, Append(cc.pending, q)[i].req.op>> \in Acl
    <3> SUFFICES ASSUME NEW i \in DOMAIN Append(cc.pending, q)
                 PROVE  /\ Append(cc.pending, q)[i].admitted = cc.user
                        /\ <<cc.user, Append(cc.pending, q)[i].req.op>> \in Acl
      OBVIOUS
    <3>1. cc.pending \in Seq(Queued)
      BY <1>1 DEF ConnectionContext
    <3>2. \/ i \in DOMAIN cc.pending /\ Append(cc.pending, q)[i] = cc.pending[i]
          \/ Append(cc.pending, q)[i] = q
      BY <1>3, <3>1
    <3> QED
      BY <1>1, <1>2, <1>3, <3>2 DEF ConnIdentity
  <2>4. ConnIdentity(conns'[c])
    BY <1>1, <1>2, <2>2, <2>3 DEF ConnIdentity
  <2> QED
    BY <1>4, <2>1, <2>4 DEF IdentityInv
<1>6. CASE ~cc.handler_in_flight
  <2>1. /\ conns' = [conns EXCEPT ![c].opened = @ + 1, ![c].handler_in_flight = TRUE]
        /\ pool' = pool \cup {job(c, cc, q)}
    BY <1>6 DEF handle_simple, q
  <2>2. /\ conns'[c].cwd = cc.cwd /\ conns'[c].user = cc.user /\ conns'[c].cert = cc.cert
        /\ conns'[c].pending = cc.pending
    BY <1>1, <2>1 DEF ConnectionContext
  <2>3. ConnIdentity(conns'[c])
    BY <1>1, <2>2 DEF ConnIdentity
  <2>4. JobIdentity(job(c, cc, q))
    BY <1>1, <1>2, <1>3, DispatchIdentity DEF ConnIdentity
  <2> QED
    BY <1>4, <2>1, <2>3, <2>4 DEF IdentityInv
<1> QED
  BY <1>5, <1>6

LEMMA ApplyIdentity ==
    ASSUME TypeOK, IdentityInv, NEW j \in pool, apply_handler_result(j)
    PROVE  IdentityInv'
<1> DEFINE c == j.scid
           cc == Applied(j)
<1>1. /\ c \in DOMAIN conns /\ conns[c] \in ConnectionContext /\ ConnIdentity(conns[c])
      /\ JobIdentity(j)
  BY DEF TypeOK, IdentityInv, apply_handler_result
<1>2. cc \in ConnectionContext /\ ConnIdentity(cc)
  BY <1>1, AppliedFields DEF ConnIdentity, JobIdentity
<1>3. /\ conns' = [conns EXCEPT ![c] = advance(cc)]
      /\ pool' = (pool \ {j}) \cup next_jobs(c, cc)
  BY DEF apply_handler_result, Applied
<1> HIDE DEF cc, c
<1>4. ConnIdentity(advance(cc)) /\ \A k \in next_jobs(c, cc) : JobIdentity(k)
  <2>1. CASE cc.pending = <<>>
    BY <1>2, <2>1, AdvanceFields DEF ConnIdentity, next_jobs
  <2>2. CASE cc.pending # <<>>
    <3>1. cc.pending \in Seq(Queued)
      BY <1>2 DEF ConnectionContext
    <3>2. /\ Head(cc.pending) \in Queued /\ 1 \in DOMAIN cc.pending
          /\ Head(cc.pending) = cc.pending[1]
      BY <2>2, <3>1
    <3>3. \A i \in DOMAIN Tail(cc.pending) :
            i + 1 \in DOMAIN cc.pending /\ Tail(cc.pending)[i] = cc.pending[i + 1]
      BY <2>2, <3>1
    <3>4. \A k \in next_jobs(c, cc) : JobIdentity(k)
      BY <1>2, <2>2, <3>2, DispatchIdentity DEF ConnIdentity, next_jobs
    <3>5. /\ advance(cc).pending = Tail(cc.pending) /\ advance(cc).user = cc.user
          /\ advance(cc).cwd = cc.cwd /\ advance(cc).cert = cc.cert
      BY <1>2, <2>2, AdvanceFields
    <3>6. \A i \in DOMAIN Tail(cc.pending) :
            /\ Tail(cc.pending)[i].admitted = cc.user
            /\ <<cc.user, Tail(cc.pending)[i].req.op>> \in Acl
      BY <1>2, <3>3 DEF ConnIdentity
    <3>7. ConnIdentity(advance(cc))
      BY <1>2, <2>2, <3>5, <3>6 DEF ConnIdentity
    <3> QED
      BY <3>4, <3>7
  <2> QED
    BY <2>1, <2>2
<1> QED
  BY <1>1, <1>3, <1>4 DEF IdentityInv

LEMMA ConnectionStepIdentity ==
    ASSUME TypeOK, IdentityInv, NEW c \in DOMAIN conns,
           \/ \E cert \in Named \cup {NoCert, BadCert} : handshake_completes(c, cert)
           \/ connection_ends(c)
           \/ upgrade_user_from_cert(c)
           \/ \E req \in Request : answer_inline(c, req)
    PROVE  IdentityInv'
<1> DEFINE cc == conns[c]
<1>1. cc \in ConnectionContext /\ ConnIdentity(cc)
  BY DEF TypeOK, IdentityInv
<1>2. pool' = pool
  BY DEF handshake_completes, connection_ends, upgrade_user_from_cert, answer_inline
<1>3. CASE \E cert \in Named \cup {NoCert, BadCert} : handshake_completes(c, cert)
  <2>1. PICK cert \in Named \cup {NoCert, BadCert} : handshake_completes(c, cert)
    BY <1>3
  <2>2. conns' = [conns EXCEPT ![c] = [cc EXCEPT !.established = TRUE, !.cert = cert]]
        /\ (cert = NoCert \/ MtlsRequired)
    BY <2>1 DEF handshake_completes
  <2>3. ConnIdentity([cc EXCEPT !.established = TRUE, !.cert = cert])
    BY <1>1, <2>2 DEF ConnIdentity, ConnectionContext
  <2> QED
    BY <1>2, <2>2, <2>3 DEF IdentityInv
<1>4. CASE connection_ends(c)
  <2>1. conns' = [conns EXCEPT ![c] = [cc EXCEPT !.closing = TRUE]]
    BY <1>4 DEF connection_ends
  <2>2. ConnIdentity([cc EXCEPT !.closing = TRUE])
    BY <1>1 DEF ConnIdentity, ConnectionContext
  <2> QED
    BY <1>2, <2>1, <2>2 DEF IdentityInv
<1>5. CASE upgrade_user_from_cert(c)
  <2>1. cc.pending = <<>>
    BY <1>1, <1>5 DEF upgrade_user_from_cert, needs_upgrade, ConnIdentity
  <2>2. CASE conns' = [conns EXCEPT ![c].user = cc.cert, ![c].cwd = Home(cc.cert)]
    <3>1. conns' = [conns EXCEPT ![c] =
                      [cc EXCEPT !.user = cc.cert, !.cwd = Home(cc.cert)]]
      BY <2>2
    <3>2. ConnIdentity([cc EXCEPT !.user = cc.cert, !.cwd = Home(cc.cert)])
      BY <1>1, <2>1 DEF ConnIdentity, ConnectionContext, Home
    <3> QED
      BY <1>2, <3>1, <3>2 DEF IdentityInv
  <2>3. CASE conns' = [conns EXCEPT ![c].closing = TRUE]
    <3>1. conns' = [conns EXCEPT ![c] = [cc EXCEPT !.closing = TRUE]]
      BY <2>3
    <3>2. ConnIdentity([cc EXCEPT !.closing = TRUE])
      BY <1>1 DEF ConnIdentity, ConnectionContext
    <3> QED
      BY <1>2, <3>1, <3>2 DEF IdentityInv
  <2> QED
    BY <1>5, <2>2, <2>3 DEF upgrade_user_from_cert
<1>6. ASSUME NEW req \in Request, answer_inline(c, req) PROVE IdentityInv'
  <2>1. PICK b \in BOOLEAN :
          conns' = [conns EXCEPT ![c] = [cc EXCEPT !.opened = cc.opened + 1, !.closing = b]]
    BY <1>6, AnswerForm
  <2>2. ConnIdentity([cc EXCEPT !.opened = cc.opened + 1, !.closing = b])
    BY <1>1 DEF ConnIdentity, ConnectionContext
  <2> QED
    BY <1>2, <2>1, <2>2 DEF IdentityInv
<1> QED
  BY <1>3, <1>4, <1>5, <1>6

LEMMA NextIdentity == TypeOK /\ IdentityInv /\ [Next]_vars => IdentityInv'
<1> SUFFICES ASSUME TypeOK, IdentityInv, [Next]_vars PROVE IdentityInv'
  OBVIOUS
<1>1. ASSUME NEW c \in Scids, NEW ip \in Ips, NEW early \in BOOLEAN,
             try_accept(c, ip, early)
      PROVE  IdentityInv'
  <2>1. /\ DOMAIN conns' = DOMAIN conns \cup {c}
        /\ \A d \in DOMAIN conns : conns'[d] = conns[d]
        /\ conns'[c].cwd = Home(Anonymous) /\ conns'[c].user = Anonymous
        /\ conns'[c].cert = NoCert /\ conns'[c].pending = <<>>
        /\ pool' = pool
    BY <1>1 DEF try_accept, With
  <2>2. ConnIdentity(conns'[c])
    BY <2>1 DEF ConnIdentity, Home
  <2> QED
    BY <2>1, <2>2 DEF IdentityInv
<1>2. ASSUME NEW c \in DOMAIN conns, phase_reap_connections(c)
      PROVE  IdentityInv'
  BY <1>2 DEF phase_reap_connections, Without, IdentityInv
<1>3. ASSUME NEW j \in pool, worker_takes(j) \/ worker_finishes(j) \/ drop_handler_result(j)
      PROVE  IdentityInv'
  <2>1. j \in HandlerJob /\ JobIdentity(j) /\ conns' = conns
    BY <1>3 DEF TypeOK, IdentityInv, worker_takes, worker_finishes, drop_handler_result
  <2>2. CASE worker_takes(j)
    <3>1. JobIdentity([j EXCEPT !.at = "running"])
      BY <2>1 DEF JobIdentity, HandlerJob
    <3> QED
      BY <2>1, <2>2, <3>1 DEF worker_takes, IdentityInv
  <2>3. CASE worker_finishes(j)
    <3>1. PICK d \in {j.cwd} \cup (IF j.req.op = "cd"
                                   THEN {[home |-> j.user, dir |-> j.req.dir]} ELSE {}) :
            pool' = (pool \ {j}) \cup {[j EXCEPT !.at = "done", !.new_cwd = d]}
      BY <2>3 DEF worker_finishes
    <3>2. d.home = j.user
      BY <2>1, <3>1 DEF JobIdentity
    <3>3. JobIdentity([j EXCEPT !.at = "done", !.new_cwd = d])
      BY <2>1, <3>2 DEF JobIdentity, HandlerJob
    <3> QED
      BY <2>1, <3>1, <3>3 DEF IdentityInv
  <2>4. CASE drop_handler_result(j)
    BY <2>1, <2>4 DEF drop_handler_result, IdentityInv
  <2> QED
    BY <1>3, <2>2, <2>3, <2>4
<1>4. CASE phase_shutdown_drain
  <2>1. \A c \in DOMAIN conns : ConnIdentity([conns[c] EXCEPT !.closing = TRUE])
    BY DEF IdentityInv, ConnIdentity, TypeOK, ConnectionContext
  <2> QED
    BY <1>4, <2>1 DEF phase_shutdown_drain, IdentityInv
<1>5. CASE process_exits
  <2>1. DOMAIN conns' = {} /\ pool' = {}
    BY <1>5 DEF process_exits
  <2> QED
    BY <2>1 DEF IdentityInv
<1>6. CASE poll_without_timeout \/ packet_wakes \/ signal_arrives \/ loop_stops \/ UNCHANGED vars
  BY <1>6 DEF poll_without_timeout, packet_wakes, signal_arrives, loop_stops, vars, IdentityInv
<1>7. CASE SlotStep
  BY <1>7, SlotStepRest DEF IdentityInv
<1> QED
  BY <1>1, <1>2, <1>3, <1>4, <1>5, <1>6, <1>7, ConnectionStepIdentity, HandleIdentity,
     ApplyIdentity DEF Next, SlotStep

LEMMA IdentityInvariant == Spec => [](TypeOK /\ IdentityInv)
<1>1. Init => TypeOK /\ IdentityInv
  <2>1. Init => DOMAIN conns = {} /\ pool = {}
    BY DEF Init
  <2> QED
    BY <2>1, InitType DEF IdentityInv
<1>2. TypeOK /\ IdentityInv /\ [Next]_vars => (TypeOK /\ IdentityInv)'
  BY NextType, NextIdentity
<1> QED
  BY <1>1, <1>2, PTL DEF Spec

\* Whatever the users, the ACL and the order of handshakes, early data and
\* requests: a handler thread runs a request as the user whose permissions let
\* it pass, and with mTLS never as the anonymous user.
THEOREM JobsRunAsAdmitted == Spec => []RunsAsAdmitted
<1>1. TypeOK /\ IdentityInv => RunsAsAdmitted
  BY DEF IdentityInv, JobIdentity, RunsAsAdmitted
<1> QED
  BY <1>1, IdentityInvariant, PTL

\* The working directory of a connection, of a job and of a result is always
\* in the home of the user it is used for.
THEOREM CwdStaysInsideHome == Spec => []CwdInsideHome
<1>1. TypeOK /\ IdentityInv => CwdInsideHome
  BY DEF IdentityInv, ConnIdentity, JobIdentity, CwdInsideHome
<1> QED
  BY <1>1, IdentityInvariant, PTL

-----------------------------------------------------------------------------
(***************************************************************************)
(* One job per connection.  Generations are handed out once, so a new      *)
(* connection has no job although an older one with its SCID may have.     *)
(***************************************************************************)

GenerationsUsed ==
    /\ \A c \in DOMAIN conns : conns[c].generation < next_generation
    /\ \A j \in pool : j.generation < next_generation

JobsInv == GenerationsUsed /\ OneJobPerConnection

\* handler_in_flight and pending agree with the jobs in P.
Agrees(cc, c, P) ==
    LET own == {j \in P : j.scid = c /\ j.generation = cc.generation} IN
    /\ cc.handler_in_flight <=> own # {}
    /\ \A j, k \in own : j = k
    /\ cc.pending # <<>> => cc.handler_in_flight

LEMMA AgreesAll ==
    OneJobPerConnection <=> \A c \in DOMAIN conns : Agrees(conns[c], c, pool)
BY DEF OneJobPerConnection, Agrees, JobsOf

\* What another connection does to the pool is no concern of this one.
LEMMA AgreesOther ==
    ASSUME NEW cc, NEW c, NEW P, NEW Q, Agrees(cc, c, P),
           \A j \in P \cup Q : j.scid = c /\ j.generation = cc.generation
                               => (j \in P <=> j \in Q)
    PROVE  Agrees(cc, c, Q)
<1>1. {j \in P : j.scid = c /\ j.generation = cc.generation}
        = {j \in Q : j.scid = c /\ j.generation = cc.generation}
  OBVIOUS
<1> QED
  BY <1>1 DEF Agrees

LEMMA AcceptJobs ==
    ASSUME TypeOK, JobsInv, NEW c \in Scids, NEW ip \in Ips, NEW early \in BOOLEAN,
           try_accept(c, ip, early)
    PROVE  JobsInv'
<1>1. /\ DOMAIN conns' = DOMAIN conns \cup {c}
      /\ \A d \in DOMAIN conns : conns'[d] = conns[d]
      /\ conns'[c].generation = next_generation
      /\ conns'[c].handler_in_flight = FALSE /\ conns'[c].pending = <<>>
      /\ next_generation' = next_generation + 1 /\ pool' = pool
  BY DEF try_accept, With
<1>2. GenerationsUsed'
  BY <1>1 DEF JobsInv, GenerationsUsed, TypeOK, ConnectionContext, HandlerJob
<1>3. \A j \in pool : j.generation # next_generation
  BY DEF JobsInv, GenerationsUsed, TypeOK, HandlerJob
<1>4. Agrees(conns'[c], c, pool')
  BY <1>1, <1>3 DEF Agrees
<1>5. \A d \in DOMAIN conns : Agrees(conns'[d], d, pool')
  BY <1>1, AgreesAll DEF JobsInv
<1>6. OneJobPerConnection'
  BY <1>1, <1>4, <1>5 DEF OneJobPerConnection, Agrees, JobsOf
<1> QED
  BY <1>2, <1>6 DEF JobsInv

\* A step of one connection that leaves its jobs and its queue alone.
LEMMA KeptJobs ==
    ASSUME TypeOK, JobsInv, pool' = pool, next_generation' = next_generation,
           DOMAIN conns' \subseteq DOMAIN conns,
           \A d \in DOMAIN conns' :
              /\ conns'[d].generation = conns[d].generation
              /\ conns'[d].handler_in_flight = conns[d].handler_in_flight
              /\ conns'[d].pending = conns[d].pending
    PROVE  JobsInv'
<1>1. GenerationsUsed'
  BY DEF JobsInv, GenerationsUsed
<1>2. OneJobPerConnection'
  BY DEF JobsInv, OneJobPerConnection, JobsOf
<1> QED
  BY <1>1, <1>2 DEF JobsInv

LEMMA HandleJobs ==
    ASSUME TypeOK, JobsInv, NEW c \in DOMAIN conns, NEW req \in Request,
           handle_simple(c, req)
    PROVE  JobsInv'
<1> DEFINE cc == conns[c]
           q == [stream |-> cc.opened, req |-> req, admitted |-> cc.user]
<1>1. cc \in ConnectionContext /\ Agrees(cc, c, pool) /\ cc.generation < next_generation
  BY AgreesAll DEF TypeOK, JobsInv, GenerationsUsed
<1>2. /\ DOMAIN conns' = DOMAIN conns /\ next_generation' = next_generation
      /\ \A d \in DOMAIN conns \ {c} : conns'[d] = conns[d]
  BY DEF handle_simple, TypeOK
<1>3. \A d \in DOMAIN conns : Agrees(conns[d], d, pool)
  BY AgreesAll DEF JobsInv
<1>4. CASE cc.handler_in_flight
  <2>1. /\ conns' = [conns EXCEPT ![c].opened = @ + 1, ![c].pending = Append(@, q)]
        /\ pool' = pool
    BY <1>4 DEF handle_simple
  <2>2. /\ conns'[c].generation = cc.generation
        /\ conns'[c].handler_in_flight = TRUE
    BY <1>1, <1>4, <2>1 DEF ConnectionContext
  <2>3. Agrees(conns'[c], c, pool')
    BY <1>1, <1>4, <2>1, <2>2 DEF Agrees
  <2>4. \A d \in DOMAIN conns \ {c} : Agrees(conns'[d], d, pool')
    BY <1>2, <1>3, <2>1
  <2>5. OneJobPerConnection'
    BY <1>2, <2>3, <2>4 DEF OneJobPerConnection, Agrees, JobsOf
  <2>6. GenerationsUsed'
    BY <1>2, <2>1, <2>2 DEF GenerationsUsed, JobsInv
  <2> QED
    BY <2>5, <2>6 DEF JobsInv
<1>5. CASE ~cc.handler_in_flight
  <2>1. /\ conns' = [conns EXCEPT ![c].opened = @ + 1, ![c].handler_in_flight = TRUE]
        /\ pool' = pool \cup {job(c, cc, q)}
    BY <1>5 DEF handle_simple
  <2>2. /\ conns'[c].generation = cc.generation
        /\ conns'[c].handler_in_flight = TRUE
    BY <1>1, <2>1 DEF ConnectionContext
  <2>3. job(c, cc, q).scid = c /\ job(c, cc, q).generation = cc.generation
    BY DEF job
  <2>4. Agrees(conns'[c], c, pool')
    BY <1>1, <1>5, <2>1, <2>2, <2>3 DEF Agrees
  <2>5. \A d \in DOMAIN conns \ {c} : Agrees(conns'[d], d, pool')
    BY <1>2, <1>3, <2>1, <2>3, AgreesOther
  <2>6. OneJobPerConnection'
    BY <1>2, <2>4, <2>5 DEF OneJobPerConnection, Agrees, JobsOf
  <2>7. GenerationsUsed'
    BY <1>1, <1>2, <2>1, <2>2, <2>3 DEF GenerationsUsed, JobsInv
  <2> QED
    BY <2>6, <2>7 DEF JobsInv
<1> QED
  BY <1>4, <1>5

\* A job that changes in place stays the one job of its connection.
LEMMA WorkerJobs ==
    ASSUME TypeOK, JobsInv, NEW j \in pool, NEW k,
           k.scid = j.scid, k.generation = j.generation,
           pool' = (pool \ {j}) \cup {k},
           UNCHANGED <<conns, next_generation>>
    PROVE  JobsInv'
<1>1. \A c \in DOMAIN conns : Agrees(conns[c], c, pool)
  BY AgreesAll DEF JobsInv
<1>2. \A c \in DOMAIN conns : Agrees(conns[c], c, pool')
  <2> SUFFICES ASSUME NEW c \in DOMAIN conns PROVE Agrees(conns[c], c, pool')
    OBVIOUS
  <2>1. CASE j.scid = c /\ j.generation = conns[c].generation
    BY <1>1, <2>1 DEF Agrees
  <2>2. CASE ~(j.scid = c /\ j.generation = conns[c].generation)
    BY <1>1, <2>2, AgreesOther
  <2> QED
    BY <2>1, <2>2
<1>3. OneJobPerConnection'
  BY <1>2 DEF OneJobPerConnection, Agrees, JobsOf
<1>4. GenerationsUsed'
  BY DEF JobsInv, GenerationsUsed
<1> QED
  BY <1>3, <1>4 DEF JobsInv

LEMMA DropJobs ==
    ASSUME TypeOK, JobsInv, NEW j \in pool, drop_handler_result(j)
    PROVE  JobsInv'
<1>1. \A c \in DOMAIN conns : Agrees(conns[c], c, pool)
  BY AgreesAll DEF JobsInv
<1>2. \A c \in DOMAIN conns : ~(j.scid = c /\ j.generation = conns[c].generation)
  BY DEF drop_handler_result, handler_result_is_stale
<1>3. conns' = conns /\ next_generation' = next_generation /\ pool' = pool \ {j}
  BY DEF drop_handler_result
<1>4. \A c \in DOMAIN conns : Agrees(conns[c], c, pool')
  BY <1>1, <1>2, <1>3, AgreesOther
<1>5. OneJobPerConnection'
  BY <1>3, <1>4 DEF OneJobPerConnection, Agrees, JobsOf
<1>6. GenerationsUsed'
  BY <1>3 DEF JobsInv, GenerationsUsed
<1> QED
  BY <1>5, <1>6 DEF JobsInv

LEMMA ApplyJobs ==
    ASSUME TypeOK, JobsInv, NEW j \in pool, apply_handler_result(j)
    PROVE  JobsInv'
<1>0. PICK c : c = j.scid
  OBVIOUS
<1>00. PICK cc : cc = Applied(j)
  OBVIOUS
<1>1. /\ c \in DOMAIN conns /\ conns[c] \in ConnectionContext
      /\ j.generation = conns[c].generation
  BY <1>0 DEF TypeOK, apply_handler_result, handler_result_is_stale
<1>2. /\ cc \in ConnectionContext /\ cc.generation = conns[c].generation
      /\ cc.pending = conns[c].pending
      /\ cc.handler_in_flight = conns[c].handler_in_flight
  BY <1>0, <1>00, <1>1, AppliedFields
<1>3. /\ conns' = [conns EXCEPT ![c] = advance(cc)]
      /\ pool' = (pool \ {j}) \cup next_jobs(c, cc)
      /\ next_generation' = next_generation
  BY <1>0, <1>00 DEF apply_handler_result, Applied
<1>4. \A d \in DOMAIN conns : Agrees(conns[d], d, pool)
  BY AgreesAll DEF JobsInv
<1>5. \A k \in pool : k.scid = c /\ k.generation = cc.generation => k = j
  BY <1>0, <1>1, <1>2, <1>4 DEF Agrees
<1>6. conns[c].handler_in_flight
  BY <1>0, <1>1, <1>4 DEF Agrees
<1>7. \A k \in next_jobs(c, cc) : k.scid = c /\ k.generation = cc.generation
  BY DEF next_jobs, job
<1>8. Agrees(advance(cc), c, pool')
  <2>1. CASE cc.pending = <<>>
    <3>1. next_jobs(c, cc) = {} /\ advance(cc).handler_in_flight = FALSE
          /\ advance(cc).pending = <<>> /\ advance(cc).generation = cc.generation
      BY <1>2, <2>1, AdvanceFields DEF next_jobs
    <3> QED
      BY <1>3, <1>5, <3>1 DEF Agrees
  <2>2. CASE cc.pending # <<>>
    <3>1. /\ next_jobs(c, cc) = {job(c, cc, Head(cc.pending))}
          /\ advance(cc).handler_in_flight = TRUE
          /\ advance(cc).generation = cc.generation
      BY <1>2, <1>6, <2>2, AdvanceFields DEF next_jobs, ConnectionContext
    <3> QED
      BY <1>3, <1>5, <1>7, <3>1 DEF Agrees
  <2> QED
    BY <2>1, <2>2
<1>9. \A d \in DOMAIN conns \ {c} : Agrees(conns[d], d, pool')
  BY <1>0, <1>3, <1>4, <1>7, AgreesOther
<1>10. OneJobPerConnection'
  BY <1>3, <1>8, <1>9 DEF OneJobPerConnection, Agrees, JobsOf
<1>11. advance(cc).generation = conns[c].generation
  BY <1>2, AdvanceFields
<1>12. GenerationsUsed'
  BY <1>1, <1>2, <1>3, <1>7, <1>11 DEF JobsInv, GenerationsUsed
<1> QED
  BY <1>10, <1>12 DEF JobsInv

LEMMA NextJobs == TypeOK /\ JobsInv /\ [Next]_vars => JobsInv'
<1> SUFFICES ASSUME TypeOK, JobsInv, [Next]_vars PROVE JobsInv'
  OBVIOUS
<1>1. ASSUME NEW c \in DOMAIN conns,
             \/ \E cert \in Named \cup {NoCert, BadCert} : handshake_completes(c, cert)
             \/ connection_ends(c)
             \/ phase_reap_connections(c)
             \/ upgrade_user_from_cert(c)
             \/ \E req \in Request : answer_inline(c, req)
      PROVE  JobsInv'
  <2>1. pool' = pool /\ next_generation' = next_generation
    BY <1>1 DEF handshake_completes, connection_ends, phase_reap_connections,
                upgrade_user_from_cert, answer_inline
  <2>2. conns[c] \in ConnectionContext
    BY DEF TypeOK
  <2> DEFINE Kept == /\ DOMAIN conns' \subseteq DOMAIN conns
                     /\ \A d \in DOMAIN conns' :
                         /\ conns'[d].generation = conns[d].generation
                         /\ conns'[d].handler_in_flight = conns[d].handler_in_flight
                         /\ conns'[d].pending = conns[d].pending
  <2>3. CASE \E cert \in Named \cup {NoCert, BadCert} : handshake_completes(c, cert)
    <3>1. Kept
      BY <2>2, <2>3 DEF handshake_completes, ConnectionContext
    <3> QED
      BY <2>1, <3>1, KeptJobs
  <2>4. CASE connection_ends(c)
    <3>1. Kept
      BY <2>2, <2>4 DEF connection_ends, ConnectionContext
    <3> QED
      BY <2>1, <3>1, KeptJobs
  <2>5. CASE phase_reap_connections(c)
    <3>1. Kept
      BY <2>5 DEF phase_reap_connections, Without
    <3> QED
      BY <2>1, <3>1, KeptJobs
  <2>6. CASE upgrade_user_from_cert(c)
    <3>1. Kept
      BY <2>2, <2>6 DEF upgrade_user_from_cert, ConnectionContext
    <3> QED
      BY <2>1, <3>1, KeptJobs
  <2>7. ASSUME NEW req \in Request, answer_inline(c, req) PROVE JobsInv'
    <3>1. PICK b \in BOOLEAN :
            conns' = [conns EXCEPT ![c] =
                        [conns[c] EXCEPT !.opened = conns[c].opened + 1, !.closing = b]]
      BY <2>7, AnswerForm
    <3>2. Kept
      BY <2>2, <3>1 DEF ConnectionContext
    <3> QED
      BY <2>1, <3>2, KeptJobs
  <2> QED
    BY <1>1, <2>3, <2>4, <2>5, <2>6, <2>7
<1>2. ASSUME NEW j \in pool, worker_takes(j) \/ worker_finishes(j)
      PROVE  JobsInv'
  <2>1. j \in HandlerJob
    BY DEF TypeOK
  <2>2. \E k : /\ k.scid = j.scid /\ k.generation = j.generation
               /\ pool' = (pool \ {j}) \cup {k}
    <3>1. CASE worker_takes(j)
      <4>1. pool' = (pool \ {j}) \cup {[j EXCEPT !.at = "running"]}
        BY <3>1 DEF worker_takes
      <4> QED
        BY <2>1, <4>1 DEF HandlerJob
    <3>2. CASE worker_finishes(j)
      <4>1. PICK d : pool' = (pool \ {j}) \cup {[j EXCEPT !.at = "done", !.new_cwd = d]}
        BY <3>2 DEF worker_finishes
      <4> QED
        BY <2>1, <4>1 DEF HandlerJob
    <3> QED
      BY <1>2, <3>1, <3>2
  <2>3. UNCHANGED <<conns, next_generation>>
    BY <1>2 DEF worker_takes, worker_finishes
  <2> QED
    BY <2>2, <2>3, WorkerJobs
<1>3. CASE phase_shutdown_drain
  <2>1. /\ pool' = pool /\ next_generation' = next_generation
        /\ DOMAIN conns' = DOMAIN conns
    BY <1>3 DEF phase_shutdown_drain
  <2>2. \A d \in DOMAIN conns' :
          /\ conns'[d].generation = conns[d].generation
          /\ conns'[d].handler_in_flight = conns[d].handler_in_flight
          /\ conns'[d].pending = conns[d].pending
    BY <1>3 DEF phase_shutdown_drain, TypeOK, ConnectionContext
  <2> QED
    BY <2>1, <2>2, KeptJobs
<1>4. CASE process_exits
  <2>1. DOMAIN conns' = {} /\ pool' = {}
    BY <1>4 DEF process_exits
  <2> QED
    BY <2>1 DEF JobsInv, GenerationsUsed, OneJobPerConnection
<1>5. CASE poll_without_timeout \/ packet_wakes \/ signal_arrives \/ loop_stops \/ UNCHANGED vars
  BY <1>5, KeptJobs DEF poll_without_timeout, packet_wakes, signal_arrives, loop_stops, vars
<1>6. CASE SlotStep
  BY <1>6, SlotStepRest, KeptJobs
<1> QED
  BY <1>1, <1>2, <1>3, <1>4, <1>5, <1>6, AcceptJobs, HandleJobs, DropJobs, ApplyJobs
     DEF Next, SlotStep

LEMMA JobsInvariant == Spec => [](TypeOK /\ JobsInv)
<1>1. Init => TypeOK /\ JobsInv
  <2>1. Init => DOMAIN conns = {} /\ pool = {}
    BY DEF Init
  <2> QED
    BY <2>1, InitType DEF JobsInv, GenerationsUsed, OneJobPerConnection
<1>2. TypeOK /\ JobsInv /\ [Next]_vars => (TypeOK /\ JobsInv)'
  BY NextType, NextJobs
<1> QED
  BY <1>1, <1>2, PTL DEF Spec

\* However connections are reaped and their SCIDs used again, handler_in_flight
\* is set exactly while the pool holds a job of that very connection, which is
\* then its only one, and nothing is queued without it.
THEOREM OneJobAlways == Spec => []OneJobPerConnection
<1>1. JobsInv => OneJobPerConnection
  BY DEF JobsInv
<1> QED
  BY <1>1, JobsInvariant, PTL

-----------------------------------------------------------------------------
(***************************************************************************)
(* Responses go to the connection they were computed for.                  *)
(***************************************************************************)

\* No response crosses from a connection to a later one with the same SCID:
\* handler_result_is_stale catches every result of the earlier one.
THEOREM ResponsesReachTheirOwner == Spec => []RepliesToOwner
<1>1. Init => RepliesToOwner
  BY DEF Init, RepliesToOwner
<1>2. RepliesToOwner /\ TypeOK /\ [Next]_vars => RepliesToOwner'
  <2> SUFFICES ASSUME RepliesToOwner, TypeOK, [Next]_vars PROVE RepliesToOwner'
    OBVIOUS
  <2>1. ASSUME NEW c \in DOMAIN conns, NEW req \in Request, answer_inline(c, req)
        PROVE  RepliesToOwner'
    BY <2>1 DEF answer_inline, reply, RepliesToOwner
  <2>2. ASSUME NEW j \in pool, apply_handler_result(j)
        PROVE  RepliesToOwner'
    <3>1. /\ j.scid \in DOMAIN conns /\ j.generation = conns[j.scid].generation
          /\ \E whole \in BOOLEAN :
               responses' = responses \cup {reply(Applied(j), j.stream, j.generation, whole)}
      BY <2>2 DEF apply_handler_result, handler_result_is_stale, Applied
    <3>2. Applied(j).generation = j.generation
      BY <3>1, AppliedFields
    <3> QED
      BY <3>1, <3>2 DEF reply, RepliesToOwner
  <2>3. CASE UNCHANGED responses
    BY <2>3 DEF RepliesToOwner
  <2> QED
    BY <2>1, <2>2, <2>3
       DEF Next, vars, try_acquire, accept_fails, try_accept, handshake_completes, connection_ends,
           phase_reap_connections, upgrade_user_from_cert, handle_simple, worker_takes,
           worker_finishes, drop_handler_result, poll_without_timeout, packet_wakes,
           signal_arrives, phase_shutdown_drain, loop_stops, process_exits
<1> QED
  BY <1>1, <1>2, TypeCorrect, PTL DEF Spec

-----------------------------------------------------------------------------
(***************************************************************************)
(* Order.  Beside RunsInOrder the invariant says that whatever is queued   *)
(* or out was read (its stream number is below `opened`), and that the job *)
(* out runs as the connection's user: its cwd is then always taken over.   *)
(***************************************************************************)

Own(c, cc, P) == {j \in P : j.scid = c /\ j.generation = cc.generation}

Ordered(c, cc, P) ==
    /\ \A i, k \in DOMAIN cc.pending : i < k => cc.pending[i].stream < cc.pending[k].stream
    /\ \A i \in DOMAIN cc.pending : cc.pending[i].stream < cc.opened
    /\ \A j \in Own(c, cc, P) :
        /\ j.cwd = cc.cwd /\ j.user = cc.user /\ j.stream < cc.opened
        /\ \A i \in DOMAIN cc.pending : j.stream < cc.pending[i].stream

OrderInv == \A c \in DOMAIN conns : Ordered(c, conns[c], pool)

\* What another connection does to the pool leaves this one's order alone.
LEMMA OrderedOther ==
    ASSUME NEW c, NEW cc, NEW P, NEW Q, Ordered(c, cc, P), Own(c, cc, Q) \subseteq Own(c, cc, P)
    PROVE  Ordered(c, cc, Q)
BY DEF Ordered

\* The steps that neither read a request nor touch the pool.
Passive ==
    \/ \E c \in DOMAIN conns :
        \/ \E cert \in Named \cup {NoCert, BadCert} : handshake_completes(c, cert)
        \/ connection_ends(c)
        \/ phase_reap_connections(c)
        \/ upgrade_user_from_cert(c)
    \/ poll_without_timeout \/ packet_wakes \/ signal_arrives
    \/ phase_shutdown_drain \/ loop_stops \/ UNCHANGED vars
    \/ SlotStep

SameWork(cc, dd) ==
    dd.generation = cc.generation /\ dd.pending = cc.pending /\ dd.opened = cc.opened

\* They close or reap connections and settle who the client is; only an
\* upgrade changes a connection's user or working directory.
LEMMA PassiveFields ==
    ASSUME TypeOK, Passive
    PROVE  /\ UNCHANGED <<pool, responses, next_generation>>
           /\ DOMAIN conns' \subseteq DOMAIN conns
           /\ \A d \in DOMAIN conns' :
               /\ SameWork(conns[d], conns'[d])
               /\ \/ conns'[d].user = conns[d].user /\ conns'[d].cwd = conns[d].cwd
                  \/ needs_upgrade(conns[d])
<1>1. UNCHANGED <<pool, responses, next_generation>>
  BY DEF Passive, handshake_completes, connection_ends, phase_reap_connections,
         upgrade_user_from_cert, poll_without_timeout, packet_wakes, signal_arrives,
         phase_shutdown_drain, loop_stops, vars, SlotStep, try_acquire, accept_fails
<1> DEFINE Kept == /\ DOMAIN conns' \subseteq DOMAIN conns
                   /\ \A d \in DOMAIN conns' :
                       /\ SameWork(conns[d], conns'[d])
                       /\ \/ conns'[d].user = conns[d].user /\ conns'[d].cwd = conns[d].cwd
                          \/ needs_upgrade(conns[d])
<1>2. ASSUME NEW c \in DOMAIN conns,
             \E cert \in Named \cup {NoCert, BadCert} : handshake_completes(c, cert)
      PROVE  Kept
  BY <1>2 DEF handshake_completes, TypeOK, ConnectionContext, SameWork
<1>3. ASSUME NEW c \in DOMAIN conns, connection_ends(c) PROVE Kept
  BY <1>3 DEF connection_ends, TypeOK, ConnectionContext, SameWork
<1>4. ASSUME NEW c \in DOMAIN conns, phase_reap_connections(c) PROVE Kept
  BY <1>4 DEF phase_reap_connections, Without, SameWork
<1>5. ASSUME NEW c \in DOMAIN conns, upgrade_user_from_cert(c) PROVE Kept
  <2>1. conns[c] \in ConnectionContext /\ needs_upgrade(conns[c])
    BY <1>5 DEF TypeOK, upgrade_user_from_cert
  <2>2. CASE conns' = [conns EXCEPT ![c].user = conns[c].cert, ![c].cwd = Home(conns[c].cert)]
    BY <2>1, <2>2 DEF ConnectionContext, SameWork
  <2>3. CASE conns' = [conns EXCEPT ![c].closing = TRUE]
    BY <2>1, <2>3 DEF ConnectionContext, SameWork
  <2> QED
    BY <1>5, <2>2, <2>3 DEF upgrade_user_from_cert
<1>6. CASE phase_shutdown_drain
  <2>1. /\ DOMAIN conns' = DOMAIN conns
        /\ \A d \in DOMAIN conns : conns'[d] = [conns[d] EXCEPT !.closing = TRUE]
    BY <1>6 DEF phase_shutdown_drain
  <2>2. \A d \in DOMAIN conns : conns[d] \in ConnectionContext
    BY DEF TypeOK
  <2>3. \A d \in DOMAIN conns :
          /\ SameWork(conns[d], conns'[d])
          /\ conns'[d].user = conns[d].user /\ conns'[d].cwd = conns[d].cwd
    <3> SUFFICES ASSUME NEW d \in DOMAIN conns, NEW cc \in ConnectionContext, cc = conns[d]
                 PROVE  /\ SameWork(cc, conns'[d])
                        /\ conns'[d].user = cc.user /\ conns'[d].cwd = cc.cwd
      BY <2>2
    <3>1. conns'[d] = [cc EXCEPT !.closing = TRUE]
      BY <2>1
    <3> QED
      BY <3>1 DEF ConnectionContext, SameWork
  <2> QED
    BY <1>1, <2>1, <2>3
<1>7. ASSUME conns' = conns PROVE Kept
  BY <1>7 DEF SameWork
<1>8. Kept
  BY <1>2, <1>3, <1>4, <1>5, <1>6, <1>7, SlotStepRest
     DEF Passive, poll_without_timeout, packet_wakes, signal_arrives, loop_stops, vars
<1> QED
  BY <1>1, <1>8

\* A connection about to be upgraded has nothing queued and nothing out.
LEMMA UpgradeFindsNothing ==
    ASSUME IdentityInv, OrderInv, NEW c \in DOMAIN conns, needs_upgrade(conns[c])
    PROVE  conns[c].pending = <<>> /\ Own(c, conns[c], pool) = {}
<1>1. MtlsRequired /\ conns[c].user = Anonymous /\ conns[c].pending = <<>>
  BY DEF IdentityInv, ConnIdentity, needs_upgrade
<1>2. \A j \in Own(c, conns[c], pool) : j.user = Anonymous /\ j \in pool
  BY <1>1 DEF OrderInv, Ordered, Own
<1> QED
  BY <1>1, <1>2 DEF IdentityInv, JobIdentity

LEMMA StreamNumbers ==
    ASSUME TypeOK, NEW c \in DOMAIN conns
    PROVE  /\ \A i \in DOMAIN conns[c].pending : conns[c].pending[i].stream \in Nat
           /\ \A j \in Own(c, conns[c], pool) : j.stream \in Nat
           /\ conns[c].opened \in Nat
<1>1. conns[c].pending \in Seq(Queued) /\ conns[c].opened \in Nat
  BY ServerAssumption DEF TypeOK, ConnectionContext
<1>2. \A q \in Queued : q.stream \in Nat
  BY DEF Queued, Stream
<1>3. \A j \in pool : j.stream \in Nat
  BY DEF TypeOK, HandlerJob, Stream
<1> QED
  BY <1>1, <1>2, <1>3 DEF Own

LEMMA PassiveOrder ==
    ASSUME TypeOK, IdentityInv, OrderInv, Passive
    PROVE  OrderInv'
<1> SUFFICES ASSUME NEW d \in DOMAIN conns' PROVE Ordered(d, conns'[d], pool')
  BY DEF OrderInv
<1>1. /\ pool' = pool /\ d \in DOMAIN conns /\ SameWork(conns[d], conns'[d])
      /\ \/ conns'[d].user = conns[d].user /\ conns'[d].cwd = conns[d].cwd
         \/ needs_upgrade(conns[d])
  BY PassiveFields
<1>2. Ordered(d, conns[d], pool)
  BY <1>1 DEF OrderInv
<1>3. Own(d, conns'[d], pool') = Own(d, conns[d], pool)
  BY <1>1 DEF Own, SameWork
<1>4. CASE conns'[d].user = conns[d].user /\ conns'[d].cwd = conns[d].cwd
  BY <1>1, <1>2, <1>3, <1>4 DEF Ordered, SameWork
<1>5. CASE needs_upgrade(conns[d])
  BY <1>1, <1>2, <1>3, <1>5, UpgradeFindsNothing DEF Ordered, SameWork
<1> QED
  BY <1>1, <1>4, <1>5

LEMMA AcceptOrder ==
    ASSUME TypeOK, JobsInv, OrderInv,
           NEW c \in Scids, NEW ip \in Ips, NEW early \in BOOLEAN, try_accept(c, ip, early)
    PROVE  OrderInv'
<1>1. /\ DOMAIN conns' = DOMAIN conns \cup {c}
      /\ \A d \in DOMAIN conns : conns'[d] = conns[d]
      /\ conns'[c].generation = next_generation /\ conns'[c].pending = <<>>
      /\ pool' = pool
  BY DEF try_accept, With
<1>2. \A j \in pool : j.generation # next_generation
  BY DEF JobsInv, GenerationsUsed, TypeOK, HandlerJob
<1>3. Own(c, conns'[c], pool') = {}
  BY <1>1, <1>2 DEF Own
<1>4. Ordered(c, conns'[c], pool')
  BY <1>1, <1>3 DEF Ordered
<1> QED
  BY <1>1, <1>4 DEF OrderInv

LEMMA AnswerOrder ==
    ASSUME TypeOK, OrderInv, NEW c \in DOMAIN conns, NEW req \in Request, answer_inline(c, req)
    PROVE  OrderInv'
<1> DEFINE cc == conns[c]
<1>1. cc \in ConnectionContext /\ cc.opened \in Nat /\ pool' = pool
  BY ServerAssumption DEF TypeOK, ConnectionContext, answer_inline
<1>2. PICK b \in BOOLEAN :
        conns' = [conns EXCEPT ![c] = [cc EXCEPT !.opened = cc.opened + 1, !.closing = b]]
  BY AnswerForm
<1>3. /\ conns'[c].generation = cc.generation /\ conns'[c].pending = cc.pending
      /\ conns'[c].user = cc.user /\ conns'[c].cwd = cc.cwd
      /\ conns'[c].opened = cc.opened + 1
      /\ DOMAIN conns' = DOMAIN conns /\ \A d \in DOMAIN conns \ {c} : conns'[d] = conns[d]
  BY <1>1, <1>2 DEF ConnectionContext
<1>4. Own(c, conns'[c], pool') = Own(c, cc, pool)
  BY <1>1, <1>3 DEF Own
<1>5. /\ Ordered(c, cc, pool)
      /\ \A i \in DOMAIN cc.pending : cc.pending[i].stream \in Nat
      /\ \A j \in Own(c, cc, pool) : j.stream \in Nat
  BY StreamNumbers DEF OrderInv
<1>6. Ordered(c, conns'[c], pool')
  BY <1>1, <1>3, <1>4, <1>5 DEF Ordered
<1> QED
  BY <1>1, <1>3, <1>6 DEF OrderInv

\* What handle_simple does, in the two cases: the request queues behind the
\* job that is out, or it is the job.
LEMMA HandleForm ==
    ASSUME TypeOK, NEW c \in DOMAIN conns, NEW req \in Request, handle_simple(c, req)
    PROVE  LET cc == conns[c]
               q == [stream |-> cc.opened, req |-> req, admitted |-> cc.user] IN
           /\ DOMAIN conns' = DOMAIN conns
           /\ \A d \in DOMAIN conns \ {c} : conns'[d] = conns[d]
           /\ conns'[c].generation = cc.generation /\ conns'[c].opened = cc.opened + 1
           /\ conns'[c].user = cc.user /\ conns'[c].cwd = cc.cwd
           /\ q \in Queued
           /\ UNCHANGED <<responses, next_generation>>
           /\ \/ /\ cc.handler_in_flight
                 /\ conns'[c].pending = Append(cc.pending, q) /\ pool' = pool
              \/ /\ ~cc.handler_in_flight
                 /\ conns'[c].pending = cc.pending /\ pool' = pool \cup {job(c, cc, q)}
<1> DEFINE cc == conns[c]
           q == [stream |-> cc.opened, req |-> req, admitted |-> cc.user]
<1>1. cc \in ConnectionContext
  BY DEF TypeOK
<1>2. q \in Queued
  BY <1>1, ReadableType DEF handle_simple
<1>3. /\ DOMAIN conns' = DOMAIN conns
      /\ \A d \in DOMAIN conns \ {c} : conns'[d] = conns[d]
      /\ UNCHANGED <<responses, next_generation>>
  BY DEF handle_simple, TypeOK
<1> HIDE DEF q
<1>4. CASE cc.handler_in_flight
  <2>1. /\ conns' = [conns EXCEPT ![c].opened = @ + 1, ![c].pending = Append(@, q)]
        /\ pool' = pool
    BY <1>4 DEF handle_simple, q
  <2>2. conns' = [conns EXCEPT ![c] = [cc EXCEPT !.opened = cc.opened + 1,
                                            !.pending = Append(cc.pending, q)]]
    BY <2>1, Zenon
  <2>3. /\ conns'[c].generation = cc.generation /\ conns'[c].opened = cc.opened + 1
        /\ conns'[c].user = cc.user /\ conns'[c].cwd = cc.cwd
        /\ conns'[c].pending = Append(cc.pending, q)
    BY <1>1, <2>2 DEF ConnectionContext
  <2> QED
    BY <1>2, <1>3, <1>4, <2>1, <2>3 DEF q
<1>5. CASE ~cc.handler_in_flight
  <2>1. /\ conns' = [conns EXCEPT ![c].opened = @ + 1, ![c].handler_in_flight = TRUE]
        /\ pool' = pool \cup {job(c, cc, q)}
    BY <1>5 DEF handle_simple, q
  <2>2. conns' = [conns EXCEPT ![c] = [cc EXCEPT !.opened = cc.opened + 1,
                                            !.handler_in_flight = TRUE]]
    BY <2>1, Zenon
  <2>3. /\ conns'[c].generation = cc.generation /\ conns'[c].opened = cc.opened + 1
        /\ conns'[c].user = cc.user /\ conns'[c].cwd = cc.cwd
        /\ conns'[c].pending = cc.pending
    BY <1>1, <2>2 DEF ConnectionContext
  <2> QED
    BY <1>2, <1>3, <1>5, <2>1, <2>3 DEF q
<1> QED
  BY <1>4, <1>5

\* The same for a result that is applied.
LEMMA ApplyForm ==
    ASSUME TypeOK, JobsInv, NEW j \in pool, apply_handler_result(j)
    PROVE  LET c == j.scid
               cc == Applied(j) IN
           /\ c \in DOMAIN conns /\ j.generation = conns[c].generation
           /\ cc \in ConnectionContext /\ cc.generation = conns[c].generation
           /\ cc.pending = conns[c].pending /\ cc.opened = conns[c].opened
           /\ cc.user = conns[c].user
           /\ Own(c, conns[c], pool) = {j}
           /\ conns' = [conns EXCEPT ![c] = advance(cc)]
           /\ pool' = (pool \ {j}) \cup next_jobs(c, cc)
           /\ next_generation' = next_generation
           /\ \E whole \in BOOLEAN :
                responses' = responses \cup {reply(cc, j.stream, j.generation, whole)}
<1>1. /\ j.scid \in DOMAIN conns /\ j.generation = conns[j.scid].generation
      /\ conns' = [conns EXCEPT ![j.scid] = advance(Applied(j))]
      /\ pool' = (pool \ {j}) \cup next_jobs(j.scid, Applied(j))
      /\ next_generation' = next_generation
      /\ \E whole \in BOOLEAN :
           responses' = responses \cup {reply(Applied(j), j.stream, j.generation, whole)}
  BY DEF apply_handler_result, handler_result_is_stale, Applied
<1>2. Own(j.scid, conns[j.scid], pool) = {j}
  BY <1>1 DEF JobsInv, OneJobPerConnection, JobsOf, Own
<1> QED
  BY <1>1, <1>2, AppliedFields

\* A queue that is in order stays so when its head is taken.
LEMMA TailOrder ==
    ASSUME NEW q \in Seq(Queued), q # <<>>,
           \A i, k \in DOMAIN q : i < k => q[i].stream < q[k].stream
    PROVE  /\ 1 \in DOMAIN q /\ Head(q) = q[1] /\ Head(q) \in Queued
           /\ \A i \in DOMAIN Tail(q) : /\ i + 1 \in DOMAIN q /\ Tail(q)[i] = q[i + 1]
                                        /\ Head(q).stream < Tail(q)[i].stream
           /\ \A i \in DOMAIN q : i # 1 => i - 1 \in DOMAIN Tail(q) /\ Tail(q)[i - 1] = q[i]
           /\ \A i, k \in DOMAIN Tail(q) : i < k => Tail(q)[i].stream < Tail(q)[k].stream
<1>1. 1 \in DOMAIN q /\ Head(q) = q[1] /\ Head(q) \in Queued
  OBVIOUS
<1>2. \A i \in DOMAIN Tail(q) : i \in Nat /\ i >= 1 /\ i + 1 \in DOMAIN q
                                /\ Tail(q)[i] = q[i + 1]
  OBVIOUS
<1>3. \A i \in DOMAIN q : i # 1 => i - 1 \in DOMAIN Tail(q) /\ Tail(q)[i - 1] = q[i]
  OBVIOUS
<1>4. \A i \in DOMAIN Tail(q) : Head(q).stream < Tail(q)[i].stream
  BY <1>1, <1>2
<1>5. \A i, k \in DOMAIN Tail(q) : i < k => Tail(q)[i].stream < Tail(q)[k].stream
  BY <1>2
<1> QED
  BY <1>1, <1>2, <1>3, <1>4, <1>5

LEMMA HandleOrder ==
    ASSUME TypeOK, JobsInv, OrderInv, NEW c \in DOMAIN conns, NEW req \in Request,
           handle_simple(c, req)
    PROVE  OrderInv'
<1>0. PICK cc \in ConnectionContext : cc = conns[c]
  BY DEF TypeOK
<1>1. PICK q \in Queued :
        q = [stream |-> cc.opened, req |-> req, admitted |-> cc.user]
  BY <1>0, HandleForm
<1>2. q.stream = cc.opened
  BY <1>1
<1>3. /\ DOMAIN conns' = DOMAIN conns
      /\ \A d \in DOMAIN conns \ {c} : conns'[d] = conns[d]
      /\ conns'[c].generation = cc.generation /\ conns'[c].opened = cc.opened + 1
      /\ conns'[c].user = cc.user /\ conns'[c].cwd = cc.cwd
      /\ \/ /\ cc.handler_in_flight
            /\ conns'[c].pending = Append(cc.pending, q) /\ pool' = pool
         \/ /\ ~cc.handler_in_flight
            /\ conns'[c].pending = cc.pending /\ pool' = pool \cup {job(c, cc, q)}
  BY <1>0, <1>1, HandleForm
<1>4. /\ Ordered(c, cc, pool) /\ cc.opened \in Nat /\ cc.pending \in Seq(Queued)
      /\ \A i \in DOMAIN cc.pending : cc.pending[i].stream \in Nat
      /\ \A j \in Own(c, cc, pool) : j.stream \in Nat
  BY <1>0, StreamNumbers DEF OrderInv, ConnectionContext
<1>5. \A d \in DOMAIN conns \ {c} : Own(d, conns[d], pool') \subseteq Own(d, conns[d], pool)
  BY <1>3 DEF Own, job
<1>6. \A d \in DOMAIN conns \ {c} : Ordered(d, conns'[d], pool')
  BY <1>3, <1>5, OrderedOther DEF OrderInv
<1>7. Ordered(c, conns'[c], pool')
  <2>1. CASE cc.handler_in_flight
    <3>1. /\ conns'[c].pending = Append(cc.pending, q)
          /\ Own(c, conns'[c], pool') = Own(c, cc, pool)
      BY <1>3, <2>1 DEF Own
    <3>2. \A i \in DOMAIN Append(cc.pending, q) :
            \/ i \in DOMAIN cc.pending /\ Append(cc.pending, q)[i] = cc.pending[i]
            \/ i = Len(cc.pending) + 1 /\ Append(cc.pending, q)[i] = q
      BY <1>4
    <3>3. \A i \in DOMAIN cc.pending : i \in Nat /\ i <= Len(cc.pending)
      BY <1>4
    <3>4. \A i, k \in DOMAIN Append(cc.pending, q) :
            i < k => Append(cc.pending, q)[i].stream < Append(cc.pending, q)[k].stream
      BY <1>2, <1>4, <3>2, <3>3 DEF Ordered
    <3>5. \A i \in DOMAIN Append(cc.pending, q) : Append(cc.pending, q)[i].stream < cc.opened + 1
      BY <1>2, <1>4, <3>2 DEF Ordered
    <3>6. \A j \in Own(c, cc, pool) :
            /\ j.stream < cc.opened + 1
            /\ \A i \in DOMAIN Append(cc.pending, q) : j.stream < Append(cc.pending, q)[i].stream
      BY <1>2, <1>4, <3>2 DEF Ordered
    <3> QED
      BY <1>3, <1>4, <3>1, <3>4, <3>5, <3>6 DEF Ordered
  <2>2. CASE ~cc.handler_in_flight
    <3>1. cc.pending = <<>> /\ Own(c, cc, pool) = {}
      BY <1>0, <2>2 DEF JobsInv, OneJobPerConnection, JobsOf, Own
    <3>2. conns'[c].pending = <<>> /\ pool' = pool \cup {job(c, cc, q)}
      BY <1>3, <2>2, <3>1
    <3>3. Own(c, conns'[c], pool') = {job(c, cc, q)}
      BY <1>3, <3>1, <3>2 DEF Own, job
    <3>4. PICK k : k = job(c, cc, q)
      OBVIOUS
    <3>5. k.cwd = cc.cwd /\ k.user = cc.user /\ k.stream < cc.opened + 1
      BY <1>2, <1>4, <3>4 DEF job
    <3>6. \A j \in Own(c, conns'[c], pool') : j = k
      BY <3>3, <3>4
    <3>7. DOMAIN conns'[c].pending = {}
      BY <3>2
    <3> QED
      BY <1>3, <3>5, <3>6, <3>7 DEF Ordered
  <2> QED
    BY <2>1, <2>2
<1> QED
  BY <1>3, <1>6, <1>7 DEF OrderInv

LEMMA ApplyOrder ==
    ASSUME TypeOK, JobsInv, OrderInv, NEW j \in pool, apply_handler_result(j)
    PROVE  OrderInv'
<1>0. PICK c, cc : c = j.scid /\ cc = Applied(j)
  OBVIOUS
<1>1. /\ c \in DOMAIN conns /\ cc \in ConnectionContext
      /\ cc.generation = conns[c].generation
      /\ cc.pending = conns[c].pending /\ cc.opened = conns[c].opened
      /\ Own(c, conns[c], pool) = {j}
      /\ conns' = [conns EXCEPT ![c] = advance(cc)]
      /\ pool' = (pool \ {j}) \cup next_jobs(c, cc)
  BY <1>0, ApplyForm
<1>2. Ordered(c, conns[c], pool) /\ cc.pending \in Seq(Queued)
  BY <1>1 DEF OrderInv, ConnectionContext
<1>3. \A k \in next_jobs(c, cc) : k.scid = c /\ k.generation = cc.generation
  BY DEF next_jobs, job
<1>4. \A d \in DOMAIN conns \ {c} : Ordered(d, conns[d], pool')
  <2>1. \A d \in DOMAIN conns \ {c} : Own(d, conns[d], pool') \subseteq Own(d, conns[d], pool)
    BY <1>1, <1>3 DEF Own
  <2> QED
    BY <2>1, OrderedOther DEF OrderInv
<1>5. Own(c, advance(cc), pool') = next_jobs(c, cc)
  BY <1>1, <1>3, AdvanceFields DEF Own
<1>6. Ordered(c, advance(cc), pool')
  <2>1. CASE cc.pending = <<>>
    <3>1. advance(cc).pending = <<>> /\ next_jobs(c, cc) = {}
      BY <1>1, <2>1, AdvanceFields DEF next_jobs
    <3> QED
      BY <1>5, <3>1 DEF Ordered
  <2>2. CASE cc.pending # <<>>
    <3>1. \A i, k \in DOMAIN cc.pending : i < k => cc.pending[i].stream < cc.pending[k].stream
      BY <1>1, <1>2 DEF Ordered
    <3>2. \A i \in DOMAIN cc.pending : cc.pending[i].stream < cc.opened
      BY <1>1, <1>2 DEF Ordered
    <3>3. /\ advance(cc).pending = Tail(cc.pending) /\ advance(cc).opened = cc.opened
          /\ advance(cc).cwd = cc.cwd /\ advance(cc).user = cc.user
      BY <1>1, <2>2, AdvanceFields
    <3>4. PICK k : next_jobs(c, cc) = {k} /\ k = job(c, cc, Head(cc.pending))
      BY <2>2 DEF next_jobs
    <3>5. k.cwd = cc.cwd /\ k.user = cc.user /\ k.stream = Head(cc.pending).stream
      BY <3>4 DEF job
    <3>6. k.stream < cc.opened
      <4>1. 1 \in DOMAIN cc.pending /\ Head(cc.pending) = cc.pending[1]
        BY <1>2, <2>2, <3>1, TailOrder
      <4> QED
        BY <3>2, <3>5, <4>1
    <3>6a. \A i \in DOMAIN Tail(cc.pending) : k.stream < Tail(cc.pending)[i].stream
      BY <1>2, <2>2, <3>1, <3>5, TailOrder
    <3>7. \A i \in DOMAIN Tail(cc.pending) : Tail(cc.pending)[i].stream < cc.opened
      BY <1>2, <2>2, <3>1, <3>2, TailOrder
    <3>8. \A i, m \in DOMAIN Tail(cc.pending) :
            i < m => Tail(cc.pending)[i].stream < Tail(cc.pending)[m].stream
      BY <1>2, <2>2, <3>1, TailOrder
    <3> QED
      BY <1>5, <3>3, <3>4, <3>5, <3>6, <3>6a, <3>7, <3>8 DEF Ordered
  <2> QED
    BY <2>1, <2>2
<1> QED
  BY <1>1, <1>4, <1>6 DEF OrderInv

\* A handler thread moves a job on and changes nothing else of it.
LEMMA WorkerForm ==
    ASSUME TypeOK, NEW j \in pool, worker_takes(j) \/ worker_finishes(j)
    PROVE  /\ UNCHANGED <<conns, responses, next_generation>>
           /\ \E k : /\ k.scid = j.scid /\ k.generation = j.generation
                     /\ k.stream = j.stream /\ k.user = j.user /\ k.cwd = j.cwd
                     /\ pool' = (pool \ {j}) \cup {k}
<1>1. j \in HandlerJob
  BY DEF TypeOK
<1>2. UNCHANGED <<conns, responses, next_generation>>
  BY DEF worker_takes, worker_finishes
<1>3. CASE worker_takes(j)
  <2>1. pool' = (pool \ {j}) \cup {[j EXCEPT !.at = "running"]}
    BY <1>3 DEF worker_takes
  <2> QED
    BY <1>1, <1>2, <2>1 DEF HandlerJob
<1>4. CASE worker_finishes(j)
  <2>1. PICK d : pool' = (pool \ {j}) \cup {[j EXCEPT !.at = "done", !.new_cwd = d]}
    BY <1>4 DEF worker_finishes
  <2> QED
    BY <1>1, <1>2, <2>1 DEF HandlerJob
<1> QED
  BY <1>3, <1>4

LEMMA NextOrder ==
    TypeOK /\ IdentityInv /\ JobsInv /\ OrderInv /\ [Next]_vars => OrderInv'
<1> SUFFICES ASSUME TypeOK, IdentityInv, JobsInv, OrderInv, [Next]_vars PROVE OrderInv'
  OBVIOUS
<1>1. ASSUME NEW j \in pool, worker_takes(j) \/ worker_finishes(j)
      PROVE  OrderInv'
  <2>1. PICK k : /\ k.scid = j.scid /\ k.generation = j.generation
                 /\ k.stream = j.stream /\ k.user = j.user /\ k.cwd = j.cwd
                 /\ pool' = (pool \ {j}) \cup {k}
    BY <1>1, WorkerForm
  <2>2. conns' = conns
    BY <1>1, WorkerForm
  <2> SUFFICES ASSUME NEW c \in DOMAIN conns PROVE Ordered(c, conns[c], pool')
    BY <2>2 DEF OrderInv
  <2>3. Ordered(c, conns[c], pool)
    BY DEF OrderInv
  <2>4. \A m \in Own(c, conns[c], pool') :
          m \in Own(c, conns[c], pool) \/ (m = k /\ j \in Own(c, conns[c], pool))
    BY <2>1 DEF Own
  <2> QED
    BY <2>1, <2>3, <2>4 DEF Ordered
<1>2. ASSUME NEW j \in pool, drop_handler_result(j)
      PROVE  OrderInv'
  <2>1. conns' = conns /\ \A c : Own(c, conns[c], pool') \subseteq Own(c, conns[c], pool)
    BY <1>2 DEF drop_handler_result, Own
  <2> QED
    BY <2>1, OrderedOther DEF OrderInv
<1>3. CASE process_exits
  <2>1. DOMAIN conns' = {}
    BY <1>3 DEF process_exits
  <2> QED
    BY <2>1 DEF OrderInv
<1>4. CASE Passive
  BY <1>4, PassiveOrder
<1> QED
  BY <1>1, <1>2, <1>3, <1>4, AcceptOrder, AnswerOrder, HandleOrder, ApplyOrder DEF Next, Passive, SlotStep

OrderedState == TypeOK /\ IdentityInv /\ JobsInv /\ OrderInv

LEMMA OrderInvariant == Spec => []OrderedState
<1>1. Init => OrderInv
  <2>1. Init => DOMAIN conns = {}
    BY DEF Init
  <2> QED
    BY <2>1 DEF OrderInv
<1> QED
  BY <1>1, NextOrder, IdentityInvariant, JobsInvariant, PTL DEF Spec, OrderedState

\* Whatever the clients pipeline and however many threads there are, the
\* requests of a connection run one after the other in the order in which they
\* were read, each in the directory the earlier ones left behind.
THEOREM RequestsRunInOrder == Spec => []RunsInOrder
<1>1. OrderedState => RunsInOrder
  BY DEF OrderedState, OrderInv, Ordered, RunsInOrder, JobsOf, Own
<1> QED
  BY <1>1, OrderInvariant, PTL

-----------------------------------------------------------------------------
(***************************************************************************)
(* Every request is accounted for.  The invariant speaks of existence      *)
(* instead of cardinality: a request that was read is either answered, or  *)
(* else out or queued.  That it is not there twice follows from the order  *)
(* of the queue, the single job of a connection, and the last conjunct but *)
(* one of AccountInv.                                                      *)
(***************************************************************************)

IsAnswered(cc, R, s) == \E r \in R : r.generation = cc.generation /\ r.stream = s
IsOut(c, cc, P, s) == \E j \in Own(c, cc, P) : j.stream = s
IsQueued(cc, s) == \E i \in DOMAIN cc.pending : cc.pending[i].stream = s

Accounted(c, cc, P, R) ==
    /\ \A r \in R : r.generation = cc.generation => r.stream < cc.opened
    /\ \A s \in 0..(cc.opened - 1) :
        IsAnswered(cc, R, s) <=> ~(IsOut(c, cc, P, s) \/ IsQueued(cc, s))

AccountInv ==
    /\ \A c, d \in DOMAIN conns : conns[c].generation = conns[d].generation => c = d
    /\ \A r \in responses : r.generation < next_generation
    /\ \A r, t \in responses : r.generation = t.generation /\ r.stream = t.stream => r = t
    /\ \A c \in DOMAIN conns : Accounted(c, conns[c], pool, responses)

\* Only the jobs and responses of a connection's own matter to its account.
LEMMA AccountedSame ==
    ASSUME NEW c, NEW cc, NEW dd, NEW P, NEW Q, NEW R, NEW T, Accounted(c, cc, P, R),
           SameWork(cc, dd),
           \A s : IsOut(c, dd, Q, s) <=> IsOut(c, cc, P, s),
           \A r \in R \cup T : r.generation = cc.generation => (r \in R <=> r \in T)
    PROVE  Accounted(c, dd, Q, T)
<1>1. \A s : IsQueued(dd, s) <=> IsQueued(cc, s)
  BY DEF SameWork, IsQueued
<1>2. \A s : IsAnswered(dd, T, s) <=> IsAnswered(cc, R, s)
  BY DEF SameWork, IsAnswered
<1>3. \A r \in T : r.generation = dd.generation => r.stream < dd.opened
  BY DEF SameWork, Accounted
<1> QED
  BY <1>1, <1>2, <1>3 DEF Accounted, SameWork

LEMMA PassiveAccount ==
    ASSUME TypeOK, AccountInv, Passive
    PROVE  AccountInv'
<1>1. /\ UNCHANGED <<pool, responses, next_generation>>
      /\ DOMAIN conns' \subseteq DOMAIN conns
      /\ \A d \in DOMAIN conns' : SameWork(conns[d], conns'[d])
  BY PassiveFields
<1>2. \A d \in DOMAIN conns' : \A s : IsOut(d, conns'[d], pool, s) <=> IsOut(d, conns[d], pool, s)
  BY <1>1 DEF IsOut, Own, SameWork
<1>3. \A d \in DOMAIN conns' : Accounted(d, conns'[d], pool, responses)
  BY <1>1, <1>2, AccountedSame DEF AccountInv
<1> QED
  BY <1>1, <1>3 DEF AccountInv, SameWork

LEMMA AcceptAccount ==
    ASSUME TypeOK, JobsInv, AccountInv,
           NEW c \in Scids, NEW ip \in Ips, NEW early \in BOOLEAN, try_accept(c, ip, early)
    PROVE  AccountInv'
<1>1. /\ DOMAIN conns' = DOMAIN conns \cup {c}
      /\ \A d \in DOMAIN conns : conns'[d] = conns[d]
      /\ conns'[c].generation = next_generation /\ conns'[c].opened = 0
      /\ pool' = pool /\ responses' = responses
      /\ next_generation' = next_generation + 1 /\ next_generation \in Nat
      /\ c \notin DOMAIN conns
  BY DEF try_accept, With, TypeOK
<1>2. /\ \A r \in responses : r.generation \in Nat /\ r.generation < next_generation
      /\ \A d \in DOMAIN conns : conns[d].generation \in Nat
                                 /\ conns[d].generation < next_generation
  BY DEF AccountInv, JobsInv, GenerationsUsed, TypeOK, Reply, ConnectionContext
<1>3. Accounted(c, conns'[c], pool', responses')
  BY <1>1, <1>2 DEF Accounted
<1>4. \A d, e \in DOMAIN conns' : conns'[d].generation = conns'[e].generation => d = e
  BY <1>1, <1>2 DEF AccountInv
<1>5. \A r \in responses' : r.generation < next_generation'
  BY <1>1, <1>2
<1> QED
  BY <1>1, <1>3, <1>4, <1>5 DEF AccountInv

\* A step of one connection c: the account of the others is theirs as before,
\* whatever c adds to the pool and the responses.
LEMMA OthersAccount ==
    ASSUME TypeOK, AccountInv, NEW c \in DOMAIN conns,
           \A d \in DOMAIN conns \ {c} : conns'[d] = conns[d],
           \A j \in (pool \cup pool') : (j \in pool <=> j \in pool') \/ j.scid = c,
           NEW r, responses' = responses \cup {r}, r.generation = conns[c].generation
    PROVE  \A d \in DOMAIN conns \ {c} : Accounted(d, conns'[d], pool', responses')
<1> SUFFICES ASSUME NEW d \in DOMAIN conns \ {c}
             PROVE  Accounted(d, conns'[d], pool', responses')
  OBVIOUS
<1>1. conns'[d] = conns[d] /\ conns[d].generation # conns[c].generation
  BY DEF AccountInv
<1>2. Own(d, conns[d], pool') = Own(d, conns[d], pool)
  BY DEF Own
<1>3. \A s : IsOut(d, conns'[d], pool', s) <=> IsOut(d, conns[d], pool, s)
  BY <1>1, <1>2 DEF IsOut
<1>4. \A x \in responses \cup responses' :
        x.generation = conns[d].generation => (x \in responses <=> x \in responses')
  BY <1>1
<1>5. Accounted(d, conns[d], pool, responses) /\ SameWork(conns[d], conns'[d])
  BY <1>1 DEF AccountInv, SameWork
<1> QED
  BY <1>3, <1>4, <1>5, AccountedSame

LEMMA AnswerAccount ==
    ASSUME TypeOK, JobsInv, OrderInv, AccountInv,
           NEW c \in DOMAIN conns, NEW req \in Request, answer_inline(c, req)
    PROVE  AccountInv'
<1>0. PICK cc \in ConnectionContext : cc = conns[c]
  BY DEF TypeOK
<1>1. PICK b \in BOOLEAN :
        conns' = [conns EXCEPT ![c] = [cc EXCEPT !.opened = cc.opened + 1, !.closing = b]]
  BY <1>0, AnswerForm
<1>2. PICK dd : dd = [cc EXCEPT !.opened = cc.opened + 1, !.closing = b]
  OBVIOUS
<1>3. dd.generation = cc.generation /\ dd.pending = cc.pending /\ dd.opened = cc.opened + 1
  BY <1>2 DEF ConnectionContext
<1>4. PICK r : /\ r.generation = cc.generation /\ r.stream = cc.opened
               /\ responses' = responses \cup {r}
  BY <1>0 DEF answer_inline, reply
<1>5. pool' = pool /\ next_generation' = next_generation
  BY DEF answer_inline
<1>6. conns' = [conns EXCEPT ![c] = dd]
  BY <1>1, <1>2
<1>7. /\ Accounted(c, cc, pool, responses) /\ Ordered(c, cc, pool) /\ cc.opened \in Nat
      /\ \A i \in DOMAIN cc.pending : cc.pending[i].stream \in Nat
      /\ \A j \in Own(c, cc, pool) : j.stream \in Nat
      /\ \A t \in responses : t.stream \in Nat
      /\ cc.generation < next_generation
  BY <1>0, StreamNumbers DEF AccountInv, OrderInv, TypeOK, Reply, Stream, JobsInv,
                             GenerationsUsed
<1>8. \A d \in DOMAIN conns \ {c} : Accounted(d, conns'[d], pool', responses')
  <2>1. \A j \in (pool \cup pool') : (j \in pool <=> j \in pool') \/ j.scid = c
    BY <1>5
  <2>2. \A d \in DOMAIN conns \ {c} : conns'[d] = conns[d]
    BY <1>6
  <2>3. r.generation = conns[c].generation /\ responses' = responses \cup {r}
    BY <1>0, <1>4
  <2> QED
    BY <2>1, <2>2, <2>3, OthersAccount
<1>9. Accounted(c, dd, pool', responses')
  <2>1. \A t \in responses' : t.generation = dd.generation => t.stream < dd.opened
    BY <1>3, <1>4, <1>7 DEF Accounted
  <2>2. Own(c, dd, pool') = Own(c, cc, pool)
    BY <1>3, <1>5 DEF Own
  <2>3. ASSUME NEW s \in 0..(dd.opened - 1)
        PROVE  IsAnswered(dd, responses', s) <=> ~(IsOut(c, dd, pool', s) \/ IsQueued(dd, s))
    <3>1. CASE s = cc.opened
      <4>1. IsAnswered(dd, responses', s)
        BY <1>3, <1>4, <3>1 DEF IsAnswered
      <4>2. ~IsOut(c, dd, pool', s) /\ ~IsQueued(dd, s)
        BY <1>3, <1>7, <2>2, <3>1 DEF IsOut, IsQueued, Ordered
      <4> QED
        BY <4>1, <4>2
    <3>2. CASE s # cc.opened
      <4>1. s \in 0..(cc.opened - 1)
        BY <1>3, <1>7, <3>2
      <4>2. IsAnswered(dd, responses', s) <=> IsAnswered(cc, responses, s)
        BY <1>3, <1>4, <3>2 DEF IsAnswered
      <4>3. /\ IsOut(c, dd, pool', s) <=> IsOut(c, cc, pool, s)
            /\ IsQueued(dd, s) <=> IsQueued(cc, s)
        BY <1>3, <2>2 DEF IsOut, IsQueued
      <4> QED
        BY <1>7, <4>1, <4>2, <4>3 DEF Accounted
    <3> QED
      BY <3>1, <3>2
  <2> QED
    BY <2>1, <2>3 DEF Accounted
<1>10. \A t, u \in responses' :
         t.generation = u.generation /\ t.stream = u.stream => t = u
  <2>1. \A t \in responses : ~(t.generation = r.generation /\ t.stream = r.stream)
    BY <1>4, <1>7 DEF Accounted
  <2> QED
    BY <1>4, <2>1 DEF AccountInv
<1>11. \A t \in responses' : t.generation < next_generation'
  BY <1>4, <1>5, <1>7 DEF AccountInv
<1>12. \A d, e \in DOMAIN conns' : conns'[d].generation = conns'[e].generation => d = e
  BY <1>0, <1>3, <1>6 DEF AccountInv
<1>13. \A d \in DOMAIN conns' : Accounted(d, conns'[d], pool', responses')
  BY <1>6, <1>8, <1>9
<1> QED
  BY <1>10, <1>11, <1>12, <1>13 DEF AccountInv

LEMMA HandleAccount ==
    ASSUME TypeOK, JobsInv, OrderInv, AccountInv,
           NEW c \in DOMAIN conns, NEW req \in Request, handle_simple(c, req)
    PROVE  AccountInv'
<1>0. PICK cc \in ConnectionContext : cc = conns[c]
  BY DEF TypeOK
<1>1. PICK q \in Queued :
        q = [stream |-> cc.opened, req |-> req, admitted |-> cc.user]
  BY <1>0, HandleForm
<1>2. q.stream = cc.opened
  BY <1>1
<1>3. PICK dd : dd = conns'[c]
  OBVIOUS
<1>4. /\ DOMAIN conns' = DOMAIN conns
      /\ \A d \in DOMAIN conns \ {c} : conns'[d] = conns[d]
      /\ dd.generation = cc.generation /\ dd.opened = cc.opened + 1
      /\ UNCHANGED <<responses, next_generation>>
      /\ \/ /\ cc.handler_in_flight
            /\ dd.pending = Append(cc.pending, q) /\ pool' = pool
         \/ /\ ~cc.handler_in_flight
            /\ dd.pending = cc.pending /\ pool' = pool \cup {job(c, cc, q)}
  BY <1>0, <1>1, <1>3, HandleForm
<1>5. /\ Accounted(c, cc, pool, responses) /\ Ordered(c, cc, pool) /\ cc.opened \in Nat
      /\ \A i \in DOMAIN cc.pending : cc.pending[i].stream \in Nat
      /\ \A j \in Own(c, cc, pool) : j.stream \in Nat
      /\ \A t \in responses : t.stream \in Nat
      /\ cc.pending \in Seq(Queued)
  BY <1>0, StreamNumbers DEF AccountInv, OrderInv, TypeOK, Reply, Stream, ConnectionContext
<1>6. \A d \in DOMAIN conns \ {c} : Accounted(d, conns'[d], pool', responses')
  <2> SUFFICES ASSUME NEW d \in DOMAIN conns \ {c}
               PROVE  Accounted(d, conns[d], pool', responses)
    BY <1>4
  <2>1. Own(d, conns[d], pool') = Own(d, conns[d], pool)
    BY <1>4 DEF Own, job
  <2>2. \A s : IsOut(d, conns[d], pool', s) <=> IsOut(d, conns[d], pool, s)
    BY <2>1 DEF IsOut
  <2>3. Accounted(d, conns[d], pool, responses) /\ SameWork(conns[d], conns[d])
    BY DEF AccountInv, SameWork
  <2> QED
    BY <2>2, <2>3, AccountedSame
<1>7. \A s : IsOut(c, dd, pool', s) \/ IsQueued(dd, s)
               <=> IsOut(c, cc, pool, s) \/ IsQueued(cc, s) \/ s = cc.opened
  <2>1. CASE cc.handler_in_flight
    <3>1. dd.pending = Append(cc.pending, q) /\ Own(c, dd, pool') = Own(c, cc, pool)
      BY <1>4, <2>1 DEF Own
    <3>2. /\ \A i \in DOMAIN cc.pending :
               i \in DOMAIN Append(cc.pending, q) /\ Append(cc.pending, q)[i] = cc.pending[i]
          /\ Len(cc.pending) + 1 \in DOMAIN Append(cc.pending, q)
          /\ Append(cc.pending, q)[Len(cc.pending) + 1] = q
          /\ \A i \in DOMAIN Append(cc.pending, q) :
               i \in DOMAIN cc.pending \/ i = Len(cc.pending) + 1
      BY <1>5
    <3>3. \A s : IsQueued(dd, s) <=> IsQueued(cc, s) \/ s = cc.opened
      BY <1>2, <3>1, <3>2 DEF IsQueued
    <3>4. \A s : IsOut(c, dd, pool', s) <=> IsOut(c, cc, pool, s)
      BY <3>1 DEF IsOut
    <3> QED
      BY <3>3, <3>4
  <2>2. CASE ~cc.handler_in_flight
    <3>1. PICK k : k = job(c, cc, q)
      OBVIOUS
    <3>2. k.scid = c /\ k.generation = cc.generation /\ k.stream = cc.opened
      BY <1>2, <3>1 DEF job
    <3>3. Own(c, dd, pool') = Own(c, cc, pool) \cup {k}
      BY <1>4, <2>2, <3>1, <3>2 DEF Own
    <3>4. \A s : IsOut(c, dd, pool', s) <=> IsOut(c, cc, pool, s) \/ s = cc.opened
      BY <3>2, <3>3 DEF IsOut
    <3>5. \A s : IsQueued(dd, s) <=> IsQueued(cc, s)
      BY <1>4, <2>2 DEF IsQueued
    <3> QED
      BY <3>4, <3>5
  <2> QED
    BY <2>1, <2>2
<1>8. Accounted(c, dd, pool', responses')
  <2>1. \A t \in responses' : t.generation = dd.generation => t.stream < dd.opened
    BY <1>4, <1>5 DEF Accounted
  <2>2. ASSUME NEW s \in 0..(dd.opened - 1)
        PROVE  IsAnswered(dd, responses', s) <=> ~(IsOut(c, dd, pool', s) \/ IsQueued(dd, s))
    <3>1. IsAnswered(dd, responses', s) <=> IsAnswered(cc, responses, s)
      BY <1>4 DEF IsAnswered
    <3>2. CASE s = cc.opened
      <4>1. ~IsAnswered(cc, responses, s)
        BY <1>5, <3>2 DEF IsAnswered, Accounted
      <4> QED
        BY <1>7, <3>1, <3>2, <4>1
    <3>3. CASE s # cc.opened
      <4>1. s \in 0..(cc.opened - 1)
        BY <1>4, <1>5, <3>3
      <4>2. IsAnswered(cc, responses, s) <=> ~(IsOut(c, cc, pool, s) \/ IsQueued(cc, s))
        BY <1>5, <4>1 DEF Accounted
      <4> QED
        BY <1>7, <3>1, <3>3, <4>2
    <3> QED
      BY <3>2, <3>3
  <2> QED
    BY <2>1, <2>2 DEF Accounted
<1>9. \A d, e \in DOMAIN conns' : conns'[d].generation = conns'[e].generation => d = e
  BY <1>0, <1>3, <1>4 DEF AccountInv
<1>10. \A d \in DOMAIN conns' : Accounted(d, conns'[d], pool', responses')
  BY <1>3, <1>4, <1>6, <1>8
<1> QED
  BY <1>4, <1>9, <1>10 DEF AccountInv

LEMMA ApplyAccount ==
    ASSUME TypeOK, JobsInv, OrderInv, AccountInv, NEW j \in pool, apply_handler_result(j)
    PROVE  AccountInv'
<1>0. PICK c, cc : c = j.scid /\ cc = Applied(j)
  OBVIOUS
<1>1. /\ c \in DOMAIN conns /\ cc \in ConnectionContext
      /\ cc.generation = conns[c].generation /\ j.generation = conns[c].generation
      /\ cc.pending = conns[c].pending /\ cc.opened = conns[c].opened
      /\ Own(c, conns[c], pool) = {j}
      /\ conns' = [conns EXCEPT ![c] = advance(cc)]
      /\ pool' = (pool \ {j}) \cup next_jobs(c, cc)
      /\ next_generation' = next_generation
  BY <1>0, ApplyForm
<1>2. PICK r : /\ r.generation = cc.generation /\ r.stream = j.stream
               /\ responses' = responses \cup {r}
  BY <1>0, ApplyForm DEF reply
<1>3. PICK dd : dd = advance(cc)
  OBVIOUS
<1>4. /\ dd.generation = cc.generation /\ dd.opened = cc.opened
      /\ cc.pending = <<>> => dd.pending = <<>>
      /\ cc.pending # <<>> => dd.pending = Tail(cc.pending)
  BY <1>1, <1>3, AdvanceFields
<1>5. /\ Accounted(c, conns[c], pool, responses) /\ Ordered(c, conns[c], pool)
      /\ cc.opened \in Nat /\ cc.pending \in Seq(Queued)
      /\ \A i \in DOMAIN cc.pending : cc.pending[i].stream \in Nat
      /\ j.stream \in Nat
      /\ cc.generation < next_generation
  BY <1>1, StreamNumbers DEF AccountInv, OrderInv, ConnectionContext, JobsInv, GenerationsUsed
<1>6. /\ j.stream < cc.opened
      /\ \A i \in DOMAIN cc.pending : j.stream < cc.pending[i].stream
      /\ \A i, k \in DOMAIN cc.pending : i < k => cc.pending[i].stream < cc.pending[k].stream
  BY <1>1, <1>5 DEF Ordered
<1>7. j.scid = c /\ \A k \in next_jobs(c, cc) : k.scid = c /\ k.generation = cc.generation
  BY <1>0 DEF next_jobs, job
<1>8. \A d \in DOMAIN conns \ {c} : Accounted(d, conns'[d], pool', responses')
  <2>1. \A k \in (pool \cup pool') : (k \in pool <=> k \in pool') \/ k.scid = c
    BY <1>1, <1>7
  <2>2. \A d \in DOMAIN conns \ {c} : conns'[d] = conns[d]
    BY <1>1
  <2>3. r.generation = conns[c].generation /\ responses' = responses \cup {r}
    BY <1>1, <1>2
  <2> QED
    BY <1>1, <2>1, <2>2, <2>3, OthersAccount
<1>9. Own(c, dd, pool') = next_jobs(c, cc)
  BY <1>1, <1>4, <1>7 DEF Own
<1>10. \A s : IsOut(c, dd, pool', s) \/ IsQueued(dd, s) <=> IsQueued(cc, s)
  <2>1. CASE cc.pending = <<>>
    BY <1>4, <1>9, <2>1 DEF IsOut, IsQueued, next_jobs
  <2>2. CASE cc.pending # <<>>
    <3>1. PICK k : k = job(c, cc, Head(cc.pending))
      OBVIOUS
    <3>2. Own(c, dd, pool') = {k} /\ k.stream = Head(cc.pending).stream
      BY <1>9, <2>2, <3>1 DEF next_jobs, job
    <3>3. /\ 1 \in DOMAIN cc.pending /\ Head(cc.pending) = cc.pending[1]
          /\ \A i \in DOMAIN Tail(cc.pending) :
               i + 1 \in DOMAIN cc.pending /\ Tail(cc.pending)[i] = cc.pending[i + 1]
          /\ \A i \in DOMAIN cc.pending :
               i # 1 => i - 1 \in DOMAIN Tail(cc.pending) /\ Tail(cc.pending)[i - 1] = cc.pending[i]
      BY <1>5, <1>6, <2>2, TailOrder
    <3>4. \A s : IsOut(c, dd, pool', s) <=> s = cc.pending[1].stream
      BY <3>2, <3>3 DEF IsOut
    <3>5. dd.pending = Tail(cc.pending)
      BY <1>4, <2>2
    <3>6. ASSUME NEW s, IsQueued(dd, s) PROVE IsQueued(cc, s)
      <4>1. PICK i \in DOMAIN Tail(cc.pending) : Tail(cc.pending)[i].stream = s
        BY <3>5, <3>6 DEF IsQueued
      <4>2. i + 1 \in DOMAIN cc.pending /\ cc.pending[i + 1].stream = s
        BY <3>3, <4>1
      <4> QED
        BY <4>2 DEF IsQueued
    <3>7. ASSUME NEW s, IsQueued(cc, s) PROVE IsQueued(dd, s) \/ s = cc.pending[1].stream
      <4>1. PICK i \in DOMAIN cc.pending : cc.pending[i].stream = s
        BY <3>7 DEF IsQueued
      <4>2. i # 1 => i - 1 \in DOMAIN Tail(cc.pending) /\ Tail(cc.pending)[i - 1].stream = s
        BY <3>3, <4>1
      <4> QED
        BY <3>5, <4>1, <4>2 DEF IsQueued
    <3>8. IsQueued(cc, cc.pending[1].stream)
      BY <3>3 DEF IsQueued
    <3> QED
      BY <3>4, <3>6, <3>7, <3>8
  <2> QED
    BY <2>1, <2>2
<1>11. \A s : IsOut(c, conns[c], pool, s) <=> s = j.stream
  BY <1>1 DEF IsOut
<1>12. \A s : IsQueued(conns[c], s) <=> IsQueued(cc, s)
  BY <1>1 DEF IsQueued
<1>13. ~IsQueued(cc, j.stream)
  BY <1>5, <1>6 DEF IsQueued
<1>14. ~IsAnswered(conns[c], responses, j.stream)
  <2>1. j.stream \in 0..(conns[c].opened - 1)
    BY <1>1, <1>5, <1>6
  <2> QED
    BY <1>5, <1>11, <2>1 DEF Accounted
<1>15. Accounted(c, dd, pool', responses')
  <2>1. \A t \in responses' : t.generation = dd.generation => t.stream < dd.opened
    BY <1>1, <1>2, <1>4, <1>5, <1>6 DEF Accounted
  <2>2. ASSUME NEW s \in 0..(dd.opened - 1)
        PROVE  IsAnswered(dd, responses', s) <=> ~(IsOut(c, dd, pool', s) \/ IsQueued(dd, s))
    <3>1. IsAnswered(dd, responses', s)
            <=> IsAnswered(conns[c], responses, s) \/ s = j.stream
      BY <1>1, <1>2, <1>4 DEF IsAnswered
    <3>2. s \in 0..(conns[c].opened - 1)
      BY <1>1, <1>4
    <3>3. IsAnswered(conns[c], responses, s)
            <=> ~(IsOut(c, conns[c], pool, s) \/ IsQueued(conns[c], s))
      BY <1>5, <3>2 DEF Accounted
    <3> QED
      BY <1>10, <1>11, <1>12, <1>13, <3>1, <3>3
  <2> QED
    BY <2>1, <2>2 DEF Accounted
<1>16. \A t, u \in responses' :
         t.generation = u.generation /\ t.stream = u.stream => t = u
  <2>1. \A t \in responses : ~(t.generation = r.generation /\ t.stream = r.stream)
    BY <1>1, <1>2, <1>14 DEF IsAnswered
  <2> QED
    BY <1>2, <2>1 DEF AccountInv
<1>17. \A t \in responses' : t.generation < next_generation'
  BY <1>1, <1>2, <1>5 DEF AccountInv
<1>18. \A d, e \in DOMAIN conns' : conns'[d].generation = conns'[e].generation => d = e
  BY <1>1, <1>3, <1>4 DEF AccountInv
<1>19. \A d \in DOMAIN conns' : Accounted(d, conns'[d], pool', responses')
  BY <1>1, <1>3, <1>8, <1>15
<1> QED
  BY <1>16, <1>17, <1>18, <1>19 DEF AccountInv

LEMMA NextAccount == OrderedState /\ AccountInv /\ [Next]_vars => AccountInv'
<1> SUFFICES ASSUME TypeOK, IdentityInv, JobsInv, OrderInv, AccountInv, [Next]_vars
             PROVE  AccountInv'
  BY DEF OrderedState
<1> DEFINE PoolOnly ==
      /\ UNCHANGED <<conns, responses, next_generation>>
      /\ \A c \in DOMAIN conns : \A s :
           IsOut(c, conns[c], pool', s) <=> IsOut(c, conns[c], pool, s)
<1>0. ASSUME PoolOnly PROVE AccountInv'
  <2>1. \A c \in DOMAIN conns : SameWork(conns[c], conns[c])
                                /\ Accounted(c, conns[c], pool, responses)
    BY DEF SameWork, AccountInv
  <2>2. \A c \in DOMAIN conns : Accounted(c, conns[c], pool', responses)
    BY <1>0, <2>1, AccountedSame
  <2> QED
    BY <1>0, <2>2 DEF AccountInv
<1>1. ASSUME NEW j \in pool, worker_takes(j) \/ worker_finishes(j)
      PROVE  AccountInv'
  <2>1. PICK k : /\ k.scid = j.scid /\ k.generation = j.generation /\ k.stream = j.stream
                 /\ pool' = (pool \ {j}) \cup {k}
    BY <1>1, WorkerForm
  <2>2. UNCHANGED <<conns, responses, next_generation>>
    BY <1>1, WorkerForm
  <2>3. \A c \in DOMAIN conns : \A s : IsOut(c, conns[c], pool', s) <=> IsOut(c, conns[c], pool, s)
    BY <2>1 DEF IsOut, Own
  <2> QED
    BY <1>0, <2>2, <2>3
<1>2. ASSUME NEW j \in pool, drop_handler_result(j)
      PROVE  AccountInv'
  <2>1. UNCHANGED <<conns, responses, next_generation>> /\ pool' = pool \ {j}
    BY <1>2 DEF drop_handler_result
  <2>2. \A c \in DOMAIN conns : j \notin Own(c, conns[c], pool)
    BY <1>2 DEF drop_handler_result, handler_result_is_stale, Own
  <2>3. \A c \in DOMAIN conns : Own(c, conns[c], pool') = Own(c, conns[c], pool)
    BY <2>1, <2>2 DEF Own
  <2> QED
    BY <1>0, <2>1, <2>3 DEF IsOut
<1>3. CASE process_exits
  <2>1. DOMAIN conns' = {} /\ UNCHANGED <<responses, next_generation>>
    BY <1>3 DEF process_exits
  <2> QED
    BY <2>1 DEF AccountInv
<1>4. CASE Passive
  BY <1>4, PassiveAccount
<1> QED
  BY <1>1, <1>2, <1>3, <1>4, AcceptAccount, AnswerAccount, HandleAccount, ApplyAccount
     DEF Next, Passive, SlotStep

\* A set with at most one element, counted.
LEMMA AtMostOne ==
    ASSUME NEW S, \A x, y \in S : x = y
    PROVE  Cardinality(S) = IF S = {} THEN 0 ELSE 1
<1>1. CASE S = {}
  BY <1>1, FS_EmptySet
<1>2. CASE S # {}
  <2>1. PICK x : S = {x}
    BY <1>2
  <2> QED
    BY <1>2, <2>1, FS_Singleton
<1> QED
  BY <1>1, <1>2

LEMMA AccountCounts == OrderedState /\ AccountInv => EveryRequestAccounted
<1> SUFFICES ASSUME TypeOK, JobsInv, OrderInv, AccountInv,
                    NEW c \in DOMAIN conns, NEW s \in 0..(conns[c].opened - 1)
             PROVE  Whereabouts(c, s) = 1
  BY DEF OrderedState, EveryRequestAccounted
<1> DEFINE A == {r \in responses : r.generation = conns[c].generation /\ r.stream = s}
           J == {j \in JobsOf(c) : j.stream = s}
           Q == {i \in DOMAIN conns[c].pending : conns[c].pending[i].stream = s}
<1>1. /\ A # {} <=> IsAnswered(conns[c], responses, s)
      /\ J # {} <=> IsOut(c, conns[c], pool, s)
      /\ Q # {} <=> IsQueued(conns[c], s)
  BY DEF IsAnswered, IsOut, IsQueued, Own, JobsOf
<1>2. /\ A # {} <=> ~(J # {} \/ Q # {})
  BY <1>1 DEF AccountInv, Accounted
<1>3. ~(J # {} /\ Q # {})
  BY StreamNumbers DEF OrderInv, Ordered, Own, JobsOf
<1>4. \A x, y \in A : x = y
  BY DEF AccountInv
<1>5. \A x, y \in J : x = y
  BY DEF JobsInv, OneJobPerConnection
<1>6. \A x, y \in Q : x = y
  <2>1. \A x, y \in Q : x \in Nat /\ y \in Nat /\ ~(x < y) /\ ~(y < x)
    <3>1. conns[c].pending \in Seq(Queued)
      BY DEF TypeOK, ConnectionContext
    <3> QED
      BY <3>1, StreamNumbers DEF OrderInv, Ordered
  <2> QED
    BY <2>1
<1>7. /\ Cardinality(A) = IF A = {} THEN 0 ELSE 1
      /\ Cardinality(J) = IF J = {} THEN 0 ELSE 1
      /\ Cardinality(Q) = IF Q = {} THEN 0 ELSE 1
  <2> HIDE DEF A, J, Q
  <2> QED
    BY <1>4, <1>5, <1>6, AtMostOne
<1>8. Whereabouts(c, s) = Cardinality(A) + Cardinality(J) + Cardinality(Q)
  BY DEF Whereabouts
<1> HIDE DEF A, J, Q
<1> QED
  BY <1>2, <1>3, <1>7, <1>8

\* No request of a live connection is lost, answered twice, run twice or both
\* answered and still to be run, whatever is pipelined, refused, reaped and
\* reconnected, and for any number of connections and handler threads.
THEOREM RequestsAccounted == Spec => []EveryRequestAccounted
<1>1. Init => AccountInv
  <2>1. Init => DOMAIN conns = {} /\ responses = {}
    BY DEF Init
  <2> QED
    BY <2>1 DEF AccountInv
<1> QED
  BY <1>1, NextAccount, OrderInvariant, AccountCounts, PTL DEF Spec
=============================================================================
