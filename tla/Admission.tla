------------------------------- MODULE Admission -------------------------------
(***************************************************************************)
(* Who gets in: the token buckets per address prefix (limits.rs), the      *)
(* stateless retry tokens (retry.rs) and the accept path that uses both    *)
(* (server.rs phase_ingress, try_accept, send_retry, and the rate check of *)
(* validate_request_prerequisites).                                        *)
(*                                                                         *)
(* Data. An address stands for an IP and a port, Owner says who receives   *)
(* what is sent to it, and anybody may put any source address on a packet. *)
(* A retry token is what its HMAC covers: address, time of minting and the *)
(* process's key. Time is counted in ticks; a bucket holds units, Rate of  *)
(* which flow in per tick, and a request takes Cost of them, so rates      *)
(* below one request per tick are covered. Instant and SystemTime are      *)
(* different clocks: the second one may be set, backwards too.             *)
(***************************************************************************)
EXTENDS Integers, FiniteSets, Functions

CONSTANTS Clients, Addrs,
          Keys, bucket_key,    \* the /32 or /64 prefix of an address
          Owner,               \* who receives datagrams sent to an address
          Scids,               \* SCIDs the Initials' DCIDs derive to
          NoConn, NoToken,
          Rate, Burst, Cost,   \* rps and burst, in units
          MaxTracked, EvictSample,
          SweepInterval, IdleCutoff,
          RequireRetry, Lifetime,
          MaxTotal, MaxPerIp,  \* Caps
          MaxTime, MaxWall,    \* bounds of the two clocks
          MaxEpoch             \* bound: restarts

\* A bucket that is idle long enough to be swept would be full again.
ASSUME AdmissionAssumption ==
    /\ bucket_key \in [Addrs -> Keys] /\ Owner \in [Addrs -> Clients]
    /\ Rate \in Nat /\ Burst \in Nat /\ Cost \in Nat \ {0}
    /\ MaxTracked \in Nat \ {0} /\ EvictSample \in Nat \ {0}
    /\ SweepInterval \in Nat /\ IdleCutoff \in Nat
    /\ Rate * IdleCutoff >= Burst
    /\ RequireRetry \in BOOLEAN /\ Lifetime \in Nat
    /\ MaxTotal \in Nat /\ MaxPerIp \in Nat
    /\ MaxTime \in Nat /\ MaxWall \in Nat /\ MaxEpoch \in Nat
    /\ IsFiniteSet(Keys) /\ IsFiniteSet(Scids)

VARIABLES now,         \* Instant::now
          wall,        \* now_unix_secs
          epoch,       \* which RetryKey the process has
          buckets,     \* RateLimiter.buckets
          last_sweep,
          have,        \* per client: the last retry token it received
          conns,       \* per SCID: who opened the connection, as which peer
          watch        \* observer: since when one key is watched, and its grants

vars == <<now, wall, epoch, buckets, last_sweep, have, conns, watch>>
limiterVars == <<buckets, last_sweep, watch>>

Token == [addr : Addrs, minted : 0..MaxWall, epoch : 0..MaxEpoch]

----------------------------------------------------------------------------
\* RateLimiter.

full == [tokens |-> Burst, last |-> now]

sweep_due == now - last_sweep >= SweepInterval

\* Fault: the sweep forgets buckets that are still refilling.
maybe_sweep_all == IF sweep_due THEN << >> ELSE buckets

\* maybe_sweep: on its cadence, drop what has been idle past the cutoff.
maybe_sweep ==
    IF sweep_due THEN Restrict(buckets, {k \in DOMAIN buckets : now - buckets[k].last < IdleCutoff})
                 ELSE buckets

\* Fault: one bucket more than the cap.
make_room_off_by_one(b, key) ==
    IF Cardinality(DOMAIN b) <= MaxTracked \/ key \in DOMAIN b THEN {DOMAIN b}
    ELSE { DOMAIN b \ {v} : v \in DOMAIN b }

\* make_room_for: at capacity a new key displaces the oldest bucket of a sample,
\* which the hash map's order picks.
make_room_for(b, key) ==
    IF Cardinality(DOMAIN b) < MaxTracked \/ key \in DOMAIN b THEN {DOMAIN b}
    ELSE { DOMAIN b \ {v} : v \in { x \in DOMAIN b :
               \E S \in SUBSET DOMAIN b :
                   /\ x \in S
                   /\ \/ Cardinality(S) = EvictSample
                      \/ S = DOMAIN b /\ Cardinality(S) < EvictSample
                   /\ \A y \in S : b[x].last <= b[y].last } }

refill(bucket) ==
    LET n == bucket.tokens + (now - bucket.last) * Rate
    IN IF n > Burst THEN Burst ELSE n

watching(key) == [key |-> key, since |-> now, grants |-> 0]

\* The observer counts the grants of the key it watches. An eviction forgets what
\* the key spent, so the watch starts again.
observed(key, granted, kept, swept) ==
    IF watch.key \in DOMAIN swept /\ watch.key \notin kept
    THEN watching(watch.key)
    ELSE IF watch.key = key /\ granted THEN [watch EXCEPT !.grants = @ + 1] ELSE watch

\* try_consume: sweep, make room, refill, take.
try_consume(key, granted) ==
    LET swept == maybe_sweep
    IN \E kept \in make_room_for(swept, key) :
         LET units == refill(IF key \in kept THEN swept[key] ELSE full)
         IN /\ granted = (units >= Cost)
            /\ buckets' = [k \in kept \cup {key} |->
                             IF k = key
                             THEN [tokens |-> IF granted THEN units - Cost ELSE units, last |-> now]
                             ELSE swept[k]]
            /\ last_sweep' = IF sweep_due THEN now ELSE last_sweep
            /\ watch' = observed(key, granted, kept, swept)

----------------------------------------------------------------------------
\* RetryKey.

mint(addr) == [addr |-> addr, minted |-> wall, epoch |-> epoch]

\* Fault: the token's address is not compared.
verify_any_peer(addr, token) ==
    /\ token # NoToken
    /\ token.epoch = epoch
    /\ wall - token.minted <= Lifetime /\ token.minted - wall <= Lifetime

\* verify: authentic under this process's key, not too old and not too far in the
\* future, and for this very peer.
verify(addr, token) ==
    /\ token # NoToken
    /\ token.epoch = epoch
    /\ wall - token.minted <= Lifetime /\ token.minted - wall <= Lifetime
    /\ token.addr = addr

----------------------------------------------------------------------------
\* phase_ingress and try_accept.

live == {s \in Scids : conns[s] # NoConn}

\* ConnectionCounter::try_acquire.
try_acquire(addr) ==
    /\ Cardinality(live) < MaxTotal
    /\ Cardinality({s \in live : bucket_key[conns[s].peer] = bucket_key[addr]}) < MaxPerIp

\* The retry goes to the source address of the Initial, whoever sent it, and may
\* be lost on the way.
send_retry(addr) == \/ have' = [have EXCEPT ![Owner[addr]] = mint(addr)]
                    \/ UNCHANGED have

\* An Initial that no connection answers to, from `sender` with source address
\* `addr`, with or without the token the sender holds.
try_accept(sender, addr, scid, token) ==
    /\ conns[scid] = NoConn
    /\ \E granted \in BOOLEAN :
         /\ try_consume(bucket_key[addr], granted)
         /\ CASE ~granted -> UNCHANGED <<have, conns>>
              [] granted /\ RequireRetry /\ token = NoToken ->
                    send_retry(addr) /\ UNCHANGED conns
              [] granted /\ (RequireRetry => token # NoToken) ->
                    /\ \/ UNCHANGED conns      \* a bad token, no slot, or quiche refuses
                       \/ /\ RequireRetry => verify(addr, token)
                          /\ try_acquire(addr)
                          /\ conns' = [conns EXCEPT ![scid] = [sender |-> sender, peer |-> addr]]
                    /\ UNCHANGED have
    /\ UNCHANGED <<now, wall, epoch>>

\* validate_request_prerequisites: a request takes from its peer's bucket.
request(scid) ==
    /\ conns[scid] # NoConn
    /\ \E granted \in BOOLEAN : try_consume(bucket_key[conns[scid].peer], granted)
    /\ UNCHANGED <<now, wall, epoch, have, conns>>

\* phase_reap_connections.
reap(scid) == /\ conns[scid] # NoConn
              /\ conns' = [conns EXCEPT ![scid] = NoConn]
              /\ UNCHANGED <<now, wall, epoch, limiterVars, have>>

----------------------------------------------------------------------------
\* The environment.

tick == /\ now < MaxTime
        /\ now' = now + 1
        /\ UNCHANGED <<wall, epoch, limiterVars, have, conns>>

set_clock == /\ wall' \in 0..MaxWall
             /\ UNCHANGED <<now, epoch, limiterVars, have, conns>>

\* A new process: a fresh key, an empty table, no connections.
restart == /\ epoch < MaxEpoch
           /\ epoch' = epoch + 1
           /\ buckets' = << >>
           /\ last_sweep' = now
           /\ conns' = [s \in Scids |-> NoConn]
           /\ watch' = watching(watch.key)
           /\ UNCHANGED <<now, wall, have>>

start_watching(key) == /\ watch' = watching(key)
                       /\ UNCHANGED <<now, wall, epoch, buckets, last_sweep, have, conns>>

Init == /\ now = 0
        /\ wall \in 0..MaxWall
        /\ epoch = 0
        /\ buckets = << >>
        /\ last_sweep = 0
        /\ have = [c \in Clients |-> NoToken]
        /\ conns = [s \in Scids |-> NoConn]
        /\ watch \in [key : Keys, since : {0}, grants : {0}]

Next == \/ \E c \in Clients, a \in Addrs, s \in Scids :
             try_accept(c, a, s, NoToken) \/ try_accept(c, a, s, have[c])
        \/ \E s \in Scids : request(s) \/ reap(s)
        \/ tick \/ set_clock \/ restart
        \/ \E k \in Keys : start_watching(k)

Spec == Init /\ [][Next]_vars

----------------------------------------------------------------------------
\* Properties.

\* Every variable holds what its Rust counterpart can hold; no bucket is overdrawn
\* or over-filled.
TypeOK ==
    /\ now \in 0..MaxTime /\ wall \in 0..MaxWall /\ epoch \in 0..MaxEpoch
    /\ DOMAIN buckets \subseteq Keys
    /\ \A k \in DOMAIN buckets : /\ buckets[k].tokens \in 0..Burst
                                 /\ buckets[k].last \in 0..now
    /\ last_sweep \in 0..now
    /\ have \in [Clients -> Token \cup {NoToken}]
    /\ conns \in [Scids -> [sender : Clients, peer : Addrs] \cup {NoConn}]
    /\ watch \in [key : Keys, since : 0..now, grants : Nat]

\* Whatever moment one starts to count, a prefix is granted no more than the burst
\* and what has flowed in since, sweeps included; only an eviction at capacity
\* gives a spent bucket back early.
RateBounded == Cost * watch.grants <= Burst + Rate * (now - watch.since)

\* However many prefixes send, the table stays within its cap.
TableBounded == Cardinality(DOMAIN buckets) <= MaxTracked

\* With retry required, whoever holds a connection receives datagrams at the
\* address it is attributed to: spoofed sources, tokens of another address, of an
\* earlier process or replayed ones open none.
AddressValidated ==
    RequireRetry => \A s \in live : Owner[conns[s].peer] = conns[s].sender
=============================================================================
