-------------------------- MODULE AdmissionProofs --------------------------
(***************************************************************************)
(* Proofs about Admission, for any number of clients, addresses and        *)
(* prefixes and any rate, burst, caps, intervals and clocks within the     *)
(* assumption of the module.                                               *)
(***************************************************************************)
EXTENDS Admission, FiniteSetTheorems, TLAPS

-----------------------------------------------------------------------------
(***************************************************************************)
(* What the parts of try_consume do to the table.                          *)
(***************************************************************************)

\* The sweep only drops buckets, and only those idle past the cutoff.
LEMMA Sweep ==
    /\ DOMAIN maybe_sweep \subseteq DOMAIN buckets
    /\ \A k \in DOMAIN maybe_sweep : maybe_sweep[k] = buckets[k]
    /\ \A k \in DOMAIN buckets \ DOMAIN maybe_sweep : ~(now - buckets[k].last < IdleCutoff)
BY DEF maybe_sweep, Restrict

\* Making room never drops the bucket of the key it is made for.
LEMMA Room ==
    ASSUME NEW b, NEW key, NEW kept \in make_room_for(b, key)
    PROVE  kept \subseteq DOMAIN b /\ (key \in DOMAIN b => key \in kept)
BY DEF make_room_for

\* A refill leaves between nothing and the burst in the bucket.
LEMMA Refill ==
    ASSUME NEW bucket, now \in Nat, bucket.tokens \in 0..Burst, bucket.last \in 0..now
    PROVE  /\ refill(bucket) \in 0..Burst
           /\ refill(bucket) <= bucket.tokens + (now - bucket.last) * Rate
<1>1. (now - bucket.last) * Rate \in Nat
  BY AdmissionAssumption
<1> QED
  BY <1>1, AdmissionAssumption DEF refill

\* Everything a step can do to the limiter.
LEMMA LimiterStep ==
    ASSUME TypeOK, Next
    PROVE  \/ /\ \E key \in Keys, granted \in BOOLEAN : try_consume(key, granted)
              /\ now' = now
           \/ UNCHANGED <<buckets, last_sweep, watch>> /\ now' \in Nat /\ now <= now'
           \/ restart
           \/ \E k \in Keys : start_watching(k)
<1>1. ASSUME NEW c \in Clients, NEW a \in Addrs, NEW s \in Scids, NEW token,
             try_accept(c, a, s, token)
      PROVE  (\E key \in Keys, granted \in BOOLEAN : try_consume(key, granted)) /\ now' = now
  <2>1. bucket_key[a] \in Keys
    BY AdmissionAssumption
  <2> QED
    BY <1>1, <2>1 DEF try_accept
<1>2. ASSUME NEW s \in Scids, request(s)
      PROVE  (\E key \in Keys, granted \in BOOLEAN : try_consume(key, granted)) /\ now' = now
  <2>1. bucket_key[conns[s].peer] \in Keys
    BY <1>2, AdmissionAssumption DEF request, TypeOK
  <2> QED
    BY <1>2, <2>1 DEF request
<1>3. ASSUME NEW s \in Scids, reap(s)
      PROVE  UNCHANGED <<buckets, last_sweep, watch>> /\ now' \in Nat /\ now <= now'
  BY <1>3, AdmissionAssumption DEF reap, limiterVars, TypeOK
<1>4. ASSUME tick \/ set_clock
      PROVE  UNCHANGED <<buckets, last_sweep, watch>> /\ now' \in Nat /\ now <= now'
  BY <1>4, AdmissionAssumption DEF tick, set_clock, limiterVars, TypeOK
<1> QED
  BY <1>1, <1>2, <1>3, <1>4 DEF Next

-----------------------------------------------------------------------------
(***************************************************************************)
(* Type correctness.                                                       *)
(***************************************************************************)

LimiterOK ==
    /\ now \in Nat
    /\ DOMAIN buckets \subseteq Keys
    /\ \A k \in DOMAIN buckets : /\ buckets[k].tokens \in 0..Burst
                                 /\ buckets[k].last \in 0..now
    /\ last_sweep \in 0..now
    /\ watch \in [key : Keys, since : 0..now, grants : Nat]

\* One try_consume, seen from the table: which buckets stay, and what the new one
\* of the key holds.
LEMMA Consumed ==
    ASSUME LimiterOK, NEW key \in Keys, NEW granted \in BOOLEAN, try_consume(key, granted)
    PROVE  \E kept, units :
             /\ kept \in make_room_for(maybe_sweep, key)
             /\ units = refill(IF key \in kept THEN maybe_sweep[key] ELSE full)
             /\ units \in 0..Burst
             /\ granted => units - Cost \in 0..Burst
             /\ DOMAIN buckets' = kept \cup {key}
             /\ buckets'[key].tokens = IF granted THEN units - Cost ELSE units
             /\ buckets'[key].last = now
             /\ \A k \in kept \ {key} : buckets'[k] = buckets[k]
             /\ kept \subseteq DOMAIN maybe_sweep
             /\ watch' = observed(key, granted, kept, maybe_sweep)
<1> DEFINE swept == maybe_sweep
<1>1. PICK kept \in make_room_for(swept, key) :
        LET units == refill(IF key \in kept THEN swept[key] ELSE full)
        IN /\ granted = (units >= Cost)
           /\ buckets' = [k \in kept \cup {key} |->
                            IF k = key
                            THEN [tokens |-> IF granted THEN units - Cost ELSE units, last |-> now]
                            ELSE swept[k]]
           /\ watch' = observed(key, granted, kept, swept)
  BY DEF try_consume
<1> DEFINE units == refill(IF key \in kept THEN swept[key] ELSE full)
<1>2. kept \subseteq DOMAIN swept
  BY Room
<1>3. \A k \in kept : swept[k] = buckets[k] /\ k \in DOMAIN buckets
  BY <1>2, Sweep
<1>4. units \in 0..Burst
  <2>1. CASE key \in kept
    BY <2>1, <1>3, Refill DEF LimiterOK
  <2>2. CASE key \notin kept
    <3>1. full.tokens \in 0..Burst /\ full.last \in 0..now
      BY AdmissionAssumption DEF full, LimiterOK
    <3> QED
      BY <2>2, <3>1, Refill DEF LimiterOK
  <2> QED
    BY <2>1, <2>2
<1>5. granted => units - Cost \in 0..Burst
  <2>1. granted => units >= Cost
    BY <1>1
  <2> HIDE DEF units
  <2> QED
    BY <1>4, <2>1, AdmissionAssumption
<1>6. /\ DOMAIN buckets' = kept \cup {key}
      /\ buckets'[key].tokens = IF granted THEN units - Cost ELSE units
      /\ buckets'[key].last = now
  BY <1>1
<1>7. \A k \in kept \ {key} : buckets'[k] = buckets[k]
  BY <1>1, <1>3
<1> QED
  BY <1>1, <1>2, <1>4, <1>5, <1>6, <1>7

\* The observer's record stays one.
LEMMA Observed ==
    ASSUME LimiterOK, NEW key \in Keys, NEW granted \in BOOLEAN, NEW kept, NEW swept
    PROVE  observed(key, granted, kept, swept) \in [key : Keys, since : 0..now, grants : Nat]
<1>1. watching(watch.key) \in [key : Keys, since : 0..now, grants : Nat]
  BY DEF watching, LimiterOK
<1>2. [watch EXCEPT !.grants = @ + 1] \in [key : Keys, since : 0..now, grants : Nat]
  BY DEF LimiterOK
<1> QED
  BY <1>1, <1>2 DEF observed, LimiterOK

\* The limiter's part of the type invariant is preserved by itself.
LEMMA LimiterTyped ==
    ASSUME LimiterOK, TypeOK, Next
    PROVE  LimiterOK'
<1>1. ASSUME NEW key \in Keys, NEW granted \in BOOLEAN, try_consume(key, granted), now' = now
      PROVE  LimiterOK'
  <2>1. PICK kept, units :
             /\ kept \in make_room_for(maybe_sweep, key)
             /\ units \in 0..Burst
             /\ granted => units - Cost \in 0..Burst
             /\ DOMAIN buckets' = kept \cup {key}
             /\ buckets'[key].tokens = IF granted THEN units - Cost ELSE units
             /\ buckets'[key].last = now
             /\ \A k \in kept \ {key} : buckets'[k] = buckets[k]
             /\ kept \subseteq DOMAIN maybe_sweep
             /\ watch' = observed(key, granted, kept, maybe_sweep)
    BY <1>1, Consumed
  <2>2. kept \subseteq DOMAIN buckets
    BY <2>1, Sweep
  <2>3. /\ DOMAIN buckets' \subseteq Keys
        /\ \A k \in DOMAIN buckets' : buckets'[k].tokens \in 0..Burst /\ buckets'[k].last \in 0..now
    <3>1. buckets'[key].tokens \in 0..Burst /\ buckets'[key].last \in 0..now
      BY <2>1 DEF LimiterOK
    <3> QED
      BY <2>1, <2>2, <3>1 DEF LimiterOK
  <2>4. last_sweep' \in 0..now
    <3>1. last_sweep' = IF sweep_due THEN now ELSE last_sweep
      BY <1>1 DEF try_consume
    <3> QED
      BY <3>1 DEF LimiterOK
  <2>5. watch' \in [key : Keys, since : 0..now, grants : Nat]
    BY <2>1, Observed
  <2> QED
    BY <1>1, <2>3, <2>4, <2>5 DEF LimiterOK
<1>2. CASE UNCHANGED <<buckets, last_sweep, watch>> /\ now' \in Nat /\ now <= now'
  BY <1>2 DEF LimiterOK
<1>3. CASE restart
  BY <1>3 DEF restart, watching, LimiterOK
<1>4. CASE \E k \in Keys : start_watching(k)
  BY <1>4 DEF start_watching, watching, LimiterOK
<1> QED
  BY <1>1, <1>2, <1>3, <1>4, LimiterStep

\* The rest of the state: the two other clocks, the tokens clients hold and the
\* connections.
LEMMA PeersTyped ==
    ASSUME TypeOK, Next
    PROVE  /\ now' \in 0..MaxTime /\ wall' \in 0..MaxWall /\ epoch' \in 0..MaxEpoch
           /\ have' \in [Clients -> Token \cup {NoToken}]
           /\ conns' \in [Scids -> [sender : Clients, peer : Addrs] \cup {NoConn}]
<1> DEFINE Goal == /\ now' \in 0..MaxTime /\ wall' \in 0..MaxWall /\ epoch' \in 0..MaxEpoch
                   /\ have' \in [Clients -> Token \cup {NoToken}]
                   /\ conns' \in [Scids -> [sender : Clients, peer : Addrs] \cup {NoConn}]
<1>1. ASSUME NEW c \in Clients, NEW a \in Addrs, NEW s \in Scids, NEW token,
             try_accept(c, a, s, token)
      PROVE  Goal
  <2>1. mint(a) \in Token
    BY DEF mint, Token, TypeOK
  <2>2. have' = have \/ have' = [have EXCEPT ![Owner[a]] = mint(a)]
    BY <1>1 DEF try_accept, send_retry
  <2>3. conns' = conns \/ conns' = [conns EXCEPT ![s] = [sender |-> c, peer |-> a]]
    BY <1>1 DEF try_accept
  <2>4. UNCHANGED <<now, wall, epoch>>
    BY <1>1 DEF try_accept
  <2> QED
    BY <2>1, <2>2, <2>3, <2>4, AdmissionAssumption DEF TypeOK
<1>2. ASSUME NEW s \in Scids, request(s) \/ reap(s)
      PROVE  Goal
  BY <1>2 DEF request, reap, TypeOK
<1>3. CASE tick \/ set_clock
  BY <1>3, AdmissionAssumption DEF tick, set_clock, TypeOK
<1>4. CASE restart
  BY <1>4, AdmissionAssumption DEF restart, TypeOK
<1>5. CASE \E k \in Keys : start_watching(k)
  BY <1>5 DEF start_watching, TypeOK
<1> QED
  BY <1>1, <1>2, <1>3, <1>4, <1>5 DEF Next

\* Buckets, clocks, tokens and connections keep their types: no interleaving of
\* accepts, requests, sweeps, evictions, clock changes and restarts overdraws or
\* over-fills a bucket (limits.rs try_consume), or dates one in the future.
THEOREM TypeCorrect == Spec => []TypeOK
<1>1. Init => TypeOK
  BY AdmissionAssumption DEF Init, TypeOK
<1>2. TypeOK /\ [Next]_vars => TypeOK'
  <2> SUFFICES ASSUME TypeOK, [Next]_vars PROVE TypeOK'
    OBVIOUS
  <2>1. LimiterOK
    BY AdmissionAssumption DEF TypeOK, LimiterOK
  <2>2. CASE Next
    <3>1. LimiterOK'
      BY <2>1, <2>2, LimiterTyped
    <3> QED
      BY <2>2, <3>1, PeersTyped DEF TypeOK, LimiterOK
  <2>3. CASE UNCHANGED vars
    BY <2>3 DEF vars, TypeOK
  <2> QED
    BY <2>2, <2>3
<1> QED
  BY <1>1, <1>2, PTL DEF Spec

-----------------------------------------------------------------------------
(***************************************************************************)
(* Stateless retry.                                                        *)
(***************************************************************************)

\* A token reaches only the owner of the address it is for.
TokensDelivered == \A c \in Clients : have[c] # NoToken => Owner[have[c].addr] = c

RetryInv == TokensDelivered /\ AddressValidated

\* Every step keeps tokens with the owners of their addresses and connections
\* attributed to an address of their opener.
LEMMA RetryStep ==
    ASSUME TypeOK, RetryInv, Next
    PROVE  RetryInv'
<1>1. ASSUME NEW c \in Clients, NEW a \in Addrs, NEW s \in Scids, NEW token,
             token = NoToken \/ token = have[c], try_accept(c, a, s, token)
      PROVE  RetryInv'
  <2>1. have' = have \/ have' = [have EXCEPT ![Owner[a]] = mint(a)]
    BY <1>1 DEF try_accept, send_retry
  <2>2. TokensDelivered'
    <3>1. mint(a).addr = a
      BY DEF mint
    <3> QED
      BY <2>1, <3>1, AdmissionAssumption DEF TokensDelivered, RetryInv, TypeOK
  <2>3. \/ conns' = conns
        \/ /\ RequireRetry => verify(a, token)
           /\ conns' = [conns EXCEPT ![s] = [sender |-> c, peer |-> a]]
    BY <1>1 DEF try_accept
  <2>4. AddressValidated'
    <3>1. CASE conns' = conns
      BY <3>1 DEF AddressValidated, RetryInv, live
    <3>2. CASE /\ RequireRetry => verify(a, token)
               /\ conns' = [conns EXCEPT ![s] = [sender |-> c, peer |-> a]]
      <4>1. RequireRetry => Owner[a] = c
        BY <1>1, <3>2 DEF verify, TokensDelivered, RetryInv
      <4> QED
        BY <3>2, <4>1 DEF AddressValidated, RetryInv, live, TypeOK
    <3> QED
      BY <2>3, <3>1, <3>2
  <2> QED
    BY <2>2, <2>4 DEF RetryInv
<1>2. ASSUME NEW s \in Scids, request(s)
      PROVE  RetryInv'
  BY <1>2 DEF request, RetryInv, TokensDelivered, AddressValidated, live
<1>3. ASSUME NEW s \in Scids, reap(s)
      PROVE  RetryInv'
  BY <1>3 DEF reap, RetryInv, TokensDelivered, AddressValidated, live, TypeOK
<1>4. CASE tick \/ set_clock
  BY <1>4 DEF tick, set_clock, RetryInv, TokensDelivered, AddressValidated, live
<1>5. CASE restart
  BY <1>5 DEF restart, RetryInv, TokensDelivered, AddressValidated, live
<1>6. CASE \E k \in Keys : start_watching(k)
  BY <1>6 DEF start_watching, RetryInv, TokensDelivered, AddressValidated, live
<1> QED
  BY <1>1, <1>2, <1>3, <1>4, <1>5, <1>6 DEF Next

\* With retry required, every connection that try_accept opens is attributed to an
\* address at which its opener receives datagrams, however source addresses are
\* forged, retries lost, tokens replayed, the clock set or the server restarted.
THEOREM PeersValidated == Spec => []AddressValidated
<1>1. Init => RetryInv
  BY DEF Init, RetryInv, TokensDelivered, AddressValidated, live
<1>2. TypeOK /\ RetryInv /\ [Next]_vars => RetryInv'
  <2>1. ASSUME RetryInv, UNCHANGED vars PROVE RetryInv'
    BY <2>1 DEF vars, RetryInv, TokensDelivered, AddressValidated, live
  <2> QED
    BY <2>1, RetryStep
<1>3. RetryInv => AddressValidated
  BY DEF RetryInv
<1> QED
  BY <1>1, <1>2, <1>3, TypeCorrect, PTL DEF Spec

-----------------------------------------------------------------------------
(***************************************************************************)
(* The table's bound.                                                      *)
(***************************************************************************)

\* At capacity, making room removes a bucket before the new one is added.
LEMMA RoomBounded ==
    ASSUME NEW b, NEW key, NEW kept \in make_room_for(b, key),
           IsFiniteSet(DOMAIN b), Cardinality(DOMAIN b) <= MaxTracked
    PROVE  Cardinality(kept \cup {key}) <= MaxTracked
<1>0. MaxTracked \in Nat /\ Cardinality(DOMAIN b) \in Nat
  BY AdmissionAssumption, FS_CardinalityType
<1>1. CASE key \in DOMAIN b
  <2>1. kept = DOMAIN b
    BY <1>1 DEF make_room_for
  <2>2. kept \cup {key} = DOMAIN b
    BY <1>1, <2>1
  <2> QED
    BY <2>2
<1>2. CASE key \notin DOMAIN b /\ Cardinality(DOMAIN b) < MaxTracked
  <2>1. kept = DOMAIN b
    BY <1>2 DEF make_room_for
  <2>2. Cardinality(DOMAIN b \cup {key}) = Cardinality(DOMAIN b) + 1
    BY <1>2, FS_AddElement
  <2> QED
    BY <1>0, <1>2, <2>1, <2>2
<1>3. CASE key \notin DOMAIN b /\ ~(Cardinality(DOMAIN b) < MaxTracked)
  <2>1. PICK v \in DOMAIN b : kept = DOMAIN b \ {v}
    BY <1>3 DEF make_room_for
  <2>2. IsFiniteSet(kept) /\ Cardinality(kept) = Cardinality(DOMAIN b) - 1
    BY <2>1, FS_RemoveElement
  <2>3. key \notin kept
    BY <1>3, <2>1
  <2>4. Cardinality(kept \cup {key}) = Cardinality(kept) + 1
    BY <2>2, <2>3, FS_AddElement
  <2> QED
    BY <1>0, <2>2, <2>4
<1> QED
  BY <1>1, <1>2, <1>3

\* No step takes the table over its cap.
LEMMA TableStep ==
    ASSUME TypeOK, TableBounded, Next
    PROVE  TableBounded'
<1>0. LimiterOK /\ IsFiniteSet(DOMAIN buckets)
  <2>1. IsFiniteSet(Keys)
    BY AdmissionAssumption
  <2>2. DOMAIN buckets \subseteq Keys
    BY DEF TypeOK
  <2>3. IsFiniteSet(DOMAIN buckets)
    BY <2>1, <2>2, FS_Subset
  <2> QED
    BY <2>3, AdmissionAssumption DEF TypeOK, LimiterOK
<1>1. ASSUME NEW key \in Keys, NEW granted \in BOOLEAN, try_consume(key, granted)
      PROVE  TableBounded'
  <2>1. PICK kept \in make_room_for(maybe_sweep, key) : DOMAIN buckets' = kept \cup {key}
    BY <1>0, <1>1, Consumed
  <2>2. DOMAIN maybe_sweep \subseteq DOMAIN buckets
    BY Sweep
  <2>3. /\ IsFiniteSet(DOMAIN maybe_sweep)
        /\ Cardinality(DOMAIN maybe_sweep) <= Cardinality(DOMAIN buckets)
    BY <1>0, <2>2, FS_Subset
  <2>4. /\ Cardinality(DOMAIN maybe_sweep) \in Nat /\ Cardinality(DOMAIN buckets) \in Nat
        /\ MaxTracked \in Nat
    BY <1>0, <2>3, FS_CardinalityType, AdmissionAssumption
  <2>5. Cardinality(DOMAIN maybe_sweep) <= MaxTracked
    BY <2>3, <2>4 DEF TableBounded
  <2>6. Cardinality(kept \cup {key}) <= MaxTracked
    BY <2>3, <2>5, RoomBounded
  <2> QED
    BY <2>1, <2>6 DEF TableBounded
<1>2. CASE UNCHANGED <<buckets, last_sweep, watch>>
  BY <1>2 DEF TableBounded
<1>3. CASE restart
  <2>1. DOMAIN buckets' = {}
    BY <1>3 DEF restart
  <2> QED
    BY <2>1, FS_EmptySet, AdmissionAssumption DEF TableBounded
<1>4. CASE \E k \in Keys : start_watching(k)
  BY <1>4 DEF start_watching, TableBounded
<1> QED
  BY <1>1, <1>2, <1>3, <1>4, LimiterStep

\* The limiter's table never holds more buckets than its cap, whatever prefixes
\* send and whichever buckets the hash map's order offers for eviction
\* (limits.rs make_room_for).
THEOREM TableStaysBounded == Spec => []TableBounded
<1>1. Init => TableBounded
  <2>1. Init => DOMAIN buckets = {}
    BY DEF Init
  <2> QED
    BY <2>1, FS_EmptySet, AdmissionAssumption DEF TableBounded
<1>2. TypeOK /\ TableBounded /\ [Next]_vars => TableBounded'
  <2>1. ASSUME TableBounded, UNCHANGED vars PROVE TableBounded'
    BY <2>1 DEF vars, TableBounded
  <2> QED
    BY <2>1, TableStep
<1> QED
  BY <1>1, <1>2, TypeCorrect, PTL DEF Spec

-----------------------------------------------------------------------------
(***************************************************************************)
(* The rate.                                                               *)
(***************************************************************************)

\* A longer time lets more in.
LEMMA Flow ==
    ASSUME NEW r \in Nat, NEW x \in Int, NEW y \in Int, x <= y
    PROVE  r * x <= r * y
<1>1. y - x \in Nat
  OBVIOUS
<1>2. r * (y - x) >= 0
  BY <1>1
<1>3. r * (y - x) = r * y - r * x
  OBVIOUS
<1>4. r * x \in Int /\ r * y \in Int
  OBVIOUS
<1> QED
  BY <1>2, <1>3, <1>4

\* What the watched key has been granted, measured against its bucket: what it spent
\* and still has is covered up to the bucket's last refill; a bucket not touched
\* since the watch began granted nothing; a swept one was full again.
RateInv ==
    LET w == watch.key
        covered == Burst + Rate * (buckets[w].last - watch.since)
    IN /\ w \in DOMAIN buckets /\ watch.since <= buckets[w].last =>
            Cost * watch.grants + buckets[w].tokens <= covered
       /\ w \in DOMAIN buckets /\ buckets[w].last < watch.since => watch.grants = 0
       /\ w \notin DOMAIN buckets => Cost * watch.grants <= Rate * (now - watch.since)

\* The invariant bounds the grants.
LEMMA RateInvBounds ==
    ASSUME TypeOK, RateInv
    PROVE  RateBounded
<1> DEFINE w == watch.key
<1>0. /\ now \in Nat /\ watch.since \in 0..now /\ watch.grants \in Nat /\ w \in Keys
      /\ Rate \in Nat /\ Burst \in Nat /\ Cost \in Nat
  BY AdmissionAssumption DEF TypeOK
<1>a. Cost * watch.grants \in Nat /\ Rate * (now - watch.since) \in Nat
  BY <1>0
<1>1. CASE w \in DOMAIN buckets /\ watch.since <= buckets[w].last
  <2>1. buckets[w].tokens \in 0..Burst /\ buckets[w].last \in 0..now
    BY <1>1 DEF TypeOK
  <2>2. Rate * (buckets[w].last - watch.since) <= Rate * (now - watch.since)
    BY <1>0, <2>1, Flow
  <2>3. Cost * watch.grants + buckets[w].tokens <= Burst + Rate * (buckets[w].last - watch.since)
    BY <1>1 DEF RateInv
  <2>4. Rate * (buckets[w].last - watch.since) \in Int
    BY <1>0, <2>1
  <2> QED
    BY <1>0, <1>a, <2>1, <2>2, <2>3, <2>4 DEF RateBounded
<1>2. CASE w \in DOMAIN buckets /\ buckets[w].last < watch.since
  <2>1. watch.grants = 0
    BY <1>2 DEF RateInv
  <2> QED
    BY <1>0, <1>a, <2>1 DEF RateBounded
<1>3. CASE w \notin DOMAIN buckets
  BY <1>0, <1>a, <1>3 DEF RateInv, RateBounded
<1>4. w \in DOMAIN buckets => buckets[w].last \in 0..now
  BY DEF TypeOK
<1> QED
  BY <1>0, <1>1, <1>2, <1>3, <1>4

\* A swept bucket, or none, means that the watched key spent no more than has flowed
\* in: it was idle for as long as it takes to fill a bucket.
LEMMA SweptCovered ==
    ASSUME TypeOK, RateInv, watch.key \notin DOMAIN maybe_sweep
    PROVE  Cost * watch.grants <= Rate * (now - watch.since)
<1> DEFINE w == watch.key
           spent == Cost * watch.grants
           inflow == Rate * (now - watch.since)
<1>0. /\ now \in Nat /\ watch.since \in 0..now /\ watch.grants \in Nat
      /\ Rate \in Nat /\ Burst \in Nat /\ Cost \in Nat /\ IdleCutoff \in Nat
      /\ Rate * IdleCutoff >= Burst
  BY AdmissionAssumption DEF TypeOK
<1>1. spent \in Nat /\ inflow \in Nat
  BY <1>0
<1>2. spent <= inflow
  <2>1. CASE w \notin DOMAIN buckets
    BY <2>1 DEF RateInv
  <2>2. CASE w \in DOMAIN buckets /\ buckets[w].last < watch.since
    <3>1. watch.grants = 0
      BY <2>2 DEF RateInv
    <3>2. spent = 0
      BY <3>1, <1>0
    <3> QED
      BY <3>2, <1>1
  <2>3. CASE w \in DOMAIN buckets /\ watch.since <= buckets[w].last
    <3>1. buckets[w].tokens \in 0..Burst /\ buckets[w].last \in 0..now
      BY <2>3 DEF TypeOK
    <3>2. IdleCutoff <= now - buckets[w].last
      BY <1>0, <2>3, <3>1, Sweep
    <3>3. Rate * IdleCutoff <= Rate * (now - buckets[w].last)
      BY <1>0, <3>1, <3>2, Flow
    <3>4. inflow = Rate * (now - buckets[w].last) + Rate * (buckets[w].last - watch.since)
      BY <1>0, <3>1
    <3>5. spent + buckets[w].tokens <= Burst + Rate * (buckets[w].last - watch.since)
      BY <2>3 DEF RateInv
    <3>6. /\ Rate * (now - buckets[w].last) \in Int
          /\ Rate * (buckets[w].last - watch.since) \in Int
          /\ Rate * IdleCutoff \in Int
      BY <1>0, <3>1
    <3> HIDE DEF spent, inflow
    <3> QED
      BY <1>0, <1>1, <3>1, <3>3, <3>4, <3>5, <3>6
  <2>4. w \in DOMAIN buckets => buckets[w].last \in 0..now
    BY DEF TypeOK
  <2> QED
    BY <1>0, <2>1, <2>2, <2>3, <2>4
<1> QED
  BY <1>2

\* Before try_consume takes anything, what the watched key was granted and what its
\* refilled bucket holds stay within the bound.
LEMMA RateCovered ==
    ASSUME TypeOK, RateInv, NEW kept,
           kept \in make_room_for(maybe_sweep, watch.key)
    PROVE  Cost * watch.grants
             + refill(IF watch.key \in kept THEN maybe_sweep[watch.key] ELSE full)
           <= Burst + Rate * (now - watch.since)
<1> DEFINE w == watch.key
           spent == Cost * watch.grants
           inflow == Rate * (now - watch.since)
<1>0. /\ now \in Nat /\ watch.since \in 0..now /\ watch.grants \in Nat
      /\ Rate \in Nat /\ Burst \in Nat /\ Cost \in Nat /\ IdleCutoff \in Nat
      /\ Rate * IdleCutoff >= Burst
  BY AdmissionAssumption DEF TypeOK
<1>1. spent \in Nat /\ inflow \in Nat
  BY <1>0
<1>2. ASSUME w \in kept
      PROVE  spent + refill(maybe_sweep[w]) <= Burst + inflow
  <2>1. w \in DOMAIN buckets /\ maybe_sweep[w] = buckets[w]
    BY <1>2, Room, Sweep
  <2>2. buckets[w].tokens \in 0..Burst /\ buckets[w].last \in 0..now
    BY <2>1 DEF TypeOK
  <2>3. /\ refill(buckets[w]) \in 0..Burst
        /\ refill(buckets[w]) <= buckets[w].tokens + (now - buckets[w].last) * Rate
    BY <1>0, <2>2, Refill
  <2>4. CASE buckets[w].last < watch.since
    <3>1. watch.grants = 0
      BY <2>1, <2>4 DEF RateInv
    <3>2. spent = 0
      BY <3>1, <1>0
    <3> HIDE DEF spent, inflow
    <3> QED
      BY <3>2, <1>0, <1>1, <2>1, <2>3
  <2>5. CASE watch.since <= buckets[w].last
    <3>1. spent + buckets[w].tokens <= Burst + Rate * (buckets[w].last - watch.since)
      BY <2>1, <2>5 DEF RateInv
    <3>2. inflow = (now - buckets[w].last) * Rate + Rate * (buckets[w].last - watch.since)
      BY <1>0, <2>2
    <3>3. /\ (now - buckets[w].last) * Rate \in Int
          /\ Rate * (buckets[w].last - watch.since) \in Int
      BY <1>0, <2>2
    <3> HIDE DEF spent, inflow
    <3> QED
      BY <1>0, <1>1, <2>1, <2>2, <2>3, <3>1, <3>2, <3>3
  <2> QED
    BY <1>0, <2>2, <2>4, <2>5
<1>3. ASSUME w \notin kept
      PROVE  spent + refill(full) <= Burst + inflow
  <2>1. w \notin DOMAIN maybe_sweep
    BY <1>3, Room
  <2>2. full.tokens \in 0..Burst /\ full.last \in 0..now
    BY <1>0 DEF full
  <2>3. refill(full) \in 0..Burst
    BY <1>0, <2>2, Refill
  <2>4. spent <= inflow
    BY <2>1, SweptCovered
  <2> HIDE DEF spent, inflow
  <2> QED
    BY <1>0, <1>1, <2>3, <2>4
<1> QED
  BY <1>2, <1>3

\* Every step preserves the rate invariant.
LEMMA RateStep ==
    ASSUME TypeOK, TypeOK', RateInv, Next
    PROVE  RateInv'
<1> DEFINE w == watch.key
<1>a. LimiterOK
  BY AdmissionAssumption DEF TypeOK, LimiterOK
<1>0. /\ now \in Nat /\ watch.since \in 0..now /\ watch.grants \in Nat /\ w \in Keys
      /\ Rate \in Nat /\ Burst \in Nat /\ Cost \in Nat
  BY AdmissionAssumption DEF TypeOK
<1>1. ASSUME NEW key \in Keys, NEW granted \in BOOLEAN, try_consume(key, granted), now' = now
      PROVE  RateInv'
  <2>1. PICK kept, units :
             /\ kept \in make_room_for(maybe_sweep, key)
             /\ units = refill(IF key \in kept THEN maybe_sweep[key] ELSE full)
             /\ units \in 0..Burst
             /\ granted => units - Cost \in 0..Burst
             /\ DOMAIN buckets' = kept \cup {key}
             /\ buckets'[key].tokens = IF granted THEN units - Cost ELSE units
             /\ buckets'[key].last = now
             /\ \A k \in kept \ {key} : buckets'[k] = buckets[k]
             /\ kept \subseteq DOMAIN maybe_sweep
             /\ watch' = observed(key, granted, kept, maybe_sweep)
    BY <1>a, <1>1, Consumed
  <2>2. CASE w \in DOMAIN maybe_sweep /\ w \notin kept
    <3>1. watch' = watching(w)
      BY <2>1, <2>2 DEF observed
    <3>2. w # key
      BY <2>1, <2>2, Room
    <3>3. w \notin DOMAIN buckets'
      BY <2>1, <2>2, <3>2
    <3> QED
      BY <1>0, <1>1, <3>1, <3>3 DEF RateInv, watching
  <2>3. CASE ~(w \in DOMAIN maybe_sweep /\ w \notin kept) /\ w = key
    <3>1. Cost * watch.grants + units <= Burst + Rate * (now - watch.since)
      BY <2>1, <2>3, RateCovered
    <3>2. /\ watch' = IF granted THEN [watch EXCEPT !.grants = @ + 1] ELSE watch
          /\ watch \in [key : Keys, since : 0..now, grants : Nat]
      BY <2>1, <2>3, <1>a DEF observed, LimiterOK
    <3>3. /\ watch'.key = w /\ watch'.since = watch.since
          /\ watch'.grants = IF granted THEN watch.grants + 1 ELSE watch.grants
      BY <3>2
    <3>4. Cost * watch'.grants + buckets'[w].tokens = Cost * watch.grants + units
      <4>1. CASE granted
        <5>1. Cost * (watch.grants + 1) = Cost * watch.grants + Cost
          BY <1>0
        <5>2. Cost * watch.grants \in Nat
          BY <1>0
        <5>3. buckets'[w].tokens = units - Cost /\ watch'.grants = watch.grants + 1
          BY <4>1, <2>1, <2>3, <3>3
        <5>4. Cost * watch'.grants = Cost * watch.grants + Cost
          BY <5>1, <5>3
        <5>5. units \in Int
          BY <2>1, <1>0
        <5> QED
          BY <1>0, <5>2, <5>3, <5>4, <5>5
      <4>2. CASE ~granted
        BY <4>2, <2>1, <2>3, <3>3
      <4> QED
        BY <4>1, <4>2
    <3>5. w \in DOMAIN buckets' /\ buckets'[w].last = now
      BY <2>1, <2>3
    <3> QED
      BY <1>0, <1>1, <3>1, <3>3, <3>4, <3>5 DEF RateInv
  <2>4. CASE ~(w \in DOMAIN maybe_sweep /\ w \notin kept) /\ w # key
    <3>1. watch' = watch
      BY <2>1, <2>4 DEF observed
    <3>2. CASE w \in kept
      <4>1. w \in DOMAIN buckets' /\ buckets'[w] = buckets[w] /\ w \in DOMAIN buckets
        BY <2>1, <2>4, <3>2, Sweep
      <4> QED
        BY <3>1, <4>1, <1>1 DEF RateInv
    <3>3. CASE w \notin kept
      <4>1. w \notin DOMAIN maybe_sweep /\ w \notin DOMAIN buckets'
        BY <2>1, <2>4, <3>3
      <4>2. Cost * watch.grants <= Rate * (now - watch.since)
        BY <4>1, SweptCovered
      <4> QED
        BY <3>1, <4>1, <4>2, <1>1 DEF RateInv
    <3> QED
      BY <3>2, <3>3
  <2> QED
    BY <2>2, <2>3, <2>4
<1>2. CASE UNCHANGED <<buckets, last_sweep, watch>> /\ now' \in Nat /\ now <= now'
  <2>1. Rate * (now - watch.since) <= Rate * (now' - watch.since)
    BY <1>0, <1>2, Flow
  <2>2. /\ Cost * watch.grants \in Int /\ Rate * (now - watch.since) \in Int
        /\ Rate * (now' - watch.since) \in Int
    BY <1>0, <1>2
  <2> QED
    BY <1>2, <2>1, <2>2 DEF RateInv
<1>3. CASE restart
  <2>1. watch' = watching(w) /\ now' = now /\ DOMAIN buckets' = {}
    BY <1>3 DEF restart
  <2> QED
    BY <1>0, <2>1 DEF RateInv, watching
<1>4. ASSUME NEW k \in Keys, start_watching(k)
      PROVE  RateInv'
  <2>1. watch' = watching(k) /\ buckets' = buckets /\ now' = now
    BY <1>4 DEF start_watching
  <2>2. k \in DOMAIN buckets => buckets[k].last \in 0..now /\ buckets[k].tokens \in 0..Burst
    BY DEF TypeOK
  <2>3. watch'.key = k /\ watch'.since = now /\ watch'.grants = 0
    BY <2>1 DEF watching
  <2>4. Cost * 0 = 0 /\ Rate * (now - now) = 0
    BY <1>0
  <2>5. k \in DOMAIN buckets /\ now <= buckets[k].last => buckets[k].last = now
    BY <1>0, <2>2
  <2>6. /\ k \in DOMAIN buckets /\ now <= buckets[k].last =>
             Cost * 0 + buckets[k].tokens <= Burst + Rate * (buckets[k].last - now)
        /\ Cost * 0 <= Rate * (now - now)
    BY <1>0, <2>2, <2>4, <2>5
  <2> QED
    BY <2>1, <2>3, <2>6 DEF RateInv
<1> QED
  BY <1>1, <1>2, <1>3, <1>4, LimiterStep

\* From any moment on, no prefix is granted more connections and requests than its
\* burst and what flows in since allow: neither sweeps, nor refills, nor requests of
\* other prefixes give spent tokens back (limits.rs try_consume); an eviction and a
\* restart, which do, begin a new count.
THEOREM RateStaysBounded == Spec => []RateBounded
<1>1. Init => RateInv
  <2> SUFFICES ASSUME Init PROVE RateInv
    OBVIOUS
  <2>1. DOMAIN buckets = {} /\ now = 0 /\ watch.since = 0 /\ watch.grants = 0
    BY DEF Init
  <2> QED
    BY <2>1, AdmissionAssumption DEF RateInv
<1>2. TypeOK /\ TypeOK' /\ RateInv /\ [Next]_vars => RateInv'
  <2>1. ASSUME RateInv, UNCHANGED vars PROVE RateInv'
    BY <2>1 DEF vars, RateInv
  <2> QED
    BY <2>1, RateStep
<1>3. TypeOK /\ RateInv => RateBounded
  BY RateInvBounds
<1> QED
  BY <1>1, <1>2, <1>3, TypeCorrect, PTL DEF Spec
=============================================================================
