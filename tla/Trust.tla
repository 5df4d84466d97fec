------------------------------- MODULE Trust -------------------------------
(***************************************************************************)
(* How client processes decide which server they talk to, and which saved  *)
(* session they resume: connect.rs, known_hosts.rs, session_store.rs and   *)
(* the connect path of main.rs.                                            *)
(*                                                                         *)
(* Several client processes connect to one host:port and share two files:  *)
(* known_hosts (the fingerprints pinned for the host, in file order) and   *)
(* the session ticket saved for it.  A fingerprint is modelled by the      *)
(* certificate it is the digest of.  Lines of known_hosts that do not      *)
(* parse are Junk; lines of other hosts never match and are left out.      *)
(*                                                                         *)
(* The environment moves the host's addresses to other servers, rotates    *)
(* certificates, touches the ticket file, steps the wall clock and edits   *)
(* known_hosts.  Real time is now; a process reads wall = now + skew.      *)
(* The TLS library is external: it completes a handshake with the          *)
(* certificate of the server, or, when the server accepts the ticket that  *)
(* was offered, with the certificate of the saved session; and with        *)
(* verify_peer it completes only one whose chain leads to a trusted CA.    *)
(***************************************************************************)
EXTENDS Integers, Sequences, FiniteSets, SequencesExt, TLC

CONSTANTS Clients,      \* client processes
          Servers,      \* servers an address can lead to
          Silent,       \* an address nobody answers at
          resolved,     \* the addresses the resolver returns, in order
          Certs,        \* leaf certificates
          Renewed,      \* those a server may change to
          Chained,      \* those whose chain leads to a trusted CA
          San,          \* subjectAltName of a certificate
          Cn,           \* its Subject CN
          Launches,     \* how a process may be started: mode, zero_rtt and server_name
          Junk,         \* a known_hosts line that does not parse
          NoCert, NoTicket,
          TicketTtl,    \* TICKET_TTL
          SkewGrace,    \* FUTURE_SKEW_GRACE
          InitialLines, InitialTickets, InitialCerts, InitialAddrs,
          MaxTime,      \* bound on now
          MaxSkew,      \* bound on how far the wall clock runs ahead
          MaxRuns,      \* bound on the client processes started
          MaxChanges    \* bound on the environment's interventions

Fingerprints == Certs \cup {NoCert}

\* What a ticket file can hold; `born` is when its blob was written.
Ticket == [ver : {"v2", "v1", "legacy"}, saved : Int, mtime : Int, fp : Fingerprints,
           blob : [issuer : Servers \cup {Silent}, cert : Fingerprints, born : Int]]

\* The header of a ticket file is true of its blob: the fingerprint is that of
\* the session, and the save time was read before the blob was written, from
\* a clock that runs at most MaxSkew ahead.
truthful(t) == /\ t.ver # "legacy" => t.fp = t.blob.cert
               /\ t.ver = "v2" => t.saved <= t.blob.born + MaxSkew

\* A name is [kind, v]: v is the sequence of labels of a DNS name, and the
\* octets of an address.
ASSUME TrustAssumption ==
  /\ Renewed \subseteq Certs /\ Chained \subseteq Certs
  /\ resolved \in Seq(Range(resolved)) /\ resolved # <<>>
  /\ Silent \notin Servers
  /\ MaxSkew \in Nat /\ TicketTtl \in Nat /\ SkewGrace \in Nat
  /\ InitialAddrs \subseteq [Range(resolved) -> Servers \cup {Silent}]
  /\ InitialCerts \subseteq [Servers -> Certs]
  /\ InitialLines \subseteq Seq(Fingerprints \cup {Junk})
  /\ \A t \in InitialTickets \ {NoTicket} : t \in Ticket /\ truthful(t)
  /\ \A l \in Launches :
       /\ l.mode \in {"tofu", "ca", "insecure"} /\ l.zero_rtt \in BOOLEAN
       /\ l.mode = "ca" =>
            \/ l.name.kind = "ip"
            \/ l.name.kind = "dns" /\ l.name.v \in Seq(STRING) \ {<<>>}
  /\ \A k \in Certs :
       /\ San[k].st \in {"present", "absent", "unparsable"}
       /\ \A n \in San[k].names : n.kind = "dns" => n.v \in Seq(STRING)
       /\ Cn[k] \in Seq(STRING)

VARIABLES known,        \* lines of known_hosts
          ticket,       \* the ticket file of the host, or NoTicket
          temps,        \* the temp file each process writes its ticket to
          proc,         \* state of each client process
          at,           \* which server an address leads to
          cert,         \* the certificate each server presents
          now, skew, runs, changes

vars == <<known, ticket, temps, proc, at, cert, now, skew, runs, changes>>
files == <<known, ticket, temps>>
world == <<at, cert, now, skew, changes>>

wall == now + skew

NoEntries == <<>>

Idle == [pc |-> "idle", mode |-> "insecure", zero_rtt |-> FALSE, name |-> NoCert,
         view |-> NoEntries, addr |-> 1, offered |-> NoTicket, peer |-> NoCert, server |-> Silent,
         edited |-> FALSE]

become(c, p) == proc' = [proc EXCEPT ![c] = p]

-----------------------------------------------------------------------------
\* known_hosts.rs

\* The entries of the host, under the numbers of their lines.
from_reader(lines) == [i \in {n \in DOMAIN lines : lines[n] # Junk} |-> lines[i]]

pinned_fingerprint(entries) ==
  IF DOMAIN entries = {} THEN NoCert ELSE entries[Min(DOMAIN entries)]

\* Fault: the newest line of the host decides instead of the oldest.
lookup_last(entries, seen) ==
  IF DOMAIN entries = {} THEN "New"
  ELSE IF entries[Max(DOMAIN entries)] = seen THEN "Match" ELSE "Mismatch"

\* The first entry of the host decides.
lookup(entries, seen) ==
  IF DOMAIN entries = {} THEN "New"
  ELSE IF entries[Min(DOMAIN entries)] = seen THEN "Match" ELSE "Mismatch"

-----------------------------------------------------------------------------
\* session_store.rs.  A ticket file is a "v2" file (save time and fingerprint
\* in its header), a "v1" file (fingerprint only) or a "legacy" file (bare
\* blob).  The blob is the session of one server, under the certificate that
\* server had shown.

mtime_expired(f) == wall - f.mtime > TicketTtl

\* Fault: only a save time in the future is looked at.
v2_future_only(saved) == saved - wall <= SkewGrace

v2_timestamp_fresh(saved) == IF saved > wall THEN saved - wall <= SkewGrace
                                             ELSE wall - saved <= TicketTtl

\* What load accepts for a caller whose pin is expected (NoCert: none).
loadable(f, expected) ==
  /\ ~mtime_expired(f)
  /\ f.ver = "legacy" => expected = NoCert
  /\ f.ver = "v2" => v2_timestamp_fresh(f.saved)
  /\ f.ver # "legacy" /\ expected # NoCert => f.fp = expected

\* Fault: every process writes the same temp file.
shared_temp_name(c) == CHOOSE d \in Clients : TRUE

\* The temp name carries the pid and a counter: no two processes share one.
temp_name(c) == c

-----------------------------------------------------------------------------
\* connect.rs: does the leaf certificate identify the expected name?

dns_name_matches(pattern, host) ==
  IF Len(pattern) > 1 /\ Head(pattern) = "*"
  THEN Len(host) > 1 /\ Tail(pattern) = Tail(host)
  ELSE pattern = host

match_ip_san(k, name) == San[k].st = "present" /\ name \in San[k].names

match_dns_san(k, name) ==
  CASE San[k].st = "unparsable" -> "FailClosed"
    [] San[k].st = "absent"     -> "NoDnsSan"
    [] OTHER -> IF \E n \in San[k].names : n.kind = "dns" /\ dns_name_matches(n.v, name.v)
                THEN "Matched" ELSE "DnsSanPresentNoMatch"

\* Fault: the CN is consulted whenever no dNSName matched.
matches_cn_too(k, name) ==
  IF name.kind = "ip" THEN match_ip_san(k, name)
  ELSE match_dns_san(k, name) = "Matched" \/ dns_name_matches(Cn[k], name.v)

cert_matches_hostname(k, name) ==
  IF name.kind = "ip" THEN match_ip_san(k, name)
  ELSE \/ match_dns_san(k, name) = "Matched"
       \/ match_dns_san(k, name) = "NoDnsSan" /\ dns_name_matches(Cn[k], name.v)

-----------------------------------------------------------------------------
\* One run of a client process.

\* main: with -T and neither --ca nor --insecure, known_hosts is read before
\* the connection is made; the one-shot commands use "ca" or "insecure".
start(c) ==
  /\ proc[c].pc = "idle" /\ runs < MaxRuns
  /\ \E l \in Launches :
       become(c, [proc[c] EXCEPT
                    !.pc = "resume", !.mode = l.mode, !.zero_rtt = l.zero_rtt, !.name = l.name,
                    !.view = IF l.mode = "tofu" THEN from_reader(known) ELSE NoEntries])
  /\ runs' = runs + 1
  /\ UNCHANGED <<files, world>>

expected(c) == pinned_fingerprint(proc[c].view)

\* try_connect, resume_ticket: the stored ticket is loaded, and offered when
\* it is fresh and bound to the pin and set_session takes it; any other ticket
\* is removed.
resume_ticket(c) ==
  /\ proc[c].pc = "resume"
  /\ IF ~proc[c].zero_rtt \/ ticket = NoTicket
     THEN become(c, [proc[c] EXCEPT !.pc = "handshake"])
     ELSE \/ /\ loadable(ticket, expected(c))
             /\ become(c, [proc[c] EXCEPT !.pc = "handshake", !.offered = ticket])
          \/ become(c, [proc[c] EXCEPT !.pc = "forget"])
  /\ UNCHANGED <<files, world, runs>>

\* remove_file in load, and forget_stale_ticket: removes what is there by now.
forget(c) ==
  /\ proc[c].pc = "forget"
  /\ ticket' = NoTicket
  /\ become(c, [proc[c] EXCEPT !.pc = "handshake"])
  /\ UNCHANGED <<known, temps, world, runs>>

\* establish: the next address, or the last error.
next_address(c) ==
  become(c, IF proc[c].addr < Len(resolved)
            THEN [proc[c] EXCEPT !.pc = "resume", !.addr = @ + 1, !.offered = NoTicket]
            ELSE Idle)

server(c) == at[resolved[proc[c].addr]]

\* The certificates a completed handshake can report for this attempt.
presented(c) ==
  IF server(c) = Silent THEN {}
  ELSE {cert[server(c)]} \cup
       (IF proc[c].offered # NoTicket /\ proc[c].offered.blob.issuer = server(c)
        THEN {proc[c].offered.blob.cert} ELSE {})

established(c, k, pc) ==
  [proc[c] EXCEPT !.pc = pc, !.peer = k, !.server = server(c), !.addr = 1, !.offered = NoTicket]

\* main: the pin check against the view that was read before the handshake.
checked(c, k) ==
  LET v == IF proc[c].mode = "tofu" THEN lookup(proc[c].view, k) ELSE "Match"
  IN CASE v = "Match"    -> established(c, k, "active")
       [] v = "New"      -> established(c, k, "append")
       [] v = "Mismatch" -> Idle

\* try_connect: the handshake loop ends established; with verify_peer the
\* leaf must then also identify server_name.
handshake(c) ==
  /\ proc[c].pc = "handshake"
  /\ \E k \in presented(c) :
       /\ proc[c].mode = "ca" => k \in Chained
       /\ IF proc[c].mode = "ca" /\ ~cert_matches_hostname(k, proc[c].name)
          THEN next_address(c)
          ELSE become(c, checked(c, k))
  /\ UNCHANGED <<files, world, runs>>

\* The connection is closed, or the budget of an attempt runs out.
handshake_fails(c) ==
  /\ proc[c].pc = "handshake"
  /\ next_address(c)
  /\ UNCHANGED <<files, world, runs>>

\* The line is appended under the lock, whatever the file holds by now.
append_to_file(c) ==
  /\ proc[c].pc = "append"
  /\ known' = Append(known, proc[c].peer)
  /\ become(c, [proc[c] EXCEPT !.pc = "active"])
  /\ UNCHANGED <<ticket, temps, world, runs>>

\* An exit on an error, --no-zero-rtt, and a server that sent no ticket: nothing
\* is saved.
finish(c) ==
  /\ proc[c].pc = "active"
  /\ become(c, Idle)
  /\ UNCHANGED <<files, world, runs>>

\* A clean exit saves the freshest ticket: the header and the blob go into the
\* temp file (save, write_all), which is then renamed over the ticket.
save(c) ==
  /\ proc[c].pc = "active" /\ proc[c].zero_rtt
  /\ temps' = [temps EXCEPT ![temp_name(c)] =
                 [ver |-> "v2", saved |-> wall, mtime |-> wall, fp |-> proc[c].peer,
                  blob |-> [issuer |-> Silent, cert |-> NoCert, born |-> now]]]
  /\ become(c, [proc[c] EXCEPT !.pc = "write"])
  /\ UNCHANGED <<known, ticket, world, runs>>

write_all(c) ==
  /\ proc[c].pc = "write"
  /\ temps' = [temps EXCEPT ![temp_name(c)].blob =
                 [issuer |-> proc[c].server, cert |-> proc[c].peer, born |-> now],
               ![temp_name(c)].mtime = wall]
  /\ become(c, [proc[c] EXCEPT !.pc = "rename"])
  /\ UNCHANGED <<known, ticket, world, runs>>

write_owner_only(c) ==
  /\ proc[c].pc = "rename"
  /\ ticket' = IF temps[temp_name(c)] = NoTicket THEN ticket ELSE temps[temp_name(c)]
  /\ temps' = [temps EXCEPT ![temp_name(c)] = NoTicket]
  /\ become(c, Idle)
  /\ UNCHANGED <<known, world, runs>>

\* The process is killed; a temp file it had open stays, under its own name.
killed(c) ==
  /\ proc[c].pc \in {"append", "write", "rename"}
  /\ become(c, Idle)
  /\ UNCHANGED <<files, world, runs>>

-----------------------------------------------------------------------------
\* The environment.

intervene == /\ changes < MaxChanges
             /\ changes' = changes + 1

repoint(a, s) == /\ intervene
                 /\ at[a] # s /\ at' = [at EXCEPT ![a] = s]
                 /\ UNCHANGED <<files, proc, cert, now, skew, runs>>

rotate(s, k) == /\ intervene
                /\ cert[s] # k /\ cert' = [cert EXCEPT ![s] = k]
                /\ UNCHANGED <<files, proc, at, now, skew, runs>>

touch == /\ intervene
         /\ ticket # NoTicket /\ ticket.mtime # wall
         /\ ticket' = [ticket EXCEPT !.mtime = wall]
         /\ UNCHANGED <<known, temps, proc, at, cert, now, skew, runs>>

step_clock == /\ intervene
              /\ skew' \in 0..MaxSkew \ {skew}
              /\ UNCHANGED <<files, proc, at, cert, now, runs>>

\* The user removes the lines of the host, as the mismatch banner advises.
edit_known_hosts == /\ intervene
                    /\ known # <<>> /\ known' = <<>>
                    /\ proc' = [c \in Clients |-> [proc[c] EXCEPT !.edited = @ \/ proc[c].pc # "idle"]]
                    /\ UNCHANGED <<ticket, temps, at, cert, now, skew, runs>>

tick == /\ now < MaxTime
        /\ now' = now + 1
        /\ UNCHANGED <<files, proc, at, cert, skew, runs, changes>>

-----------------------------------------------------------------------------
Init ==
  /\ known \in InitialLines
  /\ ticket \in InitialTickets
  /\ temps = [c \in Clients |-> NoTicket]
  /\ proc = [c \in Clients |-> Idle]
  /\ at \in InitialAddrs
  /\ cert \in InitialCerts
  /\ now = 0 /\ skew = 0 /\ runs = 0 /\ changes = 0

run(c) == \/ start(c) \/ resume_ticket(c) \/ forget(c)
          \/ handshake(c) \/ handshake_fails(c) \/ append_to_file(c)
          \/ finish(c) \/ save(c) \/ write_all(c) \/ write_owner_only(c) \/ killed(c)

environment == \/ \E a \in Range(resolved), s \in Servers \cup {Silent} : repoint(a, s)
               \/ \E s \in Servers, k \in Renewed : rotate(s, k)
               \/ touch \/ step_clock \/ edit_known_hosts \/ tick

Next == environment \/ \E c \in Clients : run(c)

Spec == Init /\ [][Next]_vars

-----------------------------------------------------------------------------
InUse == {c \in Clients : proc[c].pc \in {"active", "write", "rename"}}

\* Trust on first use: as long as the user leaves known_hosts alone, every
\* session in use under -T talks to the certificate on the first line of the
\* host, however the processes interleave; only a process that had found no
\* line at all may differ, and then its own certificate has a line too
\* (KnownHosts::lookup and append_to_file, across processes).
SessionsHonourPin ==
  \A c \in InUse : proc[c].mode = "tofu" /\ ~proc[c].edited =>
    \/ proc[c].peer = pinned_fingerprint(from_reader(known))
    \/ DOMAIN proc[c].view = {} /\ proc[c].peer \in Range(known)

\* The lock is taken "so we don't get duplicate or interleaved entries"
\* (known_hosts.rs:197): violated by two first contacts, which both found no line
\* before the handshake and both append after it, one after the other.
EntriesDistinct ==
  \A i, j \in DOMAIN known : i # j => known[i] # known[j]

\* What the published ticket file says about its blob is true of the blob,
\* although several processes write it in pieces at once; and a process that has
\* a pin offers 0-RTT only with a session of the pinned identity (save,
\* write_owner_only, load).
TicketsBound ==
  /\ ticket # NoTicket /\ ticket.ver # "legacy" => ticket.fp = ticket.blob.cert
  /\ \A c \in Clients : proc[c].offered # NoTicket /\ expected(c) # NoCert =>
       proc[c].offered.blob.cert = expected(c)

\* A ticket with a save time in its header is not offered once it is older
\* than the TTL, by more than the wall clock was stepped, however often the
\* file was touched (session_store::load, v2_timestamp_fresh).
TicketsExpire ==
  [][\A c \in Clients :
       proc[c].offered = NoTicket /\ proc'[c].offered # NoTicket /\ ticket.ver = "v2" =>
         now - ticket.blob.born <= TicketTtl + MaxSkew]_vars

\* The labels of a DNS name are covered by a pattern whose first label may be
\* a wildcard; an independent reading of RFC 6125 for the next property.
Covers(pattern, host) ==
  /\ Len(pattern) = Len(host)
  /\ \A i \in DOMAIN host : pattern[i] = host[i] \/ (i = 1 /\ Len(host) > 1 /\ pattern[i] = "*")

\* A session in use that relied on a CA is with a certificate that chains to
\* one and identifies the configured name: by its subjectAltName, or by its
\* CN when it has none (try_connect, cert_matches_hostname).
CaSessionsNamed ==
  \A c \in InUse : proc[c].mode = "ca" =>
    LET k == proc[c].peer  n == proc[c].name IN
    /\ k \in Chained
    /\ \/ /\ San[k].st = "present"
          /\ \E m \in San[k].names :
               m.kind = n.kind /\ IF n.kind = "dns" THEN Covers(m.v, n.v) ELSE m.v = n.v
       \/ San[k].st = "absent" /\ n.kind = "dns" /\ Covers(Cn[k], n.v)
=============================================================================
