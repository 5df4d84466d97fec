---------------------------- MODULE TrustProofs ----------------------------
(***************************************************************************)
(* Proofs about Trust, for any number of client processes, servers,        *)
(* addresses and certificates, and any times and clock steps.              *)
(***************************************************************************)
EXTENDS Trust, WellFoundedInduction, TLAPS

-----------------------------------------------------------------------------
(***************************************************************************)
(* The first entry of a known_hosts file.                                  *)
(***************************************************************************)

\* Any set of line numbers has a first one.
LEMMA Smallest ==
    ASSUME NEW T \in SUBSET Nat, T # {}
    PROVE  \E m \in T : \A n \in T : m <= n
<1>1. PICK R : R = OpToRel(<, Nat)
  OBVIOUS
<1>2. IsWellFoundedOn(R, Nat)
  BY <1>1, NatLessThanWellFounded
<1>3. PICK m \in T : \A n \in T : ~(<<n, m>> \in R)
  BY <1>2, WFMin
<1>4. \A n \in T : n < m => <<n, m>> \in R
  BY <1>1 DEF OpToRel
<1>5. \A n \in T : n \in Nat /\ m \in Nat /\ ~(n < m)
  BY <1>3, <1>4
<1>6. \A n \in T : m <= n
  BY <1>5
<1> QED
  BY <1>6

LEMMA MinIsSmallest ==
    ASSUME NEW T \in SUBSET Nat, T # {}
    PROVE  Min(T) \in T /\ \A n \in T : Min(T) <= n
BY Smallest DEF Min

\* Adding larger line numbers does not change the first one.
LEMMA MinKept ==
    ASSUME NEW S \in SUBSET Nat, NEW T \in SUBSET Nat, S # {}, S \subseteq T,
           \A t \in T \ S : \A n \in S : n <= t
    PROVE  Min(T) = Min(S)
<1>1. Min(S) \in S /\ \A n \in S : Min(S) <= n
  BY MinIsSmallest
<1>2. Min(T) \in T /\ \A n \in T : Min(T) <= n
  BY MinIsSmallest
<1>3. Min(S) \in Nat /\ Min(T) \in Nat /\ Min(T) <= Min(S)
  BY <1>1, <1>2
<1>4. Min(S) <= Min(T)
  BY <1>1, <1>2
<1> QED
  BY <1>3, <1>4

Line == Fingerprints \cup {Junk}

\* A line appended to a file that has an entry leaves the first entry first.
LEMMA AppendKeepsPin ==
    ASSUME NEW lines \in Seq(Line), NEW l \in Line, DOMAIN from_reader(lines) # {}
    PROVE  /\ DOMAIN from_reader(Append(lines, l)) # {}
           /\ pinned_fingerprint(from_reader(Append(lines, l)))
                = pinned_fingerprint(from_reader(lines))
<1> DEFINE S == DOMAIN from_reader(lines)
           T == DOMAIN from_reader(Append(lines, l))
<1>1. /\ \A i \in DOMAIN lines : i \in Nat /\ i <= Len(lines)
                                 /\ i \in DOMAIN Append(lines, l)
                                 /\ Append(lines, l)[i] = lines[i]
      /\ \A i \in DOMAIN Append(lines, l) : i \in Nat /\ (i \in DOMAIN lines \/ i = Len(lines) + 1)
      /\ Len(lines) \in Nat
  OBVIOUS
<1>2. /\ S = {n \in DOMAIN lines : lines[n] # Junk}
      /\ T = {n \in DOMAIN Append(lines, l) : Append(lines, l)[n] # Junk}
  BY DEF from_reader
<1>3. S \in SUBSET Nat /\ T \in SUBSET Nat /\ S \subseteq T /\ S # {} /\ T # {}
  BY <1>1, <1>2
<1>4. \A t \in T \ S : \A n \in S : n <= t
  BY <1>1, <1>2
<1>5. Min(T) = Min(S) /\ Min(S) \in S
  BY <1>3, <1>4, MinKept, MinIsSmallest
<1>6. \A n \in S : from_reader(Append(lines, l))[n] = from_reader(lines)[n]
  BY <1>1, <1>2, <1>3 DEF from_reader
<1> QED
  BY <1>3, <1>5, <1>6 DEF pinned_fingerprint

-----------------------------------------------------------------------------
(***************************************************************************)
(* Types.                                                                  *)
(***************************************************************************)

Pc == {"idle", "resume", "forget", "handshake", "append", "active", "write", "rename"}
Modes == {"tofu", "ca", "insecure"}
Entries == UNION {[D -> Fingerprints] : D \in SUBSET Nat}
Names == {l.name : l \in Launches} \cup {NoCert}

\* The names main accepts together with --ca.
Named(n) == n.kind = "ip" \/ (n.kind = "dns" /\ n.v \in Seq(STRING))

Fields ==
    [pc : Pc, mode : Modes, zero_rtt : BOOLEAN, name : Names, view : Entries,
     addr : DOMAIN resolved, offered : Ticket \cup {NoTicket}, peer : Fingerprints,
     server : Servers \cup {Silent}, edited : BOOLEAN]

Process == {p \in Fields : p.mode = "ca" => Named(p.name)}

TypeInv ==
    /\ known \in Seq(Line)
    /\ ticket \in Ticket \cup {NoTicket}
    /\ temps \in [Clients -> Ticket \cup {NoTicket}]
    /\ proc \in [Clients -> Process]
    /\ at \in [Range(resolved) -> Servers \cup {Silent}]
    /\ cert \in [Servers -> Certs]
    /\ now \in Nat
    /\ skew \in 0..MaxSkew

LEMMA EntriesType ==
    ASSUME NEW lines \in Seq(Line)
    PROVE  from_reader(lines) \in Entries /\ NoEntries \in Entries
<1>1. {n \in DOMAIN lines : lines[n] # Junk} \in SUBSET Nat
  OBVIOUS
<1>2. from_reader(lines) \in [{n \in DOMAIN lines : lines[n] # Junk} -> Fingerprints]
  BY DEF from_reader, Line
<1>3. NoEntries \in [{} -> Fingerprints]
  BY DEF NoEntries
<1> QED
  BY <1>1, <1>2, <1>3 DEF Entries

LEMMA IdleType == Idle \in Process
<1>1. 1 \in DOMAIN resolved
  BY TrustAssumption
<1>2. NoEntries \in Entries
  <2>1. <<>> \in Seq(Line)
    OBVIOUS
  <2> QED
    BY <2>1, EntriesType
<1> QED
  BY <1>1, <1>2 DEF Idle, Process, Fields, Pc, Modes, Names, Fingerprints

LEMMA ServerType ==
    ASSUME TypeInv, NEW c \in Clients
    PROVE  server(c) \in Servers \cup {Silent}
<1>1. proc[c].addr \in DOMAIN resolved
  BY DEF TypeInv, Process, Fields
<1>2. resolved[proc[c].addr] \in Range(resolved)
  BY <1>1 DEF Range
<1> QED
  BY <1>2 DEF TypeInv, server

LEMMA PresentedType ==
    ASSUME TypeInv, NEW c \in Clients
    PROVE  presented(c) \subseteq Fingerprints
<1>1. CASE server(c) = Silent
  BY <1>1 DEF presented
<1>2. CASE server(c) # Silent
  <2>1. cert[server(c)] \in Fingerprints
    BY <1>2, ServerType DEF TypeInv, Fingerprints
  <2>2. proc[c].offered # NoTicket => proc[c].offered.blob.cert \in Fingerprints
    BY DEF TypeInv, Process, Fields, Ticket
  <2> QED
    BY <1>2, <2>1, <2>2 DEF presented
<1> QED
  BY <1>1, <1>2

\* The updates the steps of a process make stay within the type.
LEMMA ProcessUpdates ==
    ASSUME NEW p \in Process
    PROVE  /\ \A q \in Pc : [p EXCEPT !.pc = q] \in Process
           /\ \A q \in Pc, t \in Ticket :
                [p EXCEPT !.pc = q, !.offered = t] \in Process
           /\ \A q \in Pc, a \in DOMAIN resolved :
                [p EXCEPT !.pc = q, !.addr = a, !.offered = NoTicket] \in Process
           /\ \A q \in Pc, k \in Fingerprints, s \in Servers \cup {Silent}, a \in DOMAIN resolved :
                [p EXCEPT !.pc = q, !.peer = k, !.server = s, !.addr = a, !.offered = NoTicket]
                  \in Process
           /\ \A q \in Pc, m \in Modes, z \in BOOLEAN, n \in Names, v \in Entries :
                (m = "ca" => Named(n)) =>
                [p EXCEPT !.pc = q, !.mode = m, !.zero_rtt = z, !.name = n, !.view = v] \in Process
           /\ \A b \in BOOLEAN : [p EXCEPT !.edited = b] \in Process
BY DEF Process, Fields

LEMMA BecomeType ==
    ASSUME TypeInv, NEW c \in Clients, NEW p \in Process, become(c, p)
    PROVE  proc' \in [Clients -> Process]
BY DEF TypeInv, become

\* The three outcomes of the pin check.
LEMMA CheckedForm ==
    ASSUME NEW c, NEW k
    PROVE  \/ /\ proc[c].mode # "tofu" \/ lookup(proc[c].view, k) = "Match"
              /\ checked(c, k) = established(c, k, "active")
           \/ /\ proc[c].mode = "tofu" /\ lookup(proc[c].view, k) = "New"
              /\ checked(c, k) = established(c, k, "append")
           \/ checked(c, k) = Idle
<1>1. lookup(proc[c].view, k) \in {"New", "Match", "Mismatch"}
  BY DEF lookup
<1>2. CASE proc[c].mode # "tofu" \/ lookup(proc[c].view, k) = "Match"
  BY <1>2 DEF checked
<1>3. CASE proc[c].mode = "tofu" /\ lookup(proc[c].view, k) = "New"
  BY <1>3 DEF checked
<1>4. CASE proc[c].mode = "tofu" /\ lookup(proc[c].view, k) = "Mismatch"
  BY <1>4 DEF checked
<1> QED
  BY <1>1, <1>2, <1>3, <1>4

\* The next address is one that was resolved.
LEMMA NextAddressForm ==
    ASSUME TypeInv, NEW c \in Clients, next_address(c)
    PROVE  \/ become(c, Idle)
           \/ /\ proc[c].addr + 1 \in DOMAIN resolved
              /\ become(c, [proc[c] EXCEPT !.pc = "resume", !.addr = proc[c].addr + 1,
                                           !.offered = NoTicket])
<1>1. proc[c].addr \in DOMAIN resolved
  BY DEF TypeInv, Process, Fields
<1>2. CASE proc[c].addr < Len(resolved)
  <2>1. proc[c].addr + 1 \in DOMAIN resolved
    BY <1>1, <1>2, TrustAssumption
  <2>2. become(c, [proc[c] EXCEPT !.pc = "resume", !.addr = proc[c].addr + 1,
                                  !.offered = NoTicket])
    BY <1>2 DEF next_address, become
  <2> QED
    BY <2>1, <2>2
<1>3. CASE ~(proc[c].addr < Len(resolved))
  BY <1>3 DEF next_address, become
<1> QED
  BY <1>2, <1>3

\* What a completed handshake can lead to, and under which checks.
LEMMA HandshakeForm ==
    ASSUME TypeInv, NEW c \in Clients, handshake(c)
    PROVE  /\ UNCHANGED <<files, world, runs>>
           /\ \/ next_address(c)
              \/ become(c, Idle)
              \/ \E k \in presented(c) :
                   /\ proc[c].mode = "ca" => k \in Chained /\ cert_matches_hostname(k, proc[c].name)
                   /\ proc[c].mode = "tofu" => lookup(proc[c].view, k) = "Match"
                   /\ become(c, established(c, k, "active"))
              \/ \E k \in presented(c) :
                   /\ proc[c].mode = "tofu" /\ lookup(proc[c].view, k) = "New"
                   /\ become(c, established(c, k, "append"))
<1>1. PICK k \in presented(c) :
        /\ proc[c].mode = "ca" => k \in Chained
        /\ IF proc[c].mode = "ca" /\ ~cert_matches_hostname(k, proc[c].name)
           THEN next_address(c)
           ELSE become(c, checked(c, k))
  BY DEF handshake
<1>2. UNCHANGED <<files, world, runs>>
  BY DEF handshake
<1>3. CASE proc[c].mode = "ca" /\ ~cert_matches_hostname(k, proc[c].name)
  BY <1>1, <1>2, <1>3
<1>4. CASE ~(proc[c].mode = "ca" /\ ~cert_matches_hostname(k, proc[c].name))
  <2>1. become(c, checked(c, k))
    BY <1>1, <1>4
  <2> QED
    BY <1>1, <1>2, <1>4, <2>1, CheckedForm
<1> QED
  BY <1>3, <1>4

-----------------------------------------------------------------------------
(***************************************************************************)
(* The invariant, as four conditions on each process and one on the ticket *)
(* file.  Only the process itself writes its temp file, and known_hosts    *)
(* only grows while the user leaves it alone.                              *)
(***************************************************************************)

Using == {"active", "write", "rename"}

\* The temp file of process p holds t, and n is the time.
TempsTruthful(p, t, n) ==
    /\ p.pc = "write" => t \in Ticket /\ t.ver = "v2" /\ t.fp = p.peer /\ t.saved <= n + MaxSkew
    /\ p.pc = "rename" => t \in Ticket /\ truthful(t)

OffersBound(p) ==
    p.offered # NoTicket =>
      /\ p.pc = "handshake"
      /\ pinned_fingerprint(p.view) # NoCert => p.offered.blob.cert = pinned_fingerprint(p.view)

NameChecked(p) ==
    /\ p.pc = "append" => p.mode = "tofu"
    /\ p.pc \in Using /\ p.mode = "ca" =>
         p.peer \in Chained /\ cert_matches_hostname(p.peer, p.name)

\* known_hosts holds lines.
PinHolds(p, lines) ==
    p.mode = "tofu" /\ ~p.edited /\ p.pc # "idle" =>
      /\ DOMAIN p.view # {} => /\ DOMAIN from_reader(lines) # {}
                               /\ pinned_fingerprint(p.view) = pinned_fingerprint(from_reader(lines))
      /\ p.pc = "append" => DOMAIN p.view = {}
      /\ p.pc \in Using => IF DOMAIN p.view = {} THEN p.peer \in Range(lines)
                                                 ELSE p.peer = pinned_fingerprint(p.view)

ProcessOK(p, t, n, lines) == /\ TempsTruthful(p, t, n) /\ OffersBound(p)
                             /\ NameChecked(p) /\ PinHolds(p, lines)

TrustInv == /\ TypeInv
            /\ ticket # NoTicket => truthful(ticket)
            /\ \A c \in Clients : ProcessOK(proc[c], temps[c], now, known)

LEMMA IdleOK == ASSUME NEW t, NEW n, NEW lines PROVE ProcessOK(Idle, t, n, lines)
BY DEF ProcessOK, Idle, TempsTruthful, OffersBound, NameChecked, PinHolds, Using

\* A step of one process that leaves known_hosts alone is right when the
\* process it becomes is, and the ticket file it leaves.
LEMMA OneProcess ==
    ASSUME TrustInv, NEW c \in Clients, NEW p \in Process, become(c, p),
           NEW t \in Ticket \cup {NoTicket}, temps' = [temps EXCEPT ![c] = t],
           ticket' \in Ticket \cup {NoTicket}, ticket' # NoTicket => truthful(ticket'),
           UNCHANGED <<known, at, cert, now, skew>>,
           ProcessOK(p, t, now, known)
    PROVE  TrustInv'
<1>1. TypeInv
  BY DEF TrustInv
<1>2. TypeInv'
  BY <1>1, BecomeType DEF TypeInv
<1>3. /\ proc'[c] = p /\ temps'[c] = t
      /\ \A d \in Clients \ {c} : proc'[d] = proc[d] /\ temps'[d] = temps[d]
  BY <1>1 DEF TypeInv, become
<1>4. \A d \in Clients : ProcessOK(proc'[d], temps'[d], now', known')
  BY <1>3 DEF TrustInv
<1> QED
  BY <1>2, <1>4 DEF TrustInv

\* The same for a step that touches no file at all.
LEMMA OneProcessOnly ==
    ASSUME TrustInv, NEW c \in Clients, NEW p \in Process, become(c, p),
           UNCHANGED <<files, world>>, ProcessOK(p, temps[c], now, known)
    PROVE  TrustInv'
<1>1. /\ temps' = [temps EXCEPT ![c] = temps[c]] /\ temps[c] \in Ticket \cup {NoTicket}
      /\ ticket' \in Ticket \cup {NoTicket} /\ (ticket' # NoTicket => truthful(ticket'))
      /\ UNCHANGED <<known, at, cert, now, skew>>
  BY DEF TrustInv, TypeInv, files, world
<1> QED
  BY <1>1, OneProcess

LEMMA InitTrust == Init => TrustInv
<1> SUFFICES ASSUME Init PROVE TrustInv
  OBVIOUS
<1>1. TypeInv
  BY IdleType, TrustAssumption DEF Init, TypeInv, Line
<1>2. ticket # NoTicket => truthful(ticket)
  BY TrustAssumption DEF Init
<1>3. \A c \in Clients : ProcessOK(proc[c], temps[c], now, known)
  BY IdleOK DEF Init
<1> QED
  BY <1>1, <1>2, <1>3 DEF TrustInv

LEMMA StartTrust ==
    ASSUME TrustInv, NEW c \in Clients, start(c)
    PROVE  TrustInv'
<1>1. PICK p \in Process : p = proc[c]
  BY DEF TrustInv, TypeInv
<1>2. PICK l \in Launches :
        become(c, [proc[c] EXCEPT
                     !.pc = "resume", !.mode = l.mode, !.zero_rtt = l.zero_rtt, !.name = l.name,
                     !.view = IF l.mode = "tofu" THEN from_reader(known) ELSE NoEntries])
  BY DEF start
<1>3. PICK v \in Entries : v = IF l.mode = "tofu" THEN from_reader(known) ELSE NoEntries
  BY EntriesType DEF TrustInv, TypeInv
<1>4. /\ l.mode \in Modes /\ l.zero_rtt \in BOOLEAN /\ l.name \in Names
      /\ l.mode = "ca" => Named(l.name)
  <2>1. l.mode \in Modes /\ l.zero_rtt \in BOOLEAN /\ l.name \in Names
    BY TrustAssumption DEF Modes, Names
  <2>2. l.mode = "ca" => l.name.kind = "ip" \/ (l.name.kind = "dns" /\ l.name.v \in Seq(STRING))
    BY TrustAssumption
  <2> QED
    BY <2>1, <2>2 DEF Named
<1>5. PICK q : q = [p EXCEPT !.pc = "resume", !.mode = l.mode, !.zero_rtt = l.zero_rtt,
                             !.name = l.name, !.view = v]
  OBVIOUS
<1>6. q \in Process
  BY <1>4, <1>5, ProcessUpdates DEF Pc
<1>7. /\ q.pc = "resume" /\ q.mode = l.mode /\ q.view = v /\ q.offered = p.offered
  BY <1>5 DEF Process, Fields
<1>8. p.offered = NoTicket
  BY <1>1 DEF TrustInv, ProcessOK, OffersBound, start
<1>9. ProcessOK(q, temps[c], now, known)
  <2>1. TempsTruthful(q, temps[c], now) /\ OffersBound(q) /\ NameChecked(q)
    BY <1>7, <1>8 DEF TempsTruthful, OffersBound, NameChecked, Using
  <2>2. PinHolds(q, known)
    BY <1>3, <1>7 DEF PinHolds, Using
  <2> QED
    BY <2>1, <2>2 DEF ProcessOK
<1>10. become(c, q)
  BY <1>1, <1>2, <1>3, <1>5
<1>11. UNCHANGED <<files, world>>
  BY DEF start
<1> QED
  BY <1>6, <1>9, <1>10, <1>11, OneProcessOnly

\* A process that moves to a place where nothing is asked of it.
LEMMA MovesOn ==
    ASSUME TrustInv, NEW c \in Clients, NEW q \in {"resume", "handshake", "forget"},
           proc[c].pc # "idle", proc[c].offered = NoTicket
    PROVE  /\ [proc[c] EXCEPT !.pc = q] \in Process
           /\ ProcessOK([proc[c] EXCEPT !.pc = q], temps[c], now, known)
<1>1. PICK p \in Process : p = proc[c]
  BY DEF TrustInv, TypeInv
<1>2. PICK r : r = [p EXCEPT !.pc = q]
  OBVIOUS
<1>3. /\ r.pc = q /\ r.mode = p.mode /\ r.view = p.view /\ r.offered = NoTicket
      /\ r.edited = p.edited
  BY <1>1, <1>2 DEF Process, Fields
<1>4. r \in Process
  BY <1>2, ProcessUpdates DEF Pc
<1>5. ProcessOK(p, temps[c], now, known)
  BY <1>1 DEF TrustInv
<1>6. PinHolds(r, known)
  BY <1>1, <1>3, <1>5 DEF ProcessOK, PinHolds, Using
<1>7. TempsTruthful(r, temps[c], now) /\ OffersBound(r) /\ NameChecked(r)
  BY <1>3 DEF TempsTruthful, OffersBound, NameChecked, Using
<1> QED
  BY <1>1, <1>2, <1>4, <1>6, <1>7 DEF ProcessOK

LEMMA ResumeTrust ==
    ASSUME TrustInv, NEW c \in Clients, resume_ticket(c)
    PROVE  TrustInv'
<1>1. PICK p \in Process : p = proc[c]
  BY DEF TrustInv, TypeInv
<1>2. /\ p.pc = "resume" /\ UNCHANGED <<files, world>> /\ ProcessOK(p, temps[c], now, known)
      /\ p.offered = NoTicket
  BY <1>1 DEF TrustInv, ProcessOK, OffersBound, resume_ticket
<1>3. CASE become(c, [proc[c] EXCEPT !.pc = "handshake"])
           \/ become(c, [proc[c] EXCEPT !.pc = "forget"])
  BY <1>1, <1>2, <1>3, MovesOn, OneProcessOnly
<1>4. CASE /\ ticket # NoTicket /\ loadable(ticket, expected(c))
           /\ become(c, [proc[c] EXCEPT !.pc = "handshake", !.offered = ticket])
  <2>1. PICK r : r = [p EXCEPT !.pc = "handshake", !.offered = ticket]
    OBVIOUS
  <2>2. ticket \in Ticket /\ truthful(ticket)
    BY <1>4 DEF TrustInv, TypeInv
  <2>3. r \in Process
    BY <2>1, <2>2, ProcessUpdates DEF Pc
  <2>4. /\ r.pc = "handshake" /\ r.mode = p.mode /\ r.view = p.view /\ r.offered = ticket
        /\ r.edited = p.edited
    BY <2>1 DEF Process, Fields
  <2>5. OffersBound(r)
    <3>1. ASSUME pinned_fingerprint(p.view) # NoCert
          PROVE  ticket.blob.cert = pinned_fingerprint(p.view)
      BY <1>1, <1>4, <2>2, <3>1 DEF loadable, expected, truthful
    <3> QED
      BY <2>4, <3>1 DEF OffersBound
  <2>6. PinHolds(r, known)
    BY <1>2, <2>4 DEF ProcessOK, PinHolds, Using
  <2>7. TempsTruthful(r, temps[c], now) /\ NameChecked(r)
    BY <2>4 DEF TempsTruthful, NameChecked, Using
  <2>8. ProcessOK(r, temps[c], now, known) /\ become(c, r)
    BY <1>1, <1>4, <2>1, <2>5, <2>6, <2>7 DEF ProcessOK
  <2> QED
    BY <1>2, <2>3, <2>8, OneProcessOnly
<1> QED
  BY <1>3, <1>4 DEF resume_ticket

LEMMA ForgetTrust ==
    ASSUME TrustInv, NEW c \in Clients, forget(c)
    PROVE  TrustInv'
<1>1. proc[c].offered = NoTicket /\ proc[c].pc # "idle"
  BY DEF TrustInv, ProcessOK, OffersBound, forget
<1>2. PICK p : p = [proc[c] EXCEPT !.pc = "handshake"]
  OBVIOUS
<1>3. p \in Process /\ ProcessOK(p, temps[c], now, known) /\ become(c, p)
  BY <1>1, <1>2, MovesOn DEF forget
<1>4. /\ temps' = [temps EXCEPT ![c] = temps[c]] /\ temps[c] \in Ticket \cup {NoTicket}
      /\ ticket' = NoTicket /\ UNCHANGED <<known, at, cert, now, skew>>
  BY DEF TrustInv, TypeInv, forget, world
<1> QED
  BY <1>3, <1>4, OneProcess

\* A process that gives up or is done.
LEMMA EndTrust ==
    ASSUME TrustInv, NEW c \in Clients, become(c, Idle), UNCHANGED <<files, world>>
    PROVE  TrustInv'
BY IdleType, IdleOK, OneProcessOnly

LEMMA NextAddressTrust ==
    ASSUME TrustInv, NEW c \in Clients, proc[c].pc = "handshake", next_address(c),
           UNCHANGED <<files, world>>
    PROVE  TrustInv'
<1>1. PICK p \in Process : p = proc[c]
  BY DEF TrustInv, TypeInv
<1>2. TypeInv /\ ProcessOK(p, temps[c], now, known)
  BY <1>1 DEF TrustInv
<1>3. CASE become(c, Idle)
  BY <1>3, EndTrust
<1>4. CASE /\ p.addr + 1 \in DOMAIN resolved
           /\ become(c, [p EXCEPT !.pc = "resume", !.addr = p.addr + 1, !.offered = NoTicket])
  <2>1. PICK r : r = [p EXCEPT !.pc = "resume", !.addr = p.addr + 1, !.offered = NoTicket]
    OBVIOUS
  <2>2. r \in Process
    BY <1>4, <2>1, ProcessUpdates DEF Pc
  <2>3. /\ r.pc = "resume" /\ r.mode = p.mode /\ r.view = p.view /\ r.offered = NoTicket
        /\ r.edited = p.edited
    BY <2>1 DEF Process, Fields
  <2>4. PinHolds(r, known)
    BY <1>1, <1>2, <2>3 DEF ProcessOK, PinHolds, Using
  <2>5. TempsTruthful(r, temps[c], now) /\ OffersBound(r) /\ NameChecked(r)
    BY <2>3 DEF TempsTruthful, OffersBound, NameChecked, Using
  <2> QED
    BY <1>4, <2>1, <2>2, <2>4, <2>5, OneProcessOnly DEF ProcessOK
<1> QED
  BY <1>1, <1>2, <1>3, <1>4, NextAddressForm

\* The session that begins has passed the checks its mode asks for.
LEMMA EstablishedTrust ==
    ASSUME TrustInv, NEW c \in Clients, NEW k \in presented(c), NEW q \in {"active", "append"},
           proc[c].pc = "handshake",
           q = "active" /\ proc[c].mode = "ca" =>
             k \in Chained /\ cert_matches_hostname(k, proc[c].name),
           q = "active" /\ proc[c].mode = "tofu" => lookup(proc[c].view, k) = "Match",
           q = "append" => proc[c].mode = "tofu" /\ lookup(proc[c].view, k) = "New",
           become(c, established(c, k, q)), UNCHANGED <<files, world>>
    PROVE  TrustInv'
<1>1. PICK p \in Process : p = proc[c]
  BY DEF TrustInv, TypeInv
<1>2. TypeInv /\ ProcessOK(p, temps[c], now, known)
  BY <1>1 DEF TrustInv
<1>3. PICK r : r = [p EXCEPT !.pc = q, !.peer = k, !.server = server(c), !.addr = 1,
                             !.offered = NoTicket]
  OBVIOUS
<1>4. become(c, r)
  BY <1>1, <1>3 DEF established
<1>5. r \in Process
  <2>1. k \in Fingerprints /\ server(c) \in Servers \cup {Silent} /\ 1 \in DOMAIN resolved
    BY <1>2, PresentedType, ServerType, TrustAssumption
  <2> QED
    BY <1>3, <2>1, ProcessUpdates DEF Pc
<1>6. /\ r.pc = q /\ r.mode = p.mode /\ r.view = p.view /\ r.offered = NoTicket
      /\ r.edited = p.edited /\ r.peer = k /\ r.name = p.name
  BY <1>3 DEF Process, Fields
<1>7. PinHolds(r, known)
  <2>1. q = "append" => DOMAIN p.view = {}
    BY <1>1 DEF lookup
  <2>2. q = "active" /\ p.mode = "tofu" => DOMAIN p.view # {} /\ k = pinned_fingerprint(p.view)
    BY <1>1 DEF lookup, pinned_fingerprint
  <2> QED
    BY <1>1, <1>2, <1>6, <2>1, <2>2 DEF ProcessOK, PinHolds, Using
<1>8. TempsTruthful(r, temps[c], now) /\ OffersBound(r)
  BY <1>6 DEF TempsTruthful, OffersBound
<1>9. NameChecked(r)
  BY <1>1, <1>6 DEF NameChecked, Using
<1> QED
  BY <1>4, <1>5, <1>7, <1>8, <1>9, OneProcessOnly DEF ProcessOK

LEMMA HandshakeTrust ==
    ASSUME TrustInv, NEW c \in Clients, handshake(c)
    PROVE  TrustInv'
<1>1. TypeInv /\ proc[c].pc = "handshake" /\ UNCHANGED <<files, world>>
  BY DEF TrustInv, handshake
<1>2. CASE next_address(c)
  BY <1>1, <1>2, NextAddressTrust
<1>3. CASE become(c, Idle)
  BY <1>1, <1>3, EndTrust
<1>4. ASSUME NEW k \in presented(c),
             proc[c].mode = "ca" => k \in Chained /\ cert_matches_hostname(k, proc[c].name),
             proc[c].mode = "tofu" => lookup(proc[c].view, k) = "Match",
             become(c, established(c, k, "active"))
      PROVE  TrustInv'
  BY <1>1, <1>4, EstablishedTrust
<1>5. ASSUME NEW k \in presented(c), proc[c].mode = "tofu", lookup(proc[c].view, k) = "New",
             become(c, established(c, k, "append"))
      PROVE  TrustInv'
  BY <1>1, <1>5, EstablishedTrust
<1> QED
  BY <1>1, <1>2, <1>3, <1>4, <1>5, HandshakeForm

\* Appending keeps every pin, and gives the process that appends its line.
LEMMA AppendTrust ==
    ASSUME TrustInv, NEW c \in Clients, append_to_file(c)
    PROVE  TrustInv'
<1>1. PICK p \in Process : p = proc[c]
  BY DEF TrustInv, TypeInv
<1>2. /\ known' = Append(known, p.peer) /\ p.pc = "append"
      /\ become(c, [p EXCEPT !.pc = "active"])
      /\ UNCHANGED <<ticket, temps, at, cert, now, skew>>
      /\ known \in Seq(Line) /\ p.peer \in Line /\ TypeInv
  BY <1>1 DEF append_to_file, world, TrustInv, TypeInv, Process, Fields, Line
<1>3. PICK r : r = [p EXCEPT !.pc = "active"]
  OBVIOUS
<1>4. r \in Process
  BY <1>3, ProcessUpdates DEF Pc
<1>5. /\ r.pc = "active" /\ r.mode = p.mode /\ r.view = p.view /\ r.offered = p.offered
      /\ r.edited = p.edited /\ r.peer = p.peer
  BY <1>3 DEF Process, Fields
<1>6. p.peer \in Range(known')
  <2>1. Len(known) + 1 \in DOMAIN known' /\ known'[Len(known) + 1] = p.peer
    BY <1>2
  <2> QED
    BY <2>1 DEF Range
<1>7. \A x \in Range(known) : x \in Range(known')
  <2>1. \A i \in DOMAIN known : i \in DOMAIN known' /\ known'[i] = known[i]
    BY <1>2
  <2> QED
    BY <2>1 DEF Range
<1>8. DOMAIN from_reader(known) # {} =>
        /\ DOMAIN from_reader(known') # {}
        /\ pinned_fingerprint(from_reader(known')) = pinned_fingerprint(from_reader(known))
  BY <1>2, AppendKeepsPin
<1>9. \A d \in Clients : PinHolds(proc[d], known) => PinHolds(proc[d], known')
  BY <1>7, <1>8 DEF PinHolds
<1>10. ProcessOK(p, temps[c], now, known)
  BY <1>1 DEF TrustInv
<1>11. ProcessOK(r, temps[c], now, known')
  <2>1. PinHolds(r, known')
    BY <1>2, <1>5, <1>6, <1>8, <1>10 DEF ProcessOK, PinHolds, Using
  <2>2. TempsTruthful(r, temps[c], now) /\ OffersBound(r) /\ NameChecked(r)
    BY <1>2, <1>5, <1>10 DEF ProcessOK, TempsTruthful, OffersBound, NameChecked, Using
  <2> QED
    BY <2>1, <2>2 DEF ProcessOK
<1>12. proc'[c] = r /\ \A d \in Clients \ {c} : proc'[d] = proc[d]
  BY <1>2, <1>3 DEF become, TypeInv
<1>13. \A d \in Clients : ProcessOK(proc'[d], temps'[d], now', known')
  BY <1>2, <1>9, <1>11, <1>12 DEF TrustInv, ProcessOK
<1>14. known' \in Seq(Line)
  BY <1>2
<1>15. TypeInv'
  BY <1>2, <1>3, <1>4, <1>14, BecomeType DEF TypeInv
<1> QED
  BY <1>2, <1>13, <1>15 DEF TrustInv

LEMMA SaveTrust ==
    ASSUME TrustInv, NEW c \in Clients, save(c)
    PROVE  TrustInv'
<1>1. PICK p \in Process : p = proc[c]
  BY DEF TrustInv, TypeInv
<1>2. PICK t : t = [ver |-> "v2", saved |-> wall, mtime |-> wall, fp |-> p.peer,
                    blob |-> [issuer |-> Silent, cert |-> NoCert, born |-> now]]
  OBVIOUS
<1>3. /\ p.pc = "active" /\ temps' = [temps EXCEPT ![c] = t]
      /\ become(c, [p EXCEPT !.pc = "write"])
      /\ UNCHANGED <<known, ticket, at, cert, now, skew>>
  BY <1>1, <1>2 DEF save, temp_name, world
<1>4. wall \in Int /\ wall <= now + MaxSkew /\ now \in Int /\ p.peer \in Fingerprints
  BY TrustAssumption DEF wall, TrustInv, TypeInv, Process, Fields
<1>5. t \in Ticket /\ t.ver = "v2" /\ t.fp = p.peer /\ t.saved <= now + MaxSkew
  BY <1>2, <1>4 DEF Ticket, Fingerprints
<1>6. PICK r : r = [p EXCEPT !.pc = "write"]
  OBVIOUS
<1>7. r \in Process
  BY <1>6, ProcessUpdates DEF Pc
<1>8. /\ r.pc = "write" /\ r.mode = p.mode /\ r.view = p.view /\ r.offered = p.offered
      /\ r.edited = p.edited /\ r.peer = p.peer /\ r.name = p.name
  BY <1>6 DEF Process, Fields
<1>9. ProcessOK(p, temps[c], now, known)
  BY <1>1 DEF TrustInv
<1>10. TempsTruthful(r, t, now)
  BY <1>5, <1>8 DEF TempsTruthful
<1>11. OffersBound(r) /\ NameChecked(r) /\ PinHolds(r, known)
  BY <1>3, <1>8, <1>9 DEF ProcessOK, OffersBound, NameChecked, PinHolds, Using
<1>12. ticket' \in Ticket \cup {NoTicket} /\ (ticket' # NoTicket => truthful(ticket'))
  BY <1>3 DEF TrustInv, TypeInv
<1> QED
  BY <1>3, <1>5, <1>6, <1>7, <1>10, <1>11, <1>12, OneProcess DEF ProcessOK

LEMMA WriteTrust ==
    ASSUME TrustInv, NEW c \in Clients, write_all(c)
    PROVE  TrustInv'
<1>1. PICK p \in Process : p = proc[c]
  BY DEF TrustInv, TypeInv
<1>2. ProcessOK(p, temps[c], now, known) /\ p.pc = "write"
  BY <1>1 DEF TrustInv, write_all
<1>3. PICK t \in Ticket : t = temps[c]
  BY <1>2 DEF ProcessOK, TempsTruthful
<1>4. t.ver = "v2" /\ t.fp = p.peer /\ t.saved <= now + MaxSkew
  BY <1>2, <1>3 DEF ProcessOK, TempsTruthful
<1>5. PICK b : b = [issuer |-> p.server, cert |-> p.peer, born |-> now]
  OBVIOUS
<1>6. PICK u : u = [t EXCEPT !.blob = b, !.mtime = wall]
  OBVIOUS
<1>7. /\ temps' = [temps EXCEPT ![c].blob = b, ![c].mtime = wall]
      /\ become(c, [p EXCEPT !.pc = "rename"])
      /\ UNCHANGED <<known, ticket, at, cert, now, skew>>
  BY <1>1, <1>5 DEF write_all, temp_name, world
<1>8. temps' = [temps EXCEPT ![c] = [temps[c] EXCEPT !.blob = b, !.mtime = wall]]
  BY <1>7, Zenon
<1>9. temps' = [temps EXCEPT ![c] = u]
  BY <1>3, <1>6, <1>8
<1>10. /\ wall \in Int /\ now \in Int /\ p.peer \in Fingerprints
       /\ p.server \in Servers \cup {Silent}
  BY TrustAssumption DEF wall, TrustInv, TypeInv, Process, Fields
<1>11. u \in Ticket /\ u.ver = "v2" /\ u.fp = p.peer /\ u.saved = t.saved /\ u.blob = b
  BY <1>4, <1>5, <1>6, <1>10 DEF Ticket
<1>12. truthful(u)
  BY <1>4, <1>5, <1>11 DEF truthful
<1>13. PICK r : r = [p EXCEPT !.pc = "rename"]
  OBVIOUS
<1>14. r \in Process
  BY <1>13, ProcessUpdates DEF Pc
<1>15. /\ r.pc = "rename" /\ r.mode = p.mode /\ r.view = p.view /\ r.offered = p.offered
       /\ r.edited = p.edited /\ r.peer = p.peer /\ r.name = p.name
  BY <1>13 DEF Process, Fields
<1>16. TempsTruthful(r, u, now)
  BY <1>11, <1>12, <1>15 DEF TempsTruthful
<1>17. OffersBound(r) /\ NameChecked(r) /\ PinHolds(r, known)
  BY <1>2, <1>15 DEF ProcessOK, OffersBound, NameChecked, PinHolds, Using
<1>18. ticket' \in Ticket \cup {NoTicket} /\ (ticket' # NoTicket => truthful(ticket'))
  BY <1>7 DEF TrustInv, TypeInv
<1> QED
  BY <1>7, <1>9, <1>11, <1>13, <1>14, <1>16, <1>17, <1>18, OneProcess DEF ProcessOK

LEMMA RenameTrust ==
    ASSUME TrustInv, NEW c \in Clients, write_owner_only(c)
    PROVE  TrustInv'
<1>1. temps[c] \in Ticket /\ truthful(temps[c])
  BY DEF TrustInv, ProcessOK, TempsTruthful, write_owner_only
<1>2. ticket' = ticket \/ ticket' = temps[c]
  BY DEF write_owner_only, temp_name
<1>3. ticket' \in Ticket \cup {NoTicket} /\ (ticket' # NoTicket => truthful(ticket'))
  BY <1>1, <1>2 DEF TrustInv, TypeInv
<1>4. temps' = [temps EXCEPT ![c] = NoTicket] /\ become(c, Idle)
      /\ UNCHANGED <<known, at, cert, now, skew>>
  BY DEF write_owner_only, temp_name, world
<1> QED
  BY <1>3, <1>4, IdleType, IdleOK, OneProcess

LEMMA EditTrust == ASSUME TrustInv, edit_known_hosts PROVE TrustInv'
<1>1. /\ known' = <<>> /\ UNCHANGED <<ticket, temps, at, cert, now, skew>>
      /\ proc' = [c \in Clients |-> [proc[c] EXCEPT !.edited = @ \/ proc[c].pc # "idle"]]
  BY DEF edit_known_hosts
<1>2. ASSUME NEW c \in Clients
      PROVE  proc'[c] \in Process /\ ProcessOK(proc'[c], temps[c], now, <<>>)
  <2>1. PICK p \in Process : p = proc[c]
    BY DEF TrustInv, TypeInv
  <2>2. PICK b \in BOOLEAN : b = (p.edited \/ p.pc # "idle")
    OBVIOUS
  <2>3. proc'[c] = [p EXCEPT !.edited = b]
    BY <1>1, <2>1, <2>2
  <2>4. PICK r : r = [p EXCEPT !.edited = b]
    OBVIOUS
  <2>5. /\ r.pc = p.pc /\ r.mode = p.mode /\ r.view = p.view /\ r.offered = p.offered
        /\ r.edited = b /\ r.peer = p.peer /\ r.name = p.name
    BY <2>4 DEF Process, Fields
  <2>6. r \in Process
    BY <2>4, ProcessUpdates
  <2>7. ProcessOK(p, temps[c], now, known)
    BY <2>1 DEF TrustInv
  <2>8. TempsTruthful(r, temps[c], now) /\ OffersBound(r) /\ NameChecked(r)
    BY <2>5, <2>7 DEF ProcessOK, TempsTruthful, OffersBound, NameChecked
  <2>9. PinHolds(r, <<>>)
    BY <2>2, <2>5 DEF PinHolds
  <2> QED
    BY <2>3, <2>4, <2>6, <2>8, <2>9 DEF ProcessOK
<1>3. known' \in Seq(Line) /\ proc' \in [Clients -> Process]
  BY <1>1, <1>2
<1>4. TypeInv'
  BY <1>1, <1>3 DEF TrustInv, TypeInv
<1> QED
  BY <1>1, <1>2, <1>4 DEF TrustInv

LEMMA TouchTrust == ASSUME TrustInv, touch PROVE TrustInv'
<1>1. /\ ticket # NoTicket /\ ticket' = [ticket EXCEPT !.mtime = wall]
      /\ UNCHANGED <<known, temps, proc, at, cert, now, skew>>
  BY DEF touch
<1>2. PICK t \in Ticket : t = ticket /\ truthful(t)
  BY <1>1 DEF TrustInv, TypeInv
<1>3. wall \in Int
  BY TrustAssumption DEF wall, TrustInv, TypeInv
<1>4. ticket' = [t EXCEPT !.mtime = wall]
  BY <1>1, <1>2
<1>5. /\ ticket' \in Ticket /\ ticket'.ver = t.ver /\ ticket'.fp = t.fp
      /\ ticket'.blob = t.blob /\ ticket'.saved = t.saved
  BY <1>3, <1>4 DEF Ticket
<1>6. truthful(ticket')
  BY <1>2, <1>5 DEF truthful
<1> QED
  BY <1>1, <1>5, <1>6 DEF TrustInv, TypeInv

LEMMA TickTrust == ASSUME TrustInv, tick PROVE TrustInv'
<1>1. now' = now + 1 /\ now \in Nat /\ UNCHANGED <<known, ticket, temps, proc, at, cert, skew>>
  BY DEF tick, files, TrustInv, TypeInv
<1>2. ASSUME NEW c \in Clients PROVE TempsTruthful(proc[c], temps[c], now')
  <2>1. TempsTruthful(proc[c], temps[c], now)
    BY DEF TrustInv, ProcessOK
  <2>2. temps[c] \in Ticket => temps[c].saved \in Int
    BY DEF Ticket
  <2> QED
    BY <1>1, <2>1, <2>2, TrustAssumption DEF TempsTruthful
<1>3. \A c \in Clients : ProcessOK(proc[c], temps[c], now', known)
  BY <1>2 DEF TrustInv, ProcessOK
<1>4. TypeInv'
  BY <1>1 DEF TrustInv, TypeInv
<1> QED
  BY <1>1, <1>3, <1>4 DEF TrustInv

LEMMA WorldTrust ==
    ASSUME TrustInv,
           \/ \E a \in Range(resolved), s \in Servers \cup {Silent} : repoint(a, s)
           \/ \E s \in Servers, k \in Renewed : rotate(s, k)
           \/ step_clock
    PROVE  TrustInv'
<1>1. UNCHANGED <<known, ticket, temps, proc, now>>
  BY DEF repoint, rotate, step_clock, files
<1>2. /\ at' \in [Range(resolved) -> Servers \cup {Silent}]
      /\ cert' \in [Servers -> Certs] /\ skew' \in 0..MaxSkew
  BY TrustAssumption DEF repoint, rotate, step_clock, TrustInv, TypeInv
<1> QED
  BY <1>1, <1>2 DEF TrustInv, TypeInv

LEMMA NextTrust == TrustInv /\ [Next]_vars => TrustInv'
<1> SUFFICES ASSUME TrustInv, [Next]_vars PROVE TrustInv'
  OBVIOUS
<1>1. CASE environment
  BY <1>1, EditTrust, TouchTrust, TickTrust, WorldTrust DEF environment
<1>2. ASSUME NEW c \in Clients, run(c) PROVE TrustInv'
  <2>1. CASE handshake_fails(c)
    BY <2>1, NextAddressTrust DEF handshake_fails
  <2>2. CASE finish(c) \/ killed(c)
    BY <2>2, EndTrust DEF finish, killed
  <2> QED
    BY <1>2, <2>1, <2>2, StartTrust, ResumeTrust, ForgetTrust, HandshakeTrust, AppendTrust,
       SaveTrust, WriteTrust, RenameTrust DEF run
<1>3. CASE UNCHANGED vars
  BY <1>3 DEF vars, TrustInv, TypeInv
<1> QED
  BY <1>1, <1>2, <1>3 DEF Next

LEMMA TrustInvariant == Spec => []TrustInv
BY InitTrust, NextTrust, PTL DEF Spec

-----------------------------------------------------------------------------
(***************************************************************************)
(* What follows from it.                                                   *)
(***************************************************************************)

\* However many processes meet a host at once and append to known_hosts: a
\* session in use under -T talks to the certificate on the host's first line,
\* unless its process had found no line and its own certificate has one since.
THEOREM PinsHonoured == Spec => []SessionsHonourPin
<1>1. TrustInv => SessionsHonourPin
  <2> SUFFICES ASSUME TrustInv, NEW c \in InUse, proc[c].mode = "tofu", ~proc[c].edited
               PROVE  \/ proc[c].peer = pinned_fingerprint(from_reader(known))
                      \/ DOMAIN proc[c].view = {} /\ proc[c].peer \in Range(known)
    BY DEF SessionsHonourPin
  <2>1. PinHolds(proc[c], known) /\ proc[c].pc \in Using /\ proc[c].pc # "idle"
    BY DEF TrustInv, ProcessOK, InUse, Using
  <2> QED
    BY <2>1 DEF PinHolds
<1> QED
  BY <1>1, TrustInvariant, PTL

\* However many processes save tickets at once: the published file is never
\* the header of one session over the blob of another, and a process that has
\* a pin offers 0-RTT only with a session of the pinned certificate.
THEOREM TicketsAreBound == Spec => []TicketsBound
<1>1. TrustInv => TicketsBound
  BY DEF TrustInv, truthful, ProcessOK, OffersBound, TicketsBound, expected
<1> QED
  BY <1>1, TrustInvariant, PTL

\* dns_name_matches accepts no name that the pattern does not cover.
LEMMA MatchesCover ==
    ASSUME NEW pattern \in Seq(STRING), NEW host \in Seq(STRING), dns_name_matches(pattern, host)
    PROVE  Covers(pattern, host)
<1>1. CASE Len(pattern) > 1 /\ Head(pattern) = "*"
  <2>1. Len(host) > 1 /\ Tail(pattern) = Tail(host)
    BY <1>1 DEF dns_name_matches
  <2>2. Len(Tail(pattern)) = Len(pattern) - 1 /\ Len(Tail(host)) = Len(host) - 1
    BY <1>1, <2>1
  <2>3. Len(pattern) = Len(host)
    BY <2>1, <2>2
  <2>4. ASSUME NEW i \in DOMAIN host, i # 1 PROVE pattern[i] = host[i]
    <3>1. i - 1 \in 1..(Len(host) - 1) /\ i \in DOMAIN pattern
      BY <2>3, <2>4
    <3>2. Tail(pattern)[i - 1] = pattern[i] /\ Tail(host)[i - 1] = host[i]
      BY <1>1, <2>1, <2>3, <3>1
    <3> QED
      BY <2>1, <3>2
  <2>5. pattern[1] = "*"
    BY <1>1
  <2> QED
    BY <2>1, <2>3, <2>4, <2>5 DEF Covers
<1>2. CASE ~(Len(pattern) > 1 /\ Head(pattern) = "*")
  <2>1. pattern = host
    BY <1>2 DEF dns_name_matches
  <2> QED
    BY <2>1 DEF Covers
<1> QED
  BY <1>1, <1>2

\* Under --ca, whatever certificates servers show and tickets resume: a session
\* in use is with a certificate that chains to the CA and names the configured
\* host, by its subjectAltName or, when it has none at all, by its CN.
THEOREM CaSessionsAreNamed == Spec => []CaSessionsNamed
<1>1. TrustInv => CaSessionsNamed
  <2> SUFFICES ASSUME TrustInv, NEW c \in InUse, proc[c].mode = "ca",
                      NEW k, k = proc[c].peer, NEW n, n = proc[c].name
               PROVE  /\ k \in Chained
                      /\ \/ /\ San[k].st = "present"
                            /\ \E m \in San[k].names :
                                 m.kind = n.kind /\ IF n.kind = "dns" THEN Covers(m.v, n.v)
                                                                      ELSE m.v = n.v
                         \/ San[k].st = "absent" /\ n.kind = "dns" /\ Covers(Cn[k], n.v)
    BY DEF CaSessionsNamed
  <2>1. k \in Chained /\ cert_matches_hostname(k, n) /\ k \in Certs /\ Named(n)
    BY TrustAssumption DEF TrustInv, ProcessOK, NameChecked, InUse, Using, TypeInv, Process
  <2>2. CASE n.kind = "ip"
    <3>1. San[k].st = "present" /\ n \in San[k].names
      BY <2>1, <2>2 DEF cert_matches_hostname, match_ip_san
    <3> QED
      BY <2>1, <2>2, <3>1
  <2>3. CASE n.kind = "dns" /\ match_dns_san(k, n) = "Matched"
    <3>1. San[k].st \in {"present", "absent", "unparsable"}
      BY <2>1, TrustAssumption
    <3>2. /\ San[k].st = "present"
          /\ \E m \in San[k].names : m.kind = "dns" /\ dns_name_matches(m.v, n.v)
      BY <2>3, <3>1 DEF match_dns_san
    <3>3. PICK m \in San[k].names : m.kind = "dns" /\ dns_name_matches(m.v, n.v)
      BY <3>2
    <3>4. m.v \in Seq(STRING) /\ n.v \in Seq(STRING)
      BY <2>1, <2>3, <3>3, TrustAssumption DEF Named
    <3>5. Covers(m.v, n.v)
      BY <3>3, <3>4, MatchesCover
    <3> QED
      BY <2>1, <2>3, <3>2, <3>3, <3>5
  <2>4. CASE n.kind = "dns" /\ match_dns_san(k, n) # "Matched"
    <3>1. San[k].st \in {"present", "absent", "unparsable"}
      BY <2>1, TrustAssumption
    <3>2. match_dns_san(k, n) = "NoDnsSan" /\ dns_name_matches(Cn[k], n.v)
      BY <2>1, <2>4 DEF cert_matches_hostname
    <3>3. San[k].st = "absent"
      BY <3>1, <3>2 DEF match_dns_san
    <3>4. Cn[k] \in Seq(STRING) /\ n.v \in Seq(STRING)
      BY <2>1, <2>4, TrustAssumption DEF Named
    <3>5. Covers(Cn[k], n.v)
      BY <3>2, <3>4, MatchesCover
    <3> QED
      BY <2>1, <2>4, <3>3, <3>5
  <2> QED
    BY <2>1, <2>2, <2>3, <2>4 DEF Named
<1> QED
  BY <1>1, TrustInvariant, PTL

\* However often the ticket file is touched, however the wall clock is stepped
\* within MaxSkew, and whoever wrote the file: a v2 ticket is not offered later
\* than the TTL after its blob was written, plus that skew.
THEOREM TicketsAgeOut == Spec => TicketsExpire
<1> DEFINE Fresh == \A c \in Clients :
                      proc[c].offered = NoTicket /\ proc'[c].offered # NoTicket /\ ticket.ver = "v2" =>
                        now - ticket.blob.born <= TicketTtl + MaxSkew
<1>1. TrustInv /\ [Next]_vars => [Fresh]_vars
  <2> SUFFICES ASSUME TrustInv, Next, NEW c \in Clients, proc[c].offered = NoTicket,
                      proc'[c].offered # NoTicket, ticket.ver = "v2"
               PROVE  now - ticket.blob.born <= TicketTtl + MaxSkew
    OBVIOUS
  <2>1. TypeInv /\ proc[c] \in Process
    BY DEF TrustInv, TypeInv
  <2>2. ASSUME NEW d \in Clients, NEW p, become(d, p), d = c => p.offered = NoTicket PROVE FALSE
    BY <2>1, <2>2 DEF TypeInv, become
  <2>3. /\ Idle.offered = NoTicket
        /\ \A q \in Pc : [proc[c] EXCEPT !.pc = q].offered = NoTicket
        /\ \A b : [proc[c] EXCEPT !.edited = b].offered = NoTicket
    BY <2>1 DEF Idle, Process, Fields
  <2>4. UNCHANGED proc => FALSE
    OBVIOUS
  <2>5. ~environment
    <3>1. ASSUME edit_known_hosts PROVE FALSE
      <4>1. proc'[c] = [proc[c] EXCEPT !.edited = proc[c].edited \/ proc[c].pc # "idle"]
        BY <3>1, Zenon DEF edit_known_hosts
      <4> QED
        BY <2>3, <4>1
    <3> QED
      BY <2>4, <3>1, Zenon DEF environment, repoint, rotate, touch, step_clock, tick
  <2>6. PICK d \in Clients : run(d)
    BY <2>5 DEF Next
  <2>7. ~start(d)
    BY <2>1, <2>2 DEF start, Process, Fields
  <2>8. ~forget(d) /\ ~append_to_file(d) /\ ~finish(d) /\ ~killed(d)
    BY <2>2, <2>3 DEF forget, append_to_file, finish, killed, Pc
  <2>9. ~save(d) /\ ~write_all(d) /\ ~write_owner_only(d)
    BY <2>2, <2>3 DEF save, write_all, write_owner_only, Pc
  <2>10. ~next_address(d)
    <3>1. \A a : [proc[c] EXCEPT !.pc = "resume", !.addr = a, !.offered = NoTicket].offered = NoTicket
      BY <2>1 DEF Process, Fields
    <3> QED
      BY <2>1, <2>2, <2>3, <3>1, NextAddressForm
  <2>11. ~handshake(d)
    <3>1. \A k, q : established(c, k, q).offered = NoTicket
      BY <2>1 DEF established, Process, Fields
    <3>2. \A k, q : ~become(d, established(d, k, q))
      BY <2>2, <3>1
    <3> QED
      BY <2>1, <2>2, <2>3, <2>10, <3>2, HandshakeForm
  <2>12. resume_ticket(d)
    BY <2>6, <2>7, <2>8, <2>9, <2>10, <2>11 DEF run, handshake_fails
  <2>13. ticket # NoTicket /\ loadable(ticket, expected(d))
    BY <2>2, <2>3, <2>12 DEF resume_ticket, Pc
  <2>14. ticket \in Ticket /\ truthful(ticket) /\ v2_timestamp_fresh(ticket.saved)
    BY <2>13 DEF TrustInv, TypeInv, loadable
  <2>15. /\ ticket.saved \in Int /\ ticket.blob.born \in Int /\ now \in Int /\ skew \in Int
         /\ TicketTtl \in Nat /\ MaxSkew \in Nat /\ SkewGrace \in Nat /\ 0 <= skew
         /\ ticket.saved <= ticket.blob.born + MaxSkew
    BY <2>1, <2>14, TrustAssumption DEF Ticket, TypeInv, truthful
  <2> QED
    BY <2>14, <2>15 DEF v2_timestamp_fresh, wall
<1> QED
  BY <1>1, TrustInvariant, PTL DEF Spec, TicketsExpire
============================================================================
