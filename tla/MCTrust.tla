------------------------------ MODULE MCTrust ------------------------------
(***************************************************************************)
(* Instances of Trust for TLC.                                             *)
(***************************************************************************)
EXTENDS Trust

dns(labels) == [kind |-> "dns", v |-> labels]
ip(octets) == [kind |-> "ip", v |-> octets]

files_example == <<"files", "example">>

TwoAddresses == <<"a1", "a2">>

launch(mode, zero_rtt, name) == [mode |-> mode, zero_rtt |-> zero_rtt, name |-> name]

FourLaunches == {launch("tofu", TRUE, NoCert), launch("insecure", TRUE, NoCert),
                 launch("ca", TRUE, dns(files_example)), launch("ca", FALSE, ip(<<"10">>))}

\* One certificate for each way a leaf can relate to the two names.
SomeCerts == {"exact", "wild", "deep", "addr", "cn", "bad", "rogue"}

SomeSan == [k \in SomeCerts |->
  CASE k = "exact" -> [st |-> "present", names |-> {dns(files_example)}]
    [] k = "wild"  -> [st |-> "present", names |-> {dns(<<"*", "example">>)}]
    [] k = "deep"  -> [st |-> "present", names |-> {dns(<<"*", "files", "example">>)}]
    [] k = "addr"  -> [st |-> "present", names |-> {ip(<<"10">>)}]
    [] k = "cn"    -> [st |-> "absent", names |-> {}]
    [] k = "bad"   -> [st |-> "unparsable", names |-> {}]
    [] k = "rogue" -> [st |-> "present", names |-> {dns(files_example)}]]

SomeCn == [k \in SomeCerts |-> IF k = "wild" THEN <<"other", "example">> ELSE files_example]

AllChained == SomeCerts \ {"rogue"}

\* One address leads to each server, and each server has a certificate.
SomeAddrs == {[a1 |-> "s1", a2 |-> "s2"]}
SomeServers == {[s1 |-> "exact", s2 |-> "addr"], [s1 |-> "bad", s2 |-> "cn"]}

Symmetric == Permutations(Clients)

\* A line that does not parse, and what two first contacts left behind.
SomeLines == {<<Junk>>, <<Junk, "exact", "addr">>}

saved(ver, fp, k) == [ver |-> ver, saved |-> 0, mtime |-> 0, fp |-> fp,
                      blob |-> [issuer |-> "s1", cert |-> k, born |-> 0]]

\* A ticket that an older version of the client left.
OldTickets == {saved("legacy", NoCert, "rogue"), saved("v1", "exact", "exact")}
=============================================================================
