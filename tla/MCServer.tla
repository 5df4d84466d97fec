------------------------------ MODULE MCServer ------------------------------
(***************************************************************************)
(* Instances of Server for TLC.                                            *)
(***************************************************************************)
EXTENDS Server, TLC

\* Everyone may do everything.
OpenAcl == User \X AllOps

\* The anonymous user may read, a named user may also remove.
TieredAcl == (User \X (AllOps \ {"rm"})) \cup (Named \X {"rm"})

\* Three requests on the first connection and two on the next, so that the one that
\* finds jobs of another in the pool has a queue too; two, if both are open at once.
FewRequests ==
    \A c \in DOMAIN conns :
        /\ conns[c].opened <= 3 - conns[c].generation
        /\ \A d \in DOMAIN conns : c # d => conns[c].opened + conns[d].opened <= 2

Symmetric == Permutations(Scids) \cup Permutations(Ips) \cup Permutations(Dirs)
=============================================================================
