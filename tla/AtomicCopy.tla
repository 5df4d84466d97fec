------------------------------ MODULE AtomicCopy ------------------------------
(***************************************************************************)
(* What a download promises, without streams, offsets or checksums: a     *)
(* source that others replace as a whole, and a copy that is either not    *)
(* there or is, as a whole, one of the contents the source had while the   *)
(* copy was being made.                                                    *)
(***************************************************************************)
CONSTANTS Contents,     \* what the source may hold
          NoCopy        \* there is no verified copy

VARIABLES source, candidates, busy, copy

acVars == <<source, candidates, busy, copy>>

Init == /\ source \in Contents
        /\ candidates = {}
        /\ busy = FALSE
        /\ copy = NoCopy

Replace(c) == /\ source' = c
              /\ candidates' = IF busy THEN candidates \cup {c} ELSE candidates
              /\ UNCHANGED <<busy, copy>>

\* A copy may start over while it is being made (a retry, a new attempt).
Begin == /\ copy = NoCopy
         /\ candidates' = {source}
         /\ busy' = TRUE
         /\ UNCHANGED <<source, copy>>

Deliver == /\ busy
           /\ copy' \in candidates
           /\ busy' = FALSE
           /\ UNCHANGED <<source, candidates>>

GiveUp == /\ busy
          /\ busy' = FALSE
          /\ UNCHANGED <<source, candidates, copy>>

Next == \/ \E c \in Contents : Replace(c)
        \/ Begin
        \/ Deliver
        \/ GiveUp

Spec == Init /\ [][Next]_acVars
=============================================================================
