------------------------- MODULE ClientUploadProofs -------------------------
(***************************************************************************)
(* Proofs about the client's put, sync and watch, for every set of files,  *)
(* rules and command lines and any number of changes and lost connections. *)
(***************************************************************************)
EXTENDS ClientUpload, SequenceTheorems, FiniteSetTheorems, TLAPS

-----------------------------------------------------------------------------
(***************************************************************************)
(* Types, and which command is at which place.                             *)
(***************************************************************************)

Event == [kind: {"Modify", "Remove", "From", "To"}, path: Files \cup Dirs]

TypeInv ==
  /\ local \in [Files -> Contents] /\ remote \in [Files -> Contents]
  /\ partial \in [Files -> Contents]
  /\ dirs \subseteq Dirs /\ nlocal \in Nat
  /\ todo \subseteq Files /\ listed \subseteq Files /\ toDelete \subseteq Files
  /\ put = NoPut \/ put \in Put
  /\ rx \in Seq(Event)
  /\ DOMAIN pending \subseteq Files \cup Dirs
  /\ pending \in [DOMAIN pending -> {"Upload", "Delete"}]

\* Each command has places of its own.
PlaceInv ==
  /\ pc \in {"send", "putting"} => cmd.cmd = "put"
  /\ pc \in {"walk", "list", "upload"} => cmd.cmd = "sync"
  /\ pc \in {"connect", "watching", "flush"} => cmd.cmd = "watch"
  /\ pc = "next" => cmd.cmd # "watch"
  /\ pc \in {"send", "putting", "next", "walk", "list", "upload", "connect", "watching", "flush", "exited"}

-----------------------------------------------------------------------------
(***************************************************************************)
(* put: under NoClobber the request that is about to be sent, or is being  *)
(* answered, carries the flag.                                             *)
(***************************************************************************)

FlagInv ==
  /\ pc = "send" => put \in Put
  /\ cmd.cmd = "put" /\ cmd.policy = "NoClobber" /\ (put # NoPut \/ pc = "send")
       => put.no_clobber = TRUE

-----------------------------------------------------------------------------
(***************************************************************************)
(* sync: the delete plan holds only what the walk did not find.            *)
(***************************************************************************)

Orphan(p) == /\ walked[p] = NoFile \/ p = IgnoreFile \/ under_unreadable(p)
             /\ ~sync_excludes(p)

\* The walk has found p, or did not meet it, or may still come to it.
Accounted(p) == p \in todo \/ Orphan(p) \/ sync_excludes(p) \/ Above(p) \cap stack # {}

\* A file's directories exist.
DirsInv == \A p \in Files : local[p] # NoFile => Ancestors(p) \subseteq dirs

SyncInv ==
  /\ pc = "walk" => \A p \in Files : Accounted(p)
  /\ pc = "list" => \A p \in Files \ todo : Orphan(p) \/ sync_excludes(p)
  /\ \A p \in toDelete \cup removed : p \in Files /\ Orphan(p)
  /\ pc \notin {"upload", "exited"} => toDelete = {} /\ removed = {}
  /\ removed # {} => ~failed /\ todo = {} /\ put = NoPut

-----------------------------------------------------------------------------
(***************************************************************************)
(* watch: what is still to be done for a path is right by the local disk.  *)
(***************************************************************************)

\* Action a is what path p calls for now.
Fits(a, p) == a = "Delete" <=> local[p] = NoFile

Notified(p) == \E i \in DOMAIN rx : rx[i].path = p

LastOfPath(i) == \A j \in DOMAIN rx : j > i => rx[j].path # rx[i].path

\* Of a file that was not moved along with a directory: its last event fits it;
\* without an event, the pending action does; without that, the upload that is
\* running sends what the disk holds; without that, the server has it, unless
\* its events were dropped.
WatchInv ==
  cmd.cmd = "watch" /\ pc # "exited" =>
    /\ pc \in {"connect", "watching"} => put = NoPut
    /\ pc = "connect" => DOMAIN pending = {}
    /\ \A i \in DOMAIN rx : rx[i].path \in Files \ unnoticed /\ LastOfPath(i)
         => Fits(action_of(rx[i].kind), rx[i].path)
    /\ \A p \in Files \ unnoticed : ~Notified(p) =>
         /\ p \in DOMAIN pending => Fits(pending[p], p)
         /\ put # NoPut /\ put.path = p => put.data = local[p]
         /\ \/ p \in DOMAIN pending
            \/ put # NoPut /\ put.path = p
            \/ p \in lost \cup skipped
            \/ remote[p] = local[p]

ClientInv == TypeInv /\ PlaceInv /\ FlagInv /\ DirsInv /\ SyncInv /\ WatchInv
-----------------------------------------------------------------------------
(***************************************************************************)
(* Initial states.                                                         *)
(***************************************************************************)

LEMMA InitClientInv == Init => ClientInv
<1> SUFFICES ASSUME Init PROVE ClientInv
  OBVIOUS
<1> USE DEF Init
<1>1. TypeInv
  <2>1. local \in [Files -> Contents] /\ remote \in [Files -> Contents]
    BY ClientUploadAssumption
  <2>2. partial \in [Files -> Contents]
    BY DEF Contents
  <2>3. todo \subseteq Files /\ listed \subseteq Files /\ toDelete \subseteq Files
    OBVIOUS
  <2>4. rx \in Seq(Event) /\ DOMAIN pending = {}
    OBVIOUS
  <2>5. pending \in [DOMAIN pending -> {"Upload", "Delete"}]
    BY <2>4
  <2>6. dirs \subseteq Dirs
    BY DEF Dirs
  <2> QED
    BY <2>1, <2>2, <2>3, <2>4, <2>5, <2>6 DEF TypeInv
<1>2. PlaceInv
  BY DEF PlaceInv
<1>3. FlagInv
  BY DEF FlagInv
<1>4. SyncInv
  BY DEF SyncInv
<1>5. WatchInv
  BY DEF WatchInv, Notified
<1>6. DirsInv
  BY DEF DirsInv
<1> QED
  BY <1>1, <1>2, <1>3, <1>4, <1>5, <1>6 DEF ClientInv

-----------------------------------------------------------------------------
(***************************************************************************)
(* A change of the local disk.                                             *)
(***************************************************************************)

\* The events of a change say what became of every file it changed, the silent
\* ones excepted.
Tells(es, silent) ==
  /\ \A k \in 1..Len(es) :
       /\ es[k].path \in Files \ silent
       /\ \A j \in 1..Len(es) : j > k => es[j].path # es[k].path
       => (action_of(es[k].kind) = "Delete" <=> local'[es[k].path] = NoFile)
  /\ \A p \in Files \ silent : local'[p] # local[p] => \E k \in 1..Len(es) : es[k].path = p

LEMMA LocalStepWatch ==
  ASSUME ClientInv, NEW es \in Seq(Event), NEW silent, notify(es, silent), Tells(es, silent),
         UNCHANGED <<remote, cmd, pc, put, pending, lost, skipped>>
  PROVE  WatchInv'
<1> SUFFICES ASSUME cmd.cmd = "watch", pc # "exited" PROVE WatchInv'
  BY DEF WatchInv
<1> USE DEF ClientInv
<1>1. /\ rx \in Seq(Event) /\ rx' = rx \o es
      /\ unnoticed' = (unnoticed \ {es[k].path : k \in DOMAIN es}) \cup silent
  BY DEF TypeInv, notify
<1>0. ASSUME NEW p \in Files \ unnoticed', \A k \in 1..Len(es) : es[k].path # p
      PROVE  p \notin unnoticed /\ local'[p] = local[p]
  <2>1. p \notin silent /\ DOMAIN es = 1..Len(es)
    BY <1>1
  <2> QED
    BY <1>0, <1>1, <2>1 DEF Tells
<1>2. /\ Len(rx) \in Nat /\ Len(es) \in Nat
      /\ DOMAIN rx' = 1..(Len(rx) + Len(es)) /\ DOMAIN rx = 1..Len(rx)
      /\ \A i \in 1..Len(rx) : rx'[i] = rx[i]
      /\ \A k \in 1..Len(es) : rx'[Len(rx) + k] = es[k]
  <2>1. /\ DOMAIN (rx \o es) = 1..(Len(rx) + Len(es)) /\ DOMAIN rx = 1..Len(rx)
        /\ Len(rx) \in Nat /\ Len(es) \in Nat
    BY <1>1
  <2>2. \A i \in 1..Len(rx) : (rx \o es)[i] = rx[i]
    BY <1>1, <2>1
  <2>3. \A k \in 1..Len(es) : (rx \o es)[Len(rx) + k] = es[k]
    BY <1>1, <2>1
  <2> QED
    BY <1>1, <2>1, <2>2, <2>3
<1>3. (\A i \in DOMAIN rx : rx[i].path \in Files \ unnoticed /\ LastOfPath(i)
          => Fits(action_of(rx[i].kind), rx[i].path))'
  <2> SUFFICES ASSUME NEW i \in DOMAIN rx', (rx[i].path \in Files \ unnoticed)', LastOfPath(i)'
               PROVE  Fits(action_of(rx[i].kind), rx[i].path)'
    OBVIOUS
  <2>1. \A j \in DOMAIN rx' : j > i => rx'[j].path # rx'[i].path
    BY DEF LastOfPath
  <2>2. CASE i \in 1..Len(rx)
    <3>1. \A k \in 1..Len(es) : es[k].path # rx[i].path
      <4> SUFFICES ASSUME NEW k \in 1..Len(es) PROVE es[k].path # rx[i].path
        OBVIOUS
      <4>1. Len(rx) + k \in DOMAIN rx' /\ Len(rx) + k > i
        BY <1>2, <2>2
      <4> QED
        BY <1>2, <2>1, <2>2, <4>1
    <3>2. LastOfPath(i)
      <4> SUFFICES ASSUME NEW j \in DOMAIN rx, j > i PROVE rx[j].path # rx[i].path
        BY DEF LastOfPath
      <4>1. j \in DOMAIN rx'
        BY <1>2
      <4> QED
        BY <1>2, <2>1, <2>2, <4>1
    <3>3. rx[i].path \in Files \ unnoticed'
      BY <1>2, <2>2
    <3>4. rx[i].path \notin unnoticed /\ local'[rx[i].path] = local[rx[i].path]
      BY <1>0, <3>1, <3>3
    <3>5. Fits(action_of(rx[i].kind), rx[i].path)
      BY <1>2, <2>2, <3>2, <3>3, <3>4 DEF WatchInv
    <3> QED
      BY <1>2, <2>2, <3>4, <3>5 DEF Fits, action_of
  <2>3. CASE i \notin 1..Len(rx)
    <3>1. PICK k \in 1..Len(es) : i = Len(rx) + k
      <4>1. i - Len(rx) \in 1..Len(es) /\ i = Len(rx) + (i - Len(rx))
        BY <1>2, <2>3
      <4> QED
        BY <4>1
    <3>2. \A j \in 1..Len(es) : j > k => es[j].path # es[k].path
      <4> SUFFICES ASSUME NEW j \in 1..Len(es), j > k PROVE es[j].path # es[k].path
        OBVIOUS
      <4>1. Len(rx) + j \in DOMAIN rx' /\ Len(rx) + j > i
        BY <1>2, <3>1
      <4> QED
        BY <1>2, <2>1, <3>1, <4>1
    <3>3. es[k].path \in Files \ unnoticed'
      BY <1>2, <3>1
    <3>4. action_of(es[k].kind) = "Delete" <=> local'[es[k].path] = NoFile
      BY <1>1, <3>2, <3>3 DEF Tells
    <3> QED
      BY <1>2, <3>1, <3>4 DEF Fits, action_of
  <2> QED
    BY <2>2, <2>3
<1>4. ASSUME NEW p \in Files \ unnoticed', ~Notified(p)'
      PROVE  ~Notified(p) /\ p \notin unnoticed /\ local'[p] = local[p]
  <2>1. \A i \in DOMAIN rx' : rx'[i].path # p
    BY <1>4 DEF Notified
  <2>2. \A i \in DOMAIN rx : rx[i].path # p
    BY <1>2, <2>1
  <2>3. \A k \in 1..Len(es) : es[k].path # p
    <3> SUFFICES ASSUME NEW k \in 1..Len(es) PROVE es[k].path # p
      OBVIOUS
    <3>1. Len(rx) + k \in DOMAIN rx'
      BY <1>2
    <3> QED
      BY <1>2, <2>1, <3>1
  <2> QED
    BY <1>0, <2>2, <2>3 DEF Notified
<1>5. ASSUME NEW p \in Files \ unnoticed', ~Notified(p)'
      PROVE  (/\ p \in DOMAIN pending => Fits(pending[p], p)
              /\ put # NoPut /\ put.path = p => put.data = local[p]
              /\ \/ p \in DOMAIN pending
                 \/ put # NoPut /\ put.path = p
                 \/ p \in lost \cup skipped
                 \/ remote[p] = local[p])'
  BY <1>4, <1>5 DEF WatchInv, Fits
<1> QED
  BY <1>3, <1>5 DEF WatchInv
-----------------------------------------------------------------------------
(***************************************************************************)
(* Places and flags.                                                       *)
(***************************************************************************)

LEMMA PlaceStep == ClientInv /\ [Next]_vars => PlaceInv'
<1> SUFFICES ASSUME ClientInv, [Next]_vars PROVE PlaceInv'
  OBVIOUS
<1>1. CASE probe_fails
  BY <1>1 DEF ClientInv, probe_fails, localVars, serverVars, syncVars, watchVars, bounds,
     vars, PlaceInv
<1>2. CASE put_send
  BY <1>2 DEF ClientInv, put_send, localVars, serverVars, syncVars, watchVars, bounds,
     vars, PlaceInv
<1>3. CASE put_done
  BY <1>3 DEF ClientInv, put_done, localVars, serverVars, syncVars, watchVars, bounds,
     vars, PlaceInv
<1>4. CASE do_put_stale
  BY <1>4 DEF ClientInv, do_put_stale, localVars, serverVars, syncVars, watchVars, bounds,
     vars, PlaceInv
<1>5. CASE load
  BY <1>5 DEF ClientInv, load, PlaceInv
<1>6. CASE plan
  BY <1>6 DEF ClientInv, plan, localVars, serverVars, syncVars, watchVars, bounds, vars,
     PlaceInv
<1>7. CASE sync_put_done
  BY <1>7 DEF ClientInv, sync_put_done, localVars, serverVars, syncVars, watchVars,
     bounds, vars, PlaceInv
<1>8. CASE connect
  BY <1>8 DEF ClientInv, connect, localVars, serverVars, syncVars, watchVars, bounds,
     vars, PlaceInv
<1>9. CASE recv_event
  BY <1>9 DEF ClientInv, recv_event, localVars, serverVars, syncVars, watchVars, bounds,
     vars, PlaceInv
<1>10. CASE flush
  BY <1>10 DEF ClientInv, flush, localVars, serverVars, syncVars, watchVars, bounds, vars,
     PlaceInv
<1>11. CASE flush_put_done
  BY <1>11 DEF ClientInv, flush_put_done, localVars, serverVars, syncVars, watchVars,
     bounds, vars, PlaceInv
<1>12. CASE flushed
  BY <1>12 DEF ClientInv, flushed, localVars, serverVars, syncVars, watchVars, bounds,
     vars, PlaceInv
<1>13. CASE session_lost
  BY <1>13 DEF ClientInv, session_lost, localVars, serverVars, syncVars, watchVars,
     bounds, vars, PlaceInv
<1>14. CASE stop
  BY <1>14 DEF ClientInv, stop, localVars, serverVars, syncVars, watchVars, bounds, vars,
     PlaceInv
<1>15. CASE connection_lost
  BY <1>15 DEF ClientInv, connection_lost, localVars, serverVars, syncVars, watchVars,
     bounds, vars, PlaceInv
<1>16. ASSUME NEW p \in Files, put_probe(p) PROVE PlaceInv'
  BY <1>16 DEF ClientInv, put_probe, localVars, serverVars, syncVars, watchVars, bounds,
     vars, PlaceInv
<1>17. ASSUME NEW p \in Files, sync_put(p) PROVE PlaceInv'
  BY <1>17 DEF ClientInv, sync_put, localVars, serverVars, syncVars, watchVars, bounds,
     vars, PlaceInv
<1>18. ASSUME NEW p \in Files, sync_delete(p) PROVE PlaceInv'
  BY <1>18 DEF ClientInv, sync_delete, localVars, serverVars, syncVars, watchVars, bounds,
     vars, PlaceInv
<1>19. ASSUME NEW p \in Files \cup Dirs, flush_upload(p) PROVE PlaceInv'
  BY <1>19 DEF ClientInv, flush_upload, localVars, serverVars, syncVars, watchVars,
     bounds, vars, PlaceInv
<1>20. ASSUME NEW p \in Files \cup Dirs, flush_delete(p) PROVE PlaceInv'
  BY <1>20 DEF ClientInv, flush_delete, flush_delete_skip, flush_delete_rm, flush_delete_cut, localVars, serverVars, syncVars, watchVars,
     bounds, vars, PlaceInv
<1>21. ASSUME NEW p \in Files, local_write(p) PROVE PlaceInv'
  BY <1>21 DEF ClientInv, local_write, local_change, PlaceInv
<1>22. ASSUME NEW p \in Files, local_remove(p) PROVE PlaceInv'
  BY <1>22 DEF ClientInv, local_remove, local_change, PlaceInv
<1>23. ASSUME NEW p \in Files, other_client(p) PROVE PlaceInv'
  BY <1>23 DEF ClientInv, other_client, localVars, serverVars, syncVars, watchVars,
     bounds, vars, PlaceInv
<1>24. ASSUME NEW d \in Dirs \cup {<<>>}, walk_remote(d) PROVE PlaceInv'
  BY <1>24 DEF ClientInv, walk_remote, localVars, serverVars, syncVars, watchVars, bounds,
     vars, PlaceInv
<1>25. ASSUME NEW p \in Files, NEW q \in Files, local_rename(p, q) PROVE PlaceInv'
  BY <1>25 DEF ClientInv, local_rename, local_change, PlaceInv
<1>26. ASSUME NEW d \in Dirs, local_remove_dir(d) PROVE PlaceInv'
  BY <1>26 DEF ClientInv, local_remove_dir, local_change, PlaceInv
<1>27. CASE UNCHANGED vars
  BY <1>27 DEF ClientInv, vars, PlaceInv
<1>28. ASSUME NEW d \in Dirs \cup {<<>>}, walk_local(d) PROVE PlaceInv'
  BY <1>28 DEF ClientInv, walk_local, PlaceInv
<1>29. CASE establish
  BY <1>29 DEF ClientInv, establish, PlaceInv
<1>30. ASSUME NEW d \in Dirs, NEW e \in Dirs, local_rename_dir(d, e) PROVE PlaceInv'
  BY <1>30 DEF ClientInv, local_rename_dir, local_change, PlaceInv
<1> QED
  BY <1>1, <1>2, <1>3, <1>4, <1>5, <1>6, <1>7, <1>8, <1>9, <1>10, <1>11, <1>12, <1>13,
     <1>14, <1>15, <1>16, <1>17, <1>18, <1>19, <1>20, <1>21, <1>22, <1>23, <1>24, <1>25,
     <1>26, <1>27, <1>28, <1>29, <1>30
     DEF Next, put_command, sync_command, watch_command, surroundings

LEMMA ProbePut ==
  ASSUME NEW p \in Files, put_probe(p)
  PROVE  \/ UNCHANGED <<pc, put>>
         \/ pc' = "send" /\ put' \in Put /\ (cmd.policy = "NoClobber" => put'.no_clobber = TRUE)
<1>1. PICK exists \in {remote[p] # NoFile, FALSE} :
        LET d == decide_clobber(cmd.policy, exists)
        IN \/ /\ d \in {"Proceed", "Overwrite", "Prompt"}
              /\ pc' = "send"
              /\ put' = [path |-> p, data |-> NoFile, offset |-> 0,
                         no_clobber |-> d = "Proceed" /\ effective_no_clobber(cmd.policy)]
           \/ d \in {"Skip", "Prompt"} /\ UNCHANGED <<pc, put>>
  BY DEF put_probe
<1>2. PICK d : d = decide_clobber(cmd.policy, exists)
  OBVIOUS
<1>3. PICK c \in BOOLEAN : c <=> d = "Proceed" /\ effective_no_clobber(cmd.policy)
  OBVIOUS
<1>4. cmd.policy = "NoClobber" /\ d \in {"Proceed", "Overwrite", "Prompt"} => c = TRUE
  <2> SUFFICES ASSUME cmd.policy = "NoClobber", d \in {"Proceed", "Overwrite", "Prompt"}
               PROVE  c = TRUE
    OBVIOUS
  <2>1. d = "Proceed"
    <3>1. exists \in BOOLEAN
      OBVIOUS
    <3>2. d = IF exists THEN "Skip" ELSE "Proceed"
      BY <1>2, <3>1 DEF decide_clobber
    <3> QED
      BY <3>2
  <2> QED
    BY <1>3, <2>1 DEF effective_no_clobber
<1>5. CASE d \in {"Proceed", "Overwrite", "Prompt"} /\ pc' = "send"
           /\ put' = [path |-> p, data |-> NoFile, offset |-> 0, no_clobber |-> c]
  <2>1. put' \in Put /\ put'.no_clobber = c
    BY <1>5 DEF Put, Contents
  <2> QED
    BY <1>4, <1>5, <2>1
<1> QED
  BY <1>1, <1>2, <1>3, <1>5

LEMMA FlagStep == ClientInv /\ [Next]_vars => FlagInv'
<1> SUFFICES ASSUME ClientInv, [Next]_vars PROVE FlagInv'
  OBVIOUS
<1>1. CASE probe_fails
  BY <1>1 DEF ClientInv, probe_fails, localVars, serverVars, syncVars, watchVars, bounds,
     vars, TypeInv, PlaceInv, FlagInv
<1>2. CASE put_send
  BY <1>2 DEF ClientInv, put_send, Begin, TypeInv, FlagInv, Put
<1>3. CASE put_done
  BY <1>3 DEF ClientInv, put_done, do_put_ok, do_put_err, committed, FlagInv
<1>4. CASE do_put_stale
  BY <1>4 DEF ClientInv, do_put_stale, TypeInv, FlagInv, Put
<1>5. CASE load
  BY <1>5 DEF ClientInv, load, TypeInv, PlaceInv, FlagInv
<1>6. CASE plan
  BY <1>6 DEF ClientInv, plan, localVars, serverVars, syncVars, watchVars, bounds, vars,
     TypeInv, PlaceInv, FlagInv
<1>7. CASE sync_put_done
  BY <1>7 DEF ClientInv, sync_put_done, do_put_ok, do_put_err, committed, FlagInv
<1>8. CASE connect
  BY <1>8 DEF ClientInv, connect, localVars, serverVars, syncVars, watchVars, bounds,
     vars, TypeInv, PlaceInv, FlagInv
<1>9. CASE recv_event
  BY <1>9 DEF ClientInv, recv_event, localVars, serverVars, syncVars, watchVars, bounds,
     vars, TypeInv, PlaceInv, FlagInv
<1>10. CASE flush
  BY <1>10 DEF ClientInv, flush, localVars, serverVars, syncVars, watchVars, bounds, vars,
     TypeInv, PlaceInv, FlagInv
<1>11. CASE flush_put_done
  BY <1>11 DEF ClientInv, flush_put_done, do_put_ok, do_put_err, committed, PlaceInv, FlagInv
<1>12. CASE flushed
  BY <1>12 DEF ClientInv, flushed, localVars, serverVars, syncVars, watchVars, bounds,
     vars, TypeInv, PlaceInv, FlagInv
<1>13. CASE session_lost
  BY <1>13 DEF ClientInv, session_lost, localVars, serverVars, syncVars, watchVars,
     bounds, vars, TypeInv, PlaceInv, FlagInv
<1>14. CASE stop
  BY <1>14 DEF ClientInv, stop, localVars, serverVars, syncVars, watchVars, bounds, vars,
     TypeInv, PlaceInv, FlagInv
<1>15. CASE connection_lost
  BY <1>15 DEF ClientInv, connection_lost, localVars, serverVars, syncVars, watchVars,
     bounds, vars, TypeInv, PlaceInv, FlagInv
<1>16. ASSUME NEW p \in Files, put_probe(p) PROVE FlagInv'
  <2>1. cmd' = cmd
    BY <1>16 DEF put_probe
  <2> QED
    BY <1>16, <2>1, ProbePut DEF ClientInv, FlagInv
<1>17. ASSUME NEW p \in Files, sync_put(p) PROVE FlagInv'
  BY <1>17 DEF ClientInv, sync_put, PlaceInv, FlagInv
<1>18. ASSUME NEW p \in Files, sync_delete(p) PROVE FlagInv'
  BY <1>18 DEF ClientInv, sync_delete, localVars, serverVars, syncVars, watchVars, bounds,
     vars, TypeInv, PlaceInv, FlagInv
<1>19. ASSUME NEW p \in Files \cup Dirs, flush_upload(p) PROVE FlagInv'
  BY <1>19 DEF ClientInv, flush_upload, PlaceInv, FlagInv
<1>20. ASSUME NEW p \in Files \cup Dirs, flush_delete(p) PROVE FlagInv'
  BY <1>20 DEF ClientInv, flush_delete, flush_delete_skip, flush_delete_rm, flush_delete_cut, localVars, serverVars, syncVars, watchVars,
     bounds, vars, TypeInv, PlaceInv, FlagInv
<1>21. ASSUME NEW p \in Files, local_write(p) PROVE FlagInv'
  BY <1>21 DEF ClientInv, local_write, local_change, FlagInv
<1>22. ASSUME NEW p \in Files, local_remove(p) PROVE FlagInv'
  BY <1>22 DEF ClientInv, local_remove, local_change, FlagInv
<1>23. ASSUME NEW p \in Files, other_client(p) PROVE FlagInv'
  BY <1>23 DEF ClientInv, other_client, localVars, serverVars, syncVars, watchVars,
     bounds, vars, TypeInv, PlaceInv, FlagInv
<1>24. ASSUME NEW d \in Dirs \cup {<<>>}, walk_remote(d) PROVE FlagInv'
  BY <1>24 DEF ClientInv, walk_remote, localVars, serverVars, syncVars, watchVars, bounds,
     vars, TypeInv, PlaceInv, FlagInv
<1>25. ASSUME NEW p \in Files, NEW q \in Files, local_rename(p, q) PROVE FlagInv'
  BY <1>25 DEF ClientInv, local_rename, local_change, FlagInv
<1>26. ASSUME NEW d \in Dirs, local_remove_dir(d) PROVE FlagInv'
  BY <1>26 DEF ClientInv, local_remove_dir, local_change, FlagInv
<1>27. CASE UNCHANGED vars
  BY <1>27 DEF ClientInv, vars, FlagInv
<1>28. ASSUME NEW d \in Dirs \cup {<<>>}, walk_local(d) PROVE FlagInv'
  BY <1>28 DEF ClientInv, walk_local, TypeInv, PlaceInv, FlagInv
<1>29. CASE establish
  BY <1>29 DEF ClientInv, establish, TypeInv, PlaceInv, FlagInv
<1>30. ASSUME NEW d \in Dirs, NEW e \in Dirs, local_rename_dir(d, e) PROVE FlagInv'
  BY <1>30 DEF ClientInv, local_rename_dir, local_change, FlagInv
<1> QED
  BY <1>1, <1>2, <1>3, <1>4, <1>5, <1>6, <1>7, <1>8, <1>9, <1>10, <1>11, <1>12, <1>13,
     <1>14, <1>15, <1>16, <1>17, <1>18, <1>19, <1>20, <1>21, <1>22, <1>23, <1>24, <1>25,
     <1>26, <1>27, <1>28, <1>29, <1>30
     DEF Next, put_command, sync_command, watch_command, surroundings

-----------------------------------------------------------------------------
(***************************************************************************)
(* Types.                                                                  *)
(***************************************************************************)

LEMMA PutTypes ==
  ASSUME TypeInv, do_put_ok \/ do_put_err
  PROVE  /\ put \in Put /\ put' = NoPut
         /\ remote' \in [Files -> Contents] /\ partial' \in [Files -> Contents]
         /\ remote' = remote \/ (committed /\ \E d \in sent : remote' = [remote EXCEPT ![put.path] = d])
<1>1. put \in Put /\ put.path \in Files /\ put.data \in Contents /\ put' = NoPut
  BY DEF TypeInv, Put, do_put_ok, do_put_err, committed
<1>2. CASE committed
  <2>1. PICK d \in sent : remote' = [remote EXCEPT ![put.path] = d]
    BY <1>2 DEF committed
  <2>2. d \in Contents
    BY <1>1, <2>1 DEF sent, TypeInv, Contents
  <2>3. remote' \in [Files -> Contents]
    BY <1>1, <2>1, <2>2 DEF TypeInv
  <2>4. partial' \in [Files -> Contents]
    BY <1>1, <1>2 DEF committed, TypeInv, Contents
  <2> QED
    BY <1>1, <1>2, <2>1, <2>3, <2>4
<1>3. CASE /\ remote' = remote
           /\ partial' = partial \/ partial' = [partial EXCEPT ![put.path] = put.data]
  <2>1. partial' \in [Files -> Contents]
    BY <1>1, <1>3 DEF TypeInv
  <2> QED
    BY <1>1, <1>3, <2>1 DEF TypeInv
<1>4. CASE do_put_err
  BY <1>2, <1>3, <1>4 DEF do_put_err
<1> QED
  BY <1>2, <1>4 DEF do_put_ok

LEMMA WithoutTypes ==
  ASSUME TypeInv, NEW p
  PROVE  /\ DOMAIN without(p) \subseteq Files \cup Dirs
         /\ without(p) \in [DOMAIN without(p) -> {"Upload", "Delete"}]
BY DEF TypeInv, without

LEMMA LocalTypes ==
  ASSUME TypeInv, local_change, local' \in [Files -> Contents], dirs' \subseteq Dirs,
         NEW es \in Seq(Event), NEW silent, notify(es, silent)
  PROVE  TypeInv'
<1>1. nlocal' \in Nat
  BY DEF TypeInv, local_change
<1>2. rx' \in Seq(Event)
  <2>1. rx \o es \in Seq(Event)
    BY DEF TypeInv
  <2> QED
    BY <2>1 DEF TypeInv, notify
<1> QED
  BY <1>1, <1>2 DEF TypeInv, local_change, serverVars, syncVars

LEMMA RemoveDirEvents ==
  ASSUME TypeInv, NEW d \in Dirs, local_remove_dir(d)
  PROVE  \E es \in Seq(Event) : notify(es, {}) /\ Tells(es, {})
<1> DEFINE below == Below(d)
           n == Cardinality(below)
<1>0. below \subseteq Files
  BY DEF Below
<1>1. n \in Nat
  <2>1. IsFiniteSet(below)
    BY <1>0, ClientUploadAssumption, FS_Subset
  <2> QED
    BY <2>1, FS_CardinalityType
<1>2. PICK order \in [1..n -> below] :
        /\ Range(order) = below
        /\ notify([i \in 1..n |-> event("Remove", order[i])] \o <<event("Remove", d)>>, {})
  BY DEF local_remove_dir
<1>8. local' = [p \in Files |-> IF p \in below THEN NoFile ELSE local[p]]
  BY DEF local_remove_dir
<1> HIDE DEF below, n
<1>3. PICK m \in Nat : m = n
  BY <1>1
<1>4. PICK fs : fs = [i \in 1..m |-> event("Remove", order[i])]
  OBVIOUS
<1>5. \A i \in 1..m : order[i] \in below /\ order[i] \in Files
  BY <1>0, <1>2, <1>3
<1>6. fs \in Seq(Event) /\ Len(fs) = m
  <2>1. \A i \in 1..m : event("Remove", order[i]) \in Event
    BY <1>5 DEF event, Event
  <2> QED
    BY <1>3, <1>4, <2>1
<1>7. \A i \in 1..m : fs[i].path = order[i] /\ fs[i].kind = "Remove"
  BY <1>4 DEF event
<1>9. PICK last : last = event("Remove", d)
  OBVIOUS
<1>10. last \in Event /\ last.path \notin Files
  BY <1>9, ClientUploadAssumption DEF event, Event
<1>11. PICK es : es = fs \o <<last>>
  OBVIOUS
<1>12. /\ es \in Seq(Event) /\ Len(es) = m + 1 /\ es[m + 1] = last
       /\ \A i \in 1..m : es[i] = fs[i]
  BY <1>6, <1>10, <1>11
<1>13. ASSUME NEW p \in Files, local'[p] # local[p]
       PROVE  \E k \in 1..Len(es) : es[k].path = p
  <2>1. p \in below
    BY <1>8, <1>13
  <2>2. PICK k \in 1..m : order[k] = p
    BY <1>2, <1>3, <2>1 DEF Range
  <2>3. k \in 1..Len(es)
    BY <1>12
  <2> QED
    BY <1>7, <1>12, <2>2, <2>3
<1>14. ASSUME NEW k \in 1..Len(es), es[k].path \in Files
       PROVE  action_of(es[k].kind) = "Delete" /\ local'[es[k].path] = NoFile
  <2>1. k \in 1..m
    BY <1>10, <1>12, <1>14
  <2>2. es[k].path = order[k] /\ es[k].kind = "Remove"
    BY <1>7, <1>12, <2>1
  <2>3. local'[es[k].path] = NoFile
    BY <1>5, <1>8, <2>1, <2>2
  <2> QED
    BY <2>2, <2>3 DEF action_of
<1>15. notify(es, {})
  BY <1>2, <1>3, <1>4, <1>9, <1>11
<1>16. Tells(es, {})
  BY <1>13, <1>14 DEF Tells
<1> QED
  BY <1>12, <1>15, <1>16

\* Where the files are after a directory was renamed.
LEMMA RenameDirLocal ==
  ASSUME TypeInv, NEW d \in Dirs, NEW e \in Dirs, local_rename_dir(d, e)
  PROVE  /\ local' \in [Files -> Contents]
         /\ \A p \in Files : local'[p] # NoFile =>
              \/ p \notin Below(d) /\ local[p] # NoFile
              \/ \E q \in Below(d) : p = Moved(q, d, e)
<1> DEFINE From(p) == CHOOSE q \in Below(d) : p = Moved(q, d, e)
           Hit(p) == \E q \in Below(d) : p = Moved(q, d, e)
<1>1. local' = [p \in Files |-> IF p \in Below(d) THEN NoFile
                                ELSE IF Hit(p) THEN local[From(p)] ELSE local[p]]
  BY DEF local_rename_dir
<1>2. \A p : Hit(p) => From(p) \in Below(d)
  OBVIOUS
<1>3. Below(d) \subseteq Files
  BY DEF Below
<1> HIDE DEF From, Hit
<1>4. local' \in [Files -> Contents]
  BY <1>1, <1>2, <1>3 DEF TypeInv, Contents
<1>5. \A p \in Files : local'[p] # NoFile => p \notin Below(d) /\ (local[p] # NoFile \/ Hit(p))
  BY <1>1
<1> QED
  BY <1>4, <1>5 DEF Hit

LEMMA TypeStep == ClientInv /\ [Next]_vars => TypeInv'
<1> SUFFICES ASSUME ClientInv, [Next]_vars PROVE TypeInv'
  OBVIOUS
<1> USE DEF ClientInv
<1> TypeInv
  OBVIOUS
<1>1. CASE probe_fails
  BY <1>1 DEF probe_fails, localVars, serverVars, syncVars, watchVars, TypeInv
<1>2. CASE put_send
  <2>1. put \in Put
    BY <1>2 DEF put_send, FlagInv
  <2>2. PICK offset \in {0, 1} : Begin(put.path, offset, put.no_clobber)
    BY <1>2 DEF put_send
  <2>3. put' \in Put
    BY <2>1, <2>2 DEF Begin, Put, TypeInv
  <2> QED
    BY <1>2, <2>3 DEF put_send, localVars, serverVars, syncVars, watchVars, TypeInv
<1>3. CASE put_done
  <2>1. put' = NoPut /\ remote' \in [Files -> Contents] /\ partial' \in [Files -> Contents]
    BY <1>3, PutTypes DEF put_done
  <2> QED
    BY <1>3, <2>1 DEF put_done, localVars, syncVars, TypeInv
<1>4. CASE do_put_stale
  <2>1. put \in Put
    BY <1>4 DEF do_put_stale, TypeInv
  <2>2. put' \in Put
    BY <1>4, <2>1 DEF do_put_stale, Put, TypeInv
  <2>3. partial' \in [Files -> Contents]
    BY <1>4 DEF do_put_stale, TypeInv, Contents
  <2> QED
    BY <1>4, <2>2, <2>3 DEF do_put_stale, localVars, syncVars, watchVars, TypeInv
<1>5. CASE load
  BY <1>5 DEF load, localVars, serverVars, watchVars, TypeInv
<1>6. CASE plan
  BY <1>6 DEF plan, localVars, serverVars, watchVars, TypeInv
<1>7. CASE sync_put_done
  <2>1. put' = NoPut /\ remote' \in [Files -> Contents] /\ partial' \in [Files -> Contents]
    BY <1>7, PutTypes DEF sync_put_done
  <2> QED
    BY <1>7, <2>1 DEF sync_put_done, localVars, TypeInv
<1>8. CASE connect
  <2>1. DOMAIN pending' = {} /\ pending' \in [DOMAIN pending' -> {"Upload", "Delete"}]
    BY <1>8 DEF connect
  <2> QED
    BY <1>8, <2>1 DEF connect, localVars, serverVars, syncVars, TypeInv
<1>9. CASE recv_event
  <2>1. rx \in Seq(Event) /\ rx # <<>> /\ rx' = Tail(rx)
    BY <1>9 DEF recv_event, TypeInv
  <2>2. rx' \in Seq(Event) /\ Head(rx) \in Event
    BY <2>1
  <2>3. Head(rx).path \in Files \cup Dirs /\ action_of(Head(rx).kind) \in {"Upload", "Delete"}
    BY <2>2 DEF Event, action_of
  <2>4. DOMAIN pending' \subseteq Files \cup Dirs /\ pending' \in [DOMAIN pending' -> {"Upload", "Delete"}]
    BY <1>9, <2>3 DEF recv_event, TypeInv
  <2> QED
    BY <1>9, <2>2, <2>4 DEF recv_event, localVars, serverVars, syncVars, TypeInv
<1>10. CASE flush
  BY <1>10 DEF flush, localVars, serverVars, syncVars, watchVars, TypeInv
<1>11. CASE flush_put_done
  <2>1. put' = NoPut /\ remote' \in [Files -> Contents] /\ partial' \in [Files -> Contents]
    BY <1>11, PutTypes DEF flush_put_done
  <2> QED
    BY <1>11, <2>1 DEF flush_put_done, localVars, syncVars, TypeInv
<1>12. CASE flushed
  BY <1>12 DEF flushed, localVars, serverVars, syncVars, watchVars, TypeInv
<1>13. CASE session_lost
  <2>1. DOMAIN pending' = {} /\ pending' \in [DOMAIN pending' -> {"Upload", "Delete"}]
    BY <1>13 DEF session_lost
  <2> QED
    BY <1>13, <2>1 DEF session_lost, localVars, serverVars, syncVars, TypeInv
<1>14. CASE stop
  BY <1>14 DEF stop, localVars, serverVars, syncVars, watchVars, TypeInv
<1>15. CASE connection_lost
  BY <1>15 DEF connection_lost, localVars, serverVars, syncVars, TypeInv
<1>16. ASSUME NEW p \in Files, put_probe(p) PROVE TypeInv'
  <2>1. put' = put \/ put' \in Put
    BY <1>16, ProbePut
  <2>2. todo' \subseteq Files
    BY <1>16 DEF put_probe, TypeInv
  <2> QED
    BY <1>16, <2>1, <2>2 DEF put_probe, localVars, serverVars, syncVars, watchVars, TypeInv
<1>17. ASSUME NEW p \in Files, sync_put(p) PROVE TypeInv'
  <2>1. put' \in Put
    BY <1>17 DEF sync_put, Begin, Put, TypeInv
  <2> QED
    BY <1>17, <2>1 DEF sync_put, localVars, serverVars, syncVars, watchVars, TypeInv
<1>18. ASSUME NEW p \in Files, sync_delete(p) PROVE TypeInv'
  <2>1. remote' \in [Files -> Contents]
    BY <1>18 DEF sync_delete, TypeInv, Contents
  <2> QED
    BY <1>18, <2>1 DEF sync_delete, localVars, watchVars, TypeInv
<1>19. ASSUME NEW p \in Files \cup Dirs, flush_upload(p) PROVE TypeInv'
  <2>1. put' = put \/ put' \in Put
    <3>1. CASE p \in Files /\ local[p] # NoFile
      <4>1. Begin(p, 0, FALSE)
        BY <1>19, <3>1 DEF flush_upload
      <4> QED
        BY <3>1, <4>1 DEF Begin, Put, TypeInv
    <3>2. CASE ~(p \in Files /\ local[p] # NoFile)
      BY <1>19, <3>2 DEF flush_upload
    <3> QED
      BY <3>1, <3>2
  <2>2. DOMAIN pending' \subseteq Files \cup Dirs /\ pending' \in [DOMAIN pending' -> {"Upload", "Delete"}]
    BY <1>19, WithoutTypes DEF flush_upload
  <2> QED
    BY <1>19, <2>1, <2>2 DEF flush_upload, localVars, serverVars, syncVars, TypeInv
<1>20. ASSUME NEW p \in Files \cup Dirs, flush_delete(p) PROVE TypeInv'
  <2>1. remote' \in [Files -> Contents]
    BY <1>20 DEF flush_delete, flush_delete_skip, flush_delete_rm, flush_delete_cut, rm,
       TypeInv, Contents
  <2>2. pending' = without(p) \/ pending' = << >>
    BY <1>20 DEF flush_delete, flush_delete_skip, flush_delete_rm, flush_delete_cut
  <2>3. DOMAIN pending' \subseteq Files \cup Dirs /\ pending' \in [DOMAIN pending' -> {"Upload", "Delete"}]
    <3>1. CASE pending' = << >>
      BY <3>1
    <3> QED
      BY <2>2, <3>1, WithoutTypes
  <2> QED
    BY <1>20, <2>1, <2>3 DEF flush_delete, localVars, syncVars, TypeInv
<1>21. ASSUME NEW p \in Files, local_write(p) PROVE TypeInv'
  <2>1. local' \in [Files -> Contents] /\ <<event("Modify", p)>> \in Seq(Event)
    BY <1>21 DEF local_write, TypeInv, Contents, event, Event
  <2>2. dirs' \subseteq Dirs
    BY <1>21 DEF local_write, TypeInv, Dirs
  <2> QED
    BY <1>21, <2>1, <2>2, LocalTypes DEF local_write
<1>22. ASSUME NEW p \in Files, local_remove(p) PROVE TypeInv'
  <2>1. local' \in [Files -> Contents] /\ <<event("Remove", p)>> \in Seq(Event)
    BY <1>22 DEF local_remove, TypeInv, Contents, event, Event
  <2> QED
    BY <1>22, <2>1, LocalTypes DEF local_remove, TypeInv
<1>23. ASSUME NEW p \in Files, other_client(p) PROVE TypeInv'
  <2>1. remote' \in [Files -> Contents]
    BY <1>23 DEF other_client, TypeInv, Contents
  <2>2. partial' \in [Files -> Contents]
    BY <1>23 DEF other_client, TypeInv, Contents
  <2> QED
    BY <1>23, <2>1, <2>2 DEF other_client, localVars, syncVars, watchVars, TypeInv
<1>24. ASSUME NEW d \in Dirs \cup {<<>>}, walk_remote(d) PROVE TypeInv'
  BY <1>24 DEF walk_remote, localVars, serverVars, watchVars, TypeInv
<1>25. ASSUME NEW p \in Files, NEW q \in Files, local_rename(p, q) PROVE TypeInv'
  <2>1. local' \in [Files -> Contents]
    BY <1>25 DEF local_rename, TypeInv, Contents
  <2>2. <<event("From", p), event("To", q)>> \in Seq(Event)
    BY DEF event, Event
  <2> QED
    BY <1>25, <2>1, <2>2, LocalTypes DEF local_rename, TypeInv
<1>26. ASSUME NEW d \in Dirs, local_remove_dir(d) PROVE TypeInv'
  <2>1. PICK es \in Seq(Event) : notify(es, {})
    BY <1>26, RemoveDirEvents
  <2>2. local' \in [Files -> Contents] /\ dirs' \subseteq Dirs
    BY <1>26 DEF local_remove_dir, ExistingWithout, TypeInv, Contents
  <2> QED
    BY <1>26, <2>1, <2>2, LocalTypes DEF local_remove_dir
<1>27. CASE UNCHANGED vars
  BY <1>27 DEF vars, localVars, serverVars, syncVars, watchVars, TypeInv
<1>28. ASSUME NEW d \in Dirs \cup {<<>>}, walk_local(d) PROVE TypeInv'
  <2>1. todo' \subseteq Files
    BY <1>28 DEF walk_local, TypeInv
  <2> QED
    BY <1>28, <2>1 DEF walk_local, localVars, serverVars, watchVars, TypeInv
<1>29. CASE establish
  BY <1>29 DEF establish, localVars, serverVars, watchVars, TypeInv
<1>30. ASSUME NEW d \in Dirs, NEW e \in Dirs, local_rename_dir(d, e) PROVE TypeInv'
  <2>1. local' \in [Files -> Contents]
    BY <1>30, RenameDirLocal
  <2>2. dirs' \subseteq Dirs
    <3>1. \A p \in Below(d) : Ancestors(Moved(p, d, e)) \subseteq Dirs
      BY <1>30 DEF local_rename_dir, Dirs
    <3> QED
      BY <1>30, <3>1 DEF local_rename_dir, ExistingWithout, TypeInv
  <2>3. <<event("From", d), event("To", e)>> \in Seq(Event)
    BY DEF event, Event
  <2>4. PICK silent : notify(<<event("From", d), event("To", e)>>, silent)
    BY <1>30 DEF local_rename_dir
  <2> QED
    BY <1>30, <2>1, <2>2, <2>3, <2>4, LocalTypes DEF local_rename_dir
<1> QED
  BY <1>1, <1>2, <1>3, <1>4, <1>5, <1>6, <1>7, <1>8, <1>9, <1>10, <1>11, <1>12, <1>13,
     <1>14, <1>15, <1>16, <1>17, <1>18, <1>19, <1>20, <1>21, <1>22, <1>23, <1>24, <1>25,
     <1>26, <1>27, <1>28, <1>29, <1>30
     DEF Next, put_command, sync_command, watch_command, surroundings
-----------------------------------------------------------------------------
(***************************************************************************)
(* sync.                                                                   *)
(***************************************************************************)

\* A prefix of a prefix is a prefix.
LEMMA PrefixOfPrefix ==
  ASSUME NEW T, NEW p \in Seq(T), NEW i \in 0..Len(p), NEW j \in 0..i
  PROVE  /\ SubSeq(p, 1, i) \in Seq(T) /\ Len(SubSeq(p, 1, i)) = i
         /\ SubSeq(SubSeq(p, 1, i), 1, j) = SubSeq(p, 1, j)
<1>1. PICK q : q = SubSeq(p, 1, i)
  OBVIOUS
<1>2. q \in Seq(T) /\ Len(q) = i /\ \A k \in 1..i : q[k] = p[k]
  BY <1>1
<1>3. SubSeq(q, 1, j) = SubSeq(p, 1, j)
  BY <1>2
<1> QED
  BY <1>1, <1>2, <1>3

LEMMA AncestorsUp ==
  ASSUME NEW p \in Files, NEW a \in Ancestors(p)
  PROVE  Ancestors(a) \subseteq Ancestors(p)
<1>1. PICK T : p \in Seq(T)
  BY ClientUploadAssumption
<1>2. PICK i \in 1..(Len(p) - 1) : a = SubSeq(p, 1, i)
  BY DEF Ancestors
<1>3. Len(p) \in Nat /\ i \in 0..Len(p)
  BY <1>1, <1>2
<1>4. Len(a) = i
  BY <1>1, <1>2, <1>3, PrefixOfPrefix
<1> SUFFICES ASSUME NEW j \in 1..(i - 1) PROVE SubSeq(a, 1, j) \in Ancestors(p)
  BY <1>4 DEF Ancestors
<1>5. j \in 0..i /\ j \in 1..(Len(p) - 1)
  BY <1>2, <1>3
<1>6. SubSeq(a, 1, j) = SubSeq(p, 1, j)
  BY <1>1, <1>2, <1>3, <1>5, PrefixOfPrefix
<1> QED
  BY <1>5, <1>6 DEF Ancestors

\* A directory above p holds p or a directory above p.
LEMMA ChildToward ==
  ASSUME NEW p \in Files, NEW d \in Above(p)
  PROVE  Parent(p) = d \/ \E c \in Ancestors(p) : Parent(c) = d
<1>1. PICK T : p \in Seq(T)
  BY ClientUploadAssumption
<1>2. PICK n \in Nat : n = Len(p) /\ n > 0
  <2>1. p # <<>>
    BY ClientUploadAssumption
  <2> QED
    BY <1>1, <2>1
<1>3. PICK i \in 0..(n - 1) : d = SubSeq(p, 1, i)
  <2>1. CASE d = <<>>
    <3>1. SubSeq(p, 1, 0) = <<>>
      BY <1>1
    <3>2. 0 \in 0..(n - 1)
      BY <1>2
    <3> QED
      BY <2>1, <3>1, <3>2
  <2>2. CASE d \in Ancestors(p)
    <3>1. PICK j \in 1..(n - 1) : d = SubSeq(p, 1, j)
      BY <1>2, <2>2 DEF Ancestors
    <3>2. j \in 0..(n - 1)
      BY <1>2
    <3> QED
      BY <3>1, <3>2
  <2> QED
    BY <2>1, <2>2 DEF Above
<1>4. CASE i = n - 1
  BY <1>2, <1>3, <1>4 DEF Parent, Front
<1>5. CASE i < n - 1
  <2>1. PICK c : c = SubSeq(p, 1, i + 1)
    OBVIOUS
  <2>2. i + 1 \in 1..(n - 1) /\ i + 1 \in 0..n /\ i \in 0..(i + 1) /\ (i + 1) - 1 = i
    BY <1>2, <1>5
  <2>3. Len(c) = i + 1 /\ SubSeq(c, 1, i) = SubSeq(p, 1, i)
    BY <1>1, <1>2, <2>1, <2>2, PrefixOfPrefix
  <2>4. c \in Ancestors(p)
    BY <1>2, <2>1, <2>2 DEF Ancestors
  <2>5. Parent(c) = d
    BY <1>3, <2>2, <2>3 DEF Parent, Front
  <2> QED
    BY <2>4, <2>5
<1> QED
  BY <1>2, <1>4, <1>5

LEMMA DirsSame ==
  ASSUME DirsInv, UNCHANGED <<local, dirs>>
  PROVE  DirsInv'
BY DEF DirsInv

\* A file that does not lie below d keeps its directories when d goes.
LEMMA DirsWithout ==
  ASSUME DirsInv, NEW d, NEW p \in Files \ Below(d), local[p] # NoFile
  PROVE  Ancestors(p) \subseteq ExistingWithout(d)
<1>1. Ancestors(p) \subseteq dirs /\ d \notin Ancestors(p)
  BY DEF DirsInv, Below
<1>2. \A a \in Ancestors(p) : Ancestors(a) \subseteq Ancestors(p)
  BY AncestorsUp
<1> QED
  BY <1>1, <1>2 DEF ExistingWithout

LEMMA DirsStep == ClientInv /\ [Next]_vars => DirsInv'
<1> SUFFICES ASSUME ClientInv, [Next]_vars PROVE DirsInv'
  OBVIOUS
<1> DirsInv /\ TypeInv
  BY DEF ClientInv
<1>1. CASE UNCHANGED <<local, dirs>>
  BY <1>1, DirsSame
<1>2. ASSUME NEW p \in Files, local_write(p) PROVE DirsInv'
  <2>1. dirs' = dirs \cup Ancestors(p) /\ \A q \in Files : q # p => local'[q] = local[q]
    BY <1>2 DEF local_write, TypeInv
  <2> QED
    BY <2>1 DEF DirsInv
<1>3. ASSUME NEW p \in Files, local_remove(p) PROVE DirsInv'
  BY <1>3 DEF local_remove, DirsInv, TypeInv
<1>4. ASSUME NEW p \in Files, NEW q \in Files, local_rename(p, q) PROVE DirsInv'
  <2>1. /\ dirs' = dirs /\ Ancestors(q) \subseteq dirs
        /\ local' = [local EXCEPT ![p] = NoFile, ![q] = local[p]]
    BY <1>4 DEF local_rename
  <2>2. \A x \in Files : x # q /\ local'[x] # NoFile => local[x] # NoFile
    BY <2>1 DEF TypeInv
  <2> QED
    BY <2>1, <2>2 DEF DirsInv
<1>5. ASSUME NEW d \in Dirs, local_remove_dir(d) PROVE DirsInv'
  <2>1. /\ dirs' = ExistingWithout(d)
        /\ \A p \in Files : local'[p] # NoFile => p \notin Below(d) /\ local[p] # NoFile
    BY <1>5 DEF local_remove_dir
  <2> QED
    BY <2>1, DirsWithout DEF DirsInv
<1>6. ASSUME NEW d \in Dirs, NEW e \in Dirs, local_rename_dir(d, e) PROVE DirsInv'
  <2>1. dirs' = ExistingWithout(d) \cup {e} \cup UNION {Ancestors(Moved(p, d, e)) : p \in Below(d)}
    BY <1>6 DEF local_rename_dir
  <2>2. ASSUME NEW p \in Files, local'[p] # NoFile PROVE Ancestors(p) \subseteq dirs'
    <3>1. CASE p \notin Below(d) /\ local[p] # NoFile
      BY <2>1, <3>1, DirsWithout
    <3>2. CASE \E q \in Below(d) : p = Moved(q, d, e)
      BY <2>1, <3>2
    <3> QED
      BY <1>6, <2>2, <3>1, <3>2, RenameDirLocal
  <2> QED
    BY <2>2 DEF DirsInv
<1> QED
  BY <1>1, <1>2, <1>3, <1>4, <1>5, <1>6
     DEF Next, put_command, sync_command, watch_command, surroundings, localVars, vars,
         probe_fails, put_send, put_done, do_put_stale, put_probe, load, walk_local,
         establish, plan, walk_remote, sync_put, sync_put_done, sync_delete, connect,
         recv_event, flush, flush_put_done, flushed, session_lost, stop, flush_upload,
         flush_delete, connection_lost, other_client

LEMMA SyncSame ==
  ASSUME SyncInv, UNCHANGED <<unreadable, rules, walked, toDelete, removed, failed>>,
         pc' = "walk" => pc = "walk" /\ UNCHANGED <<todo, stack>>,
         pc' = "list" => pc = "list" /\ todo' = todo,
         pc' \notin {"upload", "exited"} => pc \notin {"upload", "exited"},
         removed # {} => todo' = todo /\ put' = put
  PROVE  SyncInv'
<1>1. \A p : sync_excludes(p)' <=> sync_excludes(p)
  BY DEF sync_excludes, matches
<1>2. \A p : Orphan(p)' <=> Orphan(p)
  BY <1>1 DEF Orphan, under_unreadable
<1>3. (pc = "walk" => \A p \in Files : Accounted(p))'
  BY <1>1, <1>2 DEF SyncInv, Accounted
<1>4. (pc = "list" => \A p \in Files \ todo : Orphan(p) \/ sync_excludes(p))'
  BY <1>1, <1>2 DEF SyncInv
<1>5. (\A p \in toDelete \cup removed : p \in Files /\ Orphan(p))'
  BY <1>2 DEF SyncInv
<1>6. (pc \notin {"upload", "exited"} => toDelete = {} /\ removed = {})'
  BY DEF SyncInv
<1>7. (removed # {} => ~failed /\ todo = {} /\ put = NoPut)'
  BY DEF SyncInv
<1> QED
  BY <1>3, <1>4, <1>5, <1>6, <1>7 DEF SyncInv

\* One directory of the local walk.
LEMMA WalkAccounts ==
  ASSUME TypeInv, DirsInv, NEW d, walk_local(d), NEW p \in Files, Accounted(p)
  PROVE  Accounted(p)'
<1> DEFINE files == {x \in Files : /\ Parent(x) = d /\ local[x] # NoFile
                                   /\ x # IgnoreFile /\ ~matches(x, FALSE)}
           subdirs == {e \in dirs : Parent(e) = d /\ ~matches(e, TRUE)}
           entries == IF d \in dirs \cup {<<>>} THEN files \cup subdirs ELSE {}
<1>1. /\ UNCHANGED <<unreadable, rules>>
      /\ walked' = [x \in Files |-> IF d \in Above(x) THEN local[x] ELSE walked[x]]
  BY DEF walk_local, localVars
<1>2. PICK seen : /\ d \notin unreadable => seen = entries
                  /\ todo' = todo \cup (seen \cap Files)
                  /\ stack' = (stack \ {d}) \cup (seen \cap Dirs)
  <2>1. PICK seen \in IF d \in unreadable THEN SUBSET entries ELSE {entries} :
          /\ todo' = todo \cup (seen \cap Files)
          /\ stack' = (stack \ {d}) \cup (seen \cap Dirs)
    BY DEF walk_local
  <2> HIDE DEF entries
  <2>2. d \notin unreadable => seen = entries
    BY <2>1
  <2> QED
    BY <2>1, <2>2
<1>3. sync_excludes(p)' <=> sync_excludes(p)
  BY <1>1 DEF sync_excludes, matches
<1>4. under_unreadable(p)' <=> under_unreadable(p)
  BY <1>1 DEF under_unreadable
<1>5. CASE sync_excludes(p) \/ under_unreadable(p) \/ p = IgnoreFile
  BY <1>3, <1>4, <1>5 DEF Accounted, Orphan
<1>6. CASE d \notin Above(p)
  <2>1. walked'[p] = walked[p]
    BY <1>1, <1>6
  <2>2. Orphan(p) => Orphan(p)'
    BY <1>3, <1>4, <2>1 DEF Orphan
  <2> HIDE DEF entries
  <2>3. Above(p) \cap stack # {} => Above(p) \cap stack' # {}
    BY <1>2, <1>6
  <2> QED
    BY <1>2, <1>3, <2>2, <2>3 DEF Accounted
<1>7. CASE /\ d \in Above(p)
           /\ ~sync_excludes(p) /\ ~under_unreadable(p) /\ p # IgnoreFile
  <2>1. walked'[p] = local[p] /\ seen = entries
    BY <1>1, <1>2, <1>7 DEF under_unreadable
  <2>2. CASE local[p] = NoFile
    BY <1>3, <1>7, <2>1, <2>2 DEF Accounted, Orphan
  <2>3. CASE local[p] # NoFile
    <3>1. Ancestors(p) \subseteq dirs
      BY <2>3 DEF DirsInv
    <3>2. entries = files \cup subdirs
      BY <1>7, <3>1 DEF Above
    <3>3. CASE Parent(p) = d
      <4>1. p \in files
        BY <1>7, <2>3, <3>3 DEF sync_excludes
      <4> HIDE DEF files, subdirs, entries
      <4> QED
        BY <1>2, <2>1, <3>2, <4>1 DEF Accounted
    <3>4. CASE \E c \in Ancestors(p) : Parent(c) = d
      <4>1. PICK c \in Ancestors(p) : Parent(c) = d
        BY <3>4
      <4>2. c \in subdirs
        BY <1>7, <3>1, <4>1 DEF sync_excludes
      <4>3. c \in Dirs /\ c \in Above(p)
        BY <4>1 DEF Dirs, Above
      <4> HIDE DEF files, subdirs, entries
      <4>4. c \in stack'
        BY <1>2, <2>1, <3>2, <4>2, <4>3
      <4> QED
        BY <4>3, <4>4 DEF Accounted
    <3> QED
      BY <1>7, <3>3, <3>4, ChildToward
  <2> QED
    BY <2>2, <2>3
<1> QED
  BY <1>5, <1>6, <1>7

LEMMA SyncStep == ClientInv /\ [Next]_vars => SyncInv'
<1> SUFFICES ASSUME ClientInv, [Next]_vars PROVE SyncInv'
  OBVIOUS
<1> SyncInv /\ TypeInv
  BY DEF ClientInv
<1>1. CASE probe_fails
  BY <1>1, SyncSame DEF probe_fails, localVars, syncVars
<1>2. CASE put_send
  BY <1>2, SyncSame DEF put_send, localVars, syncVars, SyncInv
<1>3. CASE put_done
  BY <1>3, SyncSame DEF put_done, localVars, syncVars, SyncInv
<1>4. CASE do_put_stale
  BY <1>4, SyncSame DEF do_put_stale, localVars, syncVars, SyncInv
<1>5. CASE load
  <2>1. /\ pc = "next" /\ pc' = "walk" /\ stack' = {<<>>}
        /\ UNCHANGED <<toDelete, removed>>
    BY <1>5 DEF load
  <2>2. toDelete = {} /\ removed = {}
    BY <2>1 DEF SyncInv
  <2>3. \A p \in Files : Accounted(p)'
    BY <2>1 DEF Accounted, Above
  <2> QED
    BY <2>1, <2>2, <2>3 DEF SyncInv
<1>6. CASE plan
  <2>1. /\ pc = "list" /\ pc' \in {"upload", "exited"}
        /\ UNCHANGED <<unreadable, rules, walked, removed, put>>
        /\ \A p \in toDelete' : p \in listed /\ p \notin todo /\ ~sync_excludes(p)
    BY <1>6 DEF plan, localVars
  <2>2. removed = {}
    BY <2>1 DEF SyncInv
  <2>3. ASSUME NEW p \in toDelete' PROVE p \in Files /\ Orphan(p)'
    <3>1. p \in Files
      BY <2>1 DEF TypeInv
    <3>2. Orphan(p)
      BY <2>1, <3>1 DEF SyncInv
    <3> QED
      BY <2>1, <3>1, <3>2 DEF Orphan, under_unreadable, sync_excludes, matches
  <2> QED
    BY <2>1, <2>2, <2>3 DEF SyncInv
<1>7. CASE sync_put_done
  <2>1. /\ put # NoPut /\ pc = "upload"
        /\ UNCHANGED <<unreadable, rules, walked, toDelete, removed, pc>>
    BY <1>7 DEF sync_put_done, do_put_ok, do_put_err, committed, localVars
  <2>2. removed = {}
    BY <2>1 DEF SyncInv
  <2>3. \A p : Orphan(p)' <=> Orphan(p)
    BY <2>1 DEF Orphan, under_unreadable, sync_excludes, matches
  <2> QED
    BY <2>1, <2>2, <2>3 DEF SyncInv
<1>8. CASE connect
  BY <1>8, SyncSame DEF connect, localVars, syncVars
<1>9. CASE recv_event
  BY <1>9, SyncSame DEF recv_event, localVars, syncVars
<1>10. CASE flush
  BY <1>10, SyncSame DEF flush, localVars, syncVars
<1>11. CASE flush_put_done
  BY <1>11, SyncSame DEF flush_put_done, localVars, syncVars, SyncInv
<1>12. CASE flushed
  BY <1>12, SyncSame DEF flushed, localVars, syncVars
<1>13. CASE session_lost
  BY <1>13, SyncSame DEF session_lost, localVars, syncVars
<1>14. CASE stop
  BY <1>14, SyncSame DEF stop, localVars, syncVars
<1>15. CASE connection_lost
  BY <1>15, SyncSame DEF connection_lost, localVars, syncVars
<1>16. ASSUME NEW p \in Files, put_probe(p) PROVE SyncInv'
  BY <1>16, SyncSame DEF put_probe, localVars, syncVars, SyncInv
<1>17. ASSUME NEW p \in Files, sync_put(p) PROVE SyncInv'
  BY <1>17, SyncSame DEF sync_put, localVars, syncVars, SyncInv
<1>18. ASSUME NEW p \in Files, sync_delete(p) PROVE SyncInv'
  <2>1. /\ ~failed /\ todo = {} /\ put = NoPut /\ pc = "upload" /\ p \in toDelete
        /\ removed' \subseteq removed \cup {p} /\ toDelete' = toDelete \ {p}
        /\ UNCHANGED <<unreadable, rules, walked, failed, todo, put, pc>>
    BY <1>18 DEF sync_delete, localVars
  <2>2. \A q : Orphan(q)' <=> Orphan(q)
    BY <2>1 DEF Orphan, under_unreadable, sync_excludes, matches
  <2> QED
    BY <2>1, <2>2 DEF SyncInv
<1>19. ASSUME NEW p \in Files \cup Dirs, flush_upload(p) PROVE SyncInv'
  BY <1>19, SyncSame DEF flush_upload, localVars, syncVars, SyncInv
<1>20. ASSUME NEW p \in Files \cup Dirs, flush_delete(p) PROVE SyncInv'
  BY <1>20, SyncSame DEF flush_delete, flush_delete_skip, flush_delete_rm, flush_delete_cut,
     localVars, syncVars
<1>21. ASSUME NEW p \in Files, local_write(p) PROVE SyncInv'
  BY <1>21, SyncSame DEF local_write, local_change, syncVars
<1>22. ASSUME NEW p \in Files, local_remove(p) PROVE SyncInv'
  BY <1>22, SyncSame DEF local_remove, local_change, syncVars
<1>23. ASSUME NEW p \in Files, other_client(p) PROVE SyncInv'
  BY <1>23, SyncSame DEF other_client, localVars, syncVars
<1>24. ASSUME NEW d \in Dirs \cup {<<>>}, walk_remote(d) PROVE SyncInv'
  BY <1>24, SyncSame DEF walk_remote, localVars
<1>25. ASSUME NEW p \in Files, NEW q \in Files, local_rename(p, q) PROVE SyncInv'
  BY <1>25, SyncSame DEF local_rename, local_change, syncVars
<1>26. ASSUME NEW d \in Dirs, local_remove_dir(d) PROVE SyncInv'
  BY <1>26, SyncSame DEF local_remove_dir, local_change, syncVars
<1>27. CASE UNCHANGED vars
  BY <1>27, SyncSame DEF vars, localVars, syncVars
<1>28. ASSUME NEW d \in Dirs \cup {<<>>}, walk_local(d) PROVE SyncInv'
  <2>1. pc = "walk" /\ pc' = "walk" /\ UNCHANGED <<toDelete, removed>>
    BY <1>28 DEF walk_local
  <2>2. toDelete = {} /\ removed = {}
    BY <2>1 DEF SyncInv
  <2>3. \A p \in Files : Accounted(p)'
    BY <1>28, <2>1, WalkAccounts DEF SyncInv, ClientInv
  <2> QED
    BY <2>1, <2>2, <2>3 DEF SyncInv
<1>29. CASE establish
  <2>1. /\ pc = "walk" /\ stack = {} /\ pc' \in {"list", "exited"}
        /\ UNCHANGED <<unreadable, rules, walked, todo, toDelete, removed>>
    BY <1>29 DEF establish, localVars
  <2>2. toDelete = {} /\ removed = {}
    BY <2>1 DEF SyncInv
  <2>3. ASSUME NEW p \in Files \ todo PROVE Orphan(p)' \/ sync_excludes(p)'
    <3>1. Orphan(p) \/ sync_excludes(p)
      BY <2>1 DEF SyncInv, Accounted
    <3> QED
      BY <2>1, <3>1 DEF Orphan, under_unreadable, sync_excludes, matches
  <2> QED
    BY <2>1, <2>2, <2>3 DEF SyncInv
<1>30. ASSUME NEW d \in Dirs, NEW e \in Dirs, local_rename_dir(d, e) PROVE SyncInv'
  BY <1>30, SyncSame DEF local_rename_dir, local_change, syncVars
<1> QED
  BY <1>1, <1>2, <1>3, <1>4, <1>5, <1>6, <1>7, <1>8, <1>9, <1>10, <1>11, <1>12, <1>13,
     <1>14, <1>15, <1>16, <1>17, <1>18, <1>19, <1>20, <1>21, <1>22, <1>23, <1>24, <1>25,
     <1>26, <1>27, <1>28, <1>29, <1>30
     DEF Next, put_command, sync_command, watch_command, surroundings
-----------------------------------------------------------------------------
(***************************************************************************)
(* watch.                                                                  *)
(***************************************************************************)

\* What WatchInv says of a path none of whose events is in the channel.
PathInv(p) ==
  /\ p \in DOMAIN pending => Fits(pending[p], p)
  /\ put # NoPut /\ put.path = p => put.data = local[p]
  /\ \/ p \in DOMAIN pending
     \/ put # NoPut /\ put.path = p
     \/ p \in lost \cup skipped
     \/ remote[p] = local[p]

\* A step that leaves the channel and the disk alone.
LEMMA ChannelSame ==
  ASSUME WatchInv, cmd.cmd = "watch", pc # "exited", UNCHANGED <<cmd, rx, local, unnoticed>>,
         (pc \in {"connect", "watching"} => put = NoPut)',
         (pc = "connect" => DOMAIN pending = {})',
         \A p \in Files : PathInv(p) => PathInv(p)'
  PROVE  WatchInv'
<1>1. \A p : Notified(p)' <=> Notified(p)
  BY DEF Notified
<1>2. (\A i \in DOMAIN rx : rx[i].path \in Files \ unnoticed /\ LastOfPath(i)
        => Fits(action_of(rx[i].kind), rx[i].path))'
  BY DEF WatchInv, LastOfPath, Fits, action_of
<1>3. \A p \in Files \ unnoticed : ~Notified(p) => PathInv(p)
  BY DEF WatchInv, PathInv
<1>4. \A p \in Files \ unnoticed' : ~Notified(p)' => PathInv(p)'
  BY <1>1, <1>3
<1> QED
  BY <1>2, <1>4 DEF WatchInv, PathInv

LEMMA WatchElsewhere ==
  ASSUME cmd' = cmd, cmd.cmd # "watch" \/ pc' = "exited"
  PROVE  WatchInv'
BY DEF WatchInv

LEMMA WatchStep == ClientInv /\ [Next]_vars => WatchInv'
<1> SUFFICES ASSUME ClientInv, [Next]_vars PROVE WatchInv'
  OBVIOUS
<1> TypeInv /\ PlaceInv /\ WatchInv
  BY DEF ClientInv
<1>1. CASE probe_fails
  BY <1>1, WatchElsewhere DEF probe_fails
<1>2. CASE put_send
  BY <1>2, WatchElsewhere DEF put_send
<1>3. CASE put_done
  BY <1>3, WatchElsewhere DEF put_done
<1>4. CASE do_put_stale
  <2>1. CASE cmd.cmd # "watch" \/ pc = "exited"
    BY <1>4, <2>1, WatchElsewhere DEF do_put_stale
  <2>2. CASE cmd.cmd = "watch" /\ pc # "exited"
    <3>1. /\ put \in Put /\ put # NoPut
          /\ put' = [put EXCEPT !.offset = 0, !.data = local[put.path]]
          /\ UNCHANGED <<cmd, pc, local, remote, rx, pending, lost, skipped, unnoticed>>
      BY <1>4 DEF do_put_stale, TypeInv, localVars, watchVars
    <3>2. put'.path = put.path /\ put'.data = local[put.path]
      BY <3>1 DEF Put
    <3>3. pc \notin {"connect", "watching"}
      BY <2>2, <3>1 DEF WatchInv
    <3>4. put' # NoPut
      <4>1. put' \in Put
        BY <3>1 DEF Put, TypeInv
      <4> QED
        BY <4>1, ClientUploadAssumption
    <3>5. \A p \in Files : PathInv(p) => PathInv(p)'
      BY <3>1, <3>2, <3>4 DEF PathInv, Fits
    <3> QED
      BY <2>2, <3>1, <3>3, <3>5, ChannelSame DEF WatchInv
  <2> QED
    BY <2>1, <2>2
<1>5. CASE load
  BY <1>5, WatchElsewhere DEF load
<1>6. CASE plan
  BY <1>6, WatchElsewhere DEF plan, PlaceInv
<1>7. CASE sync_put_done
  BY <1>7, WatchElsewhere DEF sync_put_done
<1>8. CASE connect
  <2>1. /\ cmd.cmd = "watch" /\ pc = "connect" /\ pc' = "watching" /\ pending' = << >>
        /\ UNCHANGED <<cmd, local, remote, put, rx, lost, skipped, unnoticed>>
    BY <1>8 DEF connect, localVars, serverVars
  <2>2. DOMAIN pending = {} /\ DOMAIN pending' = {}
    BY <2>1 DEF WatchInv
  <2>3. \A p \in Files : PathInv(p) => PathInv(p)'
    BY <2>1, <2>2 DEF PathInv
  <2> QED
    BY <2>1, <2>3, ChannelSame DEF WatchInv
<1>9. CASE recv_event
  <2>1. /\ pc = "watching" /\ pc' = pc /\ rx # <<>> /\ rx' = Tail(rx)
        /\ UNCHANGED <<cmd, local, remote, put, lost, skipped, unnoticed>>
    BY <1>9 DEF recv_event, localVars, serverVars
  <2>2. cmd.cmd = "watch" /\ put = NoPut /\ rx \in Seq(Event)
    BY <2>1 DEF PlaceInv, WatchInv, TypeInv
  <2>3. PICK n \in Nat : n = Len(rx) /\ n > 0
    BY <2>1, <2>2
  <2>4. /\ DOMAIN rx = 1..n /\ DOMAIN rx' = 1..(n - 1) /\ Head(rx) = rx[1]
        /\ \A i \in 1..(n - 1) : rx'[i] = rx[i + 1]
    BY <2>1, <2>2, <2>3
  <2>5. PICK h : h = Head(rx).path
    OBVIOUS
  <2>6. /\ DOMAIN pending' = DOMAIN pending \cup {h}
        /\ pending'[h] = action_of(rx[1].kind)
        /\ \A p \in DOMAIN pending : p # h => pending'[p] = pending[p]
    BY <1>9, <2>4, <2>5 DEF recv_event
  <2>7. (\A i \in DOMAIN rx : rx[i].path \in Files \ unnoticed /\ LastOfPath(i)
          => Fits(action_of(rx[i].kind), rx[i].path))'
    <3> SUFFICES ASSUME NEW i \in 1..(n - 1), rx'[i].path \in Files \ unnoticed, LastOfPath(i)'
                 PROVE  Fits(action_of(rx[i].kind), rx[i].path)'
      BY <2>1, <2>4
    <3>1. i + 1 \in 1..n
      BY <2>3
    <3>2. LastOfPath(i + 1)
      <4> SUFFICES ASSUME NEW j \in 1..n, j > i + 1 PROVE rx[j].path # rx[i + 1].path
        BY <2>4 DEF LastOfPath
      <4>1. j - 1 \in 1..(n - 1) /\ j - 1 > i /\ (j - 1) + 1 = j
        BY <2>3
      <4>2. rx'[j - 1].path # rx'[i].path
        BY <2>4, <4>1 DEF LastOfPath
      <4>3. rx'[j - 1] = rx[j]
        BY <2>4, <4>1
      <4> QED
        BY <2>4, <4>2, <4>3
    <3>3. Fits(action_of(rx[i + 1].kind), rx[i + 1].path)
      BY <2>1, <2>2, <2>4, <3>1, <3>2 DEF WatchInv
    <3> QED
      BY <2>1, <2>4, <3>3 DEF Fits, action_of
  <2>8. ASSUME NEW p \in Files \ unnoticed, ~Notified(p)' PROVE PathInv(p)'
    <3>1. \A i \in 1..(n - 1) : rx[i + 1].path # p
      BY <2>4, <2>8 DEF Notified
    <3>2. \A j \in 1..n : j > 1 => rx[j].path # p
      <4> SUFFICES ASSUME NEW j \in 1..n, j > 1 PROVE rx[j].path # p
        OBVIOUS
      <4>1. j - 1 \in 1..(n - 1) /\ (j - 1) + 1 = j
        BY <2>3
      <4> QED
        BY <3>1, <4>1
    <3>3. CASE p = h
      <4>1. 1 \in DOMAIN rx /\ LastOfPath(1)
        BY <2>3, <2>4, <2>5, <3>2, <3>3 DEF LastOfPath
      <4>2. Fits(action_of(rx[1].kind), p)
        BY <2>1, <2>2, <2>4, <2>5, <3>3, <4>1 DEF WatchInv
      <4> QED
        BY <2>1, <2>2, <2>6, <3>3, <4>2 DEF PathInv, Fits, action_of
    <3>4. CASE p # h
      <4>1. ~Notified(p)
        BY <2>3, <2>4, <2>5, <3>2, <3>4 DEF Notified
      <4>2. PathInv(p)
        BY <2>1, <2>2, <4>1 DEF WatchInv, PathInv
      <4> QED
        BY <2>1, <2>2, <2>6, <3>4, <4>2 DEF PathInv, Fits
    <3> QED
      BY <3>3, <3>4
  <2> QED
    BY <2>1, <2>2, <2>7, <2>8 DEF WatchInv, PathInv
<1>10. CASE flush
  <2>1. /\ pc = "watching" /\ pc' = "flush"
        /\ UNCHANGED <<cmd, local, remote, put, rx, pending, lost, skipped, unnoticed>>
    BY <1>10 DEF flush, localVars, serverVars, watchVars
  <2>2. cmd.cmd = "watch"
    BY <2>1 DEF PlaceInv
  <2>3. \A p \in Files : PathInv(p) => PathInv(p)'
    BY <2>1 DEF PathInv, Fits
  <2> QED
    BY <2>1, <2>2, <2>3, ChannelSame
<1>11. CASE flush_put_done
  <2>1. /\ pc = "flush" /\ pc' = pc /\ put \in Put /\ put # NoPut /\ put' = NoPut
        /\ skipped' = skipped \ {put.path}
        /\ UNCHANGED <<cmd, local, rx, pending, unnoticed>>
    BY <1>11, PutTypes DEF flush_put_done, do_put_ok, do_put_err, committed, localVars
  <2>2. cmd.cmd = "watch"
    BY <2>1 DEF PlaceInv
  <2>3. ASSUME NEW p \in Files, PathInv(p) PROVE PathInv(p)'
    <3>1. CASE p # put.path
      <4>1. p \in lost \cup skipped => p \in lost' \cup skipped'
        BY <1>11, <2>1, <3>1 DEF flush_put_done
      <4>2. remote'[p] = remote[p]
        BY <1>11, <3>1, PutTypes DEF flush_put_done, TypeInv
      <4> QED
        BY <2>1, <2>3, <3>1, <4>1, <4>2 DEF PathInv, Fits
    <3>2. CASE p = put.path
      <4>1. put.data = local[p]
        BY <2>1, <2>3, <3>2 DEF PathInv
      <4>2. CASE do_put_ok
        <5>1. remote'[p] = local[p]
          BY <3>2, <4>1, <4>2 DEF do_put_ok, committed, sent, TypeInv
        <5> QED
          BY <2>1, <2>3, <5>1 DEF PathInv, Fits
      <4>3. CASE do_put_err /\ lost' = lost \cup {put.path}
        BY <2>1, <2>3, <3>2, <4>3 DEF PathInv, Fits
      <4> QED
        BY <1>11, <4>2, <4>3 DEF flush_put_done
    <3> QED
      BY <3>1, <3>2
  <2> QED
    BY <2>1, <2>2, <2>3, ChannelSame
<1>12. CASE flushed
  <2>1. /\ pc = "flush" /\ pc' = "watching" /\ put = NoPut
        /\ UNCHANGED <<cmd, local, remote, put, rx, pending, lost, skipped, unnoticed>>
    BY <1>12 DEF flushed, localVars, serverVars, watchVars
  <2>2. cmd.cmd = "watch"
    BY <2>1 DEF PlaceInv
  <2>3. \A p \in Files : PathInv(p) => PathInv(p)'
    BY <2>1 DEF PathInv, Fits
  <2> QED
    BY <2>1, <2>2, <2>3, ChannelSame
<1>13. CASE session_lost
  <2>1. /\ pc = "watching" /\ pc' = "connect" /\ lost' = lost \cup DOMAIN pending
        /\ pending' = << >>
        /\ UNCHANGED <<cmd, local, remote, put, rx, skipped, unnoticed>>
    BY <1>13 DEF session_lost, localVars, serverVars
  <2>2. cmd.cmd = "watch" /\ put = NoPut /\ DOMAIN pending' = {}
    BY <2>1 DEF PlaceInv, WatchInv
  <2>3. \A p \in Files : PathInv(p) => PathInv(p)'
    BY <2>1, <2>2 DEF PathInv
  <2> QED
    BY <2>1, <2>2, <2>3, ChannelSame
<1>14. CASE stop
  BY <1>14, WatchElsewhere DEF stop
<1>15. CASE connection_lost
  <2>1. UNCHANGED <<cmd, pc, local, remote, put, rx, pending, lost, skipped, unnoticed>>
    BY <1>15 DEF connection_lost, localVars, serverVars
  <2>2. \A p \in Files : PathInv(p) => PathInv(p)'
    BY <2>1 DEF PathInv, Fits
  <2> QED
    BY <2>1, <2>2, ChannelSame, WatchElsewhere DEF WatchInv
<1>16. ASSUME NEW p \in Files, put_probe(p) PROVE WatchInv'
  BY <1>16, WatchElsewhere DEF put_probe
<1>17. ASSUME NEW p \in Files, sync_put(p) PROVE WatchInv'
  BY <1>17, WatchElsewhere DEF sync_put, PlaceInv
<1>18. ASSUME NEW p \in Files, sync_delete(p) PROVE WatchInv'
  BY <1>18, WatchElsewhere DEF sync_delete, PlaceInv
<1>19. ASSUME NEW p \in Files \cup Dirs, flush_upload(p) PROVE WatchInv'
  <2>1. /\ pc = "flush" /\ pc' = pc /\ put = NoPut
        /\ p \in DOMAIN pending /\ pending[p] = "Upload" /\ pending' = without(p)
        /\ UNCHANGED <<cmd, local, remote, rx, lost, skipped, unnoticed>>
    BY <1>19 DEF flush_upload, localVars, serverVars
  <2>2. cmd.cmd = "watch"
    BY <2>1 DEF PlaceInv
  <2>3. /\ DOMAIN pending' = DOMAIN pending \ {p}
        /\ \A q \in DOMAIN pending' : pending'[q] = pending[q]
    BY <2>1 DEF without
  <2>4. \/ ~(p \in Files /\ local[p] # NoFile) /\ put' = put
        \/ p \in Files /\ local[p] # NoFile /\ put' # NoPut /\ put'.path = p /\ put'.data = local[p]
    <3>1. CASE ~(p \in Files /\ local[p] # NoFile)
      BY <1>19, <3>1 DEF flush_upload
    <3>2. CASE p \in Files /\ local[p] # NoFile
      <4>1. Begin(p, 0, FALSE)
        BY <1>19, <3>2 DEF flush_upload
      <4>2. put' \in Put
        BY <3>2, <4>1 DEF Begin, Put, TypeInv
      <4> QED
        BY <3>2, <4>1, <4>2, ClientUploadAssumption DEF Begin
    <3> QED
      BY <3>1, <3>2
  <2>5. ASSUME NEW q \in Files, PathInv(q) PROVE PathInv(q)'
    <3>1. CASE q # p
      BY <2>1, <2>3, <2>4, <2>5, <3>1 DEF PathInv, Fits
    <3>2. CASE q = p
      <4>1. local[p] # NoFile
        BY <2>1, <2>5, <3>2 DEF PathInv, Fits
      <4> QED
        BY <2>1, <2>3, <2>4, <3>2, <4>1 DEF PathInv
    <3> QED
      BY <3>1, <3>2
  <2> QED
    BY <2>1, <2>2, <2>5, ChannelSame
<1>20. ASSUME NEW p \in Files \cup Dirs, flush_delete(p) PROVE WatchInv'
  <2>1. /\ pc = "flush" /\ put = NoPut /\ p \in DOMAIN pending /\ pending[p] = "Delete"
        /\ UNCHANGED <<cmd, local, rx, put, unnoticed>>
    BY <1>20 DEF flush_delete, localVars
  <2>2. cmd.cmd = "watch"
    BY <2>1 DEF PlaceInv
  <2>3. CASE flush_delete_skip(p)
    <3>1. /\ skipped' = skipped \cup {p} /\ pending' = without(p)
          /\ UNCHANGED <<pc, lost, remote>>
      BY <2>3 DEF flush_delete_skip
    <3>2. /\ DOMAIN pending' = DOMAIN pending \ {p}
          /\ \A q \in DOMAIN pending' : pending'[q] = pending[q]
      BY <3>1 DEF without
    <3>3. \A q \in Files : PathInv(q) => PathInv(q)'
      BY <2>1, <3>1, <3>2 DEF PathInv, Fits
    <3> QED
      BY <2>1, <2>2, <3>1, <3>3, ChannelSame
  <2>4. CASE flush_delete_rm(p)
    <3>1. /\ pending' = without(p) /\ skipped' = skipped \ {p} /\ UNCHANGED pc
          /\ lost' = (lost \ {p}) \cup {q \in Files \cap {p} : remote'[q] # NoFile}
          /\ remote' = remote \/ remote' = [remote EXCEPT ![p] = NoFile]
      BY <2>4 DEF flush_delete_rm, rm
    <3>2. /\ DOMAIN pending' = DOMAIN pending \ {p}
          /\ \A q \in DOMAIN pending' : pending'[q] = pending[q]
      BY <3>1 DEF without
    <3>3. ASSUME NEW q \in Files, PathInv(q) PROVE PathInv(q)'
      <4>1. CASE q # p
        <5>1. remote'[q] = remote[q]
          BY <3>1, <4>1 DEF TypeInv
        <5>2. q \in lost \cup skipped => q \in lost' \cup skipped'
          BY <3>1, <4>1
        <5> QED
          BY <2>1, <3>2, <3>3, <4>1, <5>1, <5>2 DEF PathInv, Fits
      <4>2. CASE q = p
        <5>1. local[p] = NoFile
          BY <2>1, <3>3, <4>2 DEF PathInv, Fits
        <5>2. p \in lost' \/ remote'[p] = NoFile
          BY <3>1, <4>2
        <5> QED
          BY <2>1, <3>2, <4>2, <5>1, <5>2 DEF PathInv
      <4> QED
        BY <4>1, <4>2
    <3> QED
      BY <2>1, <2>2, <3>1, <3>3, ChannelSame
  <2>5. CASE flush_delete_cut(p)
    <3>1. /\ lost' = lost \cup DOMAIN pending
          /\ pending' = << >> /\ pc' = "connect" /\ UNCHANGED skipped
          /\ remote' = remote \/ remote' = [remote EXCEPT ![p] = NoFile]
      BY <2>5 DEF flush_delete_cut, rm
    <3>2. DOMAIN pending' = {}
      BY <3>1
    <3>3. ASSUME NEW q \in Files, PathInv(q) PROVE PathInv(q)'
      <4>1. CASE q \in DOMAIN pending
        BY <2>1, <3>1, <3>2, <4>1 DEF PathInv
      <4>2. CASE q \notin DOMAIN pending
        <5>1. remote'[q] = remote[q]
          BY <2>1, <3>1, <4>2 DEF TypeInv
        <5> QED
          BY <2>1, <3>1, <3>2, <3>3, <4>2, <5>1 DEF PathInv
      <4> QED
        BY <4>1, <4>2
    <3> QED
      BY <2>1, <2>2, <3>1, <3>2, <3>3, ChannelSame
  <2> QED
    BY <1>20, <2>3, <2>4, <2>5 DEF flush_delete
<1>21. ASSUME NEW p \in Files, local_write(p) PROVE WatchInv'
  <2>1. PICK es : es = <<event("Modify", p)>>
    OBVIOUS
  <2>2. es \in Seq(Event) /\ Len(es) = 1 /\ es[1].path = p /\ es[1].kind = "Modify"
    BY <2>1 DEF event, Event
  <2>3. local'[p] # NoFile /\ \A q \in Files : q # p => local'[q] = local[q]
    <3>1. local' = [local EXCEPT ![p] = nlocal + 1] /\ nlocal + 1 \in Nat
      BY <1>21 DEF local_write, TypeInv
    <3> QED
      BY <3>1, ClientUploadAssumption DEF TypeInv
  <2>4. Tells(es, {})
    BY <2>2, <2>3 DEF Tells, action_of
  <2>5. notify(es, {}) /\ UNCHANGED <<remote, cmd, pc, put, pending, lost, skipped>>
    BY <1>21, <2>1 DEF local_write, local_change, serverVars
  <2> QED
    BY <2>2, <2>4, <2>5, LocalStepWatch
<1>22. ASSUME NEW p \in Files, local_remove(p) PROVE WatchInv'
  <2>1. PICK es : es = <<event("Remove", p)>>
    OBVIOUS
  <2>2. es \in Seq(Event) /\ Len(es) = 1 /\ es[1].path = p /\ es[1].kind = "Remove"
    BY <2>1 DEF event, Event
  <2>3. local'[p] = NoFile /\ \A q \in Files : q # p => local'[q] = local[q]
    BY <1>22 DEF local_remove, TypeInv
  <2>4. Tells(es, {})
    BY <2>2, <2>3 DEF Tells, action_of
  <2>5. notify(es, {}) /\ UNCHANGED <<remote, cmd, pc, put, pending, lost, skipped>>
    BY <1>22, <2>1 DEF local_remove, local_change, serverVars
  <2> QED
    BY <2>2, <2>4, <2>5, LocalStepWatch
<1>23. ASSUME NEW p \in Files, other_client(p) PROVE WatchInv'
  BY <1>23, WatchElsewhere DEF other_client
<1>24. ASSUME NEW d \in Dirs \cup {<<>>}, walk_remote(d) PROVE WatchInv'
  BY <1>24, WatchElsewhere DEF walk_remote, PlaceInv
<1>25. ASSUME NEW p \in Files, NEW q \in Files, local_rename(p, q) PROVE WatchInv'
  <2>1. PICK es : es = <<event("From", p), event("To", q)>>
    OBVIOUS
  <2>2. /\ es \in Seq(Event) /\ Len(es) = 2
        /\ es[1].path = p /\ es[1].kind = "From" /\ es[2].path = q /\ es[2].kind = "To"
    BY <2>1 DEF event, Event
  <2>3. p # q /\ local[p] # NoFile /\ local' = [local EXCEPT ![p] = NoFile, ![q] = local[p]]
    BY <1>25 DEF local_rename
  <2>4. local'[p] = NoFile /\ local'[q] # NoFile
        /\ \A r \in Files : r # p /\ r # q => local'[r] = local[r]
    BY <2>3, Zenon DEF TypeInv
  <2>5. Tells(es, {})
    <3>1. \A k \in 1..Len(es) : k = 1 \/ k = 2
      BY <2>2
    <3>2. action_of(es[1].kind) = "Delete" /\ action_of(es[2].kind) = "Upload"
      BY <2>2 DEF action_of
    <3>3. \A k \in 1..Len(es) : action_of(es[k].kind) = "Delete" <=> local'[es[k].path] = NoFile
      BY <2>2, <2>4, <3>1, <3>2
    <3>4. 1 \in 1..Len(es) /\ 2 \in 1..Len(es)
      BY <2>2
    <3>5. \A r \in Files : local'[r] # local[r] => r = p \/ r = q
      BY <2>4
    <3>6. \A r \in Files : local'[r] # local[r] => \E k \in 1..Len(es) : es[k].path = r
      BY <2>2, <3>4, <3>5
    <3> QED
      BY <3>3, <3>6 DEF Tells
  <2>6. notify(es, {}) /\ UNCHANGED <<remote, cmd, pc, put, pending, lost, skipped>>
    BY <1>25, <2>1 DEF local_rename, local_change, serverVars
  <2> QED
    BY <2>2, <2>5, <2>6, LocalStepWatch
<1>26. ASSUME NEW d \in Dirs, local_remove_dir(d) PROVE WatchInv'
  <2>1. PICK es \in Seq(Event) : notify(es, {}) /\ Tells(es, {})
    BY <1>26, RemoveDirEvents
  <2>2. UNCHANGED <<remote, cmd, pc, put, pending, lost, skipped>>
    BY <1>26 DEF local_remove_dir, local_change, serverVars
  <2> QED
    BY <2>1, <2>2, LocalStepWatch
<1>27. CASE UNCHANGED vars
  <2>1. UNCHANGED <<cmd, pc, local, remote, put, rx, pending, lost, skipped, unnoticed>>
    BY <1>27 DEF vars, localVars, serverVars, watchVars
  <2>2. \A p \in Files : PathInv(p) => PathInv(p)'
    BY <2>1 DEF PathInv, Fits
  <2> QED
    BY <2>1, <2>2, ChannelSame, WatchElsewhere DEF WatchInv
<1>28. ASSUME NEW d \in Dirs \cup {<<>>}, walk_local(d) PROVE WatchInv'
  BY <1>28, WatchElsewhere DEF walk_local, PlaceInv
<1>29. CASE establish
  BY <1>29, WatchElsewhere DEF establish, PlaceInv
<1>30. ASSUME NEW d \in Dirs, NEW e \in Dirs, local_rename_dir(d, e) PROVE WatchInv'
  <2>1. PICK es : es = <<event("From", d), event("To", e)>>
    OBVIOUS
  <2>2. /\ es \in Seq(Event) /\ Len(es) = 2 /\ es[1].path = d /\ es[2].path = e
    BY <2>1 DEF event, Event
  <2>3. PICK silent : silent = {p \in Files : local'[p] # local[p]}
    OBVIOUS
  <2>4. Tells(es, silent)
    <3>1. \A k \in 1..Len(es) : es[k].path \notin Files
      BY <2>2, ClientUploadAssumption
    <3> QED
      BY <2>3, <3>1 DEF Tells
  <2>5. notify(es, silent) /\ UNCHANGED <<remote, cmd, pc, put, pending, lost, skipped>>
    BY <1>30, <2>1, <2>3 DEF local_rename_dir, local_change, serverVars
  <2> QED
    BY <2>2, <2>4, <2>5, LocalStepWatch
<1> QED
  BY <1>1, <1>2, <1>3, <1>4, <1>5, <1>6, <1>7, <1>8, <1>9, <1>10, <1>11, <1>12, <1>13,
     <1>14, <1>15, <1>16, <1>17, <1>18, <1>19, <1>20, <1>21, <1>22, <1>23, <1>24, <1>25,
     <1>26, <1>27, <1>28, <1>29, <1>30
     DEF Next, put_command, sync_command, watch_command, surroundings

-----------------------------------------------------------------------------
(***************************************************************************)
(* The theorems.                                                           *)
(***************************************************************************)

LEMMA ClientInvStep == ClientInv /\ [Next]_vars => ClientInv'
BY TypeStep, PlaceStep, FlagStep, DirsStep, SyncStep, WatchStep DEF ClientInv

LEMMA ClientInvariant == Spec => []ClientInv
BY InitClientInv, ClientInvStep, PTL DEF Spec

\* A file a NoClobber put finds at the server when the request is answered is
\* still there afterwards, whoever created it and whenever (run_put, do_put).
THEOREM NoClobberAlways == Spec => NoClobberKept
<1> DEFINE A == cmd.cmd = "put" /\ cmd.policy = "NoClobber" /\ put # NoPut /\ put' = NoPut =>
                  \A p \in Files : remote[p] # NoFile => remote'[p] = remote[p]
<1>1. ClientInv /\ [Next]_vars => [A]_vars
  <2> SUFFICES ASSUME ClientInv, Next, cmd.cmd = "put", cmd.policy = "NoClobber",
                      put # NoPut, put' = NoPut,
                      NEW p \in Files, remote[p] # NoFile
               PROVE  remote'[p] = remote[p]
    OBVIOUS
  <2>1. put.no_clobber = TRUE
    BY DEF ClientInv, FlagInv
  <2>2. CASE put_done \/ sync_put_done \/ flush_put_done
    <3>1. committed => remote'[p] = remote[p]
      BY <2>1 DEF committed, ClientInv, TypeInv
    <3>2. remote' # remote => committed
      BY <2>2, PutTypes DEF put_done, sync_put_done, flush_put_done, ClientInv
    <3> QED
      BY <3>1, <3>2
  <2>3. CASE UNCHANGED remote
    BY <2>3
  <2>4. CASE UNCHANGED put
    BY <2>4
  <2> QED
    BY <2>2, <2>3, <2>4
       DEF Next, put_command, sync_command, watch_command, surroundings, serverVars,
           probe_fails, put_send, do_put_stale, put_probe, load, walk_local, establish,
           plan, walk_remote, sync_put, sync_delete, connect, recv_event, flush, flushed,
           session_lost, stop, flush_upload, flush_delete, connection_lost, other_client,
           local_write, local_remove, local_rename, local_remove_dir, local_rename_dir,
           local_change
<1> QED
  BY <1>1, ClientInvariant, PTL DEF Spec, NoClobberKept

LEMMA RuleExcludes ==
  ASSUME NEW p \in Files, NEW r \in rules, NEW i \in DOMAIN p, r.dir_only => i < Len(p),
         (~r.anchored /\ r.pat = <<p[i]>>) \/ r.pat = SubSeq(p, 1, i)
  PROVE  sync_excludes(p)
<1>1. p \in Seq({p[k] : k \in DOMAIN p})
  BY ClientUploadAssumption
<1>2. PICK T : p \in Seq(T)
  BY <1>1
<1>3. PICK n \in Nat : n = Len(p) /\ DOMAIN p = 1..n /\ i \in 1..n
  BY <1>2
<1>4. PICK d : d = SubSeq(p, 1, i)
  OBVIOUS
<1>5. DOMAIN d = 1..i /\ \A k \in 1..i : d[k] = p[k]
  BY <1>2, <1>3, <1>4
<1>6. CASE i < n
  <2>1. d \in Ancestors(p)
    BY <1>3, <1>4, <1>6 DEF Ancestors
  <2>2. CASE r.pat = d
    <3>1. matches(d, TRUE)
      BY <2>2 DEF matches
    <3> QED
      BY <2>1, <3>1 DEF sync_excludes
  <2>3. CASE ~r.anchored /\ r.pat = <<p[i]>>
    <3>1. i \in DOMAIN d /\ d[i] = p[i]
      BY <1>3, <1>5
    <3>2. matches(d, TRUE)
      BY <2>3, <3>1 DEF matches
    <3> QED
      BY <2>1, <3>2 DEF sync_excludes
  <2> QED
    BY <1>4, <2>2, <2>3
<1>7. CASE i = n
  <2>1. ~r.dir_only
    BY <1>3, <1>7
  <2>2. SubSeq(p, 1, i) = p
    BY <1>2, <1>3, <1>7
  <2>3. matches(p, FALSE)
    BY <2>1, <2>2 DEF matches
  <2> QED
    BY <2>3 DEF sync_excludes
<1> QED
  BY <1>3, <1>6, <1>7

\* For every set of rules and files and any change of the disk during the walk:
\* what sync --delete removed had no local counterpart when the walk came to its
\* directory, or lay in a directory that cannot be read, or is .qftpignore; no
\* rule that was read covers it, and every upload of that run succeeded (sync.rs,
\* walk_local, plan and delete phase).
THEOREM OnlyOrphansDeleted == Spec => []DeletesOnlyOrphans
<1>1. ClientInv => DeletesOnlyOrphans
  <2> SUFFICES ASSUME ClientInv, NEW p \in removed
               PROVE  /\ ~failed
                      /\ walked[p] = NoFile \/ p = IgnoreFile \/ under_unreadable(p)
                      /\ \A r \in rules : ~covers(r, p)
    BY DEF DeletesOnlyOrphans
  <2>1. p \in Files /\ Orphan(p) /\ ~failed
    BY DEF ClientInv, SyncInv
  <2>2. \A r \in rules : ~covers(r, p)
    <3> SUFFICES ASSUME NEW r \in rules, covers(r, p) PROVE FALSE
      OBVIOUS
    <3>1. sync_excludes(p)
      BY <2>1, RuleExcludes DEF covers
    <3> QED
      BY <2>1, <3>1 DEF Orphan
  <2> QED
    BY <2>1, <2>2 DEF Orphan
<1> QED
  BY <1>1, ClientInvariant, PTL

\* When watch has handled every event, the server holds what the disk holds, for
\* any number of changes, in any interleaving with batches being sent.  Excepted
\* are files that differed from the start, files whose last request failed, was
\* refused or was never sent, removals given up because their directory was gone,
\* and files that moved with a directory (run_session).
THEOREM MirrorsWhenQuiet == Spec => []MirroredWhenQuiet
<1>1. ClientInv => MirroredWhenQuiet
  <2> SUFFICES ASSUME ClientInv, Quiet, NEW p \in Files \ (lost \cup skipped \cup unnoticed)
               PROVE  remote[p] = local[p]
    BY DEF MirroredWhenQuiet
  <2>1. /\ cmd.cmd = "watch" /\ pc = "watching" /\ put = NoPut
        /\ DOMAIN pending = {} /\ DOMAIN rx = {}
    BY DEF Quiet, ClientInv, WatchInv
  <2>2. ~Notified(p)
    BY <2>1 DEF Notified
  <2> QED
    BY <2>1, <2>2 DEF ClientInv, WatchInv
<1> QED
  BY <1>1, ClientInvariant, PTL
=============================================================================
