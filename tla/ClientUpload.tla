---------------------------- MODULE ClientUpload ----------------------------
(***************************************************************************)
(* The commands of the client that change the server's files: one-shot     *)
(* put with its clobber policy and resume (oneshot.rs, transfer.rs), sync  *)
(* with --delete and .qftpignore (sync.rs), and watch, which mirrors local *)
(* changes as they happen (watch.rs).                                      *)
(*                                                                         *)
(* One client process runs one command against a server whose files other  *)
(* clients change too, while local programs change the local files.        *)
(* Contents are numbers; a content read while it was being replaced is     *)
(* Torn.  A partial upload is modelled by the content it is a prefix of.   *)
(* The server's side of a Put is what module Upload specifies, taken as    *)
(* one step: it commits what the digest covers, or refuses.  The window    *)
(* between the server's last no_clobber check and its rename is in module  *)
(* Upload, not here.  Paths are sequences of components; symbolic links    *)
(* are left out.                                                           *)
(***************************************************************************)
EXTENDS Naturals, Sequences, FiniteSets, SequencesExt

CONSTANTS Files,        \* paths of regular files, local and remote
          IgnoreFile,   \* the path of .qftpignore
          Commands,     \* command lines: [cmd, policy, delete]
          Rules,        \* what .qftpignore says: [pat, anchored, dir_only] a line
          InitialLocal, InitialRemote,
          NoFile, Torn, NoPut,
          MaxLocal,     \* bound on local changes
          MaxRemote,    \* bound on other clients' changes
          MaxLosses     \* bound on lost connections

Contents == Nat \cup {NoFile, Torn}

\* The arguments of a do_put: a local file, where to resume, the wire flag.
Put == [path: Files, data: Contents, offset: {0, 1}, no_clobber: BOOLEAN]

Ancestors(p) == {SubSeq(p, 1, i) : i \in 1..(Len(p) - 1)}
Above(p) == {<<>>} \cup Ancestors(p)
Parent(p) == Front(p)
Dirs == UNION {Ancestors(p) : p \in Files}

ASSUME ClientUploadAssumption ==
  /\ IsFiniteSet(Files) /\ Files \cap Dirs = {}
  /\ \A p \in Files : p # <<>> /\ p \in Seq({p[i] : i \in DOMAIN p})
  /\ NoFile \notin Nat /\ NoPut \notin Put
  /\ InitialLocal \cup InitialRemote \subseteq [Files -> Contents]

VARIABLES local, dirs,           \* local files; local directories that exist
          unreadable,            \* directories whose entries cannot all be read
          remote, partial,       \* files and partial uploads at the server
          cmd, pc,               \* the command and where it is
          todo,                  \* files the command still has to handle
          put,                   \* the do_put in progress
          rules,                 \* sync: what it read of .qftpignore
          stack, listed,         \* sync: directories to walk, the remote index
          toDelete, failed,      \* sync: the delete plan, an upload failed
          rx, pending, alive,    \* watch: event channel, coalesced, connection
          lost,                  \* history: paths that differed when watch began,
                                 \* or whose last request failed or was never sent
          skipped,               \* history: removals given up with their directory
          unnoticed,             \* history: moved along with a directory
          removed,               \* history: files sync deleted
          walked,                \* history: the local files as sync's walk met them
          nlocal, nremote, nlosses

localVars == <<local, dirs, unreadable, nlocal>>
serverVars == <<remote, partial>>
syncVars == <<rules, stack, listed, toDelete, failed, removed, walked>>
watchVars == <<rx, pending, alive, lost, skipped, unnoticed>>
bounds == <<nremote, nlosses>>
vars == <<localVars, serverVars, cmd, pc, todo, put, syncVars, watchVars, bounds>>

-----------------------------------------------------------------------------
\* transfer.rs: do_put.

Begin(p, offset, no_clobber) ==
  put' = [path |-> p, data |-> local[p], offset |-> offset, no_clobber |-> no_clobber]

\* A content that changed under the reader arrives torn, as it was, or new.
sent == IF local[put.path] = put.data THEN {put.data}
        ELSE {put.data, Torn, local[put.path]} \ {NoFile}

resumable == put.offset = 0 \/ partial[put.path] = put.data

\* The server verified the digest over the whole file, checked no_clobber once
\* more and renamed the partial in place.
committed ==
  /\ put # NoPut /\ alive /\ put.data # NoFile
  /\ resumable
  /\ put.no_clobber => remote[put.path] = NoFile
  /\ \E d \in sent : remote' = [remote EXCEPT ![put.path] = d]
  /\ partial' = [partial EXCEPT ![put.path] = NoFile]
  /\ put' = NoPut

do_put_ok == committed /\ UNCHANGED <<alive, nlosses>>

is_stale_partial == put.offset > 0 /\ ~resumable

\* The resumed partial was of another content, or is gone: start over.
do_put_stale ==
  /\ put # NoPut /\ alive /\ is_stale_partial
  /\ put' = [put EXCEPT !.offset = 0, !.data = local[put.path]]
  /\ partial' = [partial EXCEPT ![put.path] = NoFile]
  /\ UNCHANGED <<remote, localVars, cmd, pc, todo, syncVars, watchVars, bounds>>

cut == alive /\ nlosses < MaxLosses /\ alive' = FALSE /\ nlosses' = nlosses + 1

\* The file cannot be read, the server refuses, or the connection is lost: in
\* the middle of the body, which leaves a partial behind, or with the answer of
\* a put that was committed.
do_put_err ==
  \/ /\ put # NoPut
     /\ partial' \in {partial} \cup
          IF put.data = NoFile \/ put.offset > 0 THEN {} ELSE {[partial EXCEPT ![put.path] = put.data]}
     /\ put' = NoPut
     /\ UNCHANGED <<remote, alive, nlosses>>
  \/ committed /\ cut

-----------------------------------------------------------------------------
\* oneshot.rs: run_put.

decide_clobber(policy, exists) ==
  CASE policy = "Force" -> IF exists THEN "Overwrite" ELSE "Proceed"
    [] policy # "Force" /\ ~exists -> "Proceed"
    [] policy = "NoClobber" /\ exists -> "Skip"
    [] policy = "Interactive" /\ exists -> "Prompt"

\* Fault: the flag is not put on the wire once the probe found nothing.
flag_from_probe(policy) == FALSE

\* After a probe that found nothing the server is still told to refuse.
effective_no_clobber(policy) == policy = "NoClobber"

\* stat_remote and the decision, for the next local file.  An answer other
\* than a FileStat counts as absent; Force does not ask.
put_probe(p) ==
  /\ cmd.cmd = "put" /\ pc = "next" /\ p \in todo
  /\ alive \/ cmd.policy = "Force"
  /\ \E exists \in {remote[p] # NoFile, FALSE} :
       LET d == decide_clobber(cmd.policy, exists)
       IN \/ /\ d \in {"Proceed", "Overwrite", "Prompt"}
             /\ pc' = "send"
             /\ put' = [path |-> p, data |-> NoFile, offset |-> 0,
                        no_clobber |-> d = "Proceed" /\ effective_no_clobber(cmd.policy)]
             /\ UNCHANGED todo
          \/ /\ d \in {"Skip", "Prompt"}
             /\ todo' = todo \ {p}
             /\ UNCHANGED <<pc, put>>
  /\ UNCHANGED <<localVars, serverVars, cmd, syncVars, watchVars, bounds>>

\* The probe cannot be sent: the command ends, its other files with it.
probe_fails ==
  /\ cmd.cmd = "put" /\ pc = "next" /\ todo # {}
  /\ ~alive /\ cmd.policy # "Force"
  /\ pc' = "exited"
  /\ UNCHANGED <<localVars, serverVars, cmd, todo, put, syncVars, watchVars, bounds>>

\* probe_put_resume_offset (any acceptable partial; --force never resumes),
\* then do_put opens the local file.
put_send ==
  /\ cmd.cmd = "put" /\ pc = "send"
  /\ \E offset \in IF cmd.policy # "Force" /\ partial[put.path] # NoFile THEN {0, 1} ELSE {0} :
       Begin(put.path, offset, put.no_clobber)
  /\ pc' = "putting"
  /\ UNCHANGED <<localVars, serverVars, cmd, todo, syncVars, watchVars, bounds>>

put_done ==
  /\ cmd.cmd = "put" /\ pc = "putting"
  /\ do_put_ok \/ do_put_err
  /\ pc' = "next" /\ todo' = todo \ {put.path}
  /\ UNCHANGED <<localVars, cmd, syncVars, rx, pending, lost, skipped, unnoticed, nremote>>

-----------------------------------------------------------------------------
\* sync.rs.

\* A pattern matches the whole relative path or, unless anchored, any of its
\* components.
matches(rel, is_dir) ==
  \E r \in rules :
    /\ r.dir_only => is_dir
    /\ \/ r.pat = rel
       \/ ~r.anchored /\ \E i \in DOMAIN rel : r.pat = <<rel[i]>>

\* Fault: only the file itself is looked up.
excludes_file_only(p) == matches(p, FALSE)

sync_excludes(p) == matches(p, FALSE) \/ \E d \in Ancestors(p) : matches(d, TRUE)

\* IgnoreMatcher::load: no file means no rules, and so does a file that cannot
\* be read.
load ==
  /\ cmd.cmd = "sync" /\ pc = "next"
  /\ rules' \in {{}} \cup IF local[IgnoreFile] = NoFile THEN {} ELSE {Rules}
  /\ stack' = {<<>>} /\ walked' = local
  /\ pc' = "walk"
  /\ UNCHANGED <<localVars, serverVars, cmd, todo, put, listed, toDelete, failed, removed, watchVars, bounds>>

\* Every directory is read for itself while the disk changes.  One that is gone
\* or cannot be read is skipped, and so are entries that cannot be; the walk
\* goes on.
walk_local(d) ==
  LET files == {p \in Files : /\ Parent(p) = d /\ local[p] # NoFile
                              /\ p # IgnoreFile /\ ~matches(p, FALSE)}
      subdirs == {e \in dirs : Parent(e) = d /\ ~matches(e, TRUE)}
      entries == IF d \in dirs \cup {<<>>} THEN files \cup subdirs ELSE {}
  IN /\ pc = "walk" /\ d \in stack
     /\ \E seen \in IF d \in unreadable THEN SUBSET entries ELSE {entries} :
          /\ todo' = todo \cup (seen \cap Files)
          /\ stack' = (stack \ {d}) \cup (seen \cap Dirs)
     /\ walked' = [p \in Files |-> IF d \in Above(p) THEN local[p] ELSE walked[p]]
     /\ UNCHANGED <<localVars, serverVars, cmd, pc, put, rules, listed, toDelete, failed, removed, watchVars, bounds>>

\* The connection is opened after the walk; without one the command ends.
establish ==
  /\ pc = "walk" /\ stack = {}
  /\ \/ pc' = "list" /\ stack' = Dirs \cup {<<>>}
     \/ pc' = "exited" /\ UNCHANGED stack
  /\ UNCHANGED <<localVars, serverVars, cmd, todo, put, rules, listed, toDelete, failed, removed, walked, watchVars, bounds>>

\* One Ls per directory; any failure abandons the sync.
walk_remote(d) ==
  /\ pc = "list" /\ d \in stack
  /\ \/ /\ alive /\ stack' = stack \ {d}
        /\ listed' = listed \cup {p \in Files : Parent(p) = d /\ remote[p] # NoFile}
        /\ UNCHANGED pc
     \/ pc' = "exited" /\ UNCHANGED <<stack, listed>>
  /\ UNCHANGED <<localVars, serverVars, cmd, todo, put, rules, toDelete, failed, removed, walked, watchVars, bounds>>

\* A file both sides have is uploaded when size or mtime differ, or with
\* --checksum; a dry run ends here, and so does a fatal answer to Mkdir.
plan ==
  /\ pc = "list" /\ stack = {}
  /\ \E same \in SUBSET (todo \cap listed) : todo' = todo \ same
  /\ toDelete' = IF cmd.delete THEN {p \in listed \ todo : ~sync_excludes(p)} ELSE {}
  /\ pc' \in {"upload", "exited"}
  /\ UNCHANGED <<localVars, serverVars, cmd, put, rules, stack, listed, failed, removed, walked, watchVars, bounds>>

sync_put(p) ==
  /\ pc = "upload" /\ put = NoPut /\ p \in todo
  /\ Begin(p, 0, FALSE)
  /\ todo' = todo \ {p}
  /\ UNCHANGED <<localVars, serverVars, cmd, pc, syncVars, watchVars, bounds>>

sync_put_done ==
  /\ cmd.cmd = "sync" /\ pc = "upload"
  /\ \/ do_put_ok /\ UNCHANGED failed
     \/ do_put_err /\ failed' = TRUE
  /\ UNCHANGED <<localVars, cmd, pc, todo, rules, stack, listed, toDelete, removed, walked,
                 rx, pending, lost, skipped, unnoticed, nremote>>

\* Delete after the uploads, and only if all of them succeeded.
sync_delete(p) ==
  /\ pc = "upload" /\ todo = {} /\ put = NoPut
  /\ ~failed /\ p \in toDelete
  /\ toDelete' = toDelete \ {p}
  /\ \/ alive /\ remote' = [remote EXCEPT ![p] = NoFile] /\ removed' = removed \cup {p}
     \/ UNCHANGED <<remote, removed>>
  /\ UNCHANGED <<localVars, partial, cmd, pc, todo, put, rules, stack, listed, failed, walked, watchVars, bounds>>

-----------------------------------------------------------------------------
\* watch.rs.

\* Fault: every rename event counts as a modification.
rename_is_upload(kind) == IF kind = "Remove" THEN "Delete" ELSE "Upload"

\* The source of a rename is gone, its destination is new; the third event of a
\* rename, Both, says the two once more.
action_of(kind) == IF kind \in {"Remove", "From"} THEN "Delete" ELSE "Upload"

connect ==
  /\ cmd.cmd = "watch" /\ pc = "connect"
  /\ pc' = "watching" /\ alive' = TRUE /\ pending' = << >>
  /\ UNCHANGED <<localVars, serverVars, cmd, todo, put, syncVars, rx, lost, skipped, unnoticed, bounds>>

\* The last action per path wins.
recv_event ==
  /\ pc = "watching" /\ rx # <<>>
  /\ rx' = Tail(rx)
  /\ pending' = [p \in DOMAIN pending \cup {Head(rx).path} |->
                   IF p = Head(rx).path THEN action_of(Head(rx).kind) ELSE pending[p]]
  /\ UNCHANGED <<localVars, serverVars, cmd, pc, todo, put, syncVars, alive, lost, skipped, unnoticed, bounds>>

\* debounce_ms have passed since the last event.
flush == /\ pc = "watching" /\ alive /\ pending # << >>
         /\ pc' = "flush"
         /\ UNCHANGED <<localVars, serverVars, cmd, todo, put, syncVars, watchVars, bounds>>

without(p) == [q \in DOMAIN pending \ {p} |-> pending[q]]

\* The drained entry of a path: an upload of what is gone, or is not a regular
\* file, is skipped.
flush_upload(p) ==
  /\ pc = "flush" /\ put = NoPut
  /\ p \in DOMAIN pending /\ pending[p] = "Upload"
  /\ pending' = without(p)
  /\ IF p \in Files /\ local[p] # NoFile THEN Begin(p, 0, FALSE) ELSE put' = put
  /\ UNCHANGED <<localVars, serverVars, cmd, pc, todo, syncVars, rx, alive, lost, skipped, unnoticed, bounds>>

\* A failed put is logged and dropped.
flush_put_done ==
  /\ pc = "flush"
  /\ \/ do_put_ok /\ lost' = lost \ {put.path}
     \/ do_put_err /\ lost' = lost \cup {put.path}
  /\ skipped' = skipped \ {put.path}
  /\ UNCHANGED <<localVars, cmd, pc, todo, syncVars, rx, pending, unnoticed, nremote>>

\* A removed path is located through its parent directory.
delete_located(p) == \/ p \in Files /\ local[p] # NoFile
                     \/ Ancestors(p) \subseteq dirs

\* The parent directory is gone as well.
flush_delete_skip(p) ==
  /\ ~delete_located(p)
  /\ skipped' = skipped \cup {p} /\ pending' = without(p)
  /\ UNCHANGED <<pc, lost, remote, alive, nlosses>>

rm(p) == p \in Files /\ remote' = [remote EXCEPT ![p] = NoFile]

\* Rm and its answer.  A refusal is logged and the path forgotten: the server
\* has no such file, it is a directory, or the removal is denied.
flush_delete_rm(p) ==
  /\ delete_located(p) /\ alive
  /\ \/ rm(p)
     \/ UNCHANGED remote
  /\ lost' = (lost \ {p}) \cup {q \in Files \cap {p} : remote'[q] # NoFile}
  /\ skipped' = skipped \ {p} /\ pending' = without(p)
  /\ UNCHANGED <<pc, alive, nlosses>>

\* The connection is dead, or dies before the answer: run_session returns, and
\* the rest of the batch is gone with it.
flush_delete_cut(p) ==
  /\ delete_located(p)
  /\ \/ ~alive /\ UNCHANGED <<remote, alive, nlosses>>
     \/ cut /\ rm(p)
  /\ lost' = lost \cup DOMAIN pending
  /\ pending' = << >> /\ pc' = "connect"
  /\ UNCHANGED skipped

flush_delete(p) ==
  /\ pc = "flush" /\ put = NoPut
  /\ p \in DOMAIN pending /\ pending[p] = "Delete"
  /\ flush_delete_skip(p) \/ flush_delete_rm(p) \/ flush_delete_cut(p)
  /\ UNCHANGED <<localVars, partial, cmd, todo, put, syncVars, rx, unnoticed, nremote>>

flushed ==
  /\ pc = "flush" /\ put = NoPut /\ pending = << >>
  /\ pc' = "watching"
  /\ UNCHANGED <<localVars, serverVars, cmd, todo, put, syncVars, watchVars, bounds>>

\* The loop notices the dead connection; run backs off and reconnects with an
\* empty map.
session_lost ==
  /\ pc = "watching" /\ ~alive
  /\ lost' = lost \cup DOMAIN pending /\ pending' = << >>
  /\ pc' = "connect"
  /\ UNCHANGED <<localVars, serverVars, cmd, todo, put, syncVars, rx, alive, skipped, unnoticed, bounds>>

stop ==
  /\ cmd.cmd = "watch" /\ pc \in {"watching", "connect"}
  /\ pc' = "exited"
  /\ UNCHANGED <<localVars, serverVars, cmd, todo, put, syncVars, watchVars, bounds>>

-----------------------------------------------------------------------------
\* The surroundings: local programs, other clients, the network.

event(kind, p) == [kind |-> kind, path |-> p]

\* The events of a change, and the files it changed without one of their own.
notify(events, silent) ==
  IF cmd.cmd = "watch" /\ pc # "exited"
  THEN /\ rx' = rx \o events
       /\ unnoticed' = (unnoticed \ {events[i].path : i \in DOMAIN events}) \cup silent
  ELSE UNCHANGED <<rx, unnoticed>>

local_change == /\ nlocal < MaxLocal
                /\ nlocal' = nlocal + 1
                /\ UNCHANGED <<unreadable, serverVars, cmd, pc, todo, put, syncVars,
                               pending, alive, lost, skipped, bounds>>

\* Directories made for the file are reported too; watch skips them.
local_write(p) ==
  /\ local_change
  /\ local' = [local EXCEPT ![p] = nlocal + 1]
  /\ dirs' = dirs \cup Ancestors(p)
  /\ notify(<<event("Modify", p)>>, {})

local_remove(p) ==
  /\ local_change
  /\ local[p] # NoFile /\ local' = [local EXCEPT ![p] = NoFile]
  /\ notify(<<event("Remove", p)>>, {})
  /\ UNCHANGED dirs

local_rename(p, q) ==
  /\ local_change
  /\ p # q /\ local[p] # NoFile /\ Ancestors(q) \subseteq dirs
  /\ local' = [local EXCEPT ![p] = NoFile, ![q] = local[p]]
  /\ notify(<<event("From", p), event("To", q)>>, {})
  /\ UNCHANGED dirs

Below(d) == {p \in Files : d \in Ancestors(p) /\ local[p] # NoFile}
ExistingWithout(d) == {e \in dirs : e # d /\ d \notin Ancestors(e)}

\* A directory is removed with the files in it, in any order.
local_remove_dir(d) ==
  /\ local_change
  /\ d \in dirs /\ dirs' = ExistingWithout(d)
  /\ local' = [p \in Files |-> IF p \in Below(d) THEN NoFile ELSE local[p]]
  /\ \E order \in [1..Cardinality(Below(d)) -> Below(d)] :
       /\ Range(order) = Below(d)
       /\ notify([i \in 1..Cardinality(Below(d)) |-> event("Remove", order[i])]
                   \o <<event("Remove", d)>>, {})

\* p, below d, after d was renamed to e.
Moved(p, d, e) == e \o SubSeq(p, Len(d) + 1, Len(p))

\* A directory is renamed: the files below it have new paths and no event of
\* their own.  Empty directories below it are not followed.
local_rename_dir(d, e) ==
  /\ local_change
  /\ d \in dirs /\ e \notin dirs /\ d \notin Ancestors(e) /\ Ancestors(e) \subseteq dirs
  /\ {d, e} \cap unreadable = {}
  /\ \A p \in Below(d) : Moved(p, d, e) \in Files
  /\ local' = [p \in Files |->
                 IF p \in Below(d) THEN NoFile
                 ELSE IF \E q \in Below(d) : p = Moved(q, d, e)
                      THEN local[CHOOSE q \in Below(d) : p = Moved(q, d, e)]
                      ELSE local[p]]
  /\ dirs' = ExistingWithout(d) \cup {e} \cup UNION {Ancestors(Moved(p, d, e)) : p \in Below(d)}
  /\ notify(<<event("From", d), event("To", e)>>, {p \in Files : local'[p] # local[p]})

\* Another client replaces or removes a file, or its upload of one leaves a
\* partial, which only put ever resumes; not while watch runs, which mirrors
\* one way and never looks.
other_client(p) ==
  /\ cmd.cmd # "watch" /\ nremote < MaxRemote
  /\ nremote' = nremote + 1
  /\ \/ /\ remote' \in {[remote EXCEPT ![p] = v] : v \in {NoFile, Torn} \ {remote[p]}}
        /\ UNCHANGED partial
     \/ /\ cmd.cmd = "put"
        /\ partial' \in {[partial EXCEPT ![p] = v] : v \in {NoFile, Torn} \ {partial[p]}}
        /\ UNCHANGED remote
  /\ UNCHANGED <<localVars, cmd, pc, todo, put, syncVars, watchVars, nlosses>>

connection_lost ==
  /\ cut
  /\ UNCHANGED <<localVars, serverVars, cmd, pc, todo, put, syncVars, rx, pending, lost, skipped,
                 unnoticed, nremote>>

-----------------------------------------------------------------------------
Init ==
  /\ local \in InitialLocal /\ remote \in InitialRemote
  /\ dirs = UNION {Ancestors(p) : p \in {q \in Files : local[q] # NoFile}}
  /\ cmd \in Commands
  /\ unreadable \in IF cmd.cmd = "sync" THEN SUBSET (Dirs \cup {<<>>}) ELSE {{}}
  /\ partial = [p \in Files |-> NoFile]
  /\ pc = IF cmd.cmd = "watch" THEN "connect" ELSE "next"
  /\ todo = IF cmd.cmd = "put" THEN {p \in Files : local[p] # NoFile} ELSE {}
  /\ put = NoPut
  /\ rules = {} /\ stack = {} /\ listed = {} /\ toDelete = {} /\ failed = FALSE
  /\ removed = {} /\ walked = local
  /\ rx = <<>> /\ pending = << >> /\ alive = TRUE
  /\ lost = {p \in Files : remote[p] # local[p]} /\ skipped = {} /\ unnoticed = {}
  /\ nlocal = 0 /\ nremote = 0 /\ nlosses = 0

put_command == \/ probe_fails \/ put_send \/ put_done \/ do_put_stale
               \/ \E p \in Files : put_probe(p)

sync_command == \/ load \/ establish \/ plan \/ sync_put_done
                \/ \E d \in Dirs \cup {<<>>} : walk_local(d) \/ walk_remote(d)
                \/ \E p \in Files : sync_put(p) \/ sync_delete(p)

watch_command == \/ connect \/ recv_event \/ flush \/ flush_put_done \/ flushed
                 \/ session_lost \/ stop
                 \/ \E p \in Files \cup Dirs : flush_upload(p) \/ flush_delete(p)

surroundings == \/ connection_lost
                \/ \E p \in Files : local_write(p) \/ local_remove(p) \/ other_client(p)
                \/ \E p, q \in Files : local_rename(p, q)
                \/ \E d \in Dirs : local_remove_dir(d)
                \/ \E d, e \in Dirs : local_rename_dir(d, e)

Next == put_command \/ sync_command \/ watch_command \/ surroundings

Spec == Init /\ [][Next]_vars

-----------------------------------------------------------------------------
\* put --no-clobber never replaces a file, also one that another client created
\* after the probe had found nothing (run_put, Request::Put.no_clobber).  That
\* the server can still replace one created between its own last check and its
\* rename is hidden here, where the two are one step, and seen in module Upload.
NoClobberKept ==
  [][cmd.cmd = "put" /\ cmd.policy = "NoClobber" /\ put # NoPut /\ put' = NoPut =>
       \A p \in Files : remote[p] # NoFile => remote'[p] = remote[p]]_vars

\* Rule r of .qftpignore covers p, itself or through a directory above it.
covers(r, p) == \E i \in DOMAIN p : /\ r.dir_only => i < Len(p)
                                    /\ \/ r.pat = SubSeq(p, 1, i)
                                       \/ ~r.anchored /\ r.pat = <<p[i]>>

under_unreadable(p) == Above(p) \cap unreadable # {}

\* sync --delete removes only files that had no local counterpart when the walk
\* came to their directory, that no rule sync has read covers, and only when
\* every upload succeeded.  Three kinds of file are taken for missing although
\* they are there, and are removed: those in a directory that cannot be read,
\* .qftpignore itself, and, when .qftpignore cannot be read, what its rules
\* cover (OrphansOnly and ExcludedKept state the property without them).
DeletesOnlyOrphans ==
  \A p \in removed :
    /\ ~failed
    /\ walked[p] = NoFile \/ p = IgnoreFile \/ under_unreadable(p)
    /\ \A r \in rules : ~covers(r, p)

\* "--delete removes remote files that have no local counterpart" (sync.rs:10):
\* violated, see DeletesOnlyOrphans.
OrphansOnly == \A p \in removed : walked[p] = NoFile

\* A file that .qftpignore excludes is one "the user explicitly told sync to
\* leave alone" (sync.rs:141): violated when .qftpignore is there and the read
\* of it fails.
ExcludedKept == \A p \in removed : walked[IgnoreFile] # NoFile => \A r \in Rules : ~covers(r, p)

Quiet == cmd.cmd = "watch" /\ pc = "watching" /\ alive /\ rx = <<>> /\ pending = << >>

\* When watch has handled every event, the server has what the local disk has,
\* removed and renamed files included, whatever changed while a batch was being
\* sent.  Not promised: files that differed when watch began and have not changed
\* since, files whose last put failed, whose last Rm was refused or that a lost
\* connection dropped (lost), removals given up because the directory was gone
\* as well (skipped), and files moved with a renamed directory (unnoticed).  No
\* other client writes meanwhile.
MirroredWhenQuiet ==
  Quiet => \A p \in Files \ (lost \cup skipped \cup unnoticed) : remote[p] = local[p]

\* "If even the parent disappeared, just trust the strip prefix check; we're only
\* sending an Rm" (watch.rs:284): violated, no Rm is sent and the file stays.
RemovalsSent ==
  Quiet => \A p \in Files \ (lost \cup unnoticed) : local[p] = NoFile => remote[p] = NoFile

\* The rename modes are split out so that the renamed-away source is not left "on
\* the remote forever" (watch.rs:209): violated when a directory is renamed, whose
\* Rm is refused and whose upload is skipped.
RenamesMirrored ==
  Quiet => \A p \in Files \ (lost \cup skipped) : local[p] = NoFile => remote[p] = NoFile
=============================================================================
