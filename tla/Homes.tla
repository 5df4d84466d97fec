--------------------------------- MODULE Homes ---------------------------------
(***************************************************************************)
(* The user directory and the request handlers on one file system:         *)
(* UserDirectory::from_config with its checks on homes, the identity a     *)
(* certificate resolves to (user.rs), and handle_request with the path     *)
(* resolution and symlink re-checks under it (handler.rs, fs_safe.rs).     *)
(* Requests of different connections run on handler threads at the same    *)
(* time; each request is the sequence of its path checks and its system    *)
(* calls, and other requests run in between. A re-check, which looks at    *)
(* one ancestor after the other, is one step. Put (transfer_put.rs) has    *)
(* here what it does to names: the partial it opens, renames or removes.   *)
(* Its bytes and their accounting are module Upload's.                     *)
(*                                                                         *)
(* Data. A path is a sequence of names from the file system's root; nodes  *)
(* are directories, files and symbolic links to a directory, each with the *)
(* directory it leads to. Clients cannot make links; the operator may have *)
(* put some into the tree.                                                 *)
(***************************************************************************)
EXTENDS Integers, Sequences, SequencesExt, FiniteSets

CONSTANTS Nodes,        \* paths of the file system
          Root,         \* the global root
          Trees,        \* file systems the server may find
          Configs,      \* parsed users.toml files
          NoHome,       \* a spec without `home`
          NoSpec,       \* no [anonymous] table
          temp_name(_), \* the name of a file's partial: its own and `.qftp.partial`
          Sessions,
          Certs,        \* identity candidates of the certificates in use
          Requests,     \* requests clients send
          MaxRequests   \* bound: requests per session

VARIABLES fs,           \* node at each path
          cfg, phase,   \* "start", "refused" or "serving"
          by_name,      \* UserDirectory.by_name: name -> user
          anonymous,    \* UserDirectory.anonymous
          sess          \* per connection: user, cwd, and the request it runs

vars == <<fs, cfg, phase, by_name, anonymous, sess>>

None == [k |-> "none", to |-> <<>>]
Dir == [k |-> "dir", to |-> <<>>]
File == [k |-> "file", to |-> <<>>]
Link(to) == [k |-> "link", to |-> to]

Names == STRING \ {"..", "/"}
Paths == Seq(Names)

----------------------------------------------------------------------------
\* The file system.

node(tree, p) == IF p \in Nodes THEN tree[p] ELSE None

\* One component of a path lookup.
follow(tree, cur, n) ==
    LET q == Append(cur, n)
    IN IF n = ".." THEN IF cur = <<>> THEN cur ELSE Front(cur)
       ELSE IF node(tree, q).k = "link" THEN node(tree, q).to ELSE q

\* The path a path stands for once every link on it is followed.
canonicalize(tree, p) ==
    LET at[n \in 0..Len(p)] == IF n = 0 THEN <<>> ELSE follow(tree, at[n - 1], p[n])
    IN at[Len(p)]

\* Where a system call that does not follow the last component ends up.
located(tree, p) == IF p = <<>> THEN p ELSE Append(canonicalize(tree, Front(p)), Last(p))

symlink_metadata(tree, p) == node(tree, located(tree, p))

starts_with(p, prefix) == IsPrefix(prefix, p)

children(tree, p) == {q \in Nodes : q # <<>> /\ Front(q) = p /\ tree[q] # None}

\* The places a lookup of the path passes.
way(tree, p) == {canonicalize(tree, SubSeq(p, 1, n)) : n \in 0..Len(p)}

\* create_dir_all: every missing directory on the way, links followed.  A file on the
\* way stops it, and so does a path the file system has no room for.
can_create(tree, p) == \A q \in way(tree, p) : q \in Nodes /\ tree[q].k \in {"none", "dir"}
create_dir_all(tree, p) ==
    [q \in Nodes |-> IF q \in way(tree, p) /\ tree[q] = None THEN Dir ELSE tree[q]]

\* The path is a directory and no link leads to it.
real_dir(tree, p) == \A n \in 0..Len(p) : node(tree, SubSeq(p, 1, n)).k = "dir"

\* What rename(2) does, or the tree as it was when it refuses: the destination is
\* free, or a file for a file, or an empty directory for a directory.
renamed(tree, src, dst) ==
    LET from == located(tree, src)
        to == located(tree, dst)
        what == node(tree, from)
        ok == /\ what # None /\ to \in Nodes /\ from # to
              /\ ~starts_with(to, from)
              /\ node(tree, Front(to)).k = "dir"
              /\ \/ node(tree, to) = None
                 \/ what.k = "dir" /\ node(tree, to).k = "dir" /\ children(tree, to) = {}
                 \/ what.k # "dir" /\ node(tree, to).k # "dir"
              /\ \A q \in Nodes : (starts_with(q, from) /\ tree[q] # None)
                     => (to \o SubSeq(q, Len(from) + 1, Len(q))) \in Nodes
    IN IF ~ok THEN tree
       ELSE [q \in Nodes |->
               IF starts_with(q, to) THEN node(tree, from \o SubSeq(q, Len(to) + 1, Len(q)))
               ELSE IF starts_with(q, from) THEN None
               ELSE tree[q]]

----------------------------------------------------------------------------
\* UserDirectory::from_config.

validate_specs(c) == \A s \in Range(c.users) \cup ({c.anonymous} \ {NoSpec}) : s.quota # 0

raw_home(spec) == IF spec.home = NoHome THEN Append(Root, spec.name)
                  ELSE IF spec.home.abs THEN spec.home.path ELSE Root \o spec.home.path

has_parent_dir(spec) == spec.home # NoHome /\ ~spec.home.abs /\ ".." \in Range(spec.home.path)

\* resolve_home: create, canonicalize, and refuse what lies outside the root; then
\* an empty leaf that was created here goes away again.
resolve_home(tree, spec) ==
    LET raw == raw_home(spec)
        pre_existed == \A q \in way(tree, raw) : node(tree, q) # None
        made == create_dir_all(tree, raw)
        canonical == canonicalize(made, raw)
        stray == ~pre_existed /\ children(made, canonical) = {}
    IN IF has_parent_dir(spec) \/ ~can_create(tree, raw)
       THEN [ok |-> FALSE, home |-> raw, tree |-> tree]
       ELSE IF starts_with(canonical, Root)
       THEN [ok |-> TRUE, home |-> canonical, tree |-> made]
       ELSE [ok |-> FALSE, home |-> canonical,
             tree |-> IF stray THEN [made EXCEPT ![canonical] = None] ELSE made]

\* Fault: only equal homes count as an overlap.
overlap_when_equal(home, resolved) == home \in resolved

check_home_overlap(home, resolved) ==
    \E other \in resolved : starts_with(home, other) \/ starts_with(other, home)

\* One turn of the loop over the users: resolve, compare with the earlier homes.
resolve_user(acc, spec) ==
    LET r == resolve_home(acc.tree, spec)
    IN IF ~acc.ok THEN acc
       ELSE [ok |-> r.ok /\ ~check_home_overlap(r.home, Range(acc.homes)),
             tree |-> r.tree,
             homes |-> Append(acc.homes, r.home)]

\* The users in the order of the file.
resolve_users(tree, c) ==
    LET acc[i \in 0..Len(c.users)] ==
          IF i = 0 THEN [ok |-> validate_specs(c), tree |-> tree, homes |-> <<>>]
          ELSE resolve_user(acc[i - 1], c.users[i])
    IN acc[Len(c.users)]

user(spec, home) == [name |-> spec.name, home |-> home, permissions |-> spec.permissions]

\* Fault: the implicit anonymous user gets the permissions of a configured one.
read_write(home) == [name |-> "anonymous", home |-> home, permissions |-> {"Read", "Delete"}]

\* Permissions::read_only, for the anonymous user nobody configured.
read_only(home) == [name |-> "anonymous", home |-> home, permissions |-> {"Read"}]

from_config(tree, c) ==
    LET users == resolve_users(tree, c)
        distinct == \A i, j \in DOMAIN c.users : i # j => c.users[i].name # c.users[j].name
        anon == IF c.anonymous = NoSpec
                THEN [ok |-> TRUE, home |-> Root, tree |-> users.tree]
                ELSE resolve_home(users.tree, c.anonymous)
        apart == c.anonymous = NoSpec \/ ~check_home_overlap(anon.home, Range(users.homes))
    IN IF ~users.ok \/ ~distinct THEN [ok |-> FALSE, tree |-> users.tree]
       ELSE IF ~anon.ok \/ ~apart THEN [ok |-> FALSE, tree |-> anon.tree]
       ELSE [ok |-> TRUE, tree |-> anon.tree,
             by_name |-> [n \in {s.name : s \in Range(c.users)} |->
                            LET i == CHOOSE i \in DOMAIN c.users : c.users[i].name = n
                            IN user(c.users[i], users.homes[i])],
             anonymous |-> IF c.anonymous = NoSpec THEN read_only(Root)
                           ELSE user(c.anonymous, anon.home)]

\* A connection between requests.
idle(u) == [user |-> u, cwd |-> u.home, req |-> NoSpec, pc |-> "idle", target |-> <<>>,
            dest |-> <<>>, raced |-> FALSE, touched |-> {}, left |-> MaxRequests]

load ==
    /\ phase = "start"
    /\ \E d \in {from_config(fs, cfg)} :
          /\ fs' = d.tree
          /\ IF d.ok THEN /\ phase' = "serving"
                          /\ by_name' = d.by_name
                          /\ anonymous' = d.anonymous
                     ELSE phase' = "refused" /\ UNCHANGED <<by_name, anonymous>>
    /\ UNCHANGED <<cfg, sess>>

----------------------------------------------------------------------------
\* Identity.

\* resolve_identity over extract_identity_candidates: the users that the names in
\* the certificate belong to, if it is exactly one.
resolve_identity(candidates) == {by_name[n] : n \in Range(candidates) \cap DOMAIN by_name}

\* A connection with no certificate is anonymous; with one, it is the user it
\* names, or it is closed.
connect(s) ==
    /\ phase = "serving" /\ sess[s] = NoSpec
    /\ \E cert \in Certs \cup {<<>>} :
         LET matched == resolve_identity(cert)
         IN IF cert = <<>> THEN sess' = [sess EXCEPT ![s] = idle(anonymous)]
            ELSE /\ Cardinality(matched) = 1
                 /\ \E u \in matched : sess' = [sess EXCEPT ![s] = idle(u)]
    /\ UNCHANGED <<fs, cfg, phase, by_name, anonymous>>

----------------------------------------------------------------------------
\* Path resolution.

Refused == [ok |-> FALSE, path |-> <<>>]
Resolved(p) == [ok |-> TRUE, path |-> p]

\* One component of the walk: no link, and never above the home.
walk_component(cur, root, c) ==
    IF ~cur.ok THEN cur
    ELSE CASE c = "/" -> Resolved(root)
           [] c = ".." -> IF cur.path = root \/ cur.path = <<>>
                             \/ ~starts_with(Front(cur.path), root)
                          THEN Refused ELSE Resolved(Front(cur.path))
           [] OTHER -> IF symlink_metadata(fs, Append(cur.path, c)).k = "link"
                       THEN Refused ELSE Resolved(Append(cur.path, c))

\* walk_safe: from the working directory, component by component.
walk_safe(cwd, root, path) ==
    LET at[n \in 0..Len(path)] ==
          IF n = 0 THEN Resolved(cwd) ELSE walk_component(at[n - 1], root, path[n])
        r == at[Len(path)]
    IN IF r.ok /\ ~starts_with(r.path, root) THEN Refused ELSE r

\* Path::exists follows links; the parent of a path yet to be made must be a
\* directory and no link.
exists(p) == node(fs, canonicalize(fs, p)) # None
parent_is_dir(p) == p # <<>> /\ symlink_metadata(fs, Front(p)).k = "dir"

\* Fault: what the walk saw is trusted.
recheck_nothing(target, root) == TRUE

\* Fault: the home itself passes, having no ancestor below it.
recheck_home_too(target, root) ==
    /\ starts_with(target, root)
    /\ \A n \in Len(root)..(Len(target) - 1) :
         LET a == SubSeq(target, 1, n)
         IN /\ symlink_metadata(fs, a) # None
            /\ a # root => symlink_metadata(fs, a).k # "link"

\* recheck_ancestors_no_symlinks: everything between the home and the target.
recheck_ancestors_no_symlinks(target, root) ==
    /\ starts_with(target, root) /\ target # root
    /\ \A n \in Len(root)..(Len(target) - 1) :
         LET a == SubSeq(target, 1, n)
         IN /\ symlink_metadata(fs, a) # None
            /\ a # root => symlink_metadata(fs, a).k # "link"

recheck_path_no_symlinks(target, root) ==
    \/ target = root
    \/ /\ recheck_ancestors_no_symlinks(target, root)
       /\ symlink_metadata(fs, target).k \notin {"link", "none"}

----------------------------------------------------------------------------
\* Requests.

\* required_op.
required_op(op) == CASE op \in {"Ls", "Stat", "Get"} -> {"Read"}
                     [] op = "Put" -> {"Write"}
                     [] op = "Mkdir" -> {"Mkdir"}
                     [] op = "Rmdir" -> {"Rmdir"}
                     [] op = "Rm" -> {"Delete"}
                     [] op = "Rename" -> {"Rename"}
                     [] op = "Chmod" -> {"Chmod"}
                     [] op = "Cd" -> {}

\* Mkdir, Put and the destination of Rename may name what does not exist yet.
may_be_new(op) == op \in {"Mkdir", "Put"}

\* temp_path_for: the partial lies beside the file.
temp_path_for(p) == Append(Front(p), temp_name(Last(p)))

\* is_upload_temp, of the request's own words, and the requests that look.
is_upload_temp(path) ==
    path # <<>> /\ \E p \in Nodes \ {<<>>} : Last(path) = temp_name(Last(p))
names_temp(req) == /\ req.op \in {"Get", "Put", "Rm", "Rename"}
                   /\ \/ is_upload_temp(req.path)
                      \/ req.op = "Rename" /\ is_upload_temp(req.to)

home(s) == sess[s].user.home

finish(s) == sess' = [sess EXCEPT ![s].pc = "idle", ![s].req = NoSpec, ![s].target = <<>>,
                                  ![s].dest = <<>>]

\* acl_reject, the names clients must leave alone, then the walk of the request's
\* path and of Rename's second one.
accept(s, req) ==
    /\ sess[s] # NoSpec /\ sess[s].pc = "idle" /\ sess[s].left > 0
    /\ required_op(req.op) \subseteq sess[s].user.permissions
    /\ LET r == walk_safe(sess[s].cwd, home(s), req.path)
           d == walk_safe(sess[s].cwd, home(s), req.to)
           begun == [sess[s] EXCEPT !.left = @ - 1, !.raced = FALSE, !.touched = {}]
       IN sess' = [sess EXCEPT ![s] =
                     IF ~names_temp(req) /\ r.ok /\ (req.op = "Rename" => d.ok)
                     THEN [begun EXCEPT !.req = req, !.pc = "resolve", !.target = r.path,
                                        !.dest = IF req.op = "Rename" THEN d.path ELSE <<>>]
                     ELSE begun]
    /\ UNCHANGED <<fs, cfg, phase, by_name, anonymous>>

\* resolve and resolve_parent, after the walk.
resolve(s) ==
    /\ sess[s] # NoSpec /\ sess[s].pc = "resolve"
    /\ LET op == sess[s].req.op
           found == IF may_be_new(op) THEN parent_is_dir(sess[s].target)
                                      ELSE exists(sess[s].target)
       IN IF found /\ (op = "Rename" => parent_is_dir(sess[s].dest))
          THEN sess' = [sess EXCEPT ![s].pc = "recheck"] ELSE finish(s)
    /\ UNCHANGED <<fs, cfg, phase, by_name, anonymous>>

\* The re-check of each request: Cd and Ls cover the leaf too, Stat of the home
\* itself needs none, and Put's path must have a name to build the partial's from.
rechecked(s) ==
    LET r == sess[s].req.op
        p == sess[s].target
    IN CASE r \in {"Cd", "Ls"} -> recheck_path_no_symlinks(p, home(s))
         [] r = "Stat" -> p = home(s) \/ recheck_ancestors_no_symlinks(p, home(s))
         [] r = "Rename" -> /\ recheck_ancestors_no_symlinks(p, home(s))
                            /\ recheck_ancestors_no_symlinks(sess[s].dest, home(s))
         [] r = "Put" -> /\ recheck_ancestors_no_symlinks(p, home(s))
                         /\ temp_path_for(p) \in Paths
         [] OTHER -> recheck_ancestors_no_symlinks(p, home(s))

\* From here on Put's second path is its partial.
recheck(s) ==
    /\ sess[s] # NoSpec /\ sess[s].pc = "recheck"
    /\ IF rechecked(s)
       THEN sess' = [sess EXCEPT ![s].pc = "act",
                                 ![s].dest = IF sess[s].req.op = "Put"
                                             THEN temp_path_for(sess[s].target) ELSE @]
       ELSE finish(s)
    /\ UNCHANGED <<fs, cfg, phase, by_name, anonymous>>

\* A system call is about to use a path that was checked.
Checked == {"act", "chmod", "body", "commit", "mode"}

\* A system call leaves this tree, and its session as r; whoever has re-checked a
\* path and not used it yet has been raced if the tree changed.
called(s, tree, r) ==
    /\ fs' = tree
    /\ sess' = [v \in Sessions |->
                  IF v = s THEN r
                  ELSE IF sess[v] # NoSpec /\ sess[v].pc \in Checked /\ tree # fs
                  THEN [sess[v] EXCEPT !.raced = TRUE] ELSE sess[v]]
    /\ UNCHANGED <<cfg, phase, by_name, anonymous>>

\* The session's last system call: what it touched is recorded.
acted(s, tree, nodes, cwd) ==
    called(s, tree, [sess[s] EXCEPT !.pc = "idle", !.req = NoSpec, !.target = <<>>,
                                    !.dest = <<>>, !.cwd = cwd, !.touched = nodes])

pending(s, op) == sess[s] # NoSpec /\ sess[s].pc = "act" /\ sess[s].req.op = op

\* Cd: the target is adopted if it is a directory (links followed).
cd(s) ==
    /\ pending(s, "Cd")
    /\ LET p == sess[s].target
           isDir == node(fs, canonicalize(fs, p)).k = "dir"
       IN acted(s, fs, {canonicalize(fs, p)}, IF isDir THEN p ELSE sess[s].cwd)

\* read_dir follows every link.
ls(s) == /\ pending(s, "Ls")
         /\ acted(s, fs, {canonicalize(fs, sess[s].target)}, sess[s].cwd)

\* Stat looks at the node itself.
stat(s) == /\ pending(s, "Stat")
           /\ acted(s, fs, {located(fs, sess[s].target)}, sess[s].cwd)

\* Get's open does not follow the leaf (O_NOFOLLOW) and takes regular files only.
get(s) == /\ pending(s, "Get")
          /\ LET p == located(fs, sess[s].target)
             IN acted(s, fs, IF node(fs, p).k = "file" THEN {p} ELSE {}, sess[s].cwd)

mkdir(s) ==
    /\ pending(s, "Mkdir")
    /\ LET p == located(fs, sess[s].target)
       IN IF p \in Nodes /\ fs[p] = None /\ node(fs, Front(p)).k = "dir"
          THEN acted(s, [fs EXCEPT ![p] = Dir], {p}, sess[s].cwd)
          ELSE acted(s, fs, {}, sess[s].cwd)

rmdir(s) ==
    /\ pending(s, "Rmdir")
    /\ LET p == located(fs, sess[s].target)
       IN IF node(fs, p).k = "dir" /\ children(fs, p) = {}
          THEN acted(s, [fs EXCEPT ![p] = None], {p}, sess[s].cwd)
          ELSE acted(s, fs, {}, sess[s].cwd)

rm(s) ==
    /\ pending(s, "Rm")
    /\ LET p == located(fs, sess[s].target)
       IN IF node(fs, p).k \in {"file", "link"}
          THEN acted(s, [fs EXCEPT ![p] = None], {p}, sess[s].cwd)
          ELSE acted(s, fs, {}, sess[s].cwd)

rename(s) ==
    /\ pending(s, "Rename")
    /\ LET tree == renamed(fs, sess[s].target, sess[s].dest)
       IN acted(s, tree, IF tree = fs THEN {}
                         ELSE {located(fs, sess[s].target), located(fs, sess[s].dest)},
                sess[s].cwd)

\* set_mode: the leaf is looked at once more, then chmod follows it.
set_mode_lstat(s) ==
    /\ pending(s, "Chmod")
    /\ IF symlink_metadata(fs, sess[s].target).k \in {"link", "none"} THEN finish(s)
       ELSE sess' = [sess EXCEPT ![s].pc = "chmod"]
    /\ UNCHANGED <<fs, cfg, phase, by_name, anonymous>>

set_mode(s) ==
    /\ sess[s] # NoSpec /\ sess[s].pc = "chmod"
    /\ acted(s, fs, {canonicalize(fs, sess[s].target)}, sess[s].cwd)

----------------------------------------------------------------------------
\* Put.

running(s, pc) == sess[s] # NoSpec /\ sess[s].pc = pc

\* Another upload of the user holds the claim on the path.
claimed(s) == \E v \in Sessions \ {s} :
                 /\ sess[v] # NoSpec /\ sess[v].user = sess[s].user
                 /\ sess[v].pc \in {"body", "commit", "mode"} /\ sess[v].target = sess[s].target

\* start_put: claim the path and open the partial, which is made if need be and never
\* reached through a link of that name.  no_clobber, a resume that finds another
\* length, a claimed path or a failed open refuse it.
put_open(s) ==
    /\ pending(s, "Put")
    /\ LET p == located(fs, sess[s].dest)
       IN \/ /\ ~claimed(s)
             /\ p \in Nodes /\ fs[p] \in {None, File} /\ node(fs, Front(p)).k = "dir"
             /\ called(s, [fs EXCEPT ![p] = File],
                       [sess[s] EXCEPT !.pc = "body", !.touched = {p}])
          \/ finish(s) /\ UNCHANGED <<fs, cfg, phase, by_name, anonymous>>

\* The upload ends early: the partial stays for a resume.
put_abort(s) == /\ running(s, "body")
                /\ finish(s)
                /\ UNCHANGED <<fs, cfg, phase, by_name, anonymous>>

\* The body is complete and verified: the final path is re-checked.
put_recheck(s) ==
    /\ running(s, "body")
    /\ IF recheck_ancestors_no_symlinks(sess[s].target, home(s))
       THEN sess' = [sess EXCEPT ![s].pc = "commit", ![s].raced = FALSE, ![s].touched = {}]
       ELSE finish(s)
    /\ UNCHANGED <<fs, cfg, phase, by_name, anonymous>>

\* cleanup_rejected_upload, and the quota's refusal: the partial is removed by its path
\* with no re-check, right after the open or at the end of the body; and after the
\* re-check if no_clobber finds the file there.
put_reject(s) ==
    /\ \/ running(s, "body")
       \/ running(s, "commit") /\ symlink_metadata(fs, sess[s].target) # None
    /\ LET p == located(fs, sess[s].dest)
       IN IF node(fs, p).k \in {"file", "link"}
          THEN acted(s, [fs EXCEPT ![p] = None], {p}, sess[s].cwd)
          ELSE acted(s, fs, {}, sess[s].cwd)

\* The commit's rename.  No check covers the partial itself after its open: if another
\* node has taken its name since, the session counts as raced.
put_commit(s) ==
    /\ running(s, "commit")
    /\ LET from == located(fs, sess[s].dest)
           tree == renamed(fs, sess[s].dest, sess[s].target)
       IN IF tree = fs THEN finish(s) /\ UNCHANGED <<fs, cfg, phase, by_name, anonymous>>
          ELSE called(s, tree, [sess[s] EXCEPT
                 !.pc = "mode", !.touched = {from, located(fs, sess[s].target)},
                 !.raced = @ \/ node(fs, from).k # "file"])

\* apply_mode: chmod by the final path, which follows it.
put_mode(s) ==
    /\ running(s, "mode")
    /\ acted(s, fs, {canonicalize(fs, sess[s].target)}, sess[s].cwd)

----------------------------------------------------------------------------
Init == /\ fs \in Trees
        /\ cfg \in Configs
        /\ phase = "start"
        /\ by_name = << >>
        /\ anonymous = NoSpec
        /\ sess = [s \in Sessions |-> NoSpec]

handle_request(s) == \/ \E req \in Requests : accept(s, req)
                     \/ resolve(s) \/ recheck(s)
                     \/ cd(s) \/ ls(s) \/ stat(s) \/ get(s)
                     \/ mkdir(s) \/ rmdir(s) \/ rm(s) \/ rename(s)
                     \/ set_mode_lstat(s) \/ set_mode(s)
                     \/ put_open(s) \/ put_abort(s) \/ put_recheck(s)
                     \/ put_reject(s) \/ put_commit(s) \/ put_mode(s)

Next == load \/ \E s \in Sessions : connect(s) \/ handle_request(s)

Spec == Init /\ [][Next]_vars

----------------------------------------------------------------------------
\* What the operator provides: a global root that is a real directory other than
\* the root of the file system, links that lead to real directories, and users.

FsNodes == {None, Dir, File} \cup [k : {"link"}, to : Paths]
HomeSpecs == [abs : BOOLEAN, path : Seq(Names \cup {".."})]
Specs == [name : Names \cup {".."}, home : {NoHome} \cup HomeSpecs,
          permissions : SUBSET STRING, quota : Nat]

ASSUME TreesAssumption ==
    /\ Nodes \subseteq Paths /\ Root \in Nodes /\ Root # <<>>
    /\ \A tree \in Trees : /\ tree \in [Nodes -> FsNodes]
                           /\ real_dir(tree, Root)
                           /\ \A p \in Nodes : tree[p].k = "link" => real_dir(tree, tree[p].to)

ASSUME InputsAssumption ==
    /\ \A c \in Configs : c.users \in Seq(Specs) /\ c.anonymous \in Specs \cup {NoSpec}
    /\ \A req \in Requests :
          /\ req.op \in {"Ls", "Stat", "Get", "Put", "Mkdir", "Rmdir", "Rm", "Rename",
                         "Chmod", "Cd"}
          /\ req.path \in Seq(STRING) /\ req.to \in Seq(STRING)
    /\ MaxRequests \in Nat

----------------------------------------------------------------------------
\* Properties.

Active == {s \in Sessions : sess[s] # NoSpec}

\* A configuration the server starts with gives every named user a directory
\* under the root that contains no other user's home, whatever links, `..`, absolute
\* paths or equal names it was written with; only the implicit anonymous user's
\* contains them all.
HomesApart ==
    phase = "serving" =>
        LET users == {by_name[n] : n \in DOMAIN by_name}
                     \cup (IF cfg.anonymous = NoSpec THEN {} ELSE {anonymous})
        IN /\ \A u \in users : starts_with(u.home, Root) /\ u.home \in Nodes
           /\ \A u, v \in users : u # v => ~starts_with(u.home, v.home)

\* Every home stays a directory that no link leads to, whatever concurrent requests
\* rename and remove (in trees whose links lead out of the root).  The re-checks look
\* at nothing above the home and let the home itself be a link, so they rely on it.
HomesStayReal ==
    phase = "serving" =>
        \A u \in {by_name[n] : n \in DOMAIN by_name} \cup {anonymous} : real_dir(fs, u.home)

\* The working directory stays in its user's home, and a request touches nothing
\* outside it, although the tree holds links that lead out, directories with such
\* links are renamed while it runs, and the working directory may be gone: the one
\* way out is a change of the tree that falls between its own last check and its system
\* call.  For the removal of a rejected upload's partial that is the time since its open.
OpsStayInside ==
    \A s \in Active : /\ starts_with(sess[s].cwd, home(s))
                      /\ sess[s].raced \/ \A p \in sess[s].touched : starts_with(p, home(s))

\* What lies in a named user's home is made, moved and removed only by that user's own
\* requests, uploads included, and that even when a rename overtook them (in trees whose
\* links lead out of the root).
OnlyOwnerWrites ==
    [][ phase = "serving" =>
          \A n \in DOMAIN by_name, p \in Nodes :
              (starts_with(p, by_name[n].home) /\ fs'[p] # fs[p]) =>
                  \E s \in Active : sess'[s].pc # sess[s].pc /\ sess[s].user.name = n ]_vars
=============================================================================
