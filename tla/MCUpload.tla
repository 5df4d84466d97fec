------------------------------ MODULE MCUpload ------------------------------
(***************************************************************************)
(* Instances of Upload for TLC: which requests the clients send.           *)
(***************************************************************************)
EXTENDS Upload, FiniteSets, TLC

Opt(nc, ck, z) == [no_clobber |-> nc, checksum |-> ck, zstd |-> z]

\* An unverified overwrite, a verified overwrite and a compressed no_clobber.
MixedOptions == {Opt(FALSE, FALSE, FALSE), Opt(FALSE, TRUE, FALSE),
                 Opt(TRUE, TRUE, TRUE)}
VerifiedOnly == {Opt(FALSE, TRUE, FALSE)}

NoRemoves == {}
AllRemoves == Path
NoRenames == {}
AllRenames == {r \in Path \X Path : r[1] # r[2]}

\* Past the first overlap the quota properties claim nothing: a run that checks
\* them with several handler threads need not look further.
UpToOverlap == ~overlapped

\* Directories, names and contents are interchangeable.
Symmetric == Permutations(Dirs) \cup Permutations(Names)
             \cup Permutations(Versions)
=============================================================================
