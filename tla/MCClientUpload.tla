--------------------------- MODULE MCClientUpload ---------------------------
(***************************************************************************)
(* Instances of ClientUpload for TLC.                                      *)
(***************************************************************************)
EXTENDS ClientUpload

f == <<"f">>
g == <<"d", "g">>
o == <<"t", "g">>
ignore == <<".qftpignore">>

AllFiles == {f, g, o, ignore}

\* "t/": the directory t and everything below it.
OneRule == {[pat |-> <<"t">>, anchored |-> FALSE, dir_only |-> TRUE]}

command(c, policy, delete) == [cmd |-> c, policy |-> policy, delete |-> delete]

AllCommands ==
  {command("put", policy, FALSE) : policy \in {"Force", "NoClobber", "Interactive"}}
    \cup {command("sync", "Force", TRUE), command("watch", "Force", FALSE)}

\* A sync, which looks at every file, meets two of the changes and losses only.
FewForSync == cmd.cmd = "sync" => nlocal + nremote + nlosses <= 2

SomeLocal == {[p \in AllFiles |-> IF p = o THEN NoFile ELSE 0]}
SomeRemote == {[p \in AllFiles |-> IF p = f THEN NoFile ELSE 0]}
=============================================================================
