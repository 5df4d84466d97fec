-------------------------------- MODULE MCHomes --------------------------------
(***************************************************************************)
(* Instances of Homes for TLC.                                             *)
(***************************************************************************)
EXTENDS Homes, TLC

root == <<"root">>
out == <<"out">>

\* Two homes with two levels below them, and a directory elsewhere.
SmallTree ==
    {<<>>, root, out, out \o <<"x">>, out \o <<"f">>, root \o <<"l">>, root \o <<"anonymous">>}
    \cup {root \o <<u>> : u \in {"a", "b"}}
    \cup {root \o <<"a", n>> : n \in {"x", "y", "z"}}
    \cup {root \o <<"a", n, "d">> : n \in {"x", "y", "z"}}
    \cup {root \o <<"a", n, "d", "f">> : n \in {"x", "y", "z"}}
    \cup {root \o <<"b", "f">>}
    \cup {d \o <<"f.qftp.partial">> :
             d \in {out} \cup {root \o <<"a", n, "d">> : n \in {"x", "y", "z"}}}

partial(n) == n \o ".qftp.partial"

\* a/x/d is a directory with a file, a/y/d a link that leads out, and so does l.
OneTree ==
    { [p \in SmallTree |->
         CASE p \in {<<>>, root, out, root \o <<"a">>, root \o <<"b">>,
                     root \o <<"a", "x">>, root \o <<"a", "y">>, root \o <<"a", "x", "d">>} -> Dir
           [] p \in {root \o <<"a", "x", "d", "f">>, root \o <<"b", "f">>, out \o <<"f">>} -> File
           [] p \in {root \o <<"a", "y", "d">>, root \o <<"l">>} -> Link(out)
           [] OTHER -> None] }

all == {"Read", "Write", "Delete", "Mkdir", "Rmdir", "Rename", "Chmod"}
spec(name, h) == [name |-> name, home |-> h, permissions |-> all, quota |-> 1]
rel(p) == [abs |-> FALSE, path |-> p]
absolute(p) == [abs |-> TRUE, path |-> p]

\* Homes that are equal, nested, outside, behind a link, or written with `..`.
HomeChoices == {NoHome, rel(<<"a">>), rel(<<"a", "x">>), rel(<<"..", "out">>), rel(<<"l">>),
                absolute(root \o <<"b">>), absolute(root), absolute(out \o <<"x">>),
                absolute(root \o <<"b", "..", "a">>), absolute(root \o <<"b", "f">>)}

SomeConfigs ==
    { [users |-> <<spec("a", NoHome), spec(n, h)>>, anonymous |-> NoSpec] :
        n \in {"a", "b"}, h \in HomeChoices }
    \cup { [users |-> <<spec("a", NoHome)>>,
            anonymous |-> [spec("anonymous", h) EXCEPT !.permissions = {"Read", "Delete"}]] :
             h \in HomeChoices \ {absolute(root \o <<"b">>)} }
    \cup { [users |-> <<spec("a", rel(<<"a", "z">>))>>, anonymous |-> NoSpec] }

\* One certificate for one user, one that names two, one that names nobody.
SomeCerts == { <<"a">>, <<"nobody", "a">>, <<"a", "b">>, <<"nobody">> }

Symmetric == Permutations(Sessions)

Request(op, p, to) == [op |-> op, path |-> p, to |-> to]

SomeRequests ==
    { Request("Rename", <<"/", "x">>, <<"/", "z">>),
      Request("Rename", <<"y">>, <<"/", "x">>),
      Request("Rm", <<"x", "d", "f">>, <<>>),
      Request("Rm", <<"..", "b", "f">>, <<>>),
      Request("Rm", <<"/", "a", "x", "d", "f">>, <<>>),
      Request("Ls", <<"/", "x", "d">>, <<>>),
      Request("Cd", <<"x", "..", "x", "d">>, <<>>),
      Request("Chmod", <<"/", "x", "d">>, <<>>),
      Request("Mkdir", <<"/", "z">>, <<>>),
      Request("Rmdir", <<"/", "z">>, <<>>),
      Request("Rmdir", <<"/">>, <<>>),
      Request("Get", <<"x", "d", "f">>, <<>>),
      Request("Put", <<"x", "d", "f">>, <<>>),
      Request("Rm", <<"x", "d", "f.qftp.partial">>, <<>>),
      Request("Stat", <<"x", "d">>, <<>>) }
=============================================================================
