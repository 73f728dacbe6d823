--------------------------- MODULE MCStreamWriter ---------------------------
(* Archives over two names at the root, one of which may be a directory with *)
(* a child: every order of files, directories, symlinks and hard links.      *)
EXTENDS StreamWriter

Member(type, name) ==
    [type |-> type, name |-> name, mtime |-> 15, mode |-> "rw", own |-> "user", xattr |-> <<>>,
     sparse |-> FALSE, data |-> <<>>, target |-> <<>>]

TreeNames == {<<1>>, <<2>>, <<2, 1>>}

SmallData == <<"a">>
LargeData == <<"a", "b", "a">>

MCMembers ==
    {[Member("Regular", n) EXCEPT !.data = SmallData] : n \in TreeNames}
    \cup {[Member("Regular", n) EXCEPT !.data = IF n = <<1>> THEN <<"b", "c">> ELSE LargeData]
             : n \in TreeNames}
    \cup {[Member("Regular", <<2, 1>>) EXCEPT !.data = LargeData, !.xattr = <<"x", "y", "z">>],
          [Member("Regular", <<1>>) EXCEPT !.data = <<"c", "b">>, !.sparse = TRUE],
          [Member("Regular", <<2, 1>>) EXCEPT !.data = SmallData, !.sparse = TRUE, !.xattr = <<"x">>]}
    \cup {Member("Directory", n) : n \in {<<2>>}}
    \cup {[Member("Directory", <<2>>) EXCEPT !.mtime = 7, !.mode = "r", !.own = "admin"]}
    \cup {[Member("Symlink", n) EXCEPT !.target = <<9>>] : n \in {<<1>>, <<2, 1>>}}
    \cup {[Member("Link", n) EXCEPT !.target = t] : n \in TreeNames \cup {<<3>>}, t \in TreeNames}
    \cup {Member("Directory", <<8>>), Member("Regular", <<8, 1>>)}
    \cup {Member("XHeader", <<9>>), Member("Fifo", <<1>>),
          [Member("Regular", <<1>>) EXCEPT !.xattr = <<"nul">>],
          Member("Directory", <<>>), Member("Regular", <<2, 0>>)}

=============================================================================
