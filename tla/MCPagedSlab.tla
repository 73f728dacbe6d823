---------------------------- MODULE MCPagedSlab ----------------------------
(***************************************************************************)
(* Two slabs of several pages: drops that span pages, a drop both slabs     *)
(* hold, one compressed with a dictionary nobody gave, one unreadable.      *)
(***************************************************************************)
EXTENDS PagedSlab

Rec(id, off, n, readable, dict) == [id |-> id, off |-> off, len |-> n, readable |-> readable, dict |-> dict]

MCSlabs == <<[total |-> 11, records |-> <<Rec("a", 0, 4, TRUE, NO_DICT), Rec("b", 4, 2, TRUE, 1)>>],
             [total |-> 7, records |-> <<Rec("b", 0, 2, TRUE, 1), Rec("c", 2, 0, TRUE, 7)>>]>>

MCContents == <<<<1, 2, 3, 4, 5, 11, 12, 13, 14, 21, 22>>, <<1, 2, 3, 6, 7, 21, 22>> >>

Loc(kind) == [kind |-> kind, gateway |-> [scheme |-> "https", rest |-> "host"]]

Uri(scheme, rest) == [scheme |-> scheme, rest |-> rest]

MCTransports ==
    {[locs |-> <<Loc("ipfs")>>, multi |-> FALSE, uri |-> Uri("ipfs", "cid")],
     [locs |-> <<Loc("s3")>>, multi |-> FALSE, uri |-> Uri("s3", "no key")],
     [locs |-> <<Loc("file"), Loc("http")>>, multi |-> TRUE, uri |-> Uri("https", "host")],
     [locs |-> <<Loc("http"), Loc("file")>>, multi |-> TRUE, uri |-> Uri("file", "name")]}

MCRawReads == {<<2, 7>>, <<9, 5>>, <<13, 1>>, <<60, 9>>}
=============================================================================
