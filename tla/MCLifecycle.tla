---------------------------- MODULE MCLifecycle ----------------------------
(***************************************************************************)
(* Two source trees that share a chunk, two files each, one of them in one   *)
(* tree small enough to be inlined; two profiles.                           *)
(***************************************************************************)
EXTENDS Lifecycle

MCNameOrder == <<"f", "g">>

MCOne == ("f" :> <<"c1", "c2">>) @@ ("g" :> <<"c3", "c4">>)
MCTwo == ("f" :> <<"c5">>) @@ ("g" :> <<"c3", "c2">>)

MCSources == {MCOne, MCTwo}

MCSigned == [dict |-> FALSE, ext |-> FALSE, sign |-> TRUE]
MCDict   == [dict |-> TRUE, ext |-> TRUE, sign |-> FALSE]

MCProfiles == {MCSigned, MCDict}

MCRwProfiles == {[dict |-> FALSE, ext |-> FALSE, sign |-> FALSE]}

MCStarts == {[base  |-> [tree |-> MCTwo, profile |-> MCDict], layer |-> [tree |-> MCOne, profile |-> MCDict], fp |-> FALSE],
             [base  |-> [tree |-> MCOne, profile |-> MCSigned], layer |-> [tree |-> MCTwo, profile |-> MCDict], fp |-> TRUE]}

MCSymmetry == Permutations(Images) \cup Permutations(Procs)
====
