---------------------------- MODULE MCFuseMount ----------------------------
(* A root with five files and one directory, numbered as the directory      *)
(* writer numbers them: the root first.                                     *)
EXTENDS FuseMount, TLC

File(d) == [kind |-> "file", mtime |-> 0, nlink |-> 1, data |-> <<d>>, inline |-> TRUE,
            entries |-> <<>>]
Dir(es) == [kind |-> "dir", mtime |-> 0, nlink |-> 1, data |-> <<>>, inline |-> TRUE,
            entries |-> es]
Entries(lo, hi) == [k \in 1..(hi - lo + 1) |-> [name |-> ToString(k), ino |-> lo + k - 1]]

MCImage == [root |-> 1,
            inodes |-> [n \in 1..7 |-> IF n = 1 THEN Dir(Entries(2, 7))
                                       ELSE IF n = 7 THEN Dir(<<>>) ELSE File("a")]]

=============================================================================
