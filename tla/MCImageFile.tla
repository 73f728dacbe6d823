---------------------------- MODULE MCImageFile ----------------------------
(***************************************************************************)
(* Four trees: an empty root; a root with two files of equal inline content *)
(* at the reader's ceiling, a symlink and an xattr; a subdirectory with a    *)
(* chunked file, a hardlinked inline file and drops in two slabs; a root     *)
(* with a file at the writer's threshold, alone or shared.                   *)
(***************************************************************************)
EXTENDS ImageFile

Drop(n) == hash_section(B(7, <<"P", n>>))

Pending(n, len, dict) ==
    [id |-> Drop(n), plaintext_len |-> 2 * len, codec |-> 3, dict_id |-> dict, flags |-> 0, len |-> len]

Ino(n, mode, xattrs, content) ==
    [number |-> n, mode |-> mode, uid |-> 10, gid |-> 20, mtime |-> n + 100, xattrs |-> xattrs, content |-> content]

Entry(name, inode, type) == [name |-> name, inode |-> inode, type |-> type]

NoLinks == [n \in {} |-> 0]

\* A regular file of len bytes; a chunked one has its drops in the slices.
File(len, rank) == FileContent(Str(len, rank), <<>>)

TreeEmpty == [inodes |-> <<Ino(1, 16384 + 493, <<>>, <<"Directory", <<>> >>)>>, nlink |-> NoLinks, groups |-> <<>>]

TreeInline ==
    [inodes |-> <<Ino(1, 16384 + 493, <<>>,
                      <<"Directory", <<Entry(Str(1, 1), 2, 1), Entry(Str(1, 2), 3, 1), Entry(Str(3, 3), 4, 3),
                                       Entry(Str(1, 4), 5, 1)>> >>),
                  Ino(2, 32768 + 420, <<[namespace |-> 0, key |-> Str(6, 1), value |-> Str(3, 8)]>>, File(InlineMax, 5)),
                  Ino(3, 32768 + 420, <<>>, File(InlineMax, 5)),
                  Ino(4, 40960 + 511, <<>>, <<"Symlink", Str(2, 6)>>),
                  Ino(5, 32768 + 420, <<>>, FileContent(EmptyStr, <<>>))>>,
     nlink |-> NoLinks, groups |-> <<>>]

TreeDrops ==
    [inodes |-> <<Ino(2, 16384 + 493, <<>>, <<"Directory", <<Entry(Str(1, 1), 3, 1)>> >>),
                  Ino(3, 32768 + 420, <<>>, FileContent(Str(160, 9), <<[start |-> 0, end |-> 60, drop |-> Drop(1)],
                                                                     [start |-> 60, end |-> 160, drop |-> Drop(2)]>>)),
                  Ino(4, 32768 + 420, <<>>, File(InlineMax - 1, 7)),
                  Ino(1, 16384 + 493, <<>>, <<"Directory", <<Entry(Str(1, 2), 2, 2), Entry(Str(1, 3), 4, 1),
                                                             Entry(Str(1, 4), 4, 1)>> >>)>>,
     nlink |-> 4 :> 2, groups |-> <<<<Pending(1, 30, NO_DICT), Pending(2, 50, 0)>>, <<Pending(3, 120, NO_DICT)>> >>]

TreeOver(count) ==
    [inodes |-> <<Ino(1, 16384 + 493, <<>>, <<"Directory", [i \in 1..count |-> Entry(Str(1, i), i + 1, 1)]>>)>>
                \o [i \in 1..count |-> Ino(i + 1, 32768 + 420, <<>>, File(InlineThreshold, 5))],
     nlink |-> NoLinks, groups |-> <<>>]

MCTrees == {TreeEmpty, TreeInline, TreeDrops, TreeOver(1), TreeOver(2)}

Dicts == {<<>>, <<[codec_id |-> 3, class_id |-> 0, data |-> Str(9, 1)], [codec_id |-> 3, class_id |-> 1, data |-> Str(8, 2)]>>}

MCOptions ==
    {o \in [tree : Trees, shared : BOOLEAN, compresses : BOOLEAN, codec : {5}, external : BOOLEAN,
            dicts : Dicts, base : {NONE, <<"R", <<>> >>}] :
        /\ o.dicts # <<>> => o.tree = TreeDrops
        /\ ~o.shared => o.tree \in {TreeInline, TreeOver(2)}
        /\ o.base # NONE => o.tree = TreeDrops}
=============================================================================
