------------------------- MODULE MCDirectoryWriter -------------------------
(* Small trees for DirectoryWriter: one with a subdirectory, two inline    *)
(* files of the same content, two chunked files that share a chunk, a      *)
(* whole-file drop of that chunk and a hardlink; one that the walk fails   *)
(* on; one with an inline file that is over the reader's ceiling.          *)
EXTENDS DirectoryWriter

MCChunks == {"a", "b", "m", "s"}

File(kind, ino, chunks) == [kind |-> kind, ino |-> ino, chunks |-> chunks]
Mark(kind) == File(kind, 0, <<>>)

\* The root is a directory; the shared file 2 is linked twice.
MCTree ==
  << Mark("dir"), File("inline", 1, <<"s">>),
       Mark("dir"), File("chunked", 2, <<"b", "a", "b">>), Mark("end"),
     File("whole", 4, <<"b">>), File("chunked", 3, <<"a">>),
     File("chunked", 2, <<"b", "a", "b">>), File("inline", 5, <<"s">>), Mark("end") >>

\* A fifo after a file that is not chunked.
MCFifo == << Mark("dir"), File("unchunked", 1, <<"b">>), Mark("symlink"),
             Mark("special"), Mark("end") >>

\* Two bytes inline where the reader takes one.
MCLong == << Mark("dir"), File("inline", 1, <<"m">>), File("unchunked", 2, <<"b">>),
             Mark("end") >>

MCTrees   == {MCTree, MCFifo, MCLong}

MCSizeOf     == "a" :> 3 @@ "b" :> 4 @@ "m" :> 2 @@ "s" :> 1
MCClassOf    == [c \in MCChunks |-> "text"]
MCFootprint  == [c \in MCChunks |-> 2]
MCDictSaving == [c \in MCChunks |-> IF c = "b" THEN 3 ELSE 0]

Config(seekable, unframed, dict, trains) ==
  [codec |-> [c \in MCChunks |-> "zstd"], seekable |-> seekable, unframed |-> unframed,
   dict |-> dict, trains |-> trains, shared |-> seekable]

\* default_v0_1: seekable drops and dictionaries.
DefaultConfig == Config(TRUE, {}, TRUE, {"text"})

\* Without containers; without dictionaries; with a chunk whose frames the
\* codec refuses; with a trainer that makes nothing of its samples.
MCConfigs ==
  {DefaultConfig, Config(FALSE, {}, TRUE, {"text"}), Config(TRUE, {}, FALSE, {"text"}),
   Config(TRUE, {"b"}, TRUE, {"text"}), Config(FALSE, {}, TRUE, {})}

MCBase       == {"a"}
============================================================================
