----------------------------- MODULE FuseMount -----------------------------
(***************************************************************************)
(* limni/src/fuse_vfs.rs: the mount's answers to the kernel.  The kernel   *)
(* is external: it lists a directory by calling readdir with the cookie of *)
(* the last entry it got, until a call returns nothing, and each call has  *)
(* room for some number of entries (names have different lengths).         *)
(***************************************************************************)
EXTENDS ImageTree

CONSTANTS Image,     \* the mounted image, as ImageTree describes it
          MaxRoom    \* bound of the model: entries a reply buffer holds

VARIABLES node,      \* FUSE node number of the directory being listed
          offset,    \* cookie the kernel holds
          listed,    \* history: names received, "." and ".." included
          open,      \* whether the listing goes on
          failed     \* whether a call was answered by an error

vars == <<node, offset, listed, open, failed>>

FuseRoot == 1

\* map_inode: the FUSE root is the root of the image, other numbers are inodes.
MapInode(ino) == IF ino = FuseRoot THEN Image.root ELSE ino

\* What lookup and getattr answer for a node.
FuseLookup(ino, nm) == LET n == Lookup(Image, MapInode(ino), nm)
                       IN  IF n # 0 /\ VfsAttr(Image, n) # Missing THEN n ELSE 0

FuseGetattr(ino) == VfsAttr(Image, MapInode(ino))

Dot    == "."
DotDot == ".."

\* readdir: "." and ".." for the offsets 0 and 1, then the children from offset - 2
\* on, the cookie of the child with absolute index i being base + i + 1.
FuseReaddir(ino, from) ==
    LET start == IF from >= 2 THEN from - 2 ELSE 0
        base  == start + 2
        kids  == ReaddirAt(Image, MapInode(ino), start)
    IN  (IF from = 0 THEN <<[name |-> Dot, cookie |-> 1]>> ELSE <<>>)
        \o (IF from <= 1 THEN <<[name |-> DotDot, cookie |-> 2]>> ELSE <<>>)
        \o [k \in DOMAIN kids |-> [name |-> kids[k].name, cookie |-> base + kids[k].index + 1]]

Init == node = FuseRoot /\ offset = 0 /\ listed = <<>> /\ open = TRUE /\ failed = FALSE

\* A path walk of the kernel, down to the directory it lists.
WalkInto(nm) ==
    /\ offset = 0 /\ listed = <<>>
    /\ FuseLookup(node, nm) # 0 /\ FuseGetattr(FuseLookup(node, nm)).kind = "dir"
    /\ node' = FuseLookup(node, nm)
    /\ UNCHANGED <<offset, listed, open, failed>>

\* The entries for the directory itself and its parent that a reply from this offset on begins with.
Dots(from) == IF from = 0 THEN 2 ELSE IF from = 1 THEN 1 ELSE 0

\* reply.add refuses an entry that does not fit, which ends the reply.
Getdents(room) ==
    LET answer == FuseReaddir(node, offset)
        got    == SubSeq(answer, 1, Min({room, Len(answer)}))
    IN  /\ open /\ room >= Dots(offset)
        /\ listed' = listed \o [k \in DOMAIN got |-> got[k].name]
        /\ offset' = IF got = <<>> THEN offset ELSE got[Len(got)].cookie
        /\ open' = (got # <<>>)
        /\ UNCHANGED <<node, failed>>

\* When "." or ".." does not fit, readdir returns without reply.ok(): the reply is dropped, and fuser (external) answers
\* with an I/O error in its place.
ReaddirDropsReply(room) ==
    /\ open /\ room < Dots(offset)
    /\ open' = FALSE /\ failed' = TRUE
    /\ UNCHANGED <<node, offset, listed>>

Names == UNION {{e.name : e \in Range(EntriesOf(Image.inodes[n]))} : n \in DOMAIN Image.inodes}

Next == \/ \E nm \in Names : WalkInto(nm)
        \/ \E room \in 1..MaxRoom : Getdents(room) \/ ReaddirDropsReply(room)

Spec == Init /\ [][Next]_vars /\ WF_vars(Next)

\* "2+i = the i-th child (cookies are next-index)" (fuse_vfs.rs) and "the walk
\* resumes at any later `start_idx`" (vfs.rs): a listing that ends without an
\* error has ".", ".." and every child once, in order, however the kernel's buffers cut it.
ListingIsComplete ==
    ~open /\ ~failed =>
      LET es == EntriesOf(InodeByNumber(Image, MapInode(node)))
      IN  listed = <<Dot, DotDot>> \o [k \in DOMAIN es |-> es[k].name]

=============================================================================
