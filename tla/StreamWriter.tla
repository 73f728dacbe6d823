---------------------------- MODULE StreamWriter ----------------------------
(***************************************************************************)
(* limnifs-write/src/stream.rs and its caller limn_from_tar (main.rs): an  *)
(* image built from a sequence of tar members in any order, then extracted *)
(* by `limni extract`, whose file tasks run in parallel.                   *)
(*                                                                         *)
(* The writer is a record; every add_* is an operator from writers to      *)
(* writers, so that the serial writer (add_file for every file) can be run *)
(* beside the staging one.  A tree under construction maps paths to nodes. *)
(***************************************************************************)
EXTENDS ImageTree, TLC

CONSTANTS Members,          \* the tar members an archive may hold
          InlineThreshold,  \* chunks up to which a file is stored inline
          XattrCap,         \* attributes up to which they are kept
          MaxMembers        \* bound of the model: length of an archive

VARIABLES archive,   \* history: the members read so far
          writer,    \* StreamWriter as limn_from_tar drives it
          serial,    \* history: the same members with add_file for every file
          phase,     \* "adding", "failed", "packed", "extracting", "extracted", "refused"
          image,     \* the parsed artifact of finish
          slabs,     \* drops of the artifact's slabs
          plan,      \* what the walk of the image yields: fixed with the image
          tasks,     \* extract: file tasks not yet done
          broken,    \* extract: tasks and links that met an error, and why
          disk       \* extract: path -> what is there

vars == <<archive, writer, serial, phase, image, slabs, plan, tasks, broken, disk>>

(***************************************************************************)
(* State of the writer.                                                    *)
(***************************************************************************)
\* StreamDir::default: the identity of implicit directories and of the root.
RootMeta == [mtime |-> 0, mode |-> "default", own |-> "root"]

\* order: the numbers of the inodes pushed before the directories; assemble
\* encodes them in that order.
NewWriter == [tree |-> <<>>, next |-> 1, inodes |-> <<>>, order |-> <<>>, xattrs |-> <<>>, drops |-> <<>>,
              nlink |-> <<>>, staged |-> <<>>, err |-> FALSE]

Failed(w) == [w EXCEPT !.err = TRUE]

DirNode(meta) == [kind |-> "dir", meta |-> meta]

Parents(name) == {SubSeq(name, 1, k) : k \in 1..(Len(name) - 1)}

\* bad_name: empty names, and "." or ".." components (0 stands for them).
BadName(name) == name = <<>> \/ 0 \in Range(name)

\* The tree after descend has made the implicit parents of name.
Descend(tree, name) ==
    tree @@ [p \in Parents(name) |-> DirNode(RootMeta)]

\* descend fails on a bad name and on a parent that is not a directory.
CannotDescend(tree, name) ==
    \/ BadName(name)
    \/ \E p \in Parents(name) \cap DOMAIN tree : tree[p].kind # "dir"

Conflict(tree, name) == CannotDescend(tree, name) \/ name \in DOMAIN tree

\* to_wire_xattrs: an error for an unrepresentable attribute before the cap cuts the rest.
BadXattrs(xattr) == \E k \in 1..Min({Len(xattr), XattrCap + 1}) : xattr[k] \in Unrepresentable

WireXattrs(xattr) == SubSeq(xattr, 1, Min({Len(xattr), XattrCap}))

Inline(data) == Len(data) <= InlineThreshold

Meta(m) == [mtime |-> m.mtime, mode |-> m.mode, own |-> m.own]

Inode(kind, meta, xattr) ==
    [kind |-> kind, mtime |-> meta.mtime, mode |-> meta.mode, own |-> meta.own, xattr |-> xattr, nlink |-> 1,
     data |-> <<>>, inline |-> TRUE, target |-> <<>>, entries |-> <<>>]

\* Mutant of MergeDrops: a file whose first chunk is known adds nothing.
MergeDropsByFirst(drops, data) ==
    IF data # <<>> /\ Head(data) \in Range(drops) THEN drops
    ELSE FoldLeft(LAMBDA acc, c : IF c \in Range(acc) THEN acc ELSE Append(acc, c), drops, data)

\* merge_chunked_file: only drops the writer does not hold yet are added.
MergeDrops(drops, data) ==
    FoldLeft(LAMBDA acc, c : IF c \in Range(acc) THEN acc ELSE Append(acc, c), drops, data)

\* The inode of a file and its drops; attributes of a chunked file travel in inode_xattrs.
PushFile(w, n, m, xattr) ==
    IF Inline(m.data)
    THEN [w EXCEPT !.order  = Append(@, n),
                   !.inodes = @ @@ (n :> [Inode("file", Meta(m), xattr) EXCEPT !.data = m.data])]
    ELSE [w EXCEPT !.order  = Append(@, n),
                   !.inodes = @ @@ (n :> [Inode("file", Meta(m), <<>>) EXCEPT
                                            !.data = m.data, !.inline = FALSE]),
                   !.drops  = MergeDrops(@, m.data)]

(***************************************************************************)
(* The operations.                                                         *)
(***************************************************************************)
AddFile(w, m) ==
    IF Conflict(w.tree, m.name) \/ BadXattrs(m.xattr) THEN Failed(w)
    ELSE [PushFile(w, w.next, m, WireXattrs(m.xattr)) EXCEPT
            !.next = @ + 1,
            !.tree = Descend(@, m.name) @@ (m.name :> [kind |-> "file", ino |-> w.next])]

StageFile(w, m) ==
    IF Conflict(w.tree, m.name) \/ BadXattrs(m.xattr) THEN Failed(w)
    ELSE [w EXCEPT !.next   = @ + 1,
                   !.tree   = Descend(@, m.name) @@ (m.name :> [kind |-> "file", ino |-> w.next]),
                   !.staged = Append(@, [ino |-> w.next, member |-> m])]

\* Mutant of AddDir: a directory that exists already is left as it is.
AddDirUnstamped(w, m) ==
    IF CannotDescend(w.tree, m.name) THEN Failed(w)
    ELSE IF m.name \notin DOMAIN w.tree
    THEN [w EXCEPT !.tree = Descend(@, m.name) @@ (m.name :> DirNode(Meta(m)))]
    ELSE w

\* An existing directory is stamped: its mtime changes, its mode and owner do not.
AddDir(w, m) ==
    IF CannotDescend(w.tree, m.name) THEN Failed(w)
    ELSE IF m.name \notin DOMAIN w.tree
    THEN [w EXCEPT !.tree = Descend(@, m.name) @@ (m.name :> DirNode(Meta(m)))]
    ELSE IF w.tree[m.name].kind = "dir"
    THEN [w EXCEPT !.tree[m.name].meta.mtime = m.mtime]
    ELSE Failed(w)

AddHardlink(w, m) ==
    IF Conflict(w.tree, m.name) THEN Failed(w)
    ELSE [w EXCEPT !.tree = Descend(@, m.name)
                              @@ (m.name :> [kind |-> "link", target |-> m.target])]

AddSymlink(w, m) ==
    IF Conflict(w.tree, m.name) THEN Failed(w)
    ELSE [w EXCEPT !.next   = @ + 1,
                   !.order  = Append(@, w.next),
                   !.inodes = @ @@ (w.next :> [Inode("symlink", Meta(m), <<>>) EXCEPT
                                                 !.target = m.target]),
                   !.tree   = Descend(@, m.name) @@ (m.name :> [kind |-> "symlink", ino |-> w.next])]

\* Members that carry no tree content: AppleDouble files, whose last component
\* starts with "._" (8 stands for such a component), and extended headers.
Transport(m) ==
    \/ m.type = "XHeader"
    \/ m.name # <<>> /\ m.name[Len(m.name)] = 8

\* One member of limn_from_tar.  Transport members are skipped, whatever their
\* type; a regular file is staged unless a pax record overrides its size; other
\* types are refused.
TarMember(w, m) ==
    IF Transport(m) THEN w
    ELSE CASE m.type = "Directory" -> AddDir(w, m)
           [] m.type = "Symlink"   -> AddSymlink(w, m)
           [] m.type = "Link"      -> AddHardlink(w, m)
           [] m.type = "Regular"   -> IF m.sparse THEN AddFile(w, m) ELSE StageFile(w, m)
           [] OTHER                -> Failed(w)

SerialMember(w, m) == IF m.type = "Regular" /\ ~Transport(m) THEN AddFile(w, m) ELSE TarMember(w, m)

(***************************************************************************)
(* finish.                                                                 *)
(***************************************************************************)
\* Mutant of FlushStaged: results merged last staged first.
FlushStagedReversed(w) ==
    FoldLeft(LAMBDA acc, s : PushFile(acc, s.ino, s.member, WireXattrs(s.member.xattr)),
             [w EXCEPT !.staged = <<>>], Reverse(w.staged))

\* flush_staged: the parallel map keeps the order; the merge is serial, in stage order.
FlushStaged(w) ==
    FoldLeft(LAMBDA acc, s :
              LET wire   == WireXattrs(s.member.xattr)
                  pushed == PushFile(acc, s.ino, s.member, wire)
              IN  IF ~Inline(s.member.data) /\ wire # <<>>
                  THEN [pushed EXCEPT !.xattrs = @ @@ (s.ino :> wire)]
                  ELSE pushed,
            [w EXCEPT !.staged = <<>>], w.staged)

\* chase: the file a link leads to, through links; 0 for a missing target or a cycle.
Chase(tree, target) ==
    LET hop[k \in Nat] ==
          IF k = 0 THEN [at |-> target, seen |-> {}, ino |-> 0, stop |-> FALSE]
          ELSE LET s == hop[k - 1] IN
               IF s.stop THEN s
               ELSE IF \/ s.at \in s.seen
                       \/ s.at \notin DOMAIN tree
                       \/ tree[s.at].kind \notin {"file", "link"}
               THEN [s EXCEPT !.stop = TRUE]
               ELSE IF tree[s.at].kind = "file"
               THEN [s EXCEPT !.stop = TRUE, !.ino = tree[s.at].ino]
               ELSE [s EXCEPT !.seen = @ \cup {s.at}, !.at = tree[s.at].target]
    IN  hop[Cardinality(DOMAIN tree) + 2].ino

DeferredLinks(tree) == {p \in DOMAIN tree : tree[p].kind = "link"}

\* Mutant of ResolveDeferredLinks: the name of the target itself is not counted.
ResolveLinksOffByOne(w) ==
    LET links == DeferredLinks(w.tree)
        to    == [p \in links |-> Chase(w.tree, w.tree[p].target)]
    IN  IF \E p \in links : to[p] = 0 THEN Failed(w)
        ELSE [w EXCEPT
                !.tree  = [p \in links |-> [kind |-> "file", ino |-> to[p]]] @@ @,
                !.nlink = [n \in {to[p] : p \in links} |-> Cardinality({p \in links : to[p] = n})]]

\* resolve_deferred_links: all or nothing, then one more name for every target inode.
ResolveDeferredLinks(w) ==
    LET links == DeferredLinks(w.tree)
        to    == [p \in links |-> Chase(w.tree, w.tree[p].target)]
    IN  IF \E p \in links : to[p] = 0 THEN Failed(w)
        ELSE [w EXCEPT
                !.tree  = [p \in links |-> [kind |-> "file", ino |-> to[p]]] @@ @,
                !.nlink = [n \in {to[p] : p \in links} |->
                             1 + Cardinality({p \in links : to[p] = n})]]

\* The order of a BTreeMap walk: parents first, siblings by name.
Before(p, q) ==
    \/ IsStrictPrefix(p, q)
    \/ \E k \in 1..Min({Len(p), Len(q)}) :
         p[k] < q[k] /\ SubSeq(p, 1, k - 1) = SubSeq(q, 1, k - 1)

\* materialize_dir: directory inodes are allocated parent first, after all others.
MaterializeDirs(w) ==
    LET dirs   == {<<>>} \cup {p \in DOMAIN w.tree : w.tree[p].kind = "dir"}
        number == [p \in dirs |-> w.next + Cardinality({q \in dirs : Before(q, p)})]
        meta   == [p \in dirs |-> IF p = <<>> THEN RootMeta ELSE w.tree[p].meta]
        names(p) == {q[Len(q)] : q \in {q \in DOMAIN w.tree : q # <<>> /\ Front(q) = p}}
        entry(p, nm) ==
          LET q == Append(p, nm)
          IN  [name |-> nm, ino |-> IF q \in dirs THEN number[q] ELSE w.tree[q].ino]
        entries(p) == LET s == SetToSortSeq(names(p), <)
                      IN  [k \in DOMAIN s |-> entry(p, s[k])]
        dirInodes == [n \in {number[p] : p \in dirs} |->
                        LET p == CHOOSE p \in dirs : number[p] = n
                        IN  [Inode("dir", meta[p], <<>>) EXCEPT !.entries = entries(p)]]
    IN  [w EXCEPT !.inodes = dirInodes @@ @, !.next = @ + Cardinality(dirs)]

\* encode_inode: the link count and the attributes held beside the inode.
Encode(w, n) ==
    [w.inodes[n] EXCEPT
       !.nlink = IF n \in DOMAIN w.nlink THEN w.nlink[n] ELSE 1,
       !.xattr = IF n \in DOMAIN w.xattrs THEN w.xattrs[n] ELSE @]

ParsedImage(w) ==
    LET inodes == [n \in DOMAIN w.inodes |-> Encode(w, n)]
    IN  [root |-> RootInodeNumber(inodes), inodes |-> inodes]

(***************************************************************************)
(* Actions.                                                                *)
(***************************************************************************)
NoImage == [root |-> 0, inodes |-> <<>>]

NoPlan == [tasks |-> <<>>, dirs |-> <<>>, symlinks |-> <<>>, links |-> <<>>]

Init ==
    /\ archive = <<>> /\ writer = NewWriter /\ serial = NewWriter
    /\ phase = "adding" /\ image = NoImage /\ slabs = {} /\ plan = NoPlan
    /\ tasks = {} /\ broken = {} /\ disk = <<>>

ReadMember(m) ==
    /\ phase = "adding" /\ Len(archive) < MaxMembers
    /\ archive' = Append(archive, m)
    /\ writer' = TarMember(writer, m)
    /\ serial' = SerialMember(serial, m)
    /\ phase' = IF writer'.err THEN "failed" ELSE "adding"
    /\ UNCHANGED <<image, slabs, plan, tasks, broken, disk>>

FinishWrite ==
    /\ phase = "adding"
    /\ LET linked == ResolveDeferredLinks(FlushStaged(writer)) IN
         \/ /\ linked.err
            /\ phase' = "failed"
            /\ UNCHANGED <<image, slabs, plan>>
         \/ /\ ~linked.err
            /\ phase' = "packed"
            /\ image' = ParsedImage(MaterializeDirs(linked))
            /\ slabs' = Range(linked.drops)
            /\ plan' = ExtractPlan(image')
    /\ UNCHANGED <<archive, writer, serial, tasks, broken, disk>>

\* apply_unix_identity: mtime and permission bits; the owner stays the extractor.
Stamp(inode) == [mtime |-> inode.mtime, mode |-> inode.mode, own |-> "extractor"]

\* What the file system gives a new name: 0 stands for the time of extraction.
Unstamped == [mtime |-> 0, mode |-> "umask", own |-> "extractor"]

EventAt(events, p) == CHOOSE e \in Range(events) : e.path = p

\* extract, first phase: the walk makes directories and symlinks, parents first.
WalkForExtract ==
    /\ phase = "packed"
    /\ LET made == plan.dirs \o plan.symlinks
       IN  /\ tasks' = Range(plan.tasks)
           /\ disk' = [p \in {e.path : e \in Range(made)} |->
                         [kind |-> EventAt(made, p).inode.kind,
                          target |-> EventAt(made, p).inode.target, stamp |-> Unstamped]]
    /\ phase' = "extracting"
    /\ UNCHANGED <<archive, writer, serial, image, slabs, plan, broken>>

\* A task leaves an error: no file, or a file that is incomplete (how much of it
\* is there does not matter) and unstamped.
TaskFails(t, why, created) ==
    /\ broken' = broken \cup {[path |-> t.path, why |-> why]}
    /\ disk' = IF created
               THEN (t.path :> [kind |-> "file", file |-> t.path, data |-> <<>>, stamp |-> Unstamped])
                      @@ disk
               ELSE disk

\* One rayon task: create the file, stream its chunks, then its identity.  Without
\* its directory or one of its drops it fails.
ExtractFile(t) ==
    /\ phase = "extracting"
    /\ tasks' = tasks \ {t}
    /\ IF Front(t.path) \in DOMAIN disk /\ FilePlaintext(t.inode, slabs) # Undecodable
       THEN /\ disk' = (t.path :> [kind |-> "file", file |-> t.path,
                                   data |-> FilePlaintext(t.inode, slabs),
                                   stamp |-> Stamp(t.inode)]) @@ disk
            /\ UNCHANGED broken
       ELSE TaskFails(t, "image", Front(t.path) \in DOMAIN disk)
    /\ UNCHANGED <<archive, writer, serial, phase, image, slabs, plan>>

\* An I/O error in a task, at the creation of its file or after it.
ExtractFails(t, created) ==
    /\ phase = "extracting"
    /\ tasks' = tasks \ {t}
    /\ TaskFails(t, "io", created)
    /\ UNCHANGED <<archive, writer, serial, phase, image, slabs, plan>>

\* Of the tasks' results extract looks at the first only.
FirstTaskFailed == plan.tasks # <<>> /\ \E e \in broken : e.path = plan.tasks[1].path

Refuse ==
    /\ phase = "extracting" /\ tasks = {}
    /\ FirstTaskFailed
    /\ phase' = "refused"
    /\ UNCHANGED <<archive, writer, serial, image, slabs, plan, tasks, broken, disk>>

LinkPaths(p) == {l.path : l \in Range(p.links)}

\* Directory identities, last of all.
StampedDirs ==
    [p \in {e.path : e \in Range(plan.dirs)} |->
       [disk[p] EXCEPT !.stamp = Stamp(EventAt(plan.dirs, p).inode)]]

\* Mutant of LinkAndStamp: every later name is copied.
LinkAndStampCopies ==
    /\ phase = "extracting" /\ tasks = {}
    /\ ~FirstTaskFailed
    /\ LET first(p) == EventAt(plan.links, p).first
           present  == {p \in LinkPaths(plan) : first(p) \in DOMAIN disk}
       IN  /\ disk' = [p \in present |-> [disk[first(p)] EXCEPT !.file = p]] @@ StampedDirs @@ disk
           /\ broken' = broken \cup {[path |-> p, why |-> "io"] : p \in LinkPaths(plan) \ present}
    /\ phase' = "extracted"
    /\ UNCHANGED <<archive, writer, serial, image, slabs, plan, tasks>>

\* Links after all files.  Where the file system refuses a link the file is copied,
\* with its permission bits but not its mtime; an error of the copy is ignored, so
\* a name whose first name has no file gets none either.
LinkAndStamp ==
    /\ phase = "extracting" /\ tasks = {}
    /\ ~FirstTaskFailed
    /\ \E refused \in SUBSET LinkPaths(plan) : \E lost \in SUBSET refused :
         LET first(p) == EventAt(plan.links, p).first
             absent   == lost \cup {p \in LinkPaths(plan) : first(p) \notin DOMAIN disk}
             linked   == [p \in LinkPaths(plan) \ (refused \cup absent) |-> disk[first(p)]]
             copied   == [p \in refused \ absent |->
                            [disk[first(p)] EXCEPT !.file = p, !.stamp.mtime = Unstamped.mtime]]
         IN  /\ disk' = linked @@ copied @@ StampedDirs @@ disk
             /\ broken' = broken \cup {[path |-> p, why |-> "io"] : p \in absent}
                                \cup {[path |-> p, why |-> "link"] : p \in refused \ absent}
    /\ phase' = "extracted"
    /\ UNCHANGED <<archive, writer, serial, image, slabs, plan, tasks>>

Next ==
    \/ \E m \in Members : ReadMember(m)
    \/ FinishWrite
    \/ WalkForExtract
    \/ \E t \in tasks : ExtractFile(t)
    \/ \E t \in tasks, created \in BOOLEAN : ExtractFails(t, created)
    \/ Refuse
    \/ LinkAndStamp

\* Once packed the image is extracted: the walk and the tasks of the pool go on.
Fairness ==
    /\ WF_vars(WalkForExtract)
    /\ WF_vars(\E t \in tasks : ExtractFile(t))
    /\ WF_vars(LinkAndStamp)
    /\ WF_vars(Refuse)

Spec == Init /\ [][Next]_vars /\ Fairness

(***************************************************************************)
(* What the archive asks for, independent of the writer.                   *)
(***************************************************************************)
ContentAt == {k \in DOMAIN archive : ~Transport(archive[k])}

Content == {archive[k] : k \in ContentAt}

MemberAt(p) == archive[Max({k \in ContentAt : archive[k].name = p})]

Named == {m.name : m \in Content}

\* The regular member a name stands for, through any chain of links.
Origin(p) ==
    LET at[k \in Nat] == IF k = 0 THEN p
                         ELSE LET q == at[k - 1]
                              IN  IF MemberAt(q).type = "Link" THEN MemberAt(q).target ELSE q
    IN  at[Len(archive)]

AskedPaths == {<<>>} \cup Named \cup UNION {Parents(p) : p \in Named}

AskedKind(p) ==
    IF p \notin Named \/ MemberAt(p).type = "Directory" THEN "dir"
    ELSE IF MemberAt(p).type = "Symlink" THEN "symlink" ELSE "file"

\* Whether the first member at or below the directory p is p's own: if not, p came
\* to be as somebody's parent.
MadeByMember(p) ==
    p # <<>> /\ archive[Min({k \in ContentAt : IsPrefix(p, archive[k].name)})].name = p

\* What the archive says of a directory: the mtime of its last member, and the mode
\* and owner of its first, if that is what made the directory.
DirectoryMeta(p) ==
    LET first == archive[Min({k \in ContentAt : archive[k].name = p})]
    IN  [mtime |-> IF p \in Named THEN MemberAt(p).mtime ELSE RootMeta.mtime,
         mode  |-> IF MadeByMember(p) THEN first.mode ELSE RootMeta.mode,
         own   |-> IF MadeByMember(p) THEN first.own ELSE RootMeta.own]

MetaOf(inode) == [mtime |-> inode.mtime, mode |-> inode.mode, own |-> inode.own]

\* The inode at p carries what the member at p, or the one it links to, says.
HoldsMember(inode, p) ==
    /\ inode.kind = AskedKind(p)
    /\ CASE inode.kind = "file"    -> /\ inode.data = MemberAt(Origin(p)).data
                                      /\ MetaOf(inode) = Meta(MemberAt(Origin(p)))
         [] inode.kind = "symlink" -> /\ inode.target = MemberAt(p).target
                                      /\ MetaOf(inode) = Meta(MemberAt(p))
         [] OTHER                  -> MetaOf(inode) = DirectoryMeta(p)

(***************************************************************************)
(* What two images have in common when only inode numbers differ.          *)
(***************************************************************************)
Paths(img) == {e.path : e \in PathIndex(img)}

At(img, p) == InodeByNumber(img, ResolvePath(img, p))

SameContent(a, b) ==
    /\ Paths(a) = Paths(b)
    /\ \A p \in Paths(a) :
         LET i == At(a, p)
             j == At(b, p)
         IN  /\ i.kind = j.kind /\ i.data = j.data /\ i.target = j.target
             /\ i.nlink = j.nlink /\ i.own = j.own /\ i.mode = j.mode
             /\ Seconds(i.mtime) = Seconds(j.mtime)
             /\ i.xattr = j.xattr
    /\ \A p, q \in Paths(a) : (ResolvePath(a, p) = ResolvePath(a, q))
                               <=> (ResolvePath(b, p) = ResolvePath(b, q))

(***************************************************************************)
(* Properties.                                                             *)
(***************************************************************************)
\* "Entries arrive in arbitrary order" (stream.rs module comment): whatever the
\* order of files, directories and links before links and links before their
\* targets, the packed tree has exactly the names the archive asks for, each once,
\* with the content, mtime, mode and owner of its member; the walk, the path index
\* and path resolution agree on them.  But a directory that an earlier member brought
\* about as its parent takes only the mtime of its own member and keeps the mode and
\* owner of an implicit directory (stream.rs:376-378), where the comment of add_dir
\* says "calling this on an existing implicit directory stamps it" and a test
\* "EntryMeta lands verbatim on the emitted inode for every entry kind".
TreeIsArchive ==
    phase = "packed" =>
      LET ev == WalkLiveTree(image)
      IN  /\ image.root # 0
          /\ Paths(image) = AskedPaths
          /\ {ev[k].path : k \in DOMAIN ev} = AskedPaths /\ Len(ev) = Cardinality(AskedPaths)
          /\ \A e \in PathIndex(image) : e.ino = ResolvePath(image, e.path)
          /\ \A p \in AskedPaths : HoldsMember(At(image, p), p)

\* add_hardlink: "both names share one inode, and the emitted inode carries the
\* real nlink": the count of a file is the number of names that lead to it, and
\* names share an inode exactly when they stand for the same member.
LinksAreShared ==
    phase = "packed" =>
      LET files == {p \in AskedPaths : AskedKind(p) = "file"}
      IN  \A p \in files :
            LET same == {q \in files : ResolvePath(image, q) = ResolvePath(image, p)}
            IN  /\ At(image, p).nlink = Cardinality(same)
                /\ same = {q \in files : Origin(q) = Origin(p)}

\* The two writers at finish: as limn_from_tar drives it, and with add_file throughout.
Linked(w) == ResolveDeferredLinks(FlushStaged(w))

\* stage_file and add_file: the staged image has the inodes of the serial one under
\* the same numbers, equal but for the attributes of files too large to be inline
\* (add_file drops them), and the same drops.  Without streamed files the drops come
\* in the same order, and without symlinks the inodes do too.  The comment of
\* stage_file claims more, "byte-identical image to the serial `add_file` path": the
\* attributes differ, and a symlink is pushed when it is added, a staged file only at
\* finish, so that the two inodes come in the other order.
StagedIsSerial ==
    phase = "packed" =>
      LET w == Linked(writer)
          s == Linked(serial)
          i == ParsedImage(MaterializeDirs(s))
          comparable(inode) == IF inode.kind = "file" /\ ~inode.inline
                               THEN [inode EXCEPT !.xattr = <<>>] ELSE inode
      IN  /\ ~s.err
          /\ image.root = i.root
          /\ DOMAIN image.inodes = DOMAIN i.inodes
          /\ \A n \in DOMAIN i.inodes : comparable(image.inodes[n]) = comparable(i.inodes[n])
          /\ Range(w.drops) = Range(s.drops) /\ IsInjective(w.drops)
          /\ (\A m \in Content : ~m.sparse) =>
                /\ w.drops = s.drops
                /\ (\A m \in Content : m.type # "Symlink") => w.order = s.order

\* limni tar and limn --from-tar are inverse: packing the members TarSink emits
\* for the image gives the image again, up to inode numbers and the fraction of
\* a second a tar header cannot hold.
TarRoundTrips ==
    phase = "packed" =>
      LET again == FoldLeft(LAMBDA w, m : TarMember(w, m), NewWriter, TarMembers(image))
          fin   == ResolveDeferredLinks(FlushStaged(again))
      IN  ~fin.err /\ SameContent(image, ParsedImage(MaterializeDirs(fin)))

\* Every way to a file of the packed image gives the bytes of its member: cat as
\* a whole and in two windows that meet anywhere, cat-multi through the path
\* index, the virtual file system by inode; ls, stat, readdir and the dedup
\* report count what the archive holds, and every drop of the slabs is live.
CommandsAgree ==
    phase = "packed" =>
      /\ \A p \in AskedPaths :
           LET n == ResolvePath(image, p)
               d == MemberAt(Origin(p)).data
           IN  IF AskedKind(p) # "file"
               THEN /\ Cat(image, p, 0, 1, slabs) = Undecodable
                    /\ CatMulti(image, p, slabs) = Undecodable
                    /\ VfsRead(image, n, slabs) = Undecodable
                    /\ AskedKind(p) = "dir" =>
                         LET children == {q[Len(q)] : q \in {q \in AskedPaths : q # <<>> /\ Front(q) = p}}
                         IN  /\ {e.name : e \in Range(ReaddirAt(image, n, 0))} = children
                             /\ {e.name : e \in Range(ListDirectory(image, p))} = children
               ELSE /\ CatMulti(image, p, slabs) = d /\ VfsRead(image, n, slabs) = d
                    /\ VfsAttr(image, n).size = Len(d)
                    /\ \A cut \in 0..(Len(d) + 1) :
                         Cat(image, p, 0, cut, slabs) \o Cat(image, p, cut, Len(d), slabs) = d
      /\ LET origins == {Origin(p) : p \in {p \in AskedPaths : AskedKind(p) = "file"}}
         IN  /\ DedupStats(image).files = Cardinality(origins)
             /\ DedupStats(image).logical = MapThenSumSet(LAMBDA p : Len(MemberAt(p).data), origins)
             /\ DedupStats(image).stored <= DedupStats(image).logical
      /\ LiveDrops(image) = slabs

Hit(why) == {e.path : e \in {e \in broken : e.why = why}}

\* The names an error kept from the disk: all names of a file whose task failed, and
\* a link that could be neither linked nor copied.
Spoilt ==
    Hit("io") \cup {p \in AskedPaths : \E q \in Hit("io") \ LinkPaths(plan) :
                      ResolvePath(image, p) = ResolvePath(image, q)}

\* extract with its parallel tasks in any order leaves the tree of the image on disk,
\* whatever fails on the way: every name an error did not hit is there with its kind,
\* content or target, permission bits and mtime, under the owner that extracts; the
\* names of one inode share one file.  A name whose link the file system refused is
\* a file of its own with the content and the permission bits only.
ExtractIsTree ==
    phase = "extracted" =>
      LET good  == AskedPaths \ Spoilt
          copy  == Hit("link")
          files == {p \in good : AskedKind(p) = "file"}
      IN  /\ good \subseteq DOMAIN disk /\ DOMAIN disk \subseteq AskedPaths
          /\ \A p \in good :
               LET i == At(image, p)
               IN  /\ disk[p].kind = i.kind
                   /\ i.kind = "file" => disk[p].data = MemberAt(Origin(p)).data
                   /\ i.kind = "symlink" => disk[p].target = MemberAt(p).target
                   /\ i.kind # "symlink" => /\ disk[p].stamp.mode = i.mode
                                            /\ disk[p].stamp.own = "extractor"
                                            /\ p \notin copy => disk[p].stamp.mtime = i.mtime
          /\ \A p, q \in files :
               disk[p].file = disk[q].file <=>
                 \/ p = q
                 \/ {p, q} \cap copy = {} /\ ResolvePath(image, p) = ResolvePath(image, q)

\* Every packed image can be extracted to the end: only an I/O error keeps extract
\* from success, never a directory that is made too late or a drop that no slab has.
ExtractEnds ==
    (phase = "packed") ~> \/ phase = "extracted" /\ \A e \in broken : e.why # "image"
                          \/ phase = "refused" /\ \E e \in broken : e.why = "io"

=============================================================================
