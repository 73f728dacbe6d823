----------------------------- MODULE ImageTree -----------------------------
(***************************************************************************)
(* The read side of a parsed image: inode and path lookup (metadata.rs),   *)
(* the live-tree walk and its sinks (live_tree.rs), the tar emitter and    *)
(* the path commands of limni (main.rs), the virtual file system (vfs.rs). *)
(*                                                                         *)
(* An image is [root, inodes], inodes a function from inode numbers to     *)
(* records.  Names are numbers, so that the order of names is the order of *)
(* numbers, and a path is a sequence of names, <<>> being the root.  A     *)
(* directory node is addressed by the hash of its entries, so a directory  *)
(* inode carries the entries themselves.  File contents are sequences of   *)
(* chunks.  Times are in TicksPerSecond ticks: a tar header holds seconds. *)
(***************************************************************************)
EXTENDS Naturals, Sequences, FiniteSets, SequencesExt, FiniteSetsExt

CONSTANTS TicksPerSecond,
          Unrepresentable   \* attributes with NUL or newline bytes

ASSUME TickAssumption == TicksPerSecond \in Nat \ {0}

Missing == [kind |-> "missing"]

InodeByNumber(img, n) == IF n \in DOMAIN img.inodes THEN img.inodes[n] ELSE Missing

EntriesOf(inode) == IF inode.kind = "dir" THEN inode.entries ELSE <<>>

\* The unique directory that no directory names; 0 stands for None.
RootInodeNumber(inodes) ==
    LET referenced == UNION {{EntriesOf(inodes[n])[k].ino : k \in DOMAIN EntriesOf(inodes[n])}
                               : n \in DOMAIN inodes}
        candidates == {n \in DOMAIN inodes : inodes[n].kind = "dir" /\ n \notin referenced}
    IN  IF Cardinality(candidates) = 1 THEN CHOOSE n \in candidates : TRUE ELSE 0

\* The number of the first entry called nm in the directory n; 0 stands for None.
Lookup(img, n, nm) ==
    LET es == EntriesOf(InodeByNumber(img, n))
        hits == {k \in DOMAIN es : es[k].name = nm}
    IN  IF hits = {} THEN 0 ELSE es[Min(hits)].ino

\* resolve_path: one lookup per component, from the root.
ResolvePath(img, path) ==
    LET at[k \in 0..Len(path)] ==
          IF k = 0 THEN img.root
          ELSE IF at[k - 1] = 0 THEN 0 ELSE Lookup(img, at[k - 1], path[k])
    IN  at[Len(path)]

\* build_path_index: the queue, breadth first, with the prefix of every entry.
PathIndex(img) ==
    LET Children(item) ==
          LET es == EntriesOf(InodeByNumber(img, item.ino))
          IN  [k \in DOMAIN es |-> [path |-> Append(item.path, es[k].name), ino |-> es[k].ino]]
        bfs[n \in Nat] ==
          IF n = 0 THEN [queue |-> <<[path |-> <<>>, ino |-> img.root]>>,
                         index |-> {[path |-> <<>>, ino |-> img.root]}]
          ELSE LET s == bfs[n - 1] IN
               IF s.queue = <<>> THEN s
               ELSE [queue |-> Tail(s.queue) \o Children(Head(s.queue)),
                     index |-> s.index \cup Range(Children(Head(s.queue)))]
    IN  bfs[2 * Cardinality(DOMAIN img.inodes) + 2].index

(***************************************************************************)
(* walk_live_tree, as the sequence of calls its sink receives.  A          *)
(* directory is entered once (visited); a missing child ends the walk with *)
(* an error, which an event of kind "missing" stands for.                  *)
(***************************************************************************)
WalkLiveTree(img) ==
    LET Push(item, rest) ==
          LET es == EntriesOf(InodeByNumber(img, item.ino))
          IN  [k \in DOMAIN es |-> [path |-> Append(item.path, es[k].name),
                                    ino  |-> es[k].ino]] \o rest
        Event(item) == [path |-> item.path, ino |-> item.ino,
                        inode |-> InodeByNumber(img, item.ino)]
        walk[n \in Nat] ==
          IF n = 0 THEN [stack |-> <<[path |-> <<>>, ino |-> img.root]>>,
                         visited |-> {}, events |-> <<>>]
          ELSE LET s == walk[n - 1] IN
               IF s.stack = <<>> THEN s
               ELSE LET item  == Head(s.stack)
                        inode == InodeByNumber(img, item.ino)
                        again == inode.kind = "dir" /\ item.ino \in s.visited
                    IN  [stack   |-> IF inode = Missing THEN <<>>
                                     ELSE IF again \/ inode.kind # "dir" THEN Tail(s.stack)
                                     ELSE Push(item, Tail(s.stack)),
                         visited |-> s.visited \cup (IF inode.kind = "dir" THEN {item.ino} ELSE {}),
                         events  |-> IF again THEN s.events ELSE Append(s.events, Event(item))]
    IN  walk[2 * Cardinality(DOMAIN img.inodes) + 2].events

\* file_plaintext / file_chunks: the inline bytes, or the drops of the slices in
\* order, each windowed to its slice; fails when the store misses a drop.
Undecodable == "undecodable"

FilePlaintext(inode, store) ==
    IF inode.kind # "file" THEN <<>>
    ELSE IF inode.inline \/ Range(inode.data) \subseteq store THEN inode.data ELSE Undecodable

\* DropIdCollectorSink: the drops the files of the live tree refer to.
LiveDrops(img) ==
    LET ev == WalkLiveTree(img)
    IN  UNION {Range(ev[k].inode.data) :
                 k \in {j \in DOMAIN ev : ev[j].inode.kind = "file" /\ ~ev[j].inode.inline}}

\* Mutant of LaterName: every name of an inode is a file of its own.
LaterNameNever(ev, k) == ev = <<>> /\ k = 0

\* Whether event k is a later name of an inode the sink has already seen.
LaterName(ev, k) == \E j \in 1..(k - 1) : ev[j].inode.kind = "file" /\ ev[j].ino = ev[k].ino

FirstName(ev, n) ==
    ev[Min({j \in DOMAIN ev : ev[j].inode.kind = "file" /\ ev[j].ino = n})].path

(***************************************************************************)
(* TarSink: one member per event; a later name of an inode is a Link to    *)
(* the first.  The attributes of a file precede its member in an extended  *)
(* header, which the reader of the archive attaches to that member; those  *)
(* a pax record cannot represent are left out.                             *)
(***************************************************************************)
PaxRecords(xattr) == SelectSeq(xattr, LAMBDA x : x \notin Unrepresentable)

Seconds(t) == t \div TicksPerSecond

TarMembers(img) ==
    LET ev == WalkLiveTree(img)
        Header(k, type) ==
          [type |-> type, name |-> ev[k].path, mtime |-> Seconds(ev[k].inode.mtime) * TicksPerSecond,
           mode |-> ev[k].inode.mode, own |-> ev[k].inode.own, xattr |-> <<>>, sparse |-> FALSE, data |-> <<>>, target |-> <<>>]
        Emit(k) ==
          CASE ev[k].inode.kind = "dir" ->
                 IF ev[k].path = <<>> THEN <<>> ELSE <<Header(k, "Directory")>>
            [] ev[k].inode.kind = "symlink" ->
                 <<[Header(k, "Symlink") EXCEPT !.target = ev[k].inode.target]>>
            [] ev[k].inode.kind = "file" /\ LaterName(ev, k) ->
                 <<[Header(k, "Link") EXCEPT !.target = FirstName(ev, ev[k].ino),
                                             !.xattr = PaxRecords(ev[k].inode.xattr)]>>
            [] ev[k].inode.kind = "file" /\ ~LaterName(ev, k) ->
                 <<[Header(k, "Regular") EXCEPT !.data = ev[k].inode.data,
                                                !.xattr = PaxRecords(ev[k].inode.xattr)]>>
            [] OTHER -> <<>>
    IN  FlattenSeq([k \in DOMAIN ev |-> Emit(k)])

(***************************************************************************)
(* ParallelExtractSink: directories and symlinks are made during the walk, *)
(* first names are tasks, later names are links to the first.              *)
(***************************************************************************)
ExtractPlan(img) ==
    LET ev == WalkLiveTree(img)
        Of(P(_)) == SelectSeq([k \in DOMAIN ev |-> [e |-> ev[k], later |-> LaterName(ev, k)]], P)
        Files(x) == x.e.inode.kind = "file" /\ ~x.later
        Links(x) == x.e.inode.kind = "file" /\ x.later
        Dirs(x)  == x.e.inode.kind = "dir"
        Syms(x)  == x.e.inode.kind = "symlink"
        Events(s) == [k \in DOMAIN s |-> s[k].e]
    IN  [tasks |-> Events(Of(Files)), dirs |-> Events(Of(Dirs)), symlinks |-> Events(Of(Syms)),
         links |-> [k \in DOMAIN Of(Links) |->
                      [path |-> Of(Links)[k].e.path, first |-> FirstName(ev, Of(Links)[k].e.ino)]]]

(***************************************************************************)
(* The path commands: ls and stat resolve one path, tree prints every      *)
(* directory once, cat reads [offset, offset + length) window by window,   *)
(* cat-multi goes by the path index and writes whole drops.                *)
(***************************************************************************)
ListDirectory(img, path) ==
    LET n == ResolvePath(img, path)
    IN  IF n # 0 /\ InodeByNumber(img, n).kind = "dir" THEN EntriesOf(img.inodes[n])
        ELSE Undecodable

\* Mutant of Cat: a window reaches one chunk too far.
CatOverrun(img, path, offset, length, store) ==
    LET inode == InodeByNumber(img, ResolvePath(img, path))
        start == Min({offset, Len(inode.data)})
    IN  IF inode.kind # "file" \/ FilePlaintext(inode, store) = Undecodable THEN Undecodable
        ELSE SubSeq(FilePlaintext(inode, store), start + 1, Min({start + length + 1, Len(inode.data)}))

Cat(img, path, offset, length, store) ==
    LET inode == InodeByNumber(img, ResolvePath(img, path))
        start == Min({offset, Len(inode.data)})
        take  == Min({length, Len(inode.data) - start})
    IN  IF inode.kind # "file" \/ FilePlaintext(inode, store) = Undecodable THEN Undecodable
        ELSE SubSeq(FilePlaintext(inode, store), start + 1, start + take)

CatMulti(img, path, store) ==
    LET hits == {e \in PathIndex(img) : e.path = path}
    IN  IF hits = {} THEN Undecodable
        ELSE LET inode == InodeByNumber(img, (CHOOSE e \in hits : TRUE).ino)
             IN  IF inode.kind = "file" THEN FilePlaintext(inode, store) ELSE Undecodable

\* dedup_stats over all inodes: chunks the files hold, and chunks stored once.
DedupStats(img) ==
    LET files  == {n \in DOMAIN img.inodes : img.inodes[n].kind = "file"}
        big    == {n \in files : ~img.inodes[n].inline}
        unique == UNION {Range(img.inodes[n].data) : n \in big}
        inline == {img.inodes[n].data : n \in files \ big}
    IN  [files   |-> Cardinality(files),
         drops   |-> Cardinality(unique),
         logical |-> MapThenSumSet(LAMBDA n : Len(img.inodes[n].data), files),
         stored  |-> Cardinality(unique) + MapThenSumSet(Len, inline)]

(***************************************************************************)
(* The virtual file system.  Inode numbers are the image's own.            *)
(***************************************************************************)
VfsAttr(img, n) ==
    LET i == InodeByNumber(img, n)
    IN  IF i = Missing THEN Missing
        ELSE [kind |-> i.kind, size |-> IF i.kind = "file" THEN Len(i.data) ELSE 0,
              nlink |-> i.nlink, mtime |-> i.mtime]

\* readdir_at: the entries from an index on, each with its absolute index from 0.
ReaddirAt(img, n, start) ==
    LET es == EntriesOf(InodeByNumber(img, n))
    IN  [k \in 1..(IF start < Len(es) THEN Len(es) - start ELSE 0) |->
           [index |-> start + k - 1, name |-> es[start + k].name, ino |-> es[start + k].ino]]

VfsRead(img, n, store) ==
    LET i == InodeByNumber(img, n)
    IN  IF i.kind = "file" THEN FilePlaintext(i, store) ELSE Undecodable

=============================================================================
