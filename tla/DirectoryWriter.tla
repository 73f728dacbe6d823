-------------------------- MODULE DirectoryWriter --------------------------
(***************************************************************************)
(* Packing a directory tree (limnifs-write/src/lib.rs).                    *)
(*                                                                         *)
(* `write_directory_with_config` walks the surveyed tree on a producer     *)
(* thread that sends the files to be chunked over a bounded channel; the   *)
(* threads of the rayon pool take them from it, compress their chunks (any *)
(* thread of the pool may compress any chunk, each with a compress cache   *)
(* of its own that outlives the write) and the calling thread merges the   *)
(* results in walk order, runs the dictionary pass and assembles the       *)
(* image.  `write_layer` walks first, buffers the files and resolves       *)
(* chunks that the base image has to that image.                           *)
(*                                                                         *)
(* Data abstraction.  The survey is the sequence of its nodes in the order *)
(* of the fold, a directory being a "dir" node closed by an "end" node; a  *)
(* file's content is its sequence of chunks; a chunk is its DropId.  What  *)
(* the codec tournament picks for a chunk is a function of the chunk and   *)
(* the configuration.  Compressed bytes are the shape a decoder has to     *)
(* expect: one stream, a container of frames, or a stream against a        *)
(* dictionary.  Whether the codec refuses a chunk's frames, and whether    *)
(* the trainer makes a dictionary of a class, are given by the             *)
(* configuration.  Names, modes, times, xattrs and section layout are left *)
(* out.                                                                    *)
(***************************************************************************)
EXTENDS Integers, Sequences, FiniteSets, SequencesExt, FiniteSetsExt

CONSTANTS
  Trees,        \* surveys: <<[kind, ino, chunks], ...>> in fold order
  Workers,      \* threads of the rayon pool
  Chunks,
  SizeOf,       \* SizeOf[c]: plaintext length
  ClassOf,      \* ClassOf[c]: "text", "binary" or "other"
  Footprint,    \* Footprint[c]: what slab_footprint counts for c's drop
  DictSaving,   \* DictSaving[c]: what a dictionary of c's class saves
  Configs,      \* write configurations [codec, seekable, unframed, dict,
                \* trains, shared]: unframed chunks make no container, trains
                \* are the classes the trainer makes a dictionary of
  Jobs,         \* "directory" (streaming) and "layer"
  BaseDrops,    \* the drops of the layer's base image
  BaseDicts,    \* the classes the base image has dictionaries of
  Capacity,     \* PIPELINE_CAPACITY
  CacheMax,     \* COMPRESS_CACHE_MAX_ENTRIES
  ChunkThreshold,  \* SEEKABLE_CHUNK_EMISSION_THRESHOLD
  WholeThreshold,  \* SEEKABLE_EMISSION_THRESHOLD
  MaxContent,   \* MAX_SLAB_TOTAL_BYTES - SLAB_HEADER_LEN
  InlineThreshold, \* defaults.inline_threshold of the writer
  InlineMax,    \* the reader's ceiling on inline contents
  MinClass,     \* dictionaries.min_class_size
  MaxSamples,   \* MAX_DICT_SAMPLES
  DictBytes,    \* size of a trained dictionary
  MaxWrites     \* bound: writes by the process

Large     == {"chunked", "whole", "unchunked"}
FileKinds == Large \cup {"inline"}

\* The directories that are open after the first n nodes of a tree.
Nodes(tree, n, kind) == {i \in 1..n : tree[i].kind = kind}
Depth(tree, n) == Cardinality(Nodes(tree, n, "dir")) - Cardinality(Nodes(tree, n, "end"))

\* The length of a content.
Length(chunks) == FoldLeft(LAMBDA n, c : n + SizeOf[c], 0, chunks)

\* A survey is the fold of a tree, whose links of one file have one content;
\* a file is inline when it is no longer than the writer's threshold.
\* CODEC_REFERENCED is a sentinel, which no configuration chooses.
ASSUME WriterAssumption ==
  /\ \A t \in Trees :
       /\ t \in Seq(ToSet(t))
       /\ \A i \in DOMAIN t :
            /\ t[i].kind \in FileKinds \cup {"dir", "end", "symlink", "special"}
            /\ t[i].chunks \in Seq(Chunks)
            /\ t[i].kind \in FileKinds =>
                 (t[i].kind = "inline" <=> Length(t[i].chunks) <= InlineThreshold)
       /\ t[1].kind = "dir" /\ t[Len(t)].kind = "end"
       /\ \A n \in 1..(Len(t) - 1) : Depth(t, n) > 0
       /\ Depth(t, Len(t)) = 0
       /\ \A i, j \in DOMAIN t :
            {t[i].kind, t[j].kind} \subseteq FileKinds /\ t[i].ino = t[j].ino
              => t[i].chunks = t[j].chunks
  /\ \A c \in Chunks : Footprint[c] \in Nat
  /\ \A g \in Configs, c \in Chunks : g.codec[c] # "referenced"
  /\ \A g \in Configs : g.trains \subseteq {"text", "binary"}
  /\ BaseDicts \subseteq {"text", "binary"}
  /\ Capacity \in Nat \ {0} /\ MinClass \in Nat \ {0} /\ CacheMax \in Nat
  /\ Jobs \subseteq {"directory", "layer"}
  /\ Jobs # {} /\ Configs # {} /\ Trees # {}

VARIABLES
  phase,     \* "idle", "pipeline", "merge" or "done"
  job, cfg,  \* which kind of write, and its configuration
  survey,    \* the tree that is written
  broken,    \* the nodes whose file cannot be read
  pos,       \* the node the fold is at
  ctx,       \* WriteContext
  chan,      \* pending files: the channel, or pending_files
  sink,      \* "open" while the sender exists
  walk,      \* result of the fold
  arrived,   \* files taken off the channel so far
  inflight,  \* files being processed
  results,   \* processed files that are not merged yet
  cache,     \* COMPRESS_CACHE of each thread
  out,       \* the artifact, or the error
  writes

pipeVars == <<chan, sink, walk, arrived, inflight, results>>
vars == <<phase, job, cfg, survey, broken, pos, ctx, pipeVars, cache, out, writes>>

----------------------------------------------------------------------------
(* Operators the steps are made of.                                        *)

EmptyContext == [next |-> 1, stack |-> <<>>, links |-> <<>>, nlink |-> <<>>,
                 inodes |-> <<>>, drops |-> <<>>]

\* The chunks of a file in the order process_file first meets them, but for
\* those that are drops of the image already (merge_chunked_file).
NewChunks(chunks, drops) ==
  LET ids == {drops[i].id : i \in DOMAIN drops}
  IN FoldLeft(LAMBDA u, c : IF c \in ToSet(u) \cup ids THEN u ELSE Append(u, c), <<>>, chunks)

\* The map f after x is inserted with value y.
Put(f, x, y) == [z \in {x} \cup DOMAIN f |-> IF z = x THEN y ELSE f[z]]

Base == IF job = "layer" THEN BaseDrops ELSE {}

Threshold(kind) == IF kind = "whole" THEN WholeThreshold ELSE ChunkThreshold

\* A drop as merge_chunked_file queues it; seekable_or_monolithic has made a
\* container of a large plaintext whose codec supports it, unless the codec
\* refuses one of the frames.
MakeDrop(config, c, codec, kind) ==
  LET seek == /\ config.seekable
              /\ SizeOf[c] > Threshold(kind)
              /\ codec \notin {"store", "referenced"}
              /\ c \notin config.unframed
  IN [id |-> c, codec |-> codec, seekable |-> seek, dict |-> "none",
      body |-> IF seek THEN "container" ELSE "stream"]

\* A drop whose plaintext is kept for the dictionary pass.
Retained(config, d) == config.dict /\ d.codec = "zstd"

\* The drops whose plaintext is a sample: the first MaxSamples retained ones.
Samples(config, drops) ==
  {i \in DOMAIN drops :
     /\ Retained(config, drops[i])
     /\ Cardinality({j \in 1..(i - 1) : Retained(config, drops[j])}) < MaxSamples}

\* The dictionaries a layer takes over from its base.
Adopted == IF job = "layer" /\ cfg.dict THEN BaseDicts ELSE {}

\* The classes with a dictionary: those of the base, if it has any, or those
\* with enough samples, if the trainer makes something of them.
TrainedClasses(config, adopted, drops) ==
  IF adopted # {} THEN adopted
  ELSE {k \in config.trains :
          Cardinality({i \in Samples(config, drops) : ClassOf[drops[i].id] = k}) >= MinClass}

\* apply_trained_dictionaries: drops a dictionary makes smaller are swapped,
\* samples or not, if all of them together save more than the dictionaries
\* cost.  The record flags of a swapped drop stay as they were.
Candidates(config, adopted, drops) ==
  {i \in DOMAIN drops :
     /\ Retained(config, drops[i])
     /\ ClassOf[drops[i].id] \in TrainedClasses(config, adopted, drops)
     /\ DictSaving[drops[i].id] > 0}

DictionariesPay(config, adopted, drops) ==
  MapThenSumSet(LAMBDA i : DictSaving[drops[i].id], Candidates(config, adopted, drops))
    > DictBytes * Cardinality(TrainedClasses(config, adopted, drops))

ApplyDictionaries(config, adopted, drops) ==
  [i \in DOMAIN drops |->
     IF DictionariesPay(config, adopted, drops) /\ i \in Candidates(config, adopted, drops)
     THEN [drops[i] EXCEPT !.dict = ClassOf[drops[i].id], !.body = "dictStream"]
     ELSE drops[i]]

EmittedDictionaries(config, adopted, drops) ==
  IF DictionariesPay(config, adopted, drops) THEN TrainedClasses(config, adopted, drops) ELSE {}

\* The scan of pack_slabs: a drop that the base has is passed over, a group
\* that the next drop would overfill is closed.
Grouped(s, d) ==
  IF d.codec = "referenced" THEN s
  ELSE IF s.open # <<>> /\ s.size + Footprint[d.id] > MaxContent
  THEN [groups |-> Append(s.groups, s.open), open |-> <<d>>, size |-> Footprint[d.id]]
  ELSE [s EXCEPT !.open = Append(@, d), !.size = @ + Footprint[d.id]]

Ungrouped == [groups |-> <<>>, open |-> <<>>, size |-> 0]

\* Faulty: the group that is open when the drops run out is not pushed.
PackSlabsLosesLast(drops) == FoldLeft(Grouped, Ungrouped, drops).groups

\* pack_slabs: the drops that are not in the base, in order, cut into slabs.
PackSlabs(drops) ==
  LET last == FoldLeft(Grouped, Ungrouped, drops)
  IN IF last.open = <<>> THEN last.groups ELSE Append(last.groups, last.open)

\* build_shared_inline_table: the inline contents of more than one inode.
SharedInline(inodes) ==
  LET times(c) == Cardinality({i \in DOMAIN inodes : inodes[i].content.kind = "inline"
                                                     /\ inodes[i].content.chunks = c})
  IN FoldLeft(LAMBDA t, n : IF /\ n.content.kind = "inline"
                               /\ times(n.content.chunks) > 1
                               /\ n.content.chunks \notin ToSet(t)
                            THEN Append(t, n.content.chunks) ELSE t,
              <<>>, inodes)

\* encode_inode, given the shared-inline table.
EncodeInode(n, table, nlink) ==
  [num |-> n.num,
   nlink |-> IF n.num \in DOMAIN nlink THEN nlink[n.num] ELSE 1,
   content |-> IF n.content.kind = "inline" /\ n.content.chunks \in ToSet(table)
               THEN [kind |-> "shared",
                     index |-> CHOOSE i \in DOMAIN table : table[i] = n.content.chunks]
               ELSE n.content]

----------------------------------------------------------------------------
(* One write at a time; the process and its thread-local caches go on.     *)

Init ==
  /\ phase = "idle"
  /\ job = CHOOSE j \in Jobs : TRUE
  /\ cfg = CHOOSE c \in Configs : TRUE
  /\ survey = CHOOSE t \in Trees : TRUE
  /\ broken = {}
  /\ pos = 1 /\ ctx = EmptyContext
  /\ chan = <<>> /\ sink = "open" /\ walk = "running"
  /\ arrived = 0 /\ inflight = {} /\ results = {}
  /\ cache = [w \in Workers |-> <<>>]
  /\ out = [kind |-> "none"]
  /\ writes = 0

Begin ==
  /\ phase \in {"idle", "done"}
  /\ writes < MaxWrites
  /\ writes' = writes + 1
  /\ phase' = "pipeline"
  /\ job' \in Jobs /\ cfg' \in Configs /\ survey' \in Trees
  /\ broken' \in SUBSET {i \in DOMAIN survey' : survey'[i].kind \in FileKinds}
  /\ pos' = 1 /\ ctx' = EmptyContext
  /\ chan' = <<>> /\ sink' = "open" /\ walk' = "running"
  /\ arrived' = 0 /\ inflight' = {} /\ results' = {}
  /\ out' = [kind |-> "none"]
  /\ UNCHANGED cache

----------------------------------------------------------------------------
(* fold_survey, one node per step, on the producer thread.                 *)

Node == survey[pos]

\* The context with `num` entered, under the name of node `at`, in the
\* directory that is being folded.
Entered(c, at, num) ==
  IF c.stack = <<>> THEN c
  ELSE [c EXCEPT !.stack[Len(c.stack)].entries = Append(@, [name |-> at, num |-> num])]

Pushed(c, num, content) ==
  [c EXCEPT !.inodes = Append(@, [num |-> num, content |-> content])]

\* A new inode for the node at pos.
Allocated(c) == Entered([c EXCEPT !.next = @ + 1], pos, c.next)

Folding == phase = "pipeline" /\ walk = "running" /\ pos <= Len(survey)

Advance == pos' = pos + 1 /\ UNCHANGED <<phase, job, cfg, survey, broken, sink, walk,
                                         arrived, inflight, results, cache, out, writes>>

FoldDir ==
  /\ Folding /\ Node.kind = "dir"
  /\ ctx' = [ctx EXCEPT !.next = @ + 1,
                        !.stack = Append(@, [num |-> ctx.next, at |-> pos, entries |-> <<>>])]
  /\ Advance /\ UNCHANGED chan

FoldEnd ==
  /\ Folding /\ Node.kind = "end"
  /\ LET d == Last(ctx.stack)
     IN ctx' = Pushed(Entered([ctx EXCEPT !.stack = Front(@)], d.at, d.num), d.num,
                      [kind |-> "directory", entries |-> d.entries])
  /\ Advance /\ UNCHANGED chan

FoldSymlink ==
  /\ Folding /\ Node.kind = "symlink"
  /\ ctx' = Pushed(Allocated(ctx), ctx.next, [kind |-> "symlink"])
  /\ Advance /\ UNCHANGED chan

\* A second entry of a file that was folded before.
FoldHardlink ==
  /\ Folding /\ Node.kind \in FileKinds
  /\ Node.ino \in DOMAIN ctx.links
  /\ LET n == ctx.links[Node.ino]
         count == IF n \in DOMAIN ctx.nlink THEN ctx.nlink[n] ELSE 1
     IN ctx' = Entered([ctx EXCEPT !.nlink = Put(@, n, count + 1)], pos, n)
  /\ Advance /\ UNCHANGED chan

NewFile == Node.kind \in FileKinds /\ Node.ino \notin DOMAIN ctx.links

Linked(c) == [Allocated(c) EXCEPT !.links = Put(@, Node.ino, c.next)]

FoldInline ==
  /\ Folding /\ NewFile /\ Node.kind = "inline"
  /\ pos \notin broken
  /\ ctx' = Pushed(Linked(ctx), ctx.next, [kind |-> "inline", chunks |-> Node.chunks])
  /\ Advance /\ UNCHANGED chan

\* Faulty: the channel is taken for unbounded.
FoldLargeUnbounded ==
  /\ Folding /\ NewFile /\ Node.kind \in Large
  /\ ctx' = Linked(ctx)
  /\ chan' = Append(chan, [num |-> ctx.next, at |-> pos])
  /\ Advance

\* A large file is sent to the pool, blocking while the channel is full, or,
\* in a layer write, buffered.
FoldLarge ==
  /\ Folding /\ NewFile /\ Node.kind \in Large
  /\ job = "layer" \/ Len(chan) < Capacity
  /\ ctx' = Linked(ctx)
  /\ chan' = Append(chan, [num |-> ctx.next, at |-> pos])
  /\ Advance

\* Faulty: the error path leaves the sender in place.
FoldErrorKeepsSink ==
  /\ Folding
  /\ \/ Node.kind = "special"
     \/ NewFile /\ Node.kind = "inline" /\ pos \in broken
  /\ walk' = "err"
  /\ UNCHANGED <<phase, job, cfg, survey, broken, pos, ctx, chan, sink, arrived, inflight,
                 results, cache, out, writes>>

\* An unreadable inline file or an unsupported file type ends the walk; the
\* sender is dropped on this path too.
FoldError ==
  /\ Folding
  /\ \/ Node.kind = "special"
     \/ NewFile /\ Node.kind = "inline" /\ pos \in broken
  /\ walk' = "err"
  /\ sink' = "closed"
  /\ UNCHANGED <<phase, job, cfg, survey, broken, pos, ctx, chan, arrived, inflight,
                 results, cache, out, writes>>

FoldDone ==
  /\ phase = "pipeline" /\ walk = "running" /\ pos > Len(survey)
  /\ walk' = "ok"
  /\ sink' = "closed"
  /\ UNCHANGED <<phase, job, cfg, survey, broken, pos, ctx, chan, arrived, inflight,
                 results, cache, out, writes>>

Fold == \/ FoldDir \/ FoldEnd \/ FoldSymlink \/ FoldHardlink \/ FoldInline
        \/ FoldLarge \/ FoldError \/ FoldDone

----------------------------------------------------------------------------
(* process_file on the rayon pool.                                         *)

\* par_bridge hands out the files with their arrival index; a layer write
\* dispatches once the walk has succeeded.
Take ==
  /\ phase = "pipeline"
  /\ chan # <<>>
  /\ job = "layer" => walk = "ok"
  /\ Cardinality(inflight) < Cardinality(Workers)
  /\ chan' = Tail(chan)
  /\ arrived' = arrived + 1
  /\ inflight' = inflight \cup
       {[idx |-> arrived, file |-> Head(chan),
         todo |-> ToSet(survey[Head(chan).at].chunks), codec |-> <<>>]}
  /\ UNCHANGED <<phase, job, cfg, survey, broken, pos, ctx, sink, walk, results, cache, out,
                 writes>>

Finished(f, ok) ==
  /\ inflight' = inflight \ {f}
  /\ results' = results \cup {[idx |-> f.idx, file |-> f.file, ok |-> ok, codec |-> f.codec]}
  /\ UNCHANGED <<phase, job, cfg, survey, broken, pos, ctx, chan, sink, walk, arrived, cache,
                 out, writes>>

ReadFails(f) ==
  /\ f.file.at \in broken
  /\ Finished(f, FALSE)

\* Thread w compresses chunk c of f: a reference when the base has it, what
\* w's cache holds for it, or what the tournament picks, which is cached if
\* there is room.  Whole-file drops consult neither the base nor the cache.
CompressChunk(w, f, c) ==
  /\ phase = "pipeline"
  /\ f.file.at \notin broken
  /\ c \in f.todo
  /\ LET chunked == survey[f.file.at].kind = "chunked"
         cached  == chunked /\ c \notin Base /\ c \in DOMAIN cache[w]
         codec   == IF chunked /\ c \in Base THEN "referenced"
                    ELSE IF cached THEN cache[w][c] ELSE cfg.codec[c]
         store   == /\ chunked /\ c \notin Base /\ ~ cached
                    /\ Cardinality(DOMAIN cache[w]) < CacheMax
     IN /\ inflight' = (inflight \ {f}) \cup
             {[f EXCEPT !.todo = @ \ {c}, !.codec = Put(@, c, codec)]}
        /\ cache' = IF store THEN [cache EXCEPT ![w] = Put(@, c, codec)] ELSE cache
  /\ UNCHANGED <<phase, job, cfg, survey, broken, pos, ctx, chan, sink, walk, arrived,
                 results, out, writes>>

FinishFile(f) ==
  /\ f.file.at \notin broken
  /\ f.todo = {}
  /\ Finished(f, TRUE)

Pool == \/ Take
        \/ \E f \in inflight :
             \/ ReadFails(f) \/ FinishFile(f)
             \/ \E w \in Workers, c \in f.todo : CompressChunk(w, f, c)

----------------------------------------------------------------------------
(* The calling thread.                                                     *)

Fail(why) ==
  /\ out' = [kind |-> "error", at |-> why]
  /\ phase' = "done"
  /\ UNCHANGED <<job, cfg, survey, broken, pos, ctx, pipeVars, cache, writes>>

\* The iterator ends when the channel is empty and disconnected; then the
\* producer is joined.
Join ==
  /\ phase = "pipeline"
  /\ sink = "closed" /\ inflight = {}
  /\ \/ walk = "err" /\ (job = "layer" \/ chan = <<>>) /\ Fail("walk")
     \/ /\ walk = "ok" /\ chan = <<>>
        /\ phase' = "merge"
        /\ UNCHANGED <<job, cfg, survey, broken, pos, ctx, pipeVars, cache, out, writes>>

\* A layer write collects its results into a Result: one error, whichever
\* comes first, is returned when the files in flight are done.
CollectError(r) ==
  /\ phase = "pipeline" /\ job = "layer" /\ inflight = {}
  /\ ~ r.ok
  /\ Fail(r.file.at)

\* merge_chunked_file: drops whose id is new are queued, the inode is pushed.
Merge(r) ==
  LET node == survey[r.file.at]
      new  == NewChunks(node.chunks, ctx.drops)
  IN /\ ctx' = [Pushed(ctx, r.file.num, [kind |-> "drops", chunks |-> node.chunks])
                EXCEPT !.drops = @ \o [i \in DOMAIN new |->
                                         MakeDrop(cfg, new[i], r.codec[new[i]], node.kind)]]
     /\ results' = results \ {r}
     /\ UNCHANGED <<phase, job, cfg, survey, broken, pos, chan, sink, walk, arrived, inflight,
                    cache, out, writes>>

\* Faulty: the results are not sorted by arrival index.
MergeFileUnsorted(r) ==
  /\ phase = "merge"
  /\ IF r.ok THEN Merge(r) ELSE Fail(r.file.at)

\* Results are merged in arrival order; the first error ends the write.
MergeFile(r) ==
  /\ phase = "merge"
  /\ \A q \in results : r.idx <= q.idx
  /\ IF r.ok THEN Merge(r) ELSE Fail(r.file.at)

\* train_and_apply_dictionary, then assemble.
Assemble ==
  /\ phase = "merge" /\ results = {}
  /\ LET drops == ApplyDictionaries(cfg, Adopted, ctx.drops)
         table == IF cfg.shared THEN SharedInline(ctx.inodes) ELSE <<>>
     IN out' = [kind |-> "image",
                inodes |-> [i \in DOMAIN ctx.inodes |->
                              EncodeInode(ctx.inodes[i], table, ctx.nlink)],
                shared |-> table,
                slabs |-> PackSlabs(drops),
                dicts |-> EmittedDictionaries(cfg, Adopted, ctx.drops)]
  /\ phase' = "done"
  /\ UNCHANGED <<job, cfg, survey, broken, pos, ctx, pipeVars, cache, writes>>

Caller == \/ Join
          \/ \E r \in results : CollectError(r) \/ MergeFile(r)
          \/ Assemble

Next == Begin \/ Fold \/ Pool \/ Caller

Spec == Init /\ [][Next]_vars /\ WF_vars(Fold) /\ WF_vars(Pool) /\ WF_vars(Caller)

----------------------------------------------------------------------------
(* What a sequential write would do: the reference the pipeline is held    *)
(* to.                                                                     *)

NewFileAt(tree, i) == /\ tree[i].kind \in FileKinds
                      /\ \A j \in 1..(i - 1) : tree[j].kind \in FileKinds => tree[j].ino # tree[i].ino

WalkFailsAt(i) == \/ survey[i].kind = "special"
                  \/ NewFileAt(survey, i) /\ survey[i].kind = "inline" /\ i \in broken

\* The files for the pool among the first n nodes of a tree.
PendingUpTo(tree) ==
  LET upto[n \in 0..Len(tree)] ==
        IF n = 0 THEN <<>>
        ELSE IF NewFileAt(tree, n) /\ tree[n].kind \in Large THEN Append(upto[n - 1], n)
        ELSE upto[n - 1]
  IN upto

PendingFiles == PendingUpTo(survey)[Len(survey)]

\* What the codec of a chunk has to be.
CodecOf(config, base, c, kind) ==
  IF kind = "chunked" /\ c \in base THEN "referenced" ELSE config.codec[c]

\* The drops of the first n of the files.
DropsUpTo(tree, files, config, base) ==
  LET upto[n \in 0..Len(files)] ==
        IF n = 0 THEN <<>>
        ELSE LET node == tree[files[n]]
                 new  == NewChunks(node.chunks, upto[n - 1])
             IN upto[n - 1] \o
                  [i \in DOMAIN new |->
                     MakeDrop(config, new[i], CodecOf(config, base, new[i], node.kind), node.kind)]
  IN upto

SequentialDrops == DropsUpTo(survey, PendingFiles, cfg, Base)[Len(PendingFiles)]

\* The reader's decode_drop (slab_store.rs): does record d decode to its
\* plaintext, given the dictionaries of the image?
DecodeDrop(d, dicts) ==
  IF d.seekable THEN d.dict = "none" /\ d.body = "container"
  ELSE IF d.dict = "none" THEN d.body = "stream"
  ELSE d.dict \in dicts /\ d.body = "dictStream"

\* parse_metadata_blob: the image is refused when one of its inline contents,
\* in an inode or in the shared table, is over the reader's ceiling.
ParsesInlines(image) ==
  /\ \A n \in ToSet(image.inodes) :
       n.content.kind = "inline" => Length(n.content.chunks) <= InlineMax
  /\ \A c \in ToSet(image.shared) : Length(c) <= InlineMax

----------------------------------------------------------------------------
(* Properties.                                                             *)

\* Type correctness; the channel of a streaming write never holds more than
\* PIPELINE_CAPACITY files.
WriterTypeOK ==
  /\ phase \in {"idle", "pipeline", "merge", "done"}
  /\ job \in Jobs /\ cfg \in Configs /\ survey \in Trees
  /\ pos \in 1..(Len(survey) + 1)
  /\ job = "directory" => Len(chan) <= Capacity
  /\ sink \in {"open", "closed"} /\ walk \in {"running", "ok", "err"}
  /\ \A f \in inflight \cup results : f.idx < arrived
  /\ \A w \in Workers : DOMAIN cache[w] \subseteq Chunks
                        /\ Cardinality(DOMAIN cache[w]) <= CacheMax

\* Whatever the threads do, the write ends as a sequential one would: with
\* the same drops in the same slabs and the files in walk order behind the
\* inodes of the walk, or with the error of the walk, or of the first
\* unreadable file (of any, in a layer).  This is the determinism
\* write_directory_streaming and write_layer promise: the image is a function
\* of the tree, the base and the configuration.
SameAsSequential ==
  phase = "done" =>
    IF \E i \in DOMAIN survey : WalkFailsAt(i)
    THEN out = [kind |-> "error", at |-> "walk"]
    ELSE LET failing == {k \in DOMAIN PendingFiles : PendingFiles[k] \in broken}
         IN IF failing # {}
            THEN \E k \in failing :
                   /\ out = [kind |-> "error", at |-> PendingFiles[k]]
                   /\ job = "layer" \/ \A j \in failing : k <= j
            ELSE /\ out.kind = "image"
                 /\ out.slabs = PackSlabs(ApplyDictionaries(cfg, Adopted, SequentialDrops))
                 /\ out.dicts = EmittedDictionaries(cfg, Adopted, SequentialDrops)
                 /\ LET walked == Len(out.inodes) - Len(PendingFiles)
                    IN /\ walked >= 0
                       /\ \A i \in 1..walked : out.inodes[i].content.kind # "drops"
                       /\ \A k \in DOMAIN PendingFiles :
                            out.inodes[walked + k].content =
                              [kind |-> "drops", chunks |-> survey[PendingFiles[k]].chunks]

\* The directory entry of node `at` in an image.
EntryOf(image, at) ==
  CHOOSE e \in UNION {ToSet(n.content.entries) :
                        n \in {m \in ToSet(image.inodes) : m.content.kind = "directory"}} :
    e.name = at

\* The drops of an image.
DropsIn(image) == UNION {ToSet(image.slabs[i]) : i \in DOMAIN image.slabs}

\* A container of this chunk can be swapped for a dictionary stream.
MaySwap(config, c) ==
  /\ config.dict /\ config.seekable
  /\ SizeOf[c] > ChunkThreshold \/ SizeOf[c] > WholeThreshold

\* The finished image reads back: the reader takes it exactly when no inline
\* file is over its ceiling (the writer's threshold is not held to it), and
\* then the entry of every file leads to exactly one inode, with as many
\* links as entries, whose content is the file's.  A chunk of it decodes, or
\* is the base's, or, in a configuration with seekable drops and dictionaries
\* and for a chunk of container size, lies in a swapped container: that the
\* reader refuses, so the file fails to read but is never misread.  The pass
\* changes the bytes of a drop and leaves its SEEKABLE flag (lib.rs:2377), where
\* docs/read-api.md says "trained-dictionary drops stay monolithic";
\* default_v0_1, which limni takes without --profile, is such a configuration.
EveryFileReadsBack ==
  (phase = "done" /\ out.kind = "image") =>
    /\ ParsesInlines(out) <=> \A i \in DOMAIN survey :
         survey[i].kind = "inline" => Length(survey[i].chunks) <= InlineMax
    /\ \A at \in {i \in DOMAIN survey : survey[i].kind \in FileKinds} :
         LET found == {i \in DOMAIN out.inodes : out.inodes[i].num = EntryOf(out, at).num}
             node  == out.inodes[CHOOSE i \in found : TRUE]
         IN /\ Cardinality(found) = 1
            /\ node.nlink = Cardinality({j \in DOMAIN survey :
                                           /\ survey[j].kind \in FileKinds
                                           /\ survey[j].ino = survey[at].ino})
            /\ CASE node.content.kind = "inline" -> node.content.chunks = survey[at].chunks
                 [] node.content.kind = "shared" ->
                      out.shared[node.content.index] = survey[at].chunks
                 [] node.content.kind = "drops" ->
                      /\ node.content.chunks = survey[at].chunks
                      /\ \A c \in ToSet(survey[at].chunks) :
                           \/ \E d \in DropsIn(out) : d.id = c /\ DecodeDrop(d, out.dicts)
                           \/ c \in Base /\ \A d \in DropsIn(out) : d.id # c
                           \/ /\ MaySwap(cfg, c)
                              /\ \E d \in DropsIn(out) : d.id = c /\ d.seekable /\ d.dict # "none"

\* A write that was started ends, with an image or an error: the walk, the
\* pool and the caller never wait for one another for ever.
WriteFinishes == (phase = "pipeline") ~> (phase = "done")
============================================================================
