------------------------------ MODULE Lifecycle ------------------------------
(***************************************************************************)
(* Images as the command line builds, layers, edits, signs, verifies and    *)
(* compacts them in one directory. Every command writes its files one after  *)
(* the other (manifest, slabs, metadata sidecar, then the sparse index or    *)
(* the signature) with std::fs::write, so another process or a failure may   *)
(* see any prefix of them and a file cut short.                             *)
(*                                                                          *)
(* A tree maps names to contents, a content is the sequence of its chunks,   *)
(* and a drop id is the chunk it is the hash of. Directories, links and      *)
(* attributes are in ImageTree, the bytes of the files in ImageFile.        *)
(*                                                                          *)
(* A slab and a sidecar are named by their whole contents (the code's names  *)
(* carry four bytes of the hash). A slab or a sidecar cut short is refused;  *)
(* a manifest cut after its slab index still loads. That an external sidecar *)
(* cut at its shared table loads too is in ImageFile                         *)
(* (TornImageIsNeverMisread). A command reads what it starts from in one     *)
(* step, its base included.                                                 *)
(***************************************************************************)
EXTENDS Integers, SequencesExt

CONSTANTS
    Images,       \* image paths, all in one directory
    Procs,        \* limni processes
    NameOrder,    \* file names in the order a directory node lists them
    Sources,      \* source trees: functions from names to contents
    Profiles,     \* [dict, ext, sign]: what a profile and the flags turn on
    RwProfiles,   \* the same for add and delete, which never sign
    Starts,       \* images to start from: a base and a layer over it, each [tree, profile], and whether its filter is exact
    InlineMax,    \* chunks a file may have and still be inlined
    SlabCap,      \* drops in a slab
    MaxCommands,  \* bound: commands started
    MaxFaults     \* bound: commands that die or fail half way, and drops damaged at rest

IsSequence(s) == s \in Seq(ToSet(s))

\* The readings of a chunk that is not what was stored; no source chunk is one.
Error == "error"
Garbage == "garbage"

None == <<"none">>

ASSUME LifecycleAssumption ==
    /\ SlabCap \in Nat \ {0} /\ IsSequence(NameOrder) /\ None \notin Images
    /\ \A t \in Sources : /\ t = [n \in DOMAIN t |-> t[n]] /\ DOMAIN t \subseteq ToSet(NameOrder)
                         /\ \A n \in DOMAIN t : IsSequence(t[n]) /\ {Error, Garbage} \cap ToSet(t[n]) = {}
    /\ \A s \in Starts : s.base.tree \in Sources /\ s.layer.tree \in Sources

VARIABLES
    disk,         \* the directory: file name -> what it holds
    proc,         \* the command each process runs: the image and the writes it has left
    want,         \* history: what the last manifest written to an image promised
    signed,       \* history: the metadata of the image when it was signed
    started, stops, rot

vars == <<disk, proc, want, signed, started, stops, rot>>

Torn == <<"torn", "">>

Exists(f) == f \in DOMAIN disk
Readable(f) == Exists(f) /\ disk[f] # Torn
Bytes(f) == disk[f][2]
Whole(x) == <<"whole", x>>

\* f with v at k, whether it had a value there or not.
Put(f, k, v) == [x \in DOMAIN f \cup {k} |-> IF x = k THEN v ELSE f[x]]

ImageFileOf(i) == <<"image", i>>
limsig_path(i) == <<"sig", i>>
SparseFileOf(i) == <<"sparse", i>>

(* What write_directory and write_layer produce.                            *)

ContentHandle(content) == <<IF Len(content) <= InlineMax THEN "Inline" ELSE "SliceMap", content>>

Metadata(tree) == [p \in DOMAIN tree |-> ContentHandle(tree[p])]

\* The file a directory node lists first (none in an empty tree).
FirstFile(blob) ==
    {NameOrder[k] : k \in {k \in DOMAIN NameOrder : /\ NameOrder[k] \in DOMAIN blob
                                                   /\ \A j \in 1..(k - 1) : NameOrder[j] \notin DOMAIN blob}}

Referenced(blob) == UNION {ToSet(blob[p][2]) : p \in {q \in DOMAIN blob : blob[q][1] = "SliceMap"}}

\* The drops of a tree in the order they are first met, without those the base has.
NewDrops(chunks, met, has) ==
    FoldLeft(LAMBDA ds, d : IF d \in has \/ d \in ToSet(ds) THEN ds ELSE Append(ds, d), met, chunks)

DropsOf(blob, has) ==
    FoldLeft(LAMBDA ds, p : IF p \in DOMAIN blob /\ blob[p][1] = "SliceMap" THEN NewDrops(blob[p][2], ds, has) ELSE ds,
             <<>>, NameOrder)

Record(dict) == [dict |-> dict, state |-> "sound"]

Slab(k, drops, dict) ==
    [ordinal |-> k - 1,
     records |-> [d \in {drops[j] : j \in {j \in DOMAIN drops : (j - 1) \div SlabCap = k - 1}} |-> Record(dict)]]

Slabs(drops, dict) == [k \in 1..((Len(drops) + SlabCap - 1) \div SlabCap) |-> Slab(k, drops, dict)]

\* file:slab-<ordinal>-<hash>.bin: the name follows from the contents. The code
\* puts four bytes of the hash into it, and the model all of them.
SlabName(slab) == <<"slab", slab>>

\* Mutant: one name for every metadata sidecar.
SidecarNameFixed(blob) == <<"meta", None>>

SidecarName(blob) == <<"meta", blob>>

\* read_manifest: the root over the sections; dictionaries and base are outside.
RootWithoutMetadata(m) == <<"root", [ext |-> m.ext, slabs |-> m.slabs, history |-> m.history]>>

Root(m) == <<"root", [meta |-> m.meta, ext |-> m.ext, slabs |-> m.slabs, history |-> m.history]>>

\* The base drops are those the bloom sidecar and the base's slabs both have;
\* without a readable sidecar, those of the slabs.
BaseContainsBloomOnly(base, exact, d) ==
    IF Readable(SparseFileOf(base)) THEN d \in Bytes(SparseFileOf(base)) ELSE d \in exact

BaseContains(base, exact, d) ==
    /\ d \in exact
    /\ Readable(SparseFileOf(base)) => d \in Bytes(SparseFileOf(base))

AllDrops == UNION {UNION {ToSet(t[n]) : n \in DOMAIN t} : t \in Sources}

Trained(tree) == <<"dict", tree>>

Assembled(out, tree, profile, own, dict, root) ==
    LET slabs == Slabs(own, dict)
        names == [k \in DOMAIN slabs |-> SlabName(slabs[k])]
        blob  == Metadata(tree)
    IN  <<<<ImageFileOf(out), [meta |-> blob, ext |-> profile.ext, slabs |-> names, dicts |-> dict,
                               base |-> root, history |-> "build"]>>>>
        \o [k \in DOMAIN slabs |-> <<names[k], slabs[k]>>]
        \o (IF profile.ext THEN <<<<SidecarName(blob), blob>>>> ELSE <<>>)

write_directory(out, tree, profile) ==
    LET own  == DropsOf(Metadata(tree), {})
    IN  Assembled(out, tree, profile, own, IF profile.dict /\ own # <<>> THEN Trained(tree) ELSE None, None)

\* The drops the base has are not stored again, its dictionaries are adopted, and
\* the sparse index of the layer's own drops follows, with false positives or not.
emit_sparse_sidecar(out, own, fp) == <<SparseFileOf(out), IF fp THEN AllDrops ELSE ToSet(own)>>

adopt_from_section(m, tree) == IF m.dicts # None THEN m.dicts ELSE Trained(tree)

write_layer(out, tree, profile, m, has, fp) ==
    LET own  == DropsOf(Metadata(tree), has)
        dict == IF profile.dict /\ own # <<>> THEN adopt_from_section(m, tree) ELSE None
    IN  Assembled(out, tree, profile, own, dict, Root(m)) \o <<emit_sparse_sidecar(out, own, fp)>>

(* Reading: the slab stores and the chain of an image and its bases.         *)

Decode(record, d, dicts) ==
    CASE record.state # "sound"                                    -> record.state
      [] record.state = "sound" /\ record.dict \in {None, dicts}   -> d
      [] record.state = "sound" /\ record.dict # None /\ dicts = None -> Error
      [] OTHER                                                     -> Garbage

\* Every slab of the index must open; a drop in two slabs is read from the later.
load_mmap(m) ==
    LET stored(k) == DOMAIN Bytes(m.slabs[k]).records
        holders(d) == {k \in DOMAIN m.slabs : d \in stored(k)}
        latest(d) == CHOOSE k \in holders(d) : \A j \in holders(d) : j <= k
    IN  IF \A k \in DOMAIN m.slabs : Readable(m.slabs[k])
        THEN [ok |-> TRUE, drops |-> [d \in UNION {stored(k) : k \in DOMAIN m.slabs} |->
                                         Bytes(m.slabs[latest(d)]).records[d]]]
        ELSE [ok |-> FALSE]

Source(m) ==
    LET store == load_mmap(m)
    IN  IF store.ok THEN [ok |-> TRUE, drops |-> [d \in DOMAIN store.drops |-> Decode(store.drops[d], d, m.dicts)]]
        ELSE store

Manifest(i) == Bytes(ImageFileOf(i))

\* A manifest cut after its slab index loads, without the sections behind it.
\* read_manifest, which verify and the signatures go through, wants the history.
HistoryCut == "cut"

CutManifest(m, history) ==
    [meta |-> m.meta, ext |-> m.ext, slabs |-> m.slabs, dicts |-> None, base |-> None, history |-> history]

read_manifest(i) == Readable(ImageFileOf(i)) /\ Manifest(i).history # HistoryCut

load_slab_chain(i, bases) ==
    LET images == <<i>> \o bases IN [k \in DOMAIN images |-> Source(Manifest(images[k]))]

Plaintext(chain, d) ==
    LET hits == {k \in DOMAIN chain : d \in DOMAIN chain[k].drops}
    IN  IF hits = {} THEN Error ELSE chain[CHOOSE k \in hits : \A j \in hits : k <= j].drops[d]

\* The metadata: inlined, or the sidecar's bytes whatever they are.
MetadataReadable(i) ==
    /\ Readable(ImageFileOf(i))
    /\ Manifest(i).ext => Readable(SidecarName(Manifest(i).meta))

load_image(i) == IF Manifest(i).ext THEN Bytes(SidecarName(Manifest(i).meta)) ELSE Manifest(i).meta

\* A file is written chunk by chunk up to the first that fails.
Chunks(handle, chain) ==
    IF handle[1] = "Inline" THEN handle[2]
    ELSE [k \in DOMAIN handle[2] |-> Plaintext(chain, handle[2][k])]

Failed(chunks) == Error \in ToSet(chunks)

Written(chunks) ==
    IF Failed(chunks) THEN SubSeq(chunks, 1, SelectInSeq(chunks, LAMBDA c : c = Error) - 1) ELSE chunks

Unreadable == [ok |-> FALSE, exact |-> FALSE, tree |-> <<>>]

\* Every file is written, whatever fails; the error of the first file is the
\* one looked at.
extract(i, bases) ==
    LET chain == load_slab_chain(i, bases)
        blob  == load_image(i)
        out   == [p \in DOMAIN blob |-> Chunks(blob[p], chain)]
    IN  IF /\ MetadataReadable(i)
           /\ \A k \in DOMAIN bases : Readable(ImageFileOf(bases[k]))
           /\ \A k \in DOMAIN chain : chain[k].ok
        THEN [ok    |-> \A p \in FirstFile(blob) : ~Failed(out[p]),
              exact |-> \A p \in DOMAIN blob : out[p] = blob[p][2],
              tree  |-> [p \in DOMAIN blob |-> Written(out[p])]]
        ELSE Unreadable

(* The checks.                                                               *)

HashesMatch(source) == \A d \in DOMAIN source.drops : source.drops[d] = d

\* Mutant: stored drops are hashed, references are not looked up.
VerifyStoredOnly(i) ==
    /\ MetadataReadable(i)
    /\ LET own == Source(Manifest(i)) IN own.ok /\ HashesMatch(own)

\* Every reference resolves in the image's own slabs and every stored drop
\* hashes to its id. An image that lists no slab passes as "inline-only",
\* whatever it refers to.
verify_deep(i) ==
    /\ MetadataReadable(i)
    /\ LET own == Source(Manifest(i)) IN
           /\ own.ok
           /\ Manifest(i).slabs # <<>> => Referenced(load_image(i)) \subseteq DOMAIN own.drops /\ HashesMatch(own)

\* Each slab by itself, without the dictionaries.
check_cmd(i) ==
    /\ MetadataReadable(i)
    /\ load_mmap(Manifest(i)).ok
    /\ \A k \in DOMAIN Manifest(i).slabs :
          LET records == Bytes(Manifest(i).slabs[k]).records
          IN  \A d \in DOMAIN records : Decode(records[d], d, None) = d

check_signature(i) ==
    /\ Readable(limsig_path(i)) /\ read_manifest(i)
    /\ Bytes(limsig_path(i)) = Root(Manifest(i))

\* Drops on disk that no file of the image refers to.
gc_cmd(blob, slabs) == (UNION {DOMAIN slabs[k].records : k \in DOMAIN slabs}) \ Referenced(blob)

(* compact_image: one slab in, one slab out, the metadata copied.            *)

find_referenced_drops(m) == IF m.ext THEN {} ELSE Referenced(m.meta)

\* dict_id is written as NO_DICT whatever the record had.
CompactedRecord(record) == IF record.dict = None THEN record ELSE [dict |-> None, state |-> Error]

CompactedKeepAll(m, slab) ==
    [ordinal |-> 0, records |-> [d \in DOMAIN slab.records |-> CompactedRecord(slab.records[d])]]

encode_compacted_slab(m, slab) ==
    [ordinal |-> 0,
     records |-> [d \in DOMAIN slab.records \cap find_referenced_drops(m) |-> CompactedRecord(slab.records[d])]]

reassemble_manifest(m) ==
    [m EXCEPT !.slabs = <<<<"slab-0.bin">>>>, !.dicts = None, !.base = None, !.history = "turnover"]

(* The commands.                                                             *)

Promise(tree, base, root, known) == [tree |-> tree, base |-> base, root |-> root, known |-> known]

Idle == [image |-> None, todo |-> <<>>, promise |-> Promise(<<>>, None, None, FALSE)]

\* The directory after the files were written.
OnDisk(files) ==
    LET last(n) == CHOOSE k \in DOMAIN files : files[k][1] = n /\ \A j \in DOMAIN files : files[j][1] = n => j <= k
    IN  [n \in {files[k][1] : k \in DOMAIN files} |-> Whole(files[last(n)][2])]

\* A base and a layer over it are there to begin with.
Init ==
    \E i \in Images, j \in Images, s \in Starts :
        LET base == write_directory(i, s.base.tree, s.base.profile)
            m    == base[1][2]
        IN  /\ i # j
            /\ disk = OnDisk(base \o write_layer(j, s.layer.tree, s.layer.profile, m,
                                                 ToSet(DropsOf(m.meta, {})), s.fp))
            /\ want = Put(Put(<<>>, i, Promise(s.base.tree, None, None, TRUE)), j, Promise(s.layer.tree, i, Root(m), TRUE))
            /\ proc = [p \in Procs |-> Idle]
            /\ signed = [x \in Images |-> None]
            /\ started = 0 /\ stops = 0 /\ rot = 0

Ready(p) == proc[p] = Idle /\ started < MaxCommands

Start(p, i, files, promise) ==
    /\ proc' = [proc EXCEPT ![p] = [image |-> i, todo |-> files, promise |-> promise]]
    /\ started' = started + 1
    /\ UNCHANGED <<disk, want, signed, stops, rot>>

\* limn <SOURCE> <OUTPUT> [--profile] [--sign-key]
Limn(p) ==
    \E i \in Images, t \in Sources, pr \in Profiles :
        Start(p, i, write_directory(i, t, pr) \o (IF pr.sign THEN <<<<limsig_path(i), None>>>> ELSE <<>>),
              Promise(t, None, None, TRUE))

load_base_drop_index(base) == DOMAIN load_mmap(Manifest(base)).drops

Layer(p) ==
    \E base \in Images, out \in Images, t \in Sources, pr \in Profiles, fp \in BOOLEAN :
        /\ ~pr.sign
        /\ Readable(ImageFileOf(base)) /\ load_mmap(Manifest(base)).ok
        /\ LET m     == Manifest(base)
               exact == load_base_drop_index(base)
           IN  Start(p, out, write_layer(out, t, pr, m, {d \in exact \cup AllDrops : BaseContains(base, exact, d)}, fp),
                     Promise(t, base, Root(m), TRUE))

\* What a command that rewrites image i starts from: the image as extracted
\* without its bases.
Extracted(i) == extract(i, <<>>)

Faithful(i) ==
    /\ i \in DOMAIN want /\ want[i].known
    /\ LET out == Extracted(i) IN out.exact /\ out.tree = want[i].tree

WantedTree(i) == IF i \in DOMAIN want THEN want[i].tree ELSE <<>>

rw_add(p) ==
    \E i \in Images, t \in Sources, n \in ToSet(NameOrder), pr \in RwProfiles :
        /\ n \in DOMAIN t
        /\ Exists(ImageFileOf(i)) => Extracted(i).ok
        /\ LET before == IF Exists(ImageFileOf(i)) THEN Extracted(i).tree ELSE <<>>
           IN  Start(p, i, write_directory(i, Put(before, n, t[n]), pr),
                     Promise(Put(WantedTree(i), n, t[n]), None, None, Faithful(i) \/ ~Exists(ImageFileOf(i))))

Without(tree, n) == [m \in DOMAIN tree \ {n} |-> tree[m]]

rw_delete(p) ==
    \E i \in Images, pr \in RwProfiles :
        /\ Exists(ImageFileOf(i)) /\ Extracted(i).ok
        /\ \E n \in DOMAIN Extracted(i).tree :
              Start(p, i, write_directory(i, Without(Extracted(i).tree, n), pr),
                    Promise(Without(WantedTree(i), n), None, None, Faithful(i)))

\* Extract, write again, to the same image or another.
Repack(p, i, out, pr) ==
    /\ Exists(ImageFileOf(i)) /\ Extracted(i).ok
    /\ Start(p, out, write_directory(out, Extracted(i).tree, pr), Promise(WantedTree(i), None, None, Faithful(i)))

turnover_cmd(p) == \E i \in Images, pr \in Profiles : ~pr.sign /\ Repack(p, i, i, pr)

compact(p) == \E i \in Images, out \in Images, pr \in RwProfiles : Repack(p, i, out, pr)

Finished(p, files) == IF files = <<>> THEN Idle ELSE [proc[p] EXCEPT !.todo = files]

\* std::fs::write of the next file.
WriteFile(p) ==
    /\ proc[p].todo # <<>> /\ Head(proc[p].todo)[1][1] # "sig"
    /\ LET f == Head(proc[p].todo) IN
           /\ disk' = Put(disk, f[1], Whole(f[2]))
           /\ want' = IF f[1] = ImageFileOf(proc[p].image) THEN Put(want, proc[p].image, proc[p].promise) ELSE want
    /\ proc' = [proc EXCEPT ![p] = Finished(p, Tail(proc[p].todo))]
    /\ UNCHANGED <<signed, started, stops, rot>>

\* sign_image takes the root of the manifest that is on disk by then ...
sign_image(p) ==
    /\ proc[p].todo # <<>> /\ Head(proc[p].todo)[1][1] = "sig" /\ Head(proc[p].todo)[2] = None
    /\ LET i == proc[p].image IN
           LET signing == <<Root(Manifest(i)), Manifest(i).meta>> IN
           proc' = [proc EXCEPT ![p] =
                       Finished(p, IF read_manifest(i) THEN <<<<limsig_path(i), signing>>>> ELSE <<>>)]
    /\ UNCHANGED <<disk, want, signed, started, stops, rot>>

\* ... and writes the signature, whatever the manifest is by now.
WriteSignature(p) ==
    /\ proc[p].todo # <<>> /\ Head(proc[p].todo)[1][1] = "sig" /\ Head(proc[p].todo)[2] # None
    /\ LET i       == proc[p].image
           signing == Head(proc[p].todo)[2]
       IN  /\ disk' = Put(disk, limsig_path(i), Whole(signing[1]))
           /\ signed' = [signed EXCEPT ![i] = <<"tree", signing[2]>>]
    /\ proc' = [proc EXCEPT ![p] = Idle]
    /\ UNCHANGED <<want, started, stops, rot>>

\* What a write that is cut short leaves of a file.
LeftOf(name, x) ==
    {Torn} \cup (IF name[1] = "image" THEN {Whole(CutManifest(x, h)) : h \in {x.history, HistoryCut}} ELSE {})

\* The process dies, or a write fails, with the next file cut short or not begun.
Stop(p) ==
    /\ proc[p].todo # <<>> /\ stops + rot < MaxFaults
    /\ LET f == Head(proc[p].todo) IN
           \/ disk' = disk
           \/ (f[1][1] = "sig" => f[2] # None) /\ \E v \in LeftOf(f[1], f[2]) : disk' = Put(disk, f[1], v)
    /\ proc' = [proc EXCEPT ![p] = Idle]
    /\ stops' = stops + 1
    /\ UNCHANGED <<want, signed, started, rot>>

\* A stored drop is damaged at rest: it decodes to something else, or not at all.
RotDrop ==
    /\ stops + rot < MaxFaults
    /\ \E f \in DOMAIN disk, how \in {Garbage, Error} :
          /\ f[1] = "slab" /\ disk[f] # Torn
          /\ \E d \in DOMAIN Bytes(f).records :
                disk' = [disk EXCEPT ![f][2].records[d].state = how]
    /\ rot' = rot + 1
    /\ UNCHANGED <<proc, want, signed, started, stops>>

Next ==
    \/ \E p \in Procs :
          \/ Ready(p) /\ (Limn(p) \/ Layer(p) \/ rw_add(p) \/ rw_delete(p) \/ turnover_cmd(p) \/ compact(p))
          \/ WriteFile(p) \/ sign_image(p) \/ WriteSignature(p) \/ Stop(p)
    \/ RotDrop

Spec == Init /\ [][Next]_vars

(* Properties.                                                               *)

Quiet == \A p \in Procs : proc[p] = Idle

Bases(i) == IF want[i].base = None THEN <<>> ELSE <<want[i].base>>

\* The base a layer was built on is still the image it was built on.
BaseUnchanged(i) ==
    want[i].base # None => /\ Readable(ImageFileOf(want[i].base))
                           /\ Root(Manifest(want[i].base)) = want[i].root

ReadsBack(i) == LET out == extract(i, Bases(i)) IN out.exact /\ out.tree = want[i].tree

\* When no command is running and none was cut short, every image reads back,
\* with its base, the tree the commands built: layers over layers, over a base
\* whose sparse index is stale, with adopted dictionaries, and after commands
\* that overlapped. An image rewritten from an extraction that had lost
\* something is not promised anything (EditsKeepOtherFiles is about those).
CommandsKeepTrees ==
    Quiet /\ stops = 0 /\ rot = 0 =>
        \A i \in DOMAIN want : want[i].known /\ BaseUnchanged(i) => ReadsBack(i)

\* The checks are enough, in whatever state crashes, damage and half-run commands
\* left the directory. When check passes, no drop of the image's slabs is read as
\* something it is not. When verify --deep passes an image that lists a slab, or
\* one that refers to no drop, extracting the image by itself succeeds and
\* delivers exactly what its metadata refers to. An image that refers to drops
\* and lists no slab (a layer whose drops are all its base's) passes with nothing
\* looked up, and is the only one that does: by itself it delivers its inlined
\* files and leaves every other file empty, and never anything else. (The comment
\* of verify_deep: "every drop id referenced by the metadata resolves in the slab
\* store"; main.rs:857 returns before that for an empty slab index.)
ChecksAreEnough ==
    \A i \in Images :
        /\ check_cmd(i) => HashesMatch(Source(Manifest(i)))
        /\ verify_deep(i) =>
              LET out  == extract(i, <<>>)
                  blob == load_image(i)
              IN  IF Manifest(i).slabs # <<>> \/ Referenced(blob) = {} THEN out.ok /\ out.exact
                  ELSE /\ ~out.exact
                       /\ out.tree = [p \in DOMAIN blob |-> IF blob[p][1] = "Inline" THEN blob[p][2] ELSE <<>>]

\* While drops are sound, no reader sees a mix: the metadata it loads is the one
\* its manifest was written with, and every chunk it gets through whatever image
\* is passed as the base is the chunk meant or an error. So it is between two
\* writes of a command, after one died, and with two writing the same image.
NoMixedImage ==
    rot = 0 => \A i \in Images : MetadataReadable(i) =>
        /\ load_image(i) = Manifest(i).meta
        /\ \A b \in {x \in Images : Readable(ImageFileOf(x))} :
              LET chain == load_slab_chain(i, <<b>>) IN
              (\A k \in DOMAIN chain : chain[k].ok) =>
                  \A d \in Referenced(Manifest(i).meta) : Plaintext(chain, d) \in {d, Error}

\* A signature that verifies fixes the tree: the image's metadata is what it
\* was when the signature was made, whatever rewrote the image since, also
\* between the moment sign_image read the root and the moment it wrote it.
SignatureFixesTheTree ==
    \A i \in Images : check_signature(i) => signed[i] = <<"tree", Manifest(i).meta>>

\* compact_image on an image with inlined metadata and no dictionary, and a slab
\* that holds the drops the image refers to, keeps every one of them readable
\* and leaves no garbage.
CompactionKeepsReferenced ==
    \A i \in Images, f \in DOMAIN disk :
        /\ Readable(ImageFileOf(i)) /\ ~Manifest(i).ext
        /\ f[1] = "slab" /\ disk[f] # Torn
        /\ Referenced(Manifest(i).meta) \subseteq DOMAIN Bytes(f).records
        /\ \A d \in DOMAIN Bytes(f).records : Bytes(f).records[d].dict = None
        => LET new == encode_compacted_slab(Manifest(i), Bytes(f))
           IN  /\ gc_cmd(reassemble_manifest(Manifest(i)).meta, <<new>>) = {}
               /\ \A d \in Referenced(Manifest(i).meta) : new.records[d] = Bytes(f).records[d]

\* add, delete and turnover change nothing but what they were asked to: the tree
\* of an image nobody else is writing is what the user asked for, or the
\* command said it failed. (turnover_cmd: "extract all files, re-compress".)
EditsKeepOtherFiles ==
    Quiet /\ stops = 0 /\ rot = 0 =>
        \A i \in DOMAIN want : BaseUnchanged(i) => ReadsBack(i)
====
