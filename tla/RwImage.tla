------------------------------ MODULE RwImage ------------------------------
(***************************************************************************)
(* The read-write image of limnifs-write/src/rw.rs: `RwImage` handles that *)
(* open one image directory, stage changes in memory, and replace the      *)
(* image by a commit or a turnover.                                        *)
(*                                                                         *)
(* The disk holds the manifest, the metadata sidecars and slabs that       *)
(* manifests reference, one write-ahead log, and the `.new-*` staging      *)
(* directories of commits in flight.  Every file-system call that another  *)
(* handle can observe is a step of its own, so that handles of different   *)
(* processes interleave between any two of them.  A handle may crash (or   *)
(* be dropped) in every state; what it wrote stays on disk.                *)
(*                                                                         *)
(* Data abstraction.  A manifest is the file tree it describes and a stamp *)
(* that stands for everything else in its bytes (codec profile, mtimes);   *)
(* manifests are equal iff their hashes are, and the sidecar and the slabs *)
(* of a manifest, whose names are derived from their content, are named by *)
(* the manifest.  The tree has regular files only.  The inode map keeps    *)
(* what distinguishes inode numbers: "base" (an inode of the opened blob)  *)
(* or "fresh" (allocated by this handle, in no blob it holds).             *)
(***************************************************************************)
EXTENDS Naturals, Sequences, FiniteSets

CONSTANTS
  Handles,      \* clients of the image, each its own process
  Writers,      \* handles that stage changes and commit
  Turners,      \* handles that call turnover
  Creators,     \* handles that may start with create_new
  Paths,        \* normalized paths of regular files
  Data,         \* file contents
  Stamps,       \* what distinguishes manifests of the same tree
  MaxOps,       \* bound: length of pending_history
  MaxImages,    \* bound: images left on disk by commits and turnovers
  NoData,       \* no content: the path is absent / not pending
  NoManifest,   \* no manifest: nothing opened, or the all-zero tag
  NoWal         \* no write-ahead log

Tree     == [Paths -> Data \cup {NoData}]
Manifest == [tree: Tree, stamp: Stamps]
HistoryEntry == [op: {"Add", "Update", "Delete"}, path: Paths]

\* `view` is a history field: the tree the writer's user asked for.
WalRecord == [tag: Manifest \cup {NoManifest}, files: Tree,
              hist: Seq(HistoryEntry), view: Tree]

ASSUME ConstantsAssumption ==
  /\ Writers \subseteq Handles
  /\ Turners \subseteq Handles
  /\ Creators \subseteq Handles
  /\ MaxOps \in Nat /\ MaxImages \in Nat
  /\ NoData \notin Data
  /\ NoManifest \notin Manifest
  /\ NoWal \notin WalRecord

VARIABLES
  manifest,   \* the file at manifest_path
  sidecars,   \* metadata sidecars in the image directory
  slabs,      \* slab sets in the image directory
  wal,        \* <manifest_path>.wal
  newdir,     \* handles with a staging directory .new-<pid>-<nanos> to rename
              \* from (abandoned ones are garbage and left out)
  pc,         \* where each handle is
  base,       \* state.blob: the manifest the handle opened
  tag,        \* base_manifest_hash
  files,      \* pending_files
  hist,       \* pending_history
  imap,       \* inode_map
  art,        \* the artifact being written by write_artifact
  job,        \* which call is writing it
  rwal,       \* the WAL bytes a replay has read
  view        \* history variable: the tree the handle's user asked for

disk    == <<manifest, sidecars, slabs, wal, newdir>>
pending == <<files, hist, imap, view>>
vars    == <<disk, pc, base, tag, pending, art, job, rwal>>

----------------------------------------------------------------------------
EmptyTree == [p \in Paths |-> NoData]

TreeOf(m) == IF m = NoManifest THEN EmptyTree ELSE m.tree

Touched(hs) == {hs[i].path : i \in DOMAIN hs}

Deleted(hs) == {hs[i].path : i \in {j \in DOMAIN hs : hs[j].op = "Delete"}}

\* The last entry of the history about p is a Delete.
EndsDeleted(hs, p) ==
  \E i \in DOMAIN hs :
    /\ hs[i] = [op |-> "Delete", path |-> p]
    /\ \A j \in DOMAIN hs : j > i => hs[j].path # p

\* MetadataBlob::build_path_index
PathIndex(m) ==
  [p \in Paths |-> IF TreeOf(m)[p] = NoData THEN "none" ELSE "base"]

\* What replaying WAL w leaves in pending_files: all of w's files go in
\* first, then every Delete of the history takes its path out again.
ReplayFiles(w) ==
  [p \in Paths |-> IF p \in Deleted(w.hist) THEN NoData ELSE w.files[p]]

\* What replaying WAL w over the path index of m leaves in inode_map.
ReplayMap(m, w) ==
  [p \in Paths |->
     IF p \notin Touched(w.hist) THEN PathIndex(m)[p]
     ELSE IF EndsDeleted(w.hist, p) THEN "none" ELSE "fresh"]

\* What the user who wrote w asked for, seen from manifest m.
ReplayView(m, w) ==
  [p \in Paths |-> IF p \in Touched(w.hist) THEN w.view[p] ELSE TreeOf(m)[p]]

\* Faulty: deletes are not applied to the opened tree.
StagingTreeIgnoresDeletes(h) ==
  [p \in Paths |->
     IF files[h][p] # NoData THEN files[h][p] ELSE TreeOf(base[h])[p]]

\* Faulty: only the pending content is written.
StagingTreeWithoutBase(h) == files[h]

\* write_staging_tree: the opened tree, minus deleted paths that have no
\* pending content, overlaid with the pending content.
StagingTree(h) ==
  [p \in Paths |->
     IF files[h][p] # NoData THEN files[h][p]
     ELSE IF p \in Deleted(hist[h]) THEN NoData ELSE TreeOf(base[h])[p]]

\* turnover: the opened tree, or the pending files of a handle that has none.
TurnoverTree(h) == IF base[h] # NoManifest THEN base[h].tree ELSE files[h]

\* The outcome of read_file: content, "not found", or "inode missing".
ReadFile(h, p) ==
  IF base[h] = NoManifest THEN "not opened"
  ELSE IF files[h][p] # NoData THEN files[h][p]
  ELSE CASE imap[h][p] = "none"  -> NoData
         [] imap[h][p] = "base"  -> base[h].tree[p]
         [] imap[h][p] = "fresh" -> "inode missing"

----------------------------------------------------------------------------
\* A packed image is on disk (or none, when a handle may create one).
Init ==
  /\ \/ manifest \in Manifest
     \/ manifest = NoManifest /\ Creators # {}
  /\ sidecars = {manifest} \cap Manifest
  /\ slabs = {manifest} \cap Manifest
  /\ wal = NoWal
  /\ newdir = {}
  /\ pc = [h \in Handles |-> "closed"]
  /\ base = [h \in Handles |-> NoManifest]
  /\ tag = [h \in Handles |-> NoManifest]
  /\ files = [h \in Handles |-> EmptyTree]
  /\ hist = [h \in Handles |-> <<>>]
  /\ imap = [h \in Handles |-> PathIndex(NoManifest)]
  /\ view = [h \in Handles |-> EmptyTree]
  /\ art = [h \in Handles |-> NoManifest]
  /\ job = [h \in Handles |-> "commit"]
  /\ rwal = [h \in Handles |-> NoWal]

\* The handle's memory once the process died or the handle was dropped.
Reset(h) ==
  /\ pc' = [pc EXCEPT ![h] = "closed"]
  /\ base' = [base EXCEPT ![h] = NoManifest]
  /\ tag' = [tag EXCEPT ![h] = NoManifest]
  /\ files' = [files EXCEPT ![h] = EmptyTree]
  /\ hist' = [hist EXCEPT ![h] = <<>>]
  /\ imap' = [imap EXCEPT ![h] = PathIndex(NoManifest)]
  /\ view' = [view EXCEPT ![h] = EmptyTree]
  /\ art' = [art EXCEPT ![h] = NoManifest]
  /\ job' = [job EXCEPT ![h] = "commit"]
  /\ rwal' = [rwal EXCEPT ![h] = NoWal]

----------------------------------------------------------------------------
(* RwImage::open, one step per file it reads or removes.                   *)

\* cleanup_stale_swap_dir removes the staging directories that have reached
\* STALE_SWAP_AGE -- whichever they are, a slow commit's included -- and the
\* manifest is read.
Open(h) ==
  /\ pc[h] = "closed"
  /\ manifest # NoManifest
  /\ \E stale \in SUBSET newdir : newdir' = newdir \ stale
  /\ pc' = [pc EXCEPT ![h] = "opening"]
  /\ base' = [base EXCEPT ![h] = manifest]
  /\ tag' = [tag EXCEPT ![h] = manifest]
  /\ UNCHANGED <<manifest, sidecars, slabs, wal, pending, art, job, rwal>>

\* The sidecar is read and the slabs are mapped; the path index is built.
\* (A missing part makes open return an error: NeverTorn shows that no part
\* of a manifest that was read is ever missing.)
OpenParts(h) ==
  /\ pc[h] = "opening"
  /\ base[h] \in sidecars \cap slabs
  /\ pc' = [pc EXCEPT ![h] = "loaded"]
  /\ imap' = [imap EXCEPT ![h] = PathIndex(base[h])]
  /\ view' = [view EXCEPT ![h] = base[h].tree]
  /\ UNCHANGED <<disk, base, tag, files, hist, art, job, rwal>>

\* replay_wal_if_present reads the WAL, if there is one.
ReadWal(h) ==
  /\ pc[h] = "loaded"
  /\ rwal' = [rwal EXCEPT ![h] = wal]
  /\ pc' = [pc EXCEPT ![h] = IF wal = NoWal THEN "idle" ELSE "walRead"]
  /\ UNCHANGED <<disk, base, tag, pending, art, job>>

\* The stale-WAL gate re-reads the manifest file and compares its hash with
\* the WAL's tag; equal: the recorded operations are replayed.
ReplayWal(h) ==
  /\ pc[h] = "walRead"
  /\ rwal[h].tag = manifest
  /\ pc' = [pc EXCEPT ![h] = "replayed"]
  /\ files' = [files EXCEPT ![h] = ReplayFiles(rwal[h])]
  /\ hist' = [hist EXCEPT ![h] = rwal[h].hist]
  /\ imap' = [imap EXCEPT ![h] = ReplayMap(base[h], rwal[h])]
  /\ view' = [view EXCEPT ![h] = ReplayView(base[h], rwal[h])]
  /\ UNCHANGED <<disk, base, tag, art, job, rwal>>

\* Not equal: the WAL is taken for stale.
SkipWal(h) ==
  /\ pc[h] = "walRead"
  /\ rwal[h].tag # manifest
  /\ pc' = [pc EXCEPT ![h] = "skipped"]
  /\ UNCHANGED <<disk, base, tag, pending, art, job, rwal>>

\* Replayed or stale, the file at the WAL's path is unlinked, whichever WAL
\* it is by now; open returns the handle.
UnlinkWal(h) ==
  /\ pc[h] \in {"replayed", "skipped"}
  /\ wal' = NoWal
  /\ pc' = [pc EXCEPT ![h] = "idle"]
  /\ rwal' = [rwal EXCEPT ![h] = NoWal]
  /\ UNCHANGED <<manifest, sidecars, slabs, newdir, base, tag, pending, art, job>>

\* create_new looks at nothing on disk; an image at the path is replaced by
\* the first commit.
CreateNew(h) ==
  /\ h \in Creators
  /\ pc[h] = "closed"
  /\ pc' = [pc EXCEPT ![h] = "idle"]
  /\ UNCHANGED <<disk, base, tag, pending, art, job, rwal>>

----------------------------------------------------------------------------
(* Staging changes: memory only.                                           *)

Stage(h, op, p, d, i) ==
  /\ pc[h] = "idle"
  /\ Len(hist[h]) < MaxOps
  /\ files' = [files EXCEPT ![h][p] = d]
  /\ imap' = [imap EXCEPT ![h][p] = i]
  /\ hist' = [hist EXCEPT ![h] = Append(@, [op |-> op, path |-> p])]
  /\ view' = [view EXCEPT ![h][p] = IF op = "Delete" THEN NoData ELSE d]
  /\ UNCHANGED <<disk, pc, base, tag, art, job, rwal>>

AddFile(h, p, d) == Stage(h, "Add", p, d, "fresh")

UpdateFile(h, p, d) ==
  /\ imap[h][p] # "none"
  /\ Stage(h, "Update", p, d, "fresh")

\* Faulty: the pending content of the path is not removed.
DeleteFileKeepsPending(h, p) ==
  /\ imap[h][p] # "none"
  /\ Stage(h, "Delete", p, files[h][p], "none")

DeleteFile(h, p) ==
  /\ imap[h][p] # "none"
  /\ Stage(h, "Delete", p, NoData, "none")

----------------------------------------------------------------------------
(* commit and turnover.                                                    *)

\* write_wal: written aside and renamed, so atomic.  The file aside,
\* <manifest>.wal.tmp, is one for all processes: when a second handle writes it
\* between the write and the rename of a first, what one of them renames is the
\* WAL of the second, and the rename of the other fails.  That is the state in
\* which the first and then the second wrote its WAL and the other then met
\* WriteError.  Left out is a WAL cut short because the second process died
\* inside its write.
WriteWal(h) ==
  /\ pc[h] = "idle"
  /\ wal' = [tag |-> tag[h], files |-> files[h], hist |-> hist[h],
             view |-> view[h]]
  /\ pc' = [pc EXCEPT ![h] = "walWritten"]
  /\ UNCHANGED <<manifest, sidecars, slabs, newdir, base, tag, pending, art,
                 job, rwal>>

\* The staging tree is written and packed.
BuildCommit(h) ==
  /\ pc[h] = "walWritten"
  /\ Cardinality(sidecars) < MaxImages
  /\ \E s \in Stamps :
       art' = [art EXCEPT ![h] = [tree |-> StagingTree(h), stamp |-> s]]
  /\ job' = [job EXCEPT ![h] = "commit"]
  /\ pc' = [pc EXCEPT ![h] = "built"]
  /\ UNCHANGED <<disk, base, tag, pending, rwal>>

BuildTurnover(h) ==
  /\ pc[h] = "idle"
  /\ Cardinality(sidecars) < MaxImages
  /\ \E s \in Stamps :
       art' = [art EXCEPT ![h] = [tree |-> TurnoverTree(h), stamp |-> s]]
  /\ job' = [job EXCEPT ![h] = "turnover"]
  /\ pc' = [pc EXCEPT ![h] = "built"]
  /\ UNCHANGED <<disk, base, tag, pending, rwal>>

\* write_artifact: everything into a staging directory of its own ...
StageArtifact(h) ==
  /\ pc[h] = "built"
  /\ newdir' = newdir \cup {h}
  /\ pc' = [pc EXCEPT ![h] = "staged"]
  /\ UNCHANGED <<manifest, sidecars, slabs, wal, base, tag, pending, art, job,
                 rwal>>

\* Faulty: the manifest is renamed before the slabs.
RenameSidecarThenManifest(h) ==
  /\ pc[h] = "staged"
  /\ h \in newdir
  /\ sidecars' = sidecars \cup {art[h]}
  /\ pc' = [pc EXCEPT ![h] = "slabsIn"]
  /\ UNCHANGED <<manifest, slabs, wal, newdir, base, tag, pending, art, job,
                 rwal>>

\* ... then renamed out of it: the sidecar,
RenameSidecar(h) ==
  /\ pc[h] = "staged"
  /\ h \in newdir
  /\ sidecars' = sidecars \cup {art[h]}
  /\ pc' = [pc EXCEPT ![h] = "sidecarIn"]
  /\ UNCHANGED <<manifest, slabs, wal, newdir, base, tag, pending, art, job,
                 rwal>>

\* the slabs,
RenameSlabs(h) ==
  /\ pc[h] = "sidecarIn"
  /\ h \in newdir
  /\ slabs' = slabs \cup {art[h]}
  /\ pc' = [pc EXCEPT ![h] = "slabsIn"]
  /\ UNCHANGED <<manifest, sidecars, wal, newdir, base, tag, pending, art, job,
                 rwal>>

\* Faulty: the staging directory is left behind.
RenameManifestKeepsDir(h) ==
  /\ pc[h] = "slabsIn"
  /\ h \in newdir
  /\ manifest' = art[h]
  /\ pc' = [pc EXCEPT ![h] = IF job[h] = "commit" THEN "swapped" ELSE "idle"]
  /\ art' = [art EXCEPT ![h] = IF job[h] = "commit" THEN @ ELSE NoManifest]
  /\ UNCHANGED <<sidecars, slabs, wal, newdir, base, tag, pending, job, rwal>>

\* and the manifest last; the staging directory is removed.  A turnover
\* returns here: it neither retags the handle nor clears its pending state.
RenameManifest(h) ==
  /\ pc[h] = "slabsIn"
  /\ h \in newdir
  /\ manifest' = art[h]
  /\ newdir' = newdir \ {h}
  /\ pc' = [pc EXCEPT ![h] = IF job[h] = "commit" THEN "swapped" ELSE "idle"]
  /\ art' = [art EXCEPT ![h] = IF job[h] = "commit" THEN @ ELSE NoManifest]
  /\ UNCHANGED <<sidecars, slabs, wal, base, tag, pending, job, rwal>>

\* Faulty: the handle keeps the tag of the manifest it opened.
FinishCommitKeepsTag(h) ==
  /\ pc[h] = "swapped"
  /\ wal' = NoWal
  /\ pc' = [pc EXCEPT ![h] = "idle"]
  /\ art' = [art EXCEPT ![h] = NoManifest]
  /\ UNCHANGED <<manifest, sidecars, slabs, newdir, base, tag, pending, job,
                 rwal>>

\* A commit unlinks the WAL and retags the handle.  The opened blob and the
\* pending state stay as they are.
FinishCommit(h) ==
  /\ pc[h] = "swapped"
  /\ wal' = NoWal
  /\ tag' = [tag EXCEPT ![h] = art[h]]
  /\ pc' = [pc EXCEPT ![h] = "idle"]
  /\ art' = [art EXCEPT ![h] = NoManifest]
  /\ UNCHANGED <<manifest, sidecars, slabs, newdir, base, pending, job, rwal>>

\* An I/O error before the swap (a full disk, a staging directory collected
\* by another handle's open): the call returns Err, the WAL stays.  So does
\* the staging directory, as garbage: the next write makes another.
WriteError(h) ==
  /\ pc[h] \in {"walWritten", "built", "staged", "sidecarIn", "slabsIn"}
  /\ newdir' = newdir \ {h}
  /\ pc' = [pc EXCEPT ![h] = "idle"]
  /\ art' = [art EXCEPT ![h] = NoManifest]
  /\ UNCHANGED <<manifest, sidecars, slabs, wal, base, tag, pending, job, rwal>>

\* The process dies or the handle is dropped.  A staging directory left
\* behind is garbage that no handle will rename from.
Crash(h) ==
  /\ pc[h] # "closed"
  /\ Reset(h)
  /\ newdir' = newdir \ {h}
  /\ UNCHANGED <<manifest, sidecars, slabs, wal>>

----------------------------------------------------------------------------
OpenNext(h) ==
  \/ Open(h) \/ OpenParts(h)
  \/ ReadWal(h) \/ ReplayWal(h) \/ SkipWal(h) \/ UnlinkWal(h)
  \/ CreateNew(h)

WriterNext(h) ==
  \/ \E p \in Paths, d \in Data : AddFile(h, p, d) \/ UpdateFile(h, p, d)
  \/ \E p \in Paths : DeleteFile(h, p)
  \/ WriteWal(h)

ArtifactNext(h) ==
  \/ BuildCommit(h) \/ StageArtifact(h)
  \/ RenameSidecar(h) \/ RenameSlabs(h) \/ RenameManifest(h)
  \/ FinishCommit(h) \/ WriteError(h)

Next ==
  \/ \E h \in Handles : OpenNext(h) \/ ArtifactNext(h) \/ Crash(h)
  \/ \E h \in Writers : WriterNext(h)
  \/ \E h \in Turners : BuildTurnover(h)

Spec == Init /\ [][Next]_vars

----------------------------------------------------------------------------
(* Properties.                                                             *)

Writing == {"staged", "sidecarIn", "slabsIn"}

\* Type correctness; a staging directory belongs to a write in progress and
\* is gone when write_artifact returns.
TypeOK ==
  /\ manifest \in Manifest \cup {NoManifest}
  /\ sidecars \subseteq Manifest
  /\ slabs \subseteq Manifest
  /\ wal \in WalRecord \cup {NoWal}
  /\ newdir \subseteq {h \in Handles : pc[h] \in Writing}
  /\ pc \in [Handles -> {"closed", "opening", "loaded", "walRead", "replayed",
                         "skipped", "idle", "walWritten", "built", "swapped"}
                        \cup Writing]
  /\ base \in [Handles -> Manifest \cup {NoManifest}]
  /\ tag \in [Handles -> Manifest \cup {NoManifest}]
  /\ files \in [Handles -> Tree]
  /\ hist \in [Handles -> Seq(HistoryEntry)]
  /\ imap \in [Handles -> [Paths -> {"none", "base", "fresh"}]]
  /\ art \in [Handles -> Manifest \cup {NoManifest}]
  /\ job \in [Handles -> {"commit", "turnover"}]
  /\ rwal \in [Handles -> WalRecord \cup {NoWal}]
  /\ view \in [Handles -> Tree]

\* Whatever writers do between the moment an open reads the manifest and the
\* moment it reads the files the manifest names, those files exist (the
\* sidecar -> slabs -> manifest order of write_artifact, content-derived
\* names).  The same holds for the manifest on disk at every moment.
NeverTorn ==
  \A m \in {manifest} \cup {base[h] : h \in Handles} :
    m # NoManifest => m \in sidecars \cap slabs

\* The path was deleted and then staged again.
Readded(h, p) == p \in Deleted(hist[h]) /\ ~ EndsDeleted(hist[h], p)

\* read_file never returns content the handle's user did not ask for: it
\* returns what was staged or, untouched, what was opened.  The one failure
\* left, "inode missing", is confined to paths that a WAL replay found
\* deleted and staged again.
ReadsAreUsers ==
  \A h \in Handles, p \in Paths :
    (pc[h] = "idle" /\ base[h] # NoManifest) =>
      \/ ReadFile(h, p) = view[h][p]
      \/ ReadFile(h, p) = "inode missing" /\ Readded(h, p)

\* The image a commit is about to install is the tree its user asked for:
\* opened content, minus deletes, plus staged content, over any history of
\* opens, replays, failed commits and earlier commits of the handle.
BuiltTreeIsView ==
  \A h \in Handles, p \in Paths :
    (pc[h] \in Writing \cup {"built", "swapped"} /\ job[h] = "commit") =>
      \/ art[h].tree[p] = view[h][p]
      \/ art[h].tree[p] = NoData /\ Readded(h, p)

\* What read_file would return for p after an open of the disk as it is.
Recovered(p) ==
  IF wal = NoWal \/ wal.tag # manifest THEN TreeOf(manifest)[p]
  ELSE IF ReplayFiles(wal)[p] # NoData THEN ReplayFiles(wal)[p]
  ELSE CASE ReplayMap(manifest, wal)[p] = "none"  -> NoData
         [] ReplayMap(manifest, wal)[p] = "base"  -> manifest.tree[p]
         [] ReplayMap(manifest, wal)[p] = "fresh" -> "inode missing"

MidCommit(h) ==
  \/ pc[h] \in {"walWritten", "swapped"}
  \/ pc[h] \in Writing \cup {"built"} /\ job[h] = "commit"

\* A crash at any point of commit loses nothing: the next open reads what
\* the user had staged, from the WAL before the swap and from the image
\* after it.  Checked for a handle that opened an existing image; paths that
\* were deleted and staged again are left out: the replay applies every
\* content before the history, whose Delete then removes the content again.
CrashRecovers ==
  \A h \in Handles, p \in Paths :
    (MidCommit(h) /\ base[h] # NoManifest /\ ~ Readded(h, p)) =>
      Recovered(p) = view[h][p]

\* A swap leaves the paths the handle never touched as they were on disk.
SwapKeepsUntouched ==
  [][\A h \in Handles : (pc[h] = "slabsIn" /\ manifest' # manifest) =>
       \A p \in Paths \ Touched(hist[h]) :
         manifest'.tree[p] = TreeOf(manifest)[p]]_vars

\* turnover rebuilds the current live tree: the image's content is the same
\* before and after its swap.
TurnoverKeepsTree ==
  [][\A h \in Handles :
       (pc[h] = "slabsIn" /\ job[h] = "turnover" /\ manifest' # manifest) =>
         manifest'.tree = TreeOf(manifest)]_vars

----------------------------------------------------------------------------
(* The abstract image.                                                     *)

\* The paths that a history deletes and stages again.
Again(hs) == {p \in Deleted(hs) : ~ EndsDeleted(hs, p)}

Unedited(t) == [tree |-> t, deleted |-> {}, again |-> {}]

\* The open has returned and the handle is not gone.
InUse(h) == pc[h] \in Writing \cup {"idle", "walWritten", "built", "swapped"}

\* What the handle shows its user: read_file, but for the paths staged again.
EditOf(h) ==
  [tree    |-> [p \in Paths |-> IF p \in Again(hist[h]) THEN view[h][p] ELSE ReadFile(h, p)],
   deleted |-> Deleted(hist[h]),
   again   |-> Again(hist[h])]

\* What an open of the disk as it is would show.
SavedEdit ==
  IF wal = NoWal \/ wal.tag # manifest THEN Unedited(TreeOf(manifest))
  ELSE [tree    |-> [p \in Paths |-> IF p \in Again(wal.hist) THEN wal.view[p] ELSE Recovered(p)],
        deleted |-> Deleted(wal.hist),
        again   |-> Again(wal.hist)]

SomeInUse == \E h \in Handles : InUse(h)

ShownEdit ==
  IF SomeInUse THEN EditOf(CHOOSE h \in Handles : InUse(h)) ELSE Unedited(EmptyTree)

Atomic == INSTANCE AtomicImage WITH
  image <- TreeOf(manifest), saved <- SavedEdit, open <- SomeInUse, edit <- ShownEdit

\* One handle at a time, with its staging directories, renames, log, replays,
\* I/O errors and crashes, is an image that changes by whole commits: what a
\* reader finds on disk and what the next open shows change only where the
\* abstract image's do, and read_file answers from its edit.
ImplementsAtomicImage == Atomic!Spec
============================================================================
