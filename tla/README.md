# LimniFS in TLA+

Specifications of LimniFS: the processes whose correctness depends on the order
of events (the read-write image, the cached and the paged read path, the
directory and the tar writer, the command line on a shared directory), the
bytes of an image at rest, and the pure algorithms. TLC checks them on small
instances; for all instances TLAPS proves every safety property of the
read-write image, the caches, the cached and the paged read path, the command
line and the directory writer, and that the read-write image of one user
implements an image that changes by whole commits. `PROJECT.json` is the index:
components, runs, the map from definitions to source lines, findings, hazards
and theorems.

## 1. The system

LimniFS packs a directory tree into an image: a manifest, a metadata blob
(inline in the manifest or a sidecar file) and slabs. A slab holds drops,
content-addressed compressed chunks; a file is inline data or a sequence of
slices, each one drop.

| component | state | operations | what is hard |
|---|---|---|---|
| `RwImage` (limnifs-write/rw.rs) | opened blob, path index, pending files and history, tag of the base manifest; on disk the manifest, sidecars, slabs, WAL, staging directories | open (with WAL replay), create_new, add/update/delete/read_file, commit, turnover | crashes between file-system calls, several processes, stale WAL, age-based cleanup of other processes' staging |
| `SieveCache`, `CachedSlabStore` (limnifs-core/slab_cache.rs, seekable.rs) | two caches behind mutexes, memoized footers | decoded, decoded_range(_into), plaintext_for | misses released between lookup and insert, eviction loop under the mutex, windows over partly cached frames |
| `ImageReader`, `FileReader` (read.rs) | read position | read_window_into, extract_file | window/slice/frame boundaries |
| directory writer (limnifs-write/lib.rs) | `WriteContext`, bounded channel, results, thread-local compress caches | write_directory_with_config, write_layer | walk, pool and merge run concurrently; determinism; error and back-pressure paths |
| `StreamWriter` (stream.rs), limn --from-tar | tree under construction, staged files, deferred links | add_file/dir/symlink/hardlink, stage_file, finish | order of members, late link targets, parallel flush |
| live tree, VFS, FUSE, extract (live_tree.rs, vfs.rs, fuse_vfs.rs, main.rs) | inode tables, cookies, tasks | walk, resolve, cat, ls, tar, readdir, extract | several ways to the same file, resumed listings, parallel tasks that fail |
| image at rest (limnifs-format, limnifs-core parsers, assemble) | bytes | encode, parse, Merkle root | optional tails, cut and damaged files, three root computations |
| lifecycle (limni/main.rs, compaction.rs) | files of a directory, signatures, sparse indexes | limn, layer, add, delete, turnover, compact, sign, verify, check, gc | files written one by one in place, stale sidecars, reference sets, layers over layers |
| paged slabs and locators (paged_slab.rs, http/s3/ipfs) | page cache, learned length | read_at, plaintext_for, fetch_range | concurrent fetches, short or cut answers |
| chunkers (chunker.rs, chunker/parallel.rs) | none | chunk_slice, chunk_reader | parallel scan must cut where the scalar one does |
| erasure coding, Shamir sharing | shards, shares | encode, repair, split, combine | thresholds, wrong lengths |
| delta and flatten | images | compute_delta, flatten | inode numbers of several layers in one table |
| codecs and configuration | none | classify, tournament, seekable container | failing codecs, presets, thresholds |
| epochs, keys, signatures, sparse index | none | build, write, parse, verify | self-hashed files, cut files |
| encryption, categorizer, conformance, bench | none | | see section 5 |

Interactions. `RwImage::commit` writes a staging tree, packs it with
`write_directory_with_config` and swaps the artifact in; `RwImage::open` reads
what a pack or a commit left on disk; FUSE and `limni cat` read through
`CachedSlabStore`; `write_layer` resolves chunks to a base image; `compact`,
`gc` and the CLI's `rw` commands rewrite images in place, and the sparse index
of one command steers the next one's layer. `PagedSlabSet` reads the same slabs
over a `Locator` that the local readers map from disk.

## 2. Modules

| module | models | used by |
|---|---|---|
| `RwImage` | rw.rs: any number of handles on one image directory | runs `rw_*` |
| `AtomicImage` | what rw.rs promises one user: a tree that changes by whole commits | instantiated by `RwImage` |
| `RwImageProofs` | theorems about `RwImage`, the refinement of `AtomicImage` | TLAPS |
| `SumLemmas` | lemmas: induction on naturals, sums over sets, running sums, folds | the other proof modules |
| `SieveCache` | the SIEVE cache of slab_cache.rs | extended and instantiated by `CachedSlabStore` |
| `SieveCacheProofs` | theorems about `SieveCache` | TLAPS |
| `CachedSlabStore` | readers over a drop cache (the extended `SieveCache`) and a frame cache (an instance of it) | `MCCachedSlabStore` |
| `CachedSlabStoreProofs` | theorems about `CachedSlabStore` | TLAPS |
| `DirectoryWriter` | the packing pipeline of lib.rs | `MCDirectoryWriter` |
| `DirectoryWriterProofs` | theorems about the pipeline of `DirectoryWriter` | `DirectoryReadProofs` |
| `DirectoryReadProofs` | the theorem about reading back what it wrote | TLAPS |
| `ImageTree` | the read side of a parsed image: resolution, walk and sinks, path commands, VFS | `StreamWriter`, `FuseMount` |
| `StreamWriter` | the tar writer, then extract with parallel tasks | `MCStreamWriter` |
| `FuseMount` | readdir of the mount against a kernel that resumes by cookie | `MCFuseMount` |
| `WireFormat` | byte strings as sequences of fields, the cursor, the manifest's sections | `ImageFile`, `PolicySections`, `Epochs`, `Sidecars` |
| `ImageFile` | assemble, load_image, read_manifest, slabs; files cut, damaged, lost | `MCImageFile` |
| `Lifecycle` | the commands of limni as writers and readers of one directory | `MCLifecycle` |
| `LifecycleProofs` | theorems about `Lifecycle` | TLAPS |
| `Locators` | fetching over file, http, s3, ipfs and combinations | `PagedSlab` |
| `PagedSlab` | threads reading remote slabs through a page cache | `MCPagedSlab` |
| `PagedSlabProofs` | theorems about `PagedSlab` and `Locators` | TLAPS |
| `Chunker`, `PolicySections`, `GF256`, `ErasureCode`, `SecretSharing`, `Layers`, `Compression`, `Epochs`, `Sidecars` | pure algorithms | `MCAlgorithms` |
| `MC*` | the instances TLC checks | the runs |

### RwImage

The disk is `manifest`, `sidecars`, `slabs`, `wal`, `newdir`; a handle is `pc`,
`base` (state.blob), `tag` (base_manifest_hash), `files` (pending_files),
`hist` (pending_history), `imap` (inode_map), `art`, `job`, `rwal`. One action
per file-system call another process can observe: `Open` (cleanup and the
manifest read; the cleanup commutes with other handles' steps up to the read),
`OpenParts`, `ReadWal`, `ReplayWal` or `SkipWal`, `UnlinkWal`; `WriteWal`,
`BuildCommit`, `StageArtifact`, `RenameSidecar`, `RenameSlabs`,
`RenameManifest`, `FinishCommit`; `BuildTurnover` shares the renames.
`WriteError` is the early return of any `?` on the way, `Crash` the death of the
process or the drop of the handle. `WriteWal` is one step: the two calls behind
it go through a `<manifest>.wal.tmp` that all processes share, and what that can
add to the model is a WAL cut short, which is left out.

A manifest is its tree and a stamp for everything else in its bytes. Names of
sidecars and slabs are content-derived, so they are identified with the
manifest. Inode numbers are kept as "of the opened blob" or "fresh", which is
all `read_file` distinguishes. `cleanup_stale_swap_dir` may remove any staging
directory: 30 seconds may have passed for each of them. `view` is a history
variable, the tree the handle's user asked for; the properties compare what the
code computes with it.

### SieveCache and CachedSlabStore

`get` is `Hit` or `Miss`, `insert` is `Insert` or `Bypass`, and each iteration
of `evict_until_fits` is an `Evict` that keeps the mutex (`evicting`). A thread
of `CachedSlabStore` performs one call at a time; decompression lies between
two steps, outside the mutexes. Byte k of drop d is the pair <<d, k>>, so
`ReadIsExact` distinguishes every byte.

### DirectoryWriter

The survey is a sequence of nodes in fold order. The producer thread folds one
node a step (`FoldDir`, `FoldEnd`, `FoldSymlink`, `FoldHardlink`, `FoldInline`,
`FoldLarge`, `FoldError`, `FoldDone`), the pool takes files and compresses
chunks (`Take`, `CompressChunk`, `FinishFile`, `ReadFails`), the caller joins,
merges and assembles (`Join`, `CollectError`, `MergeFile`, `Assemble`). A chunk
of a file may be compressed by any thread of the pool (nested `par_iter`), with
that thread's cache. Compressed bytes are the shape a decoder must expect, and
`DecodeDrop` is slab_store.rs's decision whether a record decodes; a chunk whose
frames the codec refuses is stored as one stream. A class of drops trains on the
first MAX_DICT_SAMPLES samples at most, the trainer may return nothing, and a
layer adopts its base's dictionaries before it trains. `MaySwap` names the chunks
whose containers the dictionary pass can replace by a dictionary stream. The
writer's inline threshold and the reader's ceiling are two constants
(`InlineThreshold`, `InlineMax`), since nothing in the code holds one to the
other; `ParsesInlines` is the reader's decision.

### StreamWriter, ImageTree and FuseMount

A writer is a record and every add_* an operator on writers, so the same archive
is also given to a serial writer (`serial`) that stages nothing. `ReadMember` is
one iteration of limn_from_tar, errors included; `FinishWrite` is finish: flush,
deferred links, materialised directories. Then `WalkForExtract`, one
`ExtractFile` or `ExtractFails` per task of the pool in any order, `Refuse`
(the first task failed) or `LinkAndStamp`. An image is its inode table; a
directory node, addressed by its hash, is its entries. Members that only carry
attributes of others (AppleDouble `._` files, pax headers) are skipped as
limn_from_tar skips them. Extraction sets mtime and permission bits and leaves
the owner to whoever extracts; a link the file system refuses becomes a copy,
without the mtime. `FuseMount` hands directory entries to a kernel whose buffer
takes any number of them; a buffer too small for `.` or `..` makes the code drop
its reply (`ReaddirDropsReply`), which the kernel sees as an I/O error.

### WireFormat and ImageFile

A byte string is a sequence of fields with their widths; a cursor counts the
bytes left, so a file may end inside a field, and a reader that asks for another
width than the writer wrote fails. BLAKE3 is injective. `ImageFile` starts from
an image assemble wrote under every choice of options and takes one fault:
`CutManifest`, `CutSidecar`, `LoseSidecar`, `DamageManifest`. The writer inlines
up to `InlineThreshold` bytes and the readers take up to `InlineMax` (8192 and
4096 in the profile max-ratio); verify and sign read `ReadBudget` bytes of a
manifest (VERIFY_READ_BUDGET) and the other commands all of it. load_image also
refuses a blob without a unique root inode.

### Lifecycle

`disk` maps file names to what is in them, `Torn` for a file cut short. A
command reads what it needs, computes its artifact and queues its files; each
`WriteFile` is one `std::fs::write`, in the order of the code (manifest, slabs,
sidecar, sparse index), `sign_image` follows in two steps (it reads the image,
then writes the signature), `Stop` is a death or an I/O error at any point,
`RotDrop` damages a drop at rest. A slab or sidecar that is cut is refused, a
manifest cut behind its slab index still loads. Slabs and sidecars are named by
their whole contents, where the code's names carry four bytes of the hash, and a
command reads its base in one step, where the code opens it several times. The readers (extract, verify
--deep, check, check-signature, gc) are operators on the directory, evaluated in
every state. `want` and `signed` are history variables. An output may be the
image or the base that the command reads.

### PagedSlab and Locators

`read_at` is split where another thread can act: the lookup of the pages under
the lock, the reading of the length, the request, the learning of a length, the
insertion. A thread carries the locals of `read_at`: the page slots of its range,
the slot the scan has come to (`at`) and the run it is fetching. The length is
read once to clamp the range and again for each run; when another thread has
learned a shorter one in between, `fetch_end - fetch_offset` underflows, which is
a panic with overflow checks and a request for almost 2^64 bytes without, and
the model takes either. A server may ignore the range, refuse, fail, or cut the reply; what
the transport makes of each is `Locators`. Objects and plain reads that reach
into the last page below 2^64 are left out (`PagedAssumption`).

### The algorithms

`MCAlgorithms` chooses an input, one action per algorithm computes the output,
and the invariants compare. The code's constants are parameters: the fingerprint
is three bits wide, so the gear window is three bytes (64 in the code) and every
boundary case fits in nine bytes; the Galois field has eight elements with its
tables generated by the code's loop; a seekable frame has three bytes. Policy
sections keep the code's limits, and each limit is tried on both sides.
Compressors are external: a codec yields some size or fails, and its output
remembers what it was made of, so a record that names the wrong codec does not
decode. The probe hashes of the sparse index are pairs of ten-bit words.

## 3. Runs

| run | question | bounds | result |
|---|---|---|---|
| `rw_solo` | does a crash or an error at any step of a commit lose, revert or invent content? | one handle, 2 paths, 2 contents, 3 staged operations, 3 images; paths and contents are symmetric | holds: `CrashRecovers`, `ImplementsAtomicImage` |
| `rw_concurrent` | what survives two unsynchronised writers, one turning over and one creating? | 2 handles, 1 path, 1 content, 2 operations, 4 images | holds: `TypeOK`, `NeverTorn`, `ReadsAreUsers`, `BuiltTreeIsView` |
| `rw_turnover` | does turnover keep the live tree? | 1 handle, 1 operation | violated: after a commit it reverts the commit |
| `slab_store` | are shared caches consistent, reads exact, and do they return? | 2 threads, 2 calls each, 3 drops, caches smaller than the data | holds: `CachesConsistent`, `ReadIsExact`, `EveryReadReturns` |
| `pack` | is the pipeline's outcome the sequential one, readable, and does it end? | 2 workers, channel of 1, compress cache of 1, 2 writes, 3 trees, 5 configurations, every subset of unreadable files | holds: `WriterTypeOK`, `SameAsSequential`, `EveryFileReadsBack`, `WriteFinishes` |
| `stream` | is the image the archive, whatever the order of its members, by every way of reading it, and does extract restore it? | archives of up to 4 of some 30 members over 4 names | holds: `TreeIsArchive`, `LinksAreShared`, `StagedIsSerial`, `TarRoundTrips`, `CommandsAgree`, `ExtractIsTree`, `ExtractEnds` |
| `fuse_readdir` | does a listing in several calls show every child once? | one directory tree, buffers of 1 to 3 entries | violated: cookies of the second call run ahead |
| `image_file` | is what assemble writes read back, is a cut or damaged file noticed, do the roots agree? | 5 trees under every option, cut after every byte, one damaged field | holds: `ImageRoundTrips`, `SlabsRoundTrip`, `TornImageIsNeverMisread`, `RootsAgree`, `DamageChangesRoot` |
| `lifecycle` | what do images, checks and signatures mean while commands overlap, die or data rots? | 2 processes, 2 images (a base and a layer), 2 commands, 1 fault | holds: `CommandsKeepTrees`, `ChecksAreEnough`, `NoMixedImage`, `SignatureFixesTheTree`, `CompactionKeepsReferenced` |
| `lifecycle_edits` | do add, delete and turnover keep the other files? | 1 process, 2 commands | violated: on a layer files after the first are emptied |
| `paged_slab` | are paged reads exact and the cache true while threads race and replies are cut? | 2 threads, 2 reads each, 2 slabs of 3 pages, cache of 2 pages, 4 transports, 1 fault | holds: `PagedReadIsExact`, `CacheHoldsTheSlab`, `EveryPagedReadReturns` |
| `algorithms` | do the pure algorithms compute what they must? | below | holds: `ChunkersAgree`, `WireRoundTrips`, `RepairRestores`, `SharesRecover`, `DeltaIsExact`, `FlattenKeepsTheTop`, `DropDecodes` |

The three violations are the entries of `findings`: each run states what a
comment or a doc says, and TLC shows what the code does instead. There are eight
more places where the code does not do what its words say; there the passing
property states exactly what the code does, on both sides of the difference, and
its instance reaches it:

| words | code | property |
|---|---|---|
| docs/read-api.md:118, "trained-dictionary drops stay monolithic" | the dictionary pass swaps the bytes of a seekable container and keeps its flag (lib.rs:2377), also under default_v0_1, which limni takes without --profile; the reader refuses the drop | `EveryFileReadsBack` |
| CHANGELOG.md:879, "no configuration can emit unreadable inline metadata" | three presets inline up to 8192 bytes (profile.rs:94,363,540), the readers refuse more than 4096 (inode.rs:287, metadata.rs:257) and with it the whole image | `ImageRoundTrips`, `EveryFileReadsBack` |
| inode.rs:59, a shared reference "is resolved to `InlineData` after the full metadata blob is parsed" | a sidecar cut where the shared table begins parses (metadata.rs:246), and its shared contents read as empty (live_tree.rs:382) | `TornImageIsNeverMisread` |
| main.rs:57, "Larger manifests fall back to header-only reporting" | verify and sign fail on a manifest longer than their one read (main.rs:626) | `RootsAgree` |
| main.rs:840, "every drop id referenced by the metadata resolves in the slab store" | verify --deep returns early when the slab index is empty (main.rs:857), as in a layer whose drops are all its base's | `ChecksAreEnough` |
| stream.rs:353, add_dir "on an existing implicit directory stamps it" | it sets the mtime and keeps mode and owner (stream.rs:376) | `TreeIsArchive` |
| stream.rs:315, "byte-identical image to the serial `add_file` path" | inode order and attributes of chunked files differ | `StagedIsSerial` |
| profile_descriptor.rs:11, the name comes before the flags | a name of 65 to 255 bytes is left unread and its first byte taken for the flags (profile_descriptor.rs:79) | `WireRoundTrips` |

Why the bounds are enough. The properties of `RwImage` speak of one path at a
time, and paths interact only through the one WAL and the one swap; two paths
separate a touched from an untouched one, three operations give the shortest
delete/re-add/update histories after a first commit, and two handles give every
pairwise interleaving. What section 4 lists is also proved without bounds. The cache instance has a plain drop, a seekable drop of
three frames and a drop over the budget, so that hit, miss, bypass, eviction,
requeueing and all frame boundaries occur. The writer's tree has a shared
chunk, a repeated chunk, a whole-file drop of a chunk of another file, a
hardlink, equal inline files and a subdirectory; the second tree fails in the
walk behind a queued file; the third has an inline file above the reader's
ceiling. The configurations are limni's default (containers and dictionaries),
each of the two without the other, one whose codec refuses the frames of a chunk
and one whose trainer makes nothing of its samples. The second write starts with
warm compress caches.
Archives of four members reach a link to a link before its target inside a
directory that comes last. The trees of `image_file` have inline contents below
and above the ceiling, and its budget lies between the lengths of its manifests.
The images of `lifecycle` share a chunk, one is a
layer over the other, the profiles have dictionaries and external metadata or
neither, and two commands are the least that can overwrite what a third relied
on. The slabs of `paged_slab` have drops that span pages and a last page that is
short. `algorithms`: all binary data of up to nine bytes under eight sizings and
three lanes; every section within and just past its limits, cut to every length; every loss of shards for five
codes and every set of custodians; all pairs of 100 trees for the delta, chains
of up to three layers for flatten; all outcomes of the codecs a preset uses, on
both sides of every threshold. `MaxOps`, `MaxImages`, `MaxCalls`, `MaxWrites`,
`MaxMembers`, `MaxCommands`, `MaxFaults`, `MaxReads` and `MaxRoom` are bounds of
the model and not of the code.

What the properties leave out, because it does not hold. `pack` uses one codec:
the thread-local compress cache is keyed by content only and outlives its
configuration. `EveryFileReadsBack` says that an image is refused exactly when an
inline file is above the ceiling, and that a drop decodes unless it is a
container swapped for its dictionary form, which the reader refuses and never
misreads; limni's default configuration (default_v0_1) writes such drops.
`TreeIsArchive` asks of a directory that exists before its member the member's
mtime with the mode and owner of an implicit directory. `StagedIsSerial` compares
inodes by number, leaves out the attributes of chunked files, and the order where
symlinks or streamed files are mixed in. `ExtractIsTree` gives every file the extractor's
owner and a copied link only its content and permission bits. `ImageRoundTrips`
says of an image with inline data above the ceiling that it is refused;
`TornImageIsNeverMisread` excepts the one cut of a sidecar
after which shared contents read as empty. `ChecksAreEnough`
says what verify --deep proves of an image that lists a slab or refers to no
drop; one that refers to drops and lists none passes unchecked, and extracting it
by itself leaves its chunked files empty. `CrashRecovers` is
about one handle that opened an image, and excludes paths deleted and staged
again (the replay's Delete removes them) and a second process (whose open
consumes the WAL). `ReadIsExact` leaves out `decoded_range_into` past the end of
a drop, which is `Ok(0)` or `Err` depending on what is cached. `CommandsKeepTrees`
speaks of layers whose base is unchanged and of trees no lossy extraction went
into. `CompactionKeepsReferenced` needs inline metadata and drops without a
dictionary. `RootsAgree` is about standalone images: of a layer,
compute_merkle_root_from_sections hashes no linkage and assemble does; past the
read budget it says that verify and sign refuse.
`PagedReadIsExact` and `CacheHoldsTheSlab` allow short data after a cut reply
without a length. `RepairRestores` excludes a wrong length when k is 1.
`FlattenKeepsTheTop` compares directories and regular files of packed layers:
owners, attributes and link targets are dropped by flatten, and so are the
dictionaries and the delta linkage, which a model whose contents are drop ids
does not see; devices and pipes, whose number flatten writes in another width
than the parser reads, are not in the trees. `DeltaIsExact` compares kind and
content, as inodes_equal does; the order of the operations and the value recorded
as base_root are left out. `WireRoundTrips` says of a profile with a name above
64 bytes what comes back instead. A CAR archive cut at a block
boundary decodes without an error to fewer blocks. A sparse index made for no
entries never contains anything.

Fairness. `RwImage`, `ImageFile`, `Lifecycle` and the algorithms are checked for
safety only. In `CachedSlabStore` a thread that has entered a read keeps running
(weak fairness of its steps): threads are OS threads that hold no lock while
they decode, and calls are finite. In `DirectoryWriter` the producer thread, the
pool and the caller are each weakly fair: they are live OS threads; no fairness
between the workers is assumed. In `StreamWriter` extract goes on once the image
is packed: the walk, the pool as a whole and the final pass. In `PagedSlab` a
thread in a read takes its steps, since every request ends in an answer or in
HTTP_TIMEOUT. In `FuseMount` the kernel goes on listing. Packs, archives,
computations and bounded sequences of commands end, so their runs do not check
for deadlock; `WriteFinishes`, `ExtractEnds`, `EveryReadReturns` and
`EveryPagedReadReturns` say instead that nothing is left hanging.

## 4. Proofs

Each theorem states a safety property for every value of the constants. The
instances TLC checks satisfy the named assumptions, which TLC evaluates.

### The caches: `SieveCacheProofs`

Over any keys, sizes and bounds: `QueueMatchesMap` (the queue lists exactly the
cached keys, each once), `BoundsHold` (entry and byte bounds hold whenever the
mutex is free), `ByteCountIsExact` (the byte counter is the sum of the entries'
sizes) and `EvictionHasACandidate` (the eviction loop never meets an empty
queue).

The inductive invariant `CacheInv` adds the types, the finiteness of the entry
set and that `evicting` holds whenever a bound is exceeded. Without queue
uniqueness `Evict` could remove a key that is still queued; without the exact sum
the loop could run on with nothing left to evict. `CacheAssumption`: sizes are
naturals, capacities positive.

### The cached read path: `CachedSlabStoreProofs`

Over any threads, drops, frame tables, files and budgets: `CachesStayConsistent`
(`CachesConsistent`) and `ReadsAreExact` (`ReadIsExact`).

A step of the store is a step of the drop cache, of the frame cache or of
neither, so the first theorem is that of `SieveCacheProofs` for the extended
cache and, through `INSTANCE`, for the second one. For the reads, `ThreadInv`
describes a thread at each point of a call: how much of the window lies behind
it, which slice and which frame it is in, and that the bytes gathered so far are
exactly the ones owed (`Reading`, `AtSlice`, `InSlice`, `AtFrame`). It speaks of
no cache: what a thread takes from one is determined by its key, so an eviction
under its feet changes nothing. The lemmas are about starts of frames and ends
of slices, which are running sums. `FramesAssumption`: the frames of a seekable
drop add up to its size, as seekable.rs writes them.

### The read-write image: `RwImageProofs`

Over any handles, paths, contents and bounds: `TypeCorrect` (`TypeOK`),
`NoTornOpen` (`NeverTorn`), `ReadsReturnTheUsersData` (`ReadsAreUsers`),
`CommitsTheUsersTree` (`BuiltTreeIsView`); with one handle on the image
(`Alone`: no second handle and no turnover), `CrashLosesNothing`
(`CrashRecovers`), and, when that handle also opened the image and did not create
it (`Creators = {}`), `SwapsKeepUntouched` (a swap leaves untouched paths alone) and
`RwImplementsAtomicImage` (`ImplementsAtomicImage`).

`NeverTorn` needs `PartsInv`: an artifact past its sidecar rename has its
sidecar in place, past its slab renames also its slabs; nothing ever removes
either, so renaming the manifest last is safe even when another open collects
the staging directory half way. `ReadsAreUsers` and `BuiltTreeIsView` need
`Coherent`, which ties pending files, history and inode map of a handle to its
view path by path (an untouched path is as in the opened tree; a touched path
is staged, or its last entry is a Delete, or it was deleted and re-added), and
`WalCoherent`, the same of the WAL on disk and of the WAL bytes a replay has
read, since `ReplayWal` rebuilds a handle from them. `PhaseInv` says which of
`base`, `art` and `rwal` are set at each `pc`. A crash loses nothing because of
`SoloInv`: until the swap the handle's tag is the manifest on disk, during a
commit the WAL is the pending state, and the image differs from the opened one
on touched paths only. The restriction to one handle is the code's: a second
handle's open consumes the first one's WAL, and turnover reverts a commit (run
`rw_turnover`).

The refinement. `AtomicImage` has four variables: the tree on disk, the edit the
next open starts from, whether a handle is in use, and its edit. The mapping
computes them from the code's own operations: the edit of a handle is what
`read_file` returns for each path, the saved edit is what an open of the disk as
it is would return, replayed from the WAL or, if that is stale, read from the
manifest (paths deleted and staged again stand for what the user asked, since
only of them may the content be dropped). `WriteWal` is `Save`, the rename of the
manifest is `Install`, the unlink of a WAL that was read is `Open`, and every
other file-system call stutters. Three steps are delicate. A commit that packs
the very manifest it replaces leaves the WAL current after the rename: then
`FinishCommit` is `Install`. An open consumes the WAL it replays, so `Open` takes
the saved edit away: a process that dies before its next commit loses it. And a
stale WAL must be one whose edit is on disk already. `AtomicInv` adds to the
invariants above that the WAL an open has read is the one still there and what a
replay has made of it (`ReplayInv`), and that the inode map points only at files
of the opened blob (`IndexInv`). `EditIsView` and `SavedIsReplay` turn the mapped
variables into views, after which there is one lemma per abstract action.

### The command line: `LifecycleProofs`

Over any processes, images, source trees, profiles, slab capacities, commands
and faults: `SignaturesFixTheTree` (`SignatureFixesTheTree`), `CompactionIsSafe`
(`CompactionKeepsReferenced`), `NoMixedImages` (`NoMixedImage`), `ChecksSuffice`
(`ChecksAreEnough`) and `TreesAreKept` (`CommandsKeepTrees`).

`LifecycleInv` follows a file from the plan of a command to the directory: what a
name promises of the contents (a slab's and a sidecar's name follow from them, a
manifest's slabs were compressed against the dictionaries it lists) holds of
every file still to be written (`ProcInv`) and of every untorn file on disk
(`DiskInv`), and a signature is over the metadata recorded when it was made
(`SignInv`; `SigningOK` while the signature is still to be written). A manifest
cut behind its slab index promises no more than the whole one. Any prefix of any interleaving of writes keeps that, which is why no
mixed image can be read. `ChecksSuffice` covers every image, the ones verify
--deep passes without looking included: it says what extracting them by
themselves yields. `CommandsKeepTrees` needs more, since a torn or rotten
file breaks it: while nothing was stopped and nothing rotted, `KeepInv` says that
a manifest precedes the files it needs, that those exist or are still to be
written by some process, and that the manifest refers to no drops but those of
its own slabs and of the base it was built on. `LifecycleAssumption`: source
trees are functions on known names whose contents hold no error value, images
start from source trees, slabs take at least one drop.

### The paged read path: `PagedSlabProofs`

Over any page size, capacity, slabs, transports, threads, reads and faults:
`CacheIsTheSlab` (`CacheHoldsTheSlab`) and `PagedReadsAreExact`
(`PagedReadIsExact`).

`PagedInv` consists of what is shared (`SharedOK`: pages within the capacity,
each once and with the object's bytes; the length unknown, right, or wrong in one
of the two ways the code allows) and of what holds of each thread (`ThreadOK`: a
right result, or a read in progress). All of it is relative to a record `Env` of
mode, slabs open, unseen cuts, faults and reachability. That record only grows
(`Grows`), so a thread's part survives the steps of the others (`ThreadGrows`)
and an action is only answerable for its own thread and the shared state. A read
in progress has its range and page slots (`RangeOK`), has settled every slot
before the scan (`PagesOK`), and asks for a run that ends at a page boundary or
at the object's end (`RunOK`). An empty or wrapped-around request appears only
where the operation may fail, which is the step the unclamped length makes
delicate. `TransportAnswers` is the lemma about `Locators`: whatever the server
does, a fetch returns the range, a prefix of it after an unseen cut, or an error
after a fault. `PagedAssumption`: slabs are laid out as encode_slab does it, no
object or plain read reaches into the last page below 2^64, and a transport has
a locator unless it dispatches by scheme.

### The directory writer: `DirectoryWriterProofs`, `DirectoryReadProofs`

Over any trees, configurations, pools, capacities, caches and unreadable files:
`WriterTypeCorrect` (`WriterTypeOK`, with the bound of the channel) and, if the
configurations of the process choose the same codecs (`OneCodec`),
`PackingIsSequential` (`SameAsSequential`); and, with no assumption on the
configurations, `FilesReadBack` (`EveryFileReadsBack`).

`OneCodec` is what the code needs: the compress caches are keyed by content
alone and outlive a write, so after a write with another codec a chunk may be
stored with the old one, by some threads and not by others. TLC finds that
image when `Configs` holds two codecs; it reads back all the same
(`FilesReadBack` does not assume `OneCodec`). apply_trained_dictionaries swaps
the bytes of a drop and keeps its flags, so that a swapped container does not
decode; the theorem says that this happens to the chunks of `MaySwap` only.

`WriterInv` is the inductive invariant. `PoolInv`: the files taken off the
channel and those still in it are, in order, the ones the walk has sent
(`Sent`), each file in the pool carries its place in that order, no place is
held twice, and its codecs are those a sequential write would choose. `WalkInv`:
the walk has passed no node that fails and stops at the first. `ContextInv` ties
the hardlink map to the nodes passed, so that a file is new to the walk exactly
when it is new to the tree. `PhaseInv`: every place below `arrived` is in flight
or finished, and in the merge, for some m (`Merged`), the first m files are
merged, none of them unreadable, their drops are the sequential ones and their
inodes follow those of the walk. `CacheInv` and `CodecInv` are about the caches.
The order of completion appears nowhere: sorting by arrival index recovers the
walk.

`ReadInv`, on top of it, follows a file to the image, so that whatever the caches
held plays no part but for this: a cache never holds a reference to the base
(`CleanCaches`), and a file in the pool carries the number of its inode and refers
only to chunks that the base has (`PoolRead`).
Over the nodes walked, the files sent and the files merged, `Walked` says that
inode numbers are handed out once (`NumInv`), that there is a frame for each
directory still open (`Frames`), that the entries of open and closed directories
lead each file walked to its number (`EntryInv`), that the link count of a number is the number of entries that lead to it (`CountInv`),
and that a merged or inline file has exactly one inode, whose chunks are among
the drops (`SentInv`, `InlineInv`). `DropsInv`: a chunk is queued once, in a form
that decodes. The last step is the assembly: the slabs hold exactly the drops
that are not references (`PackSlabsAre`, for any capacity and any footprints),
the dictionary pass leaves each drop decodable by a dictionary the image carries
(`AppliedFacts`), and the shared inline table has an entry for each content that
is replaced by its index (`EncodeFacts`). That the image is refused exactly for an
inline file above the ceiling needs the converse of `InlineInv`: every inline
inode is the content of an inline file of the tree (`InlinesAre`), also through
the shared table (`InlinesFit`). The parts are needed together: a
hardlink met again is written to the entries of one directory under the number
of an inode that the merge has yet to make.

`WriterAssumption`: a survey is the walk of a tree (it begins with its root, some
directory is open until the last node, which closes the root), links of one file
have one content, a footprint is a natural number, CODEC_REFERENCED is a sentinel
that no configuration chooses, and there is something to write.

### How, and what is left to TLC

Induction over data is done without the library's induction theorems:
`SumLemmas` proves that a set of naturals has a least element and argues by the
least counterexample. Recursive functions and the folds of the community modules
are shown to exist before their equation is used (`SumsExist`,
`RunningSumExists`, `RecursionExists`, `FoldExists`, `FoldTyped`).

Model-checked only:

* liveness and everything that rests on fairness: `EveryReadReturns`,
  `WriteFinishes`, `ExtractEnds`, `EveryPagedReadReturns`;
* the properties of `StreamWriter`, `ImageFile` and the algorithms: they compare
  what folds and recursive functions (parsers, walks, chunkers, field arithmetic)
  compute with reference definitions. For every input that is an induction over
  the data for each of them; TLC compares them over bounded inputs instead.

## 5. Not modelled

`pipeline.rs`: no module declaration includes it, so it is not part of any
build. Compression and cryptography are external functions of their input; the
file categorizer's detectors, dictionary training and turnover scoring only
choose among valid codecs. The command line's text, argument parsing and key
generation; TCP, DNS and request signing; libfuse; test drivers and benchmarks.
In `RwImage`: directories, symlinks, modes and the scratch tree, fsync (a rename
is durable when it returns), the copy fallback of a rename across devices, a WAL
cut short because two processes write one `wal.tmp`. In
`CachedSlabStore`: drops that fail to decode, poisoned mutexes, the footer memo.
In `DirectoryWriter`: panics, files that change while they are packed (the
code's stated precondition). In `StreamWriter`: chunk sizes (`Chunker`), extended
attributes on extraction (set where the file system lets them). In `ImageFile`:
the profile descriptor section, whose writer no caller reaches. In `Lifecycle`:
directories, links and attributes (`ImageTree`), bytes (`ImageFile`), memory maps
of a slab that is being rewritten, different contents whose hashes share the four
bytes of a file name, and a base that changes while one command reads it twice.
In `PolicySections`: more than 255 codecs of a tournament, which no preset has. In `FuseMount`:
an image inode that has the number of the FUSE root. In `Epochs`: chains, which
no code replays.
