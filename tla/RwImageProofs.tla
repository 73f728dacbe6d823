--------------------------- MODULE RwImageProofs ---------------------------
(***************************************************************************)
(* Theorems about RwImage, for every set of handles, paths, contents and   *)
(* stamps and every history bound, however the handles interleave, fail    *)
(* and crash.                                                              *)
(***************************************************************************)
EXTENDS RwImage, TLAPS

\* What each place of the code knows about the handle's own fields.
PhaseInv ==
  \A h \in Handles :
    /\ pc[h] \in Writing \cup {"built", "swapped"} => art[h] \in Manifest
    /\ pc[h] \in {"opening", "loaded", "walRead", "replayed", "skipped"} =>
         base[h] \in Manifest
    /\ pc[h] \in {"walRead", "replayed"} => rwal[h] \in WalRecord

\* NeverTorn, and how far the artifact of a write in progress has got.
PartsInv ==
  /\ manifest # NoManifest => manifest \in sidecars \cap slabs
  /\ \A h \in Handles :
       /\ base[h] # NoManifest => base[h] \in sidecars \cap slabs
       /\ pc[h] \in {"sidecarIn", "slabsIn"} => art[h] \in sidecars
       /\ pc[h] = "slabsIn" => art[h] \in slabs

\* The pending state of a handle agrees, path by path, with what its user
\* asked for.
Coherent(f, hs, m, v, b, p) ==
  /\ f[p] # NoData =>
       v[p] = f[p] /\ m[p] = "fresh" /\ p \in Touched(hs)
         /\ ~ EndsDeleted(hs, p)
  /\ m[p] = "base" =>
       p \notin Touched(hs) /\ b # NoManifest /\ v[p] = TreeOf(b)[p]
  /\ m[p] = "none" =>
       /\ v[p] = NoData
       /\ \/ EndsDeleted(hs, p)
          \/ p \notin Touched(hs) /\ TreeOf(b)[p] = NoData
  /\ m[p] = "fresh" /\ f[p] = NoData =>
       p \in Deleted(hs) /\ ~ EndsDeleted(hs, p)

\* The record in a WAL is coherent on the paths it touches.
WalCoherent(w, p) ==
  /\ w.files[p] # NoData =>
       w.view[p] = w.files[p] /\ p \in Touched(w.hist)
         /\ ~ EndsDeleted(w.hist, p)
  /\ EndsDeleted(w.hist, p) => w.view[p] = NoData
  /\ p \in Touched(w.hist) /\ ~ EndsDeleted(w.hist, p)
       /\ w.files[p] = NoData => p \in Deleted(w.hist)

ViewInv ==
  \A p \in Paths :
    /\ wal # NoWal => WalCoherent(wal, p)
    /\ \A h \in Handles :
         /\ rwal[h] # NoWal => WalCoherent(rwal[h], p)
         /\ pc[h] # "opening" =>
              Coherent(files[h], hist[h], imap[h], view[h], base[h], p)
         /\ pc[h] \in {"closed", "opening", "loaded", "walRead", "skipped"} =>
              files[h][p] = NoData /\ hist[h] = <<>>

BuiltInv ==
  \A h \in Handles :
    (pc[h] \in Writing \cup {"built", "swapped"} /\ job[h] = "commit") =>
      art[h].tree = StagingTree(h)

----------------------------------------------------------------------------
(* Types.                                                                  *)

LEMMA EmptyTreeType == EmptyTree \in Tree
BY DEF EmptyTree, Tree

LEMMA TreeOfType ==
  ASSUME NEW m \in Manifest \cup {NoManifest}
  PROVE  TreeOf(m) \in Tree
BY EmptyTreeType DEF TreeOf, Manifest

LEMMA PathIndexType ==
  ASSUME NEW m
  PROVE  PathIndex(m) \in [Paths -> {"none", "base", "fresh"}]
BY DEF PathIndex

LEMMA ReplayTypes ==
  ASSUME NEW m \in Manifest, NEW w \in WalRecord
  PROVE  /\ ReplayFiles(w) \in Tree
         /\ ReplayMap(m, w) \in [Paths -> {"none", "base", "fresh"}]
         /\ ReplayView(m, w) \in Tree
<1>1. w.files \in Tree /\ w.view \in Tree
  BY DEF WalRecord
<1>2. TreeOf(m) \in Tree
  BY TreeOfType
<1>3. ReplayFiles(w) \in Tree
  BY <1>1 DEF ReplayFiles, Tree
<1>4. ReplayMap(m, w) \in [Paths -> {"none", "base", "fresh"}]
  BY PathIndexType DEF ReplayMap
<1>5. ReplayView(m, w) \in Tree
  BY <1>1, <1>2 DEF ReplayView, Tree
<1> QED
  BY <1>3, <1>4, <1>5

LEMMA BuiltTypes ==
  ASSUME TypeOK, NEW h \in Handles
  PROVE  StagingTree(h) \in Tree /\ TurnoverTree(h) \in Tree
<1>1. files[h] \in Tree /\ base[h] \in Manifest \cup {NoManifest}
  BY DEF TypeOK
<1>2. TreeOf(base[h]) \in Tree
  BY <1>1, TreeOfType
<1>3. StagingTree(h) \in Tree
  BY <1>1, <1>2 DEF StagingTree, Tree
<1>4. TurnoverTree(h) \in Tree
  BY <1>1, <1>2 DEF TurnoverTree, TreeOf
<1> QED
  BY <1>3, <1>4

LEMMA TypeInit == Init => TypeOK /\ PhaseInv
BY EmptyTreeType, PathIndexType, ConstantsAssumption
   DEF Init, TypeOK, PhaseInv, Writing

LEMMA TypeStep ==
  ASSUME TypeOK, PhaseInv, [Next]_vars
  PROVE  TypeOK' /\ PhaseInv'
<1> USE ConstantsAssumption
<1>1. ASSUME NEW h \in Handles, Open(h)
      PROVE  TypeOK' /\ PhaseInv'
  BY <1>1 DEF Open, TypeOK, PhaseInv, Writing, pending
<1>2. ASSUME NEW h \in Handles, OpenParts(h)
      PROVE  TypeOK' /\ PhaseInv'
  <2>1. base[h].tree \in Tree /\ PathIndex(base[h]) \in [Paths -> {"none", "base", "fresh"}]
    BY <1>2, PathIndexType DEF OpenParts, PhaseInv, Manifest
  <2> QED
    BY <1>2, <2>1 DEF OpenParts, TypeOK, PhaseInv, Writing, disk
<1>3. ASSUME NEW h \in Handles, ReadWal(h)
      PROVE  TypeOK' /\ PhaseInv'
  BY <1>3 DEF ReadWal, TypeOK, PhaseInv, Writing, disk, pending
<1>4. ASSUME NEW h \in Handles, ReplayWal(h)
      PROVE  TypeOK' /\ PhaseInv'
  <2>1. base[h] \in Manifest /\ rwal[h] \in WalRecord
    BY <1>4 DEF ReplayWal, PhaseInv
  <2>2. /\ ReplayFiles(rwal[h]) \in Tree
        /\ ReplayMap(base[h], rwal[h]) \in [Paths -> {"none", "base", "fresh"}]
        /\ ReplayView(base[h], rwal[h]) \in Tree
        /\ rwal[h].hist \in Seq(HistoryEntry)
    BY <2>1, ReplayTypes DEF WalRecord
  <2> QED
    BY <1>4, <2>1, <2>2 DEF ReplayWal, TypeOK, PhaseInv, Writing, disk
<1>5. ASSUME NEW h \in Handles, SkipWal(h)
      PROVE  TypeOK' /\ PhaseInv'
  BY <1>5 DEF SkipWal, TypeOK, PhaseInv, Writing, disk, pending
<1>6. ASSUME NEW h \in Handles, UnlinkWal(h)
      PROVE  TypeOK' /\ PhaseInv'
  BY <1>6 DEF UnlinkWal, TypeOK, PhaseInv, Writing, pending
<1>7. ASSUME NEW h \in Handles, CreateNew(h)
      PROVE  TypeOK' /\ PhaseInv'
  BY <1>7 DEF CreateNew, TypeOK, PhaseInv, Writing, disk, pending
<1>8. ASSUME NEW h \in Handles, NEW op \in {"Add", "Update", "Delete"},
             NEW p \in Paths, NEW d \in Data \cup {NoData},
             NEW i \in {"none", "fresh"}, Stage(h, op, p, d, i)
      PROVE  TypeOK' /\ PhaseInv'
  <2>1. files[h] \in Tree /\ view[h] \in Tree /\ hist[h] \in Seq(HistoryEntry)
    BY DEF TypeOK
  <2>2. [op |-> op, path |-> p] \in HistoryEntry
    BY DEF HistoryEntry
  <2>3. files' \in [Handles -> Tree] /\ view' \in [Handles -> Tree]
    BY <1>8, <2>1 DEF Stage, TypeOK, Tree
  <2>4. hist' \in [Handles -> Seq(HistoryEntry)]
    BY <1>8, <2>1, <2>2 DEF Stage, TypeOK
  <2>5. imap' \in [Handles -> [Paths -> {"none", "base", "fresh"}]]
    BY <1>8 DEF Stage, TypeOK
  <2> QED
    BY <1>8, <2>3, <2>4, <2>5 DEF Stage, TypeOK, PhaseInv, disk
<1>9. ASSUME NEW h \in Handles, WriteWal(h)
      PROVE  TypeOK' /\ PhaseInv'
  <2>1. wal' \in WalRecord
    BY <1>9 DEF WriteWal, TypeOK, WalRecord
  <2> QED
    BY <1>9, <2>1 DEF WriteWal, TypeOK, PhaseInv, Writing, pending
<1>10. ASSUME NEW h \in Handles, BuildCommit(h)
       PROVE  TypeOK' /\ PhaseInv'
  <2>1. PICK s \in Stamps :
          art' = [art EXCEPT ![h] = [tree |-> StagingTree(h), stamp |-> s]]
    BY <1>10 DEF BuildCommit
  <2>2. [tree |-> StagingTree(h), stamp |-> s] \in Manifest
    BY BuiltTypes DEF Manifest
  <2> QED
    BY <1>10, <2>1, <2>2 DEF BuildCommit, TypeOK, PhaseInv, Writing, disk, pending
<1>11. ASSUME NEW h \in Handles, BuildTurnover(h)
       PROVE  TypeOK' /\ PhaseInv'
  <2>1. PICK s \in Stamps :
          art' = [art EXCEPT ![h] = [tree |-> TurnoverTree(h), stamp |-> s]]
    BY <1>11 DEF BuildTurnover
  <2>2. [tree |-> TurnoverTree(h), stamp |-> s] \in Manifest
    BY BuiltTypes DEF Manifest
  <2> QED
    BY <1>11, <2>1, <2>2 DEF BuildTurnover, TypeOK, PhaseInv, Writing, disk, pending
<1>12. ASSUME NEW h \in Handles, StageArtifact(h)
       PROVE  TypeOK' /\ PhaseInv'
  BY <1>12 DEF StageArtifact, TypeOK, PhaseInv, Writing, pending
<1>13. ASSUME NEW h \in Handles, RenameSidecar(h)
       PROVE  TypeOK' /\ PhaseInv'
  BY <1>13 DEF RenameSidecar, TypeOK, PhaseInv, Writing, pending
<1>14. ASSUME NEW h \in Handles, RenameSlabs(h)
       PROVE  TypeOK' /\ PhaseInv'
  BY <1>14 DEF RenameSlabs, TypeOK, PhaseInv, Writing, pending
<1>15. ASSUME NEW h \in Handles, RenameManifest(h)
       PROVE  TypeOK' /\ PhaseInv'
  BY <1>15 DEF RenameManifest, TypeOK, PhaseInv, Writing, pending
<1>16. ASSUME NEW h \in Handles, FinishCommit(h)
       PROVE  TypeOK' /\ PhaseInv'
  BY <1>16 DEF FinishCommit, TypeOK, PhaseInv, Writing, pending
<1>17. ASSUME NEW h \in Handles, WriteError(h)
       PROVE  TypeOK' /\ PhaseInv'
  BY <1>17 DEF WriteError, TypeOK, PhaseInv, Writing, pending
<1>18. ASSUME NEW h \in Handles, Crash(h)
       PROVE  TypeOK' /\ PhaseInv'
  BY <1>18, EmptyTreeType, PathIndexType
     DEF Crash, Reset, TypeOK, PhaseInv, Writing
<1>19. ASSUME UNCHANGED vars
       PROVE  TypeOK' /\ PhaseInv'
  BY <1>19 DEF vars, disk, pending, TypeOK, PhaseInv
<1>20. ASSUME NEW h \in Handles, WriterNext(h)
       PROVE  TypeOK' /\ PhaseInv'
  BY <1>20, <1>8, <1>9 DEF WriterNext, AddFile, UpdateFile, DeleteFile
<1> QED
  BY <1>1, <1>2, <1>3, <1>4, <1>5, <1>6, <1>7, <1>10, <1>11, <1>12, <1>13,
     <1>14, <1>15, <1>16, <1>17, <1>18, <1>19, <1>20
     DEF Next, OpenNext, ArtifactNext

\* Type correctness of every handle and of the disk (the whole of rw.rs).
THEOREM TypeCorrect == Spec => []TypeOK
<1>1. TypeOK /\ PhaseInv /\ [Next]_vars => TypeOK' /\ PhaseInv'
  BY TypeStep
<1> QED
  BY TypeInit, <1>1, PTL DEF Spec

----------------------------------------------------------------------------
(* Nobody ever opens a torn image.                                         *)

LEMMA PartsInit == Init => PartsInv
BY ConstantsAssumption DEF Init, PartsInv, Manifest

LEMMA PartsStep ==
  ASSUME TypeOK, PhaseInv, PartsInv, [Next]_vars
  PROVE  PartsInv'
<1> USE DEF PartsInv
<1>1. ASSUME NEW h \in Handles, Open(h) PROVE PartsInv'
  BY <1>1 DEF Open, TypeOK
<1>2. ASSUME NEW h \in Handles,
             OpenParts(h) \/ ReadWal(h) \/ ReplayWal(h) \/ SkipWal(h)
      PROVE  PartsInv'
  BY <1>2 DEF OpenParts, ReadWal, ReplayWal, SkipWal, TypeOK, disk
<1>3. ASSUME NEW h \in Handles, UnlinkWal(h) \/ CreateNew(h) PROVE PartsInv'
  BY <1>3 DEF UnlinkWal, CreateNew, TypeOK, disk
<1>4. ASSUME NEW h \in Handles, WriterNext(h) PROVE PartsInv'
  BY <1>4 DEF WriterNext, AddFile, UpdateFile, DeleteFile, Stage, WriteWal,
              TypeOK, disk
<1>5. ASSUME NEW h \in Handles,
             BuildCommit(h) \/ BuildTurnover(h) \/ StageArtifact(h)
      PROVE  PartsInv'
  <2>1. \A g \in Handles : g # h => art'[g] = art[g] /\ pc'[g] = pc[g]
    BY <1>5 DEF BuildCommit, BuildTurnover, StageArtifact, TypeOK
  <2>2. pc'[h] \in {"built", "staged"}
    BY <1>5 DEF BuildCommit, BuildTurnover, StageArtifact, TypeOK
  <2> QED
    BY <1>5, <2>1, <2>2 DEF BuildCommit, BuildTurnover, StageArtifact, disk
<1>6. ASSUME NEW h \in Handles, RenameSidecar(h) PROVE PartsInv'
  BY <1>6 DEF RenameSidecar, TypeOK
<1>7. ASSUME NEW h \in Handles, RenameSlabs(h) PROVE PartsInv'
  BY <1>7 DEF RenameSlabs, TypeOK
<1>8. ASSUME NEW h \in Handles, RenameManifest(h) PROVE PartsInv'
  <2>1. art[h] \in sidecars \cap slabs
    BY <1>8 DEF RenameManifest
  <2> QED
    BY <1>8, <2>1 DEF RenameManifest, TypeOK
<1>9. ASSUME NEW h \in Handles, FinishCommit(h) \/ WriteError(h)
      PROVE  PartsInv'
  BY <1>9 DEF FinishCommit, WriteError, TypeOK
<1>10. ASSUME NEW h \in Handles, Crash(h) PROVE PartsInv'
  BY <1>10 DEF Crash, Reset, TypeOK
<1>11. ASSUME UNCHANGED vars PROVE PartsInv'
  BY <1>11 DEF vars, disk
<1> QED
  BY <1>1, <1>2, <1>3, <1>4, <1>5, <1>6, <1>7, <1>8, <1>9, <1>10, <1>11,
     ConstantsAssumption DEF Next, OpenNext, ArtifactNext

\* The files named by the manifest on disk, and by every manifest an open has
\* read, exist at every moment, whatever commits, turnovers, failures and
\* crashes happen meanwhile (write_artifact's sidecar -> slabs -> manifest
\* order).
THEOREM NoTornOpen == Spec => []NeverTorn
<1>1. TypeOK /\ PhaseInv /\ PartsInv /\ [Next]_vars =>
        TypeOK' /\ PhaseInv' /\ PartsInv'
  BY TypeStep, PartsStep
<1>2. PartsInv => NeverTorn
  BY DEF PartsInv, NeverTorn
<1> QED
  BY TypeInit, PartsInit, <1>1, <1>2, PTL DEF Spec

----------------------------------------------------------------------------
(* What appending to a history does to its paths.                          *)

LEMMA AppendHistory ==
  ASSUME NEW hs \in Seq(HistoryEntry), NEW e \in HistoryEntry
  PROVE  LET new == Append(hs, e)
         IN  /\ Touched(new) = Touched(hs) \cup {e.path}
             /\ \A p \in Paths : p \in Deleted(hs) => p \in Deleted(new)
             /\ e.op = "Delete" => e.path \in Deleted(new)
             /\ e.op # "Delete" => \A p \in Paths : p \in Deleted(new) => p \in Deleted(hs)
             /\ EndsDeleted(new, e.path) <=> e.op = "Delete"
             /\ \A p \in Paths : p # e.path =>
                  /\ p \in Deleted(new) => p \in Deleted(hs)
                  /\ EndsDeleted(new, p) <=> EndsDeleted(hs, p)
<1> DEFINE new == Append(hs, e)
           n == Len(hs)
<1>1. /\ DOMAIN hs = 1..n /\ n \in Nat
      /\ DOMAIN new = 1..(n + 1)
      /\ \A i \in 1..n : new[i] = hs[i]
      /\ new[n + 1] = e
  OBVIOUS
<1>2. e = [op |-> e.op, path |-> e.path]
  BY DEF HistoryEntry
<1> HIDE DEF new, n
<1>3. Touched(new) = Touched(hs) \cup {e.path}
  BY <1>1 DEF Touched
<1>4. \A p \in Paths : p \in Deleted(hs) => p \in Deleted(new)
  BY <1>1 DEF Deleted
<1>5. e.op = "Delete" => e.path \in Deleted(new)
  BY <1>1 DEF Deleted
<1>6. e.op # "Delete" => \A p \in Paths : p \in Deleted(new) => p \in Deleted(hs)
  BY <1>1 DEF Deleted
<1>7. EndsDeleted(new, e.path) <=> e.op = "Delete"
  <2>1. e.op = "Delete" => EndsDeleted(new, e.path)
    BY <1>1, <1>2 DEF EndsDeleted
  <2>2. ASSUME EndsDeleted(new, e.path) PROVE e.op = "Delete"
    <3>1. PICK i \in 1..(n + 1) :
            /\ new[i] = [op |-> "Delete", path |-> e.path]
            /\ \A j \in 1..(n + 1) : j > i => new[j].path # e.path
      BY <2>2, <1>1 DEF EndsDeleted
    <3>2. i = n + 1
      BY <3>1, <1>1
    <3> QED
      BY <3>1, <3>2, <1>1
  <2> QED
    BY <2>1, <2>2
<1>8. ASSUME NEW p \in Paths, p # e.path
      PROVE  /\ p \in Deleted(new) => p \in Deleted(hs)
             /\ EndsDeleted(new, p) <=> EndsDeleted(hs, p)
  <2>1. p \in Deleted(new) => p \in Deleted(hs)
    BY <1>8, <1>1 DEF Deleted
  <2>2. ASSUME EndsDeleted(new, p) PROVE EndsDeleted(hs, p)
    <3>1. PICK i \in 1..(n + 1) :
            /\ new[i] = [op |-> "Delete", path |-> p]
            /\ \A j \in 1..(n + 1) : j > i => new[j].path # p
      BY <2>2, <1>1 DEF EndsDeleted
    <3>2. i \in 1..n
      BY <3>1, <1>1, <1>8
    <3> QED
      BY <3>1, <3>2, <1>1 DEF EndsDeleted
  <2>3. ASSUME EndsDeleted(hs, p) PROVE EndsDeleted(new, p)
    <3>1. PICK i \in 1..n :
            /\ hs[i] = [op |-> "Delete", path |-> p]
            /\ \A j \in 1..n : j > i => hs[j].path # p
      BY <2>3, <1>1 DEF EndsDeleted
    <3>2. \A j \in 1..(n + 1) : j > i => new[j].path # p
      BY <3>1, <1>1, <1>8
    <3> QED
      BY <3>1, <3>2, <1>1 DEF EndsDeleted
  <2> QED
    BY <2>1, <2>2, <2>3
<1> QED
  BY <1>3, <1>4, <1>5, <1>6, <1>7, <1>8 DEF new

LEMMA EmptyHistory ==
  ASSUME NEW p
  PROVE  p \notin Touched(<<>>) /\ p \notin Deleted(<<>>) /\ ~ EndsDeleted(<<>>, p)
BY DEF Touched, Deleted, EndsDeleted

LEMMA DeletedIsTouched ==
  ASSUME NEW hs, NEW p
  PROVE  /\ p \in Deleted(hs) => p \in Touched(hs)
         /\ EndsDeleted(hs, p) => p \in Deleted(hs)
BY DEF Touched, Deleted, EndsDeleted

----------------------------------------------------------------------------
(* Reads and commits give the user what the user asked for.                *)

LEMMA ReplayCoherent ==
  ASSUME NEW m \in Manifest, NEW w \in WalRecord, NEW p \in Paths,
         WalCoherent(w, p)
  PROVE  Coherent(ReplayFiles(w), w.hist, ReplayMap(m, w), ReplayView(m, w), m, p)
<1> DEFINE f == ReplayFiles(w)[p]
           i == ReplayMap(m, w)[p]
           v == ReplayView(m, w)[p]
<1>1. /\ p \in Deleted(w.hist) => f = NoData
      /\ p \notin Deleted(w.hist) => f = w.files[p]
  BY DEF ReplayFiles
<1>2. /\ p \notin Touched(w.hist) =>
           i = (IF TreeOf(m)[p] = NoData THEN "none" ELSE "base")
      /\ p \in Touched(w.hist) /\ EndsDeleted(w.hist, p) => i = "none"
      /\ p \in Touched(w.hist) /\ ~ EndsDeleted(w.hist, p) => i = "fresh"
  BY DEF ReplayMap, PathIndex
<1>3. /\ p \in Touched(w.hist) => v = w.view[p]
      /\ p \notin Touched(w.hist) => v = TreeOf(m)[p]
  BY DEF ReplayView
<1>4. EndsDeleted(w.hist, p) => p \in Touched(w.hist)
  BY DeletedIsTouched
<1>5. m # NoManifest
  BY ConstantsAssumption
<1> HIDE DEF f, i, v
<1>6. /\ f # NoData => v = f /\ i = "fresh" /\ p \in Touched(w.hist)
                         /\ ~ EndsDeleted(w.hist, p)
      /\ i = "base" => p \notin Touched(w.hist) /\ v = TreeOf(m)[p]
      /\ i = "none" => v = NoData /\ (\/ EndsDeleted(w.hist, p)
                                      \/ p \notin Touched(w.hist) /\ TreeOf(m)[p] = NoData)
      /\ i = "fresh" /\ f = NoData => p \in Deleted(w.hist) /\ ~ EndsDeleted(w.hist, p)
  BY <1>1, <1>2, <1>3, <1>4 DEF WalCoherent
<1> QED
  BY <1>5, <1>6 DEF Coherent, f, i, v

LEMMA OpenedCoherent ==
  ASSUME NEW m \in Manifest \cup {NoManifest}, NEW f \in Tree, NEW p \in Paths, f[p] = NoData
  PROVE  Coherent(f, <<>>, PathIndex(m), TreeOf(m), m, p)
<1>1. p \in Paths => TreeOf(NoManifest)[p] = NoData
  BY DEF TreeOf, EmptyTree
<1> QED
  BY <1>1, EmptyHistory DEF Coherent, PathIndex

LEMMA StageCoherent ==
  ASSUME NEW f \in Tree, NEW hs \in Seq(HistoryEntry),
         NEW m \in [Paths -> {"none", "base", "fresh"}], NEW v \in Tree,
         NEW b, NEW p \in Paths, NEW q \in Paths, NEW e \in HistoryEntry,
         NEW d \in Data \cup {NoData}, NEW i \in {"none", "fresh"},
         e.path = q,
         e.op = "Delete" <=> d = NoData,
         i = IF e.op = "Delete" THEN "none" ELSE "fresh",
         Coherent(f, hs, m, v, b, p)
  PROVE  Coherent([f EXCEPT ![q] = d], Append(hs, e), [m EXCEPT ![q] = i],
                  [v EXCEPT ![q] = d], b, p)
<1>1. CASE p = q
  <2>1. p \in Touched(Append(hs, e)) /\ (EndsDeleted(Append(hs, e), p) <=> e.op = "Delete")
    BY <1>1, AppendHistory
  <2>2. /\ [f EXCEPT ![q] = d][p] = d
        /\ [m EXCEPT ![q] = i][p] = i
        /\ [v EXCEPT ![q] = d][p] = d
    BY <1>1 DEF Tree
  <2> QED
    BY <2>1, <2>2 DEF Coherent
<1>2. CASE p # q
  <2>1. /\ p \in Touched(Append(hs, e)) <=> p \in Touched(hs)
        /\ p \in Deleted(Append(hs, e)) <=> p \in Deleted(hs)
        /\ EndsDeleted(Append(hs, e), p) <=> EndsDeleted(hs, p)
    BY <1>2, AppendHistory
  <2>2. /\ [f EXCEPT ![q] = d][p] = f[p]
        /\ [m EXCEPT ![q] = i][p] = m[p]
        /\ [v EXCEPT ![q] = d][p] = v[p]
    BY <1>2 DEF Tree
  <2> QED
    BY <2>1, <2>2 DEF Coherent
<1> QED
  BY <1>1, <1>2

\* A record written from a coherent handle is coherent.
LEMMA WrittenCoherent ==
  ASSUME NEW f, NEW hs, NEW m, NEW v, NEW b, NEW t, NEW p,
         m[p] \in {"none", "base", "fresh"},
         Coherent(f, hs, m, v, b, p)
  PROVE  WalCoherent([tag |-> t, files |-> f, hist |-> hs, view |-> v], p)
<1>1. EndsDeleted(hs, p) => p \in Touched(hs)
  BY DeletedIsTouched
<1> QED
  BY <1>1 DEF Coherent, WalCoherent

\* ViewInv for one handle and one path.
HandleView(h, p) ==
  /\ rwal[h] # NoWal => WalCoherent(rwal[h], p)
  /\ pc[h] # "opening" =>
       Coherent(files[h], hist[h], imap[h], view[h], base[h], p)
  /\ pc[h] \in {"closed", "opening", "loaded", "walRead", "skipped"} =>
       files[h][p] = NoData /\ hist[h] = <<>>

LEMMA ViewByHandle ==
  ViewInv <=> \A p \in Paths : /\ wal # NoWal => WalCoherent(wal, p)
                               /\ \A h \in Handles : HandleView(h, p)
BY DEF ViewInv, HandleView

LEMMA ViewInit == Init => ViewInv
<1> SUFFICES ASSUME Init PROVE ViewInv
  OBVIOUS
<1>1. ASSUME NEW h \in Handles, NEW p \in Paths PROVE HandleView(h, p)
  <2>1. /\ rwal[h] = NoWal /\ files[h] = EmptyTree /\ hist[h] = <<>>
        /\ imap[h] = PathIndex(NoManifest) /\ view[h] = TreeOf(NoManifest)
        /\ base[h] = NoManifest
    BY DEF Init, TreeOf
  <2>2. EmptyTree \in Tree /\ EmptyTree[p] = NoData
    BY EmptyTreeType DEF EmptyTree
  <2> QED
    BY <2>1, <2>2, OpenedCoherent DEF HandleView
<1> QED
  BY <1>1, ViewByHandle DEF Init

\* A step that changes none of a handle's own fields leaves its view alone.
LEMMA OthersKeepView ==
  ASSUME NEW h \in Handles, NEW p \in Paths, HandleView(h, p),
         /\ rwal'[h] = rwal[h] /\ pc'[h] = pc[h] /\ files'[h] = files[h]
         /\ hist'[h] = hist[h] /\ imap'[h] = imap[h] /\ view'[h] = view[h]
         /\ base'[h] = base[h]
  PROVE  HandleView(h, p)'
BY DEF HandleView, Coherent, WalCoherent

LEMMA ViewStep ==
  ASSUME TypeOK, PhaseInv, ViewInv, [Next]_vars
  PROVE  ViewInv'
<1> DEFINE Wal == \A p \in Paths : wal # NoWal => WalCoherent(wal, p)
           All == \A h \in Handles, p \in Paths : HandleView(h, p)
           Same(g) == /\ rwal'[g] = rwal[g] /\ pc'[g] = pc[g]
                      /\ files'[g] = files[g] /\ hist'[g] = hist[g]
                      /\ imap'[g] = imap[g] /\ view'[g] = view[g]
                      /\ base'[g] = base[g]
<1>a. Wal /\ All
  BY DEF ViewInv, HandleView
<1>b. SUFFICES Wal' /\ All'
  BY DEF ViewInv, HandleView
<1>c. ASSUME NEW h \in Handles,
             \A g \in Handles : g # h => Same(g),
             \A p \in Paths : HandleView(h, p)'
      PROVE  All'
  BY <1>a, <1>c, OthersKeepView
<1>d. ASSUME wal' = wal \/ wal' = NoWal PROVE Wal'
  BY <1>a, <1>d DEF WalCoherent
<1> HIDE DEF Wal, All
<1>e. \A h \in Handles, p \in Paths : HandleView(h, p)
  BY <1>a DEF All
<1>1. ASSUME NEW h \in Handles, Open(h) PROVE Wal' /\ All'
  <2>1. \A g \in Handles : g # h => Same(g)
    BY <1>1 DEF Open, pending, TypeOK
  <2>2. ASSUME NEW p \in Paths PROVE HandleView(h, p)'
    BY <1>1, <1>e DEF Open, pending, TypeOK, HandleView, WalCoherent
  <2> QED
    BY <1>1, <1>c, <1>d, <2>1, <2>2 DEF Open
<1>2. ASSUME NEW h \in Handles, OpenParts(h) PROVE Wal' /\ All'
  <2>1. \A g \in Handles : g # h => Same(g)
    BY <1>2 DEF OpenParts, TypeOK
  <2>2. ASSUME NEW p \in Paths PROVE HandleView(h, p)'
    <3>1. base[h] \in Manifest /\ base[h] # NoManifest /\ files[h] \in Tree
      BY <1>2, ConstantsAssumption DEF OpenParts, PhaseInv, TypeOK
    <3>2. files[h][p] = NoData /\ hist[h] = <<>>
      BY <1>2, <1>e DEF OpenParts, HandleView
    <3>3. Coherent(files[h], <<>>, PathIndex(base[h]), TreeOf(base[h]), base[h], p)
      BY <3>1, <3>2, OpenedCoherent
    <3>4. /\ files' = files /\ hist' = hist /\ base' = base /\ rwal' = rwal
          /\ imap'[h] = PathIndex(base[h]) /\ view'[h] = TreeOf(base[h])
          /\ pc'[h] = "loaded"
      BY <1>2, <3>1 DEF OpenParts, TypeOK, TreeOf
    <3>5. rwal[h] # NoWal => WalCoherent(rwal[h], p)
      BY <1>e DEF HandleView
    <3> QED
      BY <3>2, <3>3, <3>4, <3>5 DEF HandleView, WalCoherent, Coherent
  <2> QED
    BY <1>2, <1>c, <1>d, <2>1, <2>2 DEF OpenParts, disk
<1>3. ASSUME NEW h \in Handles, ReadWal(h) PROVE Wal' /\ All'
  <2>1. \A g \in Handles : g # h => Same(g)
    BY <1>3 DEF ReadWal, pending, TypeOK
  <2>2. ASSUME NEW p \in Paths PROVE HandleView(h, p)'
    <3>1. wal # NoWal => WalCoherent(wal, p)
      BY <1>a DEF Wal
    <3>2. rwal'[h] = wal /\ pc'[h] \in {"idle", "walRead"}
      BY <1>3 DEF ReadWal, TypeOK
    <3> QED
      BY <1>3, <1>e, <3>1, <3>2
         DEF ReadWal, pending, HandleView, WalCoherent, Coherent
  <2> QED
    BY <1>3, <1>c, <1>d, <2>1, <2>2 DEF ReadWal, disk
<1>4. ASSUME NEW h \in Handles, ReplayWal(h) PROVE Wal' /\ All'
  <2>1. \A g \in Handles : g # h => Same(g)
    BY <1>4 DEF ReplayWal, TypeOK
  <2>2. ASSUME NEW p \in Paths PROVE HandleView(h, p)'
    <3> DEFINE w == rwal[h]
    <3>1. base[h] \in Manifest /\ w \in WalRecord /\ w # NoWal
      BY <1>4, ConstantsAssumption DEF ReplayWal, PhaseInv
    <3>2. WalCoherent(w, p)
      BY <1>e, <3>1 DEF HandleView
    <3>3. Coherent(ReplayFiles(w), w.hist, ReplayMap(base[h], w),
                   ReplayView(base[h], w), base[h], p)
      BY <3>1, <3>2, ReplayCoherent
    <3>4. /\ files'[h] = ReplayFiles(w) /\ hist'[h] = w.hist
          /\ imap'[h] = ReplayMap(base[h], w)
          /\ view'[h] = ReplayView(base[h], w)
          /\ base' = base /\ rwal' = rwal /\ pc'[h] = "replayed"
      BY <1>4 DEF ReplayWal, TypeOK
    <3> HIDE DEF w
    <3> QED
      BY <3>2, <3>3, <3>4 DEF HandleView, WalCoherent, Coherent, w
  <2> QED
    BY <1>4, <1>c, <1>d, <2>1, <2>2 DEF ReplayWal, disk
<1>5. ASSUME NEW h \in Handles, SkipWal(h) \/ UnlinkWal(h) \/ CreateNew(h)
      PROVE  Wal' /\ All'
  <2>1. \A g \in Handles : g # h => Same(g)
    BY <1>5 DEF SkipWal, UnlinkWal, CreateNew, pending, TypeOK
  <2>2. ASSUME NEW p \in Paths PROVE HandleView(h, p)'
    BY <1>5, <1>e
       DEF SkipWal, UnlinkWal, CreateNew, pending, TypeOK, HandleView,
           WalCoherent, Coherent
  <2> QED
    BY <1>5, <1>c, <1>d, <2>1, <2>2 DEF SkipWal, UnlinkWal, CreateNew, disk
<1>6. ASSUME NEW h \in Handles, NEW op \in {"Add", "Update", "Delete"},
             NEW q \in Paths, NEW d \in Data \cup {NoData},
             NEW i \in {"none", "fresh"}, Stage(h, op, q, d, i),
             op = "Delete" <=> d = NoData,
             i = IF op = "Delete" THEN "none" ELSE "fresh"
      PROVE  Wal' /\ All'
  <2>1. \A g \in Handles : g # h => Same(g)
    BY <1>6 DEF Stage, TypeOK
  <2>2. ASSUME NEW p \in Paths PROVE HandleView(h, p)'
    <3> DEFINE e == [op |-> op, path |-> q]
    <3>1. /\ files[h] \in Tree /\ hist[h] \in Seq(HistoryEntry)
          /\ imap[h] \in [Paths -> {"none", "base", "fresh"}]
          /\ view[h] \in Tree
      BY DEF TypeOK
    <3>2. e \in HistoryEntry /\ e.path = q /\ e.op = op
      BY DEF HistoryEntry
    <3>3. /\ files'[h] = [files[h] EXCEPT ![q] = d]
          /\ imap'[h] = [imap[h] EXCEPT ![q] = i]
          /\ hist'[h] = Append(hist[h], e)
          /\ view'[h] = [view[h] EXCEPT ![q] = d]
          /\ base' = base /\ rwal' = rwal /\ pc' = pc /\ pc[h] = "idle"
      BY <1>6 DEF Stage, TypeOK
    <3>4. Coherent(files[h], hist[h], imap[h], view[h], base[h], p)
      BY <1>e, <3>3 DEF HandleView
    <3> HIDE DEF e
    <3>5. Coherent([files[h] EXCEPT ![q] = d], Append(hist[h], e),
                   [imap[h] EXCEPT ![q] = i], [view[h] EXCEPT ![q] = d],
                   base[h], p)
      BY <1>6, <3>1, <3>2, <3>4, StageCoherent
    <3>6. rwal[h] # NoWal => WalCoherent(rwal[h], p)
      BY <1>e DEF HandleView
    <3> QED
      BY <3>3, <3>5, <3>6 DEF HandleView, WalCoherent, Coherent
  <2> QED
    BY <1>6, <1>c, <1>d, <2>1, <2>2 DEF Stage, disk
<1>7. ASSUME NEW h \in Handles, WriteWal(h) PROVE Wal' /\ All'
  <2>1. \A g \in Handles : g # h => Same(g)
    BY <1>7 DEF WriteWal, pending, TypeOK
  <2>2. ASSUME NEW p \in Paths PROVE HandleView(h, p)'
    BY <1>7, <1>e DEF WriteWal, pending, TypeOK, HandleView, WalCoherent, Coherent
  <2>3. ASSUME NEW p \in Paths PROVE WalCoherent(wal', p)
    <3>1. Coherent(files[h], hist[h], imap[h], view[h], base[h], p)
      BY <1>7, <1>e DEF WriteWal, HandleView
    <3>2. imap[h][p] \in {"none", "base", "fresh"}
      BY DEF TypeOK
    <3> QED
      BY <1>7, <3>1, <3>2, WrittenCoherent DEF WriteWal
  <2>4. Wal'
    BY <2>3 DEF Wal, WalCoherent
  <2> QED
    BY <1>c, <2>1, <2>2, <2>4
<1>8. ASSUME NEW h \in Handles, ArtifactNext(h) \/ BuildTurnover(h)
      PROVE  Wal' /\ All'
  <2>1. /\ files' = files /\ hist' = hist /\ imap' = imap /\ view' = view
        /\ base' = base /\ rwal' = rwal
        /\ wal' = wal \/ wal' = NoWal
    BY <1>8 DEF ArtifactNext, BuildTurnover, BuildCommit, StageArtifact,
                RenameSidecar, RenameSlabs, RenameManifest, FinishCommit,
                WriteError, pending, disk
  <2>2. /\ \A g \in Handles : g # h => pc'[g] = pc[g]
        /\ pc[h] \in Writing \cup {"idle", "walWritten", "built", "swapped"}
        /\ pc'[h] \in Writing \cup {"idle", "walWritten", "built", "swapped"}
    BY <1>8 DEF ArtifactNext, BuildTurnover, BuildCommit, StageArtifact,
                RenameSidecar, RenameSlabs, RenameManifest, FinishCommit,
                WriteError, TypeOK, Writing
  <2>3. ASSUME NEW p \in Paths PROVE HandleView(h, p)'
    BY <1>e, <2>1, <2>2 DEF HandleView, WalCoherent, Coherent, Writing
  <2> QED
    BY <1>c, <1>d, <2>1, <2>2, <2>3
<1>9. ASSUME NEW h \in Handles, Crash(h) PROVE Wal' /\ All'
  <2>1. \A g \in Handles : g # h => Same(g)
    BY <1>9 DEF Crash, Reset, TypeOK
  <2>2. ASSUME NEW p \in Paths PROVE HandleView(h, p)'
    <3>1. /\ rwal'[h] = NoWal /\ files'[h] = EmptyTree /\ hist'[h] = <<>>
          /\ imap'[h] = PathIndex(NoManifest)
          /\ view'[h] = TreeOf(NoManifest) /\ base'[h] = NoManifest
      BY <1>9 DEF Crash, Reset, TypeOK, TreeOf
    <3>2. EmptyTree \in Tree /\ EmptyTree[p] = NoData
      BY EmptyTreeType DEF EmptyTree
    <3>3. Coherent(EmptyTree, <<>>, PathIndex(NoManifest), TreeOf(NoManifest),
                   NoManifest, p)
      BY <3>2, OpenedCoherent
    <3> QED
      BY <3>1, <3>2, <3>3 DEF HandleView, Coherent
  <2> QED
    BY <1>9, <1>c, <1>d, <2>1, <2>2 DEF Crash
<1>10. ASSUME UNCHANGED vars PROVE Wal' /\ All'
  <2>1. \A g \in Handles : Same(g)
    BY <1>10 DEF vars, pending
  <2> QED
    BY <1>10, <2>1, <1>d, <1>e, OthersKeepView DEF vars, disk, All
<1>11. ASSUME NEW h \in Handles, WriterNext(h) PROVE Wal' /\ All'
  <2>1. ASSUME NEW p \in Paths, NEW d \in Data,
               AddFile(h, p, d) \/ UpdateFile(h, p, d)
        PROVE  Wal' /\ All'
    BY <2>1, <1>6, ConstantsAssumption DEF AddFile, UpdateFile
  <2>2. ASSUME NEW p \in Paths, DeleteFile(h, p) PROVE Wal' /\ All'
    BY <2>2, <1>6 DEF DeleteFile
  <2> QED
    BY <1>11, <1>7, <2>1, <2>2 DEF WriterNext
<1> QED
  BY <1>1, <1>2, <1>3, <1>4, <1>5, <1>8, <1>9, <1>10, <1>11,
     ConstantsAssumption DEF Next, OpenNext

LEMMA BuiltInit == Init => BuiltInv
BY DEF Init, BuiltInv, Writing

LEMMA BuiltStep ==
  ASSUME TypeOK, BuiltInv, [Next]_vars
  PROVE  BuiltInv'
<1> DEFINE Committing(g) == /\ pc[g] \in Writing \cup {"built", "swapped"}
                            /\ job[g] = "commit"
           Same(g) == /\ files'[g] = files[g] /\ hist'[g] = hist[g]
                      /\ base'[g] = base[g] /\ art'[g] = art[g]
                      /\ (Committing(g)' => Committing(g))
<1>a. ASSUME NEW h \in Handles, \A g \in Handles : g # h => Same(g),
             Committing(h)' => art'[h].tree = StagingTree(h)'
      PROVE  BuiltInv'
  <2>1. ASSUME NEW g \in Handles, Same(g) PROVE StagingTree(g)' = StagingTree(g)
    BY <2>1 DEF StagingTree
  <2> QED
    BY <1>a, <2>1 DEF BuiltInv
<1>1. ASSUME NEW h \in Handles,
             OpenNext(h) \/ WriterNext(h) \/ Crash(h) \/ BuildTurnover(h)
                \/ FinishCommit(h) \/ WriteError(h)
      PROVE  BuiltInv'
  <2>1. \A g \in Handles : g # h => Same(g)
    BY ZenonT(30), <1>1 DEF OpenNext, Open, OpenParts, ReadWal, ReplayWal, SkipWal,
                UnlinkWal, CreateNew, WriterNext, AddFile, UpdateFile,
                DeleteFile, Stage, WriteWal, Crash, Reset, BuildTurnover,
                FinishCommit, WriteError, pending, TypeOK
  <2>2. ~ Committing(h)'
    BY ZenonT(30), <1>1 DEF OpenNext, Open, OpenParts, ReadWal, ReplayWal, SkipWal,
                UnlinkWal, CreateNew, WriterNext, AddFile, UpdateFile,
                DeleteFile, Stage, WriteWal, Crash, Reset, BuildTurnover,
                FinishCommit, WriteError, TypeOK, Writing
  <2> QED
    BY <1>a, <2>1, <2>2
<1>2. ASSUME NEW h \in Handles, BuildCommit(h) PROVE BuiltInv'
  <2>1. \A g \in Handles : g # h => Same(g)
    BY <1>2 DEF BuildCommit, pending, TypeOK
  <2>2. art'[h].tree = StagingTree(h)
    BY <1>2 DEF BuildCommit, TypeOK
  <2>3. StagingTree(h)' = StagingTree(h)
    BY <1>2 DEF BuildCommit, StagingTree, pending
  <2> QED
    BY <1>a, <2>1, <2>2, <2>3
<1>3. ASSUME NEW h \in Handles,
             StageArtifact(h) \/ RenameSidecar(h) \/ RenameSlabs(h)
               \/ RenameManifest(h)
      PROVE  BuiltInv'
  <2>1. \A g \in Handles : g # h => Same(g)
    BY <1>3 DEF StageArtifact, RenameSidecar, RenameSlabs, RenameManifest,
                pending, TypeOK
  <2>2. /\ files' = files /\ hist' = hist /\ base' = base
        /\ Committing(h)' => Committing(h) /\ art'[h] = art[h]
    BY <1>3 DEF StageArtifact, RenameSidecar, RenameSlabs, RenameManifest,
                pending, TypeOK, Writing
  <2>3. StagingTree(h)' = StagingTree(h)
    BY <2>2 DEF StagingTree
  <2> QED
    BY <1>a, <2>1, <2>2, <2>3 DEF BuiltInv
<1>4. ASSUME UNCHANGED vars PROVE BuiltInv'
  BY <1>4 DEF vars, pending, BuiltInv, StagingTree
<1> QED
  BY <1>1, <1>2, <1>3, <1>4, ConstantsAssumption DEF Next, ArtifactNext

LEMMA ReadFromView == TypeOK /\ ViewInv => ReadsAreUsers
<1> SUFFICES ASSUME TypeOK, ViewInv, NEW h \in Handles, NEW p \in Paths,
                    pc[h] = "idle", base[h] # NoManifest
             PROVE  \/ ReadFile(h, p) = view[h][p]
                    \/ ReadFile(h, p) = "inode missing" /\ Readded(h, p)
  BY DEF ReadsAreUsers
<1>1. Coherent(files[h], hist[h], imap[h], view[h], base[h], p)
  BY DEF ViewInv
<1>2. imap[h][p] \in {"none", "base", "fresh"}
  BY DEF TypeOK
<1>3. CASE files[h][p] # NoData
  BY <1>1, <1>3 DEF Coherent, ReadFile
<1>4. CASE files[h][p] = NoData /\ imap[h][p] = "none"
  BY <1>1, <1>4 DEF Coherent, ReadFile
<1>5. CASE files[h][p] = NoData /\ imap[h][p] = "base"
  BY <1>1, <1>5 DEF Coherent, ReadFile, TreeOf
<1>6. CASE files[h][p] = NoData /\ imap[h][p] = "fresh"
  BY <1>1, <1>6 DEF Coherent, ReadFile, Readded
<1> QED
  BY <1>2, <1>3, <1>4, <1>5, <1>6

LEMMA BuiltFromView == TypeOK /\ ViewInv /\ BuiltInv => BuiltTreeIsView
<1> SUFFICES ASSUME TypeOK, ViewInv, BuiltInv,
                    NEW h \in Handles, NEW p \in Paths,
                    pc[h] \in Writing \cup {"built", "swapped"},
                    job[h] = "commit"
             PROVE  \/ art[h].tree[p] = view[h][p]
                    \/ art[h].tree[p] = NoData /\ Readded(h, p)
  BY DEF BuiltTreeIsView
<1>1. Coherent(files[h], hist[h], imap[h], view[h], base[h], p)
  BY DEF ViewInv, Writing
<1>2. imap[h][p] \in {"none", "base", "fresh"}
  BY DEF TypeOK
<1>3. art[h].tree[p] = IF files[h][p] # NoData THEN files[h][p]
                       ELSE IF p \in Deleted(hist[h]) THEN NoData
                       ELSE TreeOf(base[h])[p]
  BY DEF BuiltInv, StagingTree
<1>4. /\ p \in Deleted(hist[h]) => p \in Touched(hist[h])
      /\ EndsDeleted(hist[h], p) => p \in Deleted(hist[h])
  BY DeletedIsTouched
<1> QED
  BY <1>1, <1>2, <1>3, <1>4 DEF Coherent, Readded

\* read_file returns what the handle's user staged or opened, or fails; it
\* fails only where a replayed WAL deleted and re-added the path.
THEOREM ReadsReturnTheUsersData == Spec => []ReadsAreUsers
<1>1. Init => TypeOK /\ PhaseInv /\ ViewInv
  BY TypeInit, ViewInit
<1>2. TypeOK /\ PhaseInv /\ ViewInv /\ [Next]_vars =>
        TypeOK' /\ PhaseInv' /\ ViewInv'
  BY TypeStep, ViewStep
<1> QED
  BY <1>1, <1>2, ReadFromView, PTL DEF Spec

\* A commit installs the tree its user asked for.
THEOREM CommitsTheUsersTree == Spec => []BuiltTreeIsView
<1>1. Init => TypeOK /\ PhaseInv /\ ViewInv /\ BuiltInv
  BY TypeInit, ViewInit, BuiltInit
<1>2. TypeOK /\ PhaseInv /\ ViewInv /\ BuiltInv /\ [Next]_vars =>
        TypeOK' /\ PhaseInv' /\ ViewInv' /\ BuiltInv'
  BY TypeStep, ViewStep, BuiltStep
<1> QED
  BY <1>1, <1>2, BuiltFromView, PTL DEF Spec
----------------------------------------------------------------------------
(* One handle at a time, and no turnover: a crash loses nothing.  (With a  *)
(* second handle, or after a turnover, the WAL of a commit in flight may   *)
(* be another's, or be taken for stale.)                                   *)

Alone == (\A g, h \in Handles : g = h) /\ Turners = {}

\* What the handle and the disk know of each other: the tag is the manifest
\* on disk until the swap, the WAL of a commit in flight is the pending state
\* as it is, and the image differs from the opened one on touched paths only.
Opening == {"opening", "loaded", "walRead", "skipped"}

SoloInv ==
  \A h \in Handles :
    /\ job[h] = "commit"
    /\ pc[h] = "closed" => base[h] = NoManifest
    /\ pc[h] \in Opening => base[h] = manifest
    /\ pc[h] = "swapped" => manifest = art[h]
    /\ base[h] # NoManifest =>
         /\ manifest # NoManifest
         /\ pc[h] # "swapped" => tag[h] = manifest
         /\ \A p \in Paths \ Touched(hist[h]) :
              manifest.tree[p] = base[h].tree[p]
         /\ MidCommit(h) =>
              wal = [tag |-> tag[h], files |-> files[h], hist |-> hist[h],
                     view |-> view[h]]

\* The image about to be installed differs from the opened one on touched
\* paths only.
LEMMA BuiltKeepsUntouched ==
  ASSUME TypeOK, ViewInv, BuiltInv, NEW h \in Handles, NEW p \in Paths,
         pc[h] \in Writing \cup {"built", "swapped"}, job[h] = "commit",
         p \notin Touched(hist[h])
  PROVE  art[h].tree[p] = TreeOf(base[h])[p]
<1>1. Coherent(files[h], hist[h], imap[h], view[h], base[h], p)
  BY DEF ViewInv, Writing
<1>2. files[h][p] = NoData
  BY <1>1 DEF Coherent
<1>3. p \notin Deleted(hist[h])
  BY DeletedIsTouched
<1> QED
  BY <1>2, <1>3 DEF BuiltInv, StagingTree

LEMMA SoloInit == Init => SoloInv
BY DEF Init, SoloInv, Opening

LEMMA SoloStep ==
  ASSUME Alone, TypeOK, PhaseInv, ViewInv, BuiltInv, SoloInv, [Next]_vars
  PROVE  SoloInv'
<1> USE DEF MidCommit, Opening, Writing
<1>a. ASSUME NEW h \in Handles,
             /\ job'[h] = "commit"
             /\ pc'[h] = "closed" => base'[h] = NoManifest
             /\ pc'[h] \in Opening => base'[h] = manifest'
             /\ pc'[h] = "swapped" => manifest' = art'[h]
             /\ base'[h] # NoManifest =>
                  /\ manifest' # NoManifest
                  /\ pc'[h] # "swapped" => tag'[h] = manifest'
                  /\ \A p \in Paths \ Touched(hist'[h]) :
                       manifest'.tree[p] = base'[h].tree[p]
                  /\ MidCommit(h)' =>
                       wal' = [tag |-> tag'[h], files |-> files'[h],
                               hist |-> hist'[h], view |-> view'[h]]
      PROVE  SoloInv'
  BY <1>a DEF SoloInv, Alone
<1>1. ASSUME NEW h \in Handles, Open(h) PROVE SoloInv'
  <2>1. /\ manifest' = manifest /\ manifest # NoManifest
        /\ base'[h] = manifest /\ tag'[h] = manifest /\ pc'[h] = "opening"
        /\ job'[h] = job[h]
    BY <1>1 DEF Open, TypeOK, pending
  <2>2. job[h] = "commit"
    BY DEF SoloInv
  <2> QED
    BY <1>a, <2>1, <2>2
<1>2. ASSUME NEW h \in Handles,
             OpenParts(h) \/ ReadWal(h) \/ SkipWal(h) \/ UnlinkWal(h)
               \/ CreateNew(h) \/ BuildCommit(h) \/ StageArtifact(h)
               \/ RenameSidecar(h) \/ RenameSlabs(h) \/ WriteError(h)
      PROVE  SoloInv'
  <2>1. /\ manifest' = manifest /\ base' = base /\ tag' = tag
        /\ files' = files /\ hist' = hist
        /\ pc'[h] # "closed" /\ pc'[h] # "swapped" /\ pc[h] # "swapped"
        /\ pc'[h] \in Opening => pc[h] \in Opening
        /\ job'[h] \in {job[h], "commit"}
    BY <1>2 DEF OpenParts, ReadWal, SkipWal, UnlinkWal, CreateNew,
                BuildCommit, StageArtifact, RenameSidecar, RenameSlabs,
                WriteError, TypeOK, disk, pending
  <2>2. MidCommit(h)' => /\ MidCommit(h) \/ pc[h] = "walWritten"
                         /\ wal' = wal /\ view' = view
    BY <1>2 DEF OpenParts, ReadWal, SkipWal, UnlinkWal, CreateNew,
                BuildCommit, StageArtifact, RenameSidecar, RenameSlabs,
                WriteError, TypeOK, disk, pending
  <2>3. job[h] = "commit"
    BY DEF SoloInv
  <2>4. base[h] # NoManifest =>
          /\ manifest # NoManifest /\ tag[h] = manifest
          /\ \A p \in Paths \ Touched(hist[h]) :
               manifest.tree[p] = base[h].tree[p]
          /\ MidCommit(h) =>
               wal = [tag |-> tag[h], files |-> files[h], hist |-> hist[h],
                      view |-> view[h]]
    BY <2>1 DEF SoloInv
  <2>5. pc[h] \in Opening => base[h] = manifest
    BY DEF SoloInv
  <2> QED
    BY <1>a, <2>1, <2>2, <2>3, <2>4, <2>5
<1>3. ASSUME NEW h \in Handles, ReplayWal(h) PROVE SoloInv'
  <2>1. /\ manifest' = manifest /\ base' = base /\ tag' = tag
        /\ pc'[h] = "replayed" /\ pc[h] = "walRead" /\ job' = job
    BY <1>3 DEF ReplayWal, TypeOK, disk
  <2>2. /\ job[h] = "commit" /\ base[h] = manifest
        /\ base[h] # NoManifest => manifest # NoManifest /\ tag[h] = manifest
    BY <2>1 DEF SoloInv
  <2> QED
    BY <1>a, <2>1, <2>2
<1>4. ASSUME NEW h \in Handles, NEW op, NEW q \in Paths, NEW d, NEW i,
             op \in {"Add", "Update", "Delete"}, Stage(h, op, q, d, i)
      PROVE  SoloInv'
  <2>1. /\ manifest' = manifest /\ base' = base /\ tag' = tag /\ pc' = pc
        /\ pc[h] = "idle" /\ job' = job
        /\ hist'[h] = Append(hist[h], [op |-> op, path |-> q])
    BY <1>4 DEF Stage, TypeOK, disk
  <2>2. Touched(hist[h]) \subseteq Touched(hist'[h])
    <3>1. [op |-> op, path |-> q] \in HistoryEntry /\ hist[h] \in Seq(HistoryEntry)
      BY <1>4 DEF HistoryEntry, TypeOK
    <3> QED
      BY <2>1, <3>1, AppendHistory
  <2>3. /\ job[h] = "commit"
        /\ base[h] # NoManifest =>
             /\ manifest # NoManifest /\ tag[h] = manifest
             /\ \A p \in Paths \ Touched(hist[h]) :
                  manifest.tree[p] = base[h].tree[p]
    BY <2>1 DEF SoloInv
  <2> QED
    BY <1>a, <2>1, <2>2, <2>3
<1>5. ASSUME NEW h \in Handles, WriteWal(h) PROVE SoloInv'
  <2>1. /\ manifest' = manifest /\ base' = base /\ tag' = tag
        /\ files' = files /\ hist' = hist /\ view' = view /\ job' = job
        /\ pc[h] = "idle" /\ pc'[h] = "walWritten"
        /\ wal' = [tag |-> tag[h], files |-> files[h], hist |-> hist[h],
                   view |-> view[h]]
    BY <1>5 DEF WriteWal, TypeOK, pending
  <2>2. /\ job[h] = "commit"
        /\ base[h] # NoManifest =>
             /\ manifest # NoManifest /\ tag[h] = manifest
             /\ \A p \in Paths \ Touched(hist[h]) :
                  manifest.tree[p] = base[h].tree[p]
    BY <2>1 DEF SoloInv
  <2> QED
    BY <1>a, <2>1, <2>2
<1>6. ASSUME NEW h \in Handles, RenameManifest(h) PROVE SoloInv'
  <2>1. /\ job[h] = "commit" /\ pc[h] = "slabsIn"
        /\ base[h] # NoManifest => MidCommit(h) /\ MidCommit(h)
        /\ base[h] # NoManifest =>
             wal = [tag |-> tag[h], files |-> files[h], hist |-> hist[h],
                    view |-> view[h]]
    BY <1>6 DEF RenameManifest, SoloInv
  <2>2. /\ manifest' = art[h] /\ base' = base /\ tag' = tag
        /\ files' = files /\ hist' = hist /\ view' = view /\ job' = job
        /\ wal' = wal /\ pc'[h] = "swapped" /\ art'[h] = art[h]
    BY <1>6, <2>1 DEF RenameManifest, TypeOK, pending
  <2>3. art[h] \in Manifest /\ art[h] # NoManifest
    BY <2>1, ConstantsAssumption DEF PhaseInv
  <2>4. base[h] # NoManifest =>
          \A p \in Paths \ Touched(hist[h]) : art[h].tree[p] = base[h].tree[p]
    BY <2>1, BuiltKeepsUntouched DEF TreeOf
  <2> QED
    BY <1>a, <2>1, <2>2, <2>3, <2>4
<1>7. ASSUME NEW h \in Handles, FinishCommit(h) PROVE SoloInv'
  <2>1. /\ manifest' = manifest /\ base' = base /\ tag'[h] = art[h]
        /\ hist' = hist /\ job' = job
        /\ pc[h] = "swapped" /\ pc'[h] = "idle"
    BY <1>7 DEF FinishCommit, TypeOK, pending
  <2>2. /\ job[h] = "commit" /\ manifest = art[h]
        /\ base[h] # NoManifest =>
             /\ manifest # NoManifest
             /\ \A p \in Paths \ Touched(hist[h]) :
                  manifest.tree[p] = base[h].tree[p]
    BY <2>1 DEF SoloInv
  <2> QED
    BY <1>a, <2>1, <2>2
<1>8. ASSUME NEW h \in Handles, Crash(h) PROVE SoloInv'
  <2>1. base'[h] = NoManifest /\ pc'[h] = "closed" /\ job'[h] = "commit"
    BY <1>8 DEF Crash, Reset, TypeOK
  <2> QED
    BY <1>a, <2>1
<1>9. ASSUME UNCHANGED vars PROVE SoloInv'
  BY <1>9 DEF vars, disk, pending, SoloInv
<1>10. ASSUME NEW h \in Handles, WriterNext(h) PROVE SoloInv'
  BY <1>10, <1>4, <1>5 DEF WriterNext, AddFile, UpdateFile, DeleteFile
<1> QED
  BY <1>1, <1>2, <1>3, <1>6, <1>7, <1>8, <1>9, <1>10, ConstantsAssumption
     DEF Next, OpenNext, ArtifactNext, Alone

LEMMA RecoveredFromView ==
  TypeOK /\ ViewInv /\ BuiltInv /\ SoloInv => CrashRecovers
<1> SUFFICES ASSUME TypeOK, ViewInv, BuiltInv, SoloInv,
                    NEW h \in Handles, NEW p \in Paths,
                    MidCommit(h), base[h] # NoManifest, ~ Readded(h, p)
             PROVE  Recovered(p) = view[h][p]
  BY DEF CrashRecovers
<1> DEFINE f == files[h]
           hs == hist[h]
           w == [tag |-> tag[h], files |-> f, hist |-> hs, view |-> view[h]]
<1>1. /\ wal = w /\ manifest # NoManifest
      /\ \A q \in Paths \ Touched(hs) : manifest.tree[q] = base[h].tree[q]
      /\ pc[h] # "swapped" => tag[h] = manifest
      /\ pc[h] = "swapped" => manifest = art[h]
      /\ job[h] = "commit"
  BY DEF SoloInv
<1>2. w.files = f /\ w.hist = hs /\ w.tag = tag[h]
  OBVIOUS
<1>3. wal # NoWal
  <2>1. /\ tag[h] \in Manifest \cup {NoManifest} /\ f \in Tree
        /\ hs \in Seq(HistoryEntry) /\ view[h] \in Tree
    BY DEF TypeOK
  <2>2. w \in WalRecord
    BY <2>1 DEF WalRecord
  <2> QED
    BY <1>1, <2>2, ConstantsAssumption
<1>4. Coherent(f, hs, imap[h], view[h], base[h], p)
  BY DEF ViewInv, MidCommit, Writing
<1>5. imap[h][p] \in {"none", "base", "fresh"}
  BY DEF TypeOK
<1>6. /\ p \in Deleted(hs) => p \in Touched(hs)
      /\ EndsDeleted(hs, p) => p \in Deleted(hs)
      /\ p \in Deleted(hs) => EndsDeleted(hs, p)
  BY DeletedIsTouched DEF Readded
<1>7. CASE tag[h] # manifest
  <2>1. pc[h] = "swapped" /\ manifest = art[h]
    BY <1>1, <1>7
  <2>2. BuiltTreeIsView
    BY BuiltFromView
  <2>3. art[h].tree[p] = view[h][p]
    BY <1>1, <2>1, <2>2 DEF BuiltTreeIsView
  <2>4. Recovered(p) = TreeOf(manifest)[p]
    BY <1>1, <1>2, <1>7 DEF Recovered
  <2> QED
    BY <1>1, <2>1, <2>3, <2>4 DEF TreeOf
<1>8. CASE tag[h] = manifest
  <2> DEFINE rf == ReplayFiles(w)[p]
             rm == ReplayMap(manifest, w)[p]
  <2>1. /\ rf # NoData => Recovered(p) = rf
        /\ rf = NoData /\ rm = "none" => Recovered(p) = NoData
        /\ rf = NoData /\ rm = "base" => Recovered(p) = manifest.tree[p]
    <3>1. wal = w /\ wal # NoWal /\ wal.tag = manifest
      BY <1>1, <1>2, <1>3, <1>8
    <3> HIDE DEF w
    <3> QED
      BY <3>1 DEF Recovered
  <2>2. rf = IF p \in Deleted(hs) THEN NoData ELSE f[p]
    BY <1>2 DEF ReplayFiles
  <2>3. /\ p \notin Touched(hs) =>
             rm = IF manifest.tree[p] = NoData THEN "none" ELSE "base"
        /\ p \in Touched(hs) =>
             rm = IF EndsDeleted(hs, p) THEN "none" ELSE "fresh"
    BY <1>1, <1>2 DEF ReplayMap, PathIndex, TreeOf
  <2>4. p \notin Touched(hs) => manifest.tree[p] = TreeOf(base[h])[p]
    BY <1>1 DEF TreeOf
  <2> HIDE DEF rf, rm, f, hs
  <2>5. CASE p \in Deleted(hs)
    <3>1. view[h][p] = NoData
      BY <1>4, <1>5, <1>6, <2>5 DEF Coherent
    <3> QED
      BY <1>6, <2>1, <2>2, <2>3, <2>5, <3>1
  <2>6. CASE p \notin Deleted(hs) /\ f[p] # NoData
    BY <1>4, <2>1, <2>2, <2>6 DEF Coherent
  <2>7. CASE p \notin Deleted(hs) /\ f[p] = NoData
    <3>1. p \notin Touched(hs) /\ view[h][p] = TreeOf(base[h])[p]
      BY <1>4, <1>5, <1>6, <2>7 DEF Coherent
    <3> QED
      BY <2>1, <2>2, <2>3, <2>4, <2>7, <3>1
  <2> QED
    BY <2>5, <2>6, <2>7
<1> QED
  BY <1>7, <1>8

\* A handle that has the image to itself may crash anywhere in a commit:
\* what the next open reads is what its user had staged.
THEOREM CrashLosesNothing ==
  ASSUME Alone
  PROVE  Spec => []CrashRecovers
<1> DEFINE Inv == TypeOK /\ PhaseInv /\ ViewInv /\ BuiltInv /\ SoloInv
<1>1. Init => Inv
  BY TypeInit, ViewInit, BuiltInit, SoloInit
<1>2. Inv /\ [Next]_vars => Inv'
  BY TypeStep, ViewStep, BuiltStep, SoloStep
<1>3. Inv => CrashRecovers
  BY RecoveredFromView
<1> QED
  BY <1>1, <1>2, <1>3, PTL DEF Spec

\* Unless the image was made by create_new, which replaces whatever is at the
\* path, a handle that is past its open has an opened image.
OpenedInv == \A h \in Handles : pc[h] = "closed" \/ base[h] # NoManifest

LEMMA OpenedStep ==
  ASSUME Creators = {}, TypeOK, OpenedInv, [Next]_vars
  PROVE  OpenedInv'
<1>1. ASSUME NEW h \in Handles, Open(h) PROVE OpenedInv'
  BY <1>1 DEF Open, OpenedInv, TypeOK
<1>2. ASSUME NEW h \in Handles, Crash(h) PROVE OpenedInv'
  BY <1>2 DEF Crash, Reset, OpenedInv, TypeOK
<1>3. ASSUME NEW h \in Handles, pc[h] # "closed", base' = base,
             \A g \in Handles : g # h => pc'[g] = pc[g]
      PROVE  OpenedInv'
  BY <1>3 DEF OpenedInv
<1>4. ASSUME NEW h \in Handles,
             \/ OpenParts(h) \/ ReadWal(h) \/ ReplayWal(h) \/ SkipWal(h)
             \/ UnlinkWal(h) \/ WriterNext(h) \/ BuildTurnover(h)
      PROVE  OpenedInv'
  <2>1. /\ pc[h] # "closed" /\ base' = base
        /\ \A g \in Handles : g # h => pc'[g] = pc[g]
    BY <1>4 DEF OpenParts, ReadWal, ReplayWal, SkipWal, UnlinkWal,
                WriterNext, AddFile, UpdateFile, DeleteFile, Stage, WriteWal,
                BuildTurnover, TypeOK
  <2> QED
    BY <1>3, <2>1
<1>5. ASSUME NEW h \in Handles, ArtifactNext(h) PROVE OpenedInv'
  <2>1. /\ pc[h] # "closed" /\ base' = base
        /\ \A g \in Handles : g # h => pc'[g] = pc[g]
    BY <1>5 DEF ArtifactNext, BuildCommit, StageArtifact, RenameSidecar,
                RenameSlabs, RenameManifest, FinishCommit, WriteError, TypeOK
  <2> QED
    BY <1>3, <2>1
<1>6. ASSUME UNCHANGED vars PROVE OpenedInv'
  BY <1>6 DEF vars, OpenedInv
<1> QED
  BY <1>1, <1>2, <1>4, <1>5, <1>6, ConstantsAssumption
     DEF Next, OpenNext, CreateNew

\* The swap of a handle that opened the image and has it to itself leaves the
\* paths it never touched as they were on disk.
THEOREM SwapsKeepUntouched ==
  ASSUME Alone, Creators = {}
  PROVE  Spec => SwapKeepsUntouched
<1> DEFINE Inv == TypeOK /\ PhaseInv /\ ViewInv /\ BuiltInv /\ SoloInv /\ OpenedInv
           Keeps == \A h \in Handles : (pc[h] = "slabsIn" /\ manifest' # manifest) =>
                      \A p \in Paths \ Touched(hist[h]) :
                        manifest'.tree[p] = TreeOf(manifest)[p]
<1>1. Init => Inv
  BY TypeInit, ViewInit, BuiltInit, SoloInit DEF Init, OpenedInv
<1>2. Inv /\ [Next]_vars => Inv'
  BY TypeStep, ViewStep, BuiltStep, SoloStep, OpenedStep
<1>3. ASSUME Inv, [Next]_vars PROVE [Keeps]_vars
  <2>1. SUFFICES ASSUME NEW h \in Handles, pc[h] = "slabsIn",
                        manifest' # manifest,
                        NEW p \in Paths \ Touched(hist[h])
                 PROVE  manifest'.tree[p] = TreeOf(manifest)[p]
    OBVIOUS
  <2>2. PICK g \in Handles : RenameManifest(g)
    BY ZenonT(30), <1>3, <2>1 DEF Next, OpenNext, Open, OpenParts, ReadWal, ReplayWal,
         SkipWal, UnlinkWal, CreateNew, WriterNext, AddFile, UpdateFile,
         DeleteFile, Stage, WriteWal, ArtifactNext, BuildCommit,
         BuildTurnover, StageArtifact, RenameSidecar, RenameSlabs,
         FinishCommit, WriteError, Crash, disk, vars, Alone
  <2>3. manifest' = art[h]
    BY <2>2 DEF RenameManifest, Alone
  <2>4. /\ base[h] # NoManifest /\ job[h] = "commit" /\ manifest # NoManifest
        /\ manifest.tree[p] = base[h].tree[p]
    BY <1>3, <2>1 DEF SoloInv, OpenedInv
  <2>5. art[h].tree[p] = TreeOf(base[h])[p]
    BY <1>3, <2>1, <2>4, BuiltKeepsUntouched DEF Writing
  <2> QED
    BY <2>3, <2>4, <2>5 DEF TreeOf
<1> QED
  BY <1>1, <1>2, <1>3, PTL DEF Spec, SwapKeepsUntouched

----------------------------------------------------------------------------
(* One handle at a time implements AtomicImage.                            *)

\* What an open knows of the log: it is the one that was read, and a replay
\* has taken it up.
ReplayInv ==
  \A h \in Handles :
    /\ pc[h] \in {"walRead", "replayed", "skipped"} => wal = rwal[h] /\ wal # NoWal
    /\ pc[h] = "replayed" =>
         /\ base[h] = manifest /\ wal.tag = manifest
         /\ view[h] = ReplayView(manifest, wal) /\ hist[h] = wal.hist
    /\ pc[h] = "skipped" => wal.tag # manifest

\* The inode map points into the opened blob only at its files.
IndexInv ==
  \A h \in Handles, p \in Paths :
    imap[h][p] = "base" => /\ pc[h] \notin {"closed", "opening"}
                           /\ TreeOf(base[h])[p] # NoData

AtomicInv ==
  /\ TypeOK /\ PhaseInv /\ ViewInv /\ BuiltInv /\ SoloInv /\ OpenedInv
  /\ ReplayInv /\ IndexInv

LEMMA ReplayStep ==
  ASSUME Alone, TypeOK, PhaseInv, SoloInv, ReplayInv, [Next]_vars
  PROVE  ReplayInv'
<1> USE DEF Writing
<1>a. ASSUME NEW h \in Handles,
             /\ pc'[h] \in {"walRead", "replayed", "skipped"} => wal' = rwal'[h] /\ wal' # NoWal
             /\ pc'[h] = "replayed" =>
                  /\ base'[h] = manifest' /\ wal'.tag = manifest'
                  /\ view'[h] = ReplayView(manifest, wal)' /\ hist'[h] = wal'.hist
             /\ pc'[h] = "skipped" => wal'.tag # manifest'
      PROVE  ReplayInv'
  BY <1>a DEF ReplayInv, Alone
<1>1. ASSUME NEW h \in Handles, pc'[h] \notin {"walRead", "replayed", "skipped"} PROVE ReplayInv'
  BY <1>a, <1>1
<1>2. ASSUME NEW h \in Handles, ReadWal(h) PROVE ReplayInv'
  <2>1. /\ wal' = wal /\ rwal'[h] = wal
        /\ pc'[h] = IF wal = NoWal THEN "idle" ELSE "walRead"
    BY <1>2 DEF ReadWal, TypeOK, disk
  <2> QED
    BY <1>a, <2>1
<1>3. ASSUME NEW h \in Handles, ReplayWal(h) PROVE ReplayInv'
  <2>1. pc[h] = "walRead" /\ rwal[h].tag = manifest
    BY <1>3 DEF ReplayWal
  <2>2. wal = rwal[h] /\ wal # NoWal /\ base[h] = manifest
    BY <2>1 DEF ReplayInv, SoloInv, Opening
  <2>3. /\ wal' = wal /\ rwal' = rwal /\ manifest' = manifest /\ base' = base
        /\ pc'[h] = "replayed" /\ hist'[h] = rwal[h].hist
        /\ view'[h] = ReplayView(base[h], rwal[h])
    BY <1>3 DEF ReplayWal, TypeOK, disk
  <2>4. ReplayView(manifest, wal)' = ReplayView(manifest, wal)
    BY <2>3
  <2> QED
    BY <1>a, <2>1, <2>2, <2>3, <2>4
<1>4. ASSUME NEW h \in Handles, SkipWal(h) PROVE ReplayInv'
  <2>1. pc[h] = "walRead" /\ rwal[h].tag # manifest
    BY <1>4 DEF SkipWal
  <2>2. wal = rwal[h] /\ wal # NoWal
    BY <2>1 DEF ReplayInv
  <2>3. wal' = wal /\ rwal' = rwal /\ manifest' = manifest /\ pc'[h] = "skipped"
    BY <1>4 DEF SkipWal, TypeOK, disk
  <2> QED
    BY <1>a, <2>1, <2>2, <2>3
<1>5. ASSUME NEW h \in Handles,
             Open(h) \/ OpenParts(h) \/ UnlinkWal(h) \/ CreateNew(h) \/ Crash(h)
      PROVE  ReplayInv'
  <2>1. pc'[h] \in {"opening", "loaded", "idle", "closed"}
    BY <1>5 DEF Open, OpenParts, UnlinkWal, CreateNew, Crash, Reset, TypeOK
  <2> QED
    BY <1>1, <2>1
<1>6. ASSUME NEW h \in Handles, ArtifactNext(h) PROVE ReplayInv'
  <2>1. pc'[h] \in Writing \cup {"built", "swapped", "idle"}
    BY <1>6 DEF ArtifactNext, BuildCommit, StageArtifact, RenameSidecar, RenameSlabs,
                RenameManifest, FinishCommit, WriteError, TypeOK
  <2> QED
    BY <1>1, <2>1
<1>7. ASSUME NEW h \in Handles, WriterNext(h) PROVE ReplayInv'
  <2>1. pc'[h] \in {"idle", "walWritten"}
    BY <1>7 DEF WriterNext, AddFile, UpdateFile, DeleteFile, Stage, WriteWal, TypeOK
  <2> QED
    BY <1>1, <2>1
<1>8. ASSUME UNCHANGED vars PROVE ReplayInv'
  BY <1>8 DEF vars, disk, pending, ReplayInv, ReplayView
<1> QED
  BY <1>2, <1>3, <1>4, <1>5, <1>6, <1>7, <1>8, ConstantsAssumption
     DEF Next, OpenNext, Alone

LEMMA IndexStep ==
  ASSUME Alone, TypeOK, PhaseInv, IndexInv, [Next]_vars
  PROVE  IndexInv'
<1> USE DEF Writing
<1>a. ASSUME NEW h \in Handles, 
             \A p \in Paths : imap'[h][p] = "base" =>
               pc'[h] \notin {"closed", "opening"} /\ TreeOf(base[h])'[p] # NoData
      PROVE  IndexInv'
  BY <1>a DEF IndexInv, Alone
<1>1. ASSUME NEW h \in Handles, Open(h) PROVE IndexInv'
  <2>1. pc[h] = "closed" /\ imap' = imap
    BY <1>1 DEF Open, pending
  <2>2. \A p \in Paths : imap[h][p] # "base"
    BY <2>1 DEF IndexInv
  <2> QED
    BY <1>a, <2>1, <2>2
<1>2. ASSUME NEW h \in Handles, OpenParts(h) PROVE IndexInv'
  <2>1. imap'[h] = PathIndex(base[h]) /\ base' = base /\ pc'[h] = "loaded"
    BY <1>2 DEF OpenParts, TypeOK
  <2>2. \A p \in Paths : imap'[h][p] = "base" => TreeOf(base[h])[p] # NoData
    BY <2>1 DEF PathIndex
  <2> QED
    BY <1>a, <2>1, <2>2
<1>3. ASSUME NEW h \in Handles, ReplayWal(h) PROVE IndexInv'
  <2>1. imap'[h] = ReplayMap(base[h], rwal[h]) /\ base' = base /\ pc'[h] = "replayed"
    BY <1>3 DEF ReplayWal, TypeOK
  <2>2. \A p \in Paths : imap'[h][p] = "base" => TreeOf(base[h])[p] # NoData
    BY <2>1 DEF ReplayMap, PathIndex
  <2> QED
    BY <1>a, <2>1, <2>2
<1>4. ASSUME NEW h \in Handles, Crash(h) PROVE IndexInv'
  <2>1. imap'[h] = PathIndex(NoManifest)
    BY <1>4 DEF Crash, Reset, TypeOK
  <2>2. \A p \in Paths : imap'[h][p] = "none"
    BY <2>1 DEF PathIndex, TreeOf, EmptyTree
  <2> QED
    BY <1>a, <2>2
<1>5. ASSUME NEW h \in Handles, base' = base, imap' = imap,
             pc[h] \notin {"closed", "opening"} => pc'[h] \notin {"closed", "opening"}
      PROVE  IndexInv'
  <2>1. \A p \in Paths : imap[h][p] = "base" =>
           pc[h] \notin {"closed", "opening"} /\ TreeOf(base[h])[p] # NoData
    BY DEF IndexInv
  <2>2. TreeOf(base[h])' = TreeOf(base[h])
    BY <1>5
  <2> QED
    BY <1>5, <1>a, <2>1, <2>2
<1>6. ASSUME NEW h \in Handles, ReadWal(h) \/ SkipWal(h) \/ UnlinkWal(h) \/ CreateNew(h) \/ WriteWal(h)
      PROVE  IndexInv'
  <2>1. base' = base /\ imap' = imap /\ pc'[h] \notin {"closed", "opening"}
    BY <1>6 DEF ReadWal, SkipWal, UnlinkWal, CreateNew, WriteWal, TypeOK, pending
  <2> QED
    BY <1>5, <2>1
<1>7. ASSUME NEW h \in Handles, ArtifactNext(h) PROVE IndexInv'
  <2>1. base' = base /\ imap' = imap /\ pc'[h] \notin {"closed", "opening"}
    BY <1>7 DEF ArtifactNext, BuildCommit, StageArtifact, RenameSidecar, RenameSlabs,
                RenameManifest, FinishCommit, WriteError, TypeOK, pending
  <2> QED
    BY <1>5, <2>1
<1>8. ASSUME NEW h \in Handles, NEW op, NEW q \in Paths, NEW d, NEW i \in {"none", "fresh"},
             Stage(h, op, q, d, i)
      PROVE  IndexInv'
  <2>1. /\ base' = base /\ pc' = pc /\ imap[h] \in [Paths -> {"none", "base", "fresh"}]
        /\ imap'[h] = [imap[h] EXCEPT ![q] = i]
    BY <1>8 DEF Stage, TypeOK
  <2>2. \A p \in Paths : imap'[h][p] = "base" => imap[h][p] = "base"
    BY <2>1
  <2>3. \A p \in Paths : imap[h][p] = "base" =>
           pc[h] \notin {"closed", "opening"} /\ TreeOf(base[h])[p] # NoData
    BY DEF IndexInv
  <2>4. TreeOf(base[h])' = TreeOf(base[h])
    BY <2>1
  <2> QED
    BY <1>a, <2>1, <2>2, <2>3, <2>4
<1>9. ASSUME NEW h \in Handles, WriterNext(h) PROVE IndexInv'
  BY <1>9, <1>6, <1>8 DEF WriterNext, AddFile, UpdateFile, DeleteFile
<1>10. ASSUME UNCHANGED vars PROVE IndexInv'
  BY <1>10 DEF vars, pending, IndexInv
<1> QED
  BY <1>1, <1>2, <1>3, <1>4, <1>6, <1>7, <1>9, <1>10, ConstantsAssumption
     DEF Next, OpenNext, Alone

LEMMA AtomicInvInit == Init => AtomicInv
<1> SUFFICES ASSUME Init PROVE AtomicInv
  OBVIOUS
<1>1. OpenedInv /\ ReplayInv
  BY DEF Init, OpenedInv, ReplayInv
<1>2. IndexInv
  BY DEF Init, IndexInv, PathIndex, TreeOf, EmptyTree
<1> QED
  BY <1>1, <1>2, TypeInit, ViewInit, BuiltInit, SoloInit DEF AtomicInv

LEMMA AtomicInvStep ==
  ASSUME Alone, Creators = {}
  PROVE  AtomicInv /\ [Next]_vars => AtomicInv'
BY TypeStep, ViewStep, BuiltStep, SoloStep, OpenedStep, ReplayStep, IndexStep DEF AtomicInv

\* An edit with the tree t and the history hs.
Recorded(t, hs) == [tree |-> t, deleted |-> Deleted(hs), again |-> Again(hs)]

\* The mapped variables in terms of the users' views.
Mapped ==
  /\ manifest # NoManifest =>
       SavedEdit = IF wal = NoWal \/ wal.tag # manifest THEN Unedited(TreeOf(manifest))
                   ELSE Recorded(ReplayView(manifest, wal), wal.hist)
  /\ \A h \in Handles :
       /\ SomeInUse <=> InUse(h)
       /\ ShownEdit = IF InUse(h) THEN Recorded(view[h], hist[h]) ELSE Unedited(EmptyTree)

LEMMA EditIsView ==
  ASSUME TypeOK, ViewInv, OpenedInv, NEW h \in Handles, InUse(h)
  PROVE  EditOf(h) = Recorded(view[h], hist[h])
<1>1. pc[h] \notin {"closed", "opening"} /\ base[h] # NoManifest
  BY DEF InUse, OpenedInv, Writing
<1>2. view[h] = [p \in Paths |-> view[h][p]]
  BY DEF TypeOK, Tree
<1>3. ASSUME NEW p \in Paths, p \notin Again(hist[h]) PROVE ReadFile(h, p) = view[h][p]
  <2>1. Coherent(files[h], hist[h], imap[h], view[h], base[h], p)
    BY <1>1 DEF ViewInv
  <2>2. imap[h][p] \in {"none", "base", "fresh"}
    BY DEF TypeOK
  <2>3. ~ (p \in Deleted(hist[h]) /\ ~ EndsDeleted(hist[h], p))
    BY <1>3 DEF Again
  <2> QED
    BY <1>1, <2>1, <2>2, <2>3 DEF Coherent, ReadFile, TreeOf
<1>4. [p \in Paths |-> IF p \in Again(hist[h]) THEN view[h][p] ELSE ReadFile(h, p)] = view[h]
  BY <1>2, <1>3
<1> QED
  BY <1>4 DEF EditOf, Recorded

LEMMA SavedIsReplay ==
  ASSUME TypeOK, ViewInv, wal # NoWal, wal.tag = manifest, manifest # NoManifest
  PROVE  SavedEdit = Recorded(ReplayView(manifest, wal), wal.hist)
<1>1. wal \in WalRecord /\ manifest \in Manifest
  BY DEF TypeOK
<1>2. ASSUME NEW p \in Paths
      PROVE  (IF p \in Again(wal.hist) THEN wal.view[p] ELSE Recovered(p)) = ReplayView(manifest, wal)[p]
  <2>1. WalCoherent(wal, p)
    BY DEF ViewInv
  <2>2. /\ p \in Deleted(wal.hist) => p \in Touched(wal.hist)
        /\ EndsDeleted(wal.hist, p) => p \in Deleted(wal.hist)
    BY DeletedIsTouched
  <2>3. ReplayView(manifest, wal)[p] = IF p \in Touched(wal.hist) THEN wal.view[p] ELSE manifest.tree[p]
    BY DEF ReplayView, TreeOf
  <2>4. CASE p \in Again(wal.hist)
    BY <2>2, <2>3, <2>4 DEF Again
  <2>5. CASE p \notin Again(wal.hist)
    <3> DEFINE rf == ReplayFiles(wal)[p]
               rm == ReplayMap(manifest, wal)[p]
    <3>1. /\ rf # NoData => Recovered(p) = rf
          /\ rf = NoData /\ rm = "none" => Recovered(p) = NoData
          /\ rf = NoData /\ rm = "base" => Recovered(p) = manifest.tree[p]
      BY DEF Recovered
    <3>2. rf = IF p \in Deleted(wal.hist) THEN NoData ELSE wal.files[p]
      BY DEF ReplayFiles
    <3>3. /\ p \notin Touched(wal.hist) =>
               rm = IF manifest.tree[p] = NoData THEN "none" ELSE "base"
          /\ p \in Touched(wal.hist) =>
               rm = IF EndsDeleted(wal.hist, p) THEN "none" ELSE "fresh"
      BY DEF ReplayMap, PathIndex, TreeOf
    <3>4. p \in Deleted(wal.hist) => EndsDeleted(wal.hist, p)
      BY <2>5 DEF Again
    <3> HIDE DEF rf, rm
    <3> QED
      BY <2>1, <2>2, <2>3, <2>5, <3>1, <3>2, <3>3, <3>4 DEF WalCoherent
  <2> QED
    BY <2>4, <2>5
<1>3. ReplayView(manifest, wal) = [p \in Paths |-> ReplayView(manifest, wal)[p]]
  BY DEF ReplayView
<1>4. [p \in Paths |-> IF p \in Again(wal.hist) THEN wal.view[p] ELSE Recovered(p)] = ReplayView(manifest, wal)
  BY <1>2, <1>3
<1> QED
  BY <1>4 DEF SavedEdit, Recorded

LEMMA MappedHolds ==
  ASSUME Alone
  PROVE  AtomicInv => Mapped
<1> SUFFICES ASSUME AtomicInv PROVE Mapped
  OBVIOUS
<1>1. TypeOK /\ ViewInv /\ OpenedInv
  BY DEF AtomicInv
<1>2. ASSUME manifest # NoManifest
      PROVE  SavedEdit = IF wal = NoWal \/ wal.tag # manifest THEN Unedited(TreeOf(manifest))
                         ELSE Recorded(ReplayView(manifest, wal), wal.hist)
  <2>1. CASE wal = NoWal \/ wal.tag # manifest
    BY <2>1 DEF SavedEdit
  <2>2. CASE wal # NoWal /\ wal.tag = manifest
    BY <1>1, <1>2, <2>2, SavedIsReplay
  <2> QED
    BY <2>1, <2>2
<1>3. ASSUME NEW h \in Handles
      PROVE  /\ SomeInUse <=> InUse(h)
             /\ ShownEdit = IF InUse(h) THEN Recorded(view[h], hist[h]) ELSE Unedited(EmptyTree)
  <2>1. SomeInUse <=> InUse(h)
    BY <1>3 DEF SomeInUse, Alone
  <2>2. CASE InUse(h)
    <3>1. (CHOOSE g \in Handles : InUse(g)) = h
      BY <1>3, <2>2 DEF Alone
    <3>2. ShownEdit = EditOf(h)
      BY <2>1, <2>2, <3>1 DEF ShownEdit
    <3> QED
      BY <1>1, <1>3, <2>1, <2>2, <3>2, EditIsView
  <2>3. CASE ~ InUse(h)
    BY <2>1, <2>3 DEF ShownEdit
  <2> QED
    BY <2>1, <2>2, <2>3
<1> QED
  BY <1>2, <1>3 DEF Mapped

LEMMA MappedHoldsNext ==
  ASSUME Alone
  PROVE  AtomicInv' => Mapped'
<1>1. AtomicInv => Mapped
  BY MappedHolds
<1> QED
  BY <1>1, PTL

\* The image, what the next open shows and what the handle shows, before and
\* after a step of the handle h.
Disk(m, w) ==
  IF w = NoWal \/ w.tag # m THEN Unedited(m.tree) ELSE Recorded(ReplayView(m, w), w.hist)

LEMMA MappedStep ==
  ASSUME Alone, AtomicInv, AtomicInv', NEW h \in Handles, manifest # NoManifest, manifest' # NoManifest
  PROVE  /\ TreeOf(manifest) = manifest.tree /\ TreeOf(manifest)' = manifest'.tree
         /\ manifest \in Manifest /\ manifest' \in Manifest
         /\ SavedEdit = Disk(manifest, wal) /\ SavedEdit' = Disk(manifest', wal')
         /\ SomeInUse <=> InUse(h)
         /\ SomeInUse' <=> InUse(h)'
         /\ ShownEdit = IF InUse(h) THEN Recorded(view[h], hist[h]) ELSE Unedited(EmptyTree)
         /\ ShownEdit' = IF InUse(h)' THEN Recorded(view'[h], hist'[h]) ELSE Unedited(EmptyTree)
<1>1. Mapped /\ Mapped'
  BY MappedHolds, MappedHoldsNext
<1>2. TreeOf(manifest) = manifest.tree /\ TreeOf(manifest)' = manifest'.tree
  BY DEF TreeOf
<1>3. TypeOK /\ TypeOK'
  BY DEF AtomicInv
<1>4. manifest \in Manifest /\ manifest' \in Manifest
  BY <1>3 DEF TypeOK
<1>5. SavedEdit = Disk(manifest, wal) /\ SavedEdit' = Disk(manifest', wal')
  BY <1>1, <1>2 DEF Mapped, Disk, Unedited, Recorded, ReplayView
<1> QED
  BY <1>1, <1>2, <1>4, <1>5 DEF Mapped, Unedited, Recorded, EmptyTree

\* The disk of a handle that has an open image.
LEMMA HasManifest ==
  ASSUME AtomicInv, NEW h \in Handles, pc[h] # "closed"
  PROVE  manifest # NoManifest /\ base[h] # NoManifest
BY DEF AtomicInv, OpenedInv, SoloInv

\* An open that has replayed nothing shows the image.
LEMMA OpenedIsImage ==
  ASSUME AtomicInv, NEW h \in Handles, pc[h] \in {"loaded", "skipped"}
  PROVE  Recorded(view[h], hist[h]) = Unedited(manifest.tree)
<1>1. TypeOK /\ ViewInv /\ SoloInv /\ base[h] = manifest /\ manifest # NoManifest
  <2>1. TypeOK /\ ViewInv /\ SoloInv
    BY DEF AtomicInv
  <2>2. base[h] = manifest
    BY <2>1 DEF SoloInv, Opening
  <2> QED
    BY <2>1, <2>2, HasManifest
<1>2. manifest \in Manifest /\ view[h] \in Tree /\ imap[h] \in [Paths -> {"none", "base", "fresh"}]
  BY <1>1 DEF TypeOK
<1>3. ASSUME NEW p \in Paths PROVE view[h][p] = manifest.tree[p] /\ hist[h] = <<>>
  <2>1. /\ Coherent(files[h], hist[h], imap[h], view[h], base[h], p)
        /\ files[h][p] = NoData /\ hist[h] = <<>>
    BY <1>1 DEF ViewInv
  <2> QED
    BY <1>1, <1>2, <2>1, EmptyHistory DEF Coherent, TreeOf
<1>4. view[h] = manifest.tree
  BY <1>2, <1>3 DEF Manifest, Tree
<1>5. CASE Paths = {}
  <2>1. Deleted(hist[h]) = {} /\ Again(hist[h]) = {}
    BY <1>1, <1>5 DEF TypeOK, HistoryEntry, Deleted, Again
  <2> QED
    BY <1>4, <2>1 DEF Recorded, Unedited
<1>6. CASE Paths # {}
  <2>1. hist[h] = <<>>
    BY <1>3, <1>6
  <2>2. Deleted(<<>>) = {} /\ Again(<<>>) = {}
    BY EmptyHistory DEF Again
  <2> QED
    BY <1>4, <2>1, <2>2 DEF Recorded, Unedited
<1> QED
  BY <1>5, <1>6

\* Staging an operation on the path q edits q.
LEMMA AppendedEdit ==
  ASSUME NEW hs \in Seq(HistoryEntry), NEW e \in HistoryEntry, NEW t
  PROVE  Recorded(t, Append(hs, e)) =
           [tree    |-> t,
            deleted |-> IF e.op = "Delete" THEN Deleted(hs) \cup {e.path} ELSE Deleted(hs),
            again   |-> IF e.op = "Delete" THEN Again(hs) \ {e.path}
                        ELSE Again(hs) \cup (Deleted(hs) \cap {e.path})]
<1> DEFINE new == Append(hs, e)
<1>1. /\ \A p \in Paths : p \in Deleted(hs) => p \in Deleted(new)
      /\ e.op = "Delete" => e.path \in Deleted(new)
      /\ e.op # "Delete" => \A p \in Paths : p \in Deleted(new) => p \in Deleted(hs)
      /\ EndsDeleted(new, e.path) <=> e.op = "Delete"
      /\ \A p \in Paths : p # e.path =>
           /\ p \in Deleted(new) => p \in Deleted(hs)
           /\ EndsDeleted(new, p) <=> EndsDeleted(hs, p)
  BY AppendHistory
<1>2. Deleted(hs) \subseteq Paths /\ Deleted(new) \subseteq Paths /\ e.path \in Paths
  <2>1. new \in Seq(HistoryEntry)
    OBVIOUS
  <2>2. ASSUME NEW s \in Seq(HistoryEntry) PROVE Deleted(s) \subseteq Paths
    <3>1. \A i \in DOMAIN s : s[i] \in HistoryEntry
      OBVIOUS
    <3> QED
      BY <3>1 DEF Deleted, HistoryEntry
  <2>3. e.path \in Paths
    BY DEF HistoryEntry
  <2> QED
    BY <2>1, <2>2, <2>3
<1>3. EndsDeleted(hs, e.path) => e.path \in Deleted(hs)
  BY DeletedIsTouched
<1> HIDE DEF new
<1>4. Deleted(new) = IF e.op = "Delete" THEN Deleted(hs) \cup {e.path} ELSE Deleted(hs)
  BY <1>1, <1>2
<1>5. Again(new) = IF e.op = "Delete" THEN Again(hs) \ {e.path}
                   ELSE Again(hs) \cup (Deleted(hs) \cap {e.path})
  BY <1>1, <1>2, <1>4 DEF Again
<1> QED
  BY <1>4, <1>5 DEF Recorded, new

\* The log of a handle records its edit.
LEMMA WrittenIsEdit ==
  ASSUME AtomicInv, NEW h \in Handles, InUse(h), NEW w,
         w = [tag |-> tag[h], files |-> files[h], hist |-> hist[h], view |-> view[h]]
  PROVE  /\ w # NoWal
         /\ Recorded(ReplayView(manifest, w), w.hist) = Recorded(view[h], hist[h])
<1>1. TypeOK /\ ViewInv /\ SoloInv /\ manifest # NoManifest /\ base[h] # NoManifest
  BY HasManifest DEF AtomicInv, InUse, Writing
<1>2. /\ tag[h] \in Manifest \cup {NoManifest} /\ files[h] \in Tree
      /\ hist[h] \in Seq(HistoryEntry) /\ view[h] \in Tree /\ imap[h] \in [Paths -> {"none", "base", "fresh"}]
  BY <1>1 DEF TypeOK
<1>3. w \in WalRecord
  BY <1>2 DEF WalRecord
<1>4. w.view = view[h] /\ w.hist = hist[h]
  OBVIOUS
<1>5. ASSUME NEW p \in Paths PROVE ReplayView(manifest, w)[p] = view[h][p]
  <2>1. CASE p \in Touched(hist[h])
    BY <1>4, <2>1 DEF ReplayView
  <2>2. CASE p \notin Touched(hist[h])
    <3>1. Coherent(files[h], hist[h], imap[h], view[h], base[h], p)
      BY <1>1 DEF ViewInv, InUse, Writing
    <3>2. p \notin Deleted(hist[h]) /\ ~ EndsDeleted(hist[h], p)
      BY <2>2, DeletedIsTouched
    <3>3. view[h][p] = TreeOf(base[h])[p]
      BY <1>2, <2>2, <3>1, <3>2 DEF Coherent
    <3>4. manifest.tree[p] = base[h].tree[p]
      BY <1>1, <2>2 DEF SoloInv
    <3> QED
      BY <1>1, <1>4, <2>2, <3>3, <3>4 DEF ReplayView, TreeOf
  <2> QED
    BY <2>1, <2>2
<1>6. ReplayView(manifest, w) = view[h]
  <2>1. ReplayView(manifest, w) = [p \in Paths |-> ReplayView(manifest, w)[p]]
    BY DEF ReplayView
  <2> QED
    BY <1>2, <1>5, <2>1 DEF Tree
<1> QED
  BY <1>3, <1>4, <1>6, ConstantsAssumption

\* Steps that change neither the disk, as an open would find it, nor what the
\* handle shows.
LEMMA Stutters ==
  ASSUME Alone, AtomicInv, AtomicInv', NEW h \in Handles, manifest # NoManifest,
         manifest' = manifest, Disk(manifest, wal') = Disk(manifest, wal), InUse(h)' <=> InUse(h),
         InUse(h) => view'[h] = view[h] /\ hist'[h] = hist[h]
  PROVE  UNCHANGED Atomic!vars
<1>1. TreeOf(manifest)' = TreeOf(manifest) /\ SavedEdit' = SavedEdit
  BY MappedStep
<1>2. SomeInUse' = SomeInUse
  <2>1. SomeInUse' <=> SomeInUse
    BY MappedStep
  <2> QED
    BY <2>1 DEF SomeInUse
<1>3. ShownEdit' = ShownEdit
  BY MappedStep
<1> QED
  BY <1>1, <1>2, <1>3 DEF Atomic!vars

\* An open that returns.
LEMMA Opens ==
  ASSUME Alone, AtomicInv, AtomicInv', NEW h \in Handles, manifest # NoManifest,
         manifest' = manifest, wal' = NoWal, ~ InUse(h), InUse(h)',
         view' = view, hist' = hist, Disk(manifest, wal) = Recorded(view[h], hist[h])
  PROVE  Atomic!Open
<1>1. TreeOf(manifest)' = TreeOf(manifest) /\ SavedEdit = Disk(manifest, wal)
  BY MappedStep
<1>2. SavedEdit' = Unedited(TreeOf(manifest))
  BY MappedStep DEF Disk
<1>3. ~ SomeInUse /\ SomeInUse'
  BY MappedStep
<1>4. SomeInUse' = TRUE
  BY <1>3 DEF SomeInUse
<1>5. ShownEdit' = SavedEdit
  BY <1>1, MappedStep
<1> QED
  BY <1>1, <1>2, <1>3, <1>4, <1>5 DEF Atomic!Open, Atomic!Unedited, Unedited

\* add_file, update_file and delete_file.
LEMMA Edits ==
  ASSUME Alone, AtomicInv, AtomicInv', NEW h \in Handles, NEW op \in {"Add", "Update", "Delete"},
         NEW q \in Paths, NEW d \in Data \cup {NoData}, NEW i, Stage(h, op, q, d, i),
         op = "Delete" <=> d = NoData,
         op = "Delete" => imap[h][q] # "none"
  PROVE  IF op = "Delete" THEN Atomic!Delete(q) ELSE Atomic!Put(q, d)
<1> DEFINE e == [op |-> op, path |-> q]
<1>1. /\ pc[h] = "idle" /\ pc' = pc /\ manifest' = manifest /\ wal' = wal
      /\ hist'[h] = Append(hist[h], e)
      /\ view'[h] = [view[h] EXCEPT ![q] = d]
  BY DEF Stage, AtomicInv, TypeOK, disk
<1>2. InUse(h) /\ InUse(h)' /\ manifest # NoManifest /\ base[h] # NoManifest
  BY <1>1, HasManifest DEF InUse
<1>3. TreeOf(manifest)' = TreeOf(manifest) /\ SavedEdit' = SavedEdit
  BY <1>1, <1>2, MappedStep
<1>4. SomeInUse /\ SomeInUse' = SomeInUse
  BY <1>1, <1>2, MappedStep DEF SomeInUse
<1>5. ShownEdit = Recorded(view[h], hist[h]) /\ ShownEdit' = Recorded(view'[h], hist'[h])
  BY <1>1, <1>2, MappedStep
<1>6. ShownEdit.tree = view[h] /\ ShownEdit.deleted = Deleted(hist[h]) /\ ShownEdit.again = Again(hist[h])
  BY <1>5 DEF Recorded
<1>7. hist[h] \in Seq(HistoryEntry) /\ e \in HistoryEntry /\ e.op = op /\ e.path = q
  BY DEF AtomicInv, TypeOK, HistoryEntry
<1> HIDE DEF e
<1>8. ShownEdit' =
        [tree    |-> [ShownEdit.tree EXCEPT ![q] = d],
         deleted |-> IF op = "Delete" THEN ShownEdit.deleted \cup {q} ELSE ShownEdit.deleted,
         again   |-> IF op = "Delete" THEN ShownEdit.again \ {q}
                     ELSE ShownEdit.again \cup (ShownEdit.deleted \cap {q})]
  <2>1. PICK v : v = view'[h]
    OBVIOUS
  <2>2. Recorded(v, Append(hist[h], e)) =
          [tree    |-> v,
           deleted |-> IF op = "Delete" THEN Deleted(hist[h]) \cup {q} ELSE Deleted(hist[h]),
           again   |-> IF op = "Delete" THEN Again(hist[h]) \ {q}
                       ELSE Again(hist[h]) \cup (Deleted(hist[h]) \cap {q})]
    BY <1>7, AppendedEdit
  <2>3. v = [ShownEdit.tree EXCEPT ![q] = d] /\ ShownEdit' = Recorded(v, Append(hist[h], e))
    BY <1>1, <1>5, <1>6, <2>1
  <2> QED
    BY <1>6, <2>2, <2>3
<1>9. CASE op = "Delete"
  <2>1. ShownEdit.tree[q] # NoData \/ q \in ShownEdit.again
    <3>1. Coherent(files[h], hist[h], imap[h], view[h], base[h], q)
      BY <1>1 DEF AtomicInv, ViewInv
    <3>2. imap[h][q] \in {"base", "fresh"}
      BY <1>9 DEF AtomicInv, TypeOK
    <3>3. imap[h][q] = "base" => TreeOf(base[h])[q] # NoData
      BY DEF AtomicInv, IndexInv
    <3> QED
      BY <1>6, <3>1, <3>2, <3>3 DEF Coherent, Again
  <2> QED
    BY <1>3, <1>4, <1>8, <1>9, <2>1 DEF Atomic!Delete
<1>10. CASE op # "Delete"
  BY <1>3, <1>4, <1>8, <1>10 DEF Atomic!Put
<1> QED
  BY <1>9, <1>10

\* write_wal saves the edit.
LEMMA Saves ==
  ASSUME Alone, AtomicInv, AtomicInv', NEW h \in Handles, WriteWal(h)
  PROVE  Atomic!Save
<1>1. /\ pc[h] = "idle" /\ pc'[h] = "walWritten" /\ manifest' = manifest /\ view' = view /\ hist' = hist
      /\ wal' = [tag |-> tag[h], files |-> files[h], hist |-> hist[h], view |-> view[h]]
  BY DEF WriteWal, AtomicInv, TypeOK, pending
<1>2. InUse(h) /\ InUse(h)' /\ manifest # NoManifest /\ base[h] # NoManifest
  BY <1>1, HasManifest DEF InUse
<1>3. wal' # NoWal /\ Recorded(ReplayView(manifest, wal'), wal'.hist) = Recorded(view[h], hist[h])
  BY <1>1, <1>2, WrittenIsEdit
<1>4. wal'.tag = manifest
  <2>1. tag[h] = manifest
    BY <1>1, <1>2 DEF AtomicInv, SoloInv
  <2> QED
    BY <1>1, <2>1
<1>5. Disk(manifest, wal') = Recorded(view[h], hist[h])
  BY <1>3, <1>4 DEF Disk
<1>6. SavedEdit' = ShownEdit /\ ShownEdit' = ShownEdit /\ TreeOf(manifest)' = TreeOf(manifest)
  BY <1>1, <1>2, <1>5, MappedStep
<1>7. SomeInUse /\ SomeInUse' = SomeInUse
  BY <1>1, <1>2, MappedStep DEF SomeInUse
<1> QED
  BY <1>6, <1>7 DEF Atomic!Save

\* The image that a commit installs is its edit.
LEMMA Installs ==
  ASSUME Alone, AtomicInv, AtomicInv', NEW h \in Handles, pc[h] \in {"slabsIn", "swapped"},
         InUse(h)', manifest' = art[h], view' = view, hist' = hist,
         wal # NoWal, wal.tag = manifest, wal' = NoWal \/ wal'.tag # manifest'
  PROVE  Atomic!Install
<1>1. TypeOK /\ ViewInv /\ BuiltInv /\ SoloInv /\ PhaseInv
  BY DEF AtomicInv
<1>2. InUse(h) /\ manifest # NoManifest /\ base[h] # NoManifest
  BY HasManifest DEF InUse, Writing
<1>3. /\ wal = [tag |-> tag[h], files |-> files[h], hist |-> hist[h], view |-> view[h]]
      /\ job[h] = "commit"
  BY <1>1, <1>2 DEF SoloInv, MidCommit, Writing
<1>4. art[h] \in Manifest /\ manifest' # NoManifest
  BY <1>1, ConstantsAssumption DEF PhaseInv, Writing
<1>5. Disk(manifest, wal) = Recorded(view[h], hist[h])
  BY <1>2, <1>3, WrittenIsEdit DEF Disk
<1>6. SavedEdit = ShownEdit /\ ShownEdit' = ShownEdit /\ ShownEdit = Recorded(view[h], hist[h])
  BY <1>2, <1>4, <1>5, MappedStep
<1>7. /\ TreeOf(manifest)' = art[h].tree
      /\ SavedEdit' = Unedited(TreeOf(manifest)')
  BY <1>2, <1>4, MappedStep DEF Disk
<1>8. SomeInUse /\ SomeInUse' = SomeInUse
  BY <1>2, <1>4, MappedStep DEF SomeInUse
<1>9. ASSUME NEW p \in Paths
      PROVE  \/ art[h].tree[p] = ShownEdit.tree[p]
             \/ art[h].tree[p] = NoData /\ p \in ShownEdit.again
  <2>1. \/ art[h].tree[p] = view[h][p]
        \/ art[h].tree[p] = NoData /\ Readded(h, p)
    BY <1>1, <1>3, BuiltFromView DEF BuiltTreeIsView, Writing
  <2> QED
    BY <1>6, <2>1 DEF Recorded, Readded, Again
<1>10. art[h].tree \in [Paths -> Data \cup {NoData}]
  BY <1>4 DEF Manifest, Tree
<1> QED
  BY <1>6, <1>7, <1>8, <1>9, <1>10 DEF Atomic!Install, Atomic!Tree, Atomic!Unedited, Unedited

LEMMA AtomicStep ==
  ASSUME Alone, Creators = {}, AtomicInv, AtomicInv', [Next]_vars
  PROVE  [Atomic!Next]_(Atomic!vars)
<1> USE DEF Writing
<1>t. TypeOK
  BY DEF AtomicInv
<1>1. ASSUME NEW h \in Handles, Open(h) \/ OpenParts(h) \/ ReplayWal(h) \/ SkipWal(h)
      PROVE  UNCHANGED Atomic!vars
  <2>1. /\ manifest' = manifest /\ wal' = wal /\ manifest # NoManifest
        /\ pc[h] \in {"closed", "opening", "loaded", "walRead", "skipped"}
        /\ pc'[h] \in {"opening", "loaded", "walRead", "replayed", "skipped"}
    BY <1>1, <1>t, HasManifest DEF Open, OpenParts, ReplayWal, SkipWal, TypeOK, disk
  <2>2. ~ InUse(h) /\ ~ InUse(h)'
    BY <2>1 DEF InUse
  <2> QED
    BY <2>1, <2>2, Stutters
<1>2. ASSUME NEW h \in Handles, ReadWal(h) PROVE [Atomic!Next]_(Atomic!vars)
  <2>1. /\ manifest' = manifest /\ wal' = wal /\ view' = view /\ hist' = hist /\ pc[h] = "loaded"
        /\ pc'[h] = IF wal = NoWal THEN "idle" ELSE "walRead"
    BY <1>2, <1>t DEF ReadWal, TypeOK, disk, pending
  <2>2. manifest # NoManifest /\ ~ InUse(h)
    BY <2>1, HasManifest DEF InUse
  <2>3. CASE wal = NoWal
    <3>1. InUse(h)' /\ wal' = NoWal
      BY <2>1, <2>3 DEF InUse
    <3>2. Disk(manifest, wal) = Recorded(view[h], hist[h])
      BY <2>1, <2>3, OpenedIsImage DEF Disk
    <3>3. Atomic!Open
      BY <2>1, <2>2, <3>1, <3>2, Opens
    <3> QED
      BY <3>3 DEF Atomic!Next
  <2>4. CASE wal # NoWal
    <3>1. ~ InUse(h)'
      BY <2>1, <2>4 DEF InUse
    <3>2. UNCHANGED Atomic!vars
      BY <2>1, <2>2, <3>1, Stutters
    <3> QED
      BY <3>2
  <2> QED
    BY <2>3, <2>4
<1>3. ASSUME NEW h \in Handles, UnlinkWal(h) PROVE Atomic!Open
  <2>1. /\ manifest' = manifest /\ wal' = NoWal /\ view' = view /\ hist' = hist
        /\ pc[h] \in {"replayed", "skipped"} /\ pc'[h] = "idle"
    BY <1>3, <1>t DEF UnlinkWal, TypeOK, pending
  <2>2. manifest # NoManifest /\ ~ InUse(h) /\ InUse(h)'
    BY <2>1, HasManifest DEF InUse
  <2>3. Disk(manifest, wal) = Recorded(view[h], hist[h])
    <3>1. CASE pc[h] = "replayed"
      BY <3>1 DEF AtomicInv, ReplayInv, Disk
    <3>2. CASE pc[h] = "skipped"
      <4>1. wal.tag # manifest
        BY <3>2 DEF AtomicInv, ReplayInv
      <4> QED
        BY <3>2, <4>1, OpenedIsImage DEF Disk
    <3> QED
      BY <2>1, <3>1, <3>2
  <2> QED
    BY <2>1, <2>2, <2>3, Opens
<1>4. ASSUME NEW h \in Handles, WriterNext(h) PROVE Atomic!Next
  <2>1. CASE WriteWal(h)
    BY <2>1, Saves DEF Atomic!Next
  <2>2. ASSUME NEW p \in Paths, NEW d \in Data, AddFile(h, p, d) \/ UpdateFile(h, p, d)
        PROVE  Atomic!Next
    <3>1. PICK op \in {"Add", "Update"} : Stage(h, op, p, d, "fresh")
      BY <2>2 DEF AddFile, UpdateFile
    <3>2. Atomic!Put(p, d)
      BY <3>1, Edits, ConstantsAssumption
    <3> QED
      BY <3>2 DEF Atomic!Next
  <2>3. ASSUME NEW p \in Paths, DeleteFile(h, p) PROVE Atomic!Next
    <3>1. Stage(h, "Delete", p, NoData, "none") /\ imap[h][p] # "none"
      BY <2>3 DEF DeleteFile
    <3>2. Atomic!Delete(p)
      BY <3>1, Edits
    <3> QED
      BY <3>2 DEF Atomic!Next
  <2> QED
    BY <1>4, <2>1, <2>2, <2>3 DEF WriterNext
<1>5. ASSUME NEW h \in Handles,
             \/ BuildCommit(h) \/ StageArtifact(h) \/ RenameSidecar(h)
             \/ RenameSlabs(h) \/ WriteError(h)
      PROVE  UNCHANGED Atomic!vars
  <2>1. /\ manifest' = manifest /\ wal' = wal /\ view' = view /\ hist' = hist
        /\ pc[h] \in Writing \cup {"walWritten", "built"} /\ pc'[h] \in Writing \cup {"built", "idle"}
    BY <1>5, <1>t DEF BuildCommit, StageArtifact, RenameSidecar, RenameSlabs, WriteError,
                      TypeOK, disk, pending
  <2>2. manifest # NoManifest /\ InUse(h) /\ InUse(h)'
    BY <2>1, HasManifest DEF InUse
  <2> QED
    BY <2>1, <2>2, Stutters
<1>6. ASSUME NEW h \in Handles, RenameManifest(h) PROVE [Atomic!Next]_(Atomic!vars)
  <2>1. pc[h] = "slabsIn" /\ job[h] = "commit"
    BY <1>6 DEF RenameManifest, AtomicInv, SoloInv
  <2>2. /\ manifest' = art[h] /\ wal' = wal /\ view' = view /\ hist' = hist /\ pc'[h] = "swapped"
    BY <1>6, <1>t, <2>1 DEF RenameManifest, TypeOK, pending
  <2>3. manifest # NoManifest /\ base[h] # NoManifest /\ InUse(h) /\ InUse(h)'
    BY <2>1, <2>2, HasManifest DEF InUse
  <2>4. wal = [tag |-> tag[h], files |-> files[h], hist |-> hist[h], view |-> view[h]] /\ tag[h] = manifest
    BY <2>1, <2>3 DEF AtomicInv, SoloInv, MidCommit
  <2>5. wal # NoWal /\ wal.tag = manifest
    BY <2>3, <2>4, WrittenIsEdit
  <2>6. CASE art[h] = manifest
    BY <2>2, <2>3, <2>6, Stutters
  <2>7. CASE art[h] # manifest
    <3>1. Atomic!Install
      BY <2>1, <2>2, <2>3, <2>5, <2>7, Installs
    <3> QED
      BY <3>1 DEF Atomic!Next
  <2> QED
    BY <2>6, <2>7
<1>7. ASSUME NEW h \in Handles, FinishCommit(h) PROVE [Atomic!Next]_(Atomic!vars)
  <2>1. /\ pc[h] = "swapped" /\ manifest' = manifest /\ wal' = NoWal /\ view' = view /\ hist' = hist
        /\ pc'[h] = "idle"
    BY <1>7, <1>t DEF FinishCommit, TypeOK, pending
  <2>2. manifest # NoManifest /\ base[h] # NoManifest /\ InUse(h) /\ InUse(h)' /\ manifest = art[h]
    BY <2>1, HasManifest DEF InUse, AtomicInv, SoloInv
  <2>3. wal = [tag |-> tag[h], files |-> files[h], hist |-> hist[h], view |-> view[h]]
    BY <2>1, <2>2 DEF AtomicInv, SoloInv, MidCommit
  <2>4. wal # NoWal
    BY <2>2, <2>3, WrittenIsEdit
  <2>5. CASE wal.tag = manifest
    <3>1. Atomic!Install
      BY <2>1, <2>2, <2>4, <2>5, Installs
    <3> QED
      BY <3>1 DEF Atomic!Next
  <2>6. CASE wal.tag # manifest
    <3>1. Disk(manifest, wal') = Disk(manifest, wal)
      BY <2>1, <2>6 DEF Disk
    <3> QED
      BY <2>1, <2>2, <3>1, Stutters
  <2> QED
    BY <2>5, <2>6
<1>8. ASSUME NEW h \in Handles, Crash(h) PROVE Atomic!Next
  <2>1. manifest' = manifest /\ wal' = wal /\ pc'[h] = "closed" /\ pc[h] # "closed"
    BY <1>8, <1>t DEF Crash, Reset, TypeOK
  <2>2. manifest # NoManifest /\ ~ InUse(h)'
    BY <2>1, HasManifest DEF InUse
  <2>3. /\ TreeOf(manifest)' = TreeOf(manifest) /\ SavedEdit' = SavedEdit
        /\ ~ SomeInUse' /\ ShownEdit' = Unedited(EmptyTree)
    BY <2>1, <2>2, MappedStep
  <2>4. SomeInUse' = FALSE
    BY <2>3 DEF SomeInUse
  <2>5. Atomic!Close
    BY <2>3, <2>4 DEF Atomic!Close, Atomic!Nothing, Atomic!Unedited, Unedited, EmptyTree
  <2> QED
    BY <2>5 DEF Atomic!Next
<1>9. ASSUME UNCHANGED vars PROVE UNCHANGED Atomic!vars
  BY <1>9 DEF vars, disk, pending, Atomic!vars, TreeOf, SavedEdit, SomeInUse, ShownEdit,
              InUse, EditOf, ReadFile, Recovered
<1> QED
  BY <1>1, <1>2, <1>3, <1>4, <1>5, <1>6, <1>7, <1>8, <1>9, ConstantsAssumption
     DEF Next, OpenNext, ArtifactNext, CreateNew, Alone, Atomic!Next

\* A handle that has the image to itself implements the abstract image:
\* whatever crashes, errors and replays happen between the file-system calls
\* of rw.rs, the tree on disk changes only to the whole edit of a commit, the
\* next open shows the tree on disk or the last edit that a commit logged,
\* and read_file answers from the edit.
THEOREM RwImplementsAtomicImage ==
  ASSUME Alone, Creators = {}
  PROVE  Spec => ImplementsAtomicImage
<1>1. Init => Atomic!Init
  <2> SUFFICES ASSUME Init PROVE Atomic!Init
    OBVIOUS
  <2>1. manifest \in Manifest /\ wal = NoWal /\ \A h \in Handles : pc[h] = "closed"
    BY DEF Init
  <2>2. TreeOf(manifest) \in [Paths -> Data \cup {NoData}]
    BY <2>1, TreeOfType DEF Tree
  <2>3. ~ SomeInUse
    BY <2>1 DEF SomeInUse, InUse, Writing
  <2>4. SomeInUse = FALSE
    BY <2>3 DEF SomeInUse
  <2>5. SavedEdit = Unedited(TreeOf(manifest)) /\ ShownEdit = Unedited(EmptyTree)
    BY <2>1, <2>3 DEF SavedEdit, ShownEdit
  <2> QED
    BY <2>2, <2>4, <2>5 DEF Atomic!Init, Atomic!Tree, Atomic!Unedited, Atomic!Nothing, Unedited, EmptyTree
<1>2. Init => AtomicInv
  BY AtomicInvInit
<1>3. AtomicInv /\ [Next]_vars => AtomicInv'
  BY AtomicInvStep
<1>4. AtomicInv /\ AtomicInv' /\ [Next]_vars => [Atomic!Next]_(Atomic!vars)
  BY AtomicStep
<1> QED
  BY <1>1, <1>2, <1>3, <1>4, PTL DEF Spec, ImplementsAtomicImage, Atomic!Spec
============================================================================
