----------------------------- MODULE FilesProofs -----------------------------
(***************************************************************************)
(* Proofs about the open files on the card, for every card that is sound   *)
(* in the sense of SoundCard: any number of clusters within one sector of  *)
(* the table, of entries of the directory, of names and of open files,     *)
(* every text, any number of losses of power.                              *)
(*                                                                         *)
(* The invariant FilesInv says where the clusters of every file are, as    *)
(* Chains(ch) for some function ch from entries to sequences of clusters:  *)
(* the table links ch[i] from one cluster to the next, no cluster is in    *)
(* two places, and the call of fat12_write_file in progress is at the      *)
(* block of the chain that its own variables say.  What find_free_cluster  *)
(* returns is the number two above the entry it marks, so that the         *)
(* invariant has to say where the unused entries are (Packed): they are    *)
(* the last ones, but for the one that was given out in place of the one   *)
(* marked.  A loss of power between Link and Seal leaves a chain that ends *)
(* in an unused entry (Cut); the entry may be given out again only when it *)
(* is the next to be marked but not returned.  All of this is so until a   *)
(* block is written where it does not belong (stray); until then the       *)
(* buffer of write_file is the directory as it is (Buffered), and the      *)
(* steps of write_file are those of WritesFile.                            *)
(*                                                                         *)
(* That the files are those of FileStore is proved for cards with room     *)
(* from a second invariant, SafeInv.  After a loss of power blocks can be  *)
(* written to any cluster that the chain of a spoiled file leads to, so it *)
(* follows the chains of the other files only (Kept), keeps a set T of     *)
(* clusters apart from them that holds whatever a spoiled file leads to    *)
(* (Astray), and says how much of the text the blocks of the file being    *)
(* closed hold (Copied).  Naming says which file the call in progress is   *)
(* about.  From there a block leaves the clusters of files, as stray says, *)
(* only when a spoiled file is closed again (StrayMaps).                   *)
(***************************************************************************)
EXTENDS Files, FiniteSetTheorems, SequenceTheorems, WellFoundedInduction, TLAPS

(* The cards the system is started with are sound.                         *)
SoundImages == \A card \in Images : \E chain : SoundCard(card, chain)

(* Types: TypeOK with the records written out, and the bound on a text.    *)
Piece == Data \cup {Junk}

Pcs == {"idle", "create", "end", "enter", "write", "link", "seal", "saved", "unsaved"}
JobRecord ==
  [pc : Pcs, path : Names \cup {Junk}, text : Seq(Piece), entry : 0 .. RootEntries,
   buffer : [Entries -> DirEntry] \cup {<<>>}, cluster : Nat, prev : Nat, found : Returned,
   block : Nat]
CallRecord ==
  [op : {"none", "open", "close"}, path : Names \cup {Junk}, flags : Flags \cup {{}},
   slot : Slots]
Working == job.pc \in {"create", "end", "enter", "write", "link", "seal"}

Types ==
  /\ DiskTypeOK
  /\ job \in JobRecord /\ call \in CallRecord
  /\ vfs_openFiles \in [Slots -> Descriptor \cup {NULL}]
  /\ openCount = Cardinality(Opened)
  /\ call.op = "none" <=> job.pc = "idle"
  /\ cuts \in 0 .. MaxCuts /\ caught \subseteq Paths
  /\ Len(job.text) <= MaxSize
  /\ \A i \in Entries : root[i].fileSize <= MaxSize
  /\ Working => /\ job.buffer \in [Entries -> DirEntry] /\ job.entry \in Entries
                /\ \A i \in Entries : job.buffer[i].fileSize <= MaxSize

(* What vfs_open and vfs_close may count on when the card is done.         *)
Calls ==
  /\ \A s \in Opened : vfs_openFiles[s].file_name \in Paths
  /\ call.op = "open" => /\ call.path \in Paths /\ call.flags \in Flags
                         /\ openCount < MaxOpenedFiles
                         /\ job.pc \in {"create", "end", "enter", "saved", "unsaved"}
  /\ call.op = "close" => call.slot \in Opened
  /\ job.pc \in {"create", "end", "enter"} => job.path \in Paths
  /\ job.pc \in {"end", "enter", "link", "seal"} => job.found >= 2

(* The value that a number of a cluster leaves in an entry of the table,   *)
(* the table with it, and the number after one in a chain.                 *)
EntryOf(v) == v % 4096
WithNext(c, v) == IF c \in Clusters THEN [fat EXCEPT ![c] = v % 4096] ELSE fat
Successor(c) == IF c \in Clusters THEN fat[c] ELSE FAT12_EOF_MAX

----------------------------------------------------------------------------
(* Numbers of clusters and values of entries.                              *)

LEMMA ClusterNumbers ==
  /\ 0 \in Clusters /\ LastCluster \in Nat /\ FirstData .. LastCluster \subseteq Clusters
  /\ Clusters \subseteq Nat /\ Clusters \subseteq Returned /\ NoCluster \in Returned
  /\ Returned \subseteq Nat
  /\ FAT12_EOF_MAX \in ClusterValue \ Clusters /\ FAT12_EOF_MAX # FAT12_UNUSED
  /\ IsEnd(FAT12_EOF_MAX) /\ FAT12_UNUSED = 0 /\ NoCluster \notin Clusters
  /\ FirstData \in Clusters /\ FirstData = 2 /\ NoCluster > 2
BY CardAssumption
   DEF Clusters, Returned, NoCluster, FAT12_EOF_MAX, FAT12_EOF_MIN, FAT12_UNUSED, FirstData,
       ClusterValue, IsEnd

LEMMA ReturnedIs == Returned \subseteq 0 .. NoCluster
<1>1. LastCluster \in 2 .. 4085
  BY CardAssumption DEF FirstData
<1>2. NoCluster \in Nat /\ 4087 <= NoCluster /\ FirstData = 2
  BY DEF NoCluster, FirstData
<1>3. LastCluster + FirstData \in Nat /\ LastCluster + FirstData <= NoCluster
  <2> HIDE DEF NoCluster
  <2> QED
    BY <1>1, <1>2
<1> HIDE DEF NoCluster
<1>4. \A v \in 0 .. LastCluster + FirstData : v \in 0 .. NoCluster
  BY <1>2, <1>3
<1>5. NoCluster \in 0 .. NoCluster
  BY <1>2
<1> QED
  BY <1>4, <1>5 DEF Returned

LEMMA EntryValues ==
  ASSUME NEW v \in Returned
  PROVE  /\ EntryOf(v) \in ClusterValue
         /\ v # 0 => EntryOf(v) # 0
         /\ v \in Clusters => EntryOf(v) = v
         /\ v \notin Clusters => EntryOf(v) \notin Clusters
         /\ v \notin FAT12_EOF_MIN .. FAT12_EOF_MAX
         /\ v \in Nat
<1>1. EntryOf(v) \in ClusterValue
  <2>1. v \in Nat
    BY ClusterNumbers
  <2> QED
    BY <2>1 DEF EntryOf, ClusterValue, FAT12_EOF_MAX
<1> QED
  BY <1>1, CardAssumption
     DEF Clusters, Returned, NoCluster, FAT12_EOF_MAX, FAT12_EOF_MIN, FirstData, EntryOf

LEMMA EndValues ==
  /\ \A v \in ClusterValue : v \in Nat /\ (IsEnd(v) <=> v \in FAT12_EOF_MIN .. FAT12_EOF_MAX)
  /\ \A v \in ClusterValue : IsEnd(v) => v \notin Clusters
  /\ \A v \in Clusters : ~IsEnd(v) /\ v \in ClusterValue
<1>1. \A v \in ClusterValue : v \in 0 .. FAT12_EOF_MAX
  BY DEF ClusterValue
<1>2. \A v \in Clusters : v \in Returned /\ EntryOf(v) = v
  BY EntryValues, ClusterNumbers
<1>3. \A v \in Clusters : v \in ClusterValue
  BY <1>2, EntryValues
<1>4. \A v \in Clusters : v < FAT12_EOF_MIN /\ v \in Nat
  <2>1. LastCluster \in 2 .. 4085
    BY CardAssumption DEF FirstData
  <2>2. LastCluster \in Nat /\ LastCluster < FAT12_EOF_MIN /\ FAT12_EOF_MIN \in Nat
    BY <2>1 DEF FAT12_EOF_MIN
  <2> QED
    BY <2>2 DEF Clusters
<1>5. FAT12_EOF_MIN \in Nat /\ FAT12_EOF_MAX \in Nat
  BY DEF FAT12_EOF_MIN, FAT12_EOF_MAX
<1> QED
  BY <1>1, <1>3, <1>4, <1>5 DEF IsEnd

LEMMA WithNextIs ==
  ASSUME NEW n, NEW v
  PROVE  WithNext(n, v) = IF n \in Clusters THEN [fat EXCEPT ![n] = EntryOf(v)] ELSE fat
BY DEF WithNext, EntryOf

LEMMA EndIsItself == EntryOf(FAT12_EOF_MAX) = FAT12_EOF_MAX
BY DEF EntryOf, FAT12_EOF_MAX

LEMMA LeastIn ==
  ASSUME NEW S, S \subseteq Nat, S # {}
  PROVE  \E x \in S : \A y \in S : ~(y < x)
<1>1. PICK x \in S : \A y \in S : ~(<<y, x>> \in OpToRel(<, Nat))
  BY NatLessThanWellFounded, WFMin
<1> QED
  BY <1>1 DEF OpToRel

LEMMA FirstIsLeast ==
  ASSUME NEW S, S \subseteq Nat, S # {}
  PROVE  First(S) \in S /\ \A n \in S : First(S) <= n
<1>1. PICK x \in S : \A y \in S : ~(y < x)
  BY LeastIn
<1>2. \A y \in S : x <= y
  BY <1>1
<1> QED
  BY <1>2 DEF First

LEMMA FreeClusters ==
  /\ Unused = {} => FreeCluster = NoCluster /\ Marked = fat
  /\ Unused # {} => /\ First(Unused) \in Unused /\ \A n \in Unused : First(Unused) <= n
                    /\ FreeCluster = First(Unused) + 2
                    /\ Marked = [fat EXCEPT ![First(Unused)] = FAT12_EOF_MAX]
  /\ FreeCluster \in Returned /\ FreeCluster >= 2
<1>1. Unused \subseteq Clusters /\ Unused \subseteq Nat
  BY ClusterNumbers DEF Unused
<1>2. CASE Unused = {}
  BY <1>2, ClusterNumbers DEF FreeCluster, Marked
<1>3. CASE Unused # {}
  <2>1. First(Unused) \in Unused /\ \A n \in Unused : First(Unused) <= n
    BY <1>1, <1>3, FirstIsLeast
  <2>2. FreeCluster = First(Unused) + 2 /\ Marked = [fat EXCEPT ![First(Unused)] = FAT12_EOF_MAX]
    BY <1>3, ClusterNumbers DEF FreeCluster, Marked
  <2>3. FreeCluster \in Returned
    <3>1. First(Unused) \in 0 .. LastCluster /\ LastCluster \in Nat
      BY <1>1, <2>1, ClusterNumbers DEF Clusters
    <3> QED
      BY <2>2, <3>1, ClusterNumbers DEF Returned
  <2>4. FreeCluster >= 2
    <3>1. First(Unused) \in Nat
      BY <1>1, <2>1
    <3> QED
      BY <2>2, <3>1
  <2> QED
    BY <1>3, <2>1, <2>2, <2>3, <2>4
<1> QED
  BY <1>2, <1>3

----------------------------------------------------------------------------
(* Texts and descriptors.                                                  *)

LEMMA TextsAre ==
  /\ \A t \in Texts : t \in Seq(Piece) /\ Len(t) \in 0 .. MaxSize /\ DOMAIN t = 1 .. Len(t)
  /\ \A t \in Seq(Piece) : Len(t) <= MaxSize => t \in Texts
  /\ \A n \in 0 .. MaxSize : \A t \in [1 .. n -> Piece] : t \in Texts /\ Len(t) = n
  /\ <<>> \in Texts
<1>1. \A n \in 0 .. MaxSize : \A t \in [1 .. n -> Piece] :
        t \in Seq(Piece) /\ Len(t) = n /\ DOMAIN t = 1 .. n
  <2> SUFFICES ASSUME NEW n \in 0 .. MaxSize, NEW t \in [1 .. n -> Piece]
               PROVE  t \in Seq(Piece) /\ Len(t) = n /\ DOMAIN t = 1 .. n
    OBVIOUS
  <2>1. n \in Nat /\ DOMAIN t = 1 .. n
    OBVIOUS
  <2>2. t \in Seq(Piece)
    BY <2>1, SeqDef
  <2> QED
    BY <2>1, <2>2, LenProperties
<1>2. \A t \in Seq(Piece) : Len(t) <= MaxSize =>
        Len(t) \in 0 .. MaxSize /\ t \in [1 .. Len(t) -> Piece]
  BY LenProperties, FilesAssumption
<1>3. <<>> \in Seq(Piece) /\ Len(<<>>) = 0
  OBVIOUS
<1>4. \A t \in Seq(Piece) : Len(t) <= MaxSize => t \in Texts
  BY <1>2 DEF Texts, Piece
<1> QED
  BY <1>1, <1>3, <1>4, FilesAssumption DEF Texts, Piece

LEMMA DescriptorIs ==
  Descriptor = [file_name : Names, flags : Flags, read_offset : 0 .. MaxSize,
                write_offset : 0 .. MaxSize, text : Texts]
BY DEF Descriptor

LEMMA EntryIs ==
  ASSUME Types, NEW i \in Entries
  PROVE  /\ root[i].name \in Names \cup {EndMark, Deleted}
         /\ root[i].firstClusterLow \in Nat
         /\ root[i].fileSize \in 0 .. MaxSize
         /\ i \in 0 .. RootEntries /\ i # 0
<1>1. root[i] \in DirEntry
  BY DEF Types, DiskTypeOK
<1>2. /\ root[i].name \in Names \cup {EndMark, Deleted}
      /\ root[i].firstClusterLow \in 0 .. NoCluster /\ root[i].fileSize \in Nat
  BY <1>1 DEF DirEntry
<1>3. root[i].fileSize <= MaxSize
  BY DEF Types
<1>4. root[i].firstClusterLow \in Nat
  BY <1>2
<1>5. i \in 0 .. RootEntries /\ i # 0
  BY CardAssumption DEF Entries
<1> QED
  BY <1>2, <1>3, <1>4, <1>5, FilesAssumption

LEMMA FindIs ==
  ASSUME Types, NEW path \in Paths
  PROVE  /\ Find(path) = 0 => \A i \in Entries :
              root[i].name = path => \E j \in Before(i) : root[j].name = EndMark
         /\ Find(path) # 0 => /\ Find(path) \in InUse
                              /\ compareFileNames(root[Find(path)].name, path)
<1> DEFINE hit == {i \in Entries : /\ compareFileNames(root[i].name, path)
                                   /\ \A j \in Before(i) : root[j].name # EndMark}
<1>1. Find(path) = IF hit = {} THEN 0 ELSE First(hit)
  BY DEF Find
<1>2. hit \subseteq Entries /\ Entries \subseteq Nat \ {0}
  BY DEF Entries
<1>3. CASE hit = {}
  BY <1>1, <1>3 DEF compareFileNames
<1>4. CASE hit # {}
  <2> HIDE DEF hit
  <2>1. First(hit) \in hit
    BY <1>2, <1>4, FirstIsLeast
  <2>2. First(hit) \in Entries /\ compareFileNames(root[First(hit)].name, path)
    BY <2>1 DEF hit
  <2>3. root[First(hit)].name \in Names
    BY <2>2, CardAssumption DEF compareFileNames
  <2> QED
    BY <1>1, <1>2, <1>4, <2>2, <2>3 DEF InUse
<1> QED
  BY <1>3, <1>4

LEMMA NewJobIs ==
  ASSUME Types, NEW path \in Paths, NEW text \in Texts, NEW new, new = NewJob(path, text)
  PROVE  /\ new \in JobRecord /\ new.text = text /\ Len(new.text) <= MaxSize
         /\ new.pc \in {"write", "create", "unsaved"} /\ new.block = 0
         /\ new.pc # "unsaved" => new.buffer = root /\ new.entry \in Entries
         /\ new.pc = "write" => /\ new.entry \in InUse /\ new.entry = Find(path)
                                /\ new.cluster = root[new.entry].firstClusterLow
         /\ new.pc = "create" => /\ new.path = path /\ Find(path) = 0 /\ Available # {}
                                 /\ new.entry = First(Available)
         /\ Find(path) = 0 => new.pc # "write"
<1>1. text \in Seq(Piece) /\ Len(text) <= MaxSize /\ path \in Names
  BY TextsAre, CardAssumption
<1>2. 0 \in Returned /\ 0 \in 0 .. RootEntries /\ RootEntries \in Nat
  BY ClusterNumbers, CardAssumption
<1>3. Find(path) # 0 => Find(path) \in InUse
  BY FindIs
<1>4. \A i \in Entries : root[i].firstClusterLow \in Nat /\ i \in 0 .. RootEntries
  BY EntryIs
<1>5. Available # {} => First(Available) \in Available /\ Available \subseteq Entries
  <2>1. Available \subseteq Entries /\ Entries \subseteq Nat
    BY DEF Available, Entries
  <2> QED
    BY <2>1, FirstIsLeast
<1>6. InUse \subseteq Entries /\ root \in [Entries -> DirEntry] \cup {<<>>}
  BY DEF InUse, Types, DiskTypeOK
<1>7. /\ new \in JobRecord /\ new.text = text
      /\ new.pc \in {"write", "create", "unsaved"} /\ new.block = 0
      /\ new.pc # "unsaved" => new.buffer = root /\ new.entry \in Entries
  BY <1>1, <1>2, <1>3, <1>4, <1>5, <1>6 DEF NewJob, NoJob, JobRecord, Pcs
<1>8. /\ new.pc = "write" => /\ new.entry \in InUse /\ new.entry = Find(path)
                             /\ new.cluster = root[new.entry].firstClusterLow
      /\ new.pc = "create" => /\ new.path = path /\ Find(path) = 0 /\ Available # {}
                              /\ new.entry = First(Available)
      /\ Find(path) = 0 => new.pc # "write"
  BY <1>3, <1>5 DEF NewJob, NoJob
<1> QED
  BY <1>1, <1>7, <1>8

LEMMA NoJobIs ==
  NoJob \in JobRecord /\ NoJob.pc = "idle" /\ NoJob.text = <<>> /\ Len(NoJob.text) = 0
BY ClusterNumbers, CardAssumption DEF NoJob, JobRecord, Pcs

LEMMA NoCallIs == NoCall \in CallRecord /\ NoCall.op = "none"
BY FilesAssumption DEF NoCall, CallRecord, Slots

LEMMA FileTextIs ==
  ASSUME Types, NEW i \in Entries
  PROVE  FileText(i) \in Texts /\ Len(FileText(i)) = root[i].fileSize
<1> DEFINE n == root[i].fileSize
           at == Walk(root[i].firstClusterLow)
           At(u) == (u - 1) \div Units
           Unit(u) == ((u - 1) % Units) + 1
           P(u) == IF \A m \in 0 .. At(u) : at[m] \in FileClusters
                     THEN data[at[At(u)]][Unit(u)] ELSE Junk
<1>1. n \in 0 .. MaxSize
  BY FilesAssumption DEF Types, DiskTypeOK, DirEntry
<1>2. FileText(i) = [u \in 1 .. n |-> P(u)]
  BY DEF FileText
<1>3. \A u \in 1 .. n : Unit(u) \in 1 .. Units
  BY <1>1, CardAssumption
<1>4. \A c \in FileClusters : \A u \in 1 .. Units : data[c][u] \in Piece
  BY DEF Types, DiskTypeOK, Block, Piece
<1>5. \A u \in 1 .. n : P(u) \in Piece
  <2> SUFFICES ASSUME NEW u \in 1 .. n, \A m \in 0 .. At(u) : at[m] \in FileClusters
               PROVE  data[at[At(u)]][Unit(u)] \in Piece
    BY DEF Piece
  <2>1. At(u) \in 0 .. At(u)
    <3>1. At(u) \in Nat
      BY <1>1, CardAssumption
    <3> QED
      BY <3>1
  <2> HIDE DEF n, at, At, Unit
  <2> QED
    BY <1>3, <1>4, <2>1
<1>6. FileText(i) \in [1 .. n -> Piece]
  BY <1>2, <1>5
<1> HIDE DEF n
<1>7. FileText(i) \in Texts /\ Len(FileText(i)) = n
  BY <1>1, <1>6, TextsAre
<1> QED
  BY <1>7 DEF n

----------------------------------------------------------------------------
(* What the steps make of the disk and of the job.                         *)

LEMMA TableStays ==
  ASSUME Types
  PROVE  /\ Marked \in [Clusters -> ClusterValue]
         /\ \A n \in Nat : Successor(n) \in ClusterValue /\ Successor(n) \in Nat
         /\ \A n \in Nat : NextCluster(n) \subseteq Nat
         /\ \A n, v : v \in Returned \cup {FAT12_EOF_MAX} =>
              WithNext(n, v) \in [Clusters -> ClusterValue]
<1>1. fat \in [Clusters -> ClusterValue] /\ FAT12_EOF_MAX \in ClusterValue
  BY ClusterNumbers DEF Types, DiskTypeOK
<1>2. Marked \in [Clusters -> ClusterValue]
  BY <1>1 DEF Marked
<1>3. \A n \in Nat : Successor(n) \in ClusterValue /\ NextCluster(n) \subseteq ClusterValue
  BY <1>1 DEF Successor, NextCluster
<1>4. \A v \in Returned \cup {FAT12_EOF_MAX} : EntryOf(v) \in ClusterValue
  BY <1>1, EntryValues, EndIsItself
<1> QED
  BY <1>1, <1>2, <1>3, <1>4, WithNextIs, EndValues

LEMMA SetNextTypes ==
  ASSUME Types, NEW c, NEW v \in Returned \cup {FAT12_EOF_MAX}, v # 0, SetNext(c, v)
  PROVE  /\ DiskTypeOK' /\ \A i \in Entries : root'[i].fileSize <= MaxSize
         /\ Unused' \subseteq Unused /\ (stray => stray')
         /\ ~stray' => c \in Clusters /\ fat' = WithNext(c, v) /\ UNCHANGED <<root, data, stray>>
<1>1. /\ fat \in [Clusters -> ClusterValue] /\ root \in [Entries -> DirEntry]
      /\ data \in [FileClusters -> Block] /\ stray \in BOOLEAN
      /\ \A i \in Entries : root[i].fileSize <= MaxSize
  BY DEF Types, DiskTypeOK
<1>2. CASE c \in Clusters
  <2>1. fat' = WithNext(c, v) /\ UNCHANGED <<root, data, stray>>
    BY <1>2 DEF SetNext, WithNext
  <2>2. fat' \in [Clusters -> ClusterValue]
    BY <2>1, TableStays
  <2>3. fat' = [fat EXCEPT ![c] = EntryOf(v)] /\ EntryOf(v) # 0
    BY <1>2, <2>1, WithNextIs, EntryValues, EndIsItself, ClusterNumbers
  <2>4. Unused' \subseteq Unused
    BY <1>1, <2>3 DEF Unused, FAT12_UNUSED
  <2> QED
    BY <1>1, <1>2, <2>1, <2>2, <2>4 DEF DiskTypeOK
<1>3. CASE c \notin Clusters
  <2>1. stray' = TRUE /\ fat' = fat /\ Unused' = Unused
    BY <1>3 DEF SetNext, Unused
  <2>2. CASE UNCHANGED <<root, data>>
    BY <1>1, <2>1, <2>2 DEF DiskTypeOK
  <2>3. ASSUME NEW i \in Entries, NEW entry \in Readings,
               root' = [root EXCEPT ![i] = entry], data' = data
        PROVE  DiskTypeOK' /\ \A j \in Entries : root'[j].fileSize <= MaxSize
    <3>1. entry \in DirEntry /\ entry.fileSize <= MaxSize
      BY ReadingsAssumption, FilesAssumption
    <3> QED
      BY <1>1, <2>1, <2>3, <3>1 DEF DiskTypeOK
  <2>4. ASSUME NEW k \in FileClusters, NEW u \in 1 .. Units,
               data' = [data EXCEPT ![k][u] = Junk], root' = root
        PROVE  DiskTypeOK' /\ \A j \in Entries : root'[j].fileSize <= MaxSize
    <3>1. \A block \in Block : [block EXCEPT ![u] = Junk] \in Block
      BY DEF Block
    <3>2. data' \in [FileClusters -> Block]
      BY <1>1, <2>4, <3>1
    <3> QED
      BY <1>1, <2>1, <2>4, <3>2 DEF DiskTypeOK
  <2> QED
    BY <1>3, <2>1, <2>2, <2>3, <2>4 DEF SetNext
<1> QED
  BY <1>2, <1>3

LEMMA PutBackTypes ==
  ASSUME Types, NEW entry \in DirEntry, entry.fileSize <= MaxSize,
         job.buffer \in [Entries -> DirEntry],
         \A i \in Entries : job.buffer[i].fileSize <= MaxSize, root' = PutBack(entry)
  PROVE  root' \in [Entries -> DirEntry] /\ \A i \in Entries : root'[i].fileSize <= MaxSize
BY DEF PutBack, Types, DiskTypeOK

LEMMA WriteFileTypes ==
  ASSUME Types, Calls, WriteFile
  PROVE  /\ DiskTypeOK' /\ job' \in JobRecord
         /\ job.pc # "idle" /\ job'.pc # "idle"
         /\ job'.text = job.text /\ job'.buffer = job.buffer /\ job'.entry = job.entry
         /\ Working /\ \A i \in Entries : root'[i].fileSize <= MaxSize
         /\ Unused' \subseteq Unused /\ (stray => stray')
<1> USE DEF JobRecord, Pcs, Working
<1>1. job \in JobRecord /\ fat \in [Clusters -> ClusterValue] /\ root \in [Entries -> DirEntry]
      /\ data \in [FileClusters -> Block] /\ stray \in BOOLEAN /\ 0 \in Nat
  BY DEF Types, DiskTypeOK
<1>2. Len(job.text) \in Nat /\ Len(job.text) <= MaxSize
  BY <1>1 DEF Types
<1>3. \A i \in Entries : root[i].fileSize <= MaxSize
  BY DEF Types
<1>4. FreeCluster \in Returned /\ FreeCluster \in Nat
  BY FreeClusters, ClusterNumbers
<1>5. job.found \in Returned /\ job.found \in Nat
  BY <1>1, ClusterNumbers
<1>6. Marked \in [Clusters -> ClusterValue] /\ (fat' = Marked => Unused' \subseteq Unused)
  <2>1. FAT12_EOF_MAX # FAT12_UNUSED
    BY ClusterNumbers
  <2> QED
    BY <1>1, <2>1, TableStays, FreeClusters DEF Unused
<1>7. fat' = fat => Unused' = Unused
  BY DEF Unused
<1>8. CASE Create
  BY <1>1, <1>3, <1>4, <1>6, <1>8 DEF Create, DiskTypeOK
<1>9. CASE EndChain
  <2>1. job.pc = "end" /\ job' = [job EXCEPT !.pc = "enter"] /\ SetNext(job.found, FAT12_EOF_MAX)
    BY <1>9 DEF EndChain
  <2>2. FAT12_EOF_MAX # 0
    BY DEF FAT12_EOF_MAX
  <2>3. /\ DiskTypeOK' /\ \A i \in Entries : root'[i].fileSize <= MaxSize
        /\ Unused' \subseteq Unused /\ (stray => stray')
    BY <2>1, <2>2, SetNextTypes
  <2> QED
    BY <1>1, <2>1, <2>3
<1>10. CASE Enter
  <2> DEFINE made == [name |-> job.path, firstClusterLow |-> job.found, fileSize |-> 0]
  <2>1. job.path \in Names
    BY <1>10, CardAssumption DEF Enter, Calls
  <2>2. made \in DirEntry /\ made.fileSize <= MaxSize
    <3>1. job.found \in 0 .. NoCluster
      BY <1>1, ReturnedIs
    <3> QED
      BY <2>1, <3>1, FilesAssumption DEF DirEntry
  <2> HIDE DEF made
  <2>3. root' = PutBack(made) /\ job.pc = "enter"
    BY <1>10 DEF Enter, made
  <2>4. root' \in [Entries -> DirEntry] /\ \A i \in Entries : root'[i].fileSize <= MaxSize
    BY <2>2, <2>3, PutBackTypes DEF Types, Working
  <2> QED
    BY <2>4, <1>1, <1>7, <1>10 DEF Enter, DiskTypeOK
<1>11. CASE Extend
  <2>1. PICK c \in IF job.block = 0 THEN Numbers ELSE {job.prev} :
          job' = [job EXCEPT !.pc = "link", !.found = FreeCluster, !.prev = c]
    BY <1>11 DEF Extend
  <2>2. c \in Nat
    <3>1. \A n \in Numbers : n \in Nat
      BY ReadingsAssumption
    <3>2. job.prev \in Nat
      BY <1>1
    <3> QED
      BY <2>1, <3>1, <3>2
  <2>3. job' \in JobRecord /\ job'.pc = "link" /\ job'.text = job.text /\ job'.buffer = job.buffer
    BY <1>1, <1>4, <2>1, <2>2
  <2> QED
    BY <2>3, <1>1, <1>3, <1>6, <1>11 DEF Extend, Writing, DiskTypeOK
<1>12. CASE Link
  <2>1. job.pc = "link" /\ job' = [job EXCEPT !.pc = "seal"] /\ SetNext(job.prev, job.found)
    BY <1>12 DEF Link
  <2>2. job.found # 0
    BY <1>5, <2>1 DEF Calls
  <2>3. /\ DiskTypeOK' /\ \A i \in Entries : root'[i].fileSize <= MaxSize
        /\ Unused' \subseteq Unused /\ (stray => stray')
    BY <1>5, <2>1, <2>2, SetNextTypes
  <2> QED
    BY <1>1, <2>1, <2>3
<1>13. CASE Seal
  <2>1. job.pc = "seal" /\ job' = [job EXCEPT !.pc = "write", !.cluster = job.found]
        /\ SetNext(job.found, FAT12_EOF_MAX)
    BY <1>13 DEF Seal
  <2>2. FAT12_EOF_MAX # 0
    BY DEF FAT12_EOF_MAX
  <2>3. /\ DiskTypeOK' /\ \A i \in Entries : root'[i].fileSize <= MaxSize
        /\ Unused' \subseteq Unused /\ (stray => stray')
    BY <2>1, <2>2, SetNextTypes
  <2> QED
    BY <1>1, <1>5, <2>1, <2>3
<1>14. ASSUME Writing, BlockDone
       PROVE  /\ job' \in JobRecord /\ job.pc = "write" /\ job'.pc = "write"
              /\ job'.text = job.text /\ job'.buffer = job.buffer /\ job'.entry = job.entry
  <2>1. PICK next \in NextCluster(job.cluster) :
          job' = [job EXCEPT !.block = @ + 1, !.prev = job.cluster, !.cluster = next]
    BY <1>14 DEF BlockDone
  <2>2. next \in Nat
    BY <1>1, TableStays
  <2>3. job.block + 1 \in Nat /\ job.pc = "write"
    BY <1>1, <1>14 DEF Writing
  <2> QED
    BY <1>1, <2>1, <2>2, <2>3
<1>15. CASE WriteBlock
  <2>1. TextBlock(job.block) \in Block
    <3>1. \A k \in Nat : k <= Len(job.text) /\ k # 0 => job.text[k] \in Piece
      BY <1>1, ElementOfSeq
    <3>2. \A u \in 1 .. Units : job.block * Units + u \in Nat /\ job.block * Units + u # 0
      <4>1. job.block * Units \in Nat
        BY <1>1, CardAssumption
      <4> QED
        BY <4>1, CardAssumption
    <3> QED
      BY <3>1, <3>2 DEF TextBlock, Block, Piece
  <2>2. data' \in [FileClusters -> Block]
    BY <1>1, <1>15, <2>1 DEF WriteBlock
  <2>3. Writing /\ BlockDone /\ fat' = fat /\ root' = root /\ stray' = stray
    BY <1>15 DEF WriteBlock
  <2> HIDE DEF JobRecord
  <2>4. /\ job' \in JobRecord /\ job.pc = "write" /\ job'.pc = "write"
        /\ job'.text = job.text /\ job'.buffer = job.buffer /\ job'.entry = job.entry
    BY <1>14, <2>3
  <2> QED
    BY <2>2, <2>3, <2>4, <1>1, <1>3, <1>7 DEF DiskTypeOK
<1>16. CASE WriteAstray
  <2>1. PICK text \in [Overwritten(job.cluster) -> Readings] :
          root' = [i \in Entries |-> IF i \in DOMAIN text THEN text[i] ELSE root[i]]
    BY <1>16 DEF WriteAstray
  <2>2. \A i \in DOMAIN text : text[i] \in DirEntry /\ text[i].fileSize <= MaxSize
    BY ReadingsAssumption, FilesAssumption
  <2>3. root' \in [Entries -> DirEntry] /\ \A i \in Entries : root'[i].fileSize <= MaxSize
    BY <1>1, <1>3, <2>1, <2>2
  <2>4. Writing /\ BlockDone /\ fat' = fat /\ data' = data /\ stray' = TRUE
    BY <1>16 DEF WriteAstray
  <2> HIDE DEF JobRecord
  <2>5. /\ job' \in JobRecord /\ job.pc = "write" /\ job'.pc = "write"
        /\ job'.text = job.text /\ job'.buffer = job.buffer /\ job'.entry = job.entry
    BY <1>14, <2>4
  <2> QED
    BY <2>3, <2>4, <2>5, <1>1, <1>7 DEF DiskTypeOK
<1>17. CASE WriteSize
  <2> DEFINE sized == [job.buffer[job.entry] EXCEPT !.fileSize = Len(job.text)]
  <2>1. /\ root' = PutBack(sized)
        /\ job' = [job EXCEPT !.pc = "saved"] /\ job.pc = "write"
        /\ fat' = fat /\ data' = data /\ stray' = stray
    BY <1>17 DEF WriteSize
  <2>2. job.entry \in Entries /\ job.buffer \in [Entries -> DirEntry]
    BY <2>1 DEF Types, Working
  <2>3. sized \in DirEntry /\ sized.fileSize <= MaxSize
    <3>1. \A e \in DirEntry : /\ [e EXCEPT !.fileSize = Len(job.text)] \in DirEntry
                              /\ [e EXCEPT !.fileSize = Len(job.text)].fileSize <= MaxSize
      BY <1>2 DEF DirEntry
    <3> QED
      BY <2>2, <3>1
  <2> HIDE DEF sized
  <2>4. root' \in [Entries -> DirEntry] /\ \A i \in Entries : root'[i].fileSize <= MaxSize
    BY <2>1, <2>2, <2>3, PutBackTypes DEF Types, Working
  <2>5. job' \in JobRecord /\ job'.pc = "saved" /\ job'.text = job.text /\ job'.buffer = job.buffer
    BY <1>1, <2>1
  <2> QED
    BY <1>1, <1>7, <2>1, <2>4, <2>5 DEF DiskTypeOK
<1> QED
  BY <1>8, <1>9, <1>10, <1>11, <1>12, <1>13, <1>15, <1>16, <1>17 DEF WriteFile

----------------------------------------------------------------------------
(* Descriptors come and go.                                                *)

LEMMA OpenedIs ==
  ASSUME Types
  PROVE  /\ Opened \subseteq Slots /\ IsFiniteSet(Opened) /\ IsFiniteSet(Slots)
         /\ Cardinality(Slots) = MaxOpenedFiles
         /\ \A s \in Opened : vfs_openFiles[s] \in Descriptor
         /\ openCount \in 0 .. MaxOpenedFiles
<1>1. Opened \subseteq Slots /\ \A s \in Opened : vfs_openFiles[s] \in Descriptor
  BY DEF Opened, Types
<1>2. IsFiniteSet(Slots) /\ Cardinality(Slots) = MaxOpenedFiles
  BY FilesAssumption, FS_Interval DEF Slots
<1>3. IsFiniteSet(Opened) /\ Cardinality(Opened) \in Nat /\ Cardinality(Opened) <= MaxOpenedFiles
  BY <1>1, <1>2, FS_Subset, FS_CardinalityType
<1> QED
  BY <1>1, <1>2, <1>3, FilesAssumption DEF Types

LEMMA NewDescriptorIs ==
  ASSUME NEW path \in Names, NEW flags \in Flags, NEW text \in Texts,
         NEW fd, fd = NewDescriptor(path, flags, text)
  PROVE  fd \in Descriptor /\ fd.file_name = path
<1>1. 0 \in 0 .. MaxSize
  BY FilesAssumption
<1> QED
  BY <1>1, DescriptorIs DEF NewDescriptor

LEMMA InstallIs ==
  ASSUME Types, openCount < MaxOpenedFiles, NEW fd \in Descriptor, Install(fd)
  PROVE  /\ vfs_openFiles' \in [Slots -> Descriptor \cup {NULL}]
         /\ openCount' = Cardinality(Opened')
         /\ \E s \in Slots \ Opened : /\ Opened' = Opened \cup {s}
                                      /\ vfs_openFiles' = [vfs_openFiles EXCEPT ![s] = fd]
<1> DEFINE s == First(Slots \ Opened)
<1>1. Slots \ Opened # {}
  <2>1. Opened \subseteq Slots /\ Cardinality(Slots) = MaxOpenedFiles
    BY OpenedIs
  <2>2. Opened # Slots
    BY <2>1, FilesAssumption DEF Types
  <2> QED
    BY <2>1, <2>2
<1>2. s \in Slots \ Opened
  <2>1. Slots \ Opened \subseteq Nat
    BY FilesAssumption DEF Slots
  <2> QED
    BY <1>1, <2>1, FirstIsLeast
<1>3. vfs_openFiles' = [vfs_openFiles EXCEPT ![s] = fd]
  BY DEF Install
<1> HIDE DEF s
<1>4. vfs_openFiles \in [Slots -> Descriptor \cup {NULL}] /\ fd # NULL
  BY NullAssumption DEF Types
<1>5. Opened' = Opened \cup {s}
  BY <1>2, <1>3, <1>4 DEF Opened
<1>6. openCount' = Cardinality(Opened')
  BY <1>2, <1>5, OpenedIs, FS_AddElement DEF Install, Types
<1> QED
  BY <1>2, <1>3, <1>4, <1>5, <1>6

LEMMA UninstallIs ==
  ASSUME Types, NEW s \in Opened, vfs_openFiles' = [vfs_openFiles EXCEPT ![s] = NULL],
         openCount' = openCount - 1
  PROVE  /\ vfs_openFiles' \in [Slots -> Descriptor \cup {NULL}]
         /\ openCount' = Cardinality(Opened') /\ Opened' = Opened \ {s}
<1>1. vfs_openFiles \in [Slots -> Descriptor \cup {NULL}] /\ s \in Slots
  BY OpenedIs DEF Types
<1>2. Opened' = Opened \ {s}
  BY <1>1 DEF Opened
<1> QED
  BY <1>1, <1>2, OpenedIs, FS_RemoveElement DEF Types

LEMMA ReplaceIs ==
  ASSUME Types, NEW s \in Opened, NEW fd \in Descriptor,
         vfs_openFiles' = [vfs_openFiles EXCEPT ![s] = fd], openCount' = openCount
  PROVE  /\ vfs_openFiles' \in [Slots -> Descriptor \cup {NULL}]
         /\ Opened' = Opened /\ openCount' = Cardinality(Opened')
<1>1. vfs_openFiles \in [Slots -> Descriptor \cup {NULL}] /\ s \in Slots /\ fd # NULL
  BY OpenedIs, NullAssumption DEF Types
<1>2. Opened' = Opened
  <2>1. \A r \in Slots : r # s => vfs_openFiles'[r] = vfs_openFiles[r]
    BY <1>1
  <2>2. vfs_openFiles'[s] # NULL /\ vfs_openFiles[s] # NULL
    BY <1>1 DEF Opened
  <2> QED
    BY <1>1, <2>1, <2>2 DEF Opened
<1> QED
  BY <1>1, <1>2 DEF Types

(* Read, Write and Seek change one descriptor and keep its name.           *)
LEMMA ReadIs ==
  ASSUME Types, NEW s \in Slots, NEW bytes \in Counts, Read(s, bytes)
  PROVE  s \in Opened /\ \E fd \in Descriptor :
           /\ vfs_openFiles' = [vfs_openFiles EXCEPT ![s] = fd]
           /\ fd.file_name = vfs_openFiles[s].file_name /\ fd.text = vfs_openFiles[s].text
           /\ fd.write_offset = vfs_openFiles[s].write_offset
<1> DEFINE old == vfs_openFiles[s]
           offset == IF old.read_offset + bytes < Len(old.text) THEN old.read_offset + bytes
                     ELSE Len(old.text)
<1>1. s \in Opened /\ old \in Descriptor /\ vfs_openFiles \in [Slots -> Descriptor \cup {NULL}]
  BY OpenedIs DEF Read, Types
<1>2. vfs_openFiles' = [vfs_openFiles EXCEPT ![s] = [old EXCEPT !.read_offset = offset]]
  BY <1>1 DEF Read
<1>3. /\ old.text \in Texts /\ old.read_offset \in 0 .. MaxSize /\ bytes \in Nat
      /\ Len(old.text) \in 0 .. MaxSize
  BY <1>1, DescriptorIs, TextsAre, FilesAssumption
<1>4. offset \in 0 .. MaxSize
  BY <1>3, FilesAssumption
<1> HIDE DEF offset, old
<1> DEFINE fd == [old EXCEPT !.read_offset = offset]
<1>5. /\ fd \in Descriptor /\ fd.file_name = old.file_name /\ fd.text = old.text
      /\ fd.write_offset = old.write_offset
  BY <1>1, <1>4, DescriptorIs
<1> HIDE DEF fd
<1> QED
  BY <1>1, <1>2, <1>5 DEF fd, old

LEMMA SeekIs ==
  ASSUME Types, NEW s \in Slots, NEW offset \in Offsets, NEW mode \in Flags, Seek(s, offset, mode)
  PROVE  s \in Opened /\ \E fd \in Descriptor :
           /\ vfs_openFiles' = [vfs_openFiles EXCEPT ![s] = fd]
           /\ fd.file_name = vfs_openFiles[s].file_name /\ fd.text = vfs_openFiles[s].text
           /\ fd.write_offset = vfs_openFiles[s].write_offset \/ fd.write_offset <= Len(fd.text)
<1> DEFINE old == vfs_openFiles[s]
           to == Clamp(offset, old)
           fd == [old EXCEPT !.read_offset = IF O_READ \in mode THEN to ELSE @,
                             !.write_offset = IF O_WRITE \in mode THEN to ELSE @]
<1>1. s \in Opened /\ old \in Descriptor /\ vfs_openFiles \in [Slots -> Descriptor \cup {NULL}]
  BY OpenedIs DEF Seek, Types
<1>2. vfs_openFiles' = [vfs_openFiles EXCEPT ![s] = fd]
  BY <1>1 DEF Seek
<1>3. old.text \in Texts /\ offset \in Nat /\ Len(old.text) \in 0 .. MaxSize
  BY <1>1, DescriptorIs, TextsAre, FilesAssumption
<1>4. to \in 0 .. MaxSize /\ to <= Len(old.text)
  BY <1>3, FilesAssumption DEF Clamp
<1> HIDE DEF to, old
<1>5. /\ fd \in Descriptor /\ fd.file_name = old.file_name /\ fd.text = old.text
      /\ fd.write_offset = old.write_offset \/ fd.write_offset <= Len(old.text)
  BY <1>1, <1>4, DescriptorIs
<1> HIDE DEF fd
<1> QED
  BY <1>1, <1>2, <1>5 DEF old

(* What Write makes of a text.                                             *)
Written(t, from, end, d) ==
  [u \in 1 .. (IF end > Len(t) THEN end ELSE Len(t)) |->
     IF u \in from + 1 .. end THEN d ELSE IF u <= Len(t) THEN t[u] ELSE Junk]

LEMMA WriteIs ==
  ASSUME Types, NEW s \in Slots, NEW d \in Input, NEW bytes \in Counts, Write(s, d, bytes)
  PROVE  s \in Opened /\ \E fd \in Descriptor :
           /\ vfs_openFiles' = [vfs_openFiles EXCEPT ![s] = fd]
           /\ fd.file_name = vfs_openFiles[s].file_name
           /\ fd.text = Written(vfs_openFiles[s].text, vfs_openFiles[s].write_offset,
                                vfs_openFiles[s].write_offset + bytes, d)
           /\ fd.write_offset = vfs_openFiles[s].write_offset + bytes
           /\ vfs_openFiles[s].write_offset + bytes <= MaxSize
<1> DEFINE old == vfs_openFiles[s]
           from == old.write_offset
           end == from + bytes
           text == Written(old.text, from, end, d)
           fd == [old EXCEPT !.text = text, !.write_offset = end]
<1>1. s \in Opened /\ old \in Descriptor /\ vfs_openFiles \in [Slots -> Descriptor \cup {NULL}]
  BY OpenedIs DEF Write, Types
<1>2. vfs_openFiles' = [vfs_openFiles EXCEPT ![s] = fd]
  BY <1>1 DEF Write, Written
<1>3. /\ old.text \in Texts /\ from \in 0 .. MaxSize /\ bytes \in Nat
      /\ Len(old.text) \in 0 .. MaxSize /\ old.text \in Seq(Piece)
  BY <1>1, DescriptorIs, TextsAre, FilesAssumption
<1>4. end \in 0 .. MaxSize
  BY <1>3, FilesAssumption DEF Write
<1>5. text \in Texts
  <2> DEFINE size == IF end > Len(old.text) THEN end ELSE Len(old.text)
  <2>1. size \in 0 .. MaxSize
    BY <1>3, <1>4
  <2>2. \A u \in 1 .. size : u <= Len(old.text) => old.text[u] \in Piece
    BY <1>3, <2>1, ElementOfSeq
  <2>3. d \in Piece /\ Junk \in Piece
    BY FilesAssumption DEF Piece
  <2>4. text = [u \in 1 .. size |->
                  IF u \in from + 1 .. end THEN d
                  ELSE IF u <= Len(old.text) THEN old.text[u] ELSE Junk]
    BY DEF Written
  <2> HIDE DEF size, text, end, from, old
  <2>5. text \in [1 .. size -> Piece]
    BY <2>2, <2>3, <2>4
  <2> QED
    BY <2>1, <2>5, TextsAre
<1> HIDE DEF text, end, from, old
<1>6. /\ fd \in Descriptor /\ fd.file_name = old.file_name /\ fd.text = text
      /\ fd.write_offset = end
  BY <1>1, <1>4, <1>5, DescriptorIs
<1>7. end <= MaxSize
  BY <1>4
<1> HIDE DEF fd
<1> QED
  BY <1>1, <1>2, <1>6, <1>7 DEF old, text, end, from

----------------------------------------------------------------------------
(* Types and calls are kept.                                               *)

LEMMA InitTypes ==
  ASSUME Init, SoundImages
  PROVE  Types /\ Calls
<1>1. PICK card \in Images : fat = card.fat /\ root = card.root /\ data = card.data
  BY DEF Init, DiskInit
<1>2. PICK chain : SoundCard(card, chain)
  BY <1>1 DEF SoundImages
<1>3. DiskTypeOK /\ \A i \in Entries : root[i].fileSize <= MaxSize
  BY <1>1, <1>2 DEF SoundCard, Init, DiskInit, DiskTypeOK
<1>4. Opened = {} /\ Cardinality(Opened) = 0
  BY FS_EmptySet DEF Init, Opened
<1>5. job = NoJob /\ call = NoCall /\ 0 \in 0 .. MaxCuts /\ 0 <= MaxSize
  BY FilesAssumption DEF Init, DiskInit
<1> QED
  BY <1>3, <1>4, <1>5, NoJobIs, NoCallIs DEF Init, Types, Calls, Working

LEMMA StepTypes ==
  ASSUME Types, Calls, [Next]_vars
  PROVE  Types' /\ Calls'
<1>1. CASE UNCHANGED vars
  BY <1>1 DEF vars, disk, power, Types, Calls, DiskTypeOK, Opened, Working
<1>2. ASSUME NEW path \in Paths, NEW flags \in Flags, OpenFound(path, flags)
      PROVE  Types' /\ Calls'
  <2>1. Find(path) \in Entries /\ path \in Names
    BY <1>2, FindIs, CardAssumption DEF OpenFound, InUse
  <2> DEFINE fd == NewDescriptor(path, flags, FileText(Find(path)))
  <2>2. fd \in Descriptor /\ fd.file_name = path
    BY <2>1, FileTextIs, NewDescriptorIs
  <2>3. openCount < MaxOpenedFiles
    BY <1>2, OpenedIs, FilesAssumption DEF OpenFound, MayOpen
  <2>4. Install(fd) /\ UNCHANGED <<fat, root, data, stray, job, call, cuts, caught>>
    BY <1>2 DEF OpenFound, disk, power
  <2> HIDE DEF fd
  <2>5. /\ vfs_openFiles' \in [Slots -> Descriptor \cup {NULL}]
        /\ openCount' = Cardinality(Opened')
        /\ \E s \in Slots \ Opened : /\ Opened' = Opened \cup {s}
                                     /\ vfs_openFiles' = [vfs_openFiles EXCEPT ![s] = fd]
    BY <2>2, <2>3, <2>4, InstallIs
  <2>6. \A s \in Opened' : vfs_openFiles'[s].file_name \in Paths
    BY <2>2, <2>5 DEF Calls, Types
  <2>7. call.op = "none"
    BY <1>2 DEF OpenFound, MayOpen
  <2>8. Types'
    BY <2>4, <2>5 DEF Types, DiskTypeOK, Working
  <2>9. Calls'
    BY <2>4, <2>6, <2>7 DEF Calls, Types
  <2> QED
    BY <2>8, <2>9
<1>3. ASSUME NEW path \in Paths, NEW flags \in Flags, OpenCreates(path, flags)
      PROVE  Types' /\ Calls'
  <2>1. /\ job' = NewJob(path, <<>>) /\ Find(path) = 0 /\ path \in Names
        /\ call' = [NoCall EXCEPT !.op = "open", !.path = path, !.flags = flags]
        /\ UNCHANGED <<fat, root, data, stray, vfs_openFiles, openCount, cuts, caught>>
    BY <1>3, CardAssumption DEF OpenCreates, disk, power
  <2>2. /\ job' \in JobRecord /\ Len(job'.text) <= MaxSize
        /\ job'.pc \in {"create", "unsaved"} /\ (job'.pc = "create" => job'.path = path)
        /\ job'.pc # "unsaved" => job'.buffer = root /\ job'.entry \in Entries
    BY <2>1, TextsAre, NewJobIs
  <2>3. call' \in CallRecord /\ call'.op = "open" /\ call'.path = path /\ call'.flags = flags
    BY <2>1, NoCallIs DEF CallRecord
  <2>4. openCount < MaxOpenedFiles
    BY <1>3, OpenedIs, FilesAssumption DEF OpenCreates, MayOpen
  <2>5. Opened' = Opened
    BY <2>1 DEF Opened
  <2>6. Types'
    BY <2>1, <2>2, <2>3, <2>5 DEF Types, DiskTypeOK, Working
  <2>7. Calls'
    BY <2>1, <2>2, <2>3, <2>4, <2>5 DEF Calls
  <2> QED
    BY <2>6, <2>7
<1>4. ASSUME NEW s \in Slots, Close(s)
      PROVE  Types' /\ Calls'
  <2> DEFINE fd == vfs_openFiles[s]
  <2>1. /\ job' = NewJob(fd.file_name, fd.text) /\ s \in Opened
        /\ call' = [NoCall EXCEPT !.op = "close", !.slot = s]
        /\ UNCHANGED <<fat, root, data, stray, vfs_openFiles, openCount, cuts, caught>>
    BY <1>4 DEF Close, disk, power
  <2>2. fd.file_name \in Paths /\ fd.text \in Texts
    BY <2>1, OpenedIs, DescriptorIs DEF Calls
  <2>3. /\ job' \in JobRecord /\ Len(job'.text) <= MaxSize
        /\ job'.pc \in {"write", "create", "unsaved"}
        /\ (job'.pc = "create" => job'.path \in Paths)
        /\ job'.pc # "unsaved" => job'.buffer = root /\ job'.entry \in Entries
    BY <2>1, <2>2, NewJobIs
  <2>4. call' \in CallRecord /\ call'.op = "close" /\ call'.slot = s
    BY <2>1, NoCallIs DEF CallRecord
  <2>5. Opened' = Opened
    BY <2>1 DEF Opened
  <2>6. Types'
    BY <2>1, <2>3, <2>4, <2>5 DEF Types, DiskTypeOK, Working
  <2>7. Calls'
    BY <2>1, <2>3, <2>4, <2>5 DEF Calls
  <2> QED
    BY <2>6, <2>7
<1>5. ASSUME NEW s \in Slots, NEW fd \in Descriptor, s \in Opened, call.op = "none",
             vfs_openFiles' = [vfs_openFiles EXCEPT ![s] = fd],
             fd.file_name = vfs_openFiles[s].file_name,
             UNCHANGED <<disk, job, openCount, call, power>>
      PROVE  Types' /\ Calls'
  <2>1. UNCHANGED <<fat, root, data, stray, job, openCount, call, cuts, caught>>
    BY <1>5 DEF disk, power
  <2>2. /\ vfs_openFiles' \in [Slots -> Descriptor \cup {NULL}]
        /\ Opened' = Opened /\ openCount' = Cardinality(Opened')
    BY <1>5, <2>1, ReplaceIs
  <2>3. \A r \in Opened : vfs_openFiles'[r].file_name \in Paths
    BY <1>5, OpenedIs DEF Calls, Types
  <2>4. Types'
    BY <2>1, <2>2 DEF Types, DiskTypeOK, Working
  <2>5. Calls'
    BY <2>1, <2>2, <2>3, <1>5 DEF Calls, Types
  <2> QED
    BY <2>4, <2>5
<1>6. ASSUME NEW s \in Slots, NEW bytes \in Counts, Read(s, bytes)
      PROVE  Types' /\ Calls'
  <2>1. call.op = "none" /\ UNCHANGED <<disk, job, openCount, call, power>>
    BY <1>6 DEF Read
  <2> QED
    BY <1>5, <1>6, <2>1, ReadIs
<1>7. ASSUME NEW s \in Slots, NEW bytes \in Counts, NEW d \in Input, Write(s, d, bytes)
      PROVE  Types' /\ Calls'
  <2>1. call.op = "none" /\ UNCHANGED <<disk, job, openCount, call, power>>
    BY <1>7 DEF Write
  <2> QED
    BY <1>5, <1>7, <2>1, WriteIs
<1>8. ASSUME NEW s \in Slots, NEW offset \in Offsets, NEW mode \in Flags, Seek(s, offset, mode)
      PROVE  Types' /\ Calls'
  <2>1. call.op = "none" /\ UNCHANGED <<disk, job, openCount, call, power>>
    BY <1>8 DEF Seek
  <2> QED
    BY <1>5, <1>8, <2>1, SeekIs
<1>9. CASE OpenReturns
  <2>1. /\ call.op = "open" /\ job' = NoJob /\ call' = NoCall
        /\ UNCHANGED <<fat, root, data, stray, cuts, caught>>
    BY <1>9 DEF OpenReturns, disk, power
  <2>2. call.path \in Paths /\ call.path \in Names /\ call.flags \in Flags
        /\ openCount < MaxOpenedFiles
    BY <2>1, CardAssumption DEF Calls
  <2>3. /\ vfs_openFiles' \in [Slots -> Descriptor \cup {NULL}] /\ openCount' = Cardinality(Opened')
        /\ \A s \in Opened' : vfs_openFiles'[s].file_name \in Paths
    <3>1. CASE AlreadyOpen(call.path)
      BY <1>9, <3>1 DEF OpenReturns, Types, Calls, Opened
    <3>2. CASE ~AlreadyOpen(call.path)
      <4> DEFINE fd == NewDescriptor(call.path, call.flags, <<>>)
      <4>1. Install(fd)
        BY <1>9, <3>2 DEF OpenReturns
      <4>2. fd \in Descriptor /\ fd.file_name = call.path
        BY <2>2, TextsAre, NewDescriptorIs
      <4> HIDE DEF fd
      <4>3. /\ vfs_openFiles' \in [Slots -> Descriptor \cup {NULL}]
            /\ openCount' = Cardinality(Opened')
            /\ \E s \in Slots \ Opened : /\ Opened' = Opened \cup {s}
                                         /\ vfs_openFiles' = [vfs_openFiles EXCEPT ![s] = fd]
        BY <4>1, <4>2, <2>2, InstallIs
      <4> QED
        BY <2>2, <4>2, <4>3 DEF Calls, Types
    <3> QED
      BY <3>1, <3>2
  <2>4. Types'
    BY <2>1, <2>3, NoJobIs, NoCallIs, FilesAssumption DEF Types, DiskTypeOK, Working
  <2>5. Calls'
    BY <2>1, <2>3, NoJobIs, NoCallIs DEF Calls
  <2> QED
    BY <2>4, <2>5
<1>10. CASE CloseReturns
  <2>1. /\ call.op = "close" /\ job' = NoJob /\ call' = NoCall
        /\ vfs_openFiles' = [vfs_openFiles EXCEPT ![call.slot] = NULL]
        /\ openCount' = openCount - 1
        /\ UNCHANGED <<fat, root, data, stray, cuts, caught>>
    BY <1>10 DEF CloseReturns, disk, power
  <2>2. call.slot \in Opened
    BY <2>1 DEF Calls
  <2>3. /\ vfs_openFiles' \in [Slots -> Descriptor \cup {NULL}]
        /\ openCount' = Cardinality(Opened') /\ Opened' = Opened \ {call.slot}
    BY <2>1, <2>2, UninstallIs
  <2>4. \A s \in Opened' : vfs_openFiles'[s].file_name \in Paths
    BY <2>1, <2>3, OpenedIs DEF Calls, Types
  <2>5. Types'
    BY <2>1, <2>3, NoJobIs, NoCallIs, FilesAssumption DEF Types, DiskTypeOK, Working
  <2>6. Calls'
    BY <2>1, <2>4, NoJobIs, NoCallIs DEF Calls
  <2> QED
    BY <2>5, <2>6
<1>11. CASE CardStep
  <2>1. WriteFile /\ UNCHANGED <<vfs_openFiles, openCount, call, cuts, caught>>
    BY <1>11 DEF CardStep, power
  <2>2. Opened' = Opened
    BY <2>1 DEF Opened
  <2>3. Types'
    BY <2>1, <2>2, WriteFileTypes DEF Types, Working
  <2>4. call'.op = "open" => job'.pc \in {"create", "end", "enter", "saved", "unsaved"}
    BY <2>1, NoJobIs
       DEF Calls, Types, JobRecord, WriteFile, Create, EndChain, Enter, Extend, Link, Seal, Writing,
           WriteBlock, WriteAstray, BlockDone, WriteSize
  <2>5. job'.pc \in {"create", "end", "enter"} => job'.path \in Paths
    BY <2>1
       DEF Calls, Types, JobRecord, WriteFile, Create, EndChain, Enter, Extend, Link, Seal, Writing,
           WriteBlock, WriteAstray, BlockDone, WriteSize
  <2>6. job'.pc \in {"end", "enter", "link", "seal"} => job'.found >= 2
    BY <2>1, FreeClusters
       DEF Calls, Types, JobRecord, WriteFile, Create, EndChain, Enter, Extend, Link, Seal, Writing,
           WriteBlock, WriteAstray, BlockDone, WriteSize
  <2> QED
    BY <2>1, <2>2, <2>3, <2>4, <2>5, <2>6 DEF Calls
<1>12. CASE PowerCut
  <2>1. /\ cuts' = cuts + 1 /\ cuts < MaxCuts /\ job' = NoJob /\ call' = NoCall
        /\ vfs_openFiles' = [s \in Slots |-> NULL] /\ openCount' = 0
        /\ caught' = caught \cup ({Saving} \ {NULL})
        /\ UNCHANGED <<fat, root, data, stray>>
    BY <1>12 DEF PowerCut, disk
  <2>2. Opened' = {} /\ Cardinality(Opened') = 0
    BY <2>1, FS_EmptySet DEF Opened
  <2>3. cuts' \in 0 .. MaxCuts
    BY <2>1, FilesAssumption DEF Types
  <2>4. caught' \subseteq Paths
    BY <2>1 DEF Saving, Calls, Types
  <2>5. Types'
    BY <2>1, <2>2, <2>3, <2>4, NoJobIs, NoCallIs, FilesAssumption DEF Types, DiskTypeOK, Working
  <2>6. Calls'
    BY <2>1, <2>2, NoJobIs, NoCallIs DEF Calls
  <2> QED
    BY <2>5, <2>6
<1> QED
  BY <1>1, <1>2, <1>3, <1>4, <1>6, <1>7, <1>8, <1>9, <1>10, <1>11, <1>12 DEF Next

LEMMA TypesImplyTypeOK == Types => TypeOK
<1> SUFFICES ASSUME Types PROVE TypeOK
  OBVIOUS
<1>1. JobTypeOK
  BY DEF Types, JobRecord, Pcs, Piece, JobTypeOK
<1>2. call.op \in {"none", "open", "close"} /\ (call.op = "none") = (job.pc = "idle")
  BY DEF Types, CallRecord
<1> QED
  BY <1>1, <1>2 DEF Types, TypeOK

----------------------------------------------------------------------------
(* Until a block is written astray the buffer of write_file is the         *)
(* directory, and its steps are these.                                     *)
Buffered ==
  /\ Working => job.buffer = root
  /\ \A i \in InUse : root[i].firstClusterLow \in Returned
  /\ job.pc = "write" /\ job.block = 0 => job.cluster \in Returned

EndsChain ==
  /\ job.pc = "end" /\ job.found \in Clusters
  /\ fat' = WithNext(job.found, FAT12_EOF_MAX)
  /\ job' = [job EXCEPT !.pc = "enter"]
  /\ UNCHANGED <<root, data, stray>>

Enters ==
  /\ job.pc = "enter"
  /\ root' = [root EXCEPT ![job.entry] =
                [name |-> job.path, firstClusterLow |-> job.found, fileSize |-> 0]]
  /\ job' = [job EXCEPT !.pc = "unsaved"]
  /\ UNCHANGED <<fat, data, stray>>

Extends ==
  /\ Writing /\ AtEnd /\ job.block # 0
  /\ fat' = Marked
  /\ job' = [job EXCEPT !.pc = "link", !.found = FreeCluster]
  /\ UNCHANGED <<root, data, stray>>

Links ==
  /\ job.pc = "link" /\ job.prev \in Clusters
  /\ fat' = WithNext(job.prev, job.found)
  /\ job' = [job EXCEPT !.pc = "seal"]
  /\ UNCHANGED <<root, data, stray>>

Seals ==
  /\ job.pc = "seal" /\ job.found \in Clusters
  /\ fat' = WithNext(job.found, FAT12_EOF_MAX)
  /\ job' = [job EXCEPT !.pc = "write", !.cluster = job.found]
  /\ UNCHANGED <<root, data, stray>>

WritesBlock ==
  /\ Writing /\ ~AtEnd /\ job.cluster \in FileClusters
  /\ data' = [data EXCEPT ![job.cluster] = TextBlock(job.block)]
  /\ job' = [job EXCEPT !.block = @ + 1, !.prev = job.cluster,
                        !.cluster = Successor(job.cluster)]
  /\ UNCHANGED <<fat, root, stray>>

WritesSize ==
  /\ job.pc = "write" /\ ~Writing
  /\ root' = [root EXCEPT ![job.entry].fileSize = Len(job.text)]
  /\ job' = [job EXCEPT !.pc = "saved"]
  /\ UNCHANGED <<fat, data, stray>>

WritesFile ==
  \/ Create \/ EndsChain \/ Enters
  \/ Extends \/ Links \/ Seals \/ WritesBlock \/ WritesSize

----------------------------------------------------------------------------
LEMMA CleanSteps ==
  ASSUME Types, Calls, Buffered, WriteFile, ~stray'
  PROVE  WritesFile
<1>1. /\ job \in JobRecord /\ root \in [Entries -> DirEntry]
      /\ FAT12_EOF_MAX \in Returned \cup {FAT12_EOF_MAX} /\ FAT12_EOF_MAX # 0
      /\ job.found \in Returned \cup {FAT12_EOF_MAX}
  BY ClusterNumbers DEF Types, DiskTypeOK, JobRecord
<1>2. ASSUME NEW entry, job.buffer = root
      PROVE  PutBack(entry) = [root EXCEPT ![job.entry] = entry]
  BY <1>1, <1>2 DEF PutBack
<1>3. CASE Create
  BY <1>3 DEF WritesFile
<1>4. CASE EndChain
  <2>1. SetNext(job.found, FAT12_EOF_MAX) /\ job.pc = "end" /\ job' = [job EXCEPT !.pc = "enter"]
    BY <1>4 DEF EndChain
  <2>2. /\ job.found \in Clusters /\ fat' = WithNext(job.found, FAT12_EOF_MAX)
        /\ UNCHANGED <<root, data, stray>>
    BY <1>1, <2>1, SetNextTypes
  <2> QED
    BY <2>1, <2>2 DEF EndsChain, WritesFile
<1>5. CASE Enter
  <2>1. job.buffer = root
    BY <1>5 DEF Enter, Buffered, Working
  <2> QED
    BY <1>2, <1>5, <2>1 DEF Enter, Enters, WritesFile
<1>6. CASE Extend
  <2>1. Writing /\ AtEnd /\ job.pc = "write"
    BY <1>6 DEF Extend, Writing
  <2>2. job.block # 0
    BY <2>1, EntryValues DEF Buffered, AtEnd
  <2>3. job' = [job EXCEPT !.pc = "link", !.found = FreeCluster, !.prev = job.prev]
    BY <1>6, <2>2 DEF Extend
  <2>4. job' = [job EXCEPT !.pc = "link", !.found = FreeCluster]
    BY <1>1, <2>3 DEF JobRecord
  <2> QED
    BY <1>6, <2>1, <2>2, <2>4 DEF Extend, Extends, WritesFile
<1>7. CASE Link
  <2>1. SetNext(job.prev, job.found) /\ job.pc = "link" /\ job' = [job EXCEPT !.pc = "seal"]
    BY <1>7 DEF Link
  <2>2. job.found # 0
    BY <2>1 DEF Calls
  <2>3. /\ job.prev \in Clusters /\ fat' = WithNext(job.prev, job.found)
        /\ UNCHANGED <<root, data, stray>>
    BY <1>1, <2>1, <2>2, SetNextTypes
  <2> QED
    BY <2>1, <2>3 DEF Links, WritesFile
<1>8. CASE Seal
  <2>1. /\ SetNext(job.found, FAT12_EOF_MAX) /\ job.pc = "seal"
        /\ job' = [job EXCEPT !.pc = "write", !.cluster = job.found]
    BY <1>8 DEF Seal
  <2>2. /\ job.found \in Clusters /\ fat' = WithNext(job.found, FAT12_EOF_MAX)
        /\ UNCHANGED <<root, data, stray>>
    BY <1>1, <2>1, SetNextTypes
  <2> QED
    BY <2>1, <2>2 DEF Seals, WritesFile
<1>9. CASE WriteBlock
  <2>1. job.cluster \in FileClusters /\ FileClusters \subseteq Clusters
    BY <1>9, ClusterNumbers DEF WriteBlock, FileClusters
  <2>2. NextCluster(job.cluster) = {Successor(job.cluster)}
    BY <2>1 DEF NextCluster, Successor
  <2> QED
    BY <1>9, <2>2 DEF WriteBlock, BlockDone, WritesBlock, WritesFile
<1>10. CASE WriteAstray
  BY <1>10 DEF WriteAstray
<1>11. CASE WriteSize
  <2>1. job.buffer = root
    BY <1>11 DEF WriteSize, Buffered, Working
  <2>2. root' = [root EXCEPT ![job.entry] = [root[job.entry] EXCEPT !.fileSize = Len(job.text)]]
    BY <1>2, <1>11, <2>1 DEF WriteSize
  <2> QED
    BY <1>11, <2>2 DEF WriteSize, WritesSize, WritesFile
<1> QED
  BY <1>3, <1>4, <1>5, <1>6, <1>7, <1>8, <1>9, <1>10, <1>11 DEF WriteFile

----------------------------------------------------------------------------
(* A step writes to the card, or leaves it alone and at most ends or       *)
(* begins a job.                                                           *)
Ends == /\ UNCHANGED disk /\ job' = NoJob /\ caught \subseteq caught'
        /\ caught' = {} => job.pc \notin {"write", "link", "seal"}

Begins == /\ UNCHANGED <<disk, caught>> /\ job.pc = "idle"
          /\ \E path \in Paths, text \in Texts : job' = NewJob(path, text)

Stays == UNCHANGED <<disk, caught, job>>

LEMMA StepIs ==
  ASSUME Types, Calls, Buffered, ~stray', [Next]_vars
  PROVE  (WritesFile /\ caught' = caught) \/ Ends \/ Begins \/ Stays
<1>1. CASE UNCHANGED vars
  BY <1>1 DEF vars, power, Stays
<1>2. ASSUME NEW path \in Paths, NEW flags \in Flags, OpenFound(path, flags)
      PROVE  Stays
  BY <1>2 DEF OpenFound, power, Stays
<1>3. ASSUME NEW path \in Paths, NEW flags \in Flags, OpenCreates(path, flags)
      PROVE  Begins
  BY <1>3, TextsAre DEF OpenCreates, MayOpen, power, Begins, Types
<1>4. ASSUME NEW s \in Slots, Close(s)
      PROVE  Begins
  <2>1. vfs_openFiles[s].file_name \in Paths /\ vfs_openFiles[s].text \in Texts
    BY <1>4, OpenedIs, DescriptorIs DEF Close, Calls
  <2> QED
    BY <1>4, <2>1 DEF Close, power, Begins, Types
<1>5. ASSUME NEW s \in Slots, NEW bytes \in Counts, Read(s, bytes)
      PROVE  Stays
  BY <1>5 DEF Read, power, Stays
<1>6. ASSUME NEW s \in Slots, NEW bytes \in Counts, NEW d \in Input, Write(s, d, bytes)
      PROVE  Stays
  BY <1>6 DEF Write, power, Stays
<1>7. ASSUME NEW s \in Slots, NEW offset \in Offsets, NEW mode \in Flags, Seek(s, offset, mode)
      PROVE  Stays
  BY <1>7 DEF Seek, power, Stays
<1>8. CASE OpenReturns
  BY <1>8 DEF OpenReturns, power, Ends
<1>9. CASE CloseReturns
  BY <1>9 DEF CloseReturns, power, Ends
<1>10. CASE CardStep
  BY <1>10, CleanSteps DEF CardStep, power
<1>11. CASE PowerCut
  <2>1. /\ UNCHANGED disk /\ job' = NoJob /\ caught \subseteq caught'
        /\ caught' = caught \cup ({Saving} \ {NULL})
    BY <1>11 DEF PowerCut
  <2>2. ASSUME job.pc \in {"write", "link", "seal"}
        PROVE  caught' # {}
    <3>1. call.op = "close"
      BY <2>2 DEF Calls, Types, CallRecord
    <3>2. Saving \in Paths /\ Saving # NULL
      BY <3>1, NullAssumption, CardAssumption DEF Saving, Calls
    <3> QED
      BY <2>1, <3>2
  <2> QED
    BY <2>1, <2>2 DEF Ends
<1> QED
  BY <1>1, <1>2, <1>3, <1>4, <1>5, <1>6, <1>7, <1>8, <1>9, <1>10, <1>11 DEF Next

----------------------------------------------------------------------------
(* The directory.                                                          *)

ListedOnce == InUse \subseteq Listed /\ \A i, j \in InUse : root[i].name = root[j].name => i = j

Directory ==
  /\ ListedOnce
  /\ job.pc \in {"create", "end", "enter"} =>
       /\ Available # {} /\ job.entry = First(Available)
       /\ \A i \in InUse : root[i].name # job.path
  /\ job.pc \in {"write", "link", "seal"} => job.entry \in InUse

LEMMA AvailableIs ==
  ASSUME Available # {}
  PROVE  /\ First(Available) \in Available /\ First(Available) \in Entries
         /\ \A j \in Available : First(Available) <= j
<1>1. Available \subseteq Entries /\ Entries \subseteq Nat
  BY DEF Available, Entries
<1> QED
  BY <1>1, FirstIsLeast

LEMMA NotFound ==
  ASSUME Types, ListedOnce, NEW path \in Paths, Find(path) = 0
  PROVE  \A i \in InUse : root[i].name # path
<1> SUFFICES ASSUME NEW i \in InUse, root[i].name = path PROVE FALSE
  OBVIOUS
<1>1. i \in Entries /\ i \in Listed /\ i \in Nat
  BY DEF ListedOnce, InUse, Entries
<1>2. PICK j \in Before(i) : root[j].name = EndMark
  BY <1>1, FindIs
<1> QED
  BY <1>1, <1>2 DEF Listed

LEMMA InitDirectory ==
  ASSUME Init, SoundImages
  PROVE  Directory
<1>1. PICK card \in Images : fat = card.fat /\ root = card.root /\ data = card.data
  BY DEF Init, DiskInit
<1>2. PICK chain : SoundCard(card, chain)
  BY <1>1 DEF SoundImages
<1>3. \A i \in InUse : \A j \in 1 .. i : root[j].name # EndMark
  BY <1>1, <1>2 DEF SoundCard, InUse
<1>4. \A i, j \in InUse : root[i].name = root[j].name => i = j
  BY <1>1, <1>2 DEF SoundCard, InUse
<1>5. InUse \subseteq Listed
  BY <1>3, CardAssumption DEF InUse, Listed, Before, Entries
<1>6. job.pc = "idle"
  BY NoJobIs DEF Init, DiskInit
<1> QED
  BY <1>4, <1>5, <1>6 DEF Directory, ListedOnce

LEMMA StepDirectory ==
  ASSUME Types, Calls, Buffered, ~stray', Directory, [Next]_vars
  PROVE  Directory'
<1>1. CASE Stays
  BY <1>1 DEF Stays, disk, Directory, ListedOnce, InUse, Listed, Available
<1>2. CASE Ends
  BY <1>2, NoJobIs DEF Ends, disk, Directory, ListedOnce, InUse, Listed, Available
<1>3. CASE Begins
  <2>1. PICK path \in Paths, text \in Texts : job' = NewJob(path, text)
    BY <1>3 DEF Begins
  <2>2. root' = root
    BY <1>3 DEF Begins, disk
  <2>3. /\ job'.pc \in {"write", "create", "unsaved"}
        /\ job'.pc = "write" => job'.entry \in InUse
        /\ job'.pc = "create" => /\ job'.path = path /\ Find(path) = 0 /\ Available # {}
                                 /\ job'.entry = First(Available)
    BY <2>1, NewJobIs
  <2>4. Find(path) = 0 => \A i \in InUse : root[i].name # path
    BY NotFound DEF Directory
  <2>5. ListedOnce' /\ InUse' = InUse /\ Available' = Available
    BY <2>2 DEF Directory, ListedOnce, InUse, Listed, Available
  <2> QED
    BY <2>2, <2>3, <2>4, <2>5 DEF Directory
<1>4. CASE Enters
  <2> DEFINE e == job.entry
             made == [name |-> job.path, firstClusterLow |-> job.found, fileSize |-> 0]
  <2>1. job.path \in Names /\ e = First(Available) /\ Available # {}
        /\ \A i \in InUse : root[i].name # job.path
    BY <1>4, CardAssumption DEF Enters, Calls, Directory
  <2>2. e \in Available /\ e \in Entries /\ \A j \in Available : e <= j
    BY <2>1, AvailableIs
  <2>3. root \in [Entries -> DirEntry] /\ job \in JobRecord
    BY DEF Types, DiskTypeOK
  <2>4. root' = [root EXCEPT ![e] = made] /\ job'.pc = "unsaved"
    BY <1>4, <2>3 DEF Enters, JobRecord
  <2>5. root'[e].name = job.path /\ \A i \in Entries : i # e => root'[i] = root[i]
    BY <2>2, <2>3, <2>4
  <2> HIDE DEF e
  <2>6. InUse' = InUse \cup {e} /\ e \notin InUse
    BY <2>1, <2>2, <2>5, CardAssumption DEF InUse, Available
  <2>7. \A i, j \in InUse' : root'[i].name = root'[j].name => i = j
    <3>1. \A i \in InUse : i \in Entries /\ i # e
      BY <2>6 DEF InUse
    <3> QED
      BY <2>1, <2>5, <2>6, <3>1 DEF Directory, ListedOnce
  <2>8. \A i \in Listed : i \in Listed'
    <3> SUFFICES ASSUME NEW i \in Listed PROVE i \in Listed'
      OBVIOUS
    <3>1. /\ i \in Entries /\ root[i].name # Deleted
          /\ \A j \in Before(i) \cup {i} : root[j].name # EndMark
      BY DEF Listed
    <3>2. Before(i) \cup {i} \subseteq Entries
      BY <3>1, CardAssumption DEF Entries, Before
    <3>3. \A j \in Entries : root'[j].name = root[j].name \/ root'[j].name \in Names
      BY <2>1, <2>5
    <3> QED
      BY <3>1, <3>2, <3>3, CardAssumption DEF Listed
  <2>9. e \in Listed'
    <3>1. \A j \in 1 .. e : j \in Entries /\ (j # e => j < e /\ j \notin Available)
      <4> SUFFICES ASSUME NEW j \in 1 .. e
                   PROVE  j \in Entries /\ (j # e => j < e /\ j \notin Available)
        OBVIOUS
      <4>1. e \in 1 .. RootEntries /\ RootEntries \in Nat
        BY <2>2, CardAssumption DEF Entries
      <4>2. j \in Entries /\ (j # e => j < e)
        BY <4>1 DEF Entries
      <4>3. j < e => ~(e <= j)
        BY <4>1
      <4> QED
        BY <2>2, <4>2, <4>3
    <3>2. \A j \in 1 .. e : root'[j].name # EndMark
      <4> SUFFICES ASSUME NEW j \in 1 .. e PROVE root'[j].name # EndMark
        OBVIOUS
      <4>1. j # e => root[j].name # EndMark /\ root'[j] = root[j]
        BY <2>5, <3>1 DEF Available
      <4>2. root'[e].name # EndMark
        BY <2>1, <2>5, CardAssumption
      <4> QED
        BY <4>1, <4>2
    <3> QED
      BY <2>1, <2>2, <2>5, <3>2, CardAssumption DEF Listed, Before, Entries
  <2>10. ListedOnce'
    BY <2>6, <2>7, <2>8, <2>9 DEF Directory, ListedOnce
  <2> QED
    BY <2>4, <2>10 DEF Directory
<1>5. CASE WritesSize
  <2>1. root \in [Entries -> DirEntry] /\ job \in JobRecord
    BY DEF Types, DiskTypeOK
  <2>2. root' = [root EXCEPT ![job.entry].fileSize = Len(job.text)] /\ job'.pc = "saved"
    BY <1>5, <2>1 DEF WritesSize, JobRecord
  <2>3. \A i \in Entries : root'[i].name = root[i].name
    BY <2>1, <2>2 DEF DirEntry
  <2>4. InUse' = InUse
    BY <2>3 DEF InUse
  <2>5. \A i \in Entries : Before(i) \cup {i} \subseteq Entries
    BY CardAssumption DEF Entries, Before
  <2>6. Listed \subseteq Listed'
    BY <2>3, <2>5 DEF Listed
  <2>7. InUse \subseteq Entries
    BY DEF InUse
  <2> QED
    BY <2>2, <2>3, <2>4, <2>6, <2>7 DEF Directory, ListedOnce
<1>6. CASE WritesFile /\ ~Enters /\ ~WritesSize
  <2>1. root' = root /\ job \in JobRecord
    BY <1>6 DEF WritesFile, Create, EndsChain, Extends, Links, Seals, WritesBlock, Types
  <2>2. /\ job'.entry = job.entry /\ job'.path = job.path
        /\ job'.pc \in {"create", "end", "enter"} => job.pc \in {"create", "end", "enter"}
        /\ job'.pc \in {"write", "link", "seal"} => job.pc \in {"write", "link", "seal"}
    BY <1>6, <2>1
       DEF WritesFile, Create, EndsChain, Extends, Links, Seals, WritesBlock, Writing, JobRecord
  <2>3. ListedOnce' /\ InUse' = InUse /\ Available' = Available
    BY <2>1 DEF Directory, ListedOnce, InUse, Listed, Available
  <2> QED
    BY <2>1, <2>2, <2>3 DEF Directory
<1> QED
  BY <1>1, <1>2, <1>3, <1>4, <1>5, <1>6, StepIs

LEMMA InitBuffered ==
  ASSUME Init, SoundImages
  PROVE  Buffered
<1>1. PICK card \in Images : fat = card.fat /\ root = card.root /\ data = card.data
  BY DEF Init, DiskInit
<1>2. PICK chain : SoundCard(card, chain)
  BY <1>1 DEF SoundImages
<1>3. ASSUME NEW i \in InUse
      PROVE  root[i].firstClusterLow \in Returned
  <2>1. chain[i] \in Seq(FileClusters) /\ chain[i] # <<>>
        /\ chain[i][1] = root[i].firstClusterLow
    BY <1>1, <1>2 DEF SoundCard, InUse
  <2>2. Len(chain[i]) \in Nat /\ Len(chain[i]) # 0
    BY <2>1, EmptySeq
  <2>3. 1 \in 1 .. Len(chain[i])
    BY <2>2
  <2>4. chain[i][1] \in FileClusters
    BY <2>1, <2>3, ElementOfSeq
  <2> QED
    BY <2>1, <2>4, ClusterNumbers DEF FileClusters
<1>4. job.pc = "idle"
  BY NoJobIs DEF Init, DiskInit
<1> QED
  BY <1>3, <1>4 DEF Buffered, Working

LEMMA StepBuffered ==
  ASSUME Types, Calls, Buffered, Directory, [Next]_vars, ~stray'
  PROVE  Buffered'
<1>1. job \in JobRecord /\ root \in [Entries -> DirEntry]
  BY DEF Types, DiskTypeOK
<1> USE DEF JobRecord
<1>2. root' = root => InUse' = InUse /\ \A i \in InUse' : root'[i].firstClusterLow \in Returned
  BY DEF InUse, Buffered
<1>3. CASE Stays
  BY <1>2, <1>3 DEF Stays, disk, Buffered, Working
<1>4. CASE Ends
  BY <1>2, <1>4, NoJobIs DEF Ends, disk, Buffered, Working
<1>5. CASE Begins
  <2>1. PICK path \in Paths, text \in Texts : job' = NewJob(path, text)
    BY <1>5 DEF Begins
  <2>2. /\ job'.pc \in {"write", "create", "unsaved"}
        /\ job'.pc # "unsaved" => job'.buffer = root
        /\ job'.pc = "write" =>
             job'.entry \in InUse /\ job'.cluster = root[job'.entry].firstClusterLow
    BY <2>1, NewJobIs
  <2>3. root' = root
    BY <1>5 DEF Begins, disk
  <2> QED
    BY <1>2, <2>2, <2>3 DEF Buffered, Working
<1>6. CASE Enters
  <2>1. job'.pc = "unsaved" /\ job.found \in Returned
    BY <1>1, <1>6 DEF Enters
  <2>2. \A i \in Entries :
          \/ i # job.entry /\ root'[i] = root[i]
          \/ root'[i].firstClusterLow = job.found
    BY <1>1, <1>6 DEF Enters
  <2>3. \A i \in InUse' : root'[i].firstClusterLow \in Returned
    BY <2>1, <2>2 DEF InUse, Buffered
  <2> QED
    BY <2>1, <2>3 DEF Buffered, Working
<1>7. CASE WritesSize
  <2>1. job'.pc = "saved"
    BY <1>1, <1>7 DEF WritesSize
  <2>2. \A i \in Entries : /\ root'[i].name = root[i].name
                           /\ root'[i].firstClusterLow = root[i].firstClusterLow
    BY <1>1, <1>7 DEF WritesSize, DirEntry
  <2>3. \A i \in InUse' : root'[i].firstClusterLow \in Returned
    BY <2>2 DEF InUse, Buffered
  <2> QED
    BY <2>1, <2>3 DEF Buffered, Working
<1>8. CASE Create \/ EndsChain \/ Extends \/ Links
  <2>1. /\ root' = root /\ job'.buffer = job.buffer
        /\ job'.pc \in {"end", "enter", "link", "seal"} /\ Working
    BY <1>1, <1>8 DEF Create, EndsChain, Extends, Links, Writing, Working
  <2> QED
    BY <1>2, <2>1 DEF Buffered
<1>9. CASE Seals
  <2>1. /\ root' = root /\ job'.buffer = job.buffer /\ job'.cluster \in Returned /\ Working
    BY <1>1, <1>9 DEF Seals, Working
  <2> QED
    BY <1>2, <2>1 DEF Buffered
<1>10. CASE WritesBlock
  <2>1. /\ root' = root /\ job'.buffer = job.buffer /\ job'.block = job.block + 1
        /\ job.block \in Nat /\ Working
    BY <1>1, <1>10 DEF WritesBlock, Writing, Working
  <2>2. job'.block # 0
    BY <2>1
  <2> QED
    BY <1>2, <2>1, <2>2 DEF Buffered
<1> QED
  BY <1>3, <1>4, <1>5, <1>6, <1>7, <1>8, <1>9, <1>10, StepIs DEF WritesFile

----------------------------------------------------------------------------
(* What every step keeps, and what the one that writes astray is.          *)

LEMMA StepKeeps ==
  ASSUME Types, Calls, [Next]_vars
  PROVE  Unused' \subseteq Unused /\ (stray => stray') /\ caught \subseteq caught'
<1>1. UNCHANGED disk => Unused' = Unused /\ stray' = stray
  BY DEF disk, Unused
<1>2. CASE CardStep
  BY <1>2, WriteFileTypes DEF CardStep, power
<1>3. ~CardStep => UNCHANGED disk
  BY DEF Next, vars, OpenFound, OpenCreates, Close, Read, Write, Seek, OpenReturns, CloseReturns,
         PowerCut
<1>4. caught \subseteq caught'
  BY DEF Next, vars, power, OpenFound, OpenCreates, Close, Read, Write, Seek, OpenReturns,
         CloseReturns, PowerCut, CardStep
<1> QED
  BY <1>1, <1>2, <1>3, <1>4

LEMMA StraySteps ==
  ASSUME Types, [Next]_vars, stray' # stray
  PROVE  /\ CardStep /\ job'.found = job.found
         /\ \/ EndChain /\ job.found \notin Clusters
            \/ Link /\ job.prev \notin Clusters
            \/ Seal /\ job.found \notin Clusters
            \/ WriteAstray
<1>1. job \in JobRecord
  BY DEF Types
<1>2. CardStep
  BY DEF disk, Next, vars, OpenFound, OpenCreates, Close, Read, Write, Seek, OpenReturns,
         CloseReturns, PowerCut
<1>3. WriteFile
  BY <1>2 DEF CardStep
<1>4. CASE EndChain
  BY <1>1, <1>2, <1>4 DEF EndChain, SetNext, JobRecord
<1>5. CASE Link
  BY <1>1, <1>2, <1>5 DEF Link, SetNext, JobRecord
<1>6. CASE Seal
  BY <1>1, <1>2, <1>6 DEF Seal, SetNext, JobRecord
<1>7. CASE WriteAstray
  BY <1>1, <1>2, <1>7 DEF WriteAstray, BlockDone, JobRecord
<1>8. CASE Create \/ Enter \/ Extend \/ WriteBlock \/ WriteSize
  BY <1>8 DEF Create, Enter, Extend, WriteBlock, WriteSize
<1> QED
  BY <1>3, <1>4, <1>5, <1>6, <1>7, <1>8 DEF WriteFile

----------------------------------------------------------------------------
(* The unused clusters are the last ones, up to the one that was given out *)
(* in place of the one that was marked.                                    *)
Marking == job.pc \in {"end", "link", "seal"}

Packed(k) ==
  /\ Unused = k .. LastCluster \/ (~Marking /\ Unused = (k .. LastCluster) \ {k + 1})
  /\ Marking /\ job.found \in Clusters => job.found \in {k, k + 1}

Room ==
  /\ \E k \in 1 .. LastCluster + 1 : Packed(k)
  /\ job.pc = "write" /\ AtEnd => job.cluster = Successor(job.prev)
  /\ job.pc = "link" /\ job.prev \in Clusters => fat[job.prev] # 0
  /\ job.pc \in {"end", "enter", "link", "seal"} =>
       job.found >= 2 /\ (FreeCluster \in Clusters => job.found \in Clusters)

LEMMA UnusedIs ==
  /\ Unused \subseteq Clusters /\ Unused \subseteq Nat
  /\ \A n \in Clusters : n \in Unused <=> fat[n] = 0
BY ClusterNumbers DEF Unused

(* What find_free_cluster makes of a packed table.                         *)
LEMMA PackedFirst ==
  ASSUME NEW k \in 1 .. LastCluster + 1, Packed(k)
  PROVE  /\ Unused # {} => First(Unused) = k /\ k <= LastCluster
         /\ Unused = {} => k = LastCluster + 1
<1>1. LastCluster \in Nat /\ k \in Nat
  BY ClusterNumbers
<1>2. Unused \subseteq k .. LastCluster /\ (k <= LastCluster => k \in Unused)
  BY <1>1 DEF Packed
<1>3. Unused # {} => First(Unused) \in Unused /\ \A n \in Unused : First(Unused) <= n
  BY UnusedIs, FirstIsLeast
<1>4. Unused = {} => k = LastCluster + 1
  BY <1>1, <1>2
<1>5. ASSUME Unused # {} PROVE First(Unused) = k /\ k <= LastCluster
  <2> DEFINE f == First(Unused)
  <2>1. f \in Unused /\ f \in k .. LastCluster /\ \A n \in Unused : f <= n
    BY <1>2, <1>3, <1>5
  <2> HIDE DEF f
  <2>2. k <= LastCluster /\ k <= f
    BY <1>1, <2>1
  <2>3. f <= k
    BY <1>2, <2>1, <2>2
  <2>4. f = k
    BY <1>1, <2>1, <2>2, <2>3
  <2> QED
    BY <2>2, <2>4 DEF f
<1> QED
  BY <1>4, <1>5

LEMMA GivesFree ==
  ASSUME Room, ~Marking, FreeCluster \in Clusters
  PROVE  /\ Unused # {} /\ FreeCluster = First(Unused) + 2 /\ FreeCluster \in Unused
<1>1. PICK k \in 1 .. LastCluster + 1 : Packed(k)
  BY DEF Room
<1>2. Unused # {} /\ FreeCluster = First(Unused) + 2
  BY FreeClusters, ClusterNumbers
<1>3. First(Unused) = k
  BY <1>1, <1>2, PackedFirst
<1>4. k + 2 \in k .. LastCluster /\ k + 2 # k + 1
  BY <1>2, <1>3, ClusterNumbers DEF Clusters
<1> QED
  BY <1>1, <1>2, <1>3, <1>4 DEF Packed

LEMMA FoundIsUnused ==
  ASSUME Room, Marking, job.found \in Clusters
  PROVE  /\ job.found \in Unused /\ job.found <= First(Unused) + 1
<1>1. PICK k \in 1 .. LastCluster + 1 : Packed(k)
  BY DEF Room
<1>2. Unused = k .. LastCluster /\ job.found \in {k, k + 1}
  BY <1>1 DEF Packed
<1>3. job.found \in k .. LastCluster
  BY <1>2, ClusterNumbers DEF Clusters
<1>4. First(Unused) = k
  BY <1>1, <1>2, <1>3, PackedFirst
<1> QED
  BY <1>2, <1>3, <1>4, ClusterNumbers

LEMMA MarkUnused ==
  ASSUME Types, fat' = Marked
  PROVE  /\ Unused = {} => Unused' = {}
         /\ Unused # {} => Unused' = Unused \ {First(Unused)}
<1>1. fat \in [Clusters -> ClusterValue]
  BY DEF Types, DiskTypeOK
<1>2. CASE Unused = {}
  BY <1>2, FreeClusters DEF Unused
<1>3. CASE Unused # {}
  <2>1. fat' = [fat EXCEPT ![First(Unused)] = FAT12_EOF_MAX] /\ First(Unused) \in Unused
    BY <1>3, FreeClusters
  <2> QED
    BY <1>1, <1>3, <2>1, ClusterNumbers DEF Unused
<1> QED
  BY <1>2, <1>3

LEMMA NextUnused ==
  ASSUME Types, NEW n, NEW v \in (Returned \ {0}) \cup {FAT12_EOF_MAX}, fat' = WithNext(n, v)
  PROVE  Unused' = Unused \ {n}
<1>1. fat \in [Clusters -> ClusterValue]
  BY DEF Types, DiskTypeOK
<1>2. EntryOf(v) # 0
  BY EntryValues, EndIsItself, ClusterNumbers
<1> QED
  BY <1>1, <1>2, WithNextIs, ClusterNumbers DEF Unused

(* A card that is full stays full.                                         *)
LEMMA FewerUnused ==
  ASSUME Types, Unused' \subseteq Unused
  PROVE  /\ Unused' # {} => First(Unused)' >= First(Unused)
         /\ (FreeCluster \in Clusters)' => FreeCluster \in Clusters
<1>1. Unused' # {} => First(Unused)' \in Unused' /\ FreeCluster' = First(Unused)' + 2
  <2>1. Unused' \subseteq Nat
    BY UnusedIs
  <2> QED
    BY <2>1, FirstIsLeast DEF FreeCluster, FirstData
<1>2. Unused # {} => /\ First(Unused) \in Unused /\ \A n \in Unused : First(Unused) <= n
                     /\ FreeCluster = First(Unused) + 2
  BY FreeClusters
<1>3. Unused' = {} => FreeCluster' = NoCluster
  BY DEF FreeCluster
<1>4. Unused \subseteq Nat /\ Clusters' = Clusters
  BY UnusedIs
<1>5. Unused' # {} =>
        First(Unused)' >= First(Unused) /\ First(Unused)' \in Nat /\ First(Unused) \in Nat
  BY <1>1, <1>2, <1>4
<1> QED
  BY <1>1, <1>2, <1>3, <1>4, <1>5, ClusterNumbers DEF Clusters

LEMMA InitRoom ==
  ASSUME Init, SoundImages
  PROVE  Room
<1>1. PICK card \in Images : fat = card.fat
  BY DEF Init, DiskInit
<1>2. PICK chain : SoundCard(card, chain)
  BY <1>1 DEF SoundImages
<1>3. PICK k \in 1 .. LastCluster + 1 :
        {n \in Clusters : card.fat[n] = FAT12_UNUSED} = k .. LastCluster
  BY <1>2 DEF SoundCard
<1>4. job.pc = "idle"
  BY NoJobIs DEF Init, DiskInit
<1>5. Packed(k)
  BY <1>1, <1>3, <1>4 DEF Packed, Unused, Marking
<1> QED
  BY <1>4, <1>5 DEF Room

(* A step that leaves the table alone and is not at a mark keeps it packed. *)
LEMMA TableSame ==
  ASSUME Room, fat' = fat, ~Marking, ~Marking'
  PROVE  \E k \in 1 .. LastCluster + 1 : Packed(k)'
<1>1. PICK k \in 1 .. LastCluster + 1 : Packed(k)
  BY DEF Room
<1>2. Unused' = Unused
  BY DEF Unused
<1> QED
  BY <1>1, <1>2 DEF Packed

LEMMA MarkPacks ==
  ASSUME Types, Room, ~Marking, fat' = Marked, job'.found = FreeCluster
  PROVE  \E k \in 1 .. LastCluster + 1 : Packed(k)'
<1>1. PICK k \in 1 .. LastCluster + 1 : Packed(k)
  BY DEF Room
<1>2. LastCluster \in Nat /\ k \in Nat
  BY ClusterNumbers
<1>3. CASE Unused = {}
  <2>1. Unused' = {} /\ job'.found \notin Clusters /\ k = LastCluster + 1
    BY <1>1, <1>3, MarkUnused, FreeClusters, PackedFirst, ClusterNumbers
  <2>2. Unused' = k .. LastCluster
    BY <1>2, <2>1
  <2> QED
    BY <2>1, <2>2 DEF Packed
<1>4. CASE Unused # {}
  <2>1. First(Unused) = k /\ k <= LastCluster /\ Unused' = Unused \ {k} /\ job'.found = k + 2
    BY <1>1, <1>4, MarkUnused, FreeClusters, PackedFirst
  <2>2. CASE Unused = k .. LastCluster
    <3>1. Unused' = (k + 1) .. LastCluster /\ k + 1 \in 1 .. LastCluster + 1
      BY <1>2, <2>1, <2>2
    <3>2. job'.found \in {k + 1, (k + 1) + 1}
      BY <1>2, <2>1
    <3> QED
      BY <3>1, <3>2 DEF Packed
  <2>3. CASE Unused # k .. LastCluster
    <3>1. Unused = (k .. LastCluster) \ {k + 1}
      BY <1>1, <2>3 DEF Packed
    <3>2. k + 1 \in k .. LastCluster
      BY <1>2, <2>3, <3>1
    <3>3. Unused' = (k + 2) .. LastCluster /\ k + 2 \in 1 .. LastCluster + 1
      BY <1>2, <2>1, <3>1, <3>2
    <3>4. job'.found \in {k + 2, (k + 2) + 1}
      BY <1>2, <2>1
    <3> QED
      BY <3>3, <3>4 DEF Packed
  <2> QED
    BY <2>2, <2>3
<1> QED
  BY <1>3, <1>4

LEMMA EndPacks ==
  ASSUME Types, Room, Marking, ~Marking', fat' = WithNext(job.found, FAT12_EOF_MAX)
  PROVE  \E k \in 1 .. LastCluster + 1 : Packed(k)'
<1>1. PICK k \in 1 .. LastCluster + 1 : Packed(k)
  BY DEF Room
<1>2. LastCluster \in Nat /\ k \in Nat
  BY ClusterNumbers
<1>3. Unused' = Unused \ {job.found} /\ Unused = k .. LastCluster
  BY <1>1, NextUnused DEF Packed
<1>4. CASE job.found \notin Clusters
  <2>1. job.found \notin Unused
    BY <1>4, UnusedIs
  <2>2. Unused' = k .. LastCluster
    BY <1>3, <2>1
  <2> QED
    BY <2>2 DEF Packed
<1>5. CASE job.found = k + 1
  BY <1>3, <1>5 DEF Packed
<1>6. CASE job.found = k /\ job.found \in Clusters
  <2>1. k <= LastCluster
    BY <1>2, <1>6 DEF Clusters
  <2>2. Unused' = (k + 1) .. LastCluster /\ k + 1 \in 1 .. LastCluster + 1
    BY <1>2, <1>3, <1>6, <2>1
  <2> QED
    BY <2>2 DEF Packed
<1> QED
  BY <1>1, <1>4, <1>5, <1>6 DEF Packed

LEMMA StepRoom ==
  ASSUME Types, Calls, Buffered, Directory, Room, ~stray', [Next]_vars
  PROVE  Room' /\ Unused' \subseteq Unused
<1>1. job \in JobRecord /\ fat \in [Clusters -> ClusterValue] /\ job' \in JobRecord
  BY StepTypes DEF Types, DiskTypeOK
<1> USE DEF JobRecord
<1>2. CASE Stays
  <2>1. UNCHANGED <<fat, root, job>>
    BY <1>2 DEF Stays, disk
  <2> QED
    BY <2>1 DEF Room, Packed, Marking, Unused, AtEnd, Successor, FreeCluster
<1>3. ASSUME UNCHANGED disk, job'.pc \in {"idle", "write", "create", "unsaved"},
             job'.pc = "write" => job'.cluster \in Returned
      PROVE  Room' /\ Unused' \subseteq Unused
  <2>1. fat' = fat /\ Unused' = Unused
    BY <1>3 DEF disk, Unused
  <2>2. \E k \in 1 .. LastCluster + 1 : Packed(k)'
    <3>1. PICK k \in 1 .. LastCluster + 1 : Packed(k)
      BY DEF Room
    <3>2. Packed(k)'
      BY <1>3, <2>1, <3>1 DEF Packed, Marking
    <3> QED
      BY <3>2
  <2>3. job'.pc = "write" => ~AtEnd'
    BY <1>3, EntryValues DEF AtEnd
  <2> QED
    BY <1>3, <2>1, <2>2, <2>3 DEF Room
<1>4. CASE Ends
  BY <1>3, <1>4, NoJobIs DEF Ends
<1>5. CASE Begins
  <2>1. PICK path \in Paths, text \in Texts : job' = NewJob(path, text)
    BY <1>5 DEF Begins
  <2>2. /\ job'.pc \in {"write", "create", "unsaved"}
        /\ job'.pc = "write" =>
             job'.entry \in InUse /\ job'.cluster = root[job'.entry].firstClusterLow
    BY <2>1, NewJobIs
  <2>3. job'.pc = "write" => job'.cluster \in Returned
    BY <2>2 DEF Buffered
  <2> QED
    BY <1>3, <1>5, <2>2, <2>3 DEF Begins
<1>6. CASE Create
  <2>1. ~Marking /\ fat' = Marked /\ job'.found = FreeCluster /\ job'.pc = "end"
    BY <1>1, <1>6 DEF Create, Marking
  <2>2. \E k \in 1 .. LastCluster + 1 : Packed(k)'
    BY <2>1, MarkPacks
  <2>3. Unused' \subseteq Unused
    BY <2>1, MarkUnused
  <2> QED
    BY <2>1, <2>2, <2>3, FreeClusters, FewerUnused DEF Room
<1>7. CASE EndsChain
  <2>1. Marking /\ ~Marking' /\ fat' = WithNext(job.found, FAT12_EOF_MAX) /\ job.pc = "end"
        /\ job'.found = job.found /\ job'.pc = "enter"
    BY <1>1, <1>7 DEF EndsChain, Marking
  <2>2. Unused' \subseteq Unused
    BY <2>1, NextUnused
  <2> QED
    BY <2>1, <2>2, EndPacks, FewerUnused DEF Room
<1>8. CASE Enters
  <2>1. ~Marking /\ ~Marking' /\ fat' = fat /\ job'.pc = "unsaved"
    BY <1>1, <1>8 DEF Enters, Marking
  <2>2. Unused' = Unused
    BY <2>1 DEF Unused
  <2> QED
    BY <2>1, <2>2, TableSame DEF Room
<1>9. CASE Extends
  <2>1. /\ ~Marking /\ fat' = Marked /\ job'.found = FreeCluster
        /\ job'.pc = "link" /\ job.pc = "write" /\ job'.prev = job.prev /\ AtEnd
    BY <1>1, <1>9 DEF Extends, Marking, Writing
  <2>2. \E k \in 1 .. LastCluster + 1 : Packed(k)'
    BY <2>1, MarkPacks
  <2>3. Unused' \subseteq Unused
    BY <2>1, MarkUnused
  <2>4. job.prev \in Clusters => fat[job.prev] # 0
    <3>1. job.cluster = Successor(job.prev) /\ job.cluster # 0
      BY <2>1 DEF Room, AtEnd, FAT12_EOF_MIN
    <3> QED
      BY <3>1 DEF Successor
  <2>5. job'.prev \in Clusters => fat'[job'.prev] # 0
    <3>1. job.prev \in Clusters => job.prev \notin Unused'
      BY <2>3, <2>4, UnusedIs
    <3> QED
      BY <2>1, <3>1, ClusterNumbers DEF Unused
  <2> QED
    BY <2>1, <2>2, <2>3, <2>5, FreeClusters, FewerUnused DEF Room
<1>10. CASE Links
  <2>1. /\ Marking /\ Marking' /\ fat' = WithNext(job.prev, job.found) /\ job'.found = job.found
        /\ job'.pc = "seal" /\ job.pc = "link"
    BY <1>1, <1>10 DEF Links, Marking
  <2>2. job.found \in Returned \ {0}
    BY <1>1, <2>1 DEF Room
  <2>3. Unused' = Unused
    <3>1. job.prev \notin Unused
      BY <2>1, UnusedIs DEF Room
    <3> QED
      BY <2>1, <2>2, <3>1, NextUnused
  <2>4. \E k \in 1 .. LastCluster + 1 : Packed(k)'
    <3>1. PICK k \in 1 .. LastCluster + 1 : Packed(k)
      BY DEF Room
    <3>2. Packed(k)'
      BY <2>1, <2>3, <3>1 DEF Packed
    <3> QED
      BY <3>2
  <2> QED
    BY <2>1, <2>3, <2>4, FewerUnused DEF Room
<1>11. CASE Seals
  <2>1. Marking /\ ~Marking' /\ fat' = WithNext(job.found, FAT12_EOF_MAX)
        /\ job'.cluster = job.found /\ job'.pc = "write"
    BY <1>1, <1>11 DEF Seals, Marking
  <2>2. Unused' \subseteq Unused
    BY <2>1, NextUnused
  <2>3. ~AtEnd'
    BY <1>1, <2>1, EntryValues DEF AtEnd
  <2> QED
    BY <2>1, <2>2, <2>3, EndPacks, FewerUnused DEF Room
<1>12. CASE WritesBlock
  <2>1. ~Marking /\ ~Marking' /\ fat' = fat /\ job'.pc = "write" /\ job'.prev = job.cluster
        /\ job'.cluster = Successor(job.cluster)
    BY <1>1, <1>12 DEF WritesBlock, Writing, Marking
  <2>2. Unused' = Unused
    BY <2>1 DEF Unused
  <2>3. job'.cluster = Successor(job.prev)'
    BY <2>1 DEF Successor
  <2> QED
    BY <2>1, <2>2, <2>3, TableSame DEF Room
<1>13. CASE WritesSize
  <2>1. ~Marking /\ ~Marking' /\ fat' = fat /\ job'.pc = "saved"
    BY <1>1, <1>13 DEF WritesSize, Writing, Marking
  <2>2. Unused' = Unused
    BY <2>1 DEF Unused
  <2> QED
    BY <2>1, <2>2, TableSame DEF Room
<1> QED
  BY <1>2, <1>4, <1>5, <1>6, <1>7, <1>8, <1>9, <1>10, <1>11, <1>12, <1>13, StepIs DEF WritesFile

----------------------------------------------------------------------------
(* The chains of the files, while no block was written elsewhere.          *)

(* Chains is the part of the invariant that speaks of them: ch[i] is the   *)
(* chain of entry i.                                                       *)
ChainSet == [Entries -> Seq(FileClusters)]
EndOf(q) == q[Len(q)]

Chained(q, i) ==
  /\ q # <<>> /\ root[i].firstClusterLow = q[1]
  /\ \A n \in 1 .. Len(q) - 1 : fat[q[n]] = q[n + 1]
  /\ fat[EndOf(q)] \notin 1 .. LastCluster

Sized(q, i) == root[i].fileSize <= Units * Len(q)

Apart(ch) ==
  \A i, j \in InUse : \A m \in 1 .. Len(ch[i]), n \in 1 .. Len(ch[j]) :
    ch[i][m] = ch[j][n] => i = j /\ m = n

Outside(ch, c) == \A i \in InUse : \A n \in 1 .. Len(ch[i]) : ch[i][n] # c

(* Where write_file is on the chain q of its file.                         *)
AtBlock(q) ==
  /\ job.pc = "write" =>
       /\ job.block <= Len(q)
       /\ job.cluster = IF job.block = 0 THEN q[1] ELSE fat[q[job.block]]
       /\ job.block # 0 => job.prev = q[job.block]
  /\ job.pc = "link" =>
       /\ job.block = Len(q) /\ job.block # 0
       /\ job.prev = EndOf(q) /\ IsEnd(fat[job.prev])
  /\ job.pc = "seal" /\ job.found \in Clusters =>
       /\ job.block = Len(q) - 1 /\ job.block # 0
       /\ job.prev = q[job.block] /\ job.found = EndOf(q)

(* What was found is in no chain yet.                                      *)
FoundApart(ch) ==
  /\ job.pc = "enter" => job.found \in FileClusters /\ IsEnd(fat[job.found])
  /\ job.pc \in {"end", "enter", "link"} /\ job.found \in Clusters => Outside(ch, job.found)

(* A chain cut before its end was written ends in an unused cluster.       *)
Cut(ch) ==
  \A i \in InUse : fat[EndOf(ch[i])] = 0 => EndOf(ch[i]) <= First(Unused) + 1

Tame(ch) ==
  caught = {} /\ FreeCluster \in Clusters =>
    \A i \in InUse : IsEnd(fat[EndOf(ch[i])]) \/ (job.pc = "seal" /\ i = job.entry)

Chains(ch) ==
  /\ \A i \in InUse : Chained(ch[i], i) /\ Sized(ch[i], i)
  /\ Apart(ch) /\ AtBlock(ch[job.entry]) /\ FoundApart(ch)
  /\ Cut(ch) /\ Tame(ch)

(* The inductive invariant.                                                *)
FilesInv ==
  /\ Types /\ Calls /\ NoStrayWrites
  /\ ~stray => /\ Buffered /\ Directory /\ Room
               /\ \E ch \in ChainSet : Chains(ch)

----------------------------------------------------------------------------

LEMMA ChainIs ==
  ASSUME Types, NEW q \in Seq(FileClusters), NEW i \in InUse, Chained(q, i)
  PROVE  /\ Len(q) \in Nat \ {0} /\ 1 \in 1 .. Len(q) /\ Len(q) \in 1 .. Len(q)
         /\ \A n \in 1 .. Len(q) : /\ q[n] \in FileClusters /\ q[n] \in Clusters /\ q[n] # 0
                                  /\ fat[q[n]] \in ClusterValue
         /\ EndOf(q) \in FileClusters /\ EndOf(q) \in Clusters /\ EndOf(q) # 0
         /\ \A n \in 1 .. Len(q) : n # Len(q) => n \in 1 .. Len(q) - 1 /\ n + 1 \in 1 .. Len(q)
         /\ \A n \in 1 .. Len(q) : n # Len(q) => fat[q[n]] = q[n + 1] /\ q[n] \notin Unused
<1>1. Len(q) \in Nat \ {0}
  <2>1. Len(q) \in Nat /\ q # <<>>
    BY DEF Chained
  <2>2. Len(q) # 0
    BY <2>1, EmptySeq
  <2> QED
    BY <2>1, <2>2
<1>2. fat \in [Clusters -> ClusterValue]
  BY DEF Types, DiskTypeOK
<1>3. \A n \in 1 .. Len(q) : q[n] \in FileClusters /\ q[n] \in Clusters /\ q[n] # 0
  <2>1. \A n \in 1 .. Len(q) : q[n] \in FileClusters
    BY ElementOfSeq
  <2>2. FileClusters \subseteq Clusters /\ 0 \notin FileClusters
    BY ClusterNumbers DEF FileClusters
  <2> QED
    BY <2>1, <2>2
<1>4. 1 \in 1 .. Len(q) /\ Len(q) \in 1 .. Len(q)
  BY <1>1
<1>5. \A n \in 1 .. Len(q) : n # Len(q) => n \in 1 .. Len(q) - 1 /\ n + 1 \in 1 .. Len(q)
  BY <1>1
<1>6. \A n \in 1 .. Len(q) : n # Len(q) => fat[q[n]] = q[n + 1]
  BY <1>5 DEF Chained
<1>7. \A n \in 1 .. Len(q) : n # Len(q) => q[n] \notin Unused
  BY <1>3, <1>5, <1>6, UnusedIs
<1> QED
  BY <1>1, <1>2, <1>3, <1>4, <1>5, <1>6, <1>7 DEF EndOf

(* A chain survives what is written to other entries, and to its end if no *)
(* cluster follows it there.                                               *)
LEMMA ChainStays ==
  ASSUME Types, NEW q \in Seq(FileClusters), NEW i \in InUse, Chained(q, i),
         root'[i].firstClusterLow = root[i].firstClusterLow,
         \A n \in 1 .. Len(q) : n # Len(q) => fat'[q[n]] = fat[q[n]],
         fat'[EndOf(q)] \notin 1 .. LastCluster
  PROVE  Chained(q, i)'
<1>1. \A n \in 1 .. Len(q) - 1 : n \in 1 .. Len(q) /\ n # Len(q)
  BY ChainIs
<1>2. \A n \in 1 .. Len(q) - 1 : fat'[q[n]] = q[n + 1]
  BY <1>1 DEF Chained
<1> QED
  BY <1>2 DEF Chained, EndOf

LEMMA EntryOfJob ==
  ASSUME Types, Directory, job.pc \in {"write", "link", "seal"}
  PROVE  job.entry \in InUse /\ job.entry \in Entries
BY DEF Directory, InUse

(* Steps that leave the table and the directory alone.                     *)
LEMMA ChainsQuiet ==
  ASSUME NEW ch, Chains(ch), fat' = fat, root' = root, caught \subseteq caught',
         AtBlock(ch[job.entry])', FoundApart(ch)',
         caught' = {} => job.pc # "seal"
  PROVE  Chains(ch)'
<1>1. InUse' = InUse /\ Unused' = Unused /\ FreeCluster' = FreeCluster
  BY DEF InUse, Unused, FreeCluster
<1>2. Cut(ch)'
  BY <1>1 DEF Chains, Cut
<1>3. Tame(ch)'
  BY <1>1 DEF Chains, Tame
<1>4. Apart(ch)'
  BY <1>1 DEF Chains, Apart
<1>5. (\A i \in InUse : Chained(ch[i], i) /\ Sized(ch[i], i))'
  BY <1>1 DEF Chains, Chained, Sized
<1> QED
  BY <1>2, <1>3, <1>4, <1>5 DEF Chains

LEMMA StaysChains ==
  ASSUME Stays, NEW ch, Chains(ch)
  PROVE  Chains(ch)'
<1>1. UNCHANGED <<fat, root, job, caught>>
  BY DEF Stays, disk
<1>2. InUse' = InUse /\ Unused' = Unused /\ FreeCluster' = FreeCluster
  BY <1>1 DEF InUse, Unused, FreeCluster
<1> QED
  BY <1>1, <1>2
     DEF Chains, Chained, Sized, Apart, AtBlock, FoundApart, Outside, Cut, Tame, IsEnd, EndOf

LEMMA EndsChains ==
  ASSUME Ends, NEW ch, Chains(ch)
  PROVE  Chains(ch)'
<1>1. fat' = fat /\ root' = root /\ job'.pc = "idle"
  BY NoJobIs DEF Ends, disk
<1>2. AtBlock(ch[job.entry])' /\ FoundApart(ch)'
  BY <1>1 DEF AtBlock, FoundApart
<1> QED
  BY <1>1, <1>2, ChainsQuiet DEF Ends

LEMMA BeginsChains ==
  ASSUME Types, Calls, Begins, NEW ch \in ChainSet, Chains(ch)
  PROVE  Chains(ch)'
<1>1. fat' = fat /\ root' = root /\ caught' = caught /\ job.pc = "idle"
  BY DEF Begins, disk
<1>2. PICK path \in Paths, text \in Texts : job' = NewJob(path, text)
  BY DEF Begins
<1>3. /\ job'.pc \in {"write", "create", "unsaved"} /\ job'.block = 0
      /\ job'.pc = "write" =>
           job'.entry \in InUse /\ job'.cluster = root[job'.entry].firstClusterLow
  BY <1>2, NewJobIs
<1>4. FoundApart(ch)'
  BY <1>3 DEF FoundApart
<1>5. AtBlock(ch[job.entry])'
  <2>1. CASE job'.pc = "write"
    <3>1. job'.entry \in InUse /\ job'.entry \in Entries
      BY <1>3, <2>1 DEF InUse
    <3>2. job'.cluster = ch[job'.entry][1] /\ 0 <= Len(ch[job'.entry])
      BY <1>3, <2>1, <3>1, ChainIs DEF Chains, Chained, ChainSet
    <3> QED
      BY <1>3, <2>1, <3>2 DEF AtBlock
  <2>2. CASE job'.pc # "write"
    BY <1>3, <2>2 DEF AtBlock
  <2> QED
    BY <2>1, <2>2
<1> QED
  BY <1>1, <1>4, <1>5, ChainsQuiet

(* find_free_cluster marks an entry: of a chain at most its end, and what  *)
(* it returns is in no chain.                                              *)
LEMMA MarkKeeps ==
  ASSUME Types, Room, ~Marking, NEW ch \in ChainSet, Chains(ch),
         fat' = Marked, root' = root, caught' = caught
  PROVE  /\ (\A i \in InUse : Chained(ch[i], i) /\ Sized(ch[i], i))'
         /\ Apart(ch)' /\ Cut(ch)'
         /\ job.pc # "seal" => Tame(ch)'
         /\ FreeCluster \in Clusters => Outside(ch, FreeCluster)
         /\ \A c \in Clusters : IsEnd(fat[c]) => fat'[c] = fat[c]
<1>1. fat \in [Clusters -> ClusterValue] /\ InUse' = InUse /\ LastCluster \in Nat
  BY ClusterNumbers DEF Types, DiskTypeOK, InUse
<1>2. \A c \in Clusters : fat'[c] = fat[c] \/ (c \in Unused /\ fat'[c] = FAT12_EOF_MAX)
  BY <1>1, FreeClusters
<1>3. \A i \in InUse : ch[i] \in Seq(FileClusters) /\ Chained(ch[i], i) /\ Sized(ch[i], i)
  BY DEF Chains, ChainSet, InUse
<1>4. FAT12_EOF_MAX \notin 1 .. LastCluster /\ IsEnd(FAT12_EOF_MAX) /\ FAT12_EOF_MAX # 0
  BY ClusterNumbers DEF Clusters
<1>5. ASSUME NEW i \in InUse
      PROVE  /\ Chained(ch[i], i)' /\ Sized(ch[i], i)'
             /\ fat'[EndOf(ch[i])] = fat[EndOf(ch[i])] \/ IsEnd(fat'[EndOf(ch[i])])
             /\ fat'[EndOf(ch[i])] = 0 => fat[EndOf(ch[i])] = 0
  <2>1. \A n \in 1 .. Len(ch[i]) : n # Len(ch[i]) => fat'[ch[i][n]] = fat[ch[i][n]]
    BY <1>2, <1>3, ChainIs
  <2>2. EndOf(ch[i]) \in Clusters
    BY <1>3, ChainIs
  <2>3. fat[EndOf(ch[i])] \notin 1 .. LastCluster
    BY <1>3 DEF Chained
  <2>4. fat'[EndOf(ch[i])] \notin 1 .. LastCluster
    BY <1>2, <1>4, <2>2, <2>3
  <2>5. Chained(ch[i], i)'
    BY <1>3, <2>1, <2>4, ChainStays
  <2> QED
    BY <1>2, <1>3, <1>4, <2>2, <2>5 DEF Sized
<1>6. (\A i \in InUse : Chained(ch[i], i) /\ Sized(ch[i], i))'
  BY <1>1, <1>5
<1>7. Apart(ch)'
  BY <1>1 DEF Chains, Apart
<1>8. Unused' \subseteq Unused
  BY MarkUnused
<1>9. Cut(ch)'
  <2> SUFFICES ASSUME NEW i \in InUse, fat'[EndOf(ch[i])] = 0
               PROVE  EndOf(ch[i]) <= First(Unused)' + 1
    BY <1>1 DEF Cut, EndOf
  <2>1. fat[EndOf(ch[i])] = 0 /\ EndOf(ch[i]) \in Clusters /\ EndOf(ch[i]) \in Nat
    BY <1>3, <1>5, ChainIs, ClusterNumbers
  <2>2. EndOf(ch[i]) \in Unused /\ EndOf(ch[i]) <= First(Unused) + 1
    BY <2>1, UnusedIs DEF Chains, Cut
  <2>3. EndOf(ch[i]) \in Unused'
    BY <2>1 DEF Unused, FAT12_UNUSED
  <2>4. First(Unused)' >= First(Unused) /\ First(Unused) \in Nat /\ First(Unused)' \in Nat
    <3>1. First(Unused)' >= First(Unused) /\ First(Unused) \in Nat
      BY <1>8, <2>2, <2>3, FewerUnused, FreeClusters, UnusedIs
    <3>2. Unused' \subseteq Nat /\ Unused' # {}
      BY <1>8, <2>3, UnusedIs
    <3> QED
      BY <3>1, <3>2, FirstIsLeast
  <2> QED
    BY <2>1, <2>2, <2>4
<1>10. \A c \in Clusters : IsEnd(fat[c]) => fat'[c] = fat[c]
  <2>1. \A c \in Unused : ~IsEnd(fat[c])
    BY UnusedIs, EndValues, ClusterNumbers
  <2> QED
    BY <1>2, <2>1
<1>11. job.pc # "seal" => Tame(ch)'
  <2> SUFFICES ASSUME job.pc # "seal", caught' = {}, (FreeCluster \in Clusters)', NEW i \in InUse
               PROVE  IsEnd(fat[EndOf(ch[i])])'
    BY <1>1 DEF Tame
  <2>1. IsEnd(fat[EndOf(ch[i])])
    BY <1>8, FewerUnused DEF Chains, Tame
  <2> QED
    BY <1>5, <2>1 DEF IsEnd, EndOf
<1>12. FreeCluster \in Clusters => Outside(ch, FreeCluster)
  <2> SUFFICES ASSUME FreeCluster \in Clusters, NEW i \in InUse, NEW n \in 1 .. Len(ch[i]),
                      ch[i][n] = FreeCluster
               PROVE  FALSE
    BY DEF Outside
  <2>1. FreeCluster \in Unused /\ FreeCluster = First(Unused) + 2 /\ First(Unused) \in Nat
    BY GivesFree, FreeClusters, UnusedIs
  <2>2. n = Len(ch[i])
    BY <1>3, <2>1, ChainIs
  <2>3. fat[EndOf(ch[i])] = 0 /\ EndOf(ch[i]) = FreeCluster
    BY <2>1, <2>2, UnusedIs DEF EndOf
  <2>4. FreeCluster <= First(Unused) + 1
    BY <2>3 DEF Chains, Cut
  <2> QED
    BY <2>1, <2>4
<1> QED
  BY <1>6, <1>7, <1>9, <1>10, <1>11, <1>12

LEMMA CreateChains ==
  ASSUME Types, Room, Create, caught' = caught, NEW ch \in ChainSet, Chains(ch)
  PROVE  Chains(ch)'
<1>1. /\ fat' = Marked /\ root' = root /\ job.pc = "create" /\ job'.pc = "end"
      /\ job'.found = FreeCluster /\ job'.entry = job.entry
  BY DEF Create, Types, JobRecord
<1>2. ~Marking
  BY <1>1 DEF Marking
<1>3. FoundApart(ch)'
  <2>1. FreeCluster \in Clusters => Outside(ch, FreeCluster)
    BY <1>1, <1>2, MarkKeeps
  <2>2. InUse' = InUse
    BY <1>1 DEF InUse
  <2> QED
    BY <1>1, <2>1, <2>2 DEF FoundApart, Outside
<1>4. AtBlock(ch[job.entry])'
  BY <1>1 DEF AtBlock
<1> QED
  BY <1>1, <1>2, <1>3, <1>4, MarkKeeps DEF Chains

LEMMA ExtendChains ==
  ASSUME Types, Directory, Room, Extends, caught' = caught, NEW ch \in ChainSet, Chains(ch)
  PROVE  Chains(ch)'
<1> DEFINE e == job.entry
<1>1. /\ fat' = Marked /\ root' = root /\ job.pc = "write" /\ job'.pc = "link" /\ AtEnd
      /\ job'.found = FreeCluster /\ job'.entry = e
      /\ job'.block = job.block /\ job'.prev = job.prev
  BY DEF Extends, Writing, Types, JobRecord
<1>2. ~Marking
  BY <1>1 DEF Marking
<1>3. FoundApart(ch)'
  <2>1. FreeCluster \in Clusters => Outside(ch, FreeCluster)
    BY <1>1, <1>2, MarkKeeps
  <2>2. InUse' = InUse
    BY <1>1 DEF InUse
  <2> QED
    BY <1>1, <2>1, <2>2 DEF FoundApart, Outside
<1>4. e \in InUse /\ ch[e] \in Seq(FileClusters) /\ Chained(ch[e], e) /\ job.block \in Nat
  BY <1>1, EntryOfJob DEF Chains, ChainSet, Types, JobRecord
<1>5. /\ job.block <= Len(ch[e])
      /\ job.cluster = IF job.block = 0 THEN ch[e][1] ELSE fat[ch[e][job.block]]
      /\ job.block # 0 => job.prev = ch[e][job.block]
  BY <1>1 DEF Chains, AtBlock
<1>6. \A c \in Clusters : job.cluster # c
  BY <1>1, EndValues DEF AtEnd
<1>7. job.block # 0
  BY <1>4, <1>5, <1>6, ChainIs
<1>8. job.block \in 1 .. Len(ch[e]) /\ job.block = Len(ch[e])
  <2>1. job.block \in 1 .. Len(ch[e])
    BY <1>4, <1>5, <1>7, ChainIs
  <2>2. job.block # Len(ch[e]) =>
          job.cluster = ch[e][job.block + 1] /\ job.block + 1 \in 1 .. Len(ch[e])
    BY <1>4, <1>5, <1>7, <2>1, ChainIs
  <2> QED
    BY <1>4, <1>6, <2>1, <2>2, ChainIs
<1>9. job.prev = EndOf(ch[e]) /\ job.prev \in Clusters /\ IsEnd(fat[job.prev])
  <2>1. job.prev = EndOf(ch[e]) /\ job.prev \in Clusters /\ fat[job.prev] = job.cluster
    BY <1>4, <1>5, <1>7, <1>8, ChainIs DEF EndOf
  <2>2. fat[job.prev] \in ClusterValue
    BY <2>1 DEF Types, DiskTypeOK
  <2> QED
    BY <1>1, <2>1, <2>2, EndValues DEF AtEnd
<1>10. AtBlock(ch[job.entry])'
  <2>1. fat'[job.prev] = fat[job.prev]
    BY <1>1, <1>2, <1>9, MarkKeeps
  <2> QED
    BY <1>1, <1>7, <1>8, <1>9, <2>1 DEF AtBlock, IsEnd, EndOf
<1> QED
  BY <1>1, <1>2, <1>3, <1>10, MarkKeeps DEF Chains

LEMMA WriteBlockChains ==
  ASSUME Types, Directory, WritesBlock, ~stray', caught' = caught, NEW ch \in ChainSet, Chains(ch)
  PROVE  /\ Chains(ch)'
         /\ job.block + 1 \in 1 .. Len(ch[job.entry]) /\ job.cluster = ch[job.entry][job.block + 1]
<1> DEFINE e == job.entry
<1>1. /\ fat' = fat /\ root' = root /\ job.pc = "write" /\ job'.pc = "write"
      /\ job'.entry = e /\ job'.block = job.block + 1 /\ job'.prev = job.cluster
      /\ job'.cluster = Successor(job.cluster) /\ job.cluster \in FileClusters
  BY DEF WritesBlock, Writing, Types, JobRecord, FileClusters
<1>2. e \in InUse /\ ch[e] \in Seq(FileClusters) /\ Chained(ch[e], e) /\ job.block \in Nat
  BY <1>1, EntryOfJob DEF Chains, ChainSet, Types, JobRecord
<1>3. /\ job.block <= Len(ch[e])
      /\ job.cluster = IF job.block = 0 THEN ch[e][1] ELSE fat[ch[e][job.block]]
  BY <1>1 DEF Chains, AtBlock
<1>4. FileClusters \subseteq 1 .. LastCluster /\ FileClusters \subseteq Clusters
  BY ClusterNumbers DEF FileClusters
<1>5. job.block + 1 \in 1 .. Len(ch[e]) /\ job.cluster = ch[e][job.block + 1]
  <2>1. CASE job.block = 0
    BY <1>2, <1>3, <2>1, ChainIs
  <2>2. CASE job.block # 0
    <3>1. job.block \in 1 .. Len(ch[e]) /\ job.cluster = fat[ch[e][job.block]]
      BY <1>2, <1>3, <2>2, ChainIs
    <3>2. job.block # Len(ch[e])
      BY <1>1, <1>2, <1>4, <3>1 DEF Chained, EndOf
    <3> QED
      BY <1>2, <3>1, <3>2, ChainIs
  <2> QED
    BY <2>1, <2>2
<1>6. job'.cluster = fat[job.cluster]
  BY <1>1, <1>4 DEF Successor
<1>7. AtBlock(ch[job.entry])'
  BY <1>1, <1>2, <1>5, <1>6, ChainIs DEF AtBlock
<1>8. FoundApart(ch)'
  BY <1>1 DEF FoundApart
<1> QED
  BY <1>1, <1>5, <1>7, <1>8, ChainsQuiet

LEMMA WriteSizeChains ==
  ASSUME Types, Directory, WritesSize, caught' = caught, NEW ch \in ChainSet, Chains(ch)
  PROVE  Chains(ch)'
<1>0. PICK e \in InUse : e = job.entry
  BY EntryOfJob DEF WritesSize
<1>1. /\ fat' = fat /\ job.pc = "write" /\ job'.pc = "saved" /\ ~(job.block * Units < Len(job.text))
      /\ root' = [root EXCEPT ![e].fileSize = Len(job.text)]
  BY <1>0 DEF WritesSize, Writing, Types, JobRecord
<1>2. e \in InUse /\ ch[e] \in Seq(FileClusters) /\ Chained(ch[e], e) /\ job.block \in Nat
  BY <1>0, <1>1, EntryOfJob DEF Chains, ChainSet, Types, JobRecord
<1>3. root \in [Entries -> DirEntry] /\ e \in Entries /\ Len(job.text) \in Nat
  BY <1>0, <1>1, EntryOfJob DEF Types, DiskTypeOK, JobRecord
<1>4. /\ \A i \in Entries : /\ root'[i].name = root[i].name
                            /\ root'[i].firstClusterLow = root[i].firstClusterLow
                            /\ i # e => root'[i].fileSize = root[i].fileSize
      /\ root'[e].fileSize = Len(job.text)
  BY <1>1, <1>3 DEF DirEntry
<1>5. InUse' = InUse /\ InUse \subseteq Entries /\ Unused' = Unused /\ FreeCluster' = FreeCluster
  BY <1>1, <1>4 DEF InUse, Unused, FreeCluster
<1>6. Sized(ch[e], e)'
  <2>1. job.block <= Len(ch[e]) /\ Len(ch[e]) \in Nat /\ Units \in Nat
    BY <1>0, <1>1, <1>2, CardAssumption DEF Chains, AtBlock
  <2>2. \A b, n, u \in Nat : b <= n => b * u <= u * n
    OBVIOUS
  <2>3. job.block * Units <= Units * Len(ch[e])
    BY <1>2, <2>1, <2>2
  <2>4. job.block * Units \in Nat /\ Units * Len(ch[e]) \in Nat
    BY <1>2, <2>1
  <2>5. Len(job.text) <= Units * Len(ch[e])
    BY <1>1, <1>3, <2>3, <2>4
  <2> QED
    BY <1>4, <2>5 DEF Sized
<1>7. \A i \in InUse : i # e => Sized(ch[i], i)'
  BY <1>4, <1>5 DEF Chains, Sized
<1>8. \A i \in InUse : Chained(ch[i], i)'
  BY <1>1, <1>4, <1>5 DEF Chains, Chained, EndOf
<1>9. Apart(ch)' /\ Cut(ch)'
  BY <1>1, <1>5 DEF Chains, Apart, Cut, EndOf
<1>10. Tame(ch)'
  BY <1>1, <1>5 DEF Chains, Tame
<1>11. AtBlock(ch[job.entry])' /\ FoundApart(ch)'
  BY <1>1 DEF AtBlock, FoundApart
<1> QED
  BY <1>5, <1>6, <1>7, <1>8, <1>9, <1>10, <1>11 DEF Chains

(* A write to an entry of the table that is no chain's, or ends one.       *)
LEMMA EndKeeps ==
  ASSUME Types, NEW ch \in ChainSet, Chains(ch), NEW c \in FileClusters,
         fat' = WithNext(c, FAT12_EOF_MAX), root' = root, caught' = caught,
         \A i \in InUse : \A n \in 1 .. Len(ch[i]) : ch[i][n] = c => n = Len(ch[i])
  PROVE  /\ (\A i \in InUse : Chained(ch[i], i) /\ Sized(ch[i], i))'
         /\ Apart(ch)' /\ Cut(ch)' /\ IsEnd(fat'[c])
         /\ \A i \in InUse : /\ fat'[EndOf(ch[i])] = fat[EndOf(ch[i])] \/ IsEnd(fat'[EndOf(ch[i])])
                            /\ EndOf(ch[i]) = c => IsEnd(fat'[EndOf(ch[i])])
         /\ (FreeCluster \in Clusters)' => FreeCluster \in Clusters
<1>1. fat \in [Clusters -> ClusterValue] /\ InUse' = InUse /\ LastCluster \in Nat
      /\ c \in Clusters /\ c # 0
  BY ClusterNumbers DEF Types, DiskTypeOK, InUse, FileClusters
<1>2. fat' = [fat EXCEPT ![c] = FAT12_EOF_MAX]
  BY <1>1, WithNextIs, EndIsItself
<1>3. \A i \in InUse : ch[i] \in Seq(FileClusters) /\ Chained(ch[i], i) /\ Sized(ch[i], i)
  BY DEF Chains, ChainSet, InUse
<1>4. FAT12_EOF_MAX \notin 1 .. LastCluster /\ IsEnd(FAT12_EOF_MAX) /\ FAT12_EOF_MAX # 0
  BY ClusterNumbers DEF Clusters
<1>5. ASSUME NEW i \in InUse
      PROVE  /\ Chained(ch[i], i)' /\ Sized(ch[i], i)'
             /\ fat'[EndOf(ch[i])] = fat[EndOf(ch[i])] \/ IsEnd(fat'[EndOf(ch[i])])
             /\ fat'[EndOf(ch[i])] = 0 => fat[EndOf(ch[i])] = 0
             /\ EndOf(ch[i]) = c => IsEnd(fat'[EndOf(ch[i])])
  <2>1. \A n \in 1 .. Len(ch[i]) : n # Len(ch[i]) => fat'[ch[i][n]] = fat[ch[i][n]]
    BY <1>1, <1>2, <1>3, ChainIs
  <2>2. EndOf(ch[i]) \in Clusters
    BY <1>3, ChainIs
  <2>3. fat[EndOf(ch[i])] \notin 1 .. LastCluster
    BY <1>3 DEF Chained
  <2>4. fat'[EndOf(ch[i])] \notin 1 .. LastCluster
    BY <1>1, <1>2, <1>4, <2>2, <2>3
  <2>5. Chained(ch[i], i)'
    BY <1>3, <2>1, <2>4, ChainStays
  <2> QED
    BY <1>1, <1>2, <1>3, <1>4, <2>2, <2>5 DEF Sized
<1>6. (\A i \in InUse : Chained(ch[i], i) /\ Sized(ch[i], i))'
  BY <1>1, <1>5
<1>7. Apart(ch)'
  BY <1>1 DEF Chains, Apart
<1>8. Unused' \subseteq Unused
  BY NextUnused
<1>9. Cut(ch)'
  <2> SUFFICES ASSUME NEW i \in InUse, fat'[EndOf(ch[i])] = 0
               PROVE  EndOf(ch[i]) <= First(Unused)' + 1
    BY <1>1 DEF Cut, EndOf
  <2>1. fat[EndOf(ch[i])] = 0 /\ EndOf(ch[i]) \in Clusters /\ EndOf(ch[i]) \in Nat
    BY <1>3, <1>5, ChainIs, ClusterNumbers
  <2>2. EndOf(ch[i]) \in Unused /\ EndOf(ch[i]) <= First(Unused) + 1
    BY <2>1, UnusedIs DEF Chains, Cut
  <2>3. EndOf(ch[i]) \in Unused'
    BY <2>1 DEF Unused, FAT12_UNUSED
  <2>4. First(Unused)' >= First(Unused) /\ First(Unused) \in Nat /\ First(Unused)' \in Nat
    <3>1. First(Unused)' >= First(Unused) /\ First(Unused) \in Nat
      BY <1>8, <2>2, <2>3, FewerUnused, FreeClusters, UnusedIs
    <3>2. Unused' \subseteq Nat /\ Unused' # {}
      BY <1>8, <2>3, UnusedIs
    <3> QED
      BY <3>1, <3>2, FirstIsLeast
  <2> QED
    BY <2>1, <2>2, <2>4
<1>10. IsEnd(fat'[c])
  BY <1>1, <1>2, <1>4
<1> QED
  BY <1>5, <1>6, <1>7, <1>8, <1>9, <1>10, FewerUnused

(* The mark of an end leaves the other ends as they are.                   *)
LEMMA EndsStay ==
  ASSUME Types, NEW ch \in ChainSet, Chains(ch), NEW c \in Clusters,
         fat' = WithNext(c, FAT12_EOF_MAX)
  PROVE  /\ \A i \in InUse : IsEnd(fat[EndOf(ch[i])]) => IsEnd(fat'[EndOf(ch[i])])
         /\ IsEnd(fat'[c])
<1>1. fat \in [Clusters -> ClusterValue]
  BY DEF Types, DiskTypeOK
<1>2. fat' = [fat EXCEPT ![c] = FAT12_EOF_MAX] /\ IsEnd(FAT12_EOF_MAX)
  BY WithNextIs, EndIsItself, ClusterNumbers
<1>3. \A i \in InUse : EndOf(ch[i]) \in Clusters
  BY ChainIs DEF Chains, ChainSet, InUse
<1> QED
  BY <1>1, <1>2, <1>3

LEMMA EndChainChains ==
  ASSUME Types, Room, EndsChain, ~stray', caught' = caught, NEW ch \in ChainSet, Chains(ch)
  PROVE  Chains(ch)'
<1>1. /\ fat' = WithNext(job.found, FAT12_EOF_MAX) /\ root' = root
      /\ job.pc = "end" /\ job'.pc = "enter"
      /\ job'.found = job.found /\ job'.entry = job.entry /\ job.found \in Clusters
  BY DEF EndsChain, Types, JobRecord
<1>2. job.found \in FileClusters
  BY <1>1, ClusterNumbers DEF Room, FileClusters, Clusters
<1>3. Outside(ch, job.found)
  BY <1>1 DEF Chains, FoundApart
<1>4. \A i \in InUse : \A n \in 1 .. Len(ch[i]) : ch[i][n] = job.found => n = Len(ch[i])
  BY <1>3 DEF Outside
<1>5. InUse' = InUse
  BY <1>1 DEF InUse
<1>6. FoundApart(ch)'
  <2>1. IsEnd(fat'[job.found])
    BY <1>1, <1>2, <1>4, EndKeeps
  <2> QED
    BY <1>1, <1>2, <1>3, <1>5, <2>1 DEF FoundApart, Outside, IsEnd
<1>7. AtBlock(ch[job.entry])'
  BY <1>1 DEF AtBlock
<1>9. \A j \in InUse : IsEnd(fat[EndOf(ch[j])]) => IsEnd(fat'[EndOf(ch[j])])
  BY <1>1, EndsStay
<1>8. Tame(ch)'
  <2> SUFFICES ASSUME caught' = {}, (FreeCluster \in Clusters)', NEW i \in InUse
               PROVE  IsEnd(fat[EndOf(ch[i])])'
    BY <1>5 DEF Tame
  <2>1. FreeCluster \in Clusters
    BY <1>1, <1>2, <1>4, EndKeeps
  <2>2. IsEnd(fat[EndOf(ch[i])])
    BY <1>1, <2>1 DEF Chains, Tame
  <2>4. IsEnd(fat'[EndOf(ch[i])])
    BY <1>9, <2>2
  <2> QED
    BY <2>4 DEF IsEnd, EndOf
<1> QED
  BY <1>1, <1>2, <1>4, <1>6, <1>7, <1>8, EndKeeps DEF Chains

LEMMA SealChains ==
  ASSUME Types, Directory, Room, Seals, ~stray', caught' = caught, NEW ch \in ChainSet, Chains(ch)
  PROVE  Chains(ch)'
<1>0. PICK e \in InUse : e = job.entry
  BY EntryOfJob DEF Seals
<1>1. /\ fat' = WithNext(job.found, FAT12_EOF_MAX) /\ root' = root
      /\ job.pc = "seal" /\ job'.pc = "write"
      /\ job'.cluster = job.found /\ job'.entry = e /\ job.found \in Clusters
      /\ job'.prev = job.prev /\ job'.block = job.block
  BY <1>0 DEF Seals, Types, JobRecord
<1>2. job.found \in FileClusters
  BY <1>1, ClusterNumbers DEF Room, FileClusters, Clusters
<1>3. ch[e] \in Seq(FileClusters) /\ Chained(ch[e], e) /\ job.block \in Nat
  BY <1>1 DEF Chains, ChainSet, Types, JobRecord, InUse
<1>4. /\ job.block = Len(ch[e]) - 1 /\ job.block # 0
      /\ job.prev = ch[e][job.block] /\ job.found = EndOf(ch[e])
  BY <1>0, <1>1 DEF Chains, AtBlock
<1>5. \A i \in InUse : \A n \in 1 .. Len(ch[i]) : ch[i][n] = job.found => i = e /\ n = Len(ch[i])
  <2>1. Len(ch[e]) \in 1 .. Len(ch[e]) /\ ch[e][Len(ch[e])] = job.found
    BY <1>3, <1>4, ChainIs DEF EndOf
  <2> QED
    BY <2>1 DEF Chains, Apart
<1>6. InUse' = InUse
  BY <1>1 DEF InUse
<1>7. AtBlock(ch[job.entry])'
  <2>1. job.block \in 1 .. Len(ch[e]) /\ job.block # Len(ch[e]) /\ job.block + 1 = Len(ch[e])
    <3>1. Len(ch[e]) \in Nat \ {0}
      BY <1>3, ChainIs
    <3>2. job.block = Len(ch[e]) - 1 /\ job.block # 0
      BY <1>4
    <3>3. \A n \in Nat \ {0} : n - 1 # 0 => n - 1 \in 1 .. n /\ n - 1 # n /\ (n - 1) + 1 = n
      OBVIOUS
    <3> QED
      BY <3>1, <3>2, <3>3
  <2>2. Chained(ch[e], e)'
    BY <1>1, <1>2, <1>5, <1>6, EndKeeps
  <2>3. job.block \in 1 .. Len(ch[e]) - 1
    BY <1>3, <2>1, ChainIs
  <2>4. fat'[ch[e][job.block]] = ch[e][job.block + 1]
    BY <2>2, <2>3 DEF Chained
  <2>5. job'.cluster = fat'[ch[e][job.block]] /\ job.block <= Len(ch[e])
    BY <1>1, <1>3, <1>4, <2>1, <2>4 DEF EndOf
  <2> QED
    BY <1>1, <1>4, <2>5 DEF AtBlock
<1>8. FoundApart(ch)'
  BY <1>1 DEF FoundApart
<1>10. /\ \A j \in InUse : IsEnd(fat[EndOf(ch[j])]) => IsEnd(fat'[EndOf(ch[j])])
       /\ IsEnd(fat'[job.found])
  BY <1>1, EndsStay
<1>9. Tame(ch)'
  <2> SUFFICES ASSUME caught' = {}, (FreeCluster \in Clusters)', NEW i \in InUse
               PROVE  IsEnd(fat[EndOf(ch[i])])'
    BY <1>6 DEF Tame
  <2>1. FreeCluster \in Clusters
    BY <1>1, <1>2, <1>5, EndKeeps
  <2>2. IsEnd(fat[EndOf(ch[i])]) \/ i = e
    BY <1>0, <1>1, <2>1 DEF Chains, Tame
  <2>4. IsEnd(fat'[EndOf(ch[i])])
    BY <1>4, <1>10, <2>2
  <2> QED
    BY <2>4 DEF IsEnd, EndOf
<1> QED
  BY <1>1, <1>2, <1>5, <1>7, <1>8, <1>9, EndKeeps DEF Chains

(* What was found is put at the end of the chain; a number that is no      *)
(* cluster leaves the chain without an end.                                *)
LEMMA LinkChains ==
  ASSUME Types, Directory, Room, Links, caught' = caught, NEW ch \in ChainSet, Chains(ch)
  PROVE  \E more \in ChainSet : Chains(more)'
<1>0. PICK e \in InUse : e = job.entry
  BY EntryOfJob DEF Links
<1>1. /\ fat' = WithNext(job.prev, job.found) /\ root' = root /\ job.pc = "link" /\ job'.pc = "seal"
      /\ job'.found = job.found /\ job'.entry = e /\ job'.prev = job.prev /\ job'.block = job.block
      /\ job.found \in Returned /\ job.found >= 2
  BY <1>0 DEF Links, Types, JobRecord, Room
<1>2. PICK q \in Seq(FileClusters) : q = ch[e] /\ Chained(q, e) /\ Sized(q, e) /\ e \in Entries
  BY DEF Chains, ChainSet, InUse
<1>3. /\ job.block = Len(q) /\ job.block # 0
      /\ job.prev = EndOf(q) /\ IsEnd(fat[job.prev])
  BY <1>0, <1>1, <1>2 DEF Chains, AtBlock
<1>4. /\ fat \in [Clusters -> ClusterValue] /\ InUse' = InUse /\ job.prev \in Clusters
      /\ Len(q) \in Nat \ {0} /\ Len(q) \in 1 .. Len(q) /\ q[Len(q)] = job.prev
  BY <1>1, <1>2, <1>3, ChainIs DEF Types, DiskTypeOK, InUse, EndOf
<1>5. fat' = [fat EXCEPT ![job.prev] = EntryOf(job.found)]
  BY <1>1, <1>4, WithNextIs
<1>6. Unused' = Unused /\ FreeCluster' = FreeCluster
  <2>1. job.prev \notin Unused
    BY <1>3, <1>4, EndValues, UnusedIs, ClusterNumbers
  <2>2. job.found \in (Returned \ {0}) \cup {FAT12_EOF_MAX}
    BY <1>1
  <2>3. Unused' = Unused \ {job.prev}
    BY <1>1, <2>2, NextUnused
  <2> QED
    BY <2>1, <2>3 DEF FreeCluster
<1>7. ASSUME NEW i \in InUse
      PROVE  /\ ch[i] \in Seq(FileClusters) /\ Chained(ch[i], i) /\ EndOf(ch[i]) \in Clusters
             /\ \A n \in 1 .. Len(ch[i]) : /\ ch[i][n] \in Clusters
                                          /\ ch[i][n] = job.prev => i = e /\ n = Len(ch[i])
             /\ i # e => EndOf(ch[i]) # job.prev /\ fat'[EndOf(ch[i])] = fat[EndOf(ch[i])]
             /\ i # e => Chained(ch[i], i)' /\ Sized(ch[i], i)'
  <2>1. ch[i] \in Seq(FileClusters) /\ Chained(ch[i], i) /\ Sized(ch[i], i)
    BY DEF Chains, ChainSet, InUse
  <2>2. \A n \in 1 .. Len(ch[i]) : ch[i][n] \in Clusters
    BY <2>1, ChainIs
  <2>3. Len(ch[i]) \in 1 .. Len(ch[i]) /\ EndOf(ch[i]) \in Clusters
    BY <2>1, ChainIs
  <2>4. \A n \in 1 .. Len(ch[i]) : ch[i][n] = job.prev => i = e /\ n = Len(ch[i])
    BY <1>2, <1>4 DEF Chains, Apart
  <2>5. i # e => EndOf(ch[i]) # job.prev /\ fat'[EndOf(ch[i])] = fat[EndOf(ch[i])]
    BY <1>4, <1>5, <2>3, <2>4 DEF EndOf
  <2>6. i # e => Chained(ch[i], i)'
    <3>1. i # e => \A n \in 1 .. Len(ch[i]) : n # Len(ch[i]) => fat'[ch[i][n]] = fat[ch[i][n]]
      BY <1>4, <1>5, <2>2, <2>4
    <3>2. fat[EndOf(ch[i])] \notin 1 .. LastCluster
      BY <2>1 DEF Chained
    <3> QED
      BY <1>1, <2>1, <2>5, <3>1, <3>2, ChainStays
  <2>7. Sized(ch[i], i)'
    BY <1>1, <2>1 DEF Sized
  <2> QED
    BY <2>1, <2>2, <2>3, <2>4, <2>5, <2>6, <2>7
<1>9. ASSUME NEW more, \A i \in InUse : i # e => more[i] = ch[i]
      PROVE  Tame(more)'
  <2> SUFFICES ASSUME caught' = {}, (FreeCluster \in Clusters)', NEW i \in InUse, i # e
               PROVE  IsEnd(fat[EndOf(more[i])])'
    BY <1>1, <1>4 DEF Tame
  <2>1. IsEnd(fat[EndOf(ch[i])])
    BY <1>1, <1>6 DEF Chains, Tame
  <2>2. IsEnd(fat'[EndOf(ch[i])])
    BY <1>7, <2>1
  <2> QED
    BY <1>9, <2>2 DEF IsEnd, EndOf
<1>10. ASSUME NEW i \in InUse, i # e, fat'[EndOf(ch[i])] = 0
       PROVE  EndOf(ch[i]) <= First(Unused)' + 1
  BY <1>6, <1>7, <1>10 DEF Chains, Cut
<1>11. CASE job.found \notin Clusters
  <2>1. EntryOf(job.found) \notin Clusters
    BY <1>1, <1>11, EntryValues
  <2>2. fat'[EndOf(q)] \notin 1 .. LastCluster /\ fat'[EndOf(q)] # 0
    BY <1>3, <1>4, <1>5, <2>1, ClusterNumbers DEF Clusters
  <2>3. Chained(q, e)' /\ Sized(q, e)'
    <3>1. \A n \in 1 .. Len(q) : n # Len(q) => fat'[q[n]] = fat[q[n]]
      BY <1>2, <1>4, <1>5, <1>7
    <3> QED
      BY <1>1, <1>2, <2>2, <3>1, ChainStays DEF Sized
  <2>4. (\A i \in InUse : Chained(ch[i], i) /\ Sized(ch[i], i))'
    BY <1>2, <1>4, <1>7, <2>3
  <2>5. Cut(ch)'
    BY <1>2, <1>4, <1>10, <2>2 DEF Cut, EndOf
  <2>6. Apart(ch)'
    BY <1>4 DEF Chains, Apart
  <2>7. AtBlock(ch[job.entry])' /\ FoundApart(ch)'
    BY <1>1, <1>11 DEF AtBlock, FoundApart
  <2>8. Chains(ch)'
    BY <1>9, <2>4, <2>5, <2>6, <2>7 DEF Chains
  <2> QED
    BY <2>8
<1>12. CASE job.found \in Clusters
  <2>1. /\ job.found \in FileClusters /\ EntryOf(job.found) = job.found /\ job.found # job.prev
        /\ job.found \in Unused /\ job.found <= First(Unused) + 1
    <3>1. job.found \in FileClusters
      BY <1>1, <1>12, ClusterNumbers DEF FileClusters, Clusters
    <3>2. Marking
      BY <1>1 DEF Marking
    <3>3. job.found \in Unused /\ job.found <= First(Unused) + 1
      BY <1>12, <3>2, FoundIsUnused
    <3> QED
      BY <1>1, <1>3, <1>4, <1>12, <3>1, <3>3, EntryValues, EndValues, UnusedIs, ClusterNumbers
  <2>0. PICK r : r = Append(q, job.found)
    OBVIOUS
  <2>2. /\ r \in Seq(FileClusters) /\ Len(r) = Len(q) + 1 /\ r[Len(q) + 1] = job.found
        /\ \A n \in 1 .. Len(q) : r[n] = q[n]
        /\ \A n \in 1 .. Len(r) : n \in 1 .. Len(q) \/ n = Len(q) + 1
    BY <1>2, <1>4, <2>0, <2>1
  <2>3. EndOf(r) = job.found /\ r # <<>> /\ r[1] = q[1]
    BY <1>2, <1>4, <2>2, ChainIs DEF EndOf
  <2>4. PICK more \in ChainSet : more[e] = r /\ \A i \in InUse : i # e => more[i] = ch[i]
    <3>1. [ch EXCEPT ![e] = r] \in ChainSet
      BY <2>2 DEF ChainSet
    <3>2. InUse \subseteq Entries
      BY DEF InUse
    <3> QED
      BY <1>2, <3>1, <3>2 DEF ChainSet
  <2>5. fat'[job.prev] = job.found /\ fat'[job.found] = 0
    BY <1>4, <1>5, <1>12, <2>1, UnusedIs
  <2>6. Chained(r, e)'
    <3>1. ASSUME NEW n \in 1 .. Len(r) - 1
          PROVE  fat'[r[n]] = r[n + 1]
      <4>1. n \in 1 .. Len(q)
        BY <1>4, <2>2
      <4>2. CASE n = Len(q)
        BY <1>4, <2>2, <2>5, <4>1, <4>2
      <4>3. CASE n # Len(q)
        <5>1. fat[q[n]] = q[n + 1] /\ n + 1 \in 1 .. Len(q) /\ q[n] \in Clusters
          BY <1>2, <4>1, <4>3, ChainIs
        <5>2. q[n] # job.prev
          <6>1. \A m \in 1 .. Len(q) : q[m] = q[Len(q)] => m = Len(q)
            BY <1>0, <1>2, <1>4 DEF Chains, Apart
          <6> QED
            BY <1>4, <4>1, <4>3, <6>1
        <5> QED
          BY <1>4, <1>5, <2>2, <4>1, <5>1, <5>2
      <4> QED
        BY <4>2, <4>3
    <3>2. root[e].firstClusterLow = q[1] /\ fat'[EndOf(r)] \notin 1 .. LastCluster
      BY <1>2, <2>3, <2>5, ClusterNumbers DEF Chained
    <3> QED
      BY <1>1, <2>3, <3>1, <3>2 DEF Chained, EndOf
  <2>7. Sized(r, e)'
    <3>1. \A u, n \in Nat : u * n <= u * (n + 1) /\ u * n \in Nat /\ u * (n + 1) \in Nat
      OBVIOUS
    <3>2. Units \in Nat /\ root[e].fileSize \in Nat
      BY <1>2, EntryIs, CardAssumption, FilesAssumption
    <3>3. Units * Len(q) <= Units * Len(r) /\ Units * Len(q) \in Nat /\ Units * Len(r) \in Nat
      BY <1>4, <2>2, <3>1, <3>2
    <3>4. root[e].fileSize <= Units * Len(q)
      BY <1>2 DEF Sized
    <3>5. root[e].fileSize <= Units * Len(r)
      BY <3>2, <3>3, <3>4
    <3> QED
      BY <1>1, <3>5 DEF Sized
  <2>8. (\A i \in InUse : Chained(more[i], i) /\ Sized(more[i], i))'
    <3>1. \A i \in InUse : i # e => Chained(ch[i], i)' /\ Sized(ch[i], i)'
      BY <1>7
    <3> QED
      BY <1>4, <2>4, <2>6, <2>7, <3>1 DEF Chained, Sized, EndOf
  <2>9. Outside(ch, job.found)
    BY <1>1, <1>12 DEF Chains, FoundApart
  <2>10. Apart(more)'
    <3>1. ASSUME NEW i \in InUse, NEW m \in 1 .. Len(more[i])
          PROVE  \/ m \in 1 .. Len(ch[i]) /\ more[i][m] = ch[i][m] /\ more[i][m] # job.found
                 \/ i = e /\ m = Len(r) /\ more[i][m] = job.found
      <4>1. CASE i # e
        BY <2>4, <2>9, <4>1 DEF Outside
      <4>2. CASE i = e
        BY <1>2, <1>4, <2>2, <2>4, <2>9, <4>2 DEF Outside
      <4> QED
        BY <4>1, <4>2
    <3>2. Apart(more)
      BY <3>1 DEF Chains, Apart
    <3> QED
      BY <1>4, <3>2 DEF Apart
  <2>11. Cut(more)'
    <3>1. job.found <= First(Unused)' + 1
      BY <1>6, <2>1
    <3> QED
      BY <1>4, <1>10, <2>3, <2>4, <3>1 DEF Cut, EndOf
  <2>12. AtBlock(more[job.entry])'
    <3>1. job'.block = Len(r) - 1 /\ job'.block # 0 /\ job'.prev = r[job'.block]
      BY <1>1, <1>3, <1>4, <2>2
    <3> QED
      BY <1>1, <2>3, <2>4, <3>1 DEF AtBlock, EndOf
  <2>13. FoundApart(more)'
    BY <1>1 DEF FoundApart
  <2>14. Chains(more)'
    BY <1>9, <2>4, <2>8, <2>10, <2>11, <2>12, <2>13 DEF Chains
  <2> QED
    BY <2>4, <2>14
<1> QED
  BY <1>11, <1>12

(* A new file: a chain of the one cluster that was found and ended.        *)
LEMMA EnterChains ==
  ASSUME Types, Calls, Directory, Enters, caught' = caught, NEW ch \in ChainSet, Chains(ch)
  PROVE  \E more \in ChainSet : Chains(more)'
<1>1. /\ job.pc = "enter" /\ job'.pc = "unsaved" /\ fat' = fat
      /\ job.path \in Names /\ Available # {} /\ job.entry = First(Available)
  BY CardAssumption DEF Enters, Calls, Directory, Types, JobRecord
<1>2. PICK e \in Entries : e = job.entry /\ e \in Available
  BY <1>1, AvailableIs
<1>3. PICK c \in FileClusters : c = job.found /\ IsEnd(fat[c]) /\ Outside(ch, c) /\ c \in Clusters
  <2>1. FileClusters \subseteq Clusters
    BY ClusterNumbers DEF FileClusters
  <2> QED
    BY <1>1, <2>1 DEF Chains, FoundApart
<1>4. root \in [Entries -> DirEntry] /\ fat \in [Clusters -> ClusterValue]
  BY DEF Types, DiskTypeOK
<1>5. root' = [root EXCEPT ![e] = [name |-> job.path, firstClusterLow |-> c, fileSize |-> 0]]
  BY <1>2, <1>3 DEF Enters
<1>6. /\ root'[e].name = job.path /\ root'[e].firstClusterLow = c /\ root'[e].fileSize = 0
      /\ \A i \in Entries : i # e => root'[i] = root[i]
  BY <1>4, <1>5
<1>7. InUse' = InUse \cup {e} /\ e \notin InUse /\ InUse \subseteq Entries
  <2>1. InUse \subseteq Entries /\ e \notin InUse
    BY <1>2, CardAssumption DEF InUse, Available
  <2>2. \A i \in Entries : root'[i].name \in Names <=> (i = e \/ root[i].name \in Names)
    BY <1>1, <1>2, <1>6
  <2> QED
    BY <1>2, <2>1, <2>2 DEF InUse
<1>8. Unused' = Unused /\ FreeCluster' = FreeCluster
  BY <1>1 DEF Unused, FreeCluster
<1>9. PICK r : r = <<c>>
  OBVIOUS
<1>10. r \in Seq(FileClusters) /\ Len(r) = 1 /\ r[1] = c /\ EndOf(r) = c /\ r # <<>>
  BY <1>3, <1>9 DEF EndOf
<1>11. PICK more \in ChainSet : more[e] = r /\ \A i \in InUse : more[i] = ch[i]
  <2>1. [ch EXCEPT ![e] = r] \in ChainSet
    BY <1>10 DEF ChainSet
  <2>2. [ch EXCEPT ![e] = r][e] = r /\ \A i \in InUse : [ch EXCEPT ![e] = r][i] = ch[i]
    BY <1>2, <1>7 DEF ChainSet
  <2> QED
    BY <2>1, <2>2
<1>12. Chained(r, e)' /\ Sized(r, e)'
  <2>1. fat'[EndOf(r)] \notin 1 .. LastCluster
    <3>1. fat[c] \in ClusterValue /\ 1 .. LastCluster \subseteq Clusters
      BY <1>3, <1>4, ClusterNumbers DEF Clusters
    <3> QED
      BY <1>1, <1>3, <1>10, <3>1, EndValues
  <2>2. 1 .. Len(r) - 1 = {}
    BY <1>10
  <2>3. Chained(r, e)'
    BY <1>6, <1>10, <2>1, <2>2 DEF Chained, EndOf
  <2>4. 0 <= Units * 1
    BY CardAssumption
  <2> QED
    BY <1>6, <1>10, <2>3, <2>4 DEF Sized
<1>13. (\A i \in InUse : Chained(more[i], i) /\ Sized(more[i], i))'
  <2>1. \A i \in InUse : Chained(ch[i], i)' /\ Sized(ch[i], i)'
    BY <1>1, <1>6, <1>7 DEF Chains, Chained, Sized, EndOf
  <2> QED
    BY <1>7, <1>11, <1>12, <2>1 DEF Chained, Sized, EndOf
<1>14. Apart(more)'
  <2> SUFFICES ASSUME NEW i \in InUse', NEW j \in InUse',
                      NEW m \in 1 .. Len(more[i]), NEW n \in 1 .. Len(more[j]),
                      more[i][m] = more[j][n]
               PROVE  i = j /\ m = n
    BY DEF Apart
  <2>1. CASE i = e /\ j = e
    BY <1>10, <1>11, <2>1
  <2>2. CASE i # e /\ j # e
    BY <1>7, <1>11, <2>2 DEF Chains, Apart
  <2>3. CASE i = e /\ j # e
    <3>1. more[i][m] = c /\ j \in InUse /\ more[j] = ch[j]
      BY <1>7, <1>10, <1>11, <2>3
    <3> QED
      BY <1>3, <3>1 DEF Outside
  <2>4. CASE i # e /\ j = e
    <3>1. more[j][n] = c /\ i \in InUse /\ more[i] = ch[i]
      BY <1>7, <1>10, <1>11, <2>4
    <3> QED
      BY <1>3, <3>1 DEF Outside
  <2> QED
    BY <2>1, <2>2, <2>3, <2>4
<1>15. Cut(more)'
  <2>1. fat[c] # 0
    BY <1>3, EndValues, ClusterNumbers
  <2>2. \A i \in InUse : fat'[EndOf(ch[i])] = 0 => EndOf(ch[i]) <= First(Unused)' + 1
    BY <1>1, <1>8 DEF Chains, Cut
  <2> QED
    BY <1>1, <1>7, <1>10, <1>11, <2>1, <2>2 DEF Cut, EndOf
<1>16. Tame(more)'
  <2>1. caught' = {} /\ (FreeCluster \in Clusters)' => \A i \in InUse : IsEnd(fat[EndOf(ch[i])])
    BY <1>1, <1>8 DEF Chains, Tame
  <2> QED
    BY <1>1, <1>3, <1>7, <1>10, <1>11, <2>1 DEF Tame, EndOf, IsEnd
<1>17. AtBlock(more[job.entry])' /\ FoundApart(more)'
  BY <1>1 DEF AtBlock, FoundApart
<1>18. Chains(more)'
  BY <1>13, <1>14, <1>15, <1>16, <1>17 DEF Chains
<1> QED
  BY <1>11, <1>18

LEMMA CardChains ==
  ASSUME Init, Types, NEW card, fat = card.fat, root = card.root, NEW ch, SoundCard(card, ch)
  PROVE  ch \in ChainSet /\ Chains(ch)
<1>1. /\ job.pc = "idle" /\ fat \in [Clusters -> ClusterValue]
      /\ ch \in ChainSet /\ InUse \subseteq Entries
  BY NoJobIs DEF Init, DiskInit, SoundCard, ChainSet, FileClusters, InUse
<1>2. ASSUME NEW i \in InUse
      PROVE  /\ ch[i] # <<>> /\ ch[i][1] = root[i].firstClusterLow
             /\ \A m \in 1 .. Len(ch[i]) - 1 : fat[ch[i][m]] = ch[i][m + 1]
             /\ IsEnd(fat[EndOf(ch[i])])
             /\ root[i].fileSize <= Units * Len(ch[i])
  BY DEF SoundCard, InUse, EndOf
<1>3. ASSUME NEW i \in InUse
      PROVE  Chained(ch[i], i) /\ Sized(ch[i], i) /\ fat[EndOf(ch[i])] # 0
  <2>1. Len(ch[i]) \in 1 .. Len(ch[i]) /\ ch[i] \in Seq(FileClusters)
    <3>1. ch[i] \in Seq(FileClusters) /\ Len(ch[i]) \in Nat
      BY <1>1 DEF ChainSet
    <3>2. Len(ch[i]) # 0
      BY <1>2, <3>1, EmptySeq
    <3> QED
      BY <3>1, <3>2
  <2>2. EndOf(ch[i]) \in Clusters
    BY <2>1, ElementOfSeq, ClusterNumbers DEF EndOf, FileClusters
  <2>3. fat[EndOf(ch[i])] \notin Clusters /\ 1 .. LastCluster \subseteq Clusters
    BY <1>1, <1>2, <2>2, EndValues, ClusterNumbers DEF Clusters
  <2> QED
    BY <1>2, <2>3, ClusterNumbers DEF Chained, Sized
<1>4. Apart(ch)
  BY DEF SoundCard, InUse, Apart
<1>5. AtBlock(ch[job.entry]) /\ FoundApart(ch)
  BY <1>1 DEF AtBlock, FoundApart
<1>6. Cut(ch) /\ Tame(ch)
  BY <1>2, <1>3 DEF Cut, Tame
<1>7. Chains(ch)
  BY <1>1, <1>3, <1>4, <1>5, <1>6 DEF Chains
<1> QED
  BY <1>1, <1>7

LEMMA InitChains ==
  ASSUME Init, Types, SoundImages
  PROVE  \E ch \in ChainSet : Chains(ch)
BY CardChains DEF Init, DiskInit, SoundImages

----------------------------------------------------------------------------
(* The invariant.                                                          *)

(* A block of a file goes to its chain while every chain has an end.       *)
LEMMA WritesInside ==
  ASSUME Types, Directory, Writing, ~AtEnd, caught = {}, FreeCluster \in Clusters,
         NEW ch \in ChainSet, Chains(ch)
  PROVE  job.cluster \in FileClusters
<1>1. PICK e \in InUse : e = job.entry
  BY EntryOfJob DEF Writing
<1>2. /\ job.pc = "write" /\ ~AtEnd /\ job.block \in Nat
      /\ ch[e] \in Seq(FileClusters) /\ Chained(ch[e], e) /\ IsEnd(fat[EndOf(ch[e])])
  BY <1>1 DEF Writing, Chains, ChainSet, InUse, Tame, Types, JobRecord
<1>3. /\ job.block <= Len(ch[e])
      /\ job.cluster = IF job.block = 0 THEN ch[e][1] ELSE fat[ch[e][job.block]]
  BY <1>1, <1>2 DEF Chains, AtBlock
<1>4. CASE job.block = 0
  BY <1>1, <1>2, <1>3, <1>4, ChainIs
<1>5. CASE job.block # 0
  <2>1. job.block \in 1 .. Len(ch[e])
    BY <1>1, <1>2, <1>3, <1>5, ChainIs
  <2>2. job.block # Len(ch[e])
    <3>1. fat[EndOf(ch[e])] \in ClusterValue
      BY <1>1, <1>2, ChainIs DEF Types, DiskTypeOK
    <3> QED
      BY <1>2, <1>3, <1>5, <3>1, EndValues DEF AtEnd, EndOf
  <2> QED
    BY <1>1, <1>2, <1>3, <1>5, <2>1, <2>2, ChainIs
<1> QED
  BY <1>4, <1>5

LEMMA StepStray ==
  ASSUME FilesInv, [Next]_vars
  PROVE  NoStrayWrites' /\ (stray => stray')
<1>1. Types /\ Calls /\ stray \in BOOLEAN /\ stray' \in BOOLEAN
  BY StepTypes DEF FilesInv, Types, DiskTypeOK
<1>2. Unused' \subseteq Unused /\ (stray => stray') /\ caught \subseteq caught'
  BY <1>1, StepKeeps
<1>3. (FreeCluster \in Clusters)' => FreeCluster \in Clusters
  BY <1>1, <1>2, FewerUnused
<1>4. CASE stray' = stray
  BY <1>2, <1>3, <1>4 DEF FilesInv, NoStrayWrites
<1>5. CASE stray' # stray
  <2>1. ~stray /\ Directory /\ Room
    BY <1>1, <1>2, <1>5 DEF FilesInv
  <2>2. PICK ch \in ChainSet : Chains(ch)
    BY <2>1 DEF FilesInv
  <2> SUFFICES ASSUME caught = {}, FreeCluster \in Clusters PROVE FALSE
    BY <1>2, <1>3 DEF NoStrayWrites
  <2>3. CASE EndChain /\ job.found \notin Clusters
    BY <2>1, <2>3 DEF EndChain, Room
  <2>4. CASE Seal /\ job.found \notin Clusters
    BY <2>1, <2>4 DEF Seal, Room
  <2>5. CASE Link /\ job.prev \notin Clusters
    <3>1. PICK e \in InUse : e = job.entry
      BY <1>1, <2>1, <2>5, EntryOfJob DEF Link
    <3>2. job.prev = EndOf(ch[e])
      BY <2>2, <2>5, <3>1 DEF Link, Chains, AtBlock
    <3>3. ch[e] \in Seq(FileClusters) /\ Chained(ch[e], e)
      BY <2>2 DEF Chains, ChainSet, InUse
    <3> QED
      BY <1>1, <2>5, <3>2, <3>3, ChainIs
  <2>6. CASE WriteAstray
    BY <1>1, <2>1, <2>2, <2>6, WritesInside DEF WriteAstray
  <2> QED
    BY <1>1, <1>5, <2>3, <2>4, <2>5, <2>6, StraySteps
<1> QED
  BY <1>4, <1>5

LEMMA StepChains ==
  ASSUME FilesInv, [Next]_vars, ~stray'
  PROVE  \E ch \in ChainSet : Chains(ch)'
<1>1. Types /\ Calls /\ Buffered /\ Directory /\ Room
  BY StepStray DEF FilesInv
<1>2. PICK ch \in ChainSet : Chains(ch)
  BY StepStray DEF FilesInv
<1>3. CASE Stays
  BY <1>2, <1>3, StaysChains
<1>4. CASE Ends
  BY <1>2, <1>4, EndsChains
<1>5. CASE Begins
  BY <1>1, <1>2, <1>5, BeginsChains
<1>6. CASE Create /\ caught' = caught
  BY <1>1, <1>2, <1>6, CreateChains
<1>7. CASE EndsChain /\ caught' = caught
  BY <1>1, <1>2, <1>7, EndChainChains
<1>8. CASE Enters /\ caught' = caught
  BY <1>1, <1>2, <1>8, EnterChains
<1>9. CASE Extends /\ caught' = caught
  BY <1>1, <1>2, <1>9, ExtendChains
<1>10. CASE Links /\ caught' = caught
  BY <1>1, <1>2, <1>10, LinkChains
<1>11. CASE Seals /\ caught' = caught
  BY <1>1, <1>2, <1>11, SealChains
<1>12. CASE WritesBlock /\ caught' = caught
  BY <1>1, <1>2, <1>12, WriteBlockChains
<1>13. CASE WritesSize /\ caught' = caught
  BY <1>1, <1>2, <1>13, WriteSizeChains
<1> QED
  BY <1>1, <1>3, <1>4, <1>5, <1>6, <1>7, <1>8, <1>9, <1>10, <1>11, <1>12, <1>13, StepIs
     DEF WritesFile

LEMMA InitInv ==
  ASSUME Init, SoundImages
  PROVE  FilesInv
<1>1. Types /\ Calls /\ Buffered /\ Directory /\ Room
  BY InitTypes, InitBuffered, InitDirectory, InitRoom
<1>2. ~stray
  BY DEF Init, DiskInit
<1>3. \E ch \in ChainSet : Chains(ch)
  BY <1>1, InitChains
<1> QED
  BY <1>1, <1>2, <1>3 DEF FilesInv, NoStrayWrites

LEMMA StepInv ==
  ASSUME FilesInv, [Next]_vars
  PROVE  FilesInv'
<1>1. Types /\ Calls
  BY DEF FilesInv
<1>2. Types' /\ Calls'
  BY <1>1, StepTypes
<1>3. ~stray' => Buffered' /\ Directory' /\ Room'
  <2>1. ~stray' => Buffered /\ Directory /\ Room
    BY StepStray DEF FilesInv
  <2> QED
    BY <1>1, <2>1, StepBuffered, StepDirectory, StepRoom
<1>4. NoStrayWrites'
  BY StepStray
<1>5. ~stray' => \E ch \in ChainSet : Chains(ch)'
  BY StepChains
<1>6. ChainSet' = ChainSet
  BY DEF ChainSet
<1> QED
  BY <1>2, <1>3, <1>4, <1>5, <1>6 DEF FilesInv

(* The invariant is one, whatever is opened, closed, cut off or left full: *)
(* each step of fat12_write_file keeps the chains of all files apart.      *)
THEOREM FilesInvariant == SoundImages => (Spec => []FilesInv)
<1>1. SoundImages /\ Init => FilesInv
  BY InitInv
<1>2. FilesInv /\ [Next]_vars => FilesInv'
  BY StepInv
<1> QED
  BY <1>1, <1>2, PTL DEF Spec

----------------------------------------------------------------------------
(* The walk along the table finds the chain.                               *)

LEMMA DistinctLen ==
  ASSUME NEW T, IsFiniteSet(T), NEW q \in Seq(T),
         \A m, n \in 1 .. Len(q) : q[m] = q[n] => m = n
  PROVE  Cardinality({q[n] : n \in 1 .. Len(q)}) = Len(q) /\ Len(q) <= Cardinality(T)
<1> DEFINE S == {q[n] : n \in 1 .. Len(q)}
<1>1. Len(q) \in Nat /\ q \in [1 .. Len(q) -> T] /\ q \in [1 .. Len(q) -> S]
  <2>1. Len(q) \in Nat /\ DOMAIN q = 1 .. Len(q) /\ q \in [1 .. Len(q) -> T]
    BY LenProperties
  <2> QED
    BY <2>1
<1>2. S \subseteq T /\ IsFiniteSet(S)
  BY <1>1, FS_Subset
<1>3. q \in Injection(1 .. Len(q), S) /\ q \in Injection(1 .. Len(q), T)
  BY <1>1 DEF Injection, IsInjective
<1>4. q \in Surjection(1 .. Len(q), S)
  BY <1>1 DEF Surjection
<1>5. Cardinality(1 .. Len(q)) = Len(q)
  <2>1. 1 \in Int /\ Len(q) \in Int /\ (1 > Len(q) => Len(q) = 0)
    BY <1>1
  <2>2. Cardinality(1 .. Len(q)) = IF 1 > Len(q) THEN 0 ELSE Len(q) - 1 + 1
    BY <2>1, FS_Interval
  <2> QED
    BY <1>1, <2>1, <2>2
<1>6. Cardinality(1 .. Len(q)) = Cardinality(S)
  BY <1>2, <1>3, <1>4, FS_Injection
<1>7. Cardinality(1 .. Len(q)) <= Cardinality(T)
  BY <1>3, FS_Injection
<1> QED
  BY <1>5, <1>6, <1>7

(* There is such a walk: the least number of steps without one is none.    *)
WalkFrom(c, last, at) ==
  /\ at = [n \in 0 .. last |-> at[n]]
  /\ \A n \in 0 .. last : at[n] = IF n = 0 THEN c ELSE Successor(at[n - 1])

LEMMA WalkExists ==
  ASSUME NEW c, NEW last \in Nat
  PROVE  \E at : WalkFrom(c, last, at)
<1> DEFINE Steps(k, g) == \A n \in 0 .. k : g[n] = IF n = 0 THEN c ELSE Successor(g[n - 1])
           Without == {k \in Nat : ~\E g : Steps(k, g)}
<1>1. Without = {}
  <2> SUFFICES ASSUME Without # {} PROVE FALSE
    OBVIOUS
  <2>1. PICK k \in Without : \A m \in Without : ~(m < k)
    <3>1. Without \subseteq Nat
      OBVIOUS
    <3> HIDE DEF Without
    <3> QED
      BY <3>1, LeastIn
  <2>2. k # 0
    <3>1. Steps(0, [n \in 0 .. 0 |-> c])
      OBVIOUS
    <3> HIDE DEF Steps
    <3> QED
      BY <3>1
  <2>3. k \in Nat /\ k - 1 \in Nat /\ k - 1 < k
    BY <2>2
  <2>4. PICK g : Steps(k - 1, g)
    <3> HIDE DEF Steps
    <3> QED
      BY <2>1, <2>3
  <2> DEFINE h == [n \in 0 .. k |-> IF n < k THEN g[n] ELSE Successor(g[k - 1])]
  <2>5. \A n \in 0 .. k : h[n] = IF n = 0 THEN c ELSE Successor(h[n - 1])
    <3> SUFFICES ASSUME NEW n \in 0 .. k
                 PROVE  h[n] = IF n = 0 THEN c ELSE Successor(h[n - 1])
      OBVIOUS
    <3>1. h[n] = IF n < k THEN g[n] ELSE Successor(g[k - 1])
      OBVIOUS
    <3>2. n # 0 => h[n - 1] = g[n - 1]
      <4>1. n # 0 => n - 1 \in 0 .. k /\ n - 1 < k
        BY <2>3
      <4> QED
        BY <4>1
    <3>3. n < k => n \in 0 .. k - 1
      BY <2>3
    <3>4. n < k \/ n = k
      BY <2>3
    <3> HIDE DEF h
    <3> QED
      BY <2>2, <2>4, <3>1, <3>2, <3>3, <3>4
  <2> HIDE DEF h
  <2>6. Steps(k, h)
    BY <2>5
  <2> HIDE DEF Steps
  <2> QED
    BY <2>1, <2>6
<1>2. PICK g : Steps(last, g)
  <2> HIDE DEF Steps
  <2> QED
    BY <1>1
<1> DEFINE at == [n \in 0 .. last |-> g[n]]
<1>3. \A n \in 0 .. last : at[n] = IF n = 0 THEN c ELSE Successor(at[n - 1])
  <2> SUFFICES ASSUME NEW n \in 0 .. last
               PROVE  at[n] = IF n = 0 THEN c ELSE Successor(at[n - 1])
    OBVIOUS
  <2>1. at[n] = g[n]
    OBVIOUS
  <2>2. n # 0 => n - 1 \in 0 .. last
    OBVIOUS
  <2>3. n # 0 => at[n - 1] = g[n - 1]
    BY <2>2
  <2> HIDE DEF at
  <2> QED
    BY <1>2, <2>1, <2>3
<1>4. at = [n \in 0 .. last |-> at[n]]
  OBVIOUS
<1> HIDE DEF at
<1> QED
  BY <1>3, <1>4 DEF WalkFrom

LEMMA WalkIs ==
  ASSUME Types, NEW q \in Seq(FileClusters), NEW i \in InUse, Chained(q, i)
  PROVE  /\ DOMAIN Walk(q[1]) = 0 .. LastCluster + 1
         /\ \A n \in 0 .. LastCluster + 1 : n < Len(q) => Walk(q[1])[n] = q[n + 1]
         /\ \A n \in 0 .. LastCluster + 1 : n = Len(q) => Walk(q[1])[n] \notin FileClusters
<1> DEFINE D == 0 .. LastCluster + 1
           W == Walk(q[1])
           Of(g) == [n \in D |-> IF n = 0 THEN q[1] ELSE Successor(g[n - 1])]
<1>1. LastCluster \in Nat /\ LastCluster + 1 \in Nat /\ Len(q) \in Nat \ {0}
  BY ClusterNumbers, ChainIs
<1>2. \A n \in D : n \in Nat /\ (n # 0 => n - 1 \in D /\ n - 1 < n)
  BY <1>1
<1>3. W = Of(W)
  <2>1. W = CHOOSE at : at = Of(at)
    BY DEF Walk, Successor
  <2>2. PICK at : WalkFrom(q[1], LastCluster + 1, at)
    BY <1>1, WalkExists
  <2>3. at = Of(at)
    BY <2>2 DEF WalkFrom
  <2> HIDE DEF Of, W
  <2> QED
    BY <2>1, <2>3
<1>4. DOMAIN W = D
  <2>1. DOMAIN Of(W) = D
    OBVIOUS
  <2> HIDE DEF Of, D, W
  <2> QED
    BY <1>3, <2>1
<1>5. \A n \in D : W[n] = IF n = 0 THEN q[1] ELSE Successor(W[n - 1])
  <2>1. \A n \in D : Of(W)[n] = IF n = 0 THEN q[1] ELSE Successor(W[n - 1])
    OBVIOUS
  <2> HIDE DEF Of, D, W
  <2> QED
    BY <1>3, <2>1
<1> HIDE DEF W
<1>6. \A n \in D : n < Len(q) => W[n] = q[n + 1]
  <2> DEFINE Wrong == {n \in D : n < Len(q) /\ W[n] # q[n + 1]}
  <2> SUFFICES ASSUME Wrong # {} PROVE FALSE
    OBVIOUS
  <2>1. Wrong \subseteq Nat
    BY <1>2
  <2>2. PICK n \in Wrong : \A m \in Wrong : ~(m < n)
    BY <2>1, LeastIn
  <2>3. n \in D /\ n < Len(q) /\ W[n] # q[n + 1] /\ n \in Nat
    BY <2>1
  <2>4. n # 0
    <3>1. n = 0 => W[n] = q[1] /\ n + 1 = 1
      BY <1>5, <2>3
    <3> QED
      BY <2>3, <3>1
  <2>5. n - 1 \in D /\ n - 1 < n /\ n - 1 < Len(q) /\ (n - 1) + 1 = n /\ n \in 1 .. Len(q)
    BY <1>1, <1>2, <2>3, <2>4
  <2> HIDE DEF D
  <2>6. W[n - 1] = q[n]
    BY <2>2, <2>5
  <2>7. n # Len(q)
    BY <2>3
  <2>8. fat[q[n]] = q[n + 1] /\ q[n] \in Clusters
    BY <2>5, <2>7, ChainIs
  <2>9. W[n] = Successor(q[n])
    BY <1>5, <2>3, <2>4, <2>6
  <2> QED
    BY <2>3, <2>8, <2>9 DEF Successor
<1>7. \A n \in D : n = Len(q) => W[n] \notin FileClusters
  <2> SUFFICES ASSUME NEW n \in D, n = Len(q) PROVE W[n] \notin FileClusters
    OBVIOUS
  <2>1. n # 0 /\ n - 1 \in D /\ n - 1 < Len(q) /\ (n - 1) + 1 = Len(q)
    BY <1>1, <1>2
  <2>2. W[n] = Successor(EndOf(q))
    <3>1. W[n - 1] = q[(n - 1) + 1]
      BY <1>6, <2>1
    <3> HIDE DEF D
    <3> QED
      BY <1>5, <2>1, <3>1 DEF EndOf
  <2>3. EndOf(q) \in Clusters /\ fat[EndOf(q)] \notin 1 .. LastCluster
    BY ChainIs DEF Chained
  <2>4. FileClusters \subseteq 1 .. LastCluster
    BY ClusterNumbers DEF FileClusters
  <2> QED
    BY <2>2, <2>3, <2>4 DEF Successor
<1> QED
  BY <1>4, <1>6, <1>7 DEF W

(* The clusters of a file are those of its chain, as many as the chain is  *)
(* long.                                                                   *)
LEMMA ChainOfIs ==
  ASSUME Types, NEW ch \in ChainSet, Chains(ch), NEW i \in InUse
  PROVE  /\ ChainOf(root[i].firstClusterLow) = {ch[i][n] : n \in 1 .. Len(ch[i])}
         /\ Cardinality(ChainOf(root[i].firstClusterLow)) = Len(ch[i])
         /\ Len(ch[i]) < LastCluster
<1>1. PICK q \in Seq(FileClusters) :
        /\ q = ch[i] /\ Chained(q, i) /\ root[i].firstClusterLow = q[1]
        /\ \A m, n \in 1 .. Len(q) : q[m] = q[n] => m = n
  BY DEF Chains, ChainSet, InUse, Chained, Apart
<1>2. Cardinality({q[n] : n \in 1 .. Len(q)}) = Len(q) /\ Len(q) < LastCluster
  <2>1. LastCluster \in Nat /\ LastCluster >= 2 /\ FileClusters = 2 .. LastCluster
    BY CardAssumption DEF FirstData, FileClusters
  <2>2. IsFiniteSet(FileClusters) /\ Cardinality(FileClusters) = LastCluster - 1
    BY <2>1, FS_Interval
  <2>3. Cardinality({q[n] : n \in 1 .. Len(q)}) = Len(q) /\ Len(q) <= Cardinality(FileClusters)
    BY <1>1, <2>2, DistinctLen
  <2>4. Len(q) \in Nat /\ Len(q) <= LastCluster - 1
    BY <1>1, <2>2, <2>3
  <2>5. Len(q) < LastCluster
    BY <2>1, <2>4
  <2> QED
    BY <2>3, <2>5
<1> DEFINE D == 0 .. LastCluster + 1
           at == Walk(q[1])
           N == {m \in DOMAIN at : \A l \in 0 .. m : at[l] \in FileClusters}
<1>3. ChainOf(q[1]) = {at[n] : n \in N}
  BY DEF ChainOf
<1>4. /\ DOMAIN at = D
      /\ \A n \in D : n < Len(q) => at[n] = q[n + 1]
      /\ \A n \in D : n = Len(q) => at[n] \notin FileClusters
  BY <1>1, WalkIs
<1>5. LastCluster \in Nat /\ Len(q) \in Nat /\ Len(q) < LastCluster
  BY <1>1, <1>2, ClusterNumbers
<1> HIDE DEF at
<1>6. ASSUME NEW n \in 1 .. Len(q)
      PROVE  q[n] \in {at[m] : m \in N}
  <2>1. n - 1 \in D /\ n - 1 < Len(q) /\ (n - 1) + 1 = n
    BY <1>5
  <2>2. \A l \in 0 .. n - 1 : l \in D /\ l < Len(q) /\ l + 1 \in 1 .. Len(q)
    BY <1>5
  <2> HIDE DEF D
  <2>3. \A l \in 0 .. n - 1 : at[l] \in FileClusters
    BY <1>1, <1>4, <2>2, ChainIs
  <2>4. n - 1 \in N /\ at[n - 1] = q[n]
    BY <1>4, <2>1, <2>3
  <2> HIDE DEF N
  <2> QED
    BY <2>4
<1>7. ASSUME NEW n \in N
      PROVE  \E m \in 1 .. Len(q) : at[n] = q[m]
  <2>1. n \in D /\ n \in Nat /\ \A l \in 0 .. n : at[l] \in FileClusters
    BY <1>4, <1>5
  <2>2. n < Len(q)
    <3>1. ~(n < Len(q)) => Len(q) \in 0 .. n /\ Len(q) \in D
      BY <1>5, <2>1
    <3> HIDE DEF D
    <3> QED
      BY <1>4, <2>1, <3>1
  <2>3. n + 1 \in 1 .. Len(q)
    BY <1>5, <2>1, <2>2
  <2> HIDE DEF D
  <2> QED
    BY <1>4, <2>1, <2>2, <2>3
<1>8. ChainOf(q[1]) = {q[n] : n \in 1 .. Len(q)}
  <2> HIDE DEF N
  <2> QED
    BY <1>3, <1>6, <1>7
<1> QED
  BY <1>1, <1>2, <1>8

----------------------------------------------------------------------------
(* What it says of the files.                                              *)

LEMMA InvNoSharedCluster == FilesInv => NoSharedCluster
<1> SUFFICES ASSUME FilesInv, ~stray, NEW i \in InUse, NEW j \in InUse, i # j
             PROVE  ChainOf(root[i].firstClusterLow) \cap ChainOf(root[j].firstClusterLow) = {}
  BY DEF NoSharedCluster
<1>1. PICK ch \in ChainSet : Chains(ch)
  BY DEF FilesInv
<1>2. /\ ChainOf(root[i].firstClusterLow) = {ch[i][n] : n \in 1 .. Len(ch[i])}
      /\ ChainOf(root[j].firstClusterLow) = {ch[j][n] : n \in 1 .. Len(ch[j])}
  BY <1>1, ChainOfIs DEF FilesInv
<1> QED
  BY <1>1, <1>2 DEF Chains, Apart

LEMMA InvSizeIsCovered == FilesInv => SizeIsCovered
<1> SUFFICES ASSUME FilesInv, ~stray, NEW i \in InUse
             PROVE  root[i].fileSize <= Units * Cardinality(ChainOf(root[i].firstClusterLow))
  BY DEF SizeIsCovered
<1>1. PICK ch \in ChainSet : Chains(ch)
  BY DEF FilesInv
<1>2. Cardinality(ChainOf(root[i].firstClusterLow)) = Len(ch[i])
  BY <1>1, ChainOfIs DEF FilesInv
<1>3. root[i].fileSize <= Units * Len(ch[i])
  BY <1>1 DEF Chains, Sized
<1> QED
  BY <1>2, <1>3

(* The card, the table of open files and the call in progress are what     *)
(* they should be: no more files are open than the table has places, the   *)
(* count is theirs, and an entry of the table holds 12 bits.               *)
THEOREM FilesTypeCorrect == SoundImages => (Spec => []TypeOK)
<1>1. FilesInv => TypeOK
  BY TypesImplyTypeOK DEF FilesInv
<1> QED
  BY <1>1, FilesInvariant, PTL

(* Every file is listed, and no name is made twice by fat12_open, though   *)
(* the search of a sector ends at the first entry never used and new files *)
(* take the first entry that is free; until a block is written over the    *)
(* directory.                                                              *)
THEOREM FilesNamesListedOnce == SoundImages => (Spec => []NamesListedOnce)
<1>1. FilesInv => NamesListedOnce
  BY DEF FilesInv, Directory, ListedOnce, NamesListedOnce
<1> QED
  BY <1>1, FilesInvariant, PTL

(* No cluster is in two files as long as every block written was one of    *)
(* the card's, also when power was lost while a file was made or extended. *)
THEOREM FilesNoSharedCluster == SoundImages => (Spec => []NoSharedCluster)
BY InvNoSharedCluster, FilesInvariant, PTL

(* The chain of a file is long enough for its size after every step of     *)
(* fat12_write_file, so that a loss of power cannot leave a size of text   *)
(* that is not there.                                                      *)
THEOREM FilesSizeIsCovered == SoundImages => (Spec => []SizeIsCovered)
BY InvSizeIsCovered, FilesInvariant, PTL

(* fat12_write_file writes to clusters of the card only, while the card    *)
(* has room and no power was lost in the middle of a close.                *)
THEOREM FilesNoStrayWrites == SoundImages => (Spec => []NoStrayWrites)
<1>1. FilesInv => NoStrayWrites
  BY DEF FilesInv
<1> QED
  BY <1>1, FilesInvariant, PTL

(* On a sound card the number that find_free_cluster returns is that of an *)
(* unused cluster, though it is not the one it marks, until a block is     *)
(* written astray.                                                         *)
THEOREM FilesGiveFreeClusters == SoundImages => (Spec => GivesFreeCluster)
<1> DEFINE Given == ~stray /\ job'.found \in Clusters \ {0, job.found}
                      => fat[job'.found] = FAT12_UNUSED
<1>1. ASSUME FilesInv, [Next]_vars
      PROVE  [Given]_vars
  <2> SUFFICES ASSUME ~stray, job'.found \in Clusters \ {0, job.found}
               PROVE  fat[job'.found] = FAT12_UNUSED
    OBVIOUS
  <2>1. Types /\ Calls /\ Buffered /\ Room /\ job \in JobRecord
    BY <1>1 DEF FilesInv, Types
  <2>2. ~stray'
    <3>1. stray' = stray
      BY <1>1, <2>1, StraySteps
    <3> QED
      BY <3>1
  <2>3. ~Stays /\ ~Ends /\ ~Begins
    <3>1. job'.found # job.found /\ job'.found # 0
      OBVIOUS
    <3>2. NoJob.found = 0 /\ \A path, text : NewJob(path, text).found = 0
      BY DEF NewJob, NoJob
    <3> QED
      BY <3>1, <3>2 DEF Stays, Ends, Begins
  <2>4. Create \/ Extends
    BY <1>1, <2>1, <2>2, <2>3, StepIs
       DEF WritesFile, EndsChain, Enters, Links, Seals, WritesBlock, WritesSize, JobRecord
  <2>5. job'.found = FreeCluster /\ ~Marking
    BY <2>1, <2>4 DEF Create, Extends, Writing, Marking, JobRecord
  <2> QED
    BY <2>1, <2>5, GivesFree, UnusedIs, ClusterNumbers
<1> QED
  BY <1>1, FilesInvariant, PTL DEF Spec, GivesFreeCluster

----------------------------------------------------------------------------
(* Names: of files, and of those that are open.                            *)

Has(n) == \E i \in InUse : root[i].name = n

(* No name is open twice, nothing is written behind the end of a text,     *)
(* and a file that is open but not in the directory means that the         *)
(* directory is full, for good.                                            *)
OpenNames ==
  /\ \A s \in Opened : \A r \in Opened :
       vfs_openFiles[s].file_name = vfs_openFiles[r].file_name => s = r
  /\ \A s \in Opened : /\ vfs_openFiles[s].write_offset <= Len(vfs_openFiles[s].text)
                       /\ ~Has(vfs_openFiles[s].file_name) => Available = {}

(* What vfs_close waits for is the file of its descriptor, and vfs_open    *)
(* returns to an empty file or to none.                                    *)
Closing ==
  /\ job.text = vfs_openFiles[call.slot].text
  /\ job.pc \in {"write", "link", "seal", "saved", "unsaved"}
  /\ job.pc # "unsaved" => /\ job.entry \in InUse
                           /\ root[job.entry].name = vfs_openFiles[call.slot].file_name
  /\ job.pc = "unsaved" => Available = {} /\ ~Has(vfs_openFiles[call.slot].file_name)

Opening ==
  /\ job.pc \in {"create", "end", "enter", "unsaved"}
  /\ job.pc # "unsaved" => job.path = call.path
  /\ job.pc = "unsaved" => \/ Available = {} /\ ~Has(call.path)
                           \/ \E i \in InUse : root[i].name = call.path /\ root[i].fileSize = 0

Naming == OpenNames /\ (call.op = "close" => Closing) /\ (call.op = "open" => Opening)

LEMMA FindName ==
  ASSUME Types, ListedOnce, ShortFor = {}, NEW n \in Names
  PROVE  /\ Find(n) # 0 => Find(n) \in InUse /\ root[Find(n)].name = n
         /\ \A i \in InUse : root[i].name = n => Find(n) = i /\ i # 0
         /\ Has(n) <=> Find(n) # 0
<1> DEFINE hit == {i \in Entries : /\ compareFileNames(root[i].name, n)
                                   /\ \A j \in Before(i) : root[j].name # EndMark}
<1>1. Find(n) = IF hit = {} THEN 0 ELSE First(hit)
  BY DEF Find
<1>2. hit \subseteq Entries /\ Entries \subseteq Nat \ {0}
  BY DEF Entries
<1>3. \A i \in hit : i \in InUse /\ root[i].name = n
  BY DEF compareFileNames, InUse
<1>4. \A i \in InUse : root[i].name = n => i \in hit
  <2> SUFFICES ASSUME NEW i \in InUse, root[i].name = n PROVE i \in hit
    OBVIOUS
  <2>1. i \in Entries /\ i \in Listed
    BY DEF ListedOnce, InUse
  <2>2. \A j \in Before(i) : root[j].name # EndMark
    BY <2>1 DEF Listed
  <2> QED
    BY <2>1, <2>2 DEF compareFileNames
<1> HIDE DEF hit
<1>5. hit # {} => First(hit) \in hit
  BY <1>2, FirstIsLeast
<1>6. Find(n) # 0 => Find(n) \in InUse /\ root[Find(n)].name = n
  BY <1>1, <1>3, <1>5
<1>7. \A i \in InUse : root[i].name = n => Find(n) = i /\ i # 0
  <2> SUFFICES ASSUME NEW i \in InUse, root[i].name = n PROVE Find(n) = i /\ i # 0
    OBVIOUS
  <2>1. Find(n) \in hit /\ i \in hit
    BY <1>1, <1>4, <1>5
  <2>2. Find(n) = i
    BY <1>3, <2>1 DEF ListedOnce
  <2> QED
    BY <1>2, <2>1, <2>2
<1> QED
  BY <1>6, <1>7 DEF Has

(* The entry that fat12_create_dir_entry writes.                           *)
LEMMA EnterIs ==
  ASSUME Types, Calls, Directory, Enters
  PROVE  /\ job.entry \in Entries /\ job.entry \notin InUse /\ job.entry \in Available
         /\ job.path \in Names
         /\ root'[job.entry].name = job.path /\ root'[job.entry].fileSize = 0
         /\ root'[job.entry].firstClusterLow = job.found
         /\ \A i \in Entries : i # job.entry => root'[i] = root[i]
         /\ InUse' = InUse \cup {job.entry} /\ Available' = Available \ {job.entry}
         /\ \A i \in InUse : root[i].name # job.path
         /\ job.pc = "enter" /\ job'.pc = "unsaved"
<1>1. /\ job.path \in Names /\ job.entry = First(Available) /\ Available # {}
      /\ \A i \in InUse : root[i].name # job.path
  BY CardAssumption DEF Enters, Calls, Directory
<1>2. job.entry \in Available /\ job.entry \in Entries
  BY <1>1, AvailableIs
<1>3. root \in [Entries -> DirEntry] /\ job \in JobRecord
  BY DEF Types, DiskTypeOK
<1>4. root' = [root EXCEPT ![job.entry] =
                [name |-> job.path, firstClusterLow |-> job.found, fileSize |-> 0]]
      /\ job.pc = "enter" /\ job'.pc = "unsaved"
  BY <1>3 DEF Enters, JobRecord
<1>5. /\ root'[job.entry].name = job.path /\ root'[job.entry].fileSize = 0
      /\ root'[job.entry].firstClusterLow = job.found
      /\ \A i \in Entries : i # job.entry => root'[i] = root[i]
  BY <1>2, <1>3, <1>4
<1>6. job.entry \notin InUse
  BY <1>2, CardAssumption DEF InUse, Available
<1>7. InUse' = InUse \cup {job.entry}
  BY <1>1, <1>2, <1>5 DEF InUse
<1>8. Available' = Available \ {job.entry}
  <2>1. \A i \in Entries : i # job.entry => root'[i].name = root[i].name
    BY <1>5
  <2>2. root'[job.entry].name \notin {EndMark, Deleted}
    BY <1>1, <1>5, CardAssumption
  <2> QED
    BY <1>2, <2>1, <2>2 DEF Available
<1> QED
  BY <1>1, <1>2, <1>4, <1>5, <1>6, <1>7, <1>8

LEMMA WriteSizeIs ==
  ASSUME Types, WritesSize
  PROVE  /\ \A i \in Entries : /\ root'[i].name = root[i].name
                               /\ root'[i].firstClusterLow = root[i].firstClusterLow
                               /\ i # job.entry => root'[i] = root[i]
                               /\ i = job.entry => root'[i].fileSize = Len(job.text)
         /\ InUse' = InUse /\ Available' = Available
         /\ job.pc = "write" /\ job'.pc = "saved" /\ job'.entry = job.entry
         /\ job'.text = job.text /\ job'.block = job.block
<1>1. root \in [Entries -> DirEntry] /\ job \in JobRecord
  BY DEF Types, DiskTypeOK
<1>2. /\ root' = [root EXCEPT ![job.entry].fileSize = Len(job.text)]
      /\ job.pc = "write" /\ job'.pc = "saved" /\ job'.entry = job.entry
      /\ job'.text = job.text /\ job'.block = job.block
  BY <1>1 DEF WritesSize, JobRecord
<1>3. \A i \in Entries : /\ root'[i].name = root[i].name
                         /\ root'[i].firstClusterLow = root[i].firstClusterLow
                         /\ i # job.entry => root'[i] = root[i]
                         /\ i = job.entry => root'[i].fileSize = Len(job.text)
  BY <1>1, <1>2 DEF DirEntry
<1>4. InUse' = InUse /\ Available' = Available
  BY <1>3 DEF InUse, Available
<1> QED
  BY <1>2, <1>3, <1>4

(* What the other steps of write_file leave alone.                         *)
LEMMA OtherSteps ==
  ASSUME Types, WritesFile, ~Enters, ~WritesSize
  PROVE  /\ root' = root /\ InUse' = InUse /\ Available' = Available
         /\ job'.entry = job.entry /\ job'.path = job.path /\ job'.text = job.text
         /\ \/ job.pc = "create" /\ job'.pc = "end"
            \/ job.pc = "end" /\ job'.pc = "enter"
            \/ job.pc \in {"write", "link", "seal"} /\ job'.pc \in {"write", "link", "seal"}
<1>1. root' = root /\ job \in JobRecord
  BY DEF WritesFile, Create, EndsChain, Extends, Links, Seals, WritesBlock, Types
<1>2. job'.entry = job.entry /\ job'.path = job.path /\ job'.text = job.text
  BY <1>1
     DEF WritesFile, Create, EndsChain, Extends, Links, Seals, WritesBlock, Writing, JobRecord
<1>3. \/ job.pc = "create" /\ job'.pc = "end"
      \/ job.pc = "end" /\ job'.pc = "enter"
      \/ job.pc \in {"write", "link", "seal"} /\ job'.pc \in {"write", "link", "seal"}
  BY <1>1
     DEF WritesFile, Create, EndsChain, Extends, Links, Seals, WritesBlock, Writing, JobRecord
<1> QED
  BY <1>1, <1>2, <1>3 DEF InUse, Available

----------------------------------------------------------------------------

LEMMA InstallNames ==
  ASSUME Types, OpenNames, openCount < MaxOpenedFiles, NEW fd \in Descriptor, Install(fd),
         ~AlreadyOpen(fd.file_name), root' = root, fd.write_offset <= Len(fd.text),
         ~Has(fd.file_name) => Available = {}
  PROVE  OpenNames'
<1>1. PICK s \in Slots \ Opened : /\ Opened' = Opened \cup {s}
                                  /\ vfs_openFiles' = [vfs_openFiles EXCEPT ![s] = fd]
  BY InstallIs
<1>2. vfs_openFiles \in [Slots -> Descriptor \cup {NULL}] /\ Opened \subseteq Slots
  BY OpenedIs DEF Types
<1>3. vfs_openFiles'[s] = fd /\ \A r \in Opened : r # s /\ vfs_openFiles'[r] = vfs_openFiles[r]
  BY <1>1, <1>2
<1>4. \A n : (Has(n)' <=> Has(n)) /\ Available' = Available
  BY DEF Has, InUse, Available
<1>5. \A r \in Opened : vfs_openFiles[r].file_name # fd.file_name
  BY DEF AlreadyOpen
<1> QED
  BY <1>1, <1>3, <1>4, <1>5 DEF OpenNames

LEMMA ReplaceNames ==
  ASSUME Types, OpenNames, NEW s \in Opened, NEW fd \in Descriptor,
         vfs_openFiles' = [vfs_openFiles EXCEPT ![s] = fd], openCount' = openCount,
         fd.file_name = vfs_openFiles[s].file_name, fd.write_offset <= Len(fd.text), root' = root
  PROVE  OpenNames'
<1>1. vfs_openFiles \in [Slots -> Descriptor \cup {NULL}] /\ Opened \subseteq Slots
  BY OpenedIs DEF Types
<1>2. Opened' = Opened
  BY ReplaceIs
<1>3. vfs_openFiles'[s] = fd /\ \A r \in Opened : r # s => vfs_openFiles'[r] = vfs_openFiles[r]
  BY <1>1
<1>4. \A n : (Has(n)' <=> Has(n)) /\ Available' = Available
  BY DEF Has, InUse, Available
<1> QED
  BY <1>2, <1>3, <1>4 DEF OpenNames

(* Files are made, never taken away, and the last entry goes to a new one  *)
(* only when there was one.                                                *)
LEMMA FilesStay ==
  ASSUME Types, Calls, Directory, WritesFile
  PROVE  /\ \A n : Has(n) => Has(n)'
         /\ Available = {} => Available' = {} /\ \A n : Has(n)' => Has(n)
<1>1. CASE Enters
  <2>1. Available # {}
    BY <1>1, EnterIs
  <2>2. \A n : Has(n) => Has(n)'
    <3>1. /\ \A i \in InUse : i \in Entries /\ i # job.entry
          /\ InUse' = InUse \cup {job.entry}
      BY <1>1, EnterIs DEF InUse
    <3>2. \A i \in Entries : i # job.entry => root'[i] = root[i]
      BY <1>1, EnterIs
    <3> QED
      BY <3>1, <3>2 DEF Has
  <2> QED
    BY <2>1, <2>2
<1>2. CASE WritesSize
  <2>1. \A i \in InUse : i \in Entries
    BY DEF InUse
  <2> QED
    BY <1>2, <2>1, WriteSizeIs DEF Has
<1>3. CASE ~Enters /\ ~WritesSize
  BY <1>3, OtherSteps DEF Has
<1> QED
  BY <1>1, <1>2, <1>3

LEMMA CardStepNames ==
  ASSUME Types, Calls, Directory, Naming, CardStep, WritesFile
  PROVE  Naming'
<1>1. WritesFile /\ UNCHANGED <<vfs_openFiles, openCount, call>>
  BY DEF CardStep
<1>2. Opened' = Opened
  BY <1>1 DEF Opened
<1>3. OpenNames'
  BY <1>1, <1>2, FilesStay DEF Naming, OpenNames
<1>4. job.pc # "idle"
  BY <1>1 DEF WritesFile, Create, EndsChain, Enters, Extends, Links, Seals, WritesBlock,
              WritesSize, Writing
<1>5. call.op \in {"open", "close"}
  BY <1>4 DEF Types, CallRecord
<1>6. CASE Enters
  <2>1. call.op = "open"
    BY <1>5, <1>6, EnterIs DEF Naming, Closing
  <2>2. job.path = call.path
    BY <1>6, <2>1, EnterIs DEF Naming, Opening
  <2>3. \E i \in InUse' : root'[i].name = call.path /\ root'[i].fileSize = 0
    BY <1>6, <2>2, EnterIs
  <2>4. Opening'
    BY <1>1, <1>6, <2>3, EnterIs DEF Opening
  <2> QED
    BY <1>1, <1>3, <2>1, <2>4 DEF Naming
<1>7. CASE WritesSize
  <2>1. call.op = "close"
    BY <1>5, <1>7, WriteSizeIs DEF Naming, Opening
  <2>2. job.entry \in InUse /\ job.entry \in Entries
        /\ root[job.entry].name = vfs_openFiles[call.slot].file_name
    BY <1>7, <2>1, WriteSizeIs DEF Naming, Closing, InUse
  <2>3. Closing'
    BY <1>1, <1>7, <2>1, <2>2, WriteSizeIs DEF Naming, Closing
  <2> QED
    BY <1>1, <1>3, <2>1, <2>3 DEF Naming
<1>8. CASE ~Enters /\ ~WritesSize
  <2>1. call.op = "close" => Closing'
    BY <1>1, <1>8, OtherSteps DEF Naming, Closing
  <2>2. call.op = "open" => Opening'
    BY <1>1, <1>8, OtherSteps DEF Naming, Opening
  <2> QED
    BY <1>1, <1>3, <2>1, <2>2 DEF Naming
<1> QED
  BY <1>6, <1>7, <1>8

LEMMA InitNaming ==
  ASSUME Init
  PROVE  Naming
<1>1. Opened = {} /\ call.op = "none"
  BY NoCallIs DEF Init, Opened
<1> QED
  BY <1>1 DEF Naming, OpenNames

LEMMA OpenFoundNames ==
  ASSUME Types, Calls, Directory, Naming, ShortFor = {}, NEW path \in Paths, NEW flags \in Flags,
         OpenFound(path, flags)
  PROVE  Naming'
<1> DEFINE fd == NewDescriptor(path, flags, FileText(Find(path)))
<1>1. /\ Find(path) # 0 /\ ~AlreadyOpen(path) /\ Install(fd)
      /\ UNCHANGED <<root, job, call>> /\ call.op = "none" /\ openCount < MaxOpenedFiles
  BY OpenedIs, FilesAssumption DEF OpenFound, MayOpen, disk
<1>2. path \in Names /\ Has(path) /\ Find(path) \in Entries
  BY <1>1, FindName, CardAssumption DEF Directory, InUse
<1>3. FileText(Find(path)) \in Texts /\ Len(FileText(Find(path))) \in Nat
  BY <1>2, FileTextIs, TextsAre
<1>4. fd \in Descriptor /\ fd.file_name = path
  BY <1>2, <1>3, NewDescriptorIs
<1>5. fd.write_offset <= Len(fd.text)
  BY <1>3 DEF NewDescriptor
<1> HIDE DEF fd
<1>6. OpenNames'
  BY <1>1, <1>2, <1>4, <1>5, InstallNames DEF Naming
<1> QED
  BY <1>1, <1>6 DEF Naming

(* What fat12_write_file is called with.                                   *)
LEMMA NewJobFor ==
  ASSUME Types, NEW path \in Paths, NEW text \in Texts, NEW new, new = NewJob(path, text)
  PROVE  /\ new.text = text /\ new.path = path /\ new.prev = 0
         /\ new.pc = "unsaved" => Find(path) = 0 /\ Available = {}
         /\ Find(path) = 0 /\ Available = {} => new.pc = "unsaved"
         /\ Find(path) # 0 => new.pc = "write" /\ new.entry = Find(path)
BY DEF NewJob, NoJob

LEMMA OpenCreatesNames ==
  ASSUME Types, Calls, Directory, Naming, ShortFor = {}, NEW path \in Paths, NEW flags \in Flags,
         OpenCreates(path, flags)
  PROVE  Naming'
<1>1. /\ Find(path) = 0 /\ job' = NewJob(path, <<>>) /\ call'.op = "open" /\ call'.path = path
      /\ UNCHANGED <<root, vfs_openFiles>>
  BY DEF OpenCreates, disk, NoCall
<1>2. <<>> \in Texts /\ path \in Names
  BY TextsAre, CardAssumption
<1>3. /\ job'.pc \in {"create", "unsaved"} /\ job'.path = path
      /\ job'.pc = "unsaved" => Available = {}
  BY <1>1, <1>2, NewJobIs, NewJobFor
<1>4. ~Has(path)
  BY <1>1, <1>2, FindName DEF Directory
<1>5. Available' = Available /\ Opened' = Opened /\ \A n : Has(n)' <=> Has(n)
  BY <1>1 DEF Available, Opened, Has, InUse
<1>6. Opening'
  BY <1>1, <1>3, <1>4, <1>5 DEF Opening
<1>7. OpenNames'
  BY <1>1, <1>5 DEF Naming, OpenNames
<1> QED
  BY <1>1, <1>6, <1>7 DEF Naming

LEMMA OpenReturnsNames ==
  ASSUME Types, Calls, Directory, Naming, OpenReturns
  PROVE  Naming'
<1>1. /\ call.op = "open" /\ UNCHANGED root /\ call' = NoCall
      /\ call.path \in Paths /\ call.flags \in Flags /\ openCount < MaxOpenedFiles
      /\ job.pc = "unsaved"
  BY DEF OpenReturns, disk, Calls, Naming, Opening
<1>2. call'.op = "none"
  BY <1>1, NoCallIs
<1>3. CASE AlreadyOpen(call.path)
  <2>1. UNCHANGED vfs_openFiles
    BY <1>3 DEF OpenReturns
  <2>2. Available' = Available /\ Opened' = Opened /\ \A n : Has(n)' <=> Has(n)
    BY <1>1, <2>1 DEF Available, Opened, Has, InUse
  <2>3. OpenNames'
    BY <2>1, <2>2 DEF Naming, OpenNames
  <2> QED
    BY <1>2, <2>3 DEF Naming
<1>4. CASE ~AlreadyOpen(call.path)
  <2> DEFINE fd == NewDescriptor(call.path, call.flags, <<>>)
  <2>1. Install(fd)
    BY <1>4 DEF OpenReturns
  <2>2. fd \in Descriptor /\ fd.file_name = call.path
    BY <1>1, TextsAre, NewDescriptorIs, CardAssumption
  <2>3. fd.write_offset <= Len(fd.text)
    BY DEF NewDescriptor
  <2>4. ~Has(call.path) => Available = {}
    BY <1>1 DEF Naming, Opening, Has
  <2> HIDE DEF fd
  <2>5. OpenNames'
    BY <1>1, <1>4, <2>1, <2>2, <2>3, <2>4, InstallNames DEF Naming
  <2> QED
    BY <1>2, <2>5 DEF Naming
<1> QED
  BY <1>3, <1>4

LEMMA CloseNames ==
  ASSUME Types, Calls, Directory, Naming, ShortFor = {}, NEW s \in Slots, Close(s)
  PROVE  Naming'
<1> DEFINE name == vfs_openFiles[s].file_name
           text == vfs_openFiles[s].text
<1>1. /\ s \in Opened /\ job' = NewJob(name, text) /\ call'.op = "close" /\ call'.slot = s
      /\ UNCHANGED <<root, vfs_openFiles>>
  BY DEF Close, disk, NoCall
<1>2. text \in Texts /\ name \in Paths /\ name \in Names
  BY <1>1, OpenedIs, DescriptorIs, CardAssumption DEF Calls
<1> HIDE DEF name, text
<1>3. /\ job'.text = text /\ (job'.pc = "unsaved" => Find(name) = 0 /\ Available = {})
      /\ (Find(name) # 0 => job'.pc = "write" /\ job'.entry = Find(name))
      /\ (Find(name) = 0 /\ Available = {} => job'.pc = "unsaved")
  BY <1>1, <1>2, NewJobFor
<1>4. /\ ~Has(name) => Available = {}
      /\ Has(name) <=> Find(name) # 0
      /\ Find(name) # 0 => Find(name) \in InUse /\ root[Find(name)].name = name
  <2>1. ~Has(name) => Available = {}
    BY <1>1 DEF Naming, OpenNames, name
  <2> QED
    BY <1>2, <2>1, FindName DEF Directory
<1>5. Available' = Available /\ Opened' = Opened /\ InUse' = InUse /\ \A n : Has(n)' <=> Has(n)
  BY <1>1 DEF Available, Opened, Has, InUse
<1>6. Closing'
  BY <1>1, <1>3, <1>4, <1>5 DEF Closing, name, text
<1>7. OpenNames'
  BY <1>1, <1>5 DEF Naming, OpenNames
<1> QED
  BY <1>1, <1>6, <1>7 DEF Naming

LEMMA CloseReturnsNames ==
  ASSUME Types, Calls, Naming, CloseReturns
  PROVE  Naming'
<1>1. /\ vfs_openFiles' = [vfs_openFiles EXCEPT ![call.slot] = NULL]
      /\ openCount' = openCount - 1 /\ UNCHANGED root /\ call' = NoCall
  BY DEF CloseReturns, disk
<1>2. call.slot \in Opened
  BY DEF CloseReturns, Calls
<1>3. Opened' = Opened \ {call.slot} /\ vfs_openFiles \in [Slots -> Descriptor \cup {NULL}]
  BY <1>1, <1>2, UninstallIs DEF Types
<1>4. \A s \in Opened' : s \in Opened /\ vfs_openFiles'[s] = vfs_openFiles[s]
  BY <1>1, <1>3, OpenedIs
<1>5. Available' = Available /\ \A n : Has(n)' <=> Has(n)
  BY <1>1 DEF Available, Has, InUse
<1>6. OpenNames'
  BY <1>4, <1>5 DEF Naming, OpenNames
<1> QED
  BY <1>1, <1>6, NoCallIs DEF Naming

LEMMA StepNaming ==
  ASSUME Types, Calls, Buffered, Directory, Naming, ShortFor = {}, ~stray', [Next]_vars
  PROVE  Naming'
<1>1. CASE UNCHANGED vars
  <2>1. UNCHANGED <<root, vfs_openFiles, call, job>>
    BY <1>1 DEF vars, disk
  <2>2. Available' = Available /\ Opened' = Opened /\ InUse' = InUse /\ \A n : Has(n)' <=> Has(n)
    BY <2>1 DEF Available, Opened, Has, InUse
  <2> QED
    BY <2>1, <2>2 DEF Naming, OpenNames, Closing, Opening
<1>2. ASSUME NEW path \in Paths, NEW flags \in Flags, OpenFound(path, flags)
      PROVE  Naming'
  BY <1>2, OpenFoundNames
<1>3. ASSUME NEW path \in Paths, NEW flags \in Flags, OpenCreates(path, flags)
      PROVE  Naming'
  BY <1>3, OpenCreatesNames
<1>4. ASSUME NEW s \in Slots, Close(s)
      PROVE  Naming'
  BY <1>4, CloseNames
<1>5. ASSUME NEW s \in Slots, NEW bytes \in Counts, Read(s, bytes)
      PROVE  Naming'
  <2>1. PICK fd \in Descriptor :
           /\ vfs_openFiles' = [vfs_openFiles EXCEPT ![s] = fd]
           /\ fd.file_name = vfs_openFiles[s].file_name /\ fd.text = vfs_openFiles[s].text
           /\ fd.write_offset = vfs_openFiles[s].write_offset
    BY <1>5, ReadIs
  <2>2. /\ s \in Opened /\ openCount' = openCount /\ root' = root /\ call' = call
        /\ call.op = "none"
    BY <1>5 DEF Read, disk
  <2>3. fd.write_offset <= Len(fd.text)
    BY <2>1, <2>2 DEF Naming, OpenNames
  <2>4. OpenNames'
    BY <2>1, <2>2, <2>3, ReplaceNames DEF Naming
  <2> QED
    BY <2>2, <2>4 DEF Naming
<1>6. ASSUME NEW s \in Slots, NEW bytes \in Counts, NEW d \in Input, Write(s, d, bytes)
      PROVE  Naming'
  <2> DEFINE old == vfs_openFiles[s]
             end == old.write_offset + bytes
  <2>1. PICK fd \in Descriptor :
           /\ vfs_openFiles' = [vfs_openFiles EXCEPT ![s] = fd]
           /\ fd.file_name = old.file_name
           /\ fd.text = Written(old.text, old.write_offset, end, d)
           /\ fd.write_offset = end
    BY <1>6, WriteIs
  <2>2. /\ s \in Opened /\ openCount' = openCount /\ root' = root /\ call' = call
        /\ call.op = "none"
    BY <1>6 DEF Write, disk
  <2>3. fd.write_offset <= Len(fd.text)
    <3>1. old.text \in Texts /\ old.write_offset \in Nat /\ bytes \in Nat /\ Len(old.text) \in Nat
      BY <2>2, OpenedIs, DescriptorIs, TextsAre, FilesAssumption
    <3>2. fd.text \in Texts
      BY DescriptorIs
    <3>3. end \in Nat
      BY <3>1
    <3> HIDE DEF old, end
    <3>4. PICK size \in Nat : size = IF end > Len(old.text) THEN end ELSE Len(old.text)
      BY <3>1, <3>3
    <3>5. DOMAIN fd.text = 1 .. size /\ Len(fd.text) \in Nat /\ DOMAIN fd.text = 1 .. Len(fd.text)
      <4>1. DOMAIN fd.text = 1 .. size
        BY <2>1, <3>4 DEF Written
      <4>2. Len(fd.text) \in 0 .. MaxSize /\ DOMAIN fd.text = 1 .. Len(fd.text)
        BY <3>2, TextsAre
      <4> QED
        BY <4>1, <4>2, FilesAssumption
    <3>6. Len(fd.text) = size
      BY <3>5
    <3> QED
      BY <2>1, <3>1, <3>3, <3>4, <3>6
  <2>4. OpenNames'
    BY <2>1, <2>2, <2>3, ReplaceNames DEF Naming
  <2> QED
    BY <2>2, <2>4 DEF Naming
<1>7. ASSUME NEW s \in Slots, NEW offset \in Offsets, NEW mode \in Flags, Seek(s, offset, mode)
      PROVE  Naming'
  <2>1. PICK fd \in Descriptor :
           /\ vfs_openFiles' = [vfs_openFiles EXCEPT ![s] = fd]
           /\ fd.file_name = vfs_openFiles[s].file_name /\ fd.text = vfs_openFiles[s].text
           /\ fd.write_offset = vfs_openFiles[s].write_offset \/ fd.write_offset <= Len(fd.text)
    BY <1>7, SeekIs
  <2>2. /\ s \in Opened /\ openCount' = openCount /\ root' = root /\ call' = call
        /\ call.op = "none"
    BY <1>7 DEF Seek, disk
  <2>3. fd.write_offset <= Len(fd.text)
    BY <2>1, <2>2 DEF Naming, OpenNames
  <2>4. OpenNames'
    BY <2>1, <2>2, <2>3, ReplaceNames DEF Naming
  <2> QED
    BY <2>2, <2>4 DEF Naming
<1>8. CASE OpenReturns
  BY <1>8, OpenReturnsNames
<1>9. CASE CloseReturns
  BY <1>9, CloseReturnsNames
<1>10. CASE CardStep
  BY <1>10, CleanSteps, CardStepNames DEF CardStep
<1>11. CASE PowerCut
  <2>1. vfs_openFiles' = [s \in Slots |-> NULL] /\ call' = NoCall
    BY <1>11 DEF PowerCut
  <2>2. Opened' = {} /\ call'.op = "none"
    BY <2>1, NoCallIs DEF Opened
  <2> QED
    BY <2>2 DEF Naming, OpenNames
<1> QED
  BY <1>1, <1>2, <1>3, <1>4, <1>5, <1>6, <1>7, <1>8, <1>9, <1>10, <1>11 DEF Next

----------------------------------------------------------------------------
(* The files that no loss of power caught, on a card with room.            *)

(* What is known of them also after blocks were written elsewhere: their   *)
(* chains, and a set T of clusters apart from these that holds whatever    *)
(* the entries of the other files lead to.                                 *)
Kept == {i \in InUse : root[i].name \notin caught}
Clear(ch, c) == \A i \in Kept : \A n \in 1 .. Len(ch[i]) : ch[i][n] # c
Writer == job.pc \in {"write", "link", "seal"}

(* The chain of a file that was not caught has the file's size and an end  *)
(* mark, except between Link and Seal.                                     *)
KeptChains(ch) ==
  \A i \in Kept : /\ Chained(ch[i], i) /\ Sized(ch[i], i)
                  /\ IsEnd(fat[EndOf(ch[i])]) \/ (job.pc = "seal" /\ i = job.entry)

(* No cluster is twice in these chains.                                    *)
KeptApart(ch) ==
  \A i, j \in Kept : \A m \in 1 .. Len(ch[i]), n \in 1 .. Len(ch[j]) :
    ch[i][m] = ch[j][n] => i = j /\ m = n

(* T holds what spoiled files lead to, up to cluster 0, and no cluster of  *)
(* a kept file.  A 0 in the table at a place of T is an unused entry that  *)
(* a cut left at the end of a chain: it is at most one place beyond the    *)
(* next to be marked.                                                      *)
Astray(ch, T) ==
  /\ 0 \in T
  /\ \A c \in T : /\ Clear(ch, c)
                  /\ c # 0 /\ fat[c] \in Clusters => fat[c] \in T
                  /\ c # 0 /\ fat[c] = 0 => c <= First(Unused) + 1
  /\ \A i \in InUse \ Kept :
       root[i].firstClusterLow \in Clusters => root[i].firstClusterLow \in T

(* The blocks of the text that are written already.                        *)
Copied(q) ==
  /\ job.block <= Len(q)
  /\ \A m \in 1 .. job.block : data[q[m]] = TextBlock(m - 1)
  /\ job.pc = "saved" => /\ root[job.entry].fileSize = Len(job.text)
                         /\ Len(job.text) <= job.block * Units

(* Where write_file is: in the chain of the kept file being closed, or     *)
(* astray.                                                                 *)
AtWork(ch, T) ==
  /\ Writer /\ job.entry \in Kept => AtBlock(ch[job.entry])
  /\ (Writer \/ job.pc = "saved") /\ job.entry \in Kept => Copied(ch[job.entry])
  /\ Writer /\ job.entry \notin Kept =>
       /\ job.cluster \in Clusters => job.cluster \in T
       /\ job.prev \in Clusters => job.prev \in T
       /\ job.pc = "seal" => job.found \in T

(* The cluster found is that of no file, and nothing spoiled leads to it.  *)
FoundFree(ch, T) ==
  /\ job.pc \in {"end", "enter", "link"} =>
       job.found \in FileClusters /\ Clear(ch, job.found) /\ job.found \notin T
  /\ job.pc = "enter" => IsEnd(fat[job.found])

Safe(ch, T) ==
  KeptChains(ch) /\ KeptApart(ch) /\ Astray(ch, T) /\ AtWork(ch, T) /\ FoundFree(ch, T)

(* A step of write_file keeps the chains and the blocks of the files that  *)
(* it is not about.                                                        *)
Spared(ch, more) ==
  \A i \in Kept : (Writer => i # job.entry) =>
    more[i] = ch[i] /\ \A n \in 1 .. Len(ch[i]) : data'[ch[i][n]] = data[ch[i][n]]

LEMMA KeptIs ==
  ASSUME Types, NEW ch \in ChainSet, KeptChains(ch), NEW i \in Kept
  PROVE  /\ i \in InUse /\ i \in Entries /\ ch[i] \in Seq(FileClusters)
         /\ Chained(ch[i], i) /\ Sized(ch[i], i)
         /\ Len(ch[i]) \in 1 .. Len(ch[i]) /\ ch[i][Len(ch[i])] = EndOf(ch[i])
         /\ \A n \in 1 .. Len(ch[i]) :
              /\ ch[i][n] \in FileClusters /\ ch[i][n] \in Clusters /\ ch[i][n] # 0
              /\ ~(job.pc = "seal" /\ i = job.entry) => ch[i][n] \notin Unused
<1>1. i \in InUse /\ i \in Entries /\ ch[i] \in Seq(FileClusters)
  BY DEF Kept, InUse, ChainSet
<1>2. /\ Chained(ch[i], i) /\ Sized(ch[i], i)
      /\ IsEnd(fat[EndOf(ch[i])]) \/ (job.pc = "seal" /\ i = job.entry)
  BY DEF KeptChains
<1>3. Len(ch[i]) \in 1 .. Len(ch[i]) /\ ch[i][Len(ch[i])] = EndOf(ch[i])
  BY <1>1, <1>2, ChainIs DEF EndOf
<1>4. \A n \in 1 .. Len(ch[i]) :
        /\ ch[i][n] \in FileClusters /\ ch[i][n] \in Clusters /\ ch[i][n] # 0
        /\ n # Len(ch[i]) => ch[i][n] \notin Unused
  BY <1>1, <1>2, ChainIs
<1>5. IsEnd(fat[EndOf(ch[i])]) => EndOf(ch[i]) \notin Unused
  BY EndValues, UnusedIs, ClusterNumbers
<1> QED
  BY <1>1, <1>2, <1>3, <1>4, <1>5

LEMMA ZeroIsClear ==
  ASSUME Types, NEW ch \in ChainSet, KeptChains(ch)
  PROVE  Clear(ch, 0)
BY KeptIs DEF Clear

(* What is left of the unused clusters begins no earlier.                  *)
LEMMA BoundStays ==
  ASSUME Types, Unused' \subseteq Unused, NEW c \in Clusters, fat'[c] = 0, c <= First(Unused) + 1
  PROVE  c <= First(Unused)' + 1
<1>1. c \in Unused' /\ Unused' \subseteq Nat /\ c \in Nat
  BY ClusterNumbers, UnusedIs DEF Unused, FAT12_UNUSED
<1>2. First(Unused)' >= First(Unused) /\ First(Unused) \in Nat /\ First(Unused)' \in Nat
  <2>1. First(Unused)' >= First(Unused) /\ First(Unused) \in Nat
    BY <1>1, FewerUnused, FreeClusters, UnusedIs
  <2> QED
    BY <1>1, <2>1, FirstIsLeast
<1> QED
  BY <1>1, <1>2

(* Chains whose entries a step does not touch stay kept.                   *)
LEMMA KeptStay ==
  ASSUME Types, NEW ch \in ChainSet, KeptChains(ch), KeptApart(ch), root' = root, caught' = caught,
         \A i \in Kept : \A n \in 1 .. Len(ch[i]) : fat'[ch[i][n]] = fat[ch[i][n]],
         job.pc = "seal" => job'.pc = "seal" /\ job'.entry = job.entry
  PROVE  /\ KeptChains(ch)' /\ KeptApart(ch)' /\ Kept' = Kept /\ InUse' = InUse
         /\ \A c : Clear(ch, c)' <=> Clear(ch, c)
<1>1. Kept' = Kept /\ InUse' = InUse
  BY DEF Kept, InUse
<1>2. KeptApart(ch)' /\ \A c : Clear(ch, c)' <=> Clear(ch, c)
  BY <1>1 DEF KeptApart, Clear
<1>3. ASSUME NEW i \in Kept
      PROVE  /\ Chained(ch[i], i)' /\ Sized(ch[i], i)' /\ fat'[EndOf(ch[i])] = fat[EndOf(ch[i])]
             /\ IsEnd(fat[EndOf(ch[i])]) \/ (job.pc = "seal" /\ i = job.entry)
  <2>1. /\ i \in InUse /\ ch[i] \in Seq(FileClusters) /\ Chained(ch[i], i) /\ Sized(ch[i], i)
        /\ Len(ch[i]) \in 1 .. Len(ch[i]) /\ ch[i][Len(ch[i])] = EndOf(ch[i])
    BY KeptIs
  <2>2. fat'[EndOf(ch[i])] = fat[EndOf(ch[i])]
    BY <2>1
  <2>3. fat[EndOf(ch[i])] \notin 1 .. LastCluster
    BY <2>1 DEF Chained
  <2>4. Chained(ch[i], i)'
    BY <2>1, <2>2, <2>3, ChainStays
  <2> QED
    BY <2>1, <2>2, <2>4 DEF Sized, KeptChains
<1>4. KeptChains(ch)'
  <2> SUFFICES ASSUME NEW i \in Kept
               PROVE  /\ Chained(ch[i], i)' /\ Sized(ch[i], i)'
                      /\ IsEnd(fat'[EndOf(ch[i])]) \/ (job'.pc = "seal" /\ i = job'.entry)
    BY <1>1 DEF KeptChains, EndOf, IsEnd
  <2> QED
    BY <1>3
<1> QED
  BY <1>1, <1>2, <1>4

LEMMA AstrayStays ==
  ASSUME Types, NEW ch, NEW T \in SUBSET Clusters, Astray(ch, T), root' = root, caught' = caught,
         Unused' \subseteq Unused,
         \A c \in T : fat'[c] = fat[c] \/ fat'[c] \notin Clusters \/ c = 0
  PROVE  Astray(ch, T)'
<1>1. Kept' = Kept /\ InUse' = InUse /\ \A c : Clear(ch, c)' <=> Clear(ch, c)
  BY DEF Kept, InUse, Clear
<1>2. ASSUME NEW c \in T
      PROVE  /\ Clear(ch, c)
             /\ c # 0 /\ fat'[c] \in Clusters => fat'[c] \in T
             /\ c # 0 /\ fat'[c] = 0 => c <= First(Unused)' + 1
  <2>1. /\ Clear(ch, c)
        /\ c # 0 /\ fat[c] \in Clusters => fat[c] \in T
        /\ c # 0 /\ fat[c] = 0 => c <= First(Unused) + 1
    BY DEF Astray
  <2>2. c # 0 /\ fat'[c] = 0 => fat[c] = 0
    BY ClusterNumbers
  <2> QED
    BY <2>1, <2>2, BoundStays
<1>3. 0 \in T /\ \A i \in InUse \ Kept :
        root[i].firstClusterLow \in Clusters => root[i].firstClusterLow \in T
  BY DEF Astray
<1> QED
  BY <1>1, <1>2, <1>3 DEF Astray

LEMMA StaysSafe ==
  ASSUME Stays, NEW ch, NEW T, Safe(ch, T)
  PROVE  Safe(ch, T)'
<1>1. UNCHANGED <<fat, root, data, job, caught>>
  BY DEF Stays, disk
<1>2. InUse' = InUse /\ Kept' = Kept /\ Unused' = Unused /\ \A c : Clear(ch, c)' <=> Clear(ch, c)
  BY <1>1 DEF InUse, Unused, Kept, Clear
<1>3. KeptChains(ch)' /\ KeptApart(ch)'
  BY <1>1, <1>2 DEF Safe, KeptChains, KeptApart, Chained, Sized, IsEnd, EndOf
<1>4. Astray(ch, T)' /\ FoundFree(ch, T)'
  BY <1>1, <1>2 DEF Safe, Astray, FoundFree, IsEnd
<1>5. AtWork(ch, T)'
  BY <1>1, <1>2 DEF Safe, AtWork, Writer, AtBlock, Copied, TextBlock, IsEnd, EndOf
<1> QED
  BY <1>3, <1>4, <1>5 DEF Safe

LEMMA BeginsSafe ==
  ASSUME Types, Calls, Begins, NEW ch \in ChainSet, NEW T \in SUBSET Clusters, Safe(ch, T)
  PROVE  Safe(ch, T)'
<1>1. fat' = fat /\ root' = root /\ caught' = caught /\ job.pc = "idle"
  BY DEF Begins, disk
<1>2. PICK path \in Paths, text \in Texts : job' = NewJob(path, text)
  BY DEF Begins
<1>3. /\ job'.pc \in {"write", "create", "unsaved"} /\ job'.block = 0
      /\ job'.pc = "write" =>
           job'.entry \in InUse /\ job'.cluster = root[job'.entry].firstClusterLow
  BY <1>2, NewJobIs
<1>4. job'.prev = 0
  BY <1>2, NewJobFor
<1>5. /\ KeptChains(ch)' /\ KeptApart(ch)' /\ Kept' = Kept /\ InUse' = InUse
  BY <1>1, KeptStay DEF Safe
<1>6. Astray(ch, T)'
  BY <1>1, AstrayStays DEF Safe, Unused
<1>7. FoundFree(ch, T)'
  BY <1>3 DEF FoundFree
<1>8. AtWork(ch, T)'
  <2>1. CASE job'.pc = "write" /\ job'.entry \in Kept
    <3>1. /\ job'.cluster = ch[job'.entry][1] /\ Len(ch[job'.entry]) \in Nat
      BY <1>3, <2>1, KeptIs DEF Safe, Chained
    <3>2. AtBlock(ch[job.entry])'
      BY <1>3, <2>1, <3>1 DEF AtBlock
    <3>3. Copied(ch[job.entry])'
      BY <1>3, <2>1, <3>1 DEF Copied
    <3> QED
      BY <1>5, <2>1, <3>2, <3>3 DEF AtWork, Writer
  <2>2. CASE job'.pc = "write" /\ job'.entry \notin Kept
    <3>1. job'.cluster \in Clusters => job'.cluster \in T
      BY <1>3, <2>2 DEF Safe, Astray
    <3> QED
      BY <1>4, <1>5, <2>2, <3>1 DEF AtWork, Writer, Safe, Astray
  <2>3. CASE job'.pc # "write"
    BY <1>3, <2>3 DEF AtWork, Writer
  <2> QED
    BY <2>1, <2>2, <2>3
<1> QED
  BY <1>5, <1>6, <1>7, <1>8 DEF Safe

(* What a loss of power cuts off goes astray: the chain being written ends *)
(* in an end, or in the cluster found for it, whose 0 leads to cluster 0.  *)
LEMMA EndsSafe ==
  ASSUME Types, Room, FreeCluster \in Clusters, Ends, Writer => job.entry \notin Kept',
         NEW ch \in ChainSet, NEW T \in SUBSET Clusters, Safe(ch, T)
  PROVE  \E S \in SUBSET Clusters : Safe(ch, S)'
<1>1. fat' = fat /\ root' = root /\ job'.pc = "idle" /\ caught \subseteq caught'
  BY NoJobIs DEF Ends, disk
<1>2. InUse' = InUse /\ Unused' = Unused /\ Kept' \subseteq Kept
  BY <1>1 DEF InUse, Unused, Kept
<1> DEFINE Cast ==
      {c \in Clusters : \E i \in Kept \ Kept' : \E n \in 1 .. Len(ch[i]) : c = ch[i][n]}
<1>0. PICK S : S = T \cup Cast
  OBVIOUS
<1>3. KeptChains(ch) /\ KeptApart(ch) /\ Astray(ch, T) /\ AtWork(ch, T)
  BY DEF Safe
<1>4. ASSUME NEW i \in Kept, NEW n \in 1 .. Len(ch[i])
      PROVE  /\ fat[ch[i][n]] \in Clusters => \/ fat[ch[i][n]] = 0
                                              \/ \E m \in 1 .. Len(ch[i]) : fat[ch[i][n]] = ch[i][m]
             /\ fat[ch[i][n]] = 0 => ch[i][n] <= First(Unused) + 1
  <2>1. /\ i \in InUse /\ ch[i] \in Seq(FileClusters) /\ Chained(ch[i], i)
        /\ ch[i][n] \in Clusters
    BY <1>3, KeptIs
  <2>2. CASE n # Len(ch[i])
    BY <2>1, <2>2, ChainIs, UnusedIs
  <2>3. CASE n = Len(ch[i]) /\ IsEnd(fat[EndOf(ch[i])])
    BY <2>3, EndValues, ClusterNumbers DEF EndOf
  <2>4. CASE n = Len(ch[i]) /\ job.pc = "seal" /\ i = job.entry
    <3>1. job.found \in Clusters /\ Marking
      BY <2>4 DEF Room, Marking
    <3>2. job.found \in Unused /\ job.found <= First(Unused) + 1
      BY <3>1, FoundIsUnused
    <3>3. job.found = EndOf(ch[i])
      BY <1>3, <2>4, <3>1 DEF AtWork, AtBlock, Writer
    <3> QED
      BY <2>4, <3>2, <3>3, UnusedIs DEF EndOf
  <2> QED
    BY <1>3, <2>2, <2>3, <2>4 DEF KeptChains
<1>5. KeptChains(ch)' /\ KeptApart(ch)'
  <2>1. \A i \in Kept' : IsEnd(fat[EndOf(ch[i])])
    <3> SUFFICES ASSUME NEW i \in Kept', ~IsEnd(fat[EndOf(ch[i])]) PROVE FALSE
      OBVIOUS
    <3>1. i \in Kept /\ job.pc = "seal" /\ i = job.entry
      BY <1>2, <1>3 DEF KeptChains
    <3> QED
      BY <3>1 DEF Writer
  <2>2. KeptApart(ch)'
    BY <1>2, <1>3 DEF KeptApart
  <2> QED
    BY <1>1, <1>2, <1>3, <2>1, <2>2 DEF KeptChains, Chained, Sized, IsEnd, EndOf
<1>6. 0 \in S /\ S \in SUBSET Clusters
  BY <1>0, <1>3 DEF Astray
<1>7. ASSUME NEW c \in S
      PROVE  /\ Clear(ch, c)'
             /\ c # 0 /\ fat[c] \in Clusters => fat[c] \in S
             /\ c # 0 /\ fat[c] = 0 => c <= First(Unused) + 1
  <2>1. CASE c \in T
    <3>1. Clear(ch, c)'
      BY <1>2, <1>3, <2>1 DEF Astray, Clear
    <3> QED
      BY <1>0, <1>3, <2>1, <3>1 DEF Astray
  <2>2. CASE c \in Cast
    <3>1. PICK i \in Kept \ Kept' : \E n \in 1 .. Len(ch[i]) : c = ch[i][n]
      BY <2>2
    <3>2. Clear(ch, c)'
      BY <1>2, <1>3, <3>1 DEF KeptApart, Clear
    <3>3. \A m \in 1 .. Len(ch[i]) : ch[i][m] \in Cast
      BY <1>3, <3>1, KeptIs
    <3>4. PICK n \in 1 .. Len(ch[i]) : c = ch[i][n]
      BY <3>1
    <3>5. /\ fat[c] \in Clusters => fat[c] = 0 \/ \E m \in 1 .. Len(ch[i]) : fat[c] = ch[i][m]
          /\ c # 0 /\ fat[c] = 0 => c <= First(Unused) + 1
      BY <1>4, <3>1, <3>4
    <3>6. fat[c] \in Clusters => fat[c] \in S
      BY <1>0, <1>6, <3>3, <3>5
    <3> QED
      BY <3>2, <3>5, <3>6
  <2> QED
    BY <1>0, <2>1, <2>2
<1>8. ASSUME NEW i \in InUse \ Kept', root[i].firstClusterLow \in Clusters
      PROVE  root[i].firstClusterLow \in S
  <2>1. CASE i \notin Kept
    BY <1>0, <1>3, <1>8, <2>1 DEF Astray
  <2>2. CASE i \in Kept
    <3>1. 1 \in 1 .. Len(ch[i]) /\ root[i].firstClusterLow = ch[i][1]
      BY <1>3, <2>2, KeptIs, ChainIs DEF Chained
    <3> QED
      BY <1>0, <1>8, <2>2, <3>1
  <2> QED
    BY <2>1, <2>2
<1> HIDE DEF Cast
<1>9. Astray(ch, S)'
  <2>1. \A c \in S : /\ Clear(ch, c)'
                     /\ c # 0 /\ fat'[c] \in Clusters => fat'[c] \in S
                     /\ c # 0 /\ fat'[c] = 0 => c <= First(Unused)' + 1
    BY <1>1, <1>2, <1>7
  <2>2. \A i \in InUse' \ Kept' :
          root'[i].firstClusterLow \in Clusters => root'[i].firstClusterLow \in S
    BY <1>1, <1>2, <1>8
  <2> QED
    BY <1>6, <2>1, <2>2 DEF Astray
<1>10. AtWork(ch, S)' /\ FoundFree(ch, S)'
  BY <1>1 DEF AtWork, Writer, FoundFree
<1>11. Safe(ch, S)'
  BY <1>5, <1>9, <1>10 DEF Safe
<1> QED
  BY <1>6, <1>11

(* find_free_cluster marks no cluster of a kept file, and gives out one    *)
(* that nothing leads to.                                                  *)
LEMMA MarkSafe ==
  ASSUME Types, Room, FreeCluster \in Clusters, ~Marking, fat' = Marked, root' = root,
         caught' = caught, NEW ch \in ChainSet, NEW T \in SUBSET Clusters, Safe(ch, T)
  PROVE  /\ KeptChains(ch)' /\ KeptApart(ch)' /\ Astray(ch, T)' /\ Kept' = Kept
         /\ \A c : Clear(ch, c)' <=> Clear(ch, c)
         /\ FreeCluster \in FileClusters /\ Clear(ch, FreeCluster) /\ FreeCluster \notin T
         /\ \A i \in Kept : \A n \in 1 .. Len(ch[i]) : fat'[ch[i][n]] = fat[ch[i][n]]
<1>1. KeptChains(ch) /\ KeptApart(ch) /\ Astray(ch, T) /\ job.pc # "seal"
  BY DEF Safe, Marking
<1>2. /\ FreeCluster \in Unused /\ FreeCluster = First(Unused) + 2 /\ First(Unused) \in Unused
      /\ fat' = [fat EXCEPT ![First(Unused)] = FAT12_EOF_MAX]
  BY GivesFree, FreeClusters
<1>3. fat \in [Clusters -> ClusterValue] /\ First(Unused) \in Nat
  BY <1>2, UnusedIs DEF Types, DiskTypeOK
<1>4. \A c \in Clusters : fat'[c] = fat[c] \/ fat'[c] \notin Clusters
  BY <1>2, <1>3, ClusterNumbers
<1>5. \A c \in Clusters : c \notin Unused => fat'[c] = fat[c]
  BY <1>2, <1>3
<1>6. \A i \in Kept : \A n \in 1 .. Len(ch[i]) : ch[i][n] \in Clusters /\ ch[i][n] \notin Unused
  BY <1>1, KeptIs
<1>7. \A i \in Kept : \A n \in 1 .. Len(ch[i]) : fat'[ch[i][n]] = fat[ch[i][n]]
  BY <1>5, <1>6
<1>8. /\ KeptChains(ch)' /\ KeptApart(ch)' /\ Kept' = Kept
      /\ \A c : Clear(ch, c)' <=> Clear(ch, c)
  BY <1>1, <1>7, KeptStay
<1>9. Astray(ch, T)'
  <2>1. Unused' \subseteq Unused
    BY MarkUnused
  <2> QED
    BY <1>1, <1>4, <2>1, AstrayStays
<1>10. FreeCluster \in FileClusters
  BY <1>2, <1>3, ClusterNumbers DEF FileClusters, Clusters
<1>11. Clear(ch, FreeCluster)
  BY <1>2, <1>6 DEF Clear
<1>12. FreeCluster \notin T
  <2>1. fat[FreeCluster] = 0 /\ ~(FreeCluster <= First(Unused) + 1) /\ FreeCluster # 0
    BY <1>2, <1>3, UnusedIs
  <2> QED
    BY <1>1, <2>1 DEF Astray
<1> QED
  BY <1>7, <1>8, <1>9, <1>10, <1>11, <1>12

LEMMA CreateSafe ==
  ASSUME Types, Room, FreeCluster \in Clusters, Create, caught' = caught,
         NEW ch \in ChainSet, NEW T \in SUBSET Clusters, Safe(ch, T)
  PROVE  Safe(ch, T)' /\ Spared(ch, ch)
<1>1. /\ fat' = Marked /\ root' = root /\ data' = data /\ job.pc = "create" /\ job'.pc = "end"
      /\ job'.found = FreeCluster
  BY DEF Create, Types, JobRecord
<1>2. ~Marking
  BY <1>1 DEF Marking
<1>3. FoundFree(ch, T)'
  BY <1>1, <1>2, MarkSafe DEF FoundFree
<1>4. AtWork(ch, T)'
  BY <1>1 DEF AtWork, Writer
<1> QED
  BY <1>1, <1>2, <1>3, <1>4, MarkSafe DEF Safe, Spared

LEMMA EndChainSafe ==
  ASSUME Types, Room, FreeCluster \in Clusters, EndsChain, caught' = caught,
         NEW ch \in ChainSet, NEW T \in SUBSET Clusters, Safe(ch, T)
  PROVE  Safe(ch, T)' /\ Spared(ch, ch)
<1>1. /\ fat' = WithNext(job.found, FAT12_EOF_MAX) /\ root' = root /\ data' = data
      /\ job.pc = "end" /\ job'.pc = "enter" /\ job'.found = job.found
  BY DEF EndsChain, Types, JobRecord
<1>2. /\ KeptChains(ch) /\ KeptApart(ch) /\ Astray(ch, T)
      /\ job.found \in FileClusters /\ Clear(ch, job.found) /\ job.found \notin T
  BY <1>1 DEF Safe, FoundFree
<1>3. fat' = [fat EXCEPT ![job.found] = FAT12_EOF_MAX] /\ job.found \in Clusters
      /\ fat \in [Clusters -> ClusterValue]
  BY <1>1, <1>2, WithNextIs, EndIsItself, ClusterNumbers DEF FileClusters, Types, DiskTypeOK
<1>4. \A c \in Clusters : c # job.found => fat'[c] = fat[c]
  BY <1>3
<1>5. \A i \in Kept : \A n \in 1 .. Len(ch[i]) : fat'[ch[i][n]] = fat[ch[i][n]]
  BY <1>2, <1>4, KeptIs DEF Clear
<1>6. /\ KeptChains(ch)' /\ KeptApart(ch)' /\ Kept' = Kept
      /\ \A c : Clear(ch, c)' <=> Clear(ch, c)
  BY <1>1, <1>2, <1>5, KeptStay
<1>7. Astray(ch, T)'
  <2>1. Unused' \subseteq Unused
    BY <1>1, NextUnused
  <2>2. \A c \in T : fat'[c] = fat[c]
    BY <1>2, <1>4
  <2> QED
    BY <1>1, <1>2, <2>1, <2>2, AstrayStays
<1>8. FoundFree(ch, T)'
  <2>1. IsEnd(fat'[job.found])
    BY <1>3, ClusterNumbers
  <2> QED
    BY <1>1, <1>2, <1>6, <2>1 DEF FoundFree, IsEnd
<1>9. AtWork(ch, T)'
  BY <1>1 DEF AtWork, Writer
<1> QED
  BY <1>1, <1>6, <1>7, <1>8, <1>9 DEF Safe, Spared

LEMMA WorkingEntry ==
  ASSUME Types, Directory, Writer, NEW ch \in ChainSet, NEW T, Safe(ch, T), job.entry \in Kept
  PROVE  /\ ch[job.entry] \in Seq(FileClusters) /\ Chained(ch[job.entry], job.entry)
         /\ job.entry \in InUse /\ job.entry \in Entries
         /\ AtBlock(ch[job.entry]) /\ Copied(ch[job.entry])
BY KeptIs DEF Safe, AtWork

LEMMA ExtendSafe ==
  ASSUME Types, Directory, Room, FreeCluster \in Clusters, Extends, caught' = caught,
         NEW ch \in ChainSet, NEW T \in SUBSET Clusters, Safe(ch, T)
  PROVE  Safe(ch, T)' /\ Spared(ch, ch)
<1> DEFINE e == job.entry
<1>1. /\ fat' = Marked /\ root' = root /\ data' = data /\ job.pc = "write" /\ job'.pc = "link"
      /\ AtEnd /\ job'.found = FreeCluster /\ job'.entry = e /\ job'.text = job.text
      /\ job'.block = job.block /\ job'.prev = job.prev /\ job'.cluster = job.cluster
  BY DEF Extends, Writing, Types, JobRecord
<1>2. ~Marking
  BY <1>1 DEF Marking
<1>3. FoundFree(ch, T)'
  BY <1>1, <1>2, MarkSafe DEF FoundFree
<1>4. Kept' = Kept
  BY <1>1, <1>2, MarkSafe
<1>5. CASE e \in Kept
  <2>1. /\ e \in InUse /\ ch[e] \in Seq(FileClusters) /\ Chained(ch[e], e) /\ job.block \in Nat
        /\ Copied(ch[e])
    BY <1>1, <1>5, WorkingEntry DEF Types, JobRecord, Writer
  <2>2. /\ job.block <= Len(ch[e])
        /\ job.cluster = IF job.block = 0 THEN ch[e][1] ELSE fat[ch[e][job.block]]
        /\ job.block # 0 => job.prev = ch[e][job.block]
    BY <1>1, <1>5, WorkingEntry DEF AtBlock, Writer
  <2>3. \A c \in Clusters : job.cluster # c
    BY <1>1, EndValues DEF AtEnd
  <2>4. job.block # 0
    BY <2>1, <2>2, <2>3, ChainIs
  <2>5. job.block \in 1 .. Len(ch[e]) /\ job.block = Len(ch[e])
    <3>1. job.block \in 1 .. Len(ch[e])
      BY <2>1, <2>2, <2>4, ChainIs
    <3>2. job.block # Len(ch[e]) =>
            job.cluster = ch[e][job.block + 1] /\ job.block + 1 \in 1 .. Len(ch[e])
      BY <2>1, <2>2, <2>4, <3>1, ChainIs
    <3> QED
      BY <2>1, <2>3, <3>1, <3>2, ChainIs
  <2>6. job.prev = EndOf(ch[e]) /\ job.prev \in Clusters /\ IsEnd(fat[job.prev])
    <3>1. job.prev = EndOf(ch[e]) /\ job.prev \in Clusters /\ fat[job.prev] = job.cluster
      BY <2>1, <2>2, <2>4, <2>5, ChainIs DEF EndOf
    <3>2. fat[job.prev] \in ClusterValue
      BY <3>1 DEF Types, DiskTypeOK
    <3> QED
      BY <1>1, <3>1, <3>2, EndValues DEF AtEnd
  <2>7. AtBlock(ch[e])'
    <3>1. fat'[job.prev] = fat[job.prev]
      BY <1>1, <1>2, <1>5, <2>2, <2>4, <2>5, MarkSafe
    <3> QED
      BY <1>1, <2>4, <2>5, <2>6, <3>1 DEF AtBlock, IsEnd, EndOf
  <2>8. Copied(ch[e])'
    BY <1>1, <2>1 DEF Copied, TextBlock
  <2>9. AtWork(ch, T)'
    BY <1>1, <1>4, <1>5, <2>7, <2>8 DEF AtWork
  <2> QED
    BY <1>1, <1>2, <1>3, <2>9, MarkSafe DEF Safe, Spared
<1>6. CASE e \notin Kept
  <2>1. AtWork(ch, T)'
    BY <1>1, <1>4, <1>6 DEF Safe, AtWork, Writer
  <2> QED
    BY <1>1, <1>2, <1>3, <2>1, MarkSafe DEF Safe, Spared
<1> QED
  BY <1>5, <1>6

(* A block is written into the chain of the file being closed, or astray:  *)
(* never into another file that is kept.                                   *)
LEMMA WriteBlockSafe ==
  ASSUME Types, Directory, WritesBlock, caught' = caught,
         NEW ch \in ChainSet, NEW T \in SUBSET Clusters, Safe(ch, T)
  PROVE  Safe(ch, T)' /\ Spared(ch, ch)
<1> DEFINE e == job.entry
           c == job.cluster
<1>1. /\ fat' = fat /\ root' = root /\ job.pc = "write" /\ job'.pc = "write"
      /\ job'.entry = e /\ job'.block = job.block + 1 /\ job'.prev = c
      /\ job'.cluster = Successor(c) /\ ~AtEnd /\ job'.text = job.text
  BY DEF WritesBlock, Writing, Types, JobRecord
<1>2. data' = [data EXCEPT ![c] = TextBlock(job.block)] /\ c \in FileClusters
  BY DEF WritesBlock
<1>3. data \in [FileClusters -> Block] /\ job.block \in Nat
  BY DEF Types, DiskTypeOK, JobRecord
<1>4. KeptChains(ch) /\ KeptApart(ch) /\ Astray(ch, T) /\ Writer
  BY <1>1 DEF Safe, Writer
<1>5. KeptChains(ch)' /\ KeptApart(ch)' /\ Kept' = Kept /\ InUse' = InUse
  BY <1>1, <1>4, KeptStay
<1>6. Astray(ch, T)'
  BY <1>1, <1>4, AstrayStays DEF Unused
<1>7. FoundFree(ch, T)'
  BY <1>1 DEF FoundFree
<1>8. \A k \in FileClusters : k # c => data'[k] = data[k]
  BY <1>2, <1>3
<1>9. CASE e \in Kept
  <2>1. /\ e \in InUse /\ ch[e] \in Seq(FileClusters) /\ Chained(ch[e], e)
        /\ Copied(ch[e])
    BY <1>4, <1>9, WorkingEntry
  <2>2. /\ job.block <= Len(ch[e])
        /\ c = IF job.block = 0 THEN ch[e][1] ELSE fat[ch[e][job.block]]
    BY <1>1, <1>4, <1>9, WorkingEntry DEF AtBlock
  <2>3. job.block + 1 \in 1 .. Len(ch[e]) /\ c = ch[e][job.block + 1]
    <3>1. CASE job.block = 0
      BY <2>1, <2>2, <3>1, ChainIs
    <3>2. CASE job.block # 0
      <4>1. job.block \in 1 .. Len(ch[e]) /\ c = fat[ch[e][job.block]]
        BY <2>1, <2>2, <1>3, <3>2, ChainIs
      <4>2. job.block # Len(ch[e])
        <5>1. IsEnd(fat[EndOf(ch[e])]) /\ fat[EndOf(ch[e])] \in ClusterValue
          BY <1>1, <1>4, <1>9, <2>1, ChainIs DEF KeptChains, Types, DiskTypeOK
        <5>2. ~IsEnd(c) \/ c \notin ClusterValue
          BY <1>1, EndValues DEF AtEnd
        <5> QED
          BY <4>1, <5>1, <5>2 DEF EndOf
      <4> QED
        BY <2>1, <4>1, <4>2, ChainIs
    <3> QED
      BY <3>1, <3>2
  <2>4. c \in Clusters
    BY <2>1, <2>3, ChainIs
  <2>5. AtBlock(ch[e])'
    <3>1. job'.cluster = fat[c]
      BY <1>1, <2>4 DEF Successor
    <3> QED
      BY <1>1, <1>3, <2>3, <3>1 DEF AtBlock
  <2>6. Copied(ch[e])'
    <3>0. \A m \in 1 .. job.block : data[ch[e][m]] = TextBlock(m - 1)
      BY <2>1 DEF Copied
    <3>1. \A m \in 1 .. job.block : m \in 1 .. Len(ch[e]) /\ m # job.block + 1
      BY <1>3, <2>1, <2>2, ChainIs
    <3>2. \A m \in 1 .. job.block : ch[e][m] \in FileClusters /\ ch[e][m] # c
      BY <1>4, <1>9, <2>1, <2>3, <3>1, ChainIs DEF KeptApart
    <3>3. \A m \in 1 .. job.block : data'[ch[e][m]] = TextBlock(m - 1)
      BY <1>8, <3>0, <3>2
    <3>4. data'[ch[e][job.block + 1]] = TextBlock((job.block + 1) - 1)
      BY <1>2, <1>3, <2>3
    <3>5. \A m : TextBlock(m)' = TextBlock(m)
      BY <1>1 DEF TextBlock
    <3>6. \A m \in 1 .. job.block + 1 : m \in 1 .. job.block \/ m = job.block + 1
      BY <1>3
    <3>7. \A m \in 1 .. job'.block : data'[ch[e][m]] = TextBlock(m - 1)'
      BY <1>1, <3>3, <3>4, <3>5, <3>6
    <3>8. job'.block <= Len(ch[e])
      BY <1>1, <2>3
    <3> QED
      BY <1>1, <3>7, <3>8 DEF Copied
  <2>7. AtWork(ch, T)'
    BY <1>1, <1>5, <1>9, <2>5, <2>6 DEF AtWork
  <2>8. Spared(ch, ch)
    <3>1. \A i \in Kept : \A n \in 1 .. Len(ch[i]) :
            i # e => ch[i][n] \in FileClusters /\ ch[i][n] # c
      BY <1>4, <1>9, <2>3, KeptIs DEF KeptApart
    <3> QED
      BY <1>4, <1>8, <3>1 DEF Spared
  <2> QED
    BY <1>5, <1>6, <1>7, <2>7, <2>8 DEF Safe
<1>10. CASE e \notin Kept
  <2>1. c \in T /\ c # 0
    BY <1>2, <1>4, <1>10, ClusterNumbers DEF Safe, AtWork, FileClusters, FirstData
  <2>2. job'.cluster \in Clusters => job'.cluster \in T
    BY <1>1, <1>4, <2>1, ClusterNumbers DEF Successor, Astray
  <2>3. AtWork(ch, T)'
    BY <1>1, <1>5, <1>10, <2>1, <2>2 DEF AtWork, Writer
  <2>4. Spared(ch, ch)
    <3>1. \A i \in Kept : \A n \in 1 .. Len(ch[i]) : ch[i][n] \in FileClusters
      BY <1>4, KeptIs
    <3>2. \A i \in Kept : \A n \in 1 .. Len(ch[i]) : ch[i][n] # c
      BY <1>4, <2>1, <3>1 DEF Astray, Clear
    <3> QED
      BY <1>8, <3>1, <3>2 DEF Spared
  <2> QED
    BY <1>5, <1>6, <1>7, <2>3, <2>4 DEF Safe
<1> QED
  BY <1>9, <1>10

LEMMA WriteSizeSafe ==
  ASSUME Types, Directory, WritesSize, caught' = caught,
         NEW ch \in ChainSet, NEW T \in SUBSET Clusters, Safe(ch, T)
  PROVE  Safe(ch, T)' /\ Spared(ch, ch)
<1>0. PICK e : e = job.entry
  OBVIOUS
<1>1. /\ fat' = fat /\ data' = data /\ job.pc = "write" /\ job'.pc = "saved"
      /\ ~(job.block * Units < Len(job.text)) /\ Writer
      /\ job'.entry = e /\ job'.text = job.text /\ job'.block = job.block
  BY <1>0 DEF WritesSize, Writing, Types, JobRecord, Writer
<1>2. KeptChains(ch) /\ KeptApart(ch) /\ Astray(ch, T)
  BY DEF Safe
<1>3. /\ \A i \in Entries : /\ root'[i].name = root[i].name
                            /\ root'[i].firstClusterLow = root[i].firstClusterLow
                            /\ i # e => root'[i] = root[i]
                            /\ i = e => root'[i].fileSize = Len(job.text)
      /\ InUse' = InUse
  BY <1>0, WriteSizeIs
<1>4. Kept' = Kept /\ Kept \subseteq InUse /\ InUse \subseteq Entries
  BY <1>3 DEF Kept, InUse
<1>5. Unused' = Unused /\ \A c : Clear(ch, c)' <=> Clear(ch, c)
  BY <1>1, <1>4 DEF Unused, Clear
<1>6. job.block \in Nat /\ Len(job.text) \in Nat /\ Units \in Nat
  BY CardAssumption DEF Types, JobRecord
<1>7. \A b, u \in Nat : b * u \in Nat
  OBVIOUS
<1>8. Len(job.text) <= job.block * Units
  BY <1>1, <1>6, <1>7
<1>9. e \in Kept => Copied(ch[e])' /\ Sized(ch[e], e)'
  <2> SUFFICES ASSUME e \in Kept PROVE Copied(ch[e])' /\ Sized(ch[e], e)'
    OBVIOUS
  <2>1. Copied(ch[e]) /\ ch[e] \in Seq(FileClusters) /\ e \in Entries
    BY <1>0, <1>1, WorkingEntry
  <2>2. job.block <= Len(ch[e]) /\ Len(ch[e]) \in Nat
    BY <2>1 DEF Copied
  <2>3. \A b, n, u \in Nat : b <= n => b * u <= u * n /\ u * n \in Nat
    OBVIOUS
  <2>4. Len(job.text) <= Units * Len(ch[e])
    BY <1>6, <1>7, <1>8, <2>2, <2>3
  <2>5. root'[e].fileSize = Len(job.text)
    BY <1>3, <2>1
  <2>6. Copied(ch[e])'
    BY <1>1, <1>8, <2>1, <2>5 DEF Copied, TextBlock
  <2> QED
    BY <2>4, <2>5, <2>6 DEF Sized
<1>10. KeptChains(ch)'
  <2>1. ASSUME NEW i \in Kept
        PROVE  Chained(ch[i], i)' /\ Sized(ch[i], i)' /\ IsEnd(fat[EndOf(ch[i])])
    <3>1. Chained(ch[i], i) /\ Sized(ch[i], i) /\ i \in Entries /\ IsEnd(fat[EndOf(ch[i])])
      BY <1>1, <1>2, <1>4 DEF KeptChains
    <3>2. Chained(ch[i], i)'
      BY <1>1, <1>3, <3>1 DEF Chained, EndOf
    <3>3. i # e => Sized(ch[i], i)'
      BY <1>3, <3>1 DEF Sized
    <3> QED
      BY <1>9, <3>1, <3>2, <3>3
  <2> QED
    BY <1>1, <1>4, <2>1 DEF KeptChains, IsEnd, EndOf
<1>11. KeptApart(ch)'
  BY <1>2, <1>4 DEF KeptApart
<1>12. Astray(ch, T)'
  BY <1>1, <1>2, <1>3, <1>4, <1>5 DEF Astray
<1>13. AtWork(ch, T)' /\ FoundFree(ch, T)'
  BY <1>1, <1>4, <1>9 DEF AtWork, Writer, FoundFree
<1> QED
  BY <1>1, <1>10, <1>11, <1>12, <1>13 DEF Safe, Spared

(* A new file gets the cluster that was found for it, or that goes astray  *)
(* with the rest of a file that was caught under the same name.            *)
LEMMA EnterSafe ==
  ASSUME Types, Calls, Directory, Enters, caught' = caught,
         NEW ch \in ChainSet, NEW T \in SUBSET Clusters, Safe(ch, T)
  PROVE  \E more \in ChainSet, S \in SUBSET Clusters : Safe(more, S)' /\ Spared(ch, more)
<1>0. PICK e : e = job.entry
  OBVIOUS
<1>1. PICK f : f = job.found
  OBVIOUS
<1>2. /\ fat' = fat /\ data' = data /\ job.pc = "enter" /\ job'.pc = "unsaved" /\ ~Writer
  BY EnterIs DEF Enters, Writer
<1>3. /\ e \in Entries /\ e \notin InUse
      /\ root'[e].name = job.path /\ root'[e].fileSize = 0
      /\ root'[e].firstClusterLow = f
      /\ \A i \in Entries : i # e => root'[i] = root[i]
      /\ InUse' = InUse \cup {e}
  BY <1>0, <1>1, EnterIs
<1>4. /\ KeptChains(ch) /\ KeptApart(ch) /\ Astray(ch, T)
      /\ f \in FileClusters /\ Clear(ch, f) /\ f \notin T /\ IsEnd(fat[f])
  BY <1>1, <1>2 DEF Safe, FoundFree
<1>5. f \in Clusters /\ fat[f] \notin Clusters /\ fat[f] # 0
  <2>1. f \in Clusters
    BY <1>4, ClusterNumbers DEF FileClusters
  <2>2. fat[f] \in ClusterValue
    BY <2>1 DEF Types, DiskTypeOK
  <2> QED
    BY <1>4, <2>1, <2>2, EndValues, ClusterNumbers
<1>6. /\ Kept \subseteq InUse /\ InUse \subseteq Entries /\ e \notin Kept /\ Unused' = Unused
      /\ \A i \in InUse : i # e
  BY <1>2, <1>3 DEF Kept, InUse, Unused
<1>7. \A more, S : AtWork(more, S)' /\ FoundFree(more, S)'
  BY <1>2 DEF AtWork, FoundFree, Writer
<1>8. \A i \in Kept : Chained(ch[i], i)' /\ Sized(ch[i], i)' /\ IsEnd(fat[EndOf(ch[i])])
  <2> SUFFICES ASSUME NEW i \in Kept
               PROVE  Chained(ch[i], i)' /\ Sized(ch[i], i)' /\ IsEnd(fat[EndOf(ch[i])])
    OBVIOUS
  <2>1. Chained(ch[i], i) /\ Sized(ch[i], i) /\ i \in Entries /\ IsEnd(fat[EndOf(ch[i])])
    BY <1>2, <1>4, <1>6 DEF KeptChains
  <2>2. root'[i] = root[i]
    BY <1>3, <1>6
  <2> QED
    BY <1>2, <2>1, <2>2 DEF Chained, Sized, EndOf
<1>9. CASE job.path \in caught
  <2>1. Kept' = Kept
    <3>1. \A i \in InUse' : root'[i].name \notin caught' <=> i \in Kept
      BY <1>3, <1>6, <1>9 DEF Kept
    <3> QED
      BY <1>3, <1>6, <3>1 DEF Kept
  <2>2. PICK S \in SUBSET Clusters : S = T \cup {f}
    BY <1>5
  <2>3. KeptChains(ch)' /\ KeptApart(ch)'
    BY <1>2, <1>4, <1>8, <2>1 DEF KeptChains, KeptApart, IsEnd, EndOf
  <2>4. Astray(ch, S)'
    <3>1. 0 \in S
      BY <1>4, <2>2 DEF Astray
    <3>2. ASSUME NEW c \in S
          PROVE  /\ Clear(ch, c)'
                 /\ c # 0 /\ fat'[c] \in Clusters => fat'[c] \in S
                 /\ c # 0 /\ fat'[c] = 0 => c <= First(Unused)' + 1
      <4>1. Clear(ch, c)
        BY <1>4, <2>2 DEF Astray
      <4>2. Clear(ch, c)'
        BY <2>1, <4>1 DEF Clear
      <4> QED
        BY <1>2, <1>4, <1>5, <1>6, <2>2, <4>2 DEF Astray
    <3>3. ASSUME NEW i \in InUse' \ Kept', root'[i].firstClusterLow \in Clusters
          PROVE  root'[i].firstClusterLow \in S
      <4>1. CASE i = e
        BY <1>3, <2>2, <4>1
      <4>2. CASE i # e
        BY <1>3, <1>4, <1>6, <2>1, <2>2, <3>3, <4>2 DEF Astray
      <4> QED
        BY <4>1, <4>2
    <3> QED
      BY <3>1, <3>2, <3>3 DEF Astray
  <2>5. Safe(ch, S)'
    BY <1>7, <2>3, <2>4 DEF Safe
  <2> QED
    BY <1>2, <2>5 DEF Spared
<1>10. CASE job.path \notin caught
  <2>1. Kept' = Kept \cup {e}
    <3>1. \A i \in InUse' : root'[i].name \notin caught' <=> i \in Kept \cup {e}
      BY <1>3, <1>6, <1>10 DEF Kept
    <3> QED
      BY <1>3, <1>6, <3>1 DEF Kept
  <2>2. PICK q \in Seq(FileClusters) : q = <<f>> /\ Len(q) = 1 /\ q[1] = f /\ q # <<>>
    <3>1. <<f>> \in Seq(FileClusters) /\ Len(<<f>>) = 1 /\ <<f>>[1] = f /\ <<f>> # <<>>
      BY <1>4
    <3> QED
      BY <3>1
  <2>3. PICK more \in ChainSet : more[e] = q /\ \A i \in Kept : more[i] = ch[i]
    <3>1. [ch EXCEPT ![e] = q] \in ChainSet
      BY DEF ChainSet
    <3> QED
      BY <1>3, <1>6, <3>1 DEF ChainSet
  <2>4. Chained(q, e)' /\ Sized(q, e)' /\ EndOf(q) = f
    <3>1. EndOf(q) = f
      BY <2>2 DEF EndOf
    <3>2. Sized(q, e)'
      BY <1>3, <2>2, CardAssumption DEF Sized
    <3>3. f \notin {} /\ \A n \in 1 .. Len(q) - 1 : fat'[q[n]] = q[n + 1]
      BY <2>2
    <3>4. fat'[EndOf(q)] \notin 1 .. LastCluster
      BY <1>2, <1>5, <3>1, ClusterNumbers DEF Clusters
    <3> QED
      BY <1>3, <2>2, <3>1, <3>2, <3>3, <3>4 DEF Chained, EndOf
  <2>5. KeptChains(more)'
    <3> SUFFICES ASSUME NEW i \in Kept'
                 PROVE  Chained(more[i], i)' /\ Sized(more[i], i)' /\ IsEnd(fat'[EndOf(more[i])])
      BY DEF KeptChains, IsEnd, EndOf
    <3>1. CASE i = e
      BY <1>2, <1>4, <2>3, <2>4, <3>1
    <3>2. CASE i \in Kept
      BY <1>2, <1>8, <2>3, <3>2
    <3> QED
      BY <2>1, <3>1, <3>2
  <2>6. ASSUME NEW i \in Kept', NEW m \in 1 .. Len(more[i])
        PROVE  \/ i \in Kept /\ m \in 1 .. Len(ch[i]) /\ more[i][m] = ch[i][m] /\ ch[i][m] # f
               \/ i = e /\ m = 1 /\ more[i][m] = f
    <3>1. CASE i = e
      BY <2>2, <2>3, <3>1
    <3>2. CASE i \in Kept
      BY <1>4, <2>3, <3>2 DEF Clear
    <3> QED
      BY <2>1, <3>1, <3>2
  <2>7. KeptApart(more)'
    <3>1. ASSUME NEW i \in Kept', NEW j \in Kept',
                 NEW m \in 1 .. Len(more[i]), NEW n \in 1 .. Len(more[j]),
                 more[i][m] = more[j][n]
          PROVE  i = j /\ m = n
      <4>1. CASE i \in Kept /\ m \in 1 .. Len(ch[i]) /\ more[i][m] = ch[i][m] /\ ch[i][m] # f
        <5>1. j \in Kept /\ n \in 1 .. Len(ch[j]) /\ more[j][n] = ch[j][n]
          BY <2>6, <3>1, <4>1
        <5>2. ch[i][m] = ch[j][n]
          BY <3>1, <4>1, <5>1
        <5> QED
          BY <1>4, <4>1, <5>1, <5>2 DEF KeptApart
      <4>2. CASE i = e /\ m = 1 /\ more[i][m] = f
        <5>1. j = e /\ n = 1
          BY <2>6, <3>1, <4>2
        <5> QED
          BY <4>2, <5>1
      <4> QED
        BY <2>6, <4>1, <4>2
    <3> QED
      BY <3>1 DEF KeptApart
  <2>8. Astray(more, T)'
    <3>1. ASSUME NEW c \in T
          PROVE  /\ Clear(more, c)'
                 /\ c # 0 /\ fat'[c] \in Clusters => fat'[c] \in T
                 /\ c # 0 /\ fat'[c] = 0 => c <= First(Unused)' + 1
      <4>1. Clear(ch, c) /\ c # f
        BY <1>4 DEF Astray
      <4>2. Clear(more, c)'
        BY <2>6, <4>1 DEF Clear
      <4> QED
        BY <1>2, <1>4, <1>6, <4>2 DEF Astray
    <3>2. ASSUME NEW i \in InUse' \ Kept', root'[i].firstClusterLow \in Clusters
          PROVE  root'[i].firstClusterLow \in T
      BY <1>3, <1>4, <1>6, <2>1, <3>2 DEF Astray
    <3>3. 0 \in T
      BY <1>4 DEF Astray
    <3> QED
      BY <3>1, <3>2, <3>3 DEF Astray
  <2>9. Safe(more, T)'
    BY <1>7, <2>5, <2>7, <2>8 DEF Safe
  <2> QED
    BY <1>2, <2>3, <2>9 DEF Spared
<1> QED
  BY <1>9, <1>10

(* The end mark is put in the entry of the cluster linked last.            *)
LEMMA SealSafe ==
  ASSUME Types, Directory, Room, FreeCluster \in Clusters, Seals, caught' = caught,
         NEW ch \in ChainSet, NEW T \in SUBSET Clusters, Safe(ch, T)
  PROVE  Safe(ch, T)' /\ Spared(ch, ch)
<1>0. PICK e, f : e = job.entry /\ f = job.found
  OBVIOUS
<1>1. /\ fat' = WithNext(f, FAT12_EOF_MAX) /\ root' = root /\ data' = data
      /\ job.pc = "seal" /\ job'.pc = "write" /\ Writer
      /\ job'.cluster = f /\ job'.entry = e /\ job'.text = job.text
      /\ job'.prev = job.prev /\ job'.block = job.block
  BY <1>0 DEF Seals, Types, JobRecord, Writer
<1>2. /\ KeptChains(ch) /\ KeptApart(ch) /\ Astray(ch, T) /\ f \in Clusters
      /\ fat \in [Clusters -> ClusterValue]
  BY <1>0, <1>1 DEF Safe, Room, Types, DiskTypeOK
<1>3. fat' = [fat EXCEPT ![f] = FAT12_EOF_MAX]
  BY <1>1, <1>2, WithNextIs, EndIsItself
<1>4. IsEnd(fat'[f]) /\ fat'[f] \notin Clusters /\ \A c \in Clusters : c # f => fat'[c] = fat[c]
  BY <1>2, <1>3, ClusterNumbers
<1>5. Unused' \subseteq Unused
  BY <1>1, <1>2, NextUnused, ClusterNumbers
<1>6. Kept' = Kept /\ InUse' = InUse
  BY <1>1 DEF Kept, InUse
<1>7. Astray(ch, T)'
  BY <1>1, <1>2, <1>4, <1>5, AstrayStays
<1>8. e \in Kept => /\ job.block = Len(ch[e]) - 1 /\ job.block # 0 /\ Copied(ch[e])
                    /\ job.prev = ch[e][job.block] /\ f = EndOf(ch[e])
                    /\ ch[e] \in Seq(FileClusters) /\ Chained(ch[e], e) /\ e \in InUse
  BY <1>0, <1>1, <1>2, WorkingEntry DEF AtBlock
<1>9. ASSUME NEW i \in Kept, NEW n \in 1 .. Len(ch[i]), ch[i][n] = f
      PROVE  i = e /\ n = Len(ch[i])
  <2>1. CASE e \in Kept
    <3>1. Len(ch[e]) \in 1 .. Len(ch[e]) /\ ch[e][Len(ch[e])] = f
      BY <1>2, <1>8, <2>1, KeptIs
    <3> QED
      BY <1>2, <1>9, <2>1, <3>1 DEF KeptApart
  <2>2. CASE e \notin Kept
    <3>1. f \in T
      BY <1>0, <1>1, <2>2 DEF Safe, AtWork
    <3> QED
      BY <1>2, <1>9, <3>1 DEF Astray, Clear
  <2> QED
    BY <2>1, <2>2
<1>10. ASSUME NEW i \in Kept
       PROVE  Chained(ch[i], i)' /\ Sized(ch[i], i)' /\ IsEnd(fat'[EndOf(ch[i])])
  <2>1. /\ i \in InUse /\ ch[i] \in Seq(FileClusters) /\ Chained(ch[i], i) /\ Sized(ch[i], i)
        /\ EndOf(ch[i]) \in Clusters /\ Len(ch[i]) \in 1 .. Len(ch[i])
        /\ ch[i][Len(ch[i])] = EndOf(ch[i]) /\ \A n \in 1 .. Len(ch[i]) : ch[i][n] \in Clusters
    BY <1>2, KeptIs
  <2>2. \A n \in 1 .. Len(ch[i]) : n # Len(ch[i]) => fat'[ch[i][n]] = fat[ch[i][n]]
    BY <1>4, <1>9, <2>1
  <2>3. IsEnd(fat'[EndOf(ch[i])])
    <3>1. CASE EndOf(ch[i]) = f
      BY <1>4, <3>1
    <3>2. CASE EndOf(ch[i]) # f
      <4>1. i # e
        BY <1>8, <3>2
      <4>2. IsEnd(fat[EndOf(ch[i])])
        BY <1>0, <1>2, <4>1 DEF KeptChains
      <4> QED
        BY <1>4, <2>1, <3>2, <4>2
    <3> QED
      BY <3>1, <3>2
  <2>4. fat'[EndOf(ch[i])] \notin 1 .. LastCluster
    <3>1. fat'[EndOf(ch[i])] \notin Clusters
      BY <1>4, <2>1, <2>3, EndValues, <1>2
    <3> QED
      BY <3>1, ClusterNumbers DEF Clusters
  <2>5. Chained(ch[i], i)'
    BY <1>1, <2>1, <2>2, <2>4, ChainStays
  <2> QED
    BY <1>1, <2>1, <2>3, <2>5 DEF Sized
<1>11. KeptChains(ch)' /\ KeptApart(ch)'
  <2>1. KeptChains(ch)'
    BY <1>6, <1>10 DEF KeptChains, EndOf, IsEnd
  <2> QED
    BY <1>2, <1>6, <2>1 DEF KeptApart
<1>12. AtWork(ch, T)'
  <2>1. CASE e \in Kept
    <3>1. job.block \in 1 .. Len(ch[e]) /\ job.block + 1 = Len(ch[e])
          /\ job.block \in 1 .. Len(ch[e]) - 1 /\ job.block <= Len(ch[e])
      <4>1. Len(ch[e]) \in Nat \ {0} /\ job.block = Len(ch[e]) - 1 /\ job.block # 0
        BY <1>8, <2>1, ChainIs
      <4>2. \A n \in Nat \ {0} : n - 1 # 0 => /\ n - 1 \in 1 .. n /\ (n - 1) + 1 = n
                                               /\ n - 1 \in 1 .. n - 1 /\ n - 1 <= n
        OBVIOUS
      <4> QED
        BY <4>1, <4>2
    <3>2. fat'[ch[e][job.block]] = ch[e][job.block + 1]
      BY <1>10, <2>1, <3>1 DEF Chained
    <3>3. AtBlock(ch[e])'
      BY <1>1, <1>8, <2>1, <3>1, <3>2 DEF AtBlock, EndOf
    <3>4. Copied(ch[e])'
      BY <1>1, <1>8, <2>1 DEF Copied, TextBlock
    <3> QED
      BY <1>1, <1>6, <2>1, <3>3, <3>4 DEF AtWork
  <2>2. CASE e \notin Kept
    BY <1>0, <1>1, <1>6, <2>2 DEF Safe, AtWork, Writer
  <2> QED
    BY <2>1, <2>2
<1>13. FoundFree(ch, T)'
  BY <1>1 DEF FoundFree
<1> QED
  BY <1>1, <1>7, <1>11, <1>12, <1>13 DEF Safe, Spared

(* What was found is put at the end of a kept chain, or goes astray.       *)
LEMMA LinkSafe ==
  ASSUME Types, Directory, Room, FreeCluster \in Clusters, Links, caught' = caught,
         NEW ch \in ChainSet, NEW T \in SUBSET Clusters, Safe(ch, T)
  PROVE  \E more \in ChainSet, S \in SUBSET Clusters : Safe(more, S)' /\ Spared(ch, more)
<1>0. PICK e, f, p : e = job.entry /\ f = job.found /\ p = job.prev
  OBVIOUS
<1>1. /\ fat' = WithNext(p, f) /\ root' = root /\ data' = data
      /\ job.pc = "link" /\ job'.pc = "seal" /\ Writer
      /\ job'.found = f /\ job'.entry = e /\ job'.prev = p /\ job'.block = job.block
      /\ job'.text = job.text /\ job'.cluster = job.cluster
      /\ f \in Returned /\ f >= 2
  BY <1>0 DEF Links, Types, JobRecord, Room, Writer
<1>2. /\ KeptChains(ch) /\ KeptApart(ch) /\ Astray(ch, T)
      /\ f \in FileClusters /\ Clear(ch, f) /\ f \notin T
  BY <1>0, <1>1 DEF Safe, FoundFree
<1>3. fat \in [Clusters -> ClusterValue] /\ f \in Clusters /\ EntryOf(f) = f
  BY <1>1, <1>2, EntryValues, ClusterNumbers DEF FileClusters, Types, DiskTypeOK
<1>4. /\ p \notin Clusters => fat' = fat
      /\ p \in Clusters => fat' = [fat EXCEPT ![p] = f]
  BY <1>1, <1>3, WithNextIs
<1>5. /\ p \in Clusters => fat[p] # 0 /\ p \notin Unused
      /\ f \in Unused /\ f <= First(Unused) + 1 /\ fat[f] = 0 /\ f # p
  <2>1. p \in Clusters => fat[p] # 0
    BY <1>0, <1>1 DEF Room
  <2>2. f \in Unused /\ f <= First(Unused) + 1
    BY <1>0, <1>1, <1>3, FoundIsUnused DEF Marking
  <2> QED
    BY <1>3, <2>1, <2>2, UnusedIs
<1>6. Unused' = Unused
  <2>1. f \in (Returned \ {0}) \cup {FAT12_EOF_MAX}
    BY <1>1
  <2>2. Unused' = Unused \ {p}
    BY <1>1, <2>1, NextUnused
  <2> QED
    BY <1>5, <2>2, UnusedIs
<1>7. Kept' = Kept /\ InUse' = InUse
  BY <1>1 DEF Kept, InUse
<1>8. \A more, S : FoundFree(more, S)'
  BY <1>1 DEF FoundFree
<1>9. \A c \in Clusters : c # p => fat'[c] = fat[c]
  BY <1>3, <1>4
<1>10. CASE e \notin Kept
  <2>1. p \in Clusters => p \in T
    BY <1>0, <1>1, <1>10 DEF Safe, AtWork
  <2>2. \A i \in Kept : \A n \in 1 .. Len(ch[i]) : fat'[ch[i][n]] = fat[ch[i][n]]
    <3>1. \A i \in Kept : \A n \in 1 .. Len(ch[i]) : ch[i][n] \in Clusters
      BY <1>2, KeptIs
    <3> QED
      BY <1>2, <1>9, <2>1, <3>1 DEF Astray, Clear
  <2>3. KeptChains(ch)' /\ KeptApart(ch)' /\ \A c : Clear(ch, c)' <=> Clear(ch, c)
    BY <1>1, <1>2, <2>2, KeptStay
  <2>4. PICK S \in SUBSET Clusters : S = T \cup {f}
    BY <1>3
  <2>5. ASSUME NEW c \in S
        PROVE  /\ Clear(ch, c)'
               /\ c # 0 /\ fat'[c] \in Clusters => fat'[c] \in S
               /\ c # 0 /\ fat'[c] = 0 => c <= First(Unused)' + 1
    <3>1. CASE c = f
      <4>1. fat'[c] = 0 /\ 0 \in S
        BY <1>2, <1>3, <1>5, <1>9, <2>4, <3>1 DEF Astray
      <4> QED
        BY <1>2, <1>5, <1>6, <2>3, <3>1, <4>1
    <3>2. CASE c \in T /\ c # p
      <4>1. fat'[c] = fat[c]
        BY <1>9, <3>2
      <4> QED
        BY <1>2, <1>6, <2>3, <2>4, <3>2, <4>1 DEF Astray
    <3>3. CASE c \in T /\ c = p
      <4>1. fat'[c] = f /\ f # 0
        BY <1>1, <1>3, <1>4, <3>3
      <4> QED
        BY <1>2, <2>3, <2>4, <3>3, <4>1 DEF Astray
    <3> QED
      BY <2>4, <3>1, <3>2, <3>3
  <2>6. Astray(ch, S)'
    <3>1. 0 \in S
      BY <1>2, <2>4 DEF Astray
    <3>2. \A i \in InUse' \ Kept' :
            root'[i].firstClusterLow \in Clusters => root'[i].firstClusterLow \in S
      BY <1>1, <1>2, <1>7, <2>4 DEF Astray
    <3> QED
      BY <2>5, <3>1, <3>2 DEF Astray
  <2>7. AtWork(ch, S)'
    <3>1. job.cluster \in Clusters => job.cluster \in T
      BY <1>0, <1>1, <1>10 DEF Safe, AtWork
    <3>2. e \notin Kept' /\ f \in S /\ T \subseteq S
      BY <1>7, <1>10, <2>4
    <3> QED
      BY <1>1, <2>1, <3>1, <3>2 DEF AtWork
  <2>8. Safe(ch, S)'
    BY <1>8, <2>3, <2>6, <2>7 DEF Safe
  <2> QED
    BY <1>1, <2>8 DEF Spared
<1>11. CASE e \in Kept
  <2>1. PICK q \in Seq(FileClusters) : q = ch[e]
    BY <1>0, <1>1, <1>11, WorkingEntry
  <2>2. /\ Chained(q, e) /\ Sized(q, e) /\ e \in InUse /\ e \in Entries
        /\ job.block = Len(q) /\ job.block # 0 /\ p = EndOf(q) /\ IsEnd(fat[p]) /\ Copied(q)
    <3>1. AtBlock(q) /\ Copied(q)
      BY <1>0, <1>1, <1>11, <2>1, WorkingEntry
    <3>2. job.block = Len(q) /\ job.block # 0 /\ p = EndOf(q) /\ IsEnd(fat[p])
      BY <1>0, <1>1, <3>1 DEF AtBlock
    <3> QED
      BY <1>2, <1>11, <2>1, <3>1, <3>2, KeptIs
  <2>3. /\ Len(q) \in Nat \ {0} /\ Len(q) \in 1 .. Len(q) /\ q[Len(q)] = p /\ p \in Clusters
        /\ \A n \in 1 .. Len(q) : q[n] \in Clusters
    BY <2>2, ChainIs DEF EndOf
  <2>4. PICK r : r = Append(q, f)
    OBVIOUS
  <2>5. /\ r \in Seq(FileClusters) /\ Len(r) = Len(q) + 1 /\ r[Len(q) + 1] = f
        /\ \A n \in 1 .. Len(q) : r[n] = q[n]
        /\ \A n \in 1 .. Len(r) : n \in 1 .. Len(q) \/ n = Len(q) + 1
    BY <1>2, <2>3, <2>4
  <2>6. EndOf(r) = f /\ r # <<>> /\ r[1] = q[1]
    BY <2>2, <2>3, <2>5, ChainIs DEF EndOf
  <2>7. PICK more \in ChainSet : more[e] = r /\ \A i \in Kept : i # e => more[i] = ch[i]
    <3>1. [ch EXCEPT ![e] = r] \in ChainSet
      BY <2>5 DEF ChainSet
    <3>2. Kept \subseteq Entries
      BY DEF InUse, Kept
    <3> QED
      BY <2>2, <3>1, <3>2 DEF ChainSet
  <2>8. fat'[p] = f /\ fat'[f] = 0
    BY <1>3, <1>4, <1>5, <1>9, <2>3
  <2>9. ASSUME NEW i \in Kept, NEW m \in 1 .. Len(ch[i]), ch[i][m] = p
        PROVE  i = e /\ m = Len(q)
    BY <1>2, <1>11, <2>1, <2>3, <2>9 DEF KeptApart
  <2>10. Chained(r, e)'
    <3>1. ASSUME NEW n \in 1 .. Len(r) - 1
          PROVE  fat'[r[n]] = r[n + 1]
      <4>1. n \in 1 .. Len(q)
        BY <2>3, <2>5
      <4>2. CASE n = Len(q)
        BY <2>3, <2>5, <2>8, <4>1, <4>2
      <4>3. CASE n # Len(q)
        <5>1. fat[q[n]] = q[n + 1] /\ n + 1 \in 1 .. Len(q) /\ q[n] \in Clusters
          BY <2>2, <4>1, <4>3, ChainIs
        <5>2. q[n] # p
          BY <1>11, <2>1, <2>9, <4>1, <4>3
        <5> QED
          BY <1>9, <2>5, <4>1, <5>1, <5>2
      <4> QED
        BY <4>2, <4>3
    <3>2. root[e].firstClusterLow = q[1] /\ fat'[EndOf(r)] \notin 1 .. LastCluster
      BY <2>2, <2>6, <2>8, ClusterNumbers DEF Chained
    <3> QED
      BY <1>1, <2>6, <3>1, <3>2 DEF Chained, EndOf
  <2>11. Sized(r, e)'
    <3>1. \A u, n \in Nat : u * n <= u * (n + 1) /\ u * n \in Nat /\ u * (n + 1) \in Nat
      OBVIOUS
    <3>2. Units \in Nat /\ root[e].fileSize \in Nat
      BY <2>2, EntryIs, CardAssumption, FilesAssumption
    <3>3. Units * Len(q) <= Units * Len(r) /\ Units * Len(q) \in Nat /\ Units * Len(r) \in Nat
      BY <2>3, <2>5, <3>1, <3>2
    <3>4. root[e].fileSize <= Units * Len(q)
      BY <2>2 DEF Sized
    <3>5. root[e].fileSize <= Units * Len(r)
      BY <3>2, <3>3, <3>4
    <3> QED
      BY <1>1, <3>5 DEF Sized
  <2>12. ASSUME NEW i \in Kept, i # e
         PROVE  Chained(ch[i], i)' /\ Sized(ch[i], i)' /\ IsEnd(fat'[EndOf(ch[i])])
    <3>1. /\ i \in InUse /\ ch[i] \in Seq(FileClusters) /\ Chained(ch[i], i) /\ Sized(ch[i], i)
          /\ Len(ch[i]) \in 1 .. Len(ch[i]) /\ ch[i][Len(ch[i])] = EndOf(ch[i])
          /\ \A n \in 1 .. Len(ch[i]) : ch[i][n] \in Clusters
          /\ IsEnd(fat[EndOf(ch[i])])
      BY <1>0, <1>2, <2>12, KeptIs DEF KeptChains
    <3>2. \A n \in 1 .. Len(ch[i]) : fat'[ch[i][n]] = fat[ch[i][n]]
      BY <1>9, <2>9, <2>12, <3>1
    <3>3. fat'[EndOf(ch[i])] = fat[EndOf(ch[i])] /\ fat[EndOf(ch[i])] \notin 1 .. LastCluster
      BY <3>1, <3>2 DEF Chained
    <3>4. Chained(ch[i], i)'
      BY <1>1, <3>1, <3>2, <3>3, ChainStays
    <3> QED
      BY <1>1, <3>1, <3>3, <3>4 DEF Sized
  <2>13. KeptChains(more)'
    <3> SUFFICES ASSUME NEW i \in Kept
                 PROVE  /\ Chained(more[i], i)' /\ Sized(more[i], i)'
                        /\ IsEnd(fat'[EndOf(more[i])]) \/ i = e
      BY <1>1, <1>7 DEF KeptChains, IsEnd, EndOf
    <3>1. CASE i = e
      BY <2>7, <2>10, <2>11, <3>1
    <3>2. CASE i # e
      BY <2>7, <2>12, <3>2
    <3> QED
      BY <3>1, <3>2
  <2>14. ASSUME NEW i \in Kept, NEW m \in 1 .. Len(more[i])
         PROVE  \/ m \in 1 .. Len(ch[i]) /\ more[i][m] = ch[i][m] /\ ch[i][m] # f
                \/ i = e /\ m = Len(r) /\ more[i][m] = f
    <3>1. CASE i = e
      BY <1>2, <1>11, <2>1, <2>3, <2>5, <2>7, <3>1 DEF Clear
    <3>2. CASE i # e
      BY <1>2, <2>7, <3>2 DEF Clear
    <3> QED
      BY <3>1, <3>2
  <2>15. KeptApart(more)'
    <3>1. ASSUME NEW i \in Kept, NEW j \in Kept, NEW m \in 1 .. Len(more[i]),
                 NEW n \in 1 .. Len(more[j]), more[i][m] = more[j][n]
          PROVE  i = j /\ m = n
      <4>1. CASE more[i][m] = f
        BY <2>14, <3>1, <4>1
      <4>2. CASE more[i][m] # f
        <5>1. m \in 1 .. Len(ch[i]) /\ more[i][m] = ch[i][m]
          BY <2>14, <4>2
        <5>2. n \in 1 .. Len(ch[j]) /\ more[j][n] = ch[j][n]
          BY <2>14, <3>1, <4>2
        <5>3. ch[i][m] = ch[j][n]
          BY <3>1, <5>1, <5>2
        <5>4. \A a, b \in Kept : \A x \in 1 .. Len(ch[a]), y \in 1 .. Len(ch[b]) :
                ch[a][x] = ch[b][y] => a = b /\ x = y
          BY <1>2 DEF KeptApart
        <5> QED
          BY <5>1, <5>2, <5>3, <5>4
      <4> QED
        BY <4>1, <4>2
    <3> QED
      BY <1>7, <3>1 DEF KeptApart
  <2>16. Astray(more, T)'
    <3>1. ASSUME NEW c \in T
          PROVE  /\ Clear(more, c)'
                 /\ c # 0 /\ fat'[c] \in Clusters => fat'[c] \in T
                 /\ c # 0 /\ fat'[c] = 0 => c <= First(Unused)' + 1
      <4>1. Clear(ch, c) /\ c # f
        BY <1>2 DEF Astray
      <4>2. Clear(more, c)'
        BY <1>7, <2>14, <4>1 DEF Clear
      <4>3. c # p
        BY <1>11, <2>1, <2>3, <4>1 DEF Clear
      <4>4. fat'[c] = fat[c]
        BY <1>9, <4>3
      <4> QED
        BY <1>2, <1>6, <4>2, <4>4 DEF Astray
    <3>2. 0 \in T /\ \A i \in InUse' \ Kept' :
            root'[i].firstClusterLow \in Clusters => root'[i].firstClusterLow \in T
      BY <1>1, <1>2, <1>7 DEF Astray
    <3> QED
      BY <3>1, <3>2 DEF Astray
  <2>17. AtWork(more, T)'
    <3>1. job'.block = Len(r) - 1 /\ job'.block # 0 /\ p = r[job'.block]
      BY <1>1, <2>2, <2>3, <2>5
    <3>2. AtBlock(r)'
      BY <1>1, <2>6, <3>1 DEF AtBlock, EndOf
    <3>3. Copied(r)'
      <4>1. job.block <= Len(r)
        BY <2>2, <2>3, <2>5
      <4>2. \A m \in 1 .. job.block : r[m] = q[m]
        BY <2>2, <2>5
      <4>3. \A m : TextBlock(m)' = TextBlock(m)
        BY <1>1 DEF TextBlock
      <4>4. \A m \in 1 .. job'.block : data'[r[m]] = TextBlock(m - 1)'
        BY <1>1, <2>2, <4>2, <4>3 DEF Copied
      <4> QED
        BY <1>1, <4>1, <4>4 DEF Copied
    <3>4. e \in Kept' /\ more[e] = r
      BY <1>7, <1>11, <2>7
    <3> QED
      BY <1>1, <3>2, <3>3, <3>4 DEF AtWork
  <2>18. Safe(more, T)'
    BY <1>8, <2>13, <2>15, <2>16, <2>17 DEF Safe
  <2>19. Spared(ch, more)
    BY <1>0, <1>1, <2>7 DEF Spared
  <2> QED
    BY <2>7, <2>18, <2>19
<1> QED
  BY <1>10, <1>11

(* The card that the system is started with: nothing was caught yet, and   *)
(* nothing leads astray.                                                   *)
LEMMA InitSafe ==
  ASSUME Init, Types, SoundImages, FreeCluster \in Clusters
  PROVE  \E ch \in ChainSet, T \in SUBSET Clusters : Safe(ch, T)
<1>1. PICK ch \in ChainSet : Chains(ch)
  BY InitChains
<1>2. job.pc = "idle" /\ caught = {} /\ Kept = InUse
  BY NoJobIs DEF Init, DiskInit, Kept
<1>3. KeptChains(ch)
  BY <1>1, <1>2 DEF Chains, Tame, KeptChains
<1>4. KeptApart(ch)
  BY <1>1, <1>2 DEF Chains, Apart, KeptApart
<1>5. PICK T \in SUBSET Clusters : T = {0}
  BY ClusterNumbers
<1>6. Astray(ch, T)
  BY <1>2, <1>3, <1>5, ZeroIsClear DEF Astray
<1>7. AtWork(ch, T) /\ FoundFree(ch, T)
  BY <1>2 DEF AtWork, FoundFree, Writer
<1> QED
  BY <1>1, <1>3, <1>4, <1>5, <1>6, <1>7 DEF Safe

(* Only a loss of power ends a call at a block, and it catches the file.   *)
LEMMA CutIsCaught ==
  ASSUME Types, Calls, Naming, [Next]_vars, Writer, job' = NoJob
  PROVE  job.entry \notin Kept'
<1>1. job' # job /\ call.op # "none" /\ job'.pc = "idle"
  BY NoJobIs DEF Writer, Types
<1>2. ~CardStep
  <2>1. WriteFile => job'.pc # "idle"
    BY WriteFileTypes
  <2> QED
    BY <1>1, <2>1 DEF CardStep
<1>3. PowerCut
  <2>1. ~UNCHANGED vars /\ ~OpenReturns /\ ~CloseReturns
    BY <1>1 DEF vars, OpenReturns, CloseReturns, Writer
  <2>2. \A path, flags : ~OpenFound(path, flags) /\ ~OpenCreates(path, flags)
    BY <1>1 DEF OpenFound, OpenCreates, MayOpen
  <2>3. \A s, bytes : ~Close(s) /\ ~Read(s, bytes) /\ \A d : ~Write(s, d, bytes)
    BY <1>1 DEF Close, Read, Write
  <2>4. \A s, offset, mode : ~Seek(s, offset, mode)
    BY <1>1 DEF Seek
  <2> QED
    BY <1>2, <2>1, <2>2, <2>3, <2>4 DEF Next
<1>4. call.op = "close"
  BY <1>1 DEF Types, CallRecord, Calls, Writer
<1>5. root[job.entry].name = Saving /\ Saving \in Paths /\ Paths \subseteq Names
  <2>1. Closing /\ call.slot \in Opened
    BY <1>4 DEF Naming, Calls
  <2>2. root[job.entry].name = vfs_openFiles[call.slot].file_name
    BY <2>1 DEF Closing, Writer
  <2> QED
    BY <1>4, <2>1, <2>2, CardAssumption DEF Saving, Calls
<1>6. Saving \in caught' /\ root' = root
  BY <1>3, <1>5, NullAssumption DEF PowerCut, disk
<1> QED
  BY <1>5, <1>6 DEF Kept

(* Every step of fat12_write_file, or a loss of power in it.               *)
LEMMA CardStepSafe ==
  ASSUME Types, Calls, Directory, Room, FreeCluster \in Clusters, WritesFile, caught' = caught,
         NEW ch \in ChainSet, NEW T \in SUBSET Clusters, Safe(ch, T)
  PROVE  \E more \in ChainSet, S \in SUBSET Clusters : Safe(more, S)' /\ Spared(ch, more)
<1>1. CASE Create
  BY <1>1, CreateSafe
<1>2. CASE EndsChain
  BY <1>2, EndChainSafe
<1>3. CASE Enters
  BY <1>3, EnterSafe
<1>4. CASE Extends
  BY <1>4, ExtendSafe
<1>5. CASE Links
  BY <1>5, LinkSafe
<1>6. CASE Seals
  BY <1>6, SealSafe
<1>7. CASE WritesBlock
  BY <1>7, WriteBlockSafe
<1>8. CASE WritesSize
  BY <1>8, WriteSizeSafe
<1> QED
  BY <1>1, <1>2, <1>3, <1>4, <1>5, <1>6, <1>7, <1>8 DEF WritesFile

LEMMA StepSafe ==
  ASSUME Types, Calls, Buffered, Directory, Room, Naming, [Next]_vars, ~stray',
         FreeCluster \in Clusters, NEW ch \in ChainSet, NEW T \in SUBSET Clusters, Safe(ch, T)
  PROVE  \E more \in ChainSet, S \in SUBSET Clusters : Safe(more, S)'
<1>1. CASE WritesFile /\ caught' = caught
  BY <1>1, CardStepSafe
<1>2. CASE Ends
  <2>1. Writer => job.entry \notin Kept'
    BY <1>2, CutIsCaught DEF Ends
  <2> QED
    BY <1>2, <2>1, EndsSafe
<1>3. CASE Begins
  BY <1>3, BeginsSafe
<1>4. CASE Stays
  BY <1>4, StaysSafe
<1> QED
  BY <1>1, <1>2, <1>3, <1>4, StepIs

(* The invariant for the refinement: what holds until a block is written   *)
(* astray.                                                                 *)
Steady ==
  /\ Types /\ Calls /\ Buffered /\ Directory /\ Room /\ Naming
  /\ FreeCluster \in Clusters => \E ch \in ChainSet, T \in SUBSET Clusters : Safe(ch, T)

SafeInv == FilesInv /\ (~stray => Steady)

LEMMA InitSafeInv ==
  ASSUME Init, SoundImages
  PROVE  SafeInv
<1>1. FilesInv /\ ~stray /\ Naming
  BY InitInv, InitNaming DEF Init, DiskInit
<1>2. Types /\ Calls /\ Buffered /\ Directory /\ Room
  BY <1>1 DEF FilesInv
<1>3. FreeCluster \in Clusters => \E ch \in ChainSet, T \in SUBSET Clusters : Safe(ch, T)
  BY <1>2, InitSafe
<1> QED
  BY <1>1, <1>2, <1>3 DEF SafeInv, Steady

LEMMA StepSafeInv ==
  ASSUME SafeInv, ShortFor = {}, [Next]_vars
  PROVE  SafeInv'
<1>1. Types /\ Calls /\ FilesInv /\ FilesInv'
  BY StepInv DEF SafeInv, FilesInv
<1> SUFFICES ASSUME ~stray' PROVE Steady'
  BY <1>1 DEF SafeInv
<1>2. Steady /\ Unused' \subseteq Unused
  BY <1>1, StepKeeps DEF SafeInv
<1>3. Types' /\ Calls' /\ Buffered' /\ Directory' /\ Room'
  BY <1>1 DEF FilesInv
<1>4. Naming'
  BY <1>2, StepNaming DEF Steady
<1>5. (FreeCluster \in Clusters)' => FreeCluster \in Clusters
  BY <1>1, <1>2, FewerUnused
<1>6. (FreeCluster \in Clusters)' =>
        \E more \in ChainSet, S \in SUBSET Clusters : Safe(more, S)'
  BY <1>2, <1>5, StepSafe DEF Steady
<1>7. ChainSet' = ChainSet /\ Clusters' = Clusters
  BY DEF ChainSet
<1> QED
  BY <1>3, <1>4, <1>6, <1>7 DEF Steady

----------------------------------------------------------------------------
(* The text of a file is what the blocks of its chain hold.                *)

LEMMA DivMod ==
  ASSUME NEW a \in Nat, NEW u \in Nat \ {0}
  PROVE  a \div u \in Nat /\ a % u \in 0 .. u - 1 /\ a = u * (a \div u) + (a % u)
OBVIOUS

LEMMA DivLess ==
  ASSUME NEW a \in Nat, NEW u \in Nat \ {0}, NEW n \in Nat, a < u * n
  PROVE  a \div u < n
<1>1. PICK d \in Nat : d = a \div u
  BY DivMod
<1>2. u * d <= a /\ u * d \in Nat /\ u * n \in Nat
  BY <1>1, DivMod
<1>3. ASSUME d >= n PROVE FALSE
  <2>1. u * d >= u * n
    BY <1>3
  <2> QED
    BY <1>2, <2>1
<1> QED
  BY <1>1, <1>3

LEMMA DivAt ==
  ASSUME NEW a \in Nat, NEW u \in Nat \ {0}
  PROVE  (a \div u) * u + ((a % u) + 1) = a + 1
<1>1. a \div u \in Nat /\ a % u \in Nat /\ a = u * (a \div u) + (a % u)
  BY DivMod
<1>2. \A d, m \in Nat : u * d + m = d * u + m
  OBVIOUS
<1>3. \A d, m \in Nat : a = u * d + m => d * u + (m + 1) = a + 1
  BY <1>2
<1> QED
  BY <1>1, <1>3

BlockOf(u) == (u - 1) \div Units
PlaceOf(u) == ((u - 1) % Units) + 1

LEMMA PlaceIs ==
  ASSUME NEW n \in Nat, NEW l \in Nat, l <= Units * n, NEW u \in 1 .. l
  PROVE  /\ BlockOf(u) \in Nat /\ BlockOf(u) < n /\ PlaceOf(u) \in 1 .. Units
         /\ BlockOf(u) * Units + PlaceOf(u) = u
<1>1. u - 1 \in Nat /\ (u - 1) + 1 = u /\ Units \in Nat \ {0}
  BY CardAssumption
<1>2. u - 1 < Units * n
  <2>1. Units * n \in Nat
    BY <1>1
  <2> QED
    BY <2>1
<1>3. BlockOf(u) \in Nat /\ BlockOf(u) < n
  BY <1>1, <1>2, DivMod, DivLess DEF BlockOf
<1>4. PlaceOf(u) \in 1 .. Units
  <2>1. (u - 1) % Units \in 0 .. Units - 1
    BY <1>1, DivMod
  <2> QED
    BY <1>1, <2>1 DEF PlaceOf
<1>5. BlockOf(u) * Units + PlaceOf(u) = u
  <2>1. BlockOf(u) * Units + PlaceOf(u) = (u - 1) + 1
    BY <1>1, DivAt DEF BlockOf, PlaceOf
  <2> QED
    BY <1>1, <2>1
<1> QED
  BY <1>3, <1>4, <1>5

(* The text of length l that the blocks of the chain q hold.               *)
TextOn(q, l) == [u \in 1 .. l |-> data[q[BlockOf(u) + 1]][PlaceOf(u)]]

LEMMA KeptLen ==
  ASSUME Types, NEW ch \in ChainSet, KeptChains(ch), KeptApart(ch), NEW i \in Kept
  PROVE  Len(ch[i]) \in Nat /\ Len(ch[i]) < LastCluster
<1>1. ch[i] \in Seq(FileClusters) /\ \A m, n \in 1 .. Len(ch[i]) : ch[i][m] = ch[i][n] => m = n
  BY KeptIs DEF KeptApart
<1>2. LastCluster \in Nat /\ LastCluster >= 2 /\ FileClusters = 2 .. LastCluster
  BY CardAssumption DEF FirstData, FileClusters
<1>3. IsFiniteSet(FileClusters) /\ Cardinality(FileClusters) = LastCluster - 1
  BY <1>2, FS_Interval
<1>4. Len(ch[i]) <= Cardinality(FileClusters)
  BY <1>1, <1>3, DistinctLen
<1>5. Len(ch[i]) \in Nat /\ Len(ch[i]) <= LastCluster - 1
  BY <1>1, <1>3, <1>4
<1> QED
  BY <1>2, <1>5

LEMMA TextIs ==
  ASSUME Types, NEW ch \in ChainSet, KeptChains(ch), KeptApart(ch), NEW i \in Kept,
         IsEnd(fat[EndOf(ch[i])])
  PROVE  FileText(i) = TextOn(ch[i], root[i].fileSize)
<1>1. PICK q \in Seq(FileClusters) :
        /\ q = ch[i] /\ Chained(q, i) /\ Sized(q, i) /\ i \in InUse /\ i \in Entries
        /\ root[i].firstClusterLow = q[1] /\ IsEnd(fat[EndOf(q)])
        /\ Len(q) \in Nat /\ Len(q) < LastCluster
  BY KeptIs, KeptLen DEF Chained
<1>2. PICK l \in Nat : l = root[i].fileSize /\ l <= Units * Len(q)
  BY <1>1, EntryIs, FilesAssumption DEF Sized
<1> DEFINE at == Walk(q[1])
           P(u) == IF \A m \in 0 .. BlockOf(u) : at[m] \in FileClusters
                     THEN data[at[BlockOf(u)]][PlaceOf(u)] ELSE Junk
<1>3. FileText(i) = [u \in 1 .. l |-> P(u)]
  BY <1>1, <1>2 DEF FileText, BlockOf, PlaceOf
<1>4. \A n \in 0 .. LastCluster + 1 : n < Len(q) => at[n] = q[n + 1]
  BY <1>1, WalkIs
<1> HIDE DEF at
<1>5. ASSUME NEW u \in 1 .. l
      PROVE  P(u) = data[q[BlockOf(u) + 1]][PlaceOf(u)]
  <2>1. PICK b \in Nat : b = BlockOf(u) /\ b < Len(q)
    BY <1>1, <1>2, PlaceIs
  <2>2. \A m \in 0 .. b : m \in 0 .. LastCluster + 1 /\ m < Len(q) /\ m + 1 \in 1 .. Len(q)
    BY <1>1, <2>1, ClusterNumbers
  <2>3. \A m \in 0 .. b : at[m] = q[m + 1] /\ q[m + 1] \in FileClusters
    BY <1>1, <1>4, <2>2, ChainIs
  <2>4. b \in 0 .. b
    BY <2>1
  <2> QED
    BY <2>1, <2>3, <2>4
<1> HIDE DEF P
<1>6. [u \in 1 .. l |-> P(u)] = [u \in 1 .. l |-> data[q[BlockOf(u) + 1]][PlaceOf(u)]]
  BY <1>5
<1> QED
  BY <1>1, <1>2, <1>3, <1>6 DEF TextOn

(* A file that was written to its end holds the text.                      *)
LEMMA SavedText ==
  ASSUME Types, NEW ch \in ChainSet, NEW T, Safe(ch, T), job.pc = "saved", job.entry \in Kept
  PROVE  FileText(job.entry) = job.text
<1>1. PICK i \in Kept : i = job.entry
  OBVIOUS
<1>2. PICK q \in Seq(FileClusters) : q = ch[i]
  BY KeptIs DEF Safe
<1>3. PICK l \in Nat : l = Len(job.text) /\ job.text \in Seq(Piece)
  BY DEF Types, JobRecord
<1>4. PICK b \in Nat : b = job.block
  BY DEF Types, JobRecord
<1>5. /\ \A m \in 1 .. b : data[q[m]] = TextBlock(m - 1)
      /\ root[i].fileSize = l /\ l <= b * Units
  BY <1>1, <1>2, <1>3, <1>4 DEF Safe, AtWork, Copied
<1>6. l <= Units * b
  <2>1. Units \in Nat /\ \A u \in Nat : b * u = u * b
    BY CardAssumption
  <2> QED
    BY <1>5, <2>1
<1>7. FileText(i) = TextOn(q, l)
  <2>1. IsEnd(fat[EndOf(ch[i])])
    BY <1>1 DEF Safe, KeptChains
  <2> QED
    BY <1>2, <1>5, <2>1, TextIs DEF Safe
<1>8. ASSUME NEW u \in 1 .. l
      PROVE  data[q[BlockOf(u) + 1]][PlaceOf(u)] = job.text[u]
  <2>1. PICK n \in Nat, p \in 1 .. Units : /\ n = BlockOf(u) /\ p = PlaceOf(u)
                                           /\ n < b /\ n * Units + p = u
    BY <1>6, PlaceIs
  <2>2. n + 1 \in 1 .. b /\ (n + 1) - 1 = n
    BY <2>1
  <2>3. data[q[n + 1]] = TextBlock(n)
    BY <1>5, <2>2
  <2>4. TextBlock(n)[p] = job.text[u]
    BY <1>3, <2>1 DEF TextBlock
  <2> QED
    BY <2>1, <2>3, <2>4
<1>9. TextOn(q, l) = [u \in 1 .. l |-> job.text[u]]
  BY <1>8 DEF TextOn
<1>10. job.text = [u \in 1 .. l |-> job.text[u]]
  BY <1>3
<1> QED
  BY <1>1, <1>7, <1>9, <1>10

(* A step of write_file changes the text of no other file that is kept.    *)
KeptTexts(ch) ==
  \A i \in Kept : IsEnd(fat[EndOf(ch[i])]) => FileText(i) = TextOn(ch[i], root[i].fileSize)

AllTexts ==
  \A ch \in ChainSet : KeptChains(ch) /\ KeptApart(ch) => KeptTexts(ch)

LEMMA TextsHold == Types => AllTexts
BY TextIs DEF AllTexts, KeptTexts

LEMMA TextStays ==
  ASSUME Types, AllTexts', NEW ch \in ChainSet, NEW T, Safe(ch, T), caught' = caught,
         NEW more \in ChainSet, NEW S, Safe(more, S)', Spared(ch, more),
         NEW i \in Kept, root'[i] = root[i], Writer => i # job.entry, ~Writer => job'.pc # "seal",
         job'.entry = job.entry
  PROVE  FileText(i)' = FileText(i)
<1>1. PICK q \in Seq(FileClusters) : q = ch[i] /\ i \in InUse /\ Chained(q, i) /\ Sized(q, i)
  BY KeptIs DEF Safe
<1>2. more[i] = q /\ \A n \in 1 .. Len(q) : data'[q[n]] = data[q[n]]
  BY <1>1 DEF Spared
<1>3. i \in Kept'
  BY <1>1 DEF Kept, InUse
<1>4. IsEnd(fat[EndOf(q)]) /\ IsEnd(fat'[EndOf(q)])
  <2>1. IsEnd(fat[EndOf(ch[i])])
    BY DEF Safe, KeptChains, Writer
  <2>2. KeptChains(more)'
    BY DEF Safe
  <2>3. IsEnd(fat'[EndOf(more[i])]) \/ (job'.pc = "seal" /\ i = job'.entry)
    BY <1>3, <2>2 DEF KeptChains, IsEnd, EndOf
  <2> QED
    BY <1>1, <1>2, <2>1, <2>3
<1>5. FileText(i) = TextOn(q, root[i].fileSize)
  BY <1>1, <1>4, TextIs DEF Safe
<1>6. FileText(i)' = TextOn(q, root[i].fileSize)'
  <2>1. (KeptChains(more) /\ KeptApart(more))'
    BY DEF Safe
  <2>2. KeptTexts(more)'
    BY <2>1 DEF AllTexts, ChainSet
  <2>3. IsEnd(fat'[EndOf(more[i])]) => FileText(i)' = TextOn(more[i], root[i].fileSize)'
    BY <1>3, <2>2 DEF KeptTexts, IsEnd, EndOf
  <2> QED
    BY <1>2, <1>4, <2>3 DEF TextOn
<1>7. PICK l \in Nat : l = root[i].fileSize /\ l <= Units * Len(q) /\ root'[i].fileSize = l
  BY <1>1, EntryIs, FilesAssumption DEF Sized, InUse
<1>8. ASSUME NEW u \in 1 .. l
      PROVE  data'[q[BlockOf(u) + 1]] = data[q[BlockOf(u) + 1]]
  <2>1. Len(q) \in Nat /\ BlockOf(u) \in Nat /\ BlockOf(u) < Len(q)
    BY <1>1, <1>7, PlaceIs
  <2>2. BlockOf(u) + 1 \in 1 .. Len(q)
    BY <2>1
  <2> QED
    BY <1>2, <2>2
<1>9. TextOn(q, root[i].fileSize)' = TextOn(q, root[i].fileSize)
  BY <1>7, <1>8 DEF TextOn
<1> QED
  BY <1>5, <1>6, <1>9

----------------------------------------------------------------------------
(* What FileStore sees of the files.                                       *)

(* The text kept under a name; the copy that is open under it; the files   *)
(* outside S are as they were.                                             *)
Held(n) == IF Find(n) = 0 THEN NULL
           ELSE IF n = Saving THEN vfs_openFiles[call.slot].text
           ELSE FileText(Find(n))

CopyOf(n) == IF AlreadyOpen(n)
               THEN (CHOOSE fd \in {vfs_openFiles[s] : s \in Opened} : fd.file_name = n).text
             ELSE NULL

Keep(S) == \A n \in Names \ S : IF n \in caught THEN Held(n)' = NULL <=> Held(n) = NULL
                                ELSE Held(n)' = Held(n)

(* In every state that is reached.                                         *)
Seen ==
  /\ \A n \in Names : /\ Find(n) # 0 => Find(n) \in InUse /\ root[Find(n)].name = n
                      /\ \A i \in InUse : root[i].name = n => Find(n) = i /\ i # 0
                      /\ Held(n) = NULL <=> Find(n) = 0
  /\ \A n : ~AlreadyOpen(n) => CopyOf(n) = NULL
  /\ \A s \in Opened : LET n == vfs_openFiles[s].file_name
                       IN AlreadyOpen(n) /\ CopyOf(n) = vfs_openFiles[s].text /\ CopyOf(n) # NULL
  /\ Saving # NULL => /\ call.op = "close" /\ call.slot \in Opened
                      /\ Saving = vfs_openFiles[call.slot].file_name /\ Saving \in Names
  /\ Saving = NULL => call.op # "close"
  /\ \A i \in Entries : root[i].fileSize = 0 => FileText(i) = <<>>

LEMMA SavingIs ==
  ASSUME Types, Calls
  PROVE  /\ Saving # NULL => /\ call.op = "close" /\ call.slot \in Opened
                             /\ Saving = vfs_openFiles[call.slot].file_name /\ Saving \in Names
         /\ Saving = NULL => call.op # "close"
<1>1. call.op = "close" => /\ call.slot \in Opened
                           /\ vfs_openFiles[call.slot].file_name \in Names
  BY OpenedIs, DescriptorIs DEF Calls
<1> QED
  BY <1>1, NullAssumption DEF Saving

LEMMA CopyIs ==
  ASSUME Types, OpenNames, NEW s \in Opened, NEW n, n = vfs_openFiles[s].file_name
  PROVE  AlreadyOpen(n) /\ CopyOf(n) = vfs_openFiles[s].text /\ CopyOf(n) # NULL
<1> DEFINE F == {vfs_openFiles[r] : r \in Opened}
           fd == CHOOSE fd \in F : fd.file_name = n
<1>1. AlreadyOpen(n) /\ vfs_openFiles[s] \in F
  BY DEF AlreadyOpen
<1>2. fd \in F /\ fd.file_name = n
  BY <1>1
<1>3. CopyOf(n) = fd.text
  BY <1>1 DEF CopyOf
<1> HIDE DEF fd
<1>4. fd = vfs_openFiles[s]
  BY <1>2 DEF OpenNames
<1>5. vfs_openFiles[s].text \in Texts
  BY OpenedIs, DescriptorIs
<1> QED
  BY <1>1, <1>3, <1>4, <1>5, NullAssumption

LEMMA HeldIs ==
  ASSUME Types, Calls, NEW n \in Names, Find(n) # 0 => Find(n) \in InUse
  PROVE  Held(n) = NULL <=> Find(n) = 0
<1>1. Find(n) # 0 => FileText(Find(n)) \in Texts
  BY FileTextIs DEF InUse
<1>2. n = Saving => vfs_openFiles[call.slot].text \in Texts
  BY SavingIs, OpenedIs, DescriptorIs, NullAssumption
<1> QED
  BY <1>1, <1>2, NullAssumption DEF Held

LEMMA SeenIs ==
  ASSUME ShortFor = {}
  PROVE  Steady => Seen
<1> SUFFICES ASSUME Steady PROVE Seen
  OBVIOUS
<1>1. Types /\ Calls /\ ListedOnce /\ OpenNames
  BY DEF Steady, Directory, Naming
<1>2. \A n \in Names : /\ Find(n) # 0 => Find(n) \in InUse /\ root[Find(n)].name = n
                       /\ \A i \in InUse : root[i].name = n => Find(n) = i /\ i # 0
                       /\ Held(n) = NULL <=> Find(n) = 0
  BY <1>1, FindName, HeldIs
<1>3. \A n : ~AlreadyOpen(n) => CopyOf(n) = NULL
  BY DEF CopyOf
<1>4. \A i \in Entries : root[i].fileSize = 0 => FileText(i) = <<>>
  <2> SUFFICES ASSUME NEW i \in Entries, root[i].fileSize = 0 PROVE FileText(i) = <<>>
    OBVIOUS
  <2>1. FileText(i) \in Seq(Piece) /\ Len(FileText(i)) = 0
    BY <1>1, FileTextIs, TextsAre
  <2> QED
    BY <2>1, EmptySeq
<1> QED
  BY <1>1, <1>2, <1>3, <1>4, SavingIs, CopyIs DEF Seen

LEMMA HasIs ==
  ASSUME Seen, NEW n \in Names
  PROVE  Has(n) <=> Find(n) # 0
BY DEF Seen, Has

(* The directory is full when as many names are stored as it has entries.  *)
LEMMA FullIs ==
  ASSUME Types, Seen, ListedOnce
  PROVE  Cardinality({n \in Names : Find(n) # 0}) >= RootEntries <=> Available = {}
<1> DEFINE S == {n \in Names : Find(n) # 0}
           f == [i \in InUse |-> root[i].name]
<1>1. f \in Bijection(InUse, S)
  <2>1. \A i \in InUse : root[i].name \in S
    BY DEF Seen, InUse
  <2>2. \A i, j \in InUse : root[i].name = root[j].name => i = j
    BY DEF ListedOnce
  <2>3. \A n \in S : \E i \in InUse : root[i].name = n
    BY DEF Seen
  <2> HIDE DEF S
  <2>4. f \in [InUse -> S]
    BY <2>1
  <2>5. f \in Injection(InUse, S)
    BY <2>2, <2>4 DEF Injection, IsInjective
  <2>6. f \in Surjection(InUse, S)
    BY <2>3, <2>4 DEF Surjection
  <2> QED
    BY <2>5, <2>6 DEF Bijection
<1>2. RootEntries \in Nat /\ IsFiniteSet(Entries) /\ Cardinality(Entries) = RootEntries
  <2>1. RootEntries \in Nat /\ 1 \in Int /\ RootEntries \in Int
    BY CardAssumption
  <2>2. Cardinality(Entries) = IF 1 > RootEntries THEN 0 ELSE RootEntries - 1 + 1
    BY <2>1, FS_Interval DEF Entries
  <2>3. IsFiniteSet(Entries)
    BY <2>1, FS_Interval DEF Entries
  <2> QED
    BY <2>1, <2>2, <2>3
<1>3. InUse \in SUBSET Entries
  BY DEF InUse
<1>4. /\ IsFiniteSet(InUse) /\ Cardinality(InUse) <= RootEntries
      /\ Cardinality(InUse) = RootEntries => InUse = Entries
  BY <1>2, <1>3, FS_Subset
<1>5. Cardinality(S) = Cardinality(InUse) /\ Cardinality(InUse) \in Nat
  BY <1>1, <1>4, FS_Bijection, FS_CardinalityType DEF ExistsBijection
<1>6. Cardinality(S) >= RootEntries <=> InUse = Entries
  BY <1>2, <1>4, <1>5
<1>7. Available = {} <=> InUse = Entries
  <2>1. \A i \in Entries : root[i].name \in Names \cup {EndMark, Deleted}
    BY EntryIs
  <2> QED
    BY <2>1, CardAssumption DEF Available, InUse
<1> QED
  BY <1>6, <1>7

Full == Cardinality({n \in Names : Held(n) # NULL}) >= RootEntries

LEMMA FullWhen ==
  ASSUME Types, Seen, ListedOnce
  PROVE  Full <=> Available = {}
<1>1. {n \in Names : Held(n) # NULL} = {n \in Names : Find(n) # 0}
  BY DEF Seen
<1> QED
  BY <1>1, FullIs DEF Full

----------------------------------------------------------------------------
(* The actions of FileStore.                                               *)

(* The values of FileStore's variables.                                    *)
Contents == [n \in Names |-> Held(n)]
Copies == [n \in Names |-> CopyOf(n)]

LEMMA StoreKeeps ==
  ASSUME NEW S, Keep(S)
  PROVE  Store!Keeps(S)
BY DEF Store!Keeps, Keep, Held

LEMMA StoreOpens ==
  ASSUME NEW n \in Names, CopyOf(n) = NULL, Held(n) # NULL, Keep({}),
         \A m \in Names : CopyOf(m)' = IF m = n THEN Held(n) ELSE CopyOf(m),
         Saving' = Saving, caught' = caught
  PROVE  Store!OpenFile(n)
<1>1. Copies[n] = NULL /\ Contents[n] # NULL /\ Copies' = [Copies EXCEPT ![n] = Contents[n]]
  BY DEF Contents, Copies
<1> QED
  BY <1>1, StoreKeeps DEF Store!OpenFile, Contents, Copies, Held, CopyOf

LEMMA StoreFull == Store!Full <=> Full
<1>1. Store!Stored = {n \in Names : Held(n) # NULL}
  BY DEF Store!Stored, Held
<1>2. \A S : Store!Cardinality(S) = Cardinality(S)
  BY DEF Store!Cardinality, Cardinality
<1> QED
  BY <1>1, <1>2 DEF Store!Full, Full

LEMMA StoreOpensNowhere ==
  ASSUME NEW n \in Names, CopyOf(n) = NULL, Held(n) = NULL, Full, Keep({}),
         \A m \in Names : CopyOf(m)' = IF m = n THEN <<>> ELSE CopyOf(m),
         Saving' = Saving, caught' = caught
  PROVE  Store!OpenNowhere(n)
<1>1. Copies[n] = NULL /\ Contents[n] = NULL /\ Copies' = [Copies EXCEPT ![n] = <<>>]
  BY DEF Contents, Copies
<1> QED
  BY <1>1, StoreFull, StoreKeeps DEF Store!OpenNowhere, Contents, Copies, Held, CopyOf

LEMMA StoreMakes ==
  ASSUME NEW n \in Names, Held(n) = NULL, ~Full, Held(n)' = <<>>, Keep({n}),
         \A m \in Names : CopyOf(m)' = CopyOf(m), Saving' = Saving, caught' = caught
  PROVE  Store!MakeFile(n)
<1>1. Contents[n] = NULL /\ Contents'[n] = <<>> /\ Copies' = Copies
  BY DEF Contents, Copies
<1> QED
  BY <1>1, StoreFull, StoreKeeps DEF Store!MakeFile, Contents, Copies, Held, CopyOf

LEMMA StoreSaves ==
  ASSUME NEW n \in Names, CopyOf(n) # NULL, Saving = NULL, Saving' = n,
         \/ Held(n) = NULL /\ Full /\ Keep({})
         \/ Held(n) # NULL /\ Held(n)' = CopyOf(n) /\ Keep({n}),
         \A m \in Names : CopyOf(m)' = CopyOf(m), caught' = caught
  PROVE  Store!Save(n)
<1>1. Copies[n] # NULL /\ Copies' = Copies
  BY DEF Copies
<1>2. IF Contents[n] = NULL THEN Full /\ Store!Keeps({})
      ELSE Contents'[n] = Copies[n] /\ Store!Keeps({n})
  BY StoreKeeps DEF Contents, Copies
<1> QED
  BY <1>1, <1>2, StoreFull DEF Store!Save, Contents, Copies, Held, CopyOf

LEMMA StoreIsSaved ==
  ASSUME Saving # NULL, Saving' = NULL, Keep({}), caught' = caught,
         \A m \in Names : CopyOf(m)' = IF m = Saving THEN NULL ELSE CopyOf(m)
  PROVE  Store!Saved
<1>1. Copies' = [Copies EXCEPT ![Saving] = NULL]
  BY DEF Copies
<1> QED
  BY <1>1, StoreKeeps DEF Store!Saved, Contents, Copies, Held, CopyOf

LEMMA StoreIsCut ==
  ASSUME \A m \in Names : CopyOf(m)' = NULL, Saving' = NULL, Keep({Saving}),
         caught' = caught \cup ({Saving} \ {NULL})
  PROVE  Store!PowerCut
<1>1. Copies' = [m \in Names |-> NULL]
  BY DEF Copies
<1>2. Store!Keeps({Saving})
  BY DEF Store!Keeps, Keep, Held
<1> QED
  BY <1>1, <1>2 DEF Store!PowerCut, Copies, CopyOf

PutAt(text, i, l, d) ==
  [u \in 1 .. Len(text) \cup i .. l |-> IF u \in i .. l THEN d ELSE text[u]]

LEMMA StoreOverwrites ==
  ASSUME NEW n \in Names, NEW d \in Data, n # Saving, Keep({}), CopyOf(n) # NULL,
         NEW i \in 1 .. Len(CopyOf(n)) + 1, NEW l \in 1 .. MaxSize,
         \A m \in Names : CopyOf(m)' = IF m = n THEN PutAt(CopyOf(n), i, l, d) ELSE CopyOf(m),
         Saving' = Saving, caught' = caught
  PROVE  Store!Overwrite(n, d)
<1>1. /\ Copies[n] # NULL /\ i \in 1 .. Len(Copies[n]) + 1
      /\ Copies' = [Copies EXCEPT ![n] = [u \in 1 .. Len(@) \cup i .. l |->
                                            IF u \in i .. l THEN d ELSE @[u]]]
  BY DEF Copies, PutAt
<1>2. \E j \in 1 .. Len(Copies[n]) + 1, k \in 1 .. MaxSize :
        Copies' = [Copies EXCEPT ![n] = [u \in 1 .. Len(@) \cup j .. k |->
                                           IF u \in j .. k THEN d ELSE @[u]]]
  BY <1>1
<1>3. Copies[n] # NULL /\ Store!Keeps({})
  BY <1>1, StoreKeeps
<1> QED
  BY <1>2, <1>3 DEF Store!Overwrite, Copies, CopyOf

LEMMA StoreWaits ==
  ASSUME \A n \in Names : CopyOf(n)' = CopyOf(n), Keep({}), Saving' = Saving, caught' = caught
  PROVE  Store!Calls
<1>1. Copies' = Copies
  BY DEF Copies
<1> QED
  BY <1>1, StoreKeeps DEF Store!Calls, Contents, Copies, Held, CopyOf

LEMMA StoreStays ==
  ASSUME \A n \in Names : Held(n)' = Held(n) /\ CopyOf(n)' = CopyOf(n),
         Saving' = Saving, caught' = caught
  PROVE  Store!Calls
BY StoreWaits DEF Keep

----------------------------------------------------------------------------
(* Each step is a step of FileStore, or changes nothing it sees.           *)

LEMMA HeldSame ==
  ASSUME disk' = disk, Saving' = Saving,
         Saving # NULL => vfs_openFiles'[call'.slot].text = vfs_openFiles[call.slot].text
  PROVE  \A n \in Names : Held(n)' = Held(n)
<1>1. \A n : Find(n)' = Find(n)
  BY DEF disk, Find
<1>2. \A i : FileText(i)' = FileText(i)
  BY DEF disk, FileText, Walk
<1>3. \A n \in Names : n # NULL
  BY NullAssumption
<1> QED
  BY <1>1, <1>2, <1>3 DEF Held

LEMMA KeepSame ==
  ASSUME \A n \in Names : Held(n)' = Held(n)
  PROVE  Keep({})
BY DEF Keep

LEMMA CopySame ==
  ASSUME vfs_openFiles' = vfs_openFiles
  PROVE  \A n : CopyOf(n)' = CopyOf(n)
BY DEF CopyOf, AlreadyOpen, Opened

LEMMA CopyMoves ==
  ASSUME Seen, Seen', OpenNames, NEW s \in Slots, NEW n,
         \A r \in Slots : r # s => vfs_openFiles'[r] = vfs_openFiles[r],
         s \in Opened => vfs_openFiles[s].file_name = n, s \notin Opened => ~AlreadyOpen(n),
         s \in Opened' => vfs_openFiles'[s].file_name = n
  PROVE  \A m : CopyOf(m)' = IF m = n THEN IF s \in Opened' THEN vfs_openFiles'[s].text ELSE NULL
                             ELSE CopyOf(m)
<1>1. \A r \in Slots : r # s => (r \in Opened' <=> r \in Opened)
  BY DEF Opened
<1>2. Opened \subseteq Slots /\ Opened' \subseteq Slots
  BY DEF Opened
<1>3. \A m : ~AlreadyOpen(m)' => CopyOf(m)' = NULL
  BY DEF Seen
<1>4. \A r \in Opened' : \A m :
        m = vfs_openFiles'[r].file_name => CopyOf(m)' = vfs_openFiles'[r].text
  BY DEF Seen
<1>5. \A m : ~AlreadyOpen(m) => CopyOf(m) = NULL
  BY DEF Seen
<1>6. \A r \in Opened : \A m : m = vfs_openFiles[r].file_name => CopyOf(m) = vfs_openFiles[r].text
  BY DEF Seen
<1>7. s \in Opened' => CopyOf(n)' = vfs_openFiles'[s].text
  BY <1>4
<1>8. ASSUME s \notin Opened' PROVE CopyOf(n)' = NULL
  <2>1. ASSUME NEW r \in Opened', vfs_openFiles'[r].file_name = n PROVE FALSE
    <3>1. r # s /\ r \in Opened /\ vfs_openFiles[r].file_name = n
      BY <1>1, <1>2, <1>8, <2>1
    <3> QED
      BY <3>1 DEF AlreadyOpen, OpenNames
  <2>2. ~AlreadyOpen(n)'
    BY <2>1 DEF AlreadyOpen
  <2> QED
    BY <1>3, <2>2
<1>9. ASSUME NEW m, m # n PROVE CopyOf(m)' = CopyOf(m)
  <2>1. CASE AlreadyOpen(m)
    <3>1. PICK r \in Opened : vfs_openFiles[r].file_name = m
      BY <2>1 DEF AlreadyOpen
    <3>2. r # s /\ r \in Opened' /\ vfs_openFiles'[r] = vfs_openFiles[r]
      BY <1>1, <1>2, <1>9, <3>1
    <3> QED
      BY <1>4, <1>6, <3>1, <3>2
  <2>2. CASE ~AlreadyOpen(m)
    <3>1. ASSUME NEW r \in Opened', vfs_openFiles'[r].file_name = m PROVE FALSE
      <4>1. r # s /\ r \in Opened /\ vfs_openFiles[r].file_name = m
        BY <1>1, <1>2, <1>9, <3>1
      <4> QED
        BY <2>2, <4>1 DEF AlreadyOpen
    <3>2. ~AlreadyOpen(m)'
      BY <3>1 DEF AlreadyOpen
    <3> QED
      BY <1>3, <1>5, <2>2, <3>2
  <2> QED
    BY <2>1, <2>2
<1> QED
  BY <1>7, <1>8, <1>9

LEMMA InstallCopies ==
  ASSUME Types, OpenNames, Seen, Seen', openCount < MaxOpenedFiles, NEW fd \in Descriptor,
         Install(fd), ~AlreadyOpen(fd.file_name)
  PROVE  \A m : CopyOf(m)' = IF m = fd.file_name THEN fd.text ELSE CopyOf(m)
<1>1. PICK s \in Slots \ Opened : /\ Opened' = Opened \cup {s}
                                  /\ vfs_openFiles' = [vfs_openFiles EXCEPT ![s] = fd]
  BY InstallIs
<1>2. /\ s \in Slots /\ s \notin Opened /\ s \in Opened' /\ vfs_openFiles'[s] = fd
      /\ \A r \in Slots : r # s => vfs_openFiles'[r] = vfs_openFiles[r]
  BY <1>1 DEF Types
<1> QED
  BY <1>2, CopyMoves

LEMMA ReplaceCopies ==
  ASSUME Types, OpenNames, Seen, Seen', NEW s \in Opened, NEW fd \in Descriptor,
         vfs_openFiles' = [vfs_openFiles EXCEPT ![s] = fd], openCount' = openCount,
         fd.file_name = vfs_openFiles[s].file_name
  PROVE  \A m : CopyOf(m)' = IF m = fd.file_name THEN fd.text ELSE CopyOf(m)
<1>1. Opened' = Opened /\ s \in Slots
  BY ReplaceIs DEF Opened
<1>2. /\ s \in Opened' /\ vfs_openFiles'[s] = fd
      /\ \A r \in Slots : r # s => vfs_openFiles'[r] = vfs_openFiles[r]
  BY <1>1 DEF Types
<1> QED
  BY <1>1, <1>2, CopyMoves

LEMMA NotSaving ==
  ASSUME Seen, call.op # "close"
  PROVE  Saving = NULL
BY DEF Seen

LEMMA OpenFoundMaps ==
  ASSUME Steady, Seen, Seen', NEW path \in Paths, NEW flags \in Flags, OpenFound(path, flags)
  PROVE  Store!OpenFile(path)
<1>1. Types /\ Calls /\ OpenNames /\ path \in Names
  BY CardAssumption DEF Steady, Naming
<1>2. /\ disk' = disk /\ call' = call /\ caught' = caught /\ call.op = "none"
      /\ Find(path) # 0 /\ ~AlreadyOpen(path) /\ openCount < MaxOpenedFiles
  BY <1>1, OpenedIs, FilesAssumption DEF OpenFound, MayOpen, power
<1>3. PICK text \in Texts : text = FileText(Find(path))
  BY <1>1, <1>2, FileTextIs DEF Seen, InUse
<1>4. PICK fd \in Descriptor : /\ fd = NewDescriptor(path, flags, text)
                               /\ fd.file_name = path /\ fd.text = text /\ Install(fd)
  BY <1>1, <1>3, NewDescriptorIs DEF OpenFound, NewDescriptor
<1>5. \A m : CopyOf(m)' = IF m = path THEN text ELSE CopyOf(m)
  BY <1>1, <1>2, <1>4, InstallCopies
<1>6. Saving = NULL /\ Saving' = NULL
  BY <1>2, NotSaving DEF Saving
<1>7. Keep({})
  BY <1>2, <1>6, HeldSame, KeepSame
<1>8. CopyOf(path) = NULL /\ Held(path) # NULL /\ Held(path) = text
  BY <1>1, <1>2, <1>3, <1>6, NullAssumption DEF Seen, Held
<1> QED
  BY <1>1, <1>2, <1>5, <1>6, <1>7, <1>8, StoreOpens

LEMMA OpenCreatesMaps ==
  ASSUME Seen, NEW path \in Paths, NEW flags \in Flags, OpenCreates(path, flags)
  PROVE  Store!Calls
<1>1. /\ disk' = disk /\ vfs_openFiles' = vfs_openFiles /\ caught' = caught
      /\ call.op = "none" /\ call'.op = "open"
  BY DEF OpenCreates, MayOpen, power, NoCall
<1>2. Saving = NULL /\ Saving' = NULL
  BY <1>1, NotSaving DEF Saving
<1> QED
  BY <1>1, <1>2, HeldSame, CopySame, StoreStays

(* The file is there and empty, or the directory was full: then there is a *)
(* descriptor and no file.                                                 *)
LEMMA OpenReturnsMaps ==
  ASSUME Steady, Seen, Seen', OpenReturns
  PROVE  Store!Calls
<1>1. Types /\ Calls /\ OpenNames /\ ListedOnce
  BY DEF Steady, Naming, Directory
<1>2. /\ disk' = disk /\ caught' = caught /\ call.op = "open" /\ call'.op = "none"
      /\ job.pc \in {"saved", "unsaved"}
  BY NoCallIs DEF OpenReturns, power
<1>3. PICK path \in Paths, flags \in Flags : path = call.path /\ flags = call.flags
  BY <1>1, <1>2 DEF Calls
<1>4. Saving = NULL /\ Saving' = NULL /\ path \in Names /\ openCount < MaxOpenedFiles
  BY <1>1, <1>2, NotSaving, CardAssumption DEF Saving, Calls
<1>5. (\A n \in Names : Held(n)' = Held(n)) /\ Keep({})
  BY <1>2, <1>4, HeldSame, KeepSame
<1>6. CASE AlreadyOpen(path)
  <2>1. vfs_openFiles' = vfs_openFiles
    BY <1>3, <1>6 DEF OpenReturns
  <2> QED
    BY <1>2, <1>4, <1>5, <2>1, CopySame, StoreStays
<1>7. CASE ~AlreadyOpen(path)
  <2>1. PICK fd \in Descriptor : /\ fd = NewDescriptor(path, flags, <<>>)
                                 /\ fd.file_name = path /\ fd.text = <<>> /\ Install(fd)
    BY <1>3, <1>4, <1>7, TextsAre, NewDescriptorIs DEF OpenReturns, NewDescriptor
  <2>2. \A m : CopyOf(m)' = IF m = path THEN <<>> ELSE CopyOf(m)
    BY <1>1, <1>4, <1>7, <2>1, InstallCopies
  <2>3. CopyOf(path) = NULL
    BY <1>7 DEF Seen
  <2>4. Opening /\ job.pc = "unsaved"
    BY <1>2 DEF Steady, Naming, Opening
  <2>5. CASE Available = {} /\ ~Has(path)
    <3>1. Held(path) = NULL /\ Full
      BY <1>1, <1>4, <2>5, HasIs, FullWhen DEF Seen
    <3>2. Store!OpenNowhere(path)
      BY <1>2, <1>4, <1>5, <2>2, <2>3, <3>1, StoreOpensNowhere
    <3> QED
      BY <1>4, <3>2 DEF Store!Calls
  <2>6. CASE \E i \in InUse : root[i].name = path /\ root[i].fileSize = 0
    <3>1. PICK i \in InUse : root[i].name = path /\ root[i].fileSize = 0
      BY <2>6
    <3>2. Find(path) = i /\ i # 0 /\ FileText(i) = <<>>
      BY <1>4, <3>1 DEF Seen, InUse
    <3>3. Held(path) = <<>> /\ Held(path) # NULL
      BY <1>4, <3>2, NullAssumption DEF Held, Seen
    <3>4. Store!OpenFile(path)
      BY <1>2, <1>4, <1>5, <2>2, <2>3, <3>3, StoreOpens
    <3> QED
      BY <1>4, <3>4 DEF Store!Calls
  <2> QED
    BY <1>3, <2>4, <2>5, <2>6 DEF Opening
<1> QED
  BY <1>6, <1>7

LEMMA ReadMaps ==
  ASSUME Steady, Seen, Seen', NEW s \in Slots, NEW fd \in Descriptor, s \in Opened,
         vfs_openFiles' = [vfs_openFiles EXCEPT ![s] = fd], openCount' = openCount,
         fd.file_name = vfs_openFiles[s].file_name, fd.text = vfs_openFiles[s].text,
         disk' = disk, call' = call, caught' = caught, call.op = "none"
  PROVE  Store!Calls
<1>1. Types /\ OpenNames
  BY DEF Steady, Naming
<1>2. Saving = NULL /\ Saving' = NULL
  BY NotSaving DEF Saving
<1>3. \A m : CopyOf(m)' = IF m = fd.file_name THEN fd.text ELSE CopyOf(m)
  BY <1>1, ReplaceCopies
<1>4. CopyOf(fd.file_name) = fd.text
  BY DEF Seen
<1> QED
  BY <1>2, <1>3, <1>4, HeldSame, StoreStays

LEMMA WriteMaps ==
  ASSUME Steady, Seen, Seen', NEW s \in Slots, NEW d \in Input, NEW bytes \in Counts,
         Write(s, d, bytes)
  PROVE  Store!Calls
<1>1. Types /\ OpenNames /\ s \in Opened
  BY WriteIs DEF Steady, Naming
<1>2. /\ disk' = disk /\ call' = call /\ caught' = caught /\ call.op = "none"
      /\ openCount' = openCount
  BY DEF Write, power
<1>3. PICK old \in Descriptor : old = vfs_openFiles[s]
  BY <1>1, OpenedIs
<1>4. PICK fd \in Descriptor :
        /\ vfs_openFiles' = [vfs_openFiles EXCEPT ![s] = fd]
        /\ fd.file_name = old.file_name
        /\ fd.text = Written(old.text, old.write_offset, old.write_offset + bytes, d)
        /\ old.write_offset + bytes <= MaxSize
  BY <1>1, <1>3, WriteIs
<1>5. PICK n \in Names, text \in Seq(Piece), from \in Nat, end \in Nat :
        /\ n = old.file_name /\ text = old.text /\ from = old.write_offset
        /\ end = from + bytes /\ end <= MaxSize /\ bytes \in Nat /\ from <= Len(text)
  <2>1. old.file_name \in Names /\ old.text \in Texts /\ old.write_offset \in 0 .. MaxSize
    BY DescriptorIs
  <2>2. bytes \in Nat /\ old.write_offset \in Nat
    BY <2>1, FilesAssumption
  <2>3. old.text \in Seq(Piece) /\ old.write_offset <= Len(old.text)
    BY <1>1, <1>3, <2>1, TextsAre DEF OpenNames
  <2>4. old.write_offset + bytes \in Nat
    BY <2>2
  <2> QED
    BY <1>4, <2>1, <2>2, <2>3, <2>4
<1>6. Saving = NULL /\ Saving' = NULL
  BY <1>2, NotSaving DEF Saving
<1>7. (\A m \in Names : Held(m)' = Held(m)) /\ Keep({})
  BY <1>2, <1>6, HeldSame, KeepSame
<1>8. CopyOf(n) = text /\ CopyOf(n) # NULL
  BY <1>1, <1>3, <1>5 DEF Seen
<1>9. \A m : CopyOf(m)' = IF m = n THEN fd.text ELSE CopyOf(m)
  BY <1>1, <1>2, <1>3, <1>4, <1>5, ReplaceCopies
<1>10. fd.text = Written(text, from, end, d) /\ Len(text) \in Nat
  BY <1>4, <1>5
<1>11. CASE bytes = 0
  <2>1. end = from /\ ~(end > Len(text))
    BY <1>5, <1>10, <1>11
  <2>2. \A u \in 1 .. Len(text) : u \notin from + 1 .. end /\ u <= Len(text)
    BY <1>5, <1>10, <2>1
  <2>3. Written(text, from, end, d) = [u \in 1 .. Len(text) |-> text[u]]
    BY <2>1, <2>2 DEF Written
  <2>4. text = [u \in 1 .. Len(text) |-> text[u]]
    BY <1>5
  <2> QED
    BY <1>2, <1>6, <1>7, <1>8, <1>9, <1>10, <2>3, <2>4, StoreStays
<1>12. CASE bytes # 0
  <2>1. PICK i \in 1 .. Len(text) + 1 : i = from + 1 /\ end \in 1 .. MaxSize
    <3>1. from + 1 \in 1 .. Len(text) + 1 /\ end \in 1 .. MaxSize
      <4>1. bytes \in Nat \ {0} /\ from \in Nat /\ end = from + bytes
        BY <1>5, <1>12
      <4>2. from <= Len(text) /\ end <= MaxSize /\ Len(text) \in Nat /\ MaxSize \in Nat
        BY <1>5, <1>10, FilesAssumption
      <4> QED
        BY <4>1, <4>2
    <3> QED
      BY <3>1
  <2>2. 1 .. (IF end > Len(text) THEN end ELSE Len(text)) = 1 .. Len(text) \cup i .. end
    <3>1. i \in Nat /\ end \in Nat /\ i <= Len(text) + 1 /\ 1 <= i /\ Len(text) \in Nat
      BY <1>10, <2>1
    <3> QED
      BY <3>1
  <2>3. \A u \in 1 .. Len(text) \cup i .. end :
          u \notin i .. end => u <= Len(text)
    BY <1>10
  <2>4. fd.text = PutAt(text, i, end, d)
    BY <1>10, <2>1, <2>2, <2>3 DEF Written, PutAt
  <2>5. \A m \in Names : CopyOf(m)' = IF m = n THEN PutAt(CopyOf(n), i, end, d) ELSE CopyOf(m)
    BY <1>8, <1>9, <2>4
  <2>6. i \in 1 .. Len(CopyOf(n)) + 1 /\ CopyOf(n) # NULL /\ end \in 1 .. MaxSize
    BY <1>8, <2>1
  <2>7. d \in Data /\ n # Saving
    BY <1>6, NullAssumption, FilesAssumption
  <2>8. Store!Overwrite(n, d)
    BY <1>2, <1>6, <1>7, <2>5, <2>6, <2>7, StoreOverwrites
  <2> QED
    BY <2>7, <2>8 DEF Store!Calls
<1> QED
  BY <1>11, <1>12

(* A file without an entry is closed without being written: the directory  *)
(* was full when it was opened, and no entry is ever given back.           *)
LEMMA CloseMaps ==
  ASSUME Steady, Seen, NEW s \in Slots, Close(s)
  PROVE  Store!Calls
<1>1. Types /\ Calls /\ OpenNames /\ ListedOnce
  BY DEF Steady, Naming, Directory
<1>2. /\ disk' = disk /\ caught' = caught /\ vfs_openFiles' = vfs_openFiles
      /\ call.op = "none" /\ s \in Opened /\ call'.op = "close" /\ call'.slot = s
  BY DEF Close, power, NoCall
<1>3. PICK n \in Names : n = vfs_openFiles[s].file_name
  BY <1>1, <1>2, OpenedIs, DescriptorIs
<1>4. Saving = NULL /\ Saving' = n
  BY <1>2, <1>3, NotSaving DEF Saving
<1>5. \A m : CopyOf(m)' = CopyOf(m)
  BY <1>2, CopySame
<1>6. CopyOf(n) # NULL /\ CopyOf(n) = vfs_openFiles[s].text
  BY <1>2, <1>3 DEF Seen
<1>7. (\A m : Find(m)' = Find(m)) /\ \A i : FileText(i)' = FileText(i)
  BY <1>2 DEF disk, Find, FileText, Walk
<1>8. \A m \in Names : m # n => Held(m)' = Held(m)
  BY <1>4, <1>7, NullAssumption DEF Held
<1>9. CASE Find(n) = 0
  <2>1. Held(n) = NULL /\ Held(n)' = NULL
    BY <1>7, <1>9 DEF Held
  <2>2. Available = {}
    BY <1>2, <1>3, <1>9, HasIs DEF OpenNames, Steady, Naming
  <2>3. Full
    BY <1>1, <2>2, FullWhen
  <2>4. Keep({})
    BY <1>8, <2>1 DEF Keep
  <2>5. Store!Save(n)
    BY <1>2, <1>4, <1>5, <1>6, <2>1, <2>3, <2>4, StoreSaves
  <2> QED
    BY <2>5 DEF Store!Calls
<1>10. CASE Find(n) # 0
  <2>1. Held(n)' = vfs_openFiles[s].text
    BY <1>2, <1>4, <1>7, <1>10 DEF Held
  <2>2. Held(n) # NULL
    BY <1>10 DEF Seen
  <2>3. Keep({n})
    BY <1>8 DEF Keep
  <2>4. Store!Save(n)
    BY <1>2, <1>4, <1>5, <1>6, <2>1, <2>2, <2>3, StoreSaves
  <2> QED
    BY <2>4 DEF Store!Calls
<1> QED
  BY <1>9, <1>10

LEMMA CloseReturnsMaps ==
  ASSUME Steady, Seen, Seen', FreeCluster \in Clusters, CloseReturns
  PROVE  Store!Saved
<1>1. Types /\ Calls /\ OpenNames /\ ListedOnce /\ Closing
  BY DEF Steady, Naming, Directory, CloseReturns
<1>2. /\ disk' = disk /\ caught' = caught /\ call.op = "close" /\ call'.op = "none"
      /\ job.pc \in {"saved", "unsaved"} /\ openCount' = openCount - 1
      /\ vfs_openFiles' = [vfs_openFiles EXCEPT ![call.slot] = NULL]
  BY NoCallIs DEF CloseReturns, power
<1>3. PICK s \in Opened, n \in Names : s = call.slot /\ n = vfs_openFiles[s].file_name
  BY <1>1, <1>2, OpenedIs, DescriptorIs DEF Calls
<1>4. Saving = n /\ n # NULL /\ Saving' = NULL
  BY <1>2, <1>3, NullAssumption DEF Saving
<1>5. \A m : CopyOf(m)' = IF m = n THEN NULL ELSE CopyOf(m)
  <2>1. Opened' = Opened \ {s} /\ s \in Slots
    BY <1>1, <1>2, <1>3, UninstallIs DEF Opened
  <2>2. s \notin Opened' /\ \A r \in Slots : r # s => vfs_openFiles'[r] = vfs_openFiles[r]
    BY <1>1, <1>2, <1>3, <2>1 DEF Types
  <2> QED
    BY <1>1, <1>3, <2>1, <2>2, CopyMoves
<1>6. (\A m : Find(m)' = Find(m)) /\ \A i : FileText(i)' = FileText(i)
  BY <1>2 DEF disk, Find, FileText, Walk
<1>7. \A m \in Names : m # n => Held(m)' = Held(m)
  BY <1>4, <1>6, NullAssumption DEF Held
<1>8. \A m \in Names : Held(m)' = NULL <=> Held(m) = NULL
  BY <1>6 DEF Seen
<1>9. ASSUME n \notin caught, Find(n) # 0
      PROVE  Held(n)' = Held(n)
  <2>1. Has(n)
    BY <1>9, HasIs
  <2>2. /\ job.pc = "saved" /\ job.entry \in InUse /\ root[job.entry].name = n
        /\ job.text = vfs_openFiles[s].text
    BY <1>1, <1>2, <1>3, <2>1 DEF Closing
  <2>3. job.entry \in Kept /\ Find(n) = job.entry
    BY <1>9, <2>2 DEF Kept, Seen
  <2>4. PICK ch \in ChainSet, T \in SUBSET Clusters : Safe(ch, T)
    BY DEF Steady
  <2>5. FileText(job.entry) = job.text
    BY <1>1, <2>2, <2>3, <2>4, SavedText
  <2>6. Held(n) = vfs_openFiles[s].text
    BY <1>3, <1>4, <1>9 DEF Held
  <2>7. Held(n)' = FileText(Find(n))
    BY <1>4, <1>6, <1>9 DEF Held
  <2> QED
    BY <2>2, <2>3, <2>5, <2>6, <2>7
<1>10. Keep({})
  <2>1. Find(n) = 0 => Held(n)' = Held(n)
    BY <1>6 DEF Held
  <2> QED
    BY <1>7, <1>8, <1>9, <2>1 DEF Keep
<1> QED
  BY <1>2, <1>4, <1>5, <1>10, StoreIsSaved

LEMMA PowerCutMaps ==
  ASSUME Seen, Seen', PowerCut
  PROVE  Store!PowerCut
<1>1. /\ disk' = disk /\ caught' = caught \cup ({Saving} \ {NULL})
      /\ vfs_openFiles' = [s \in Slots |-> NULL] /\ call'.op = "none"
  BY NoCallIs DEF PowerCut
<1>2. Saving' = NULL
  BY <1>1 DEF Saving
<1>3. \A m : CopyOf(m)' = NULL
  <2>1. Opened' = {}
    BY <1>1 DEF Opened
  <2>2. \A m : ~AlreadyOpen(m)'
    BY <2>1 DEF AlreadyOpen
  <2> QED
    BY <2>2 DEF Seen
<1>4. (\A m : Find(m)' = Find(m)) /\ \A i : FileText(i)' = FileText(i)
  BY <1>1 DEF disk, Find, FileText, Walk
<1>5. \A m \in Names : m # Saving => Held(m)' = Held(m)
  BY <1>2, <1>4, NullAssumption DEF Held
<1>6. Keep({Saving})
  BY <1>5 DEF Keep
<1> QED
  BY <1>1, <1>2, <1>3, <1>6, StoreIsCut

(* The block that Enter writes makes the file; every other block changes   *)
(* at most the text of the file that is being closed and of spoiled ones.  *)
LEMMA CardStepMaps ==
  ASSUME Steady, Seen, Seen', AllTexts', ~stray', FreeCluster \in Clusters, CardStep
  PROVE  Store!Calls
<1>1. Types /\ Calls /\ Directory /\ Room /\ Naming /\ ListedOnce
  BY DEF Steady, Directory
<1>2. /\ WritesFile /\ vfs_openFiles' = vfs_openFiles /\ call' = call /\ caught' = caught
      /\ Saving' = Saving
  BY CleanSteps DEF Steady, CardStep, power, Saving
<1>3. PICK ch \in ChainSet, T \in SUBSET Clusters : Safe(ch, T)
  BY DEF Steady
<1>4. PICK more \in ChainSet, S \in SUBSET Clusters : Safe(more, S)' /\ Spared(ch, more)
  BY <1>1, <1>2, <1>3, CardStepSafe
<1>5. \A m : CopyOf(m)' = CopyOf(m)
  BY <1>2, CopySame
<1>6. Writer => call.op = "close" /\ root[job.entry].name = Saving
  <2> SUFFICES ASSUME Writer PROVE call.op = "close" /\ root[job.entry].name = Saving
    OBVIOUS
  <2>1. call.op = "close"
    BY <1>1 DEF Types, CallRecord, Calls, Writer
  <2> QED
    BY <1>1, <2>1 DEF Naming, Closing, Writer, Saving
<1>7. /\ job'.entry = job.entry
      /\ ~Writer => job'.pc # "seal"
      /\ \A i \in InUse : i \in InUse' /\ root'[i].name = root[i].name
                          /\ ((Writer => i # job.entry) => root'[i] = root[i])
      /\ ~Enters => InUse' = InUse
  <2>1. CASE Enters
    <3>1. job'.entry = job.entry
      BY <2>1 DEF Enters
    <3>2. job.entry \notin InUse /\ InUse \subseteq Entries
      BY <1>1, <2>1, EnterIs DEF InUse
    <3> QED
      BY <1>1, <2>1, <3>1, <3>2, EnterIs
  <2>2. CASE WritesSize
    <3>1. Writer /\ InUse \subseteq Entries
      BY <1>1, <2>2, WriteSizeIs DEF Writer, InUse
    <3> QED
      BY <1>1, <2>2, <3>1, WriteSizeIs
  <2>3. CASE ~Enters /\ ~WritesSize
    BY <1>1, <1>2, <2>3, OtherSteps DEF Writer
  <2> QED
    BY <2>1, <2>2, <2>3
<1>8. ASSUME NEW n \in Names, Find(n) # 0
      PROVE  /\ Find(n)' = Find(n)
             /\ n \notin caught /\ n # Saving => FileText(Find(n))' = FileText(Find(n))
  <2>1. PICK i \in InUse : i = Find(n) /\ root[i].name = n
    BY <1>8 DEF Seen
  <2>2. Find(n)' = i
    BY <1>7, <2>1 DEF Seen
  <2>3. ASSUME n \notin caught, n # Saving
        PROVE  FileText(i)' = FileText(i)
    <3>1. i \in Kept
      BY <2>1, <2>3 DEF Kept
    <3>2. Writer => i # job.entry
      BY <1>6, <2>1, <2>3
    <3>3. root'[i] = root[i]
      BY <1>7, <3>2
    <3> QED
      BY <1>1, <1>2, <1>3, <1>4, <1>7, <3>1, <3>2, <3>3, TextStays
  <2> QED
    BY <2>1, <2>2, <2>3
<1>9. ASSUME NEW n \in Names, Find(n) # 0
      PROVE  IF n \in caught THEN Held(n)' = NULL <=> Held(n) = NULL ELSE Held(n)' = Held(n)
  <2>1. Find(n)' = Find(n)
    BY <1>8, <1>9
  <2>2. CASE n \in caught
    BY <2>1, <2>2 DEF Seen
  <2>3. CASE n \notin caught /\ n = Saving
    BY <1>2, <1>9, <2>1, <2>3 DEF Held
  <2>4. CASE n \notin caught /\ n # Saving
    BY <1>2, <1>8, <1>9, <2>1, <2>4 DEF Held
  <2> QED
    BY <2>2, <2>3, <2>4
<1>10. ASSUME NEW n \in Names, Find(n) = 0, Find(n)' = 0
       PROVE  Held(n)' = NULL /\ Held(n) = NULL
  BY <1>10 DEF Seen
<1>11. CASE ~Enters
  <2>1. \A n \in Names : Find(n) = 0 => Find(n)' = 0
    <3> SUFFICES ASSUME NEW n \in Names, Find(n)' # 0 PROVE Find(n) # 0
      OBVIOUS
    <3>1. PICK i \in InUse' : root'[i].name = n
      BY DEF Seen
    <3>2. i \in InUse /\ root[i].name = n
      BY <1>7, <1>11, <3>1
    <3> QED
      BY <3>2 DEF Seen
  <2>2. Keep({})
    BY <1>9, <1>10, <2>1 DEF Keep
  <2> QED
    BY <1>2, <1>5, <2>2, StoreWaits
<1>12. CASE Enters
  <2>1. PICK n \in Names, e \in Entries : n = job.path /\ e = job.entry
    BY <1>1, <1>12, EnterIs
  <2>2. /\ e \in Available /\ root'[e].name = n /\ root'[e].fileSize = 0 /\ job.pc = "enter"
        /\ \A i \in Entries : i # e => root'[i] = root[i]
        /\ InUse' = InUse \cup {e} /\ \A i \in InUse : root[i].name # n
    BY <1>1, <1>12, <2>1, EnterIs
  <2>3. Find(n) = 0 /\ Held(n) = NULL /\ ~Full
    <3>1. Find(n) = 0
      BY <2>2 DEF Seen
    <3> QED
      BY <1>1, <2>2, <3>1, FullWhen DEF Seen
  <2>4. Find(n)' = e /\ e # 0 /\ FileText(e)' = <<>>
    <3>1. e \in InUse' /\ e # 0
      BY <2>2 DEF Entries
    <3> QED
      BY <2>1, <2>2, <3>1 DEF Seen
  <2>5. n # Saving
    <3>1. call.op # "close"
      BY <1>1, <2>2 DEF Naming, Closing
    <3> QED
      BY <3>1, NotSaving, NullAssumption
  <2>6. Held(n)' = <<>>
    BY <1>2, <2>4, <2>5 DEF Held
  <2>7. ASSUME NEW m \in Names, m # n, Find(m) = 0
        PROVE  Find(m)' = 0
    <3> SUFFICES ASSUME Find(m)' # 0 PROVE FALSE
      OBVIOUS
    <3>1. PICK i \in InUse' : root'[i].name = m
      BY DEF Seen
    <3>2. i # e /\ i \in InUse /\ InUse \subseteq Entries
      BY <2>2, <2>7, <3>1 DEF InUse
    <3>3. root[i].name = m
      BY <2>2, <3>1, <3>2
    <3> QED
      BY <2>7, <3>2, <3>3 DEF Seen
  <2>8. Keep({n})
    BY <1>9, <1>10, <2>7 DEF Keep
  <2>9. Store!MakeFile(n)
    BY <1>2, <1>5, <2>3, <2>6, <2>8, StoreMakes
  <2> QED
    BY <2>9 DEF Store!Calls
<1> QED
  BY <1>11, <1>12

LEMMA StepMaps ==
  ASSUME Steady, Seen, Seen', AllTexts', ~stray', FreeCluster \in Clusters, [Next]_vars
  PROVE  Store!Calls
<1>1. CASE UNCHANGED vars
  <2>1. disk' = disk /\ vfs_openFiles' = vfs_openFiles /\ call' = call /\ caught' = caught
    BY <1>1 DEF vars, power
  <2>2. Saving' = Saving
    BY <2>1 DEF Saving
  <2> QED
    BY <2>1, <2>2, HeldSame, CopySame, StoreStays
<1>2. Types
  BY DEF Steady
<1>3. ASSUME NEW path \in Paths, NEW flags \in Flags, OpenFound(path, flags)
      PROVE  Store!Calls
  <2>1. Store!OpenFile(path) /\ path \in Names
    BY <1>3, OpenFoundMaps, CardAssumption
  <2> QED
    BY <2>1 DEF Store!Calls
<1>4. ASSUME NEW path \in Paths, NEW flags \in Flags, OpenCreates(path, flags)
      PROVE  Store!Calls
  BY <1>4, OpenCreatesMaps
<1>5. ASSUME NEW s \in Slots, NEW bytes \in Counts, Read(s, bytes)
      PROVE  Store!Calls
  <2>1. /\ disk' = disk /\ call' = call /\ caught' = caught /\ call.op = "none"
        /\ openCount' = openCount
    BY <1>5 DEF Read, power
  <2> QED
    BY <1>2, <1>5, <2>1, ReadIs, ReadMaps
<1>6. ASSUME NEW s \in Slots, NEW offset \in Offsets, NEW mode \in Flags, Seek(s, offset, mode)
      PROVE  Store!Calls
  <2>1. /\ disk' = disk /\ call' = call /\ caught' = caught /\ call.op = "none"
        /\ openCount' = openCount
    BY <1>6 DEF Seek, power
  <2> QED
    BY <1>2, <1>6, <2>1, SeekIs, ReadMaps
<1>7. CloseReturns => Store!Calls
  BY CloseReturnsMaps DEF Store!Calls
<1>8. PowerCut => Store!Calls
  BY PowerCutMaps DEF Store!Calls
<1> QED
  BY <1>1, <1>3, <1>4, <1>5, <1>6, <1>7, <1>8, WriteMaps, CloseMaps, OpenReturnsMaps, CardStepMaps
     DEF Next

(* A block of a file that is kept goes to its chain.                       *)
LEMMA KeptInside ==
  ASSUME Types, NEW ch \in ChainSet, NEW T, Safe(ch, T), Writing, ~AtEnd, job.entry \in Kept
  PROVE  job.cluster \in FileClusters
<1>1. PICK e \in Kept : e = job.entry
  OBVIOUS
<1>2. PICK q \in Seq(FileClusters) : /\ q = ch[e] /\ Chained(q, e) /\ e \in InUse
                                     /\ IsEnd(fat[EndOf(q)])
  BY KeptIs DEF Safe, KeptChains, Writing
<1>3. /\ job.pc = "write" /\ job.block \in Nat /\ job.block <= Len(q)
      /\ job.cluster = IF job.block = 0 THEN q[1] ELSE fat[q[job.block]]
  BY <1>1, <1>2 DEF Writing, Safe, AtWork, Writer, AtBlock, Types, JobRecord
<1>4. CASE job.block = 0
  BY <1>2, <1>3, <1>4, ChainIs
<1>5. CASE job.block # 0
  <2>1. job.block \in 1 .. Len(q)
    BY <1>2, <1>3, <1>5, ChainIs
  <2>2. job.block # Len(q)
    <3>1. fat[EndOf(q)] \in ClusterValue
      BY <1>2, ChainIs DEF Types, DiskTypeOK
    <3> QED
      BY <1>2, <1>3, <1>5, <3>1, EndValues DEF AtEnd, EndOf
  <2> QED
    BY <1>2, <1>3, <1>5, <2>1, <2>2, ChainIs
<1> QED
  BY <1>4, <1>5

(* On a card with room a block is written astray only for a spoiled file.  *)
LEMMA StrayMaps ==
  ASSUME Steady, FreeCluster \in Clusters, stray' # stray, [Next]_vars
  PROVE  Saving \in caught
<1>1. Types /\ Calls /\ Directory /\ Room /\ Naming
  BY DEF Steady
<1>2. PICK ch \in ChainSet, T \in SUBSET Clusters : Safe(ch, T)
  BY DEF Steady
<1>3. Link \/ WriteAstray
  BY <1>1, StraySteps DEF EndChain, Seal, Room
<1>4. Writer
  BY <1>3 DEF Link, WriteAstray, Writing, Writer
<1>5. job.entry \notin Kept
  <2> SUFFICES ASSUME job.entry \in Kept PROVE FALSE
    OBVIOUS
  <2>1. CASE Link /\ job.prev \notin Clusters
    <3>1. ch[job.entry] \in Seq(FileClusters) /\ Chained(ch[job.entry], job.entry)
          /\ job.entry \in InUse /\ job.prev = EndOf(ch[job.entry])
      BY <1>1, <1>2, <1>4, <2>1, WorkingEntry DEF Link, AtBlock
    <3> QED
      BY <1>1, <2>1, <3>1, ChainIs
  <2>2. CASE WriteAstray
    BY <1>1, <1>2, <2>2, KeptInside DEF WriteAstray
  <2> QED
    BY <1>1, <1>3, <2>1, <2>2, StraySteps DEF Link, EndChain, Seal
<1>6. call.op = "close"
  BY <1>1, <1>4 DEF Types, CallRecord, Calls, Writer
<1>7. job.entry \in InUse /\ root[job.entry].name = Saving
  BY <1>1, <1>4, <1>6 DEF Naming, Closing, Writer, Saving
<1> QED
  BY <1>5, <1>7 DEF Kept

(* The files of a sound card hold data.                                    *)
LEMMA InitTexts ==
  ASSUME Init, Types, SoundImages, FreeCluster \in Clusters, NEW i \in InUse
  PROVE  FileText(i) \in Seq(Data)
<1>1. PICK card \in Images : fat = card.fat /\ root = card.root /\ data = card.data
  BY DEF Init, DiskInit
<1>2. PICK ch : SoundCard(card, ch)
  BY <1>1 DEF SoundImages
<1>3. ch \in ChainSet /\ Chains(ch)
  BY <1>1, <1>2, CardChains
<1>4. job.pc = "idle" /\ caught = {} /\ Kept = InUse
  BY NoJobIs DEF Init, DiskInit, Kept
<1>5. KeptChains(ch) /\ KeptApart(ch) /\ IsEnd(fat[EndOf(ch[i])])
  BY <1>3, <1>4 DEF Chains, Tame, Apart, KeptChains, KeptApart
<1>6. PICK l \in Nat : l = root[i].fileSize
  BY EntryIs, FilesAssumption DEF InUse
<1>7. FileText(i) = TextOn(ch[i], l)
  BY <1>3, <1>4, <1>5, <1>6, TextIs
<1>8. \A u \in 0 .. l - 1 : data[ch[i][(u \div Units) + 1]][(u % Units) + 1] \in Data
  BY <1>1, <1>2, <1>6 DEF SoundCard, InUse
<1>9. \A u \in 1 .. l : data[ch[i][BlockOf(u) + 1]][PlaceOf(u)] \in Data
  BY <1>8 DEF BlockOf, PlaceOf
<1>10. TextOn(ch[i], l) \in [1 .. l -> Data]
  BY <1>9 DEF TextOn
<1> QED
  BY <1>7, <1>10

LEMMA InitMaps ==
  ASSUME Init, Types, SoundImages, Seen, FreeCluster \in Clusters
  PROVE  Store!Init
<1>1. caught = {} /\ Saving = NULL /\ Opened = {} /\ stray = FALSE
  BY NoCallIs DEF Init, DiskInit, Saving, Opened
<1>2. \A n \in Names : CopyOf(n) = NULL
  BY <1>1 DEF CopyOf, AlreadyOpen
<1>3. \A n \in Names : Held(n) = NULL \/ Held(n) \in Seq(Data)
  BY <1>1, InitTexts, NullAssumption DEF Held, Seen
<1>4. /\ Copies = [n \in Names |-> NULL]
      /\ \A n \in Names : Contents[n] = NULL \/ Contents[n] \in Seq(Data)
  BY <1>2, <1>3 DEF Copies, Contents
<1> QED
  BY <1>1, <1>4 DEF Store!Init, Contents, Copies, Held, CopyOf

(* The card has room: the number that find_free_cluster would return       *)
(* next, which is two above the entry it would mark, is that of a cluster  *)
(* of the card.                                                            *)
HasRoom == FreeCluster \in Clusters

(* On a sound card that keeps room, the calls vfs_open, vfs_read,          *)
(* vfs_write and vfs_close, each taken to the card block by block, behave  *)
(* as FileStore's calls on whole texts: what was closed is what is opened  *)
(* next, and neither a call nor a loss of power changes the text of any    *)
(* file but the one being closed, until a file that a loss of power caught *)
(* is itself closed again: its chain may lead into the directory.  Without *)
(* room find_free_cluster gives out clusters that the card does not have.  *)
(* The names of the card are taken not to be cut off (ShortFor).           *)
THEOREM FilesImplementFileStore ==
  SoundImages /\ ShortFor = {} => (Spec /\ []HasRoom => ImplementsFileStore)
<1> SUFFICES ASSUME SoundImages, ShortFor = {}
             PROVE  Spec /\ []HasRoom => ImplementsFileStore
  OBVIOUS
<1>1. Init => SafeInv
  BY InitSafeInv
<1>2. SafeInv /\ [Next]_vars => SafeInv'
  BY StepSafeInv
<1> DEFINE Sees == ~stray => Steady /\ Seen /\ AllTexts
<1>3. SafeInv => Sees
  BY SeenIs, TextsHold DEF SafeInv, Steady
<1>4. Init /\ Sees /\ HasRoom => Store!Init
  <2> SUFFICES ASSUME Init, Sees, HasRoom PROVE Store!Init
    OBVIOUS
  <2>1. Steady /\ Seen
    BY DEF Init, DiskInit
  <2> QED
    BY <2>1, InitMaps DEF Steady, HasRoom
<1>5. SafeInv /\ Sees /\ Sees' /\ HasRoom /\ [Next]_vars => Store!Next
  <2> SUFFICES ASSUME SafeInv, Sees, Sees', HasRoom, [Next]_vars PROVE Store!Next
    OBVIOUS
  <2>1. stray => stray'
    BY StepKeeps DEF SafeInv, FilesInv
  <2>2. CASE stray
    BY <2>1, <2>2 DEF Store!Next
  <2>3. CASE ~stray /\ stray'
    <3>1. Saving \in caught
      BY <2>3, StrayMaps DEF HasRoom
    <3> QED
      BY <2>3, <3>1 DEF Store!Next, Store!Stray
  <2>4. CASE ~stray /\ ~stray'
    <3>1. Store!Calls
      BY <2>4, StepMaps DEF HasRoom
    <3> QED
      BY <2>4, <3>1 DEF Store!Next
  <2> QED
    BY <2>2, <2>3, <2>4
<1> HIDE DEF Sees
<1> QED
  BY <1>1, <1>2, <1>3, <1>4, <1>5, PTL DEF Spec, ImplementsFileStore, Store!Spec

=============================================================================
