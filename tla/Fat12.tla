-------------------------------- MODULE Fat12 --------------------------------
(***************************************************************************)
(* The FAT12 file system on the card (filesystem/fat12.c).                 *)
(*                                                                         *)
(* The card is its allocation table, its root directory and its clusters.  *)
(* A cluster is one sector (mkfs.fat gives the image of the Makefile one   *)
(* sector per cluster) and holds Units pieces of text; the table is within *)
(* one sector, the directory has several.  A step ends with at most one    *)
(* block written to the card, so that what a loss of power leaves behind   *)
(* is the card of some state.  Reading changes nothing on the card and is  *)
(* part of the step that uses what was read.                               *)
(*                                                                         *)
(* A number that is no cluster of a file leads write_file and              *)
(* set_next_cluster to sectors that are not theirs.  What a stray write    *)
(* does there is a choice: the entries of the directory it hits become any *)
(* of Readings, a piece of text it hits becomes Junk.                      *)
(***************************************************************************)
EXTENDS Integers, Sequences

CONSTANTS Names,          \* file names with an extension of three letters
          Paths,          \* those that files are opened by
          ShortFor,       \* <<path, name>>: path up to its dot begins name
          EndMark,        \* first byte of an entry never used, 0x00
          Deleted,        \* first byte of an entry deleted, 0xE5
          Data, Junk,     \* pieces of text; what nobody wrote
          Units,          \* pieces of text in a cluster
          LastCluster,    \* the table's last cluster
          RootEntries,    \* entries of the root directory,
          SectorEntries,  \* in a sector of it (16)
          Images,         \* the cards the system may be started with
          Readings,       \* what bytes of no entry say, read as one
          Numbers         \* and read as the number of a cluster

FAT12_UNUSED == 0
FAT12_EOF_MIN == 4088
FAT12_EOF_MAX == 4095
NoCluster == 65535
FirstData == 2

(* Numbers above 4085 mean something else to FAT12.  The first byte of an  *)
(* entry tells a name from an entry never used and from a deleted one.     *)
ASSUME CardAssumption ==
  /\ Units \in Nat \ {0} /\ RootEntries \in Nat /\ SectorEntries \in Nat \ {0}
  /\ LastCluster \in FirstData .. 4085
  /\ EndMark \notin Names /\ Deleted \notin Names
  /\ Paths \subseteq Names /\ ShortFor \subseteq Paths \X Names

Clusters == 0 .. LastCluster
FileClusters == FirstData .. LastCluster
Entries == 1 .. RootEntries
Sector(i) == (i - 1) \div SectorEntries       \* of the directory, that entry i is in
Block == [1 .. Units -> Data \cup {Junk}]
Returned == 0 .. LastCluster + FirstData \cup {NoCluster}   \* by find_free_cluster
ClusterValue == 0 .. FAT12_EOF_MAX                          \* of 12 bits
DirEntry == [name : Names \cup {EndMark, Deleted},
             firstClusterLow : 0 .. NoCluster,               \* of 16 bits
             fileSize : Nat]

ASSUME ReadingsAssumption ==
  /\ Readings \subseteq DirEntry /\ Readings # {}
  /\ Numbers \subseteq 0 .. NoCluster /\ Numbers \cap ClusterValue # {}

VARIABLES
  fat,     \* [Clusters -> value], the allocation table
  root,    \* [Entries -> DirEntry], the root directory
  data,    \* [FileClusters -> Block]
  stray,   \* has a block been written where it does not belong?
  job      \* the call of fat12_write_file in progress

disk == <<fat, root, data, stray>>

First(S) == CHOOSE i \in S : \A j \in S : i <= j

----------------------------------------------------------------------------
(* Looking things up.                                                      *)

(* A path is compared up to its dot; what follows in the name is not.      *)
compareFileNames(name, path) == name = path \/ <<path, name>> \in ShortFor

(* An entry never used ends the search of its own sector: the break leaves *)
(* the inner loop.                                                         *)
Before(i) == {j \in 1 .. i - 1 : Sector(j) = Sector(i)}

(* Mutant: the search ends at a deleted entry too.                         *)
BadFind(path) ==
  LET hit == {i \in Entries : /\ compareFileNames(root[i].name, path)
                              /\ \A j \in Before(i) : root[j].name \notin {EndMark, Deleted}}
  IN IF hit = {} THEN 0 ELSE First(hit)

Find(path) ==
  LET hit == {i \in Entries : /\ compareFileNames(root[i].name, path)
                              /\ \A j \in Before(i) : root[j].name # EndMark}
  IN IF hit = {} THEN 0 ELSE First(hit)

(* What ls shows: of each sector the entries in use before the first one   *)
(* never used.                                                             *)
Listed == {i \in Entries : /\ root[i].name # Deleted
                           /\ \A j \in Before(i) \cup {i} : root[j].name # EndMark}

IsEnd(c) == c >= FAT12_EOF_MIN

(* Past the table some other sector is read.                               *)
NextCluster(c) == IF c \in Clusters THEN {fat[c]} ELSE Numbers \cap ClusterValue

(* Past the table some other sector is read, changed and put back: of the  *)
(* second table, which nobody reads, or beyond the card; of the directory; *)
(* or of a file.                                                           *)
SetNext(c, v) ==
  IF c \in Clusters
    THEN fat' = [fat EXCEPT ![c] = v % 4096] /\ UNCHANGED <<root, data, stray>>
    ELSE /\ stray' = TRUE /\ UNCHANGED fat
         /\ \/ UNCHANGED <<root, data>>
            \/ \E i \in Entries, entry \in Readings :
                  root' = [root EXCEPT ![i] = entry] /\ UNCHANGED data
            \/ \E k \in FileClusters, u \in 1 .. Units :
                  data' = [data EXCEPT ![k][u] = Junk] /\ UNCHANGED root

(* The scan counts clusters from 2 but reads entries from 0: it marks the  *)
(* first unused entry and returns the number two above it.                 *)
Unused == {k \in Clusters : fat[k] = FAT12_UNUSED}

FreeCluster == IF Unused = {} THEN NoCluster ELSE First(Unused) + FirstData

(* Mutant: the block of the table with the mark is not written.            *)
BadMarked == fat

Marked == IF Unused = {} THEN fat ELSE [fat EXCEPT ![First(Unused)] = FAT12_EOF_MAX]

(* The n-th stop on the way from c, and the clusters before it ends or     *)
(* leads to what is no cluster of a file.                                  *)
Walk(c) == LET at[n \in 0 .. LastCluster + 1] ==
                 IF n = 0 THEN c ELSE IF at[n - 1] \in Clusters THEN fat[at[n - 1]]
                 ELSE FAT12_EOF_MAX
           IN at

ChainOf(c) == LET at == Walk(c)
              IN {at[n] : n \in {m \in DOMAIN at : \A l \in 0 .. m : at[l] \in FileClusters}}

(* fat12_read_file: the text of entry i, fileSize pieces along the chain;  *)
(* nobody knows what is read once it has left the clusters of files.       *)
FileText(i) ==
  LET at == Walk(root[i].firstClusterLow)
      Piece(u) ==
        LET n == (u - 1) \div Units
        IN IF \A m \in 0 .. n : at[m] \in FileClusters
             THEN data[at[n]][((u - 1) % Units) + 1]
             ELSE Junk
  IN [u \in 1 .. root[i].fileSize |-> Piece(u)]

----------------------------------------------------------------------------
(* fat12_write_file, one block written to the card at a time.              *)

(* buffer is the directory as it was read for the search: of its sectors   *)
(* the one of the entry is kept, and is what the last step writes back.    *)
NoJob == [pc |-> "idle", path |-> Junk, text |-> <<>>, entry |-> 0, buffer |-> <<>>,
          cluster |-> 0, prev |-> 0, found |-> 0, block |-> 0]

JobTypeOK ==
  /\ job.pc \in {"idle", "create", "end", "enter", "write", "link", "seal", "saved", "unsaved"}
  /\ job.path \in Names \cup {Junk}
  /\ job.text \in Seq(Data \cup {Junk})
  /\ job.entry \in 0 .. RootEntries
  /\ job.found \in Returned
  /\ job.block \in Nat

Available == {i \in Entries : root[i].name \in {EndMark, Deleted}}

(* The search; a file not found gets an entry, if there is one, and then   *)
(* none of the text.                                                       *)
NewJob(path, text) ==
  LET i == Find(path)
      start == [NoJob EXCEPT !.path = path, !.text = text, !.buffer = root]
  IN IF i # 0
       THEN [start EXCEPT !.pc = "write", !.entry = i, !.cluster = root[i].firstClusterLow]
     ELSE IF Available = {} THEN [start EXCEPT !.pc = "unsaved"]
     ELSE [start EXCEPT !.pc = "create", !.entry = First(Available)]

(* fat12_create_dir_entry: find_free_cluster marks an entry of the table,  *)
Create ==
  /\ job.pc = "create"
  /\ fat' = Marked
  /\ job' = [job EXCEPT !.pc = "end", !.found = FreeCluster]
  /\ UNCHANGED <<root, data, stray>>

(* the cluster it returned becomes the end of a chain,                     *)
EndChain ==
  /\ job.pc = "end"
  /\ SetNext(job.found, FAT12_EOF_MAX)
  /\ job' = [job EXCEPT !.pc = "enter"]

(* The sector of the directory with the entry, as it was read but for it.  *)
PutBack(entry) == [i \in Entries |-> IF i = job.entry THEN entry
                                     ELSE IF Sector(i) = Sector(job.entry) THEN job.buffer[i]
                                     ELSE root[i]]

(* and the directory is written.                                           *)
Enter ==
  /\ job.pc = "enter"
  /\ root' = PutBack([name |-> job.path, firstClusterLow |-> job.found, fileSize |-> 0])
  /\ job' = [job EXCEPT !.pc = "unsaved"]
  /\ UNCHANGED <<fat, data, stray>>

(* Mutant: a last block that is not full is left out.                      *)
BadWriting == job.pc = "write" /\ (job.block + 1) * Units <= Len(job.text)

Writing == job.pc = "write" /\ job.block * Units < Len(job.text)

AtEnd == job.cluster \in FAT12_EOF_MIN .. FAT12_EOF_MAX

(* The chain is too short: a cluster is found.  prevCluster is read before *)
(* it is written if there is no chain at all;                              *)
Extend ==
  /\ Writing /\ AtEnd
  /\ fat' = Marked
  /\ \E c \in IF job.block = 0 THEN Numbers ELSE {job.prev} :
       job' = [job EXCEPT !.pc = "link", !.found = FreeCluster, !.prev = c]
  /\ UNCHANGED <<root, data, stray>>

(* Mutant: the cluster is linked to itself, not to the one before.         *)
BadLink ==
  /\ job.pc = "link"
  /\ SetNext(job.found, job.found)
  /\ job' = [job EXCEPT !.pc = "seal"]

(* it is linked to the one before,                                         *)
Link ==
  /\ job.pc = "link"
  /\ SetNext(job.prev, job.found)
  /\ job' = [job EXCEPT !.pc = "seal"]

(* Mutant: the chain is not ended again.                                   *)
BadSeal ==
  /\ job.pc = "seal"
  /\ job' = [job EXCEPT !.pc = "write", !.cluster = job.found]
  /\ UNCHANGED <<fat, root, data, stray>>

(* and made the end of the chain.                                          *)
Seal ==
  /\ job.pc = "seal"
  /\ SetNext(job.found, FAT12_EOF_MAX)
  /\ job' = [job EXCEPT !.pc = "write", !.cluster = job.found]

(* The n-th block of the text; its last one is filled with what follows    *)
(* the text in memory.                                                     *)
TextBlock(n) == [u \in 1 .. Units |-> IF n * Units + u <= Len(job.text)
                                        THEN job.text[n * Units + u] ELSE Junk]

BlockDone ==
  \E next \in NextCluster(job.cluster) :
    job' = [job EXCEPT !.block = @ + 1, !.prev = job.cluster, !.cluster = next]

WriteBlock ==
  /\ Writing /\ ~AtEnd /\ job.cluster \in FileClusters
  /\ data' = [data EXCEPT ![job.cluster] = TextBlock(job.block)]
  /\ BlockDone
  /\ UNCHANGED <<fat, root, stray>>

(* Clusters 0 and 1 would be the sectors before the one of cluster 2, the  *)
(* last two of the directory.                                              *)
Overwritten(c) == {i \in Entries : Sector(i) = RootEntries \div SectorEntries - FirstData + c}

WriteAstray ==
  /\ Writing /\ ~AtEnd /\ job.cluster \notin FileClusters
  /\ stray' = TRUE
  /\ \E text \in [Overwritten(job.cluster) -> Readings] :
       root' = [i \in Entries |-> IF i \in DOMAIN text THEN text[i] ELSE root[i]]
  /\ BlockDone
  /\ UNCHANGED <<fat, data>>

(* Last of all, the size.                                                  *)
WriteSize ==
  /\ job.pc = "write" /\ ~Writing
  /\ root' = PutBack([job.buffer[job.entry] EXCEPT !.fileSize = Len(job.text)])
  /\ job' = [job EXCEPT !.pc = "saved"]
  /\ UNCHANGED <<fat, data, stray>>

WriteFile ==
  \/ Create \/ EndChain \/ Enter
  \/ Extend \/ Link \/ Seal \/ WriteBlock \/ WriteAstray \/ WriteSize

----------------------------------------------------------------------------
(* What a card should be.                                                  *)

DiskTypeOK ==
  /\ fat \in [Clusters -> ClusterValue]
  /\ root \in [Entries -> DirEntry]
  /\ data \in [FileClusters -> Block]
  /\ stray \in BOOLEAN

InUse == {i \in Entries : root[i].name \in Names}

DiskInit ==
  /\ \E card \in Images : fat = card.fat /\ root = card.root /\ data = card.data
  /\ stray = FALSE /\ job = NoJob
=============================================================================
