-------------------------------- MODULE Files --------------------------------
(***************************************************************************)
(* Open files: the table of filesystem/vfs.c over the descriptors of       *)
(* filesystem/fs.c over the card of Fat12.                                 *)
(*                                                                         *)
(* Every caller (cat and write of the shell, f_exec) names its file under  *)
(* /home; the mount point and the path to it are left out.  One call is    *)
(* made at a time: the shell sleeps while another process runs, and the    *)
(* timer interrupt uses no file.  A call that is refused changes nothing   *)
(* and is not an action.                                                   *)
(***************************************************************************)
EXTENDS Fat12, FiniteSets

CONSTANTS NULL, MaxOpenedFiles,    \* MAX_OPENED_FILES (16)
          Input,                   \* what the callers write, of Data
          Counts, Offsets,         \* how much at a time, and where they seek
          MaxSize,                 \* bound: pieces of text in a file
          MaxCuts,                 \* bound: losses of power in a behaviour
          MaxOpenAfterCut          \* bound: files open at a time after one

ASSUME FilesAssumption ==
  /\ MaxOpenedFiles \in Nat \ {0} /\ MaxSize \in Nat
  /\ MaxCuts \in Nat /\ MaxOpenAfterCut \in Nat
  /\ Input \subseteq Data /\ Counts \subseteq Nat /\ Offsets \subseteq Nat
  /\ \A entry \in Readings : entry.fileSize <= MaxSize

Slots == 0 .. MaxOpenedFiles - 1
O_READ == "read"
O_WRITE == "write"
Flags == {{O_READ}, {O_WRITE}}    \* what cat and f_exec, and what write open with

VARIABLES
  vfs_openFiles,    \* [Slots -> descriptor or NULL]
  openCount,
  call,             \* the vfs_open or vfs_close that waits for the card
  cuts,             \* losses of power so far
  caught            \* the files they caught being closed

power == <<cuts, caught>>
vars == <<disk, job, vfs_openFiles, openCount, call, power>>

NoCall == [op |-> "none", path |-> Junk, flags |-> {}, slot |-> 0]

Texts == UNION {[1 .. n -> Data \cup {Junk}] : n \in 0 .. MaxSize}

(* A descriptor; file_buffer and file_size are its text.                   *)
Descriptor == [file_name : Names, flags : Flags,
               read_offset : 0 .. MaxSize, write_offset : 0 .. MaxSize, text : Texts]

ASSUME NullAssumption == NULL \notin Names \cup Texts \cup Descriptor

Opened == {s \in Slots : vfs_openFiles[s] # NULL}

TypeOK ==
  /\ DiskTypeOK /\ JobTypeOK
  /\ vfs_openFiles \in [Slots -> Descriptor \cup {NULL}]
  /\ openCount = Cardinality(Opened)
  /\ call.op \in {"none", "open", "close"}
  /\ (call.op = "none") = (job.pc = "idle")
  /\ cuts \in 0 .. MaxCuts /\ caught \subseteq Paths

Init == DiskInit
        /\ vfs_openFiles = [s \in Slots |-> NULL] /\ openCount = 0
        /\ call = NoCall /\ cuts = 0 /\ caught = {}

----------------------------------------------------------------------------

MayOpen == /\ call.op = "none" /\ openCount # MaxOpenedFiles
           /\ cuts > 0 => openCount < MaxOpenAfterCut

AlreadyOpen(path) == \E s \in Opened : vfs_openFiles[s].file_name = path

NewDescriptor(path, flags, text) ==
  [file_name |-> path, flags |-> flags, read_offset |-> 0, write_offset |-> 0, text |-> text]

(* The last part of vfs_open: the first free place is taken.               *)
(* Mutant: the first place is taken, free or not.                          *)
BadInstall(fd) ==
  /\ vfs_openFiles' = [vfs_openFiles EXCEPT ![0] = fd]
  /\ openCount' = openCount + 1

Install(fd) ==
  /\ vfs_openFiles' = [vfs_openFiles EXCEPT ![First(Slots \ Opened)] = fd]
  /\ openCount' = openCount + 1

OpenFound(path, flags) ==
  /\ MayOpen /\ Find(path) # 0 /\ ~AlreadyOpen(path)
  /\ Install(NewDescriptor(path, flags, FileText(Find(path))))
  /\ UNCHANGED <<disk, job, call, power>>

(* fat12_open makes the file before vfs_open looks whether it is open.     *)
OpenCreates(path, flags) ==
  /\ MayOpen /\ Find(path) = 0 /\ O_WRITE \in flags
  /\ job' = NewJob(path, <<>>)
  /\ call' = [NoCall EXCEPT !.op = "open", !.path = path, !.flags = flags]
  /\ UNCHANGED <<disk, vfs_openFiles, openCount, power>>

(* It does not look at what fat12_write_file returned.                     *)
OpenReturns ==
  /\ call.op = "open" /\ job.pc \in {"saved", "unsaved"}
  /\ IF AlreadyOpen(call.path) THEN UNCHANGED <<vfs_openFiles, openCount>>
     ELSE Install(NewDescriptor(call.path, call.flags, <<>>))
  /\ job' = NoJob /\ call' = NoCall
  /\ UNCHANGED <<disk, power>>

(* The whole text is written back, whatever the flags.                     *)
Close(s) ==
  /\ call.op = "none" /\ s \in Opened
  /\ job' = NewJob(vfs_openFiles[s].file_name, vfs_openFiles[s].text)
  /\ call' = [NoCall EXCEPT !.op = "close", !.slot = s]
  /\ UNCHANGED <<disk, vfs_openFiles, openCount, power>>

(* fat12_close returns 0 also when the text was not written.               *)
CloseReturns ==
  /\ call.op = "close" /\ job.pc \in {"saved", "unsaved"}
  /\ vfs_openFiles' = [vfs_openFiles EXCEPT ![call.slot] = NULL]
  /\ openCount' = openCount - 1
  /\ job' = NoJob /\ call' = NoCall
  /\ UNCHANGED <<disk, power>>

Read(s, bytes) ==
  /\ call.op = "none" /\ s \in Opened
  /\ LET fd == vfs_openFiles[s]
         size == Len(fd.text)
     IN /\ O_READ \in fd.flags /\ fd.read_offset < size
        /\ vfs_openFiles' = [vfs_openFiles EXCEPT ![s].read_offset =
                               IF @ + bytes < size THEN @ + bytes ELSE size]
  /\ UNCHANGED <<disk, job, openCount, call, power>>

(* The bytes are put at the offset; a larger buffer takes the place of the *)
(* old one when they end past the file.                                    *)
Write(s, d, bytes) ==
  /\ call.op = "none" /\ s \in Opened
  /\ LET fd == vfs_openFiles[s]
         end == fd.write_offset + bytes
         size == IF end > Len(fd.text) THEN end ELSE Len(fd.text)
     IN /\ O_WRITE \in fd.flags /\ end <= MaxSize
        /\ vfs_openFiles' = [vfs_openFiles EXCEPT
             ![s].text = [u \in 1 .. size |-> IF u \in fd.write_offset + 1 .. end THEN d
                                              ELSE IF u <= Len(@) THEN @[u] ELSE Junk],
             ![s].write_offset = end]
  /\ UNCHANGED <<disk, job, openCount, call, power>>

Clamp(offset, fd) == IF offset > Len(fd.text) THEN Len(fd.text) ELSE offset

(* The offset that the mode of the descriptor uses.                        *)
Seek(s, offset, mode) ==
  /\ call.op = "none" /\ s \in Opened /\ mode = vfs_openFiles[s].flags
  /\ vfs_openFiles' = [vfs_openFiles EXCEPT
       ![s].read_offset = IF O_READ \in mode THEN Clamp(offset, vfs_openFiles[s]) ELSE @,
       ![s].write_offset = IF O_WRITE \in mode THEN Clamp(offset, vfs_openFiles[s]) ELSE @]
  /\ UNCHANGED <<disk, job, openCount, call, power>>

CardStep == WriteFile /\ UNCHANGED <<vfs_openFiles, openCount, call, power>>

Saving == IF call.op = "close" THEN vfs_openFiles[call.slot].file_name ELSE NULL

(* Memory is lost and the system starts again from the card.               *)
PowerCut ==
  /\ cuts < MaxCuts
  /\ cuts' = cuts + 1
  /\ vfs_openFiles' = [s \in Slots |-> NULL] /\ openCount' = 0
  /\ job' = NoJob /\ call' = NoCall
  /\ caught' = caught \cup ({Saving} \ {NULL})
  /\ UNCHANGED disk

Next ==
  \/ \E path \in Paths, flags \in Flags : OpenFound(path, flags) \/ OpenCreates(path, flags)
  \/ \E s \in Slots : \/ Close(s)
                      \/ \E bytes \in Counts : \/ Read(s, bytes)
                                               \/ \E d \in Input : Write(s, d, bytes)
                      \/ \E offset \in Offsets, mode \in Flags : Seek(s, offset, mode)
  \/ OpenReturns \/ CloseReturns \/ CardStep \/ PowerCut

Spec == Init /\ [][Next]_vars

----------------------------------------------------------------------------
(* Properties.                                                             *)

(* A card as mkfs and copying files to it leave it: the unused clusters    *)
(* are the last ones, and the text of each file i is in the clusters       *)
(* chain[i], which belong to no other.                                     *)
SoundCard(card, chain) ==
  LET used == {i \in Entries : card.root[i].name \in Names}
  IN /\ card.fat \in [Clusters -> ClusterValue]
     /\ card.root \in [Entries -> DirEntry] /\ card.data \in [FileClusters -> Block]
     /\ \E k \in 1 .. LastCluster + 1 :
          {n \in Clusters : card.fat[n] = FAT12_UNUSED} = k .. LastCluster
     /\ chain \in [Entries -> Seq(FileClusters)]
     /\ \A i \in Entries : card.root[i].fileSize <= MaxSize
     /\ \A i \in used :
          /\ chain[i] # <<>> /\ chain[i][1] = card.root[i].firstClusterLow
          /\ \A m \in 1 .. Len(chain[i]) - 1 : card.fat[chain[i][m]] = chain[i][m + 1]
          /\ IsEnd(card.fat[chain[i][Len(chain[i])]])
          /\ card.root[i].fileSize <= Units * Len(chain[i])
          /\ \A u \in 0 .. card.root[i].fileSize - 1 :
               card.data[chain[i][(u \div Units) + 1]][(u % Units) + 1] \in Data
          /\ \A j \in 1 .. i : card.root[j].name # EndMark
     /\ \A i, j \in used :
          /\ card.root[i].name = card.root[j].name => i = j
          /\ \A m \in 1 .. Len(chain[i]), n \in 1 .. Len(chain[j]) :
               chain[i][m] = chain[j][n] => i = j /\ m = n

(* The cluster that find_free_cluster gives out was in no one's use.  It   *)
(* marks another one than it returns (fat12.c:385); on a card whose files  *)
(* were copied to it one after the other the two are both free, until a    *)
(* block is written where it does not belong.                              *)
GivesFreeCluster ==
  [][~stray /\ job'.found \in Clusters \ {0, job.found}
       => fat[job'.found] = FAT12_UNUSED]_vars

(* No two files share a cluster, whatever was made, extended or cut off,   *)
(* until a block is written where it does not belong.                      *)
NoSharedCluster ==
  ~stray => \A i, j \in InUse : i # j =>
    ChainOf(root[i].firstClusterLow) \cap ChainOf(root[j].firstClusterLow) = {}

(* The size of a file never promises more than its chain holds, also on    *)
(* the card that a loss of power leaves: the size is written last.         *)
SizeIsCovered ==
  ~stray => \A i \in InUse :
    root[i].fileSize <= Units * Cardinality(ChainOf(root[i].firstClusterLow))

(* A block is written where it does not belong only when power was lost    *)
(* while a file was closed: a chain cut between Link and Seal leads to an  *)
(* unused entry, whose 0 write_file takes for a cluster (fat12.c:585).  Of *)
(* a card with room: find_free_cluster returns numbers beyond the last     *)
(* cluster when only the last two are unused.                              *)
NoStrayWrites == caught = {} /\ FreeCluster \in Clusters => ~stray

(* Every file is listed and under one name once, though vfs_open makes a   *)
(* file before it looks whether the name is open already, and entries are  *)
(* reused by a loop that does not ask where the directory ends; until a    *)
(* block is written over the directory.                                    *)
NamesListedOnce ==
  ~stray => /\ InUse \subseteq Listed
            /\ \A i, j \in InUse : root[i].name = root[j].name => i = j

Store == INSTANCE FileStore WITH
  Absent <- NULL,
  Capacity <- RootEntries,
  Largest <- MaxSize,
  contents <- [n \in Names |-> IF Find(n) = 0 THEN NULL
                               ELSE IF n = Saving THEN vfs_openFiles[call.slot].text
                               ELSE FileText(Find(n))],
  copy <- [n \in Names |-> IF AlreadyOpen(n)
                             THEN (CHOOSE fd \in {vfs_openFiles[s] : s \in Opened} :
                                     fd.file_name = n).text
                             ELSE NULL],
  saving <- Saving,
  spoiled <- caught,
  strayed <- stray

(* The files behave as texts kept under their names: what was closed is    *)
(* what is opened, and power lost spoils the file being closed, no other.  *)
(* The others are safe until a spoiled file is itself closed again, whose  *)
(* chain may lead into the directory (fat12.c:595).                        *)
ImplementsFileStore == Store!Spec
=============================================================================
