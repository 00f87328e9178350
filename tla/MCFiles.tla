------------------------------- MODULE MCFiles -------------------------------
(* Files for TLC: the cards it is started with.                            *)
EXTENDS Files

CONSTANTS a, b, c, d, e, x, y

Empty == [name |-> EndMark, firstClusterLow |-> 0, fileSize |-> 0]
Gone == [Empty EXCEPT !.name = Deleted]
File(name, k) == [name |-> name, firstClusterLow |-> k, fileSize |-> Units]

(* mkfs.fat puts the mark of the medium into the first entry of the table. *)
Table(used) == [k \in Clusters |-> IF k = 0 THEN 4080 ELSE IF k = 1 \/ k \in used
                                     THEN FAT12_EOF_MAX ELSE FAT12_UNUSED]
Text(k, used) == [n \in FileClusters |-> [u \in 1 .. Units |->
                    IF n = k THEN x ELSE IF n \in used THEN y ELSE Junk]]

(* One file of one full cluster, and an entry left by a deleted file.      *)
OneFile == [fat |-> Table({2}), data |-> Text(2, {}),
            root |-> <<Gone, File(a, 2), Empty, Empty>>]

(* A file in every entry of the directory.                                 *)
FullDirectory ==
  [fat |-> Table(2 .. 5), data |-> Text(3, 2 .. 5),
   root |-> <<File(c, 2), File(a, 3), File(d, 4), File(e, 5)>>]

(* A file was deleted from the card: clusters 2 and 3 are free, 4 is not.  *)
WithAHole == [fat |-> Table({4}), data |-> Text(4, {}),
              root |-> <<Gone, File(a, 4), Empty, Empty>>]
HoledImages == {WithAHole}

MCImages == {OneFile, FullDirectory}
ASSUME ImagesAreSound ==
  /\ SoundCard(OneFile, <<<<>>, <<2>>, <<>>, <<>>>>)
  /\ SoundCard(FullDirectory, <<<<2>>, <<3>>, <<4>>, <<5>>>>)
MCShortFor == {}

(* Text that is written over the directory ends a sector of it, or reads   *)
(* as a file in the clusters of another.                                   *)
MCReadings == {Empty, File(b, 3)}
MCNumbers == {0, 3, FAT12_EOF_MAX}
=============================================================================
