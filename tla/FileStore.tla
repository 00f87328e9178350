------------------------------ MODULE FileStore ------------------------------
(***************************************************************************)
(* What the file calls promise.  A file is a text kept under its name.     *)
(* Opening it makes a copy, which is read and written in memory; closing   *)
(* it puts the copy in the file's place.  A loss of power loses the copies *)
(* and spoils the one file being put back, whose text is not to be relied  *)
(* on from then on; it touches no other.  But to put a spoiled file back   *)
(* once more may write over the others: then nothing is promised.          *)
(***************************************************************************)
EXTENDS Integers, Sequences, FiniteSets

CONSTANTS Names, Data,
          Absent,       \* no such file, or no copy of it
          Largest,      \* bound: the length of a text
          Capacity      \* files the directory has room for

VARIABLES contents,     \* [Names -> text or Absent], the files
          copy,         \* [Names -> text or Absent], the files open
          saving,       \* the file being put back, or Absent
          spoiled,      \* the files that a loss of power caught
          strayed       \* has one of them been written over the others?

vars == <<contents, copy, saving, spoiled, strayed>>

Init ==
  /\ \A n \in Names : contents[n] = Absent \/ contents[n] \in Seq(Data)
  /\ copy = [n \in Names |-> Absent] /\ saving = Absent /\ spoiled = {}
  /\ strayed = FALSE

Stored == {n \in Names : contents[n] # Absent}
Full == Cardinality(Stored) >= Capacity

(* Only the files of S are changed, and the spoiled ones stay where they   *)
(* are.                                                                    *)
Keeps(S) ==
  \A n \in Names \ S : IF n \in spoiled THEN contents'[n] = Absent <=> contents[n] = Absent
                                        ELSE contents'[n] = contents[n]

OpenFile(n) ==
  /\ copy[n] = Absent /\ contents[n] # Absent
  /\ copy' = [copy EXCEPT ![n] = contents[n]]
  /\ Keeps({}) /\ UNCHANGED <<saving, spoiled>>

(* A file opened for writing is made, if there is room for it.             *)
MakeFile(n) ==
  /\ contents[n] = Absent /\ ~Full
  /\ contents'[n] = <<>> /\ Keeps({n})
  /\ UNCHANGED <<copy, saving, spoiled>>

OpenNowhere(n) ==
  /\ copy[n] = Absent /\ contents[n] = Absent /\ Full
  /\ copy' = [copy EXCEPT ![n] = <<>>]
  /\ Keeps({}) /\ UNCHANGED <<saving, spoiled>>

(* Pieces are written over the text from some place on, or at its end.     *)
Overwrite(n, d) ==
  /\ copy[n] # Absent /\ n # saving
  /\ \E i \in 1 .. Len(copy[n]) + 1, l \in 1 .. Largest :
       copy' = [copy EXCEPT ![n] = [u \in 1 .. Len(@) \cup i .. l |->
                                      IF u \in i .. l THEN d ELSE @[u]]]
  /\ Keeps({}) /\ UNCHANGED <<saving, spoiled>>

Save(n) ==
  /\ copy[n] # Absent /\ saving = Absent
  /\ saving' = n
  /\ IF contents[n] = Absent THEN Full /\ Keeps({})
     ELSE contents'[n] = copy[n] /\ Keeps({n})
  /\ UNCHANGED <<copy, spoiled>>

Saved ==
  /\ saving # Absent
  /\ copy' = [copy EXCEPT ![saving] = Absent]
  /\ saving' = Absent
  /\ Keeps({}) /\ UNCHANGED spoiled

PowerCut ==
  /\ copy' = [n \in Names |-> Absent] /\ saving' = Absent
  /\ spoiled' = spoiled \cup ({saving} \ {Absent})
  /\ Keeps({saving})

Stray == saving \in spoiled /\ strayed'

Calls ==
  \/ \E n \in Names : OpenFile(n) \/ MakeFile(n) \/ OpenNowhere(n) \/ Save(n)
  \/ \E n \in Names, d \in Data : Overwrite(n, d)
  \/ Saved \/ PowerCut \/ (Keeps({}) /\ UNCHANGED <<copy, saving, spoiled>>)

Next == \/ ~strayed /\ ~strayed' /\ Calls
        \/ ~strayed /\ Stray
        \/ strayed /\ strayed'

Spec == Init /\ [][Next]_vars
=============================================================================
