----------------------------- MODULE BlockStore ------------------------------
(***************************************************************************)
(* What the SD card driver promises: one call at a time, which reads or    *)
(* writes one whole block at one moment between its start and its return.  *)
(***************************************************************************)
CONSTANTS Blocks, Contents, None

VARIABLES memory,    \* [Blocks -> Contents]
          call,      \* the call in progress, or None
          done,      \* has it read or written?
          buf        \* what the last read has read

vars == <<memory, call, done, buf>>

Calls == [op : {"read"}, block : Blocks] \cup [op : {"write"}, block : Blocks, value : Contents]

Init == memory \in [Blocks -> Contents] /\ call = None /\ ~done

Begin(c) ==
  /\ call = None
  /\ call' = c /\ done' = FALSE /\ UNCHANGED <<memory, buf>>

Read ==
  /\ call # None /\ ~done /\ call.op = "read"
  /\ buf' = memory[call.block] /\ done' = TRUE /\ UNCHANGED <<memory, call>>

Write ==
  /\ call # None /\ ~done /\ call.op = "write"
  /\ memory' = [memory EXCEPT ![call.block] = call.value]
  /\ done' = TRUE /\ UNCHANGED <<call, buf>>

Return ==
  /\ call # None /\ done
  /\ call' = None /\ done' = FALSE /\ UNCHANGED <<memory, buf>>

Next == Read \/ Write \/ Return \/ \E c \in Calls : Begin(c)

Spec == Init /\ [][Next]_vars
=============================================================================
