------------------------------ MODULE FreeLists ------------------------------
(***************************************************************************)
(* What the allocator of kernel/memory.c promises: for each block size a   *)
(* queue of free blocks, from which kmalloc takes the oldest and to which  *)
(* kfree appends.                                                          *)
(***************************************************************************)
EXTENDS Sequences

CONSTANTS Order,      \* the block sizes
          Initially   \* [Order -> Seq(block)], the queues after init_alloc

VARIABLE free         \* [Order -> Seq(block)]

Init == free = Initially

Take(o) == free[o] # <<>> /\ free' = [free EXCEPT ![o] = Tail(@)]

(* A block comes back to the queue it was taken from.                      *)
Give(o, b) ==
  /\ \E i \in DOMAIN Initially[o] : Initially[o][i] = b
  /\ \A i \in DOMAIN free[o] : free[o][i] # b
  /\ free' = [free EXCEPT ![o] = Append(@, b)]

Next == \E o \in Order : Take(o) \/ \E i \in DOMAIN Initially[o] : Give(o, Initially[o][i])

Spec == Init /\ [][Next]_free
=============================================================================
