-------------------------------- MODULE Heap --------------------------------
(***************************************************************************)
(* The memory allocator (kernel/memory.c): one linked list of free blocks  *)
(* for each power of two, its nodes in the first bytes of the blocks.      *)
(*                                                                         *)
(* An address is an offset from KERNEL_DYNAMIC_START.  System calls, the   *)
(* timer interrupt and start-up run kmalloc and kfree undisturbed, as one  *)
(* action; the shell runs in user mode and calls kmalloc (through vfs_open *)
(* and vfs_write) with interrupts enabled, which is RaceSpec.              *)
(***************************************************************************)
EXTENDS Integers, Sequences, FiniteSets

CONSTANTS BlockNum,   \* BLOCK_NUM, blocks on each list (1024)
          Sizes       \* bound: the sizes asked for, out of 1 .. MAX_BLOCK

ASSUME BlockNumAssumption == BlockNum \in Nat /\ BlockNum >= 1

MAX_ORDER == 10
MIN_BLOCK == 64
MAX_BLOCK == 32768

ASSUME SizesAssumption == Sizes \subseteq 1 .. MAX_BLOCK

Order == 0 .. MAX_ORDER - 1
SizeOf(o) == MIN_BLOCK * 2 ^ o

VARIABLES
  head, tail,   \* [Order -> Block \cup {Null}]
  numFree,      \* [Order -> Int], num_free
  next,         \* [Block -> Block \cup {Null}], the node in a block
  grant,        \* [Block -> Nat], the size a block was given out for; 0 if free
  shell         \* the kmalloc the shell is in: its order, alloc_block and size

vars == <<head, tail, numFree, next, grant, shell>>

----------------------------------------------------------------------------
(* Where the blocks lie: the lists one after the other, smallest first.    *)
Base(o)     == MIN_BLOCK * BlockNum * (2 ^ o - 1)
BlocksOf(o) == {Base(o) + i * SizeOf(o) : i \in 0 .. BlockNum - 1}
Block       == UNION {BlocksOf(o) : o \in Order}
Null        == -1
Follows(b, c) == \E o \in Order : {b, c} \subseteq BlocksOf(o) /\ c = b + SizeOf(o)

(* ctz takes a uint8_t and counts its trailing zeros, none for 0.          *)
Byte(x) == x % 256
Ctz(x) == IF x = 0 THEN 0 ELSE CHOOSE k \in 0 .. 7 : x % 2 ^ k = 0 /\ (x \div 2 ^ k) % 2 = 1

(* Propagating the ones of n - 1 and adding one gives the power of two.    *)
PowerOfTwo(n) == CHOOSE p \in {2 ^ k : k \in 0 .. 15} : n <= p /\ p < 2 * n

BadFindOrder(n) == IF n <= MIN_BLOCK THEN 0 ELSE Ctz(Byte(PowerOfTwo(n) \div (2 * MIN_BLOCK)))
FindOrder(n) == IF n <= MIN_BLOCK THEN 0 ELSE Ctz(Byte(PowerOfTwo(n) \div MIN_BLOCK))

(* The loop adds up the lengths of the lists until it passes the address.  *)
FindSize(a) == SizeOf(CHOOSE o \in Order : a < Base(o + 1) /\ \A x \in 0 .. o - 1 : a >= Base(x + 1))

NotInKmalloc == [order |-> 0, block |-> Null, size |-> 0]

Init ==
  /\ head = [o \in Order |-> Base(o)]
  /\ tail = [o \in Order |-> Base(o + 1) - SizeOf(o)]
  /\ numFree = [o \in Order |-> BlockNum]
  /\ next = [b \in Block |-> IF \E o \in Order : b = Base(o + 1) - SizeOf(o)
                              THEN Null ELSE CHOOSE c \in Block : Follows(b, c)]
  /\ grant = [b \in Block |-> 0]
  /\ shell = NotInKmalloc

----------------------------------------------------------------------------
(* The tests of kmalloc that pass.                                         *)
Available(o) == numFree[o] > 0 /\ head[o] # Null

(* The rest of kmalloc, from the load of alloc_block->next on: unlink b,   *)
(* clear the block and with it the node, count.                            *)
BadTakeBlock(o, b, size) ==
  /\ head' = [head EXCEPT ![o] = next[b]]
  /\ tail' = IF next[b] = Null THEN [tail EXCEPT ![o] = Null] ELSE tail
  /\ next' = [next EXCEPT ![b] = Null]
  /\ grant' = [grant EXCEPT ![b] = size]
  /\ UNCHANGED numFree
TakeBlock(o, b, size) ==
  /\ head' = [head EXCEPT ![o] = next[b]]
  /\ tail' = IF next[b] = Null THEN [tail EXCEPT ![o] = Null] ELSE tail
  /\ next' = [next EXCEPT ![b] = Null]
  /\ numFree' = [numFree EXCEPT ![o] = @ - 1]
  /\ grant' = [grant EXCEPT ![b] = size]

Kmalloc(size) ==
  /\ Available(FindOrder(size))
  /\ TakeBlock(FindOrder(size), head[FindOrder(size)], size)
  /\ UNCHANGED shell

(* kfree of a block that is in use; callers are trusted with that.         *)
BadKfree(b) ==
  LET o == FindOrder(FindSize(b))
  IN /\ grant[b] # 0
     /\ IF head[o] = Null
        THEN head' = [head EXCEPT ![o] = b] /\ tail' = [tail EXCEPT ![o] = b]
             /\ next' = [next EXCEPT ![b] = Null]
        ELSE next' = [next EXCEPT ![b] = Null, ![tail[o]] = b] /\ UNCHANGED <<head, tail>>
     /\ numFree' = [numFree EXCEPT ![o] = @ + 1]
     /\ grant' = [grant EXCEPT ![b] = 0]
     /\ UNCHANGED shell
BadKfreeAtHead(b) ==
  LET o == FindOrder(FindSize(b))
  IN /\ grant[b] # 0
     /\ head' = [head EXCEPT ![o] = b]
     /\ next' = [next EXCEPT ![b] = head[o]]
     /\ tail' = IF head[o] = Null THEN [tail EXCEPT ![o] = b] ELSE tail
     /\ numFree' = [numFree EXCEPT ![o] = @ + 1]
     /\ grant' = [grant EXCEPT ![b] = 0]
     /\ UNCHANGED shell
Kfree(b) ==
  LET o == FindOrder(FindSize(b))
  IN /\ grant[b] # 0
     /\ tail' = [tail EXCEPT ![o] = b]
     /\ IF head[o] = Null
        THEN head' = [head EXCEPT ![o] = b] /\ next' = [next EXCEPT ![b] = Null]
        ELSE next' = [next EXCEPT ![b] = Null, ![tail[o]] = b] /\ UNCHANGED head
     /\ numFree' = [numFree EXCEPT ![o] = @ + 1]
     /\ grant' = [grant EXCEPT ![b] = 0]
     /\ UNCHANGED shell

Next == (\E size \in Sizes : Kmalloc(size)) \/ (\E b \in Block : Kfree(b))

Spec == Init /\ [][Next]_vars

(* The shell's kmalloc, interrupted between the load of head and the load  *)
(* of alloc_block->next.                                                   *)
ShellLoadsHead(size) ==
  /\ shell = NotInKmalloc
  /\ Available(FindOrder(size))
  /\ shell' = [order |-> FindOrder(size), block |-> head[FindOrder(size)], size |-> size]
  /\ UNCHANGED <<head, tail, numFree, next, grant>>

ShellTakesBlock ==
  /\ shell # NotInKmalloc
  /\ TakeBlock(shell.order, shell.block, shell.size)
  /\ shell' = NotInKmalloc

RaceSpec ==
  Init /\ [][Next \/ ShellTakesBlock \/ \E size \in Sizes : ShellLoadsHead(size)]_vars

----------------------------------------------------------------------------
(* Properties.                                                             *)

TypeOK ==
  /\ head \in [Order -> Block \cup {Null}]
  /\ tail \in [Order -> Block \cup {Null}]
  /\ numFree \in [Order -> 0 .. BlockNum]
  /\ next \in [Block -> Block \cup {Null}]
  /\ grant \in [Block -> Sizes \cup {0}]

(* The first num_free blocks on the list of an order.                      *)
Chain(o) ==
  LET node[i \in 1 .. BlockNum] ==
        IF i = 1 THEN head[o] ELSE IF node[i - 1] = Null THEN Null ELSE next[node[i - 1]]
  IN [i \in 1 .. numFree[o] |-> node[i]]

(* Nothing leaks and nothing is free twice: a list holds exactly the       *)
(* blocks of its size that are not in use, and ends where they end.  It    *)
(* rests on find_size and find_order sending a freed block back to the     *)
(* list it came from.                                                      *)
ListIsFreeBlocks ==
  \A o \in Order :
    LET c == Chain(o)
        f == {b \in BlocksOf(o) : grant[b] = 0}
    IN /\ Len(c) = Cardinality(f)
       /\ {c[i] : i \in DOMAIN c} = f
       /\ f = {} => head[o] = Null
       /\ f # {} => tail[o] = c[Len(c)] /\ next[tail[o]] = Null

(* The block given out is as large as asked for, and the smallest that is; *)
(* of sizes up to 8192, for the byte that ctz takes is 0 above.            *)
NearestBlock ==
  \A b \in Block : grant[b] # 0 =>
    /\ grant[b] <= FindSize(b)
    /\ FindSize(b) = MIN_BLOCK \/ FindSize(b) < 2 * grant[b]

Lists == INSTANCE FreeLists WITH
           free <- [o \in Order |-> Chain(o)],
           Initially <- [o \in Order |-> [i \in 1 .. BlockNum |-> Base(o) + (i - 1) * SizeOf(o)]]

(* The linked lists behave as queues: oldest block out, freed block last.  *)
ImplementsFreeLists == Lists!Spec

(* The block kmalloc returns has been removed from the free list: no one   *)
(* was given it since alloc_block was read.                                *)
NeverGivenTwice == [][ShellTakesBlock => grant[shell.block] = 0]_vars
=============================================================================
