# A verification development for BuddyOS

TLA+ modules, TLC configurations and TLAPS proofs for BuddyOS, a small
operating system for the BeagleBone Black. Paths below are relative to `src/`.

    tlc -workers 2 -config MCSched.cfg MCSched      # a run
    tlapm SchedProofs.tla                           # the proofs of a module

## 1. The system

One core, one address space, no memory protection. The kernel masks interrupts;
user programs, the shell among them, run with interrupts enabled.

| part | state | operations | source |
|---|---|---|---|
| process table, scheduler | `PROC_TABLE`, `ready_queue`, `current_process` | `init_process`, `create_process`, `fork`, `f_exec`, `kexit`, `block`, `wake_proc`, `schedule` | `kernel/sched/proc.c`, `dispatcher.c` |
| dispatcher, traps | `trap_reason`, `started`, `quantum_elapsed`, saved registers | `dispatcher`, `execute_syscall`, `svc_handler`, `interrupt_handler`, the switches | `kernel/sched/`, `kernel/interrupt/` |
| send/receive/reply | one mailbox per process: letters, `sent_to`, one reply | `send`, `send_end`, `receive`, `receive_end`, `reply`, `msg_waiting` | `kernel/srr_ipc.c`, `kernel/syscall.c` |
| memory allocator | ten lists of free blocks, nodes inside the blocks | `init_alloc`, `kmalloc`, `kfree` | `kernel/memory.c` |
| sockets | `socket_table`, each with up to ten packets | `socket`, `socket_bind`, `socket_free`, `socket_poll`, `socket_recv`, `socket_store` | `net/socket.c` |
| transmit queue | `transmit_que`, up to ten requests | `transmit_request`, `transmit`, `timer_net_isr` | `drivers/net.c` |
| protocols | none | `eth_`, `arp_`, `ipv4_`, `icmp_`, `udp_` recv and transmit | `net/` |
| Ethernet driver | a chain of receive descriptors and one for transmission, shared with the controller | `cpsw_init`, `cpsw_recv`, `cpsw_transmit` | `drivers/cpsw.c`, `phy.c` |
| file system | allocation table, root directory and clusters on the card; open descriptors with the whole text in memory | `vfs_open`, `vfs_read`, `vfs_write`, `vfs_seek`, `vfs_close`, `fat12_read_file`, `fat12_write_file` | `filesystem/` |
| card driver | controller registers, the state of the card | `initMMCdriver`, `mmcCMD`, `MMCreadblock`, `MMCwriteblock` | `drivers/mmc.c` |
| shell | a command line | `cat`, `write`, `exec`, `ls`, `ping` | `kernel/shell.c` |
| start-up, board, console, timer, boot | device registers | | `kernel/main.c`, `arch/`, `bootloader/` |
| user programs | | producer, consumer, chat | `user/` |

How they meet. A system call traps into `svc_handler`, which switches to the
dispatcher; it runs `execute_syscall`, reschedules when the caller blocked, and
switches into `current_process`. The timer interrupt counts down the quantum
and, before that, takes received frames up the protocol stack into sockets and
sends what is queued. The IPC calls act on the scheduler through `block` and
`wake_proc`. Sockets, protocols, IPC, `f_exec` and the file system all allocate
with `kmalloc`. The shell calls `vfs_*` and `icmp_echo_request` directly, in
user mode, with interrupts enabled: everything else that touches kernel data
does so with interrupts masked.

What is hard: a context switch at any tick between the two system calls of a
`__send` or a `__receive`; wakes of processes that are asleep for another
reason; slots of the process table reused while their pid is still known
elsewhere; two exits, a wake and a rotation in the order the code makes them;
fixed arrays at their limit; requests that name state which changes before they
are served; the shell interrupted inside the allocator; a controller that fills
descriptors while the driver takes them, stops at the end of the chain and
starts again; commands to the card that are refused, lost or answered late, with
one status register for all of it; power lost between two of the writes that
make up one save; and chains on disk that must survive an allocation scan that
is off by two. `PROJECT.json` lists these
under `hazards`, each at its line.

What makes each part correct:

- scheduler: the ready queue is exactly the READY processes; what `block` and
  `kexit` take off it is the current process; whatever is chosen can be
  resumed; the null process runs only when nothing else can; everyone runs.
- messages: no lost wakeup, no sleep without a way to be answered, no two
  processes waiting for each other; for programs that keep to a role, a remote
  procedure call.
- allocator: no block given out twice or lost, the block at least as large as
  asked, and the smallest such.
- sockets: packets within the array, none of another owner, frames freed once,
  datagrams sent where asked.
- Ethernet: every frame stored is handled once and in order; the controller
  never meets a frame not yet handled, nor the driver one being filled; a buffer
  is not touched while it is transmitted; the interrupt ends and reception goes
  on.
- card driver: no old status bit is taken for the end of a new command; blocks
  are read and written whole, once, between call and return; every wait ends.
- file system: what was closed is what is opened; a loss of power spoils the
  file being closed and no other, until a spoiled file is itself closed again;
  files share no cluster; a size never promises more than the chain holds; a
  name is listed once.

## 2. Modules

    Sched  <-- SrrIpc <-- SrrRpc        --refines-->  Rpc
    Heap                                --refines-->  FreeLists
    Sockets
    Cpsw, Protocols  <-- Net            --refines-->  FrameQueue
    Fat12  <-- Files                    --refines-->  FileStore
    Card                                --refines-->  BlockStore

    SchedProofs <-- SrrProofs <-- RpcProofs
    HeapProofs    SocketProofs    NetProofs    CardProofs    FilesProofs

`<--` is EXTENDS, a `...Proofs` module extends the module it is about.
`MC...` modules add to a module only what TLC needs (a view, symmetry); the
`.cfg` files give the constants. An operator named `Bad...` is a seeded fault,
a form of the definition after it that a run must reject; no specification uses
one.

**Sched** (`kernel/sched/proc.c`, `dispatcher.c`, the timer half of
`interrupt/k_intr.c`). `pcb` holds the scheduling fields of each PCB,
`readyQueue` the pids linked through `sched_node`, `current` the running
process. Because the kernel masks interrupts, a whole trap is one action: the
entry, the system call, the dispatcher's test and the switch into whatever it
selects. `Tick` and `Preempt` are the two outcomes of the timer, `Yield`,
`Fork`, `Exec` and `Exit` the calls, and `BlockSelf`, `WakeAndBlock` and `Wake`
what IPC does to the scheduler. `quantum_elapsed` is set and cleared inside one
trap and is not a variable. A null-priority process is never queued, as in
`init_process`.

**SrrIpc** (`kernel/srr_ipc.c`, `kernel/syscall.c`) adds the mailboxes and the
place each process is at in its wrapper: `__send` is `Send` then `SendEnd`,
`__receive` is `Receive` then `ReceiveEnd`, with anything in between. A letter
and a reply are their author's pid. A call that is refused with an error code
changes nothing and is no step. `SendToUnused` is the send to a slot that never
held a process, whose list pointers are null: nothing is claimed after it. When
the shell's slot dies and is reused, `shellLives` says that slot 1 no longer
behaves as the shell.

**SrrRpc** puts the programs of `user/process1.c` and `process2.c` on SrrIpc,
with loops that do not end and several producers, and **Rpc** says what they
should see: a client's request is idle, queued, served, answered. The
refinement maps `queue` to the consumer's mailbox and a client's phase to where
its letter or reply is.

**Heap** (`kernel/memory.c`) has the linked lists as the code has them, `head`,
`tail`, `num_free` and a `next` in each block, with addresses computed as the
code lays them out and `find_order`, `ctz` and `find_size` as integer functions
with `ctz`'s byte truncation. `grant` remembers what each block was asked for.
**FreeLists** is a queue per block size. `RaceSpec` adds the shell's `kmalloc`
in user mode, interrupted once, between the loads of `head` and of `next`.

**Sockets** (`net/socket.c`, `drivers/net.c`, the socket cases of
`execute_syscall`). A call is one action, `Timer` is `timer_net_isr`: at most
one datagram is delivered, then every queued request is sent. `own`, `polled`
and `boundTo` are about the processes, not the kernel: which sockets each
opened, in which its last poll saw a packet, on which ports a socket has
listened since it was opened. Programs use their own sockets and poll before
they receive, as `user/schat` does.

**Cpsw** (`drivers/cpsw.c`) has the descriptors: for each of the receive chain
whether it is the controller's and what its buffer holds, the registers
`RX0_HDP` (`hdp`), `RX0_CP` (`lastDone`), the two raw interrupt states, the
driver's `rxch.free`, and the buffer being transmitted. The controller is
external, written from what the driver relies on: it fills descriptors in order,
loses a frame when it has stopped, and keeps its status up until the descriptor
it completed last is acknowledged. **Protocols** (`net/*.c`) has the frames as
records of what a handler decides by, and what each transmit function makes of
its arguments. **Net** is the code that runs over them, `init_network_stack`
and then `timer_net_isr`: `cpsw_recv` with the handlers it calls one inside the
other, each of which may transmit and wait, then the transmit queue. `pc` says
where the kernel is, `start` is `cpsw_recv`'s variable, `task` what
`cpsw_transmit` was called for. The controller acts between any two steps, so a
frame may arrive while another is handled, answered or given back.
**FrameQueue** is a bounded queue of frames.

**Card** (`drivers/mmc.c`) is `initMMCdriver`, `mmcCMD` and the two transfer
loops, against a controller and a card that are external: a card accepts a
command in some of its states only, is busy after some, and may have kept its
power when the board was reset; noise spoils up to `MaxNoise` commands. A
transfer's words are copied in one step, and a read's transfer is complete with
its last word (otherwise the loop would take a buffer that is still ready and
copy another 128 words past the caller's, `mmc.c:755`). **BlockStore** is an
array of blocks with one call at a time.

**Fat12** (`filesystem/fat12.c`) is the card as its allocation table, root
directory and clusters, and `fat12_write_file` as one step for each block
written to it. `FreeCluster` and `Marked` are the two halves of
`fat12_find_free_cluster` as it is: the entry marked is the first unused one,
the number returned is two above it. The table is within one sector; the
directory has several, of `SectorEntries` each, because an entry never used ends
the search of its own sector only, and because clusters 0 and 1, to which a
spoiled chain leads, are its last two sectors (`Overwritten`). `WriteAstray` is
the write of a block to a number that is no cluster of a file, which replaces
the entries of such a sector; `SetNext` outside the table changes a sector of the
directory, of a file or one that nobody reads. Either sets `stray`. What the bytes
written there read as afterwards depends on the text, so it is a choice: an entry
becomes one of `Readings`, a piece of text `Junk`, and a number read from outside
the table is one of `Numbers`. **Files** (`filesystem/vfs.c`, `fs.c`) is
the table of open files over it; `job` is the call of `fat12_write_file` in
progress, `call` the `vfs_open` or `vfs_close` that waits for it. `PowerCut`
keeps the card and loses everything else. **FileStore** says what should be
seen: texts under names, a copy of each open one, and after a loss of power one
file, the one being closed, whose text is not to be relied on. It stays
unreliable (`spoiled`): a chain cut off between `Link` and `Seal` leads to an
unused entry, and a later save of that file follows its 0 to cluster 0 and writes
text over the directory. FileStore says so: while a spoiled file is being put
back, and only then, the store may turn `strayed`, after which nothing is
promised (`Stray`).

## 3. Runs

| run | bounds | shows |
|---|---|---|
| `sched` | 4 processes, quantum 3 | seven properties of the scheduler |
| `sched_starvation` | 4, quantum 2 | round robin is not fair when processes exit |
| `srr` | 4 processes, 2 letters, quantum 1 | no lost wakeup, no mutual wait, answerable senders, shell heard |
| `srr_stale_reply` | 4, 1 letter | what a comment of `srr_ipc.c` promises and the code does not keep |
| `rpc` | 6 processes: 3 producers, quantum 2, 3 letters | SrrRpc implements Rpc, with its fairness |
| `heap` | 3 blocks per size, sizes 64, 65, 8192 | lists are queues of the free blocks; nearest block |
| `heap_race` | 3 blocks, sizes 64, 65 | a block given out twice |
| `sockets` | 2 processes, 2 ports, 2 sockets, 2 packets, 2 requests, 1 refusal | queues in bounds, no leftovers, frames accounted |
| `net` | 3 descriptors, 2 requests, 4 kinds of frames | Net implements FrameQueue; buffers in flight are held; answers go back; the interrupt ends and reception goes on |
| `card` | 2 blocks, 2 contents, 2 spoiled commands | Card implements BlockStore; the status is fresh; start and calls end |
| `files` | 2 units per cluster, last cluster 16, files of up to 6 units, 4 entries in 2 sectors, 2 open files, 1 loss of power, 1 file open after it, 2 readings, 3 numbers, cards `OneFile` and `FullDirectory` | Files implements FileStore; no file's cluster is another's, no stray write without a cut, sizes covered, names listed once |
| `files_hole` | the same, card `WithAHole` | `find_free_cluster` gives out a cluster in use |

Why the bounds are enough. Four slots are the null process, the shell and two
more, so that two user processes can send to each other, exit, and have their
slots reused by each other's children; six give the consumer three clients. The
code compares a quantum only with zero, and a quantum of 3 has a first, a middle
and a last tick; with a quantum of 1 (`srr`) every tick preempts, which is every
interleaving of calls. A mailbox of 2 has an empty, a middle and a full state;
in the code it has no limit, and a send to a full one is simply not taken. Block
sizes differ only by their order: three blocks make a list with a head, a middle
and a tail, and the sizes are those at which `find_order` changes branch. Arrays
of 2 in Sockets are empty, in between and full; 2 sockets make "first free"
matter. `MaxLost` bounds refused requests only so that frames stay finite.
Three descriptors have a first, a middle and a last one, so that the driver can
be at each while the controller is ahead, stopped or at the head again; the four
frames are one for each way through the handlers (an ARP request for the board
and one for another host, an echo request, a datagram). Two spoiled commands
include one during the retries of another. Files of up to 3 clusters have a
first, an inner and a last extension, with the last block full and not full;
writes are of 3 units, which do not fit a cluster, and a seek goes back to the
start. `LastCluster` leaves room for all that two files take: with only the last
two entries of the table unused `fat12_find_free_cluster` returns numbers beyond
the card, with none 0xFFFF, and `fat12_write_file` uses either (`fat12.c:414`).
One loss of power, and one file open after it, bound the number of cards. Two
sectors of two entries put clusters 0 and 1 each on one of them and let a search
go on in the second sector after the first has ended; a full directory has four
files. A sector written over reads as an entry never used or as a file in the
clusters of another (`MCReadings`); a number read outside the table is 0, a
cluster in use or an end mark (`MCNumbers`). The cards have in entry 0 of the
table what `mkfs.fat` puts there, 0xFF0, which is neither an end mark nor a
cluster.

Views. `srr` tells states apart by what its guards and invariants read: the
fields `started` and `trapReason`, authors of letters and replies, and parents
other than the shell are left out. `sockets` leaves out slots of `data` at or
beyond `packets_pending`, which are written before they are read, and uses the
symmetry of processes and of ports. No liveness is checked under either; `net`,
`card` and `files` use neither.

Fairness. `FairSched` assumes only that the timer goes on interrupting. `rpc`
assumes that, and strong fairness of each program: a program that is given the
processor again and again reaches its next call. Weak fairness would not do,
since the timer takes the processor away between any two calls. No fairness is
assumed of exits, of replies by other programs or of received packets. `net`
assumes that the kernel's code runs on (`DriverStep`, `PhyInit \/ Ready`), that
the timer ticks again and that a transmission ends; never that a frame arrives
or that none does, which is what makes `IsrEnds` a question: it holds because a
chain is handled once per interrupt. `card` assumes that the driver polls, that
the controller finishes what it was asked for and reports a command answered or
not (`Answer \/ Refuse`, so never that a command succeeds), and that the card
powers up and goes on. Without a card, `poweronSD` waits for ever; that is left
out. `files` is about safety only.

Stopping. Deadlock is checked in every run but `card`; the timer, or in Heap an
allocation or a free, is always possible. The card driver really stops: a CMD17
or CMD24 that is not answered is not looked at, and the loop after it waits for
a transfer that never starts (`mmc.c:720`, `753`). `StartAndCallsEnd` says that
nothing else stops it.

### Disagreements between code and text

1. `sched_starvation`: the EXIT case calls `schedule` after `kexit` has already
   popped the queue, so it rotates a process that has not run. `fork` and `exit`
   in step can keep another READY process from running for ever. Once exits
   cease, everyone runs (`ReadyRunsOnceExitsCease`, in `sched`).
2. `srr_stale_reply`: a letter wakes a process asleep in `__send`, which returns
   -ENOMSG; the late reply is then taken by a later `__send` to someone else.
3. `heap_race`: the shell and the network interrupt are given the same block.
4. `files_hole`: `fat12_find_free_cluster` returns a cluster it did not mark. On
   a card whose files were copied to it one after the other both are free; once
   a file has been deleted elsewhere it can be another file's.

A fifth has no run of its own. `ctz` takes a byte (`memory.c:115`), so `find_order`
returns 0 for requests above 8192 bytes and they are given a block of 64; the
documentation (Memory, p. 7) promises "the nearest power of two that is greater
than or equal to the parameter size" up to `MAX_BLOCK`. `FindOrder` computes it as
the code does: with 16384 added to `Sizes` in `MCHeap.cfg`, `NearestBlock` is
violated by the first request of that size.

Seen while modelling, and without a text that says otherwise: a send to an
exited pid makes the dead process run again (`srr_ipc.c:84`); a datagram
queued is sent to where its socket points when the timer sends (`net/socket.c`);
the newest packet of a socket is received first (`socket.c:193`); `fat12_close`
and `vfs_open` do not look at what `fat12_write_file` returned; a file not found
leaks its descriptor (`fs.c:98`); `fat12_read_file` copies whole blocks, past
the end of the buffer; the scan for a free cluster misreads every sector of the
table but the first; `udp_checksum` writes its header after the end of the block
it asked for (`udp.c:112`), and an echo reply is two bytes longer than its
request (`icmp.c:117`).

## 4. Proofs

**SchedProofs** proves for every table size of at least two and every quantum of
at least one that `SchedInv` is inductive, and from it the type invariant and
the five safety invariants of `sched`. `SchedInv` says of the table and the
queue together (`Matches`) that the queue has no duplicates and holds the READY
processes, and of every PCB that it is sound: READY and not running means not
started with a full quantum, or stopped by a known trap. The properties are not
inductive alone: that the head of the queue is the current process needs the
whole correspondence, since `block` takes the head off and `schedule` chooses
the next one. Every action ends in `Schedule` or `Return` of some table and
queue, so the proof has one lemma for each of these (`ScheduleEstablishes`,
`ReturnEstablishes`), lemmas that waking, popping and creating preserve
`Matches`, and a step per action.

**SrrProofs** proves first that a step of SrrIpc is a step or a stutter of Sched
(`IpcImplementsSched`), so that `SchedInv` holds there too. Over it,
`IpcInv` is the conjunction of the type invariant, `NoLostWakeup`,
`SenderIsRegistered`, `NoMutualWait` and `ShellHasChild`. The reason behind the
first two is that no call makes a process BLOCKED but its caller
(`BlockSelfStates`, `WakeAndBlockBlocks`) and that a send or reply leaves the
process it names READY (`WakeStates`); `SenderIsRegistered` also needs that
slots are reused only when DEAD. `ShellHasChild` needs that an exit of a child
of slot 1 wakes the shell and that a slot is reused only after its process died.

**RpcProofs** proves the two invariants of `rpc` and the safety part of Rpc for
any number of producers. The programs only make calls of SrrIpc (`RpcIsIpc`), so
`IpcInv` holds. `RpcInv` adds that each producer is in one of four situations,
by where its letter and its answer are (`Client`), that the mailbox holds at
most one letter of each (`MailSound`), and that the consumer answers before it
receives again (`ConsumerSound`). A producer is BLOCKED in the two situations in
which it waits; it runs when it calls `send_end`, so it has been answered.

**HeapProofs** proves the three invariants of `heap` and the refinement of
FreeLists for any number of blocks on a list. By `HeapInv` each list is a
sequence of the unused blocks of its size without repetitions, through which the
links run from head to tail (`IsList`), and a block in use lies on the list that
`find_order` sent its request to (`GrantsInPlace`). That `kfree` finds this list
from the address alone is arithmetic: the lists do not overlap (`ListsApart`),
so `find_size` returns the size of the list an address lies on (`SizeIsFound`),
and `find_order` of that size is the same list for all that requests reach
(`OrderOfSize`). `Chain` reads a list off with a recursive function; that this
is the sequence of `IsList` is shown for the least node at which they would
differ (`ListIsChain`). `NearestBlock` is proved for requests of up to 8192
bytes, since it is false above (section 3).

**SocketProofs** proves the four invariants of `sockets` for any processes,
ports, sockets and limits. `SocketInv` adds to the types that a free socket is
clean and an open one holds only what came for it (`SoundSocket`), that a socket
has one user (`UsersAreAlone`), and that what a poll saw is still there
(`PollHolds`): the last is why a receive never finds the queue empty, and it
needs the second, since otherwise another process could have taken the packet in
between.

**NetProofs** proves the four invariants of `net` and the refinement of
FrameQueue for a chain of any length and any frames. The heart of `NetInv` is
`RingInOrder`: the frames not handled yet lie in one run of descriptors, from
the one the driver looks at next (`Place`) to the one before that the controller
fills next (`Fill`), and apart from the one being handled everything else is the
controller's. The run, read in order, is the abstract queue (`QueueIsWaiting`):
arriving appends to it (`FrameStored`), `process_packet` takes its head
(`ProcessPacketKeeps`), everything else leaves it alone, the restart at the end
of the chain because there both ends meet (`AcknowledgeKeeps`). `TaskFits` and
`SendingFits` say by the place in the code what is being sent and from where.

**CardProofs** proves the two invariants of `card` and the refinement of
BlockStore for any card, contents and amount of noise. `Reported` says for each
place of the driver which status bits can be up and what the card still does;
`CommandIsForCall` that the command out is the one of the call in progress.

**FilesProofs** proves the five invariants of `files`, that the cluster given out
was free and, for cards that keep room, that Files implements FileStore. It is
for any number of clusters within one sector of the table, of entries of the
directory and of its sectors, of pieces in a cluster, any `Readings` and
`Numbers`, and any number of losses of power. The cards
are those for which `SoundImages` holds: `SoundCard` says that the unused
clusters are the last ones, that each file has a chain of its own that ends in an
end mark and holds its size, that names are there once and before the end mark.
Of entries 0 and 1 of the table it says only that they are not unused.
Empty files with first cluster 0, as other tools leave them, and cards with holes
(for which `files_hole` shows the opposite) are excluded; `ImagesAreSound`
evaluates it for the cards of the run.

`FilesInv` has the types, what the caller of `fat12_write_file` may count on when
it returns (`Calls`) and `NoStrayWrites`, and until a block is written where it
does not belong (`stray`) four things more: `Buffered`, that the directory
sector `write_file` read is still the one on the card; `Directory`, that
the entries in use come before the end mark and their names differ; `Room`;
and `Chains(ch)` for some function `ch` from entries to sequences of clusters.
`Room` is needed because the number returned by `find_free_cluster` is not the
entry it marks but the one two above: only because the unused entries are the
last ones, but for the one given out in place of the one marked (`Packed`), is
the number returned unused too (`GivesFree`), and marking an entry that is in use
impossible. `Chains` says that the table links `ch[i]` from one cluster to the
next, that no cluster is in two places (`Apart`), that the cluster found is in
none (`FoundApart`), and that the job is at the block its variables say
(`AtBlock`): a power cut leaves the card at any of these. A cut between `Link`
and `Seal` leaves a chain whose last entry is unused (`Cut`), and a later save
then follows its 0 to cluster 0, a sector of the directory; that this is all that
can spoil a chain is `Tame`. By `NoStrayWrites` a block is written astray only
after a loss of power, or on a card without room, whose `find_free_cluster`
returns numbers beyond the last cluster. `NoSharedCluster`, `SizeIsCovered`,
`NamesListedOnce` and `GivesFreeCluster` say nothing after that: the directory
may then hold anything. `Walk` and `ChainOf`
read a chain off with a recursive function; that they return `ch[i]` is shown for
the least place at which they would differ (`WalkIs`, `ChainOfIs`).

The refinement (`FilesImplementFileStore`) rests on a second inductive invariant,
`SafeInv`: `FilesInv` and, until a block is written astray, `Steady`. `Chains`
does not say whose chain leads where, but FileStore promises nothing of a spoiled
file and everything of the others until a spoiled one is closed again. So
`Safe(ch, T)` in `Steady` follows only the chains of the files that no loss of
power caught (`Kept`), and names a set `T` of clusters, apart from those chains,
that holds 0 and all that the other files lead to, up to 0 (`Astray`). `ch` and
`T` are not variables; each action has a lemma that gives them for the next state
(`EnterSafe`, `LinkSafe`, `EndsSafe` for the loss of power, and so on). A block of
a kept file goes to its own chain (`KeptInside`), so a step that writes astray is
one of a spoiled file being closed (`StrayMaps`) and maps to `Stray`. `Copied`
says that the blocks written so far hold their part of the text, so that at
`saved` the chain holds
all of it (`SavedText`); `Naming` that the job is the one of the file being opened
or closed, and that a file open but not listed means a full directory, which
stays full. Each other step is then mapped: `OpenFound` to
`OpenFile`, `Write` to `Overwrite`, `Close` to `Save`, since from then on the
text of the closing file is read from its descriptor (`Held`); `CloseReturns` to
`Saved`; `Enter`, the one write that makes a name appear, to `MakeFile`; the
other writes to steps that change at most spoiled files; `OpenReturns` to
`OpenFile` or `OpenNowhere`, or, when another descriptor has the file, to no
change.

It has two hypotheses beside `SoundImages`. `[]HasRoom`: what `find_free_cluster`
would return next is a cluster of the card. It returns numbers beyond the last
cluster otherwise and does not notice (the arithmetic of disagreement 4); the run
`files` also reaches states in which no such cluster is left. `ShortFor = {}`: no
path is the beginning of a listed name (section 5), for `compareFileNames` takes
the two for one file.

Assumptions: `MaxProcsAssumption`, `QuantumAssumption`, `MaxMailAssumption`,
`BlockNumAssumption`, `SizesAssumption`, `LimitsAssumption` and
`LimitAssumption` give limits their types; by `SlotsAssumption` there are the
slots 2 and 3 that the programs of SrrRpc run in;
`CardAssumption`, `ReadingsAssumption` and `FilesAssumption` give the sizes and
the inputs of Files their types, the last with the bound `MaxSize` for what
overwritten entries say; `NullAssumption`,
`NoneAssumption`, `NoiseAssumption` and `BuffersAssumption` keep the values that
stand for "nothing" apart from the others; `HostsAssumption` says that a host
puts its own address in both places of an ARP request (`arp_reply` answers the
inner one). They are as weak as the code allows; TLC evaluates them in the runs.

Only model-checked: everything under fairness (`ReadyRunsOnceExitsCease`,
`ImplementsRpc` beyond its safety, `IsrEnds`, `ReceptionGoesOn`,
`StartAndCallsEnd`), which the prover cannot do; and that Files implements FileStore once the room of
the card has run out.

## 5. Not modelled

- Saved registers, stacks and program text, so neither the Ctrl+C handling nor
  the text freed under a forked child.
- Payload bytes, lengths, checksums and byte order of the protocols; TCP, which
  the code has no handler for; ARP replies, which the code drops.
- The shell's `ping`, the one transmission made in user mode (`cpsw.c:583`), and
  how much memory the network code leaves unfreed.
- Failed allocations inside IPC, which are refused calls; the time a call takes,
  so not that `fgets` waits for a key with interrupts masked.
- A second sector of the allocation table, where the scan at `fat12.c:385` goes
  wrong once more; clusters of more than one sector
  (the image of the Makefile has one); directories below the root and
  attributes, which no caller uses; files made elsewhere with no cluster at all;
  paths of which one is the beginning of another (`ShortFor` states how the code
  compares them; the cards of the runs have none).
- The resolution of paths to mount points: there is one in use.
- Registers of the card controller that no wait depends on; the register set-up
  of the switch, the PHY, the board, the console and the boot loader.

Two hazards of `PROJECT.json` are modelled and have no property that holds. The
byte of `ctz` (`memory.c:115`) does go wrong (section 3). On a card without room
`fat12_find_free_cluster` returns numbers beyond the last cluster
(`fat12.c:414`): the model follows where these lead, and no text says what should
happen.

Heap treats a `kfree` of a block not in use as impossible and the shell as
interrupted at one place.

## 6. Plan

1. **KList**: `include/misc/list.h` as pointers refining sequences, for the
   ready queue and the mailboxes.
2. **Leaks**: what each network operation takes from the allocator and gives
   back.
3. Files over the blocks of Card, so that a command spoiled in the middle of a
   save is one more way to be cut off.
4. **FilesProofs**: the refinement with room asked for only where a cluster is
   given out, and with names cut off (`ShortFor`).
