-------------------------------- MODULE Card ---------------------------------
(***************************************************************************)
(* The SD card driver (drivers/mmc.c) against the controller and the card. *)
(*                                                                         *)
(* The bootloader runs initMMCdriver; it and the kernel then read and      *)
(* write blocks, one at a time.  The controller and the card are not code  *)
(* of this repository: what they do is taken from what the driver waits    *)
(* for.  A card accepts a command in some of its states only; the          *)
(* controller reports one that is not answered as an error.  A block's     *)
(* words are copied in one step, since nothing else happens meanwhile, and *)
(* the transfer of a read is complete with its last word.                  *)
(***************************************************************************)
EXTENDS Integers

CONSTANTS Blocks, Contents, None,
          Address,      \* the address the card publishes
          MaxNoise      \* bound: commands spoiled on their way

ASSUME NoneAssumption ==
  /\ None \notin {"busy", "read", "wait", "room", "program"}
  /\ \A b \in Blocks : None # [op |-> "read", block |-> b]
  /\ \A b \in Blocks, v \in Contents : None # [op |-> "write", block |-> b, value |-> v]
ASSUME NoiseAssumption == MaxNoise \in Nat

VARIABLES
  pc, cmd, call, buf,               \* the driver
  stat, rsp, asked, fifo,           \* the controller: SD_STAT, SD_RSP10,
                                    \* has it something to do, SD_DATA
  card, app, up, memory,            \* the card
  then,                             \* what it still does for its last command
  noise, spoiled                    \* commands spoiled; was one needed?

driver == <<pc, cmd, call, buf>>
controller == <<stat, rsp, asked, fifo>>
cardVars == <<card, app, up, memory, then>>
vars == <<driver, controller, cardVars, noise, spoiled>>

CC == "command complete"
TC == "transfer complete"
BRR == "buffer ready to read"
ERRI == "error"

Command(name, arg) == [name |-> name, arg |-> arg]

(* CMD55, ACMD41, CMD3 and CMD7 have response_type 3.                      *)
WaitsForBusy(c) == c.name \in {"CMD55", "ACMD41", "CMD3", "CMD7"}

TypeOK ==
  /\ pc \in {"reset", "power", "clock", "initsequence", "answer", "busy", "idle", "transfer"}
  /\ stat \subseteq {CC, TC, BRR, ERRI}
  /\ asked \in BOOLEAN /\ app \in BOOLEAN /\ up \in BOOLEAN
  /\ card \in {"idle", "ready", "ident", "stby", "tran"}
  /\ then \in {None, "busy", "read", "wait", "room", "program"}
  /\ memory \in [Blocks -> Contents]
  /\ call = None \/ call.block \in Blocks
  /\ (pc = "transfer") => call # None
  /\ noise \in 0 .. MaxNoise /\ spoiled \in BOOLEAN

Init ==
  /\ pc = "reset" /\ cmd = None /\ call = None /\ buf = None
  /\ stat = {} /\ rsp = None /\ asked = TRUE /\ fifo = None
  /\ card \in {"idle", "tran"} /\ app = FALSE /\ up = FALSE /\ memory \in [Blocks -> Contents]
  /\ then = None /\ noise = 0 /\ spoiled = FALSE

----------------------------------------------------------------------------
(* mmcCMD: the command is written to SD_CMD,                               *)
Send(c) == cmd' = c /\ pc' = "answer" /\ asked' = TRUE

(* Mutant: the address is taken from the answer to CMD9.                   *)
BadAfter(c) ==
  CASE c.name = "CMD0" -> Command("CMD8", None)
    [] c.name = "CMD8" -> Command("CMD55", None)
    [] c.name = "CMD55" -> Command("ACMD41", None)
    [] c.name = "ACMD41" -> Command(IF rsp = "up" THEN "CMD2" ELSE "CMD55", None)
    [] c.name = "CMD2" -> Command("CMD3", None)
    [] c.name = "CMD3" -> Command("CMD9", rsp)
    [] c.name = "CMD9" -> Command("CMD7", rsp)

(* and when it has been answered the caller goes on.  Except for the       *)
(* answer to ACMD41 no caller looks at what came of it but to print.       *)
After(c) ==
  CASE c.name = "CMD0" -> Command("CMD8", None)
    [] c.name = "CMD8" -> Command("CMD55", None)
    [] c.name = "CMD55" -> Command("ACMD41", None)
    [] c.name = "ACMD41" -> Command(IF rsp = "up" THEN "CMD2" ELSE "CMD55", None)
    [] c.name = "CMD2" -> Command("CMD3", None)
    [] c.name = "CMD3" -> Command("CMD9", rsp)       \* the address, for CMD7 too
    [] c.name = "CMD9" -> Command("CMD7", c.arg)

GoOn ==
  CASE cmd.name = "CMD7" -> pc' = "idle" /\ UNCHANGED <<cmd, asked>>
    [] cmd.name \in {"CMD17", "CMD24"} -> pc' = "transfer" /\ UNCHANGED <<cmd, asked>>
    [] OTHER -> Send(After(cmd))

(* mmcCMD waits for any status; an error clears all of it.                 *)
Answered ==
  /\ pc = "answer" /\ stat # {}
  /\ IF ERRI \in stat THEN stat' = {} /\ GoOn
     ELSE IF WaitsForBusy(cmd) THEN pc' = "busy" /\ UNCHANGED <<stat, cmd, asked>>
     ELSE stat' = stat \ {CC} /\ GoOn
  /\ UNCHANGED <<call, buf, rsp, fifo, cardVars, noise, spoiled>>

(* Mutant: the end of the busy signal stays in the status.                 *)
BadBusyEnds ==
  /\ pc = "busy" /\ TC \in stat
  /\ stat' = stat \ {CC}
  /\ GoOn
  /\ UNCHANGED <<call, buf, rsp, fifo, cardVars, noise, spoiled>>

BusyEnds ==
  /\ pc = "busy" /\ TC \in stat
  /\ stat' = stat \ {TC, CC}
  /\ GoOn
  /\ UNCHANGED <<call, buf, rsp, fifo, cardVars, noise, spoiled>>

----------------------------------------------------------------------------
(* initMMCdriver.                                                          *)

(* initMMC waits for the reset, the power of the bus and the clock, each   *)
(* asked for when the one before is there;                                 *)
InitMMC ==
  /\ pc \in {"reset", "power", "clock"} /\ ~asked
  /\ asked' = TRUE
  /\ pc' = CASE pc = "reset" -> "power" [] pc = "power" -> "clock" [] pc = "clock" -> "initsequence"
  /\ UNCHANGED <<cmd, call, buf, stat, rsp, fifo, cardVars, noise, spoiled>>

(* initsequence for its own command, which the card does not see; then     *)
(* idCard begins.                                                          *)
InitSequence ==
  /\ pc = "initsequence" /\ CC \in stat
  /\ stat' = {}
  /\ Send(Command("CMD0", None))
  /\ UNCHANGED <<call, buf, rsp, fifo, cardVars, noise, spoiled>>

----------------------------------------------------------------------------
(* MMCreadblock and MMCwriteblock.                                         *)

Begin(c, name) ==
  /\ pc = "idle"
  /\ call' = c
  /\ Send(Command(name, c.block))
  /\ UNCHANGED <<buf, stat, rsp, fifo, cardVars, noise, spoiled>>

ReadBlock(b) == Begin([op |-> "read", block |-> b], "CMD17")
WriteBlock(b, v) == Begin([op |-> "write", block |-> b, value |-> v], "CMD24")

(* Mutant: it copies without looking whether there is anything.            *)
BadCopyIn ==
  /\ pc = "transfer" /\ call.op = "read" /\ TC \notin stat
  /\ buf' = fifo /\ stat' = stat \cup {TC}
  /\ UNCHANGED <<pc, cmd, call, rsp, asked, fifo, cardVars, noise, spoiled>>

(* The loop copies whenever the controller is ready for it,                *)
CopyIn ==
  /\ pc = "transfer" /\ call.op = "read" /\ BRR \in stat /\ TC \notin stat
  /\ buf' = fifo /\ stat' = stat \cup {TC}
  /\ UNCHANGED <<pc, cmd, call, rsp, asked, fifo, cardVars, noise, spoiled>>

CopyOut ==
  /\ pc = "transfer" /\ call.op = "write" /\ then = "room"
  /\ fifo' = call.value /\ then' = "program"
  /\ UNCHANGED <<driver, stat, rsp, asked, card, app, up, memory, noise, spoiled>>

(* Mutant: the loop is not left.                                           *)
BadTransferEnds ==
  /\ pc = "transfer" /\ TC \in stat
  /\ stat' = {} /\ call' = None
  /\ UNCHANGED <<pc, cmd, buf, rsp, asked, fifo, cardVars, noise, spoiled>>

(* and ends when the transfer is complete, clearing all of the status.     *)
TransferEnds ==
  /\ pc = "transfer" /\ TC \in stat
  /\ stat' = {} /\ call' = None /\ pc' = "idle"
  /\ UNCHANGED <<cmd, buf, rsp, asked, fifo, cardVars, noise, spoiled>>

----------------------------------------------------------------------------
(* The controller and the card.                                            *)

(* What initMMC and initsequence wait for.                                 *)
SetUpDone ==
  /\ asked /\ pc \in {"reset", "power", "clock", "initsequence"}
  /\ asked' = FALSE
  /\ stat' = IF pc = "initsequence" THEN stat \cup {CC} ELSE stat
  /\ UNCHANGED <<driver, rsp, fifo, cardVars, noise, spoiled>>

CommandOut == asked /\ pc = "answer"

Accepts(c) ==
  CASE c.name \in {"CMD0", "CMD55"} -> TRUE
    [] c.name = "CMD8" -> card = "idle"
    [] c.name = "ACMD41" -> card = "idle" /\ app
    [] c.name = "CMD2" -> card = "ready"
    [] c.name = "CMD3" -> card = "ident"
    [] c.name \in {"CMD9", "CMD7"} -> card = "stby" /\ c.arg = Address
    [] c.name \in {"CMD17", "CMD24"} -> card = "tran"

StateAfter(c) ==
  CASE c.name = "CMD0" -> "idle"
    [] c.name = "ACMD41" /\ up -> "ready"
    [] c.name = "CMD2" -> "ident"
    [] c.name = "CMD3" -> "stby"
    [] c.name = "CMD7" -> "tran"
    [] OTHER -> card

ResponseTo(c) ==
  CASE c.name = "ACMD41" /\ up -> "up"
    [] c.name = "CMD3" -> Address
    [] c.name = "CMD0" -> rsp
    [] OTHER -> "status"

Answer ==
  /\ CommandOut /\ Accepts(cmd)
  /\ asked' = FALSE /\ stat' = stat \cup {CC}
  /\ card' = StateAfter(cmd) /\ rsp' = ResponseTo(cmd) /\ app' = (cmd.name = "CMD55")
  /\ up' = (up /\ cmd.name # "CMD0")
  /\ then' = CASE WaitsForBusy(cmd) -> "busy" [] cmd.name = "CMD17" -> "read"
               [] cmd.name = "CMD24" -> "wait" [] OTHER -> None
  /\ UNCHANGED <<driver, fifo, memory, noise, spoiled>>

(* The driver goes on without CMD8; CMD55 and ACMD41 are sent again; and   *)
(* CMD0 only matters to a card that kept its power when the board was      *)
(* reset.                                                                  *)
Dispensable(c) ==
  c.name \in {"CMD8", "CMD55", "ACMD41"} \/ (c.name = "CMD0" /\ card = "idle")

(* A command that the card does not accept, or that noise spoils.          *)
Refuse ==
  /\ CommandOut
  /\ \/ ~Accepts(cmd) /\ UNCHANGED <<noise, spoiled>>
     \/ /\ Accepts(cmd) /\ noise < MaxNoise /\ noise' = noise + 1
        /\ spoiled' = (spoiled \/ ~Dispensable(cmd))
  /\ asked' = FALSE /\ stat' = stat \cup {ERRI}
  /\ app' = FALSE
  /\ UNCHANGED <<driver, rsp, fifo, card, up, memory, then>>

CardPowersUp ==
  /\ ~up /\ up' = TRUE
  /\ UNCHANGED <<driver, controller, card, app, memory, then, noise, spoiled>>

(* The end of a busy signal, the words of a block, room for a block, the   *)
(* block stored.                                                           *)
CardGoesOn ==
  /\ \/ then = "busy" /\ stat' = stat \cup {TC} /\ then' = None /\ UNCHANGED <<fifo, memory>>
     \/ /\ then = "read" /\ stat' = stat \cup {BRR} /\ then' = None
        /\ fifo' = memory[cmd.arg] /\ UNCHANGED memory
     \/ then = "wait" /\ then' = "room" /\ UNCHANGED <<stat, fifo, memory>>
     \/ /\ then = "program" /\ stat' = stat \cup {TC} /\ then' = None
        /\ memory' = [memory EXCEPT ![cmd.arg] = fifo] /\ UNCHANGED fifo
  /\ UNCHANGED <<driver, rsp, asked, card, app, up, noise, spoiled>>

----------------------------------------------------------------------------
DriverStep == InitMMC \/ InitSequence \/ Answered \/ BusyEnds \/ CopyIn \/ CopyOut \/ TransferEnds

Next ==
  \/ DriverStep
  \/ \E b \in Blocks : ReadBlock(b) \/ \E v \in Contents : WriteBlock(b, v)
  \/ SetUpDone \/ Answer \/ Refuse \/ CardPowersUp \/ CardGoesOn

(* The driver polls, and the hardware does what it was asked for.          *)
Fairness ==
  /\ WF_vars(DriverStep)
  /\ WF_vars(SetUpDone) /\ WF_vars(Answer \/ Refuse) /\ WF_vars(CardPowersUp) /\ WF_vars(CardGoesOn)

Spec == Init /\ [][Next]_vars /\ Fairness

----------------------------------------------------------------------------
(* Properties.                                                             *)

(* mmcCMD takes any bit of the status for the end of its command: no bit   *)
(* of an earlier command or transfer is up while one is out, and nothing   *)
(* of an earlier one is still to come, also after errors.                  *)
StatusIsFresh == asked => stat = {} /\ then = None

(* A read returns the block as the last write left it, a write replaces    *)
(* that block and no other, and neither returns before it is done: the     *)
(* loops see no other end of a transfer than their own.                    *)
Store == INSTANCE BlockStore WITH
  done <- pc = "transfer" /\ TC \in stat

ImplementsBlockStore == Store!Spec

(* The start ends with a card that is selected, though it is asked again   *)
(* and again whether it is up; a call returns.  Both unless a command that *)
(* is not repeated is spoiled: the loops then wait for ever (mmc.c:720).   *)
StartAndCallsEnd ==
  /\ <>(spoiled \/ (pc = "idle" /\ card = "tran"))
  /\ call # None ~> (spoiled \/ call = None)
=============================================================================
