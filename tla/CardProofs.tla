----------------------------- MODULE CardProofs ------------------------------
(***************************************************************************)
(* The card driver implements a store of whole blocks, for any number of   *)
(* blocks and any number of commands spoiled.                              *)
(*                                                                         *)
(* The argument: for each place in the driver there are few things that    *)
(* the controller and the card can have reported, and still have to report *)
(* (Reported).  The driver clears what it waited for before it asks again, *)
(* so that a command never meets a bit of another.                         *)
(***************************************************************************)
EXTENDS Card, TLAPS

(* A busy signal, and its end.                                             *)
BusyReported ==
  \/ then = "busy" /\ stat = {CC}
  \/ then = None /\ stat = {CC, TC}

(* The reports on the command that is out, by what the driver waits for.   *)
AnswerReported ==
  \/ then = None /\ stat = {ERRI}
  \/ WaitsForBusy(cmd) /\ BusyReported
  \/ /\ cmd.name = "CMD17"
     /\ \/ then = "read" /\ stat = {CC}
        \/ then = None /\ stat = {CC, BRR} /\ fifo = memory[cmd.arg]
  \/ cmd.name = "CMD24" /\ then \in {"wait", "room"} /\ stat = {CC}
  \/ /\ ~WaitsForBusy(cmd) /\ cmd.name \notin {"CMD17", "CMD24"}
     /\ then = None /\ stat = {CC}

TransferReported ==
  \/ then = None /\ stat = {}
  \/ /\ call.op = "read"
     /\ \/ then = "read" /\ stat = {}
        \/ then = None /\ stat = {BRR} /\ fifo = memory[cmd.arg]
        \/ then = None /\ stat = {BRR, TC}
  \/ /\ call.op = "write"
     /\ \/ then \in {"wait", "room"} /\ stat = {}
        \/ then = "program" /\ stat = {} /\ fifo = call.value
        \/ then = None /\ stat = {TC}

Reported ==
  /\ asked \/ pc \in {"reset", "power", "clock", "idle"} => stat = {} /\ then = None
  /\ pc = "initsequence" => stat \subseteq {CC} /\ then = None
  /\ pc = "answer" /\ ~asked => AnswerReported
  /\ pc = "busy" => BusyReported
  /\ pc = "transfer" => TransferReported

Plain == {"CMD0", "CMD8", "CMD55", "ACMD41", "CMD2", "CMD3", "CMD9", "CMD7"}

(* The command that is out belongs to the call in progress.                *)
CommandIsForCall ==
  /\ pc \in {"answer", "busy", "transfer"} => cmd.name \in Plain \cup {"CMD17", "CMD24"}
  /\ pc \in {"idle", "busy", "transfer"} => ~asked
  /\ pc = "busy" => WaitsForBusy(cmd)
  /\ call # None <=>
       pc = "transfer" \/ (pc = "answer" /\ cmd.name \in {"CMD17", "CMD24"})
  /\ call # None => /\ call \in Store!Calls /\ cmd.arg = call.block
                    /\ cmd.name = IF call.op = "read" THEN "CMD17" ELSE "CMD24"

(* The inductive invariant.                                                *)
CardInv == TypeOK /\ Reported /\ CommandIsForCall

(* Where mmcCMD goes on, by the command that has been answered.            *)
LEMMA GoesOn ==
  ASSUME GoOn, cmd.name \in Plain \cup {"CMD17", "CMD24"}
  PROVE  \/ cmd.name = "CMD7" /\ pc' = "idle" /\ UNCHANGED <<cmd, asked>>
         \/ cmd.name \in {"CMD17", "CMD24"} /\ pc' = "transfer" /\ UNCHANGED <<cmd, asked>>
         \/ /\ cmd.name \in Plain \ {"CMD7"}
            /\ pc' = "answer" /\ asked' = TRUE /\ cmd'.name \in Plain
<1>1. CASE cmd.name \in {"CMD7", "CMD17", "CMD24"}
  BY <1>1 DEF GoOn, Plain
<1>2. CASE cmd.name \in Plain \ {"CMD7"}
  <2>1. Send(After(cmd))
    BY <1>2 DEF GoOn, Plain
  <2>2. After(cmd).name \in Plain
    BY <1>2 DEF After, Plain, Command
  <2> QED
    BY <1>2, <2>1, <2>2 DEF Send
<1> QED
  BY <1>1, <1>2

LEMMA SignalsDiffer ==
  /\ CC \notin {TC, BRR, ERRI} /\ TC \notin {CC, BRR, ERRI}
  /\ BRR \notin {CC, TC, ERRI} /\ ERRI \notin {CC, TC, BRR}
BY DEF CC, TC, BRR, ERRI

(* A call in progress is for the command that is out.                      *)
LEMMA CallOfCommand ==
  ASSUME CommandIsForCall
  PROVE  /\ call # None /\ cmd.name = "CMD17" => call.op = "read"
         /\ call # None /\ cmd.name = "CMD24" => call.op = "write"
         /\ call # None => call.op \in {"read", "write"} /\ call.block \in Blocks
BY DEF CommandIsForCall, Store!Calls

LEMMA InitEstablishes == Init => CardInv
<1> SUFFICES ASSUME Init PROVE CardInv
  OBVIOUS
<1>1. TypeOK
  <2>1. noise \in 0 .. MaxNoise
    BY NoiseAssumption DEF Init
  <2> QED
    BY <2>1 DEF Init, TypeOK
<1>2. Reported
  BY DEF Init, Reported
<1>3. CommandIsForCall
  BY DEF Init, CommandIsForCall
<1> QED
  BY <1>1, <1>2, <1>3 DEF CardInv

----------------------------------------------------------------------------
(* The driver's steps.                                                     *)

(* mmcCMD returns with nothing left in the status but what a transfer has  *)
(* begun to report.                                                        *)
LEMMA GoOnKeeps ==
  ASSUME CommandIsForCall, pc \in {"answer", "busy"}, ~asked, GoOn,
         UNCHANGED <<call, buf, fifo, memory, then>>,
         \/ then = None /\ stat' = {}
         \/ /\ cmd.name = "CMD17"
            /\ \/ then = "read" /\ stat' = {}
               \/ then = None /\ stat' = {BRR} /\ fifo = memory[cmd.arg]
         \/ cmd.name = "CMD24" /\ then \in {"wait", "room"} /\ stat' = {}
  PROVE  Reported' /\ CommandIsForCall' /\ UNCHANGED Store!vars
<1>1. cmd.name \in Plain \cup {"CMD17", "CMD24"}
  BY DEF CommandIsForCall
<1>2. call # None <=> pc = "answer" /\ cmd.name \in {"CMD17", "CMD24"}
  BY DEF CommandIsForCall
<1>3. UNCHANGED Store!vars
  <2>1. TC \notin stat' /\ pc # "transfer"
    BY SignalsDiffer
  <2> QED
    BY <2>1 DEF Store!vars
<1>4. CASE cmd.name = "CMD7"
  <2>1. pc' = "idle" /\ UNCHANGED <<cmd, asked>>
    BY <1>1, <1>4, GoesOn DEF Plain
  <2>2. call = None
    BY <1>2, <1>4
  <2>3. Reported'
    BY <1>4, <2>1 DEF Reported
  <2>4. CommandIsForCall'
    BY <2>1, <2>2 DEF CommandIsForCall
  <2> QED
    BY <1>3, <2>3, <2>4
<1>5. CASE cmd.name \in {"CMD17", "CMD24"}
  <2>1. pc' = "transfer" /\ UNCHANGED <<cmd, asked>>
    BY <1>1, <1>5, GoesOn DEF Plain
  <2>2. call # None
    BY <1>2, <1>5 DEF CommandIsForCall, WaitsForBusy
  <2>3. TransferReported'
    BY <1>5, <2>1, <2>2, CallOfCommand DEF TransferReported
  <2>4. Reported'
    BY <2>1, <2>3 DEF Reported
  <2>5. CommandIsForCall'
    BY <1>5, <2>1, <2>2 DEF CommandIsForCall
  <2> QED
    BY <1>3, <2>4, <2>5
<1>6. CASE cmd.name \in Plain \ {"CMD7"}
  <2>1. pc' = "answer" /\ asked' = TRUE /\ cmd'.name \in Plain
    BY <1>1, <1>6, GoesOn DEF Plain
  <2>2. call = None
    BY <1>2, <1>6 DEF Plain
  <2>3. Reported'
    BY <1>6, <2>1 DEF Reported, Plain
  <2>4. CommandIsForCall'
    BY <2>1, <2>2 DEF CommandIsForCall, Plain
  <2> QED
    BY <1>3, <2>3, <2>4
<1> QED
  BY <1>1, <1>4, <1>5, <1>6

LEMMA AnsweredKeeps ==
  ASSUME CardInv, Answered
  PROVE  Reported' /\ CommandIsForCall' /\ UNCHANGED Store!vars
<1>0. /\ CommandIsForCall /\ AnswerReported /\ pc = "answer" /\ ~asked
      /\ UNCHANGED <<call, buf, fifo, memory, then>>
  BY DEF CardInv, Reported, Answered, cardVars
<1>1. CASE ERRI \in stat
  <2>1. stat' = {} /\ GoOn
    BY <1>1 DEF Answered
  <2>2. then = None
    BY <1>0, <1>1, SignalsDiffer DEF AnswerReported, BusyReported
  <2> QED
    BY <1>0, <2>1, <2>2, GoOnKeeps
<1>2. CASE ERRI \notin stat /\ WaitsForBusy(cmd)
  <2>1. pc' = "busy" /\ UNCHANGED <<stat, cmd, asked>>
    BY <1>2 DEF Answered
  <2>2. BusyReported
    BY <1>0, <1>2 DEF AnswerReported, WaitsForBusy
  <2>3. Reported'
    BY <1>0, <2>1, <2>2 DEF Reported, BusyReported
  <2>4. CommandIsForCall'
    BY <1>0, <1>2, <2>1 DEF CommandIsForCall, WaitsForBusy
  <2>5. UNCHANGED Store!vars
    BY <1>0, <2>1 DEF Store!vars
  <2> QED
    BY <2>3, <2>4, <2>5
<1>3. CASE ERRI \notin stat /\ ~WaitsForBusy(cmd)
  <2>1. stat' = stat \ {CC} /\ GoOn
    BY <1>3 DEF Answered
  <2>2. CASE stat = {CC}
    <3>1. stat' = {}
      BY <2>1, <2>2
    <3> QED
      BY <1>0, <1>3, <2>1, <2>2, <3>1, GoOnKeeps DEF AnswerReported
  <2>3. CASE stat = {CC, BRR} /\ then = None /\ cmd.name = "CMD17" /\ fifo = memory[cmd.arg]
    <3>1. stat' = {BRR}
      BY <2>1, <2>3, SignalsDiffer
    <3> QED
      BY <1>0, <2>1, <2>3, <3>1, GoOnKeeps
  <2> QED
    BY <1>0, <1>3, <2>2, <2>3 DEF AnswerReported
<1> QED
  BY <1>1, <1>2, <1>3

LEMMA BusyEndsKeeps ==
  ASSUME CardInv, BusyEnds
  PROVE  Reported' /\ CommandIsForCall' /\ UNCHANGED Store!vars
<1>1. /\ CommandIsForCall /\ BusyReported /\ pc = "busy" /\ ~asked /\ TC \in stat
      /\ UNCHANGED <<call, buf, fifo, memory, then>>
  BY DEF CardInv, Reported, CommandIsForCall, BusyEnds, cardVars
<1>2. then = None /\ stat = {CC, TC}
  BY <1>1, SignalsDiffer DEF BusyReported
<1>3. stat' = {} /\ GoOn
  BY <1>2 DEF BusyEnds
<1> QED
  BY <1>1, <1>2, <1>3, GoOnKeeps

LEMMA SetUpKeeps ==
  ASSUME CardInv, InitMMC \/ InitSequence \/ SetUpDone
  PROVE  Reported' /\ CommandIsForCall' /\ UNCHANGED Store!vars
<1>0. Reported /\ CommandIsForCall
  BY DEF CardInv
<1>1. CASE InitMMC
  <2>1. /\ pc \in {"reset", "power", "clock"} /\ pc' \in {"power", "clock", "initsequence"}
        /\ asked' = TRUE /\ UNCHANGED <<cmd, call, buf, stat, memory, then>>
    BY <1>1 DEF InitMMC, cardVars
  <2>2. stat = {} /\ then = None /\ call = None
    BY <1>0, <2>1 DEF Reported, CommandIsForCall
  <2>3. Reported'
    BY <2>1, <2>2 DEF Reported
  <2>4. CommandIsForCall'
    BY <2>1, <2>2 DEF CommandIsForCall
  <2>5. UNCHANGED Store!vars
    BY <2>1 DEF Store!vars
  <2> QED
    BY <2>3, <2>4, <2>5
<1>2. CASE InitSequence
  <2>1. /\ pc = "initsequence" /\ pc' = "answer" /\ stat' = {}
        /\ asked' = TRUE /\ cmd'.name = "CMD0" /\ UNCHANGED <<call, buf, memory, then>>
    BY <1>2 DEF InitSequence, Send, Command, cardVars
  <2>2. then = None /\ call = None
    BY <1>0, <2>1 DEF Reported, CommandIsForCall
  <2>3. Reported'
    BY <2>1, <2>2 DEF Reported
  <2>4. CommandIsForCall'
    BY <2>1, <2>2 DEF CommandIsForCall, Plain
  <2>5. UNCHANGED Store!vars
    BY <2>1 DEF Store!vars
  <2> QED
    BY <2>3, <2>4, <2>5
<1>3. CASE SetUpDone
  <2>1. /\ pc \in {"reset", "power", "clock", "initsequence"} /\ asked /\ ~asked'
        /\ UNCHANGED <<pc, cmd, call, buf, memory, then>>
    BY <1>3 DEF SetUpDone, driver, cardVars
  <2>2. stat = {} /\ then = None /\ call = None
    BY <1>0, <2>1 DEF Reported, CommandIsForCall
  <2>3. stat' = IF pc = "initsequence" THEN {CC} ELSE {}
    BY <1>3, <2>2 DEF SetUpDone
  <2>4. Reported'
    BY <2>1, <2>2, <2>3 DEF Reported
  <2>5. CommandIsForCall'
    BY <2>1, <2>2 DEF CommandIsForCall
  <2>6. UNCHANGED Store!vars
    BY <2>1 DEF Store!vars
  <2> QED
    BY <2>4, <2>5, <2>6
<1> QED
  BY <1>1, <1>2, <1>3

(* A call begins.                                                          *)
LEMMA BeginKeeps ==
  ASSUME CardInv, NEW c \in Store!Calls, c # None,
         Begin(c, IF c.op = "read" THEN "CMD17" ELSE "CMD24")
  PROVE  Reported' /\ CommandIsForCall' /\ Store!Begin(c)
<1>1. /\ pc = "idle" /\ pc' = "answer" /\ asked' = TRUE /\ call' = c
      /\ cmd'.name = (IF c.op = "read" THEN "CMD17" ELSE "CMD24") /\ cmd'.arg = c.block
      /\ UNCHANGED <<buf, stat, memory, then>>
  BY DEF Begin, Send, Command, cardVars
<1>2. stat = {} /\ then = None /\ call = None
  BY <1>1 DEF CardInv, Reported, CommandIsForCall
<1>3. Reported'
  BY <1>1, <1>2 DEF Reported
<1>4. CommandIsForCall'
  BY <1>1 DEF CommandIsForCall
<1>5. Store!Begin(c)
  BY <1>1, <1>2 DEF Store!Begin
<1> QED
  BY <1>3, <1>4, <1>5

(* The transfer of a block.                                                *)
LEMMA CopyInKeeps ==
  ASSUME CardInv, CopyIn
  PROVE  Reported' /\ CommandIsForCall' /\ Store!Read
<1>1. /\ pc = "transfer" /\ call.op = "read" /\ BRR \in stat /\ TC \notin stat
      /\ buf' = fifo /\ stat' = stat \cup {TC}
      /\ UNCHANGED <<pc, cmd, call, asked, fifo, memory, then>>
  BY DEF CopyIn, cardVars
<1>2. /\ CommandIsForCall /\ TransferReported /\ call # None /\ cmd.arg = call.block /\ ~asked
  BY <1>1 DEF CardInv, Reported, CommandIsForCall
<1>3. then = None /\ stat = {BRR} /\ fifo = memory[cmd.arg]
  BY <1>1, <1>2 DEF TransferReported
<1>4. stat' = {BRR, TC}
  BY <1>1, <1>3
<1>5. Reported'
  BY <1>1, <1>2, <1>3, <1>4 DEF Reported, TransferReported
<1>6. CommandIsForCall'
  BY <1>1, <1>2 DEF CommandIsForCall, WaitsForBusy
<1>7. Store!Read
  BY <1>1, <1>2, <1>3, <1>4 DEF Store!Read
<1> QED
  BY <1>5, <1>6, <1>7

LEMMA CopyOutKeeps ==
  ASSUME CardInv, CopyOut
  PROVE  Reported' /\ CommandIsForCall' /\ UNCHANGED Store!vars
<1>1. /\ pc = "transfer" /\ call.op = "write" /\ then = "room"
      /\ fifo' = call.value /\ then' = "program"
      /\ UNCHANGED <<pc, cmd, call, buf, stat, asked, memory>>
  BY DEF CopyOut, driver
<1>2. CommandIsForCall /\ TransferReported /\ ~asked
  BY <1>1 DEF CardInv, Reported, CommandIsForCall
<1>3. stat = {}
  BY <1>1, <1>2, NoneAssumption DEF TransferReported
<1>4. Reported'
  BY <1>1, <1>2, <1>3 DEF Reported, TransferReported
<1>5. CommandIsForCall'
  BY <1>1, <1>2 DEF CommandIsForCall, WaitsForBusy
<1>6. UNCHANGED Store!vars
  BY <1>1 DEF Store!vars
<1> QED
  BY <1>4, <1>5, <1>6

LEMMA TransferEndsKeeps ==
  ASSUME CardInv, TransferEnds
  PROVE  Reported' /\ CommandIsForCall' /\ Store!Return
<1>1. /\ pc = "transfer" /\ TC \in stat /\ stat' = {} /\ call' = None /\ pc' = "idle"
      /\ UNCHANGED <<cmd, buf, asked, memory, then>>
  BY DEF TransferEnds, cardVars
<1>2. TransferReported /\ call # None /\ ~asked
  BY <1>1 DEF CardInv, Reported, CommandIsForCall
<1>3. then = None
  BY <1>1, <1>2 DEF TransferReported
<1>4. Reported'
  BY <1>1, <1>2, <1>3 DEF Reported
<1>5. CommandIsForCall'
  BY <1>1, <1>2 DEF CommandIsForCall
<1>6. Store!Return
  BY <1>1, <1>2 DEF Store!Return
<1> QED
  BY <1>4, <1>5, <1>6

----------------------------------------------------------------------------
(* The steps of the controller and the card.                               *)

LEMMA CommandOutKeeps ==
  ASSUME CardInv, Answer \/ Refuse
  PROVE  Reported' /\ CommandIsForCall' /\ UNCHANGED Store!vars
<1>1. /\ pc = "answer" /\ asked /\ ~asked' /\ UNCHANGED <<pc, cmd, call, buf, fifo, memory>>
  BY DEF Answer, Refuse, CommandOut, driver
<1>2. stat = {} /\ then = None /\ CommandIsForCall /\ cmd.name \in Plain \cup {"CMD17", "CMD24"}
  BY <1>1 DEF CardInv, Reported, CommandIsForCall
<1>3. ASSUME Answer PROVE Reported'
  <2>1. /\ stat' = {CC}
        /\ then' = CASE WaitsForBusy(cmd) -> "busy" [] cmd.name = "CMD17" -> "read"
                     [] cmd.name = "CMD24" -> "wait" [] OTHER -> None
    BY <1>2, <1>3 DEF Answer
  <2>2. AnswerReported'
    <3>1. CASE WaitsForBusy(cmd)
      <4>1. then' = "busy" /\ WaitsForBusy(cmd')
        BY <1>1, <2>1, <3>1 DEF WaitsForBusy
      <4> QED
        BY <2>1, <4>1 DEF AnswerReported, BusyReported, WaitsForBusy
    <3>2. CASE cmd.name = "CMD17"
      <4>1. then' = "read" /\ cmd'.name = "CMD17"
        BY <1>1, <2>1, <3>2 DEF WaitsForBusy
      <4> QED
        BY <2>1, <4>1 DEF AnswerReported
    <3>3. CASE cmd.name = "CMD24"
      <4>1. then' = "wait" /\ cmd'.name = "CMD24"
        BY <1>1, <2>1, <3>3 DEF WaitsForBusy
      <4> QED
        BY <2>1, <4>1 DEF AnswerReported
    <3>4. CASE ~WaitsForBusy(cmd) /\ cmd.name \notin {"CMD17", "CMD24"}
      <4>1. /\ then' = None
            /\ ~WaitsForBusy(cmd') /\ cmd'.name \notin {"CMD17", "CMD24"}
        BY <1>1, <2>1, <3>4 DEF WaitsForBusy
      <4> QED
        BY <2>1, <4>1 DEF AnswerReported, WaitsForBusy
    <3> QED
      BY <3>1, <3>2, <3>3, <3>4
  <2> QED
    BY <1>1, <2>2 DEF Reported
<1>4. ASSUME Refuse PROVE Reported'
  <2>1. stat' = {ERRI} /\ then' = None
    BY <1>2, <1>4 DEF Refuse
  <2> QED
    BY <1>1, <2>1 DEF Reported, AnswerReported
<1>5. Reported'
  BY <1>3, <1>4
<1>6. CommandIsForCall'
  BY <1>1, <1>2 DEF CommandIsForCall
<1>7. UNCHANGED Store!vars
  BY <1>1 DEF Store!vars
<1> QED
  BY <1>5, <1>6, <1>7

(* The card goes on with the command it accepted last, which is still out  *)
(* or whose transfer is under way.                                         *)
LEMMA CardGoesOnKeeps ==
  ASSUME CardInv, CardGoesOn
  PROVE  Reported' /\ CommandIsForCall' /\ (Store!Write \/ UNCHANGED Store!vars)
<1>1. UNCHANGED <<pc, cmd, call, buf, asked>>
  BY DEF CardGoesOn, driver
<1>2. /\ then # None /\ ~asked
      /\ \/ pc = "answer" /\ AnswerReported
         \/ pc = "busy" /\ BusyReported
         \/ pc = "transfer" /\ TransferReported
  BY NoneAssumption DEF CardGoesOn, CardInv, Reported, TypeOK
<1>3. CommandIsForCall /\ CommandIsForCall'
  BY <1>1 DEF CardInv, CommandIsForCall, WaitsForBusy
<1>4. CASE then = "busy"
  <2>1. stat' = stat \cup {TC} /\ then' = None /\ UNCHANGED <<fifo, memory>>
    BY <1>4, NoneAssumption DEF CardGoesOn
  <2>2. /\ pc \in {"answer", "busy"} /\ stat = {CC}
        /\ pc = "answer" => WaitsForBusy(cmd)
    BY <1>2, <1>4, NoneAssumption DEF AnswerReported, BusyReported, TransferReported
  <2>3. stat' = {CC, TC}
    BY <2>1, <2>2
  <2>4. Reported'
    BY <1>1, <1>2, <2>1, <2>2, <2>3 DEF Reported, AnswerReported, BusyReported, WaitsForBusy
  <2>5. UNCHANGED Store!vars
    BY <1>1, <2>1, <2>2 DEF Store!vars
  <2> QED
    BY <1>3, <2>4, <2>5
<1>5. CASE then = "read"
  <2>1. stat' = stat \cup {BRR} /\ then' = None /\ fifo' = memory[cmd.arg] /\ UNCHANGED memory
    BY <1>5, NoneAssumption DEF CardGoesOn
  <2>2. \/ pc = "answer" /\ cmd.name = "CMD17" /\ stat = {CC}
        \/ pc = "transfer" /\ call.op = "read" /\ stat = {}
    BY <1>2, <1>5, NoneAssumption DEF AnswerReported, BusyReported, TransferReported
  <2>3. stat' = IF pc = "answer" THEN {CC, BRR} ELSE {BRR}
    BY <2>1, <2>2
  <2>4. Reported'
    BY <1>1, <1>2, <2>1, <2>2, <2>3 DEF Reported, AnswerReported, TransferReported
  <2>5. UNCHANGED Store!vars
    BY <1>1, <2>1, <2>2, <2>3, SignalsDiffer DEF Store!vars
  <2> QED
    BY <1>3, <2>4, <2>5
<1>6. CASE then = "wait"
  <2>1. then' = "room" /\ UNCHANGED <<stat, fifo, memory>>
    BY <1>6, NoneAssumption DEF CardGoesOn
  <2>2. \/ pc = "answer" /\ cmd.name = "CMD24" /\ stat = {CC}
        \/ pc = "transfer" /\ call.op = "write" /\ stat = {}
    BY <1>2, <1>6, NoneAssumption DEF AnswerReported, BusyReported, TransferReported
  <2>3. Reported'
    BY <1>1, <1>2, <2>1, <2>2 DEF Reported, AnswerReported, TransferReported
  <2>4. UNCHANGED Store!vars
    BY <1>1, <2>1 DEF Store!vars
  <2> QED
    BY <1>3, <2>3, <2>4
<1>7. CASE then = "program"
  <2>1. /\ stat' = stat \cup {TC} /\ then' = None
        /\ memory' = [memory EXCEPT ![cmd.arg] = fifo] /\ UNCHANGED fifo
    BY <1>7, NoneAssumption DEF CardGoesOn
  <2>2. pc = "transfer" /\ call.op = "write" /\ stat = {} /\ fifo = call.value
    BY <1>2, <1>7, NoneAssumption DEF AnswerReported, BusyReported, TransferReported
  <2>3. stat' = {TC} /\ call # None /\ cmd.arg = call.block
    BY <1>3, <2>1, <2>2 DEF CommandIsForCall
  <2>4. Reported'
    BY <1>1, <1>2, <2>1, <2>2, <2>3 DEF Reported, TransferReported
  <2>5. Store!Write
    BY <1>1, <2>1, <2>2, <2>3 DEF Store!Write
  <2> QED
    BY <1>3, <2>4, <2>5
<1> QED
  BY <1>4, <1>5, <1>6, <1>7 DEF CardGoesOn

LEMMA NothingHappensKeeps ==
  ASSUME CardInv, CardPowersUp \/ UNCHANGED vars
  PROVE  Reported' /\ CommandIsForCall' /\ UNCHANGED Store!vars
<1>1. UNCHANGED <<pc, cmd, call, buf, stat, asked, fifo, memory, then>>
  BY DEF CardPowersUp, vars, driver, controller, cardVars
<1>2. Reported'
  BY <1>1 DEF CardInv, Reported, AnswerReported, BusyReported, TransferReported, WaitsForBusy
<1>3. CommandIsForCall'
  BY <1>1 DEF CardInv, CommandIsForCall, WaitsForBusy
<1>4. UNCHANGED Store!vars
  BY <1>1 DEF Store!vars
<1> QED
  BY <1>2, <1>3, <1>4

----------------------------------------------------------------------------

(* Every step keeps the invariant but for the types, and is a step of the  *)
(* store of blocks.                                                        *)
LEMMA StepIsStoreStep ==
  ASSUME CardInv, [Next]_vars
  PROVE  Reported' /\ CommandIsForCall' /\ [Store!Next]_(Store!vars)
<1>1. ASSUME NEW b \in Blocks, ReadBlock(b)
      PROVE  Reported' /\ CommandIsForCall' /\ Store!Next
  <2> DEFINE c == [op |-> "read", block |-> b]
  <2>1. c \in Store!Calls /\ c # None /\ c.op = "read"
    BY NoneAssumption DEF Store!Calls
  <2>2. Begin(c, IF c.op = "read" THEN "CMD17" ELSE "CMD24")
    BY <1>1, <2>1 DEF ReadBlock
  <2> HIDE DEF c
  <2> QED
    BY <2>1, <2>2, BeginKeeps DEF Store!Next
<1>2. ASSUME NEW b \in Blocks, NEW v \in Contents, WriteBlock(b, v)
      PROVE  Reported' /\ CommandIsForCall' /\ Store!Next
  <2> DEFINE c == [op |-> "write", block |-> b, value |-> v]
  <2>1. c \in Store!Calls /\ c # None /\ c.op # "read"
    BY NoneAssumption DEF Store!Calls
  <2>2. Begin(c, IF c.op = "read" THEN "CMD17" ELSE "CMD24")
    BY <1>2, <2>1 DEF WriteBlock
  <2> HIDE DEF c
  <2> QED
    BY <2>1, <2>2, BeginKeeps DEF Store!Next
<1>3. ASSUME DriverStep
      PROVE  Reported' /\ CommandIsForCall' /\ [Store!Next]_(Store!vars)
  BY <1>3, SetUpKeeps, AnsweredKeeps, BusyEndsKeeps, CopyInKeeps, CopyOutKeeps, TransferEndsKeeps
  DEF DriverStep, Store!Next
<1>4. ASSUME SetUpDone \/ Answer \/ Refuse \/ CardPowersUp \/ CardGoesOn \/ UNCHANGED vars
      PROVE  Reported' /\ CommandIsForCall' /\ [Store!Next]_(Store!vars)
  BY <1>4, SetUpKeeps, CommandOutKeeps, NothingHappensKeeps, CardGoesOnKeeps DEF Store!Next
<1> QED
  BY <1>1, <1>2, <1>3, <1>4 DEF Next

(* ... and the types.                                                      *)
LEMMA StepKeepsTypes ==
  ASSUME CardInv, CommandIsForCall', [Next]_vars
  PROVE  TypeOK'
<1>0. TypeOK /\ CommandIsForCall
  BY DEF CardInv
<1>1. pc' \in {"reset", "power", "clock", "initsequence", "answer", "busy", "idle", "transfer"}
  <2>1. ASSUME GoOn, pc \in {"answer", "busy"} PROVE pc' \in {"answer", "idle", "transfer"}
    BY <1>0, <2>1, GoesOn DEF CommandIsForCall
  <2>2. CASE Answered \/ BusyEnds
    BY <2>1, <2>2 DEF Answered, BusyEnds
  <2>3. CASE ~(Answered \/ BusyEnds)
    BY <1>0, <2>3 DEF Next, vars, DriverStep, InitMMC, InitSequence, ReadBlock, WriteBlock, Begin,
         Send, CopyIn, CopyOut, TransferEnds, SetUpDone, Answer, Refuse, CardPowersUp,
         CardGoesOn, driver, TypeOK
  <2> QED
    BY <2>2, <2>3
<1>2. stat' \subseteq {CC, TC, BRR, ERRI}
  BY <1>0 DEF Next, vars, controller, DriverStep, InitMMC, InitSequence, Answered, BusyEnds,
       ReadBlock, WriteBlock, Begin, CopyIn, CopyOut, TransferEnds, SetUpDone, Answer, Refuse,
       CardPowersUp, CardGoesOn, TypeOK
<1>3. asked' \in BOOLEAN
  <2>1. ASSUME GoOn, pc \in {"answer", "busy"} PROVE asked' \in BOOLEAN
    BY <1>0, <2>1, GoesOn DEF CommandIsForCall, TypeOK
  <2>2. CASE Answered \/ BusyEnds
    BY <1>0, <2>1, <2>2 DEF Answered, BusyEnds, TypeOK
  <2>3. CASE ~(Answered \/ BusyEnds)
    BY <1>0, <2>3 DEF Next, vars, controller, DriverStep, InitMMC, InitSequence, ReadBlock,
         WriteBlock, Begin, Send, CopyIn, CopyOut, TransferEnds, SetUpDone, Answer, Refuse,
         CardPowersUp, CardGoesOn, TypeOK
  <2> QED
    BY <2>2, <2>3
<1>4. /\ app' \in BOOLEAN /\ up' \in BOOLEAN
      /\ card' \in {"idle", "ready", "ident", "stby", "tran"}
      /\ then' \in {None, "busy", "read", "wait", "room", "program"}
      /\ spoiled' \in BOOLEAN
  <2>1. CASE Answer
    BY <1>0, <2>1 DEF Answer, StateAfter, TypeOK
  <2>2. CASE Refuse
    BY <1>0, <2>2 DEF Refuse, Dispensable, TypeOK
  <2>3. CASE CardPowersUp
    BY <1>0, <2>3 DEF CardPowersUp, TypeOK
  <2>4. CASE CardGoesOn
    BY <1>0, <2>4 DEF CardGoesOn, TypeOK
  <2>5. CASE CopyOut
    BY <1>0, <2>5 DEF CopyOut, TypeOK
  <2>6. UNCHANGED <<app, up, card, then, spoiled>> \/ Answer \/ Refuse \/ CardPowersUp
        \/ CardGoesOn \/ CopyOut
    BY DEF Next, vars, cardVars, DriverStep, InitMMC, InitSequence, Answered, BusyEnds, ReadBlock,
       WriteBlock, Begin, CopyIn, TransferEnds, SetUpDone
  <2>7. CASE UNCHANGED <<app, up, card, then, spoiled>>
    BY <1>0, <2>7 DEF TypeOK
  <2> QED
    BY <2>1, <2>2, <2>3, <2>4, <2>5, <2>6, <2>7
<1>5. noise' \in 0 .. MaxNoise
  <2>1. CASE Refuse
    BY <1>0, <2>1, NoiseAssumption DEF Refuse, TypeOK
  <2>2. CASE ~Refuse
    BY <1>0, <2>2 DEF Next, vars, DriverStep, InitMMC, InitSequence, Answered, BusyEnds, ReadBlock,
         WriteBlock, Begin, CopyIn, CopyOut, TransferEnds, SetUpDone, Answer, CardPowersUp,
         CardGoesOn, TypeOK
  <2> QED
    BY <2>1, <2>2
<1>6. call' = None \/ call'.block \in Blocks
  BY CallOfCommand DEF CommandIsForCall, Store!Calls
<1>7. pc' = "transfer" => call' # None
  BY DEF CommandIsForCall
<1>8. memory' \in [Blocks -> Contents]
  <2>1. CASE memory' = memory
    BY <1>0, <2>1 DEF TypeOK
  <2>2. CASE CardGoesOn /\ then = "program"
    <3>1. memory' = [memory EXCEPT ![cmd.arg] = fifo]
      BY <2>2, NoneAssumption DEF CardGoesOn
    <3>2. pc = "transfer" /\ call.op = "write" /\ fifo = call.value
      BY <2>2, NoneAssumption
      DEF CardGoesOn, CardInv, Reported, TypeOK, AnswerReported, BusyReported, TransferReported
    <3>3. call \in Store!Calls /\ fifo \in Contents
      BY <1>0, <3>2 DEF CommandIsForCall, Store!Calls
    <3> QED
      BY <1>0, <3>1, <3>3 DEF TypeOK
  <2>3. memory' = memory \/ (CardGoesOn /\ then = "program")
    BY DEF Next, vars, cardVars, DriverStep, InitMMC, InitSequence, Answered, BusyEnds, ReadBlock,
       WriteBlock, Begin, CopyIn, CopyOut, TransferEnds, SetUpDone, Answer, Refuse, CardPowersUp,
       CardGoesOn
  <2> QED
    BY <2>1, <2>2, <2>3
<1> QED
  BY <1>1, <1>2, <1>3, <1>4, <1>5, <1>6, <1>7, <1>8 DEF TypeOK

(* The invariant holds for any number of blocks and of commands spoiled.   *)
THEOREM CardInvariant == Spec => []CardInv
<1>1. CardInv /\ [Next]_vars => CardInv'
  BY StepIsStoreStep, StepKeepsTypes DEF CardInv
<1> QED
  BY InitEstablishes, <1>1, PTL DEF Spec

(* The driver, controller and card keep to their states.                   *)
THEOREM CardTypeCorrect == Spec => []TypeOK
<1>1. CardInv => TypeOK
  BY DEF CardInv
<1> QED
  BY CardInvariant, <1>1, PTL

(* No status bit is older than the command that is out.                    *)
THEOREM CardStatusIsFresh == Spec => []StatusIsFresh
<1>1. CardInv => StatusIsFresh
  BY DEF CardInv, Reported, StatusIsFresh
<1> QED
  BY CardInvariant, <1>1, PTL

(* The calls of the driver read and write whole blocks, each at one moment *)
(* between its start and its return.                                       *)
THEOREM CardImplementsBlockStore == Spec => ImplementsBlockStore
<1>1. Init => Store!Init
  BY DEF Init, Store!Init
<1>2. CardInv /\ [Next]_vars => [Store!Next]_(Store!vars)
  BY StepIsStoreStep
<1> QED
  BY CardInvariant, <1>1, <1>2, PTL DEF Spec, ImplementsBlockStore, Store!Spec
=============================================================================
