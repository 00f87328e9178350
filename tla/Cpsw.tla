-------------------------------- MODULE Cpsw ---------------------------------
(***************************************************************************)
(* The descriptors shared by the Ethernet controller and its driver        *)
(* (drivers/cpsw.c), and what the controller does with them.               *)
(*                                                                         *)
(* Descriptors are numbered along the receive chain; 0 is the null         *)
(* pointer.  The buffer of receive descriptor d is called d; a frame is    *)
(* what the protocol stack tells apart in it.  The controller is not code  *)
(* of this repository: it fills the descriptors in order, stops after the  *)
(* last, and holds its interrupt status up until the driver acknowledges   *)
(* the descriptor it completed last.                                       *)
(***************************************************************************)
EXTENDS Integers, Sequences

CONSTANTS NumDescriptors,    \* NUM_DESCRIPTORS (50)
          Frames,            \* what can come in
          NoFrame,
          NoBuffer

ASSUME NumDescriptorsAssumption == NumDescriptors \in Nat \ {0}

Descriptors == 1 .. NumDescriptors

VARIABLES
  rx,          \* [Descriptors -> [own, frame]]; own: it is the controller's
  hdp,         \* RX0_HDP: the descriptor to be filled next, 0 when stopped
  lastDone,    \* the one completed last, in the controller's RX0_CP
  rxStatus,    \* RX_INT_STATUS_RAW
  free,        \* rxch.free: where the driver looks next
  tx,          \* the buffer being transmitted, or NoBuffer
  txStatus     \* TX_INT_STATUS_RAW

rxVars == <<rx, hdp, lastDone, rxStatus, free>>
txVars == <<tx, txStatus>>

Empty == [own |-> TRUE, frame |-> NoFrame]

CpswTypeOK ==
  /\ DOMAIN rx = Descriptors
  /\ \A d \in Descriptors : /\ rx[d] = [own |-> rx[d].own, frame |-> rx[d].frame]
                            /\ rx[d].own \in BOOLEAN /\ (rx[d].own <=> rx[d].frame = NoFrame)
  /\ hdp \in {0} \cup Descriptors /\ lastDone \in {0} \cup Descriptors
  /\ free \in Descriptors
  /\ rxStatus \in BOOLEAN /\ txStatus \in BOOLEAN

(* cpsw_setup_cpdma_descriptors and the first cpsw_start_recieption.       *)
CpswInit ==
  /\ rx = [d \in Descriptors |-> Empty]
  /\ hdp = 1 /\ lastDone = 0 /\ rxStatus = FALSE
  /\ free = 1
  /\ tx = NoBuffer /\ txStatus = FALSE

----------------------------------------------------------------------------
(* The controller.                                                         *)

(* A frame fills the next descriptor, or is lost.                          *)
Arrive(f) ==
  /\ IF hdp = 0 THEN UNCHANGED rxVars
     ELSE /\ rx' = [rx EXCEPT ![hdp] = [own |-> FALSE, frame |-> f]]
          /\ hdp' = IF hdp = NumDescriptors THEN 0 ELSE hdp + 1
          /\ lastDone' = hdp /\ rxStatus' = TRUE
          /\ UNCHANGED free
  /\ UNCHANGED txVars

TxDone ==
  /\ tx # NoBuffer
  /\ tx' = NoBuffer /\ txStatus' = TRUE
  /\ UNCHANGED rxVars

----------------------------------------------------------------------------
(* The driver.                                                             *)

(* cpsw_transmit: the descriptor is filled and given to the controller;    *)
StartTransmit(buffer) == tx' = buffer /\ UNCHANGED <<txStatus, rxVars>>

(* Mutant: cpsw_transmit does not wait.                                    *)
BadTransmitted == txStatus' = FALSE /\ UNCHANGED <<tx, rxVars>>

(* it returns when the status is up, and acknowledges.                     *)
Transmitted == txStatus /\ txStatus' = FALSE /\ UNCHANGED <<tx, rxVars>>

(* Mutants: only the length, or only the flags, are set again.             *)
BadGiveBack(d) == rx' = rx /\ UNCHANGED <<hdp, lastDone, rxStatus, free, txVars>>
BadFlagsOnly(d) ==
  /\ rx' = [rx EXCEPT ![d].own = TRUE]
  /\ UNCHANGED <<hdp, lastDone, rxStatus, free, txVars>>

(* cpsw_recv, after a packet was processed: the descriptor is made ready   *)
(* for the controller again.                                               *)
GiveBack(d) ==
  /\ rx' = [rx EXCEPT ![d] = Empty]
  /\ UNCHANGED <<hdp, lastDone, rxStatus, free, txVars>>

(* RX0_CP is written: the status stays up if another one was completed.    *)
Acknowledge(d) == rxStatus' = (lastDone # d) /\ UNCHANGED lastDone

(* Mutant: at the end of the chain, free keeps what the loop left in it.   *)
BadRestart == hdp' = 1 /\ free' = NumDescriptors

(* The end of the chain: cpsw_start_recieption from its head.              *)
Restart == hdp' = 1 /\ free' = 1
=============================================================================
