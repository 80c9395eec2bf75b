------------------------------ MODULE E1000Tx ------------------------------
(***************************************************************************)
(* The transmit ring of the E1000 driver (kern/e1000.c).                   *)
(*                                                                         *)
(* e1000_transmit takes the descriptor at TDT if its DD bit is set, copies *)
(* the frame, clears DD and moves TDT on; the card sends the descriptors   *)
(* from TDH up to TDT and sets their DD bits.  The card runs between any   *)
(* two steps of the driver.                                                *)
(*                                                                         *)
(* Frames are numbered 1, 2, ... in the order e1000_transmit accepts them. *)
(* Lag says how far the card may fall behind before a caller transmits     *)
(* again: 1 is a card that sends inside the write to TDT (QEMU), N + 1 a   *)
(* card and a caller that do not wait for each other.                      *)
(***************************************************************************)
EXTENDS Integers, Sequences

CONSTANTS N,          \* E1000_NU_DESC
          MaxFrames,  \* bound: frames accepted in a behaviour
          Lag

ASSUME NAssumption == N \in Nat /\ N >= 2
ASSUME MaxFramesAssumption == MaxFrames \in Nat
ASSUME LagAssumption == Lag \in 1 .. N + 1

Slots == 0 .. N - 1
Frames == 1 .. MaxFrames

VARIABLES
  tdh, tdt,   \* the head and tail registers
  dd,         \* DD of tx_desc_table[i].status
  buf,        \* tx_buf[i]: the frame in it, 0 for none
  dma,        \* the card is sending the descriptor at TDH
  fetched,    \* the frame it read from there
  wire,       \* every frame sent, in order
  accepted,   \* number of calls that returned 0
  pc,         \* where e1000_transmit is
  tail_tx     \* its local variable

card == <<tdh, dma, fetched, wire>>
vars == <<card, tdt, dd, buf, accepted, pc, tail_tx>>

NextSlot(s) == (s + 1) % N

(* Frames accepted and not yet sent.                                        *)
Outstanding == accepted - Len(wire)

Init ==
  /\ tdh = 0 /\ tdt = 0
  /\ dd = [s \in Slots |-> FALSE]
  /\ buf = [s \in Slots |-> 0]
  /\ dma = FALSE /\ fetched = 0 /\ wire = <<>>
  /\ accepted = 0 /\ pc = "attach" /\ tail_tx = 0

(* e1000_transmit_init.  TDH = TDT keeps the card away from the descriptors *)
(* until the first frame, so its steps cannot be told apart.                *)
TransmitInit ==
  /\ pc = "attach"
  /\ tdh' = 0 /\ tdt' = 0
  /\ dd' = [s \in Slots |-> TRUE]
  /\ pc' = "idle"
  /\ UNCHANGED <<dma, fetched, wire, buf, accepted, tail_tx>>

-----------------------------------------------------------------------------
(* e1000_transmit                                                           *)

Transmit ==
  /\ pc = "idle"
  /\ accepted < MaxFrames
  /\ Outstanding < Lag
  /\ tail_tx' = tdt
  /\ pc' = "check"
  /\ UNCHANGED <<card, tdt, dd, buf, accepted>>

CheckStatus ==
  /\ pc = "check"
  /\ pc' = IF dd[tail_tx] THEN "copy" ELSE "refused"
  /\ UNCHANGED <<card, tdt, dd, buf, accepted, tail_tx>>

(* return -1: the caller goes on without the frame.                         *)
ReturnFull ==
  /\ pc = "refused"
  /\ pc' = "idle"
  /\ UNCHANGED <<card, tdt, dd, buf, accepted, tail_tx>>

CopyFrame ==
  /\ pc = "copy"
  /\ buf' = [buf EXCEPT ![tail_tx] = accepted + 1]
  /\ pc' = "clear"
  /\ UNCHANGED <<card, tdt, dd, accepted, tail_tx>>

ClearDD ==
  /\ pc = "clear"
  /\ dd' = [dd EXCEPT ![tail_tx] = FALSE]
  /\ pc' = "tail"
  /\ UNCHANGED <<card, tdt, buf, accepted, tail_tx>>

WriteTailTwice ==
  /\ pc = "tail"
  /\ tdt' = NextSlot(NextSlot(tail_tx))
  /\ accepted' = accepted + 1
  /\ pc' = "idle"
  /\ UNCHANGED <<card, dd, buf, tail_tx>>

WriteTailForgotten ==
  /\ pc = "tail"
  /\ accepted' = accepted + 1
  /\ pc' = "idle"
  /\ UNCHANGED <<card, tdt, dd, buf, tail_tx>>

WriteTail ==
  /\ pc = "tail"
  /\ tdt' = NextSlot(tail_tx)
  /\ accepted' = accepted + 1
  /\ pc' = "idle"
  /\ UNCHANGED <<card, dd, buf, tail_tx>>

-----------------------------------------------------------------------------
(* The card (external)                                                      *)

Fetch ==
  /\ ~dma /\ tdh # tdt
  /\ fetched' = buf[tdh]
  /\ dma' = TRUE
  /\ UNCHANGED <<tdh, wire, tdt, dd, buf, accepted, pc, tail_tx>>

Complete ==
  /\ dma
  /\ wire' = Append(wire, fetched)
  /\ dd' = [dd EXCEPT ![tdh] = TRUE]
  /\ tdh' = NextSlot(tdh)
  /\ dma' = FALSE
  /\ UNCHANGED <<fetched, tdt, buf, accepted, pc, tail_tx>>

InTransmit == CheckStatus \/ ReturnFull \/ CopyFrame \/ ClearDD \/ WriteTail

Next == TransmitInit \/ Transmit \/ InTransmit \/ Fetch \/ Complete

(* A call of e1000_transmit runs to its end; a card with work to do does    *)
(* it.  Nothing forces a call.                                              *)
Fairness == WF_vars(InTransmit) /\ WF_vars(Fetch) /\ WF_vars(Complete)

Spec == Init /\ [][Next]_vars /\ Fairness

-----------------------------------------------------------------------------
(* Registers, status bits and local variables have their types: TDH and TDT *)
(* stay inside the descriptor table.                                        *)
TypeOK ==
  /\ tdh \in Slots /\ tdt \in Slots /\ tail_tx \in Slots
  /\ dd \in [Slots -> BOOLEAN]
  /\ buf \in [Slots -> 0 .. MaxFrames]
  /\ dma \in BOOLEAN
  /\ fetched \in 0 .. MaxFrames
  /\ wire \in Seq(0 .. MaxFrames)
  /\ accepted \in 0 .. MaxFrames
  /\ pc \in {"attach", "idle", "check", "refused", "copy", "clear", "tail"}

(* The card sends the accepted frames, each once and in order, even when    *)
(* callers outrun it: the DD check keeps e1000_transmit from overwriting a  *)
(* frame that is still to be sent.                                          *)
InOrder == \A k \in 1 .. Len(wire) : wire[k] = k

(* Distance of slot s from TDH.                                             *)
Offset(s) == IF s >= tdh THEN s - tdh ELSE s + N - tdh

Held == IF pc = "tail" THEN {tail_tx} ELSE {}

(* The outstanding frames sit in the slots from TDH on, in order; exactly   *)
(* these (and the slot a call has just prepared) have DD clear; TDT is the  *)
(* slot after them, which is TDH again when all N slots are outstanding.    *)
RingInv ==
  pc # "attach" =>
    /\ Outstanding \in 0 .. N
    /\ Outstanding < N => Offset(tdt) = Outstanding
    /\ Outstanding = N => tdt = tdh
    /\ \A s \in Slots :
         /\ dd[s] <=> Offset(s) >= Outstanding /\ s \notin Held
         /\ Offset(s) < Outstanding => buf[s] = Len(wire) + 1 + Offset(s)
    /\ pc \notin {"idle", "attach"} => tail_tx = tdt
    /\ pc \in {"copy", "clear", "tail"} => Outstanding < N
    /\ pc \in {"clear", "tail"} => buf[tail_tx] = accepted + 1
    /\ pc # "idle" => accepted < MaxFrames
    /\ dma => Outstanding > 0 /\ fetched = Len(wire) + 1

(* The inductive invariant of the transmit ring, for every Lag.             *)
IndInv ==
  /\ TypeOK /\ RingInv /\ InOrder
  /\ pc = "attach" => tdh = 0 /\ tdt = 0 /\ ~dma /\ accepted = 0 /\ wire = <<>>

(* With all N descriptors outstanding and TDH = TDT the card takes the ring *)
(* for empty.                                                               *)
Wedged == Outstanding = N /\ ~dma

(* A wedged ring stays wedged: no later call of e1000_transmit, and no step *)
(* of the card, gets it going again.                                        *)
WedgedForever == [][Wedged => Wedged']_vars

(* e1000_transmit refuses a frame only when all N descriptors wait for the  *)
(* card, although it looks at one DD bit only.                              *)
RefusesOnlyFull == [][pc = "check" /\ pc' = "refused" => Outstanding = N]_vars

(* A card that keeps up is never met with "transmit queue is full".         *)
NeverRefused == pc # "refused"

(* The ring is a FIFO of N frames.                                          *)
RingQueue ==
  [k \in 1 .. Outstanding |-> buf[(tdh + k - 1) % N]]

Fifo == INSTANCE BoundedFifo
          WITH Items <- Frames, Cap <- N, queue <- RingQueue, output <- wire

(* The ring implements that FIFO: DD, TDH and TDT together decide what is   *)
(* in it.                                                                   *)
RefinesFifo == Fifo!Spec

(* Every frame e1000_transmit accepted reaches the wire (does not hold when *)
(* callers outrun the card) ...                                             *)
EveryFrameSent == \A n \in Frames : accepted >= n ~> Len(wire) >= n

(* ... or is caught in a wedged ring: there is no other way to lose it.     *)
SentUnlessWedged == \A n \in Frames : accepted >= n ~> Len(wire) >= n \/ Wedged
=============================================================================
