------------------------------ MODULE E1000Rx ------------------------------
(***************************************************************************)
(* The receive ring of the E1000 driver (kern/e1000.c).                    *)
(*                                                                         *)
(* The driver and the network card share N descriptors.  The card fills    *)
(* the descriptor at RDH and sets its DD bit; the driver looks at the      *)
(* descriptor after RDT, copies the frame out and moves RDT onto it, which *)
(* gives the descriptor back.  Every access of the driver to shared memory *)
(* or to a register is a step of its own, so the card's DMA falls between  *)
(* any two of them.                                                        *)
(*                                                                         *)
(* Frames are numbered 1, 2, ... in the order the card accepts them; a     *)
(* frame that finds no free descriptor is dropped and leaves no trace.     *)
(***************************************************************************)
EXTENDS Integers, Sequences

CONSTANTS N,          \* E1000_NU_DESC
          MaxFrames,  \* bound: frames the card accepts in a behaviour
          QuietInit   \* TRUE: no frame arrives before e1000_receive_init ends

ASSUME NAssumption == N \in Nat /\ N >= 2
ASSUME MaxFramesAssumption == MaxFrames \in Nat
ASSUME QuietInitAssumption == QuietInit \in BOOLEAN

Slots == 0 .. N - 1
Frames == 1 .. MaxFrames

VARIABLES
  rdh, rdt,     \* the head and tail registers
  enabled,      \* RCTL.EN
  dd, eop,      \* status bits of rx_desc_table[i]
  addr,         \* rx_desc_table[i].buf_addr has been set
  buf,          \* rx_buf[i]: the frame in it, 0 for none
  dma,          \* the card has written rx_buf[rdh] and not yet its status
  accepted,     \* number of frames the card has accepted
  pc,           \* where the driver is
  i,            \* loop index of e1000_receive_init, tail_rx of e1000_receive
  inLoop,       \* the kernel is inside mon_eth_recv
  got,          \* the caller's buffer
  delivered     \* every frame e1000_receive returned, in order

device == <<rdh, dma, accepted>>
driver == <<rdt, enabled, addr, pc, i, inLoop, got, delivered>>
shared == <<dd, eop, buf>>
vars == <<device, driver, shared>>

InitSteps == {"regs", "enable", "desc"}
ReceiveSteps == {"receive", "clear", "copy", "tail"}

NextSlot(s) == (s + 1) % N

Init ==
  /\ rdh = 0 /\ rdt = 0 /\ enabled = FALSE
  /\ dd = [s \in Slots |-> FALSE]
  /\ eop = [s \in Slots |-> FALSE]
  /\ addr = [s \in Slots |-> FALSE]
  /\ buf = [s \in Slots |-> 0]
  /\ dma = FALSE /\ accepted = 0
  /\ pc = "regs" /\ i = 0 /\ inLoop = FALSE
  /\ got = 0 /\ delivered = <<>>

-----------------------------------------------------------------------------
(* e1000_receive_init: registers, then RCTL.EN, then the descriptors.       *)

SetRegs ==
  /\ pc = "regs"
  /\ rdh' = 0 /\ rdt' = N - 1
  /\ pc' = "enable"
  /\ UNCHANGED <<dma, accepted, enabled, addr, i, inLoop, got, delivered, shared>>

EnableReceiver ==
  /\ pc = "enable"
  /\ enabled' = TRUE /\ i' = 0
  /\ pc' = "desc"
  /\ UNCHANGED <<device, rdt, addr, inLoop, got, delivered, shared>>

InitDesc ==
  /\ pc = "desc"
  /\ dd' = [dd EXCEPT ![i] = FALSE]
  /\ addr' = [addr EXCEPT ![i] = TRUE]
  /\ IF i + 1 < N
       THEN i' = i + 1 /\ pc' = pc
       ELSE i' = 0 /\ pc' = "monitor"
  /\ UNCHANGED <<device, rdt, enabled, inLoop, got, delivered, eop, buf>>

-----------------------------------------------------------------------------
(* The monitor's commands that reach the ring.                              *)

MonE1000Recv ==
  /\ pc = "monitor"
  /\ pc' = "receive"
  /\ UNCHANGED <<device, rdt, enabled, addr, i, inLoop, got, delivered, shared>>

MonEthRecv ==
  /\ pc = "monitor"
  /\ inLoop' = TRUE
  /\ pc' = "listen"
  /\ UNCHANGED <<device, rdt, enabled, addr, i, got, delivered, shared>>

(* A poll that finds DD clear changes nothing: the loop stays where it is.  *)
Listen ==
  /\ pc = "listen"
  /\ dd[NextSlot(rdt)]
  /\ pc' = "receive"
  /\ UNCHANGED <<device, rdt, enabled, addr, i, inLoop, got, delivered, shared>>

-----------------------------------------------------------------------------
(* e1000_receive                                                            *)

AfterReceive == IF inLoop THEN "listen" ELSE "monitor"

CheckEopOnly ==
  /\ pc = "receive"
  /\ i' = NextSlot(rdt)
  /\ pc' = IF eop[NextSlot(rdt)] THEN "clear" ELSE AfterReceive
  /\ UNCHANGED <<device, rdt, enabled, addr, inLoop, got, delivered, shared>>

CheckStatus ==
  /\ pc = "receive"
  /\ i' = NextSlot(rdt)
  /\ pc' = IF dd[NextSlot(rdt)] /\ eop[NextSlot(rdt)] THEN "clear" ELSE AfterReceive
  /\ UNCHANGED <<device, rdt, enabled, addr, inLoop, got, delivered, shared>>

ClearDD ==
  /\ pc = "clear"
  /\ dd' = [dd EXCEPT ![i] = FALSE]
  /\ pc' = "copy"
  /\ UNCHANGED <<device, rdt, enabled, addr, i, inLoop, got, delivered, eop, buf>>

CopyFrame ==
  /\ pc = "copy"
  /\ got' = buf[i]
  /\ pc' = "tail"
  /\ UNCHANGED <<device, rdt, enabled, addr, i, inLoop, delivered, shared>>

WriteTailOffByOne ==
  /\ pc = "tail"
  /\ rdt' = i + 1
  /\ delivered' = Append(delivered, got)
  /\ pc' = AfterReceive
  /\ UNCHANGED <<device, enabled, addr, i, inLoop, got, shared>>

WriteTailForgotten ==
  /\ pc = "tail"
  /\ delivered' = Append(delivered, got)
  /\ pc' = AfterReceive
  /\ UNCHANGED <<device, rdt, enabled, addr, i, inLoop, got, shared>>

WriteTail ==
  /\ pc = "tail"
  /\ rdt' = i
  /\ delivered' = Append(delivered, got)
  /\ pc' = AfterReceive
  /\ UNCHANGED <<device, enabled, addr, i, inLoop, got, shared>>

-----------------------------------------------------------------------------
(* The card (external): it owns the descriptors from RDH up to RDT, writes  *)
(* the frame, then the status, then moves on.  A descriptor whose address   *)
(* is not set yet is completed without storing the frame.                   *)

DmaFrame ==
  /\ enabled /\ ~dma /\ rdh # rdt
  /\ accepted < MaxFrames
  /\ QuietInit => pc \notin InitSteps
  /\ buf' = IF addr[rdh] THEN [buf EXCEPT ![rdh] = accepted + 1] ELSE buf
  /\ dma' = TRUE
  /\ UNCHANGED <<rdh, accepted, driver, dd, eop>>

DmaStatus ==
  /\ dma
  /\ dd' = [dd EXCEPT ![rdh] = TRUE]
  /\ eop' = [eop EXCEPT ![rdh] = TRUE]
  /\ rdh' = NextSlot(rdh)
  /\ accepted' = accepted + 1
  /\ dma' = FALSE
  /\ UNCHANGED <<driver, buf>>

ReceiveInit == SetRegs \/ EnableReceiver \/ InitDesc
Monitor == MonE1000Recv \/ MonEthRecv
Receive == Listen \/ CheckStatus \/ ClearDD \/ CopyFrame \/ WriteTail
Card == DmaFrame \/ DmaStatus

Next == ReceiveInit \/ Monitor \/ Receive \/ Card

(* The kernel runs this code on one CPU and is never preempted in it, so a  *)
(* step the driver can take is taken; a DMA that has begun is finished.     *)
(* Nothing forces a frame to arrive or a command to be typed.               *)
Fairness == WF_vars(ReceiveInit) /\ WF_vars(Receive) /\ WF_vars(DmaStatus)

Spec == Init /\ [][Next]_vars /\ Fairness

-----------------------------------------------------------------------------
(* The registers, status bits and local variables of the ring have their    *)
(* types; in particular RDH and RDT stay inside the descriptor table.       *)
TypeOK ==
  /\ rdh \in Slots /\ rdt \in Slots /\ i \in Slots
  /\ enabled \in BOOLEAN /\ dma \in BOOLEAN /\ inLoop \in BOOLEAN
  /\ dd \in [Slots -> BOOLEAN] /\ eop \in [Slots -> BOOLEAN]
  /\ addr \in [Slots -> BOOLEAN]
  /\ buf \in [Slots -> 0 .. MaxFrames]
  /\ accepted \in 0 .. MaxFrames
  /\ got \in 0 .. MaxFrames
  /\ delivered \in Seq(0 .. MaxFrames)
  /\ pc \in InitSteps \cup ReceiveSteps \cup {"monitor", "listen"}

(* How far slot s is ahead of the slot the driver reads next.               *)
Ahead(s) == IF s > rdt THEN s - rdt - 1 ELSE s + N - rdt - 1

(* The number of descriptors the card has filled and not got back.          *)
Pending == Ahead(rdh)

(* A DMA in progress has a frame to count and a descriptor to complete.     *)
DmaInv == dma => enabled /\ rdh # rdt /\ accepted < MaxFrames

(* Before e1000_receive_init ends the card has done nothing, the registers  *)
(* hold the values SetRegs gave them and the descriptors below i are set.   *)
InitInv ==
  pc \in InitSteps =>
    /\ ~dma /\ accepted = 0 /\ delivered = <<>> /\ ~inLoop
    /\ \A s \in Slots : ~dd[s]
    /\ pc # "regs" => rdh = 0 /\ rdt = N - 1
    /\ pc # "desc" => ~enabled
    /\ pc = "desc" => \A s \in Slots : s < i => addr[s]

(* The descriptor e1000_receive is working on.                              *)
Held == IF pc \in {"copy", "tail"} THEN {i} ELSE {}

(* Once the ring is up: the Pending descriptors after RDT hold the frames   *)
(* that follow the delivered ones, in order, and exactly these carry DD     *)
(* (but for the one whose bit e1000_receive has just cleared); the driver's *)
(* local copies agree with the ring.                                        *)
RingInv ==
  pc \notin InitSteps =>
    /\ \A s \in Slots : addr[s]
    /\ accepted = Len(delivered) + Pending
    /\ \A s \in Slots :
         /\ dd[s] <=> Ahead(s) < Pending /\ s \notin Held
         /\ Ahead(s) < Pending => buf[s] = Len(delivered) + 1 + Ahead(s) /\ eop[s]
    /\ dma => buf[rdh] = accepted + 1
    /\ pc \in {"clear", "copy", "tail"} => i = NextSlot(rdt) /\ Pending > 0
    /\ pc = "tail" => got = Len(delivered) + 1

(* e1000_receive hands up the frames the card accepted, each once and in    *)
(* the order of their arrival, however the card's writes fall between the   *)
(* driver's status check, copy and tail update.                             *)
InOrder == \A k \in 1 .. Len(delivered) : delivered[k] = k

(* While e1000_receive works on a descriptor the card is not writing to it  *)
(* and will not: it is not the one RDH points to.                           *)
NoOverwrite == pc \in {"clear", "copy", "tail"} => rdh # i

(* The inductive invariant of the ring when no frame arrives before         *)
(* e1000_receive_init ends: who owns which descriptor, and what is in it.   *)
IndInv == TypeOK /\ DmaInv /\ InitInv /\ RingInv /\ InOrder

(* The ring is a FIFO of N - 1 frames: the state the card and the driver    *)
(* share, read from RDT + 1 up to RDH, is the queue.                        *)
RingQueue ==
  IF pc \in InitSteps THEN <<>>
  ELSE [k \in 1 .. Pending |-> buf[(rdt + k) % N]]

Fifo == INSTANCE BoundedFifo
          WITH Items <- Frames, Cap <- N - 1, queue <- RingQueue, output <- delivered

RefinesFifo == Fifo!Spec

(* In the loop of mon_eth_recv every frame the card has accepted is handed  *)
(* to eth_recv: the poll of e1000_listen cannot miss a filled descriptor.   *)
EveryFrameDelivered ==
  \A n \in Frames : (inLoop /\ accepted >= n) ~> Len(delivered) >= n
=============================================================================
