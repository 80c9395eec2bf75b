--------------------------- MODULE E1000RxProofs ---------------------------
(***************************************************************************)
(* Proofs about the E1000 receive ring, for a ring of any size.            *)
(***************************************************************************)
EXTENDS E1000Rx, SequenceTheorems, TLAPS

(* Frames are numbered in the order in which they enter the ring, so what   *)
(* is in the ring is an interval of numbers: those from d + 1 to a.         *)
Numbers(d, a) == [k \in 1 .. a - d |-> d + k]

(* What Append, Head and Tail make of such a queue.                         *)
LEMMA NumbersFacts ==
  ASSUME NEW d \in Nat, NEW a \in Nat, d <= a
  PROVE  /\ Numbers(d, a) \in Seq(Nat) /\ Len(Numbers(d, a)) = a - d
         /\ Append(Numbers(d, a), a + 1) = Numbers(d, a + 1)
         /\ d < a => /\ Numbers(d, a) # <<>>
                     /\ Head(Numbers(d, a)) = d + 1
                     /\ Tail(Numbers(d, a)) = Numbers(d + 1, a)
<1>1. Numbers(d, a) \in Seq(Nat) /\ Len(Numbers(d, a)) = a - d
  BY DEF Numbers
<1>2. Append(Numbers(d, a), a + 1) = Numbers(d, a + 1)
  BY <1>1 DEF Numbers
<1>3. ASSUME d < a PROVE Numbers(d, a) # <<>> /\ Head(Numbers(d, a)) = d + 1
  BY <1>1, <1>3 DEF Numbers
<1>4. ASSUME d < a PROVE Tail(Numbers(d, a)) = Numbers(d + 1, a)
  <2>1. Numbers(d + 1, a) \in Seq(Nat) /\ Len(Numbers(d + 1, a)) = a - d - 1
    BY <1>4 DEF Numbers
  <2>2. Tail(Numbers(d, a)) \in Seq(Nat) /\ Len(Tail(Numbers(d, a))) = a - d - 1
    BY <1>1, <1>3, <1>4
  <2>3. ASSUME NEW k \in 1 .. a - d - 1 PROVE Tail(Numbers(d, a))[k] = Numbers(d + 1, a)[k]
    <3>1. Tail(Numbers(d, a))[k] = Numbers(d, a)[k + 1]
      BY <1>1, <1>3, <1>4, <2>2
    <3>. QED
      BY <3>1 DEF Numbers
  <2>. QED
    BY <2>1, <2>2, <2>3, SeqEqual, Zenon
<1>. QED
  BY <1>1, <1>2, <1>3, <1>4

(* (tail + 1) % E1000_NU_DESC wraps at the last descriptor.                 *)
LEMMA NextSlotValue ==
  \A s \in Slots : /\ NextSlot(s) = IF s = N - 1 THEN 0 ELSE s + 1
                   /\ NextSlot(s) \in Slots
  BY NAssumption DEF NextSlot, Slots

(* What TypeOK needs to be inductive: DmaStatus counts a frame for which    *)
(* DmaFrame found room.                                                     *)
TypeInv == TypeOK /\ (dma => accepted < MaxFrames)

-----------------------------------------------------------------------------
(* Every step of the driver and of the card keeps registers, status bits    *)
(* and buffers in their types, whether or not frames arrive during          *)
(* e1000_receive_init.                                                      *)
LEMMA TypeInvStep == TypeInv /\ [Next]_vars => TypeInv'
<1>. SUFFICES ASSUME TypeInv, [Next]_vars PROVE TypeInv'
  OBVIOUS
<1>. USE NAssumption, MaxFramesAssumption, NextSlotValue
     DEF TypeInv, TypeOK, Slots, InitSteps, ReceiveSteps
<1>1. CASE SetRegs
  BY <1>1 DEF SetRegs, shared
<1>2. CASE EnableReceiver
  BY <1>2 DEF EnableReceiver, device, shared
<1>3. CASE InitDesc
  <2>1. dd' \in [Slots -> BOOLEAN] /\ addr' \in [Slots -> BOOLEAN]
    <3>1. /\ dd' = [dd EXCEPT ![i] = FALSE] /\ addr' = [addr EXCEPT ![i] = TRUE]
          /\ dd \in [Slots -> BOOLEAN] /\ addr \in [Slots -> BOOLEAN]
      BY ONLY TypeInv, <1>3, Zenon DEF InitDesc, TypeInv, TypeOK
    <3>. QED
      BY ONLY <3>1, Zenon
  <2>2. i' \in Slots /\ pc' \in InitSteps \cup {"monitor"}
    <3>1. /\ i \in Slots /\ pc = "desc"
          /\ (i + 1 < N /\ i' = i + 1 /\ pc' = pc) \/ (i' = 0 /\ pc' = "monitor")
      BY ONLY TypeInv, <1>3, Zenon DEF InitDesc, TypeInv, TypeOK
    <3>. QED
      BY ONLY NAssumption, <3>1 DEF Slots, InitSteps
  <2>. QED
    BY ONLY TypeInv, <1>3, <2>1, <2>2 DEF InitDesc, device, TypeInv, TypeOK
<1>4. CASE MonE1000Recv
  BY <1>4, Zenon DEF MonE1000Recv, device, shared
<1>5. CASE MonEthRecv
  BY <1>5 DEF MonEthRecv, device, shared
<1>6. CASE Listen
  BY <1>6, Zenon DEF Listen, device, shared
<1>7. CASE CheckStatus
  <2>1. NextSlot(rdt) \in Slots
    OBVIOUS
  <2>. QED
    BY <1>7, <2>1, Zenon DEF CheckStatus, device, shared, AfterReceive
<1>8. CASE ClearDD
  BY <1>8, Zenon DEF ClearDD, device
<1>9. CASE CopyFrame
  BY <1>9, Zenon DEF CopyFrame, device, shared
<1>10. CASE WriteTail
  BY <1>10 DEF WriteTail, device, shared, AfterReceive
<1>11. CASE DmaFrame
  <2>1. accepted + 1 \in 0 .. MaxFrames
    BY ONLY TypeInv, MaxFramesAssumption, <1>11 DEF DmaFrame, TypeInv, TypeOK
  <2>2. buf' \in [Slots -> 0 .. MaxFrames]
    BY ONLY TypeInv, <1>11, <2>1, Zenon DEF DmaFrame, TypeInv, TypeOK
  <2>. QED
    BY ONLY TypeInv, <1>11, <2>2, Zenon DEF DmaFrame, driver, TypeInv, TypeOK
<1>12. CASE DmaStatus
  <2>1. NextSlot(rdh) \in Slots
    OBVIOUS
  <2>2. accepted' \in 0 .. MaxFrames /\ ~dma'
    BY <1>12 DEF DmaStatus
  <2>3. dd' \in [Slots -> BOOLEAN] /\ eop' \in [Slots -> BOOLEAN]
    BY <1>12, Zenon DEF DmaStatus
  <2>. QED
    BY <1>12, <2>1, <2>2, <2>3, Zenon DEF DmaStatus, driver
<1>13. CASE UNCHANGED vars
  BY <1>13, Zenon DEF vars, device, driver, shared
<1>. QED
  BY <1>1, <1>2, <1>3, <1>4, <1>5, <1>6, <1>7, <1>8, <1>9, <1>10, <1>11, <1>12, <1>13, Zenon
     DEF Next, ReceiveInit, Monitor, Receive, Card

(* The registers and the descriptor table of the receive ring always have   *)
(* their types: RDH and RDT stay inside the table.                          *)
THEOREM TypeCorrect == Spec => []TypeOK
<1>1. Init => TypeInv
  <2>. SUFFICES ASSUME Init PROVE TypeInv
    OBVIOUS
  <2>. USE NAssumption, MaxFramesAssumption DEF Init, Slots
  <2>1. delivered \in Seq(0 .. MaxFrames)
    OBVIOUS
  <2>2. rdh \in Slots /\ buf \in [Slots -> 0 .. MaxFrames]
    OBVIOUS
  <2>. QED
    BY <2>1, <2>2 DEF TypeInv, TypeOK, InitSteps
<1>2. TypeInv => TypeOK
  BY DEF TypeInv
<1>. QED
  BY <1>1, <1>2, TypeInvStep, PTL DEF Spec
-----------------------------------------------------------------------------
(* Positions in the ring: slots have distinct distances from RDT, and the   *)
(* distance of the next slot is one more until it wraps onto RDT itself.    *)
LEMMA AheadFacts ==
  ASSUME TypeOK
  PROVE  /\ \A s \in Slots : Ahead(s) \in 0 .. N - 1
         /\ \A s, t \in Slots : Ahead(s) = Ahead(t) => s = t
         /\ \A s \in Slots : Ahead(s) = N - 1 <=> s = rdt
         /\ \A s \in Slots : s # rdt => Ahead(NextSlot(s)) = Ahead(s) + 1
         /\ Ahead(NextSlot(rdt)) = 0
<1>. USE NAssumption DEF Slots, Ahead
<1>1. rdt \in Slots
  BY DEF TypeOK
<1>2. \A s \in Slots : Ahead(s) \in 0 .. N - 1
  BY <1>1
<1>3. \A s, t \in Slots : Ahead(s) = Ahead(t) => s = t
  BY <1>1
<1>4. \A s \in Slots : Ahead(s) = N - 1 <=> s = rdt
  BY <1>1
<1>5. \A s \in Slots : s # rdt => Ahead(NextSlot(s)) = Ahead(s) + 1
  BY <1>1, NextSlotValue
<1>6. Ahead(NextSlot(rdt)) = 0
  BY <1>1, NextSlotValue
<1>. QED
  BY <1>2, <1>3, <1>4, <1>5, <1>6

(* The initialisation of the ring.                                          *)
LEMMA IndInvInit == Init => IndInv
<1>. SUFFICES ASSUME Init PROVE IndInv
  OBVIOUS
<1>1. TypeOK
  <2>. USE NAssumption, MaxFramesAssumption DEF Init, Slots
  <2>1. delivered \in Seq(0 .. MaxFrames)
    OBVIOUS
  <2>2. rdh \in Slots /\ buf \in [Slots -> 0 .. MaxFrames]
    OBVIOUS
  <2>. QED
    BY <2>1, <2>2 DEF TypeOK, InitSteps
<1>2. DmaInv /\ InitInv /\ RingInv
  BY DEF Init, DmaInv, InitInv, RingInv, InitSteps, Slots
<1>3. InOrder
  BY DEF Init, InOrder
<1>. QED
  BY <1>1, <1>2, <1>3 DEF IndInv

(* With a card that is quiet during e1000_receive_init, every step keeps    *)
(* the ownership and the contents of the descriptors as IndInv says.        *)
LEMMA IndInvStep ==
  ASSUME QuietInit = TRUE
  PROVE  IndInv /\ [Next]_vars => IndInv'
<1>. SUFFICES ASSUME IndInv, [Next]_vars PROVE IndInv'
  OBVIOUS
<1>0. TypeOK /\ TypeOK'
  BY TypeInvStep DEF IndInv, DmaInv, TypeInv
<1>. USE NAssumption, MaxFramesAssumption, NextSlotValue, <1>0
<1>a. /\ \A s \in Slots : Ahead(s) \in 0 .. N - 1
      /\ \A s, t \in Slots : Ahead(s) = Ahead(t) => s = t
      /\ \A s \in Slots : Ahead(s) = N - 1 <=> s = rdt
      /\ \A s \in Slots : s # rdt => Ahead(NextSlot(s)) = Ahead(s) + 1
      /\ Ahead(NextSlot(rdt)) = 0
  BY AheadFacts
<1>1. CASE SetRegs
  BY <1>1 DEF SetRegs, shared, IndInv, DmaInv, InitInv, RingInv, InOrder, InitSteps
<1>2. CASE EnableReceiver
  BY <1>2 DEF EnableReceiver, device, shared, IndInv, DmaInv, InitInv, RingInv,
              InOrder, InitSteps, TypeOK, Slots
<1>3. CASE InitDesc
  <2>1. DmaInv' /\ InOrder'
    BY <1>3 DEF InitDesc, device, IndInv, DmaInv, InOrder
  <2>2. InitInv'
    <3>1. /\ pc = "desc" /\ dd' = [dd EXCEPT ![i] = FALSE] /\ addr' = [addr EXCEPT ![i] = TRUE]
          /\ i' = i + 1 \/ (i' = 0 /\ pc' = "monitor")
          /\ UNCHANGED <<rdh, dma, accepted, rdt, enabled, inLoop, delivered>>
      BY ONLY <1>3, Zenon DEF InitDesc, device
    <3>2. /\ ~dma /\ accepted = 0 /\ delivered = <<>> /\ ~inLoop /\ rdh = 0 /\ rdt = N - 1
          /\ \A s \in Slots : ~dd[s] /\ (s < i => addr[s])
      BY ONLY IndInv, <3>1 DEF IndInv, InitInv, InitSteps
    <3>3. /\ \A s \in Slots : ~dd'[s]
          /\ i' = i + 1 => \A s \in Slots : s < i' => addr'[s]
      BY ONLY <1>0, NAssumption, <3>1, <3>2 DEF TypeOK, Slots
    <3>4. pc' \in InitSteps => i' = i + 1 /\ pc' = "desc"
      BY ONLY <1>3 DEF InitDesc, InitSteps
    <3>. QED
      BY ONLY <3>1, <3>2, <3>3, <3>4 DEF InitInv
  <2>3. RingInv'
    <3>. SUFFICES ASSUME i + 1 >= N PROVE RingInv'
      BY <1>3 DEF InitDesc, RingInv, InitSteps, TypeOK, Slots
    <3>1. pc' = "monitor" /\ \A s \in Slots : ~dd'[s] /\ addr'[s]
      BY <1>3 DEF InitDesc, IndInv, InitInv, InitSteps, TypeOK, Slots
    <3>2. Pending' = 0
      BY <1>3 DEF InitDesc, device, IndInv, InitInv, InitSteps, Pending, Ahead
    <3>3. \A s \in Slots : Ahead(s)' \in 0 .. N - 1
      BY <1>3, <1>a DEF InitDesc, device, Ahead
    <3>. QED
      BY <1>3, <3>1, <3>2, <3>3 DEF InitDesc, device, IndInv, InitInv, RingInv, InitSteps
  <2>. QED
    BY <2>1, <2>2, <2>3 DEF IndInv
<1>4. CASE MonE1000Recv
  BY <1>4 DEF MonE1000Recv, device, shared, IndInv, DmaInv, InitInv, RingInv, InOrder,
              InitSteps, Ahead, Pending, Held
<1>5. CASE MonEthRecv
  BY <1>5 DEF MonEthRecv, device, shared, IndInv, DmaInv, InitInv, RingInv, InOrder,
              InitSteps, Ahead, Pending, Held
<1>6. CASE Listen
  BY <1>6 DEF Listen, device, shared, IndInv, DmaInv, InitInv, RingInv, InOrder,
              InitSteps, Ahead, Pending, Held
<1>7. CASE CheckStatus
  <2>1. Pending' = Pending /\ \A s \in Slots : Ahead(s)' = Ahead(s)
    BY <1>7 DEF CheckStatus, device, Pending, Ahead
  <2>2. Held = {} /\ Held' = {} /\ pc' \notin InitSteps
    BY <1>7 DEF CheckStatus, Held, AfterReceive, InitSteps
  <2>3. pc' = "clear" => Pending > 0
    BY <1>7, <2>2, <1>a DEF CheckStatus, IndInv, RingInv, InitSteps, AfterReceive, TypeOK, Pending
  <2>. QED
    BY <1>7, <2>1, <2>2, <2>3 DEF CheckStatus, device, shared, IndInv, DmaInv, InitInv,
       RingInv, InOrder, InitSteps, AfterReceive
<1>8. CASE ClearDD
  <2>1. Pending' = Pending /\ \A s \in Slots : Ahead(s)' = Ahead(s)
    BY <1>8 DEF ClearDD, device, Pending, Ahead
  <2>2. Held = {} /\ Held' = {i} /\ pc' = "copy"
    BY <1>8 DEF ClearDD, Held
  <2>3. RingInv'
    BY <1>8, <2>1, <2>2 DEF ClearDD, device, IndInv, RingInv, InitSteps, TypeOK
  <2>. QED
    BY <1>8, <2>2, <2>3 DEF ClearDD, device, IndInv, DmaInv, InitInv, InOrder, InitSteps
<1>9. CASE CopyFrame
  <2>1. Pending' = Pending /\ \A s \in Slots : Ahead(s)' = Ahead(s)
    BY <1>9 DEF CopyFrame, device, Pending, Ahead
  <2>2. Held' = Held /\ pc' = "tail"
    BY <1>9 DEF CopyFrame, Held
  <2>3. got' = Len(delivered) + 1
    BY <1>9, <1>a DEF CopyFrame, IndInv, RingInv, InitSteps, TypeOK
  <2>. QED
    BY <1>9, <2>1, <2>2, <2>3 DEF CopyFrame, device, shared, IndInv, DmaInv, InitInv,
       RingInv, InOrder, InitSteps
<1>10. CASE WriteTail
  <2>. USE <1>10 DEF WriteTail, device, shared
  <2>1. i = NextSlot(rdt) /\ rdt' = i /\ Ahead(i) = 0 /\ Pending > 0 /\ rdh # i
    BY <1>a DEF IndInv, RingInv, InitSteps, Pending, TypeOK
  <2>2. \A s \in Slots : Ahead(s)' = IF s = i THEN N - 1 ELSE Ahead(s) - 1
    <3>. TAKE s \in Slots
    <3>1. rdt \in Slots /\ i = (IF rdt = N - 1 THEN 0 ELSE rdt + 1) /\ rdt' = i
      BY <2>1, NextSlotValue DEF TypeOK
    <3>2. Ahead(s)' = IF s > i THEN s - i - 1 ELSE s + N - i - 1
      BY <3>1 DEF Ahead
    <3>. QED
      BY <3>1, <3>2 DEF Ahead, Slots
  <2>3. Pending' = Pending - 1
    BY <2>1, <2>2 DEF Pending, TypeOK
  <2>4. Len(delivered') = Len(delivered) + 1 /\ delivered'[Len(delivered) + 1] = Len(delivered) + 1
        /\ \A k \in 1 .. Len(delivered) : delivered'[k] = delivered[k]
    BY DEF TypeOK, IndInv, RingInv, InitSteps
  <2>5. InOrder'
    BY <2>4 DEF IndInv, InOrder, TypeOK
  <2>6. Held = {i} /\ Held' = {} /\ pc' \notin InitSteps \cup {"clear", "copy", "tail"}
    BY DEF Held, AfterReceive, InitSteps
  <2>7. RingInv'
    <3>1. \A s \in Slots : dd'[s] <=> Ahead(s)' < Pending' /\ s \notin Held'
      <4>1. \A s \in Slots : dd[s] <=> Ahead(s) < Pending /\ s \notin Held
        BY ONLY IndInv, <1>10 DEF WriteTail, IndInv, RingInv, InitSteps
      <4>2. dd' = dd /\ Pending \in 0 .. N - 1
        BY ONLY <1>0, <1>a, <1>10, Zenon DEF WriteTail, shared, Pending, TypeOK
      <4>. QED
        BY ONLY NAssumption, <1>a, <2>1, <2>2, <2>3, <2>6, <4>1, <4>2
    <3>2. Len(delivered) \in Nat /\ Pending \in 0 .. N - 1 /\ accepted = Len(delivered) + Pending
      BY <1>a DEF IndInv, RingInv, InitSteps, TypeOK, Pending
    <3>3. accepted' = Len(delivered') + Pending'
      BY <3>2, <2>3, <2>4
    <3>4. \A s \in Slots : Ahead(s)' < Pending' => buf'[s] = Len(delivered') + 1 + Ahead(s)' /\ eop'[s]
      <4>. SUFFICES ASSUME NEW s \in Slots, Ahead(s)' < Pending'
                    PROVE  buf'[s] = Len(delivered') + 1 + Ahead(s)' /\ eop'[s]
        OBVIOUS
      <4>1. s # i /\ Ahead(s)' = Ahead(s) - 1 /\ Ahead(s) < Pending /\ Ahead(s) \in 0 .. N - 1
        BY <2>2, <2>3, <3>2, <1>a
      <4>2. buf[s] = Len(delivered) + 1 + Ahead(s) /\ eop[s]
        BY <4>1 DEF IndInv, RingInv, InitSteps
      <4>. QED
        BY <4>1, <4>2, <3>2, <2>4
    <3>. QED
      BY <3>1, <3>3, <3>4, <2>6 DEF IndInv, RingInv, InitSteps
  <2>. QED
    BY <2>1, <2>5, <2>6, <2>7 DEF IndInv, DmaInv, InitInv
<1>11. CASE DmaFrame
  <2>. USE <1>11 DEF DmaFrame, driver
  <2>1. pc \notin InitSteps /\ pc' = pc /\ addr[rdh]
    BY DEF IndInv, RingInv, TypeOK
  <2>2. Pending' = Pending /\ (\A s \in Slots : Ahead(s)' = Ahead(s)) /\ Held' = Held
    BY DEF Pending, Ahead, Held
  <2>3. buf'[rdh] = accepted + 1 /\ \A s \in Slots : Ahead(s) < Pending => buf'[s] = buf[s]
    <3>1. Ahead(rdh) \in 0 .. N - 1 /\ Pending = Ahead(rdh) /\ rdh \in Slots
      BY <1>a DEF Pending, TypeOK
    <3>2. buf' = [buf EXCEPT ![rdh] = accepted + 1] /\ buf \in [Slots -> 0 .. MaxFrames]
      BY <2>1 DEF TypeOK
    <3>. QED
      BY <3>1, <3>2
  <2>4. RingInv'
    BY <2>1, <2>2, <2>3 DEF IndInv, RingInv
  <2>. QED
    BY <2>1, <2>4 DEF IndInv, DmaInv, InitInv, InOrder
<1>12. CASE DmaStatus
  <2>. USE <1>12 DEF DmaStatus, driver
  <2>1. pc \notin InitSteps /\ pc' = pc /\ rdh # rdt
    BY DEF IndInv, InitInv, DmaInv
  <2>2. Pending' = Pending + 1 /\ (\A s \in Slots : Ahead(s)' = Ahead(s)) /\ Held' = Held
    BY <2>1, <1>a, Zenon DEF Pending, Ahead, Held, TypeOK
  <2>3. rdh \notin Held
    <3>1. pc \in {"copy", "tail"} => i = NextSlot(rdt) /\ Pending > 0
      BY ONLY IndInv, <2>1 DEF IndInv, RingInv
    <3>2. Ahead(NextSlot(rdt)) = 0 /\ Pending = Ahead(rdh)
      BY ONLY <1>a, Zenon DEF Pending
    <3>. QED
      BY ONLY <3>1, <3>2 DEF Held
  <2>4. \A s \in Slots : Ahead(s) < Pending + 1 <=> (s = rdh \/ Ahead(s) < Pending)
    <3>1. rdh \in Slots /\ Pending = Ahead(rdh)
      BY ONLY <1>0, Zenon DEF Pending, TypeOK
    <3>. QED
      BY ONLY NAssumption, <1>a, <3>1
  <2>5. RingInv'
    <3>1. \A s \in Slots : dd'[s] <=> Ahead(s)' < Pending' /\ s \notin Held'
      BY <2>1, <2>2, <2>3, <2>4 DEF IndInv, RingInv, TypeOK
    <3>2. /\ Len(delivered) \in Nat /\ Pending \in 0 .. N - 1
          /\ accepted = Len(delivered) + Pending /\ accepted \in Nat
      BY <1>a, <2>1 DEF IndInv, RingInv, TypeOK, Pending
    <3>3. accepted' = Len(delivered') + Pending'
      BY <3>2, <2>2
    <3>4. \A s \in Slots : Ahead(s)' < Pending' => buf'[s] = Len(delivered') + 1 + Ahead(s)' /\ eop'[s]
      <4>. SUFFICES ASSUME NEW s \in Slots, Ahead(s) < Pending + 1
                    PROVE  buf'[s] = Len(delivered) + 1 + Ahead(s) /\ eop'[s]
        BY <2>2
      <4>1. CASE s = rdh
        BY <4>1, <3>2, <2>1 DEF IndInv, RingInv, Pending, TypeOK
      <4>2. CASE Ahead(s) < Pending
        BY <4>2, <2>1 DEF IndInv, RingInv, TypeOK
      <4>. QED
        BY <4>1, <4>2, <2>4
    <3>5. pc \in {"clear", "copy", "tail"} => i = NextSlot(rdt) /\ Pending' > 0
      BY <3>2, <2>1, <2>2 DEF IndInv, RingInv
    <3>6. (\A s \in Slots : addr[s]) /\ (pc = "tail" => got = Len(delivered) + 1)
      BY <2>1 DEF IndInv, RingInv
    <3>. QED
      BY <3>1, <3>3, <3>4, <3>5, <3>6, <2>1 DEF RingInv
  <2>. QED
    BY <2>1, <2>5 DEF IndInv, DmaInv, InitInv, InOrder
<1>13. CASE UNCHANGED vars
  BY <1>13 DEF vars, device, driver, shared, IndInv, DmaInv, InitInv, RingInv, InOrder,
               Ahead, Pending, Held
<1>. QED
  BY <1>1, <1>2, <1>3, <1>4, <1>5, <1>6, <1>7, <1>8, <1>9, <1>10, <1>11, <1>12, <1>13
     DEF Next, ReceiveInit, Monitor, Receive, Card

(* The descriptor ring keeps its ownership and content invariant.           *)
THEOREM RingCorrect ==
  ASSUME QuietInit = TRUE
  PROVE  Spec => []IndInv
  BY IndInvInit, IndInvStep, PTL DEF Spec

(* e1000_receive hands up every accepted frame once and in order, for every *)
(* ring size and every interleaving with the card.                          *)
THEOREM FramesInOrder ==
  ASSUME QuietInit = TRUE
  PROVE  Spec => []InOrder
<1>1. IndInv => InOrder
  BY DEF IndInv
<1>. QED
  BY <1>1, RingCorrect, PTL

(* The card never writes to the descriptor e1000_receive works on.          *)
THEOREM CardStaysAway ==
  ASSUME QuietInit = TRUE
  PROVE  Spec => []NoOverwrite
<1>1. IndInv => NoOverwrite
  BY AheadFacts DEF IndInv, RingInv, NoOverwrite, InitSteps, Pending, TypeOK
<1>. QED
  BY <1>1, RingCorrect, PTL
-----------------------------------------------------------------------------
(* The descriptors from RDT + 1 up to RDH hold exactly the frames that were *)
(* accepted and not yet delivered.                                          *)
LEMMA RingHoldsNumbers ==
  ASSUME IndInv
  PROVE  /\ Len(delivered) \in Nat /\ accepted \in Nat
         /\ Len(delivered) <= accepted /\ accepted - Len(delivered) <= N - 1
         /\ RingQueue = Numbers(Len(delivered), accepted)
<1>. USE NAssumption, MaxFramesAssumption
<1>1. TypeOK /\ Len(delivered) \in Nat /\ accepted \in Nat
  BY DEF IndInv, TypeOK
<1>2. CASE pc \in InitSteps
  <2>1. accepted = 0 /\ Len(delivered) = 0
    BY <1>2 DEF IndInv, InitInv
  <2>. QED
    BY <1>1, <1>2, <2>1 DEF RingQueue, Numbers
<1>3. CASE pc \notin InitSteps
  <2>1. Pending \in 0 .. N - 1 /\ accepted = Len(delivered) + Pending /\ rdt \in Slots
    BY <1>1, <1>3, AheadFacts DEF IndInv, RingInv, Pending, TypeOK
  <2>2. ASSUME NEW k \in 1 .. Pending PROVE buf[(rdt + k) % N] = Len(delivered) + k
    <3>1. (rdt + k) % N = IF rdt + k < N THEN rdt + k ELSE rdt + k - N
      BY <2>1 DEF Slots
    <3>2. (rdt + k) % N \in Slots /\ Ahead((rdt + k) % N) = k - 1
      BY <2>1, <3>1 DEF Slots, Ahead
    <3>. QED
      BY <1>1, <1>3, <2>1, <3>2 DEF IndInv, RingInv
  <2>. QED
    BY <1>1, <1>3, <2>1, <2>2 DEF RingQueue, Numbers
<1>. QED
  BY <1>2, <1>3

(* The receive ring implements a queue of N - 1 frames: of all the steps of *)
(* card and driver only DmaStatus puts a frame in and only WriteTail takes  *)
(* one out.                                                                 *)
THEOREM RingIsFifo ==
  ASSUME QuietInit = TRUE
  PROVE  Spec => RefinesFifo
<1>1. Init => Fifo!Init
  BY DEF Init, Fifo!Init, RingQueue, InitSteps
<1>. DEFINE QueueInv == /\ RingQueue = Numbers(Len(delivered), accepted)
                        /\ accepted - Len(delivered) <= N - 1
<1>a. IndInv => QueueInv
  BY RingHoldsNumbers
<1>b. IndInv' => QueueInv'
  BY <1>a, PTL
<1>2. IndInv /\ IndInv' /\ [Next]_vars => [Fifo!Next]_(Fifo!vars)
  <2>. SUFFICES ASSUME IndInv, IndInv', [Next]_vars
                PROVE  Fifo!Next \/ (RingQueue' = RingQueue /\ delivered' = delivered)
    BY DEF Fifo!vars
  <2>. DEFINE d == Len(delivered)
  <2>1. /\ d \in Nat /\ accepted \in Nat /\ d <= accepted /\ accepted - d <= N - 1
        /\ RingQueue = Numbers(d, accepted)
    BY RingHoldsNumbers
  <2>2. RingQueue' = Numbers(d', accepted') /\ accepted' - d' <= N - 1
    BY <1>b
  <2>. HIDE DEF d
  <2>3. CASE DmaStatus
    <3>1. delivered' = delivered /\ d' = d /\ accepted' = accepted + 1 /\ accepted + 1 \in Frames
      BY <2>3, MaxFramesAssumption DEF DmaStatus, driver, IndInv, DmaInv, TypeOK, Frames, d
    <3>2. Len(RingQueue) < N - 1 /\ RingQueue' = Append(RingQueue, accepted + 1)
      <4>1. Len(RingQueue) = accepted - d /\ Append(RingQueue, accepted + 1) = Numbers(d, accepted + 1)
        BY <2>1, NumbersFacts, Zenon
      <4>. QED
        BY <2>1, <2>2, <3>1, <4>1, NAssumption
    <3>. QED
      BY <3>1, <3>2 DEF Fifo!Next, Fifo!Put
  <2>4. CASE WriteTail
    <3>1. got = d + 1 /\ d < accepted
      <4>1. pc = "tail" /\ RingInv /\ TypeOK
        BY <2>4 DEF WriteTail, IndInv
      <4>2. got = d + 1 /\ accepted = d + Pending /\ Pending > 0
        BY <4>1 DEF RingInv, InitSteps, d
      <4>3. Pending \in 0 .. N - 1
        BY <4>1, AheadFacts DEF Pending, TypeOK
      <4>. QED
        BY <2>1, <4>2, <4>3, NAssumption
    <3>2. delivered' = Append(delivered, d + 1) /\ d' = d + 1 /\ accepted' = accepted
      BY <2>4, <3>1 DEF WriteTail, device, IndInv, TypeOK, d
    <3>3. RingQueue # <<>> /\ Head(RingQueue) = d + 1 /\ RingQueue' = Tail(RingQueue)
      BY <2>1, <2>2, <3>1, <3>2, NumbersFacts, Zenon
    <3>. QED
      BY <3>2, <3>3 DEF Fifo!Next, Fifo!Get
  <2>5. CASE ~ DmaStatus /\ ~ WriteTail
    <3>1. delivered' = delivered /\ accepted' = accepted
      BY <2>5 DEF Next, ReceiveInit, Monitor, Receive, Card, SetRegs, EnableReceiver, InitDesc,
         MonE1000Recv, MonEthRecv, Listen, CheckStatus, ClearDD, CopyFrame, DmaFrame,
         vars, device, driver, shared
    <3>. QED
      BY <2>1, <2>2, <3>1 DEF d
  <2>. QED
    BY <2>3, <2>4, <2>5
<1>. QED
  BY <1>1, <1>2, RingCorrect, PTL DEF Spec, RefinesFifo, Fifo!Spec
=============================================================================
