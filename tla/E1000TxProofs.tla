--------------------------- MODULE E1000TxProofs ---------------------------
(***************************************************************************)
(* Proofs about the E1000 transmit ring, for a ring of any size and any    *)
(* distance between the card and its callers.                              *)
(***************************************************************************)
EXTENDS E1000Tx, SequenceTheorems, TLAPS

(* Frames are numbered in the order in which they enter the ring, so what   *)
(* is in the ring is an interval of numbers: those from d + 1 to a.         *)
Numbers(d, a) == [k \in 1 .. a - d |-> d + k]

(* What Append, Head and Tail make of such a queue.                         *)
LEMMA NumbersFacts ==
  ASSUME NEW d \in Nat, NEW a \in Nat, d <= a
  PROVE  /\ Numbers(d, a) \in Seq(Nat) /\ Len(Numbers(d, a)) = a - d
         /\ Append(Numbers(d, a), a + 1) = Numbers(d, a + 1)
         /\ d < a => /\ Numbers(d, a) # <<>>
                     /\ Head(Numbers(d, a)) = d + 1
                     /\ Tail(Numbers(d, a)) = Numbers(d + 1, a)
<1>1. Numbers(d, a) \in Seq(Nat) /\ Len(Numbers(d, a)) = a - d
  BY DEF Numbers
<1>2. Append(Numbers(d, a), a + 1) = Numbers(d, a + 1)
  BY <1>1 DEF Numbers
<1>3. ASSUME d < a PROVE Numbers(d, a) # <<>> /\ Head(Numbers(d, a)) = d + 1
  BY <1>1, <1>3 DEF Numbers
<1>4. ASSUME d < a PROVE Tail(Numbers(d, a)) = Numbers(d + 1, a)
  <2>1. Numbers(d + 1, a) \in Seq(Nat) /\ Len(Numbers(d + 1, a)) = a - d - 1
    BY <1>4 DEF Numbers
  <2>2. Tail(Numbers(d, a)) \in Seq(Nat) /\ Len(Tail(Numbers(d, a))) = a - d - 1
    BY <1>1, <1>3, <1>4
  <2>3. ASSUME NEW k \in 1 .. a - d - 1 PROVE Tail(Numbers(d, a))[k] = Numbers(d + 1, a)[k]
    <3>1. Tail(Numbers(d, a))[k] = Numbers(d, a)[k + 1]
      BY <1>1, <1>3, <1>4, <2>2
    <3>. QED
      BY <3>1 DEF Numbers
  <2>. QED
    BY <2>1, <2>2, <2>3, SeqEqual, Zenon
<1>. QED
  BY <1>1, <1>2, <1>3, <1>4

(* (tail_tx + 1) % E1000_NU_DESC wraps at the last descriptor.              *)
LEMMA NextSlotValue ==
  \A s \in Slots : /\ NextSlot(s) = IF s = N - 1 THEN 0 ELSE s + 1
                   /\ NextSlot(s) \in Slots
  BY NAssumption DEF NextSlot, Slots

(* Positions relative to TDH.                                               *)
LEMMA OffsetFacts ==
  ASSUME TypeOK
  PROVE  /\ \A s \in Slots : Offset(s) \in 0 .. N - 1
         /\ \A s, t \in Slots : Offset(s) = Offset(t) => s = t
         /\ \A s \in Slots : Offset(s) = 0 <=> s = tdh
         /\ \A s \in Slots : IF Offset(s) = N - 1
                               THEN NextSlot(s) = tdh
                               ELSE Offset(NextSlot(s)) = Offset(s) + 1
<1>. USE NAssumption DEF Slots, Offset
<1>1. tdh \in Slots
  BY DEF TypeOK
<1>2. \A s \in Slots : Offset(s) \in 0 .. N - 1
  BY <1>1
<1>3. \A s, t \in Slots : Offset(s) = Offset(t) => s = t
  BY <1>1
<1>4. \A s \in Slots : Offset(s) = 0 <=> s = tdh
  BY <1>1
<1>5. \A s \in Slots : IF Offset(s) = N - 1
                         THEN NextSlot(s) = tdh
                         ELSE Offset(NextSlot(s)) = Offset(s) + 1
  BY <1>1, NextSlotValue
<1>. QED
  BY <1>2, <1>3, <1>4, <1>5

(* Before and just after e1000_transmit_init the ring is empty.             *)
LEMMA IndInvInit == Init => IndInv
<1>. SUFFICES ASSUME Init PROVE IndInv
  OBVIOUS
<1>. USE NAssumption, MaxFramesAssumption DEF Init, Slots
<1>1. wire \in Seq(0 .. MaxFrames)
  OBVIOUS
<1>2. tdh \in Slots /\ buf \in [Slots -> 0 .. MaxFrames] /\ dd \in [Slots -> BOOLEAN]
  OBVIOUS
<1>3. TypeOK
  BY <1>1, <1>2, Zenon DEF TypeOK
<1>. QED
  BY <1>3 DEF IndInv, RingInv, InOrder
(* Every step keeps the ring's registers and descriptors in their types.    *)
LEMMA TypeStep == IndInv /\ [Next]_vars => TypeOK'
<1>. SUFFICES ASSUME IndInv, [Next]_vars PROVE TypeOK'
  OBVIOUS
<1>. USE NAssumption, MaxFramesAssumption, NextSlotValue DEF IndInv, TypeOK
<1>1. CASE TransmitInit
  BY <1>1 DEF TransmitInit, Slots
<1>2. CASE Transmit
  BY <1>2 DEF Transmit, card
<1>3. CASE CheckStatus
  BY <1>3 DEF CheckStatus, card
<1>4. CASE ReturnFull
  BY <1>4 DEF ReturnFull, card
<1>5. CASE CopyFrame
  BY <1>5 DEF CopyFrame, card, RingInv
<1>6. CASE ClearDD
  BY <1>6 DEF ClearDD, card
<1>7. CASE WriteTail
  <2>1. NextSlot(tail_tx) \in Slots /\ accepted' \in 0 .. MaxFrames
    BY <1>7 DEF WriteTail, RingInv
  <2>. QED
    BY <1>7, <2>1 DEF WriteTail, card
<1>8. CASE Fetch
  BY <1>8 DEF Fetch
<1>9. CASE Complete
  <2>1. NextSlot(tdh) \in Slots /\ dd' \in [Slots -> BOOLEAN] /\ wire' \in Seq(0 .. MaxFrames)
    BY <1>9 DEF Complete
  <2>. QED
    BY <1>9, <2>1, Zenon DEF Complete
<1>10. CASE UNCHANGED vars
  BY <1>10 DEF vars, card
<1>. QED
  BY <1>1, <1>2, <1>3, <1>4, <1>5, <1>6, <1>7, <1>8, <1>9, <1>10, Zenon DEF Next, InTransmit

(* Every step keeps the outstanding frames in their slots.                  *)
LEMMA IndInvStep == IndInv /\ [Next]_vars => IndInv'
<1>. SUFFICES ASSUME IndInv, [Next]_vars PROVE IndInv'
  OBVIOUS
<1>0. TypeOK /\ TypeOK'
  BY TypeStep DEF IndInv
<1>. USE NAssumption, MaxFramesAssumption, NextSlotValue, <1>0
<1>a. /\ \A s \in Slots : Offset(s) \in 0 .. N - 1
      /\ \A s, t \in Slots : Offset(s) = Offset(t) => s = t
      /\ \A s \in Slots : Offset(s) = 0 <=> s = tdh
      /\ \A s \in Slots : IF Offset(s) = N - 1
                            THEN NextSlot(s) = tdh
                            ELSE Offset(NextSlot(s)) = Offset(s) + 1
  BY OffsetFacts
<1>b. pc # "attach" => Outstanding \in 0 .. N /\ Len(wire) \in Nat /\ accepted = Len(wire) + Outstanding
  BY DEF IndInv, RingInv, Outstanding, TypeOK
<1>c. pc # "attach" => \A s \in Slots : dd[s] <=> Offset(s) >= Outstanding /\ s \notin Held
  BY DEF IndInv, RingInv
<1>d. pc # "attach" => \A s \in Slots : Offset(s) < Outstanding => buf[s] = Len(wire) + 1 + Offset(s)
  BY DEF IndInv, RingInv
<1>1. CASE TransmitInit
  <2>1. Outstanding' = 0 /\ Held' = {} /\ \A s \in Slots : Offset(s)' = s /\ dd'[s]
    BY <1>1 DEF TransmitInit, IndInv, Outstanding, Held, Offset, TypeOK, Slots
  <2>. QED
    BY <1>1, <2>1 DEF TransmitInit, IndInv, RingInv, InOrder, Slots
<1>2. CASE Transmit
  BY <1>2 DEF Transmit, card, IndInv, RingInv, InOrder, Outstanding, Offset, Held
<1>3. CASE CheckStatus
  <2>1. Outstanding' = Outstanding /\ Held' = {} /\ Held = {} /\ (\A s \in Slots : Offset(s)' = Offset(s))
        /\ Offset(tdt)' = Offset(tdt)
    BY <1>3 DEF CheckStatus, card, Outstanding, Offset, Held
  <2>2. pc' = "copy" => Outstanding < N
    BY <1>3, <1>a, <1>b DEF CheckStatus, IndInv, RingInv, TypeOK
  <2>. QED
    <3>1. RingInv'
      BY <1>3, <2>1, <2>2 DEF CheckStatus, card, IndInv, RingInv
    <3>. QED
      BY <1>3, <3>1 DEF CheckStatus, card, IndInv, InOrder
<1>4. CASE ReturnFull
  BY <1>4 DEF ReturnFull, card, IndInv, RingInv, InOrder, Outstanding, Offset, Held
<1>5. CASE CopyFrame
  <2>1. Outstanding' = Outstanding /\ Held' = {} /\ Held = {} /\ (\A s \in Slots : Offset(s)' = Offset(s))
        /\ Offset(tdt)' = Offset(tdt)
    BY <1>5 DEF CopyFrame, card, Outstanding, Offset, Held
  <2>2. tail_tx = tdt /\ Offset(tdt) = Outstanding /\ tdt \in Slots
    BY <1>5 DEF CopyFrame, IndInv, RingInv, TypeOK
  <2>3. buf'[tail_tx] = accepted + 1 /\ \A s \in Slots : Offset(s) < Outstanding => buf'[s] = buf[s]
    BY <1>5, <1>a, <1>b, <2>2 DEF CopyFrame, TypeOK
  <2>. QED
    BY <1>5, <2>1, <2>2, <2>3 DEF CopyFrame, card, IndInv, RingInv, InOrder
<1>6. CASE ClearDD
  <2>1. Outstanding' = Outstanding /\ Held' = {tail_tx} /\ Held = {} /\ (\A s \in Slots : Offset(s)' = Offset(s))
        /\ Offset(tdt)' = Offset(tdt)
    BY <1>6 DEF ClearDD, card, Outstanding, Offset, Held
  <2>2. \A s \in Slots : dd'[s] <=> dd[s] /\ s # tail_tx
    BY <1>6 DEF ClearDD, TypeOK
  <2>. QED
    <3>1. \A s \in Slots : dd'[s] <=> Offset(s)' >= Outstanding' /\ s \notin Held'
      BY <1>6, <1>c, <2>1, <2>2 DEF ClearDD
    <3>2. RingInv'
      BY <1>6, <2>1, <3>1 DEF ClearDD, card, IndInv, RingInv
    <3>. QED
      BY <1>6, <3>2 DEF ClearDD, card, IndInv, InOrder
<1>7. CASE WriteTail
  <2>. USE <1>7 DEF WriteTail, card
  <2>1. Outstanding' = Outstanding + 1 /\ Held' = {} /\ Held = {tail_tx} /\ \A s \in Slots : Offset(s)' = Offset(s)
    BY <1>b DEF Outstanding, Offset, Held, TypeOK
  <2>2. /\ tail_tx = tdt /\ Offset(tdt) = Outstanding /\ tdt \in Slots /\ Outstanding < N
        /\ buf[tdt] = accepted + 1 /\ tdt' = NextSlot(tdt)
    BY DEF IndInv, RingInv, TypeOK
  <2>3. (Outstanding + 1 < N => Offset(tdt)' = Outstanding') /\ (Outstanding' = N => tdt' = tdh')
    BY <1>a, <1>b, <2>1, <2>2
  <2>4. \A s \in Slots : Offset(s) >= Outstanding + 1 <=> Offset(s) >= Outstanding /\ s # tail_tx
    BY <1>a, <1>b, <2>2
  <2>5. \A s \in Slots : Offset(s)' < Outstanding' => buf'[s] = Len(wire') + 1 + Offset(s)'
    <3>. SUFFICES ASSUME NEW s \in Slots, Offset(s) < Outstanding + 1
                  PROVE  buf[s] = Len(wire) + 1 + Offset(s)
      BY <2>1
    <3>1. CASE s = tdt
      BY <3>1, <1>b, <2>2
    <3>2. CASE Offset(s) < Outstanding
      BY <3>2, <1>d
    <3>. QED
      BY <3>1, <3>2, <1>a, <1>b, <2>2
  <2>6. \A s \in Slots : dd'[s] <=> Offset(s)' >= Outstanding' /\ s \notin Held'
    BY <2>1, <2>4 DEF IndInv, RingInv
  <2>7. Outstanding' \in 0 .. N /\ (dma => Outstanding' > 0 /\ fetched = Len(wire) + 1)
    BY <1>b, <2>1, <2>2 DEF IndInv, RingInv
  <2>8. RingInv'
    BY <2>1, <2>3, <2>5, <2>6, <2>7 DEF RingInv
  <2>. QED
    BY <2>8 DEF IndInv, InOrder
<1>8. CASE Fetch
  <2>1. Outstanding' = Outstanding /\ Held' = Held /\ (\A s \in Slots : Offset(s)' = Offset(s))
        /\ Offset(tdt)' = Offset(tdt)
    BY <1>8 DEF Fetch, Outstanding, Offset, Held
  <2>2. pc # "attach" /\ Outstanding > 0
    BY <1>8, <1>a, <1>b DEF Fetch, IndInv, RingInv, TypeOK
  <2>3. fetched' = Len(wire) + 1
    <3>1. tdh \in Slots /\ fetched' = buf[tdh]
      BY <1>8, Zenon DEF Fetch, IndInv, TypeOK
    <3>2. Offset(tdh) = 0
      BY <1>a, <3>1, Zenon
    <3>3. Offset(tdh) < Outstanding => buf[tdh] = Len(wire) + 1 + Offset(tdh)
      BY <2>2, <3>1, Zenon DEF IndInv, RingInv
    <3>. QED
      BY ONLY <1>b, <2>2, <3>1, <3>2, <3>3
  <2>. QED
    <3>1. RingInv'
      BY <1>8, <2>1, <2>2, <2>3 DEF Fetch, IndInv, RingInv
    <3>. QED
      BY <1>8, <2>2, <3>1 DEF Fetch, IndInv, InOrder
<1>9. CASE Complete
  <2>. USE <1>9 DEF Complete
  <2>1. pc # "attach" /\ Outstanding > 0 /\ fetched = Len(wire) + 1
    BY DEF IndInv, RingInv
  <2>2. /\ Len(wire') = Len(wire) + 1 /\ wire'[Len(wire) + 1] = Len(wire) + 1
        /\ \A k \in 1 .. Len(wire) : wire'[k] = wire[k]
    BY <2>1 DEF TypeOK
  <2>3. InOrder'
    BY <2>2 DEF IndInv, InOrder, TypeOK
  <2>4. Outstanding' = Outstanding - 1 /\ Held' = Held
    BY <1>b, <2>1, <2>2 DEF Outstanding, Held
  <2>5. \A s \in Slots : Offset(s)' = IF s = tdh THEN N - 1 ELSE Offset(s) - 1
    <3>. TAKE s \in Slots
    <3>1. tdh \in Slots /\ tdh' = (IF tdh = N - 1 THEN 0 ELSE tdh + 1)
      BY DEF TypeOK
    <3>. QED
      BY <3>1 DEF Offset, Slots
  <2>6. tdh \notin Held
    BY <1>a, <1>b, <2>1 DEF Held, IndInv, RingInv, TypeOK
  <2>7. \A s \in Slots : dd'[s] <=> Offset(s)' >= Outstanding' /\ s \notin Held'
    <3>. TAKE s \in Slots
    <3>1. CASE s = tdh
      BY <3>1, <1>b, <2>1, <2>4, <2>5, <2>6 DEF TypeOK
    <3>2. CASE s # tdh
      <4>1. (dd'[s] <=> dd[s]) /\ Offset(s)' = Offset(s) - 1 /\ Offset(s) \in 0 .. N - 1
        BY <3>2, <1>a, <2>5 DEF TypeOK
      <4>2. Offset(s)' >= Outstanding' <=> Offset(s) >= Outstanding
        BY <4>1, <1>b, <2>1, <2>4
      <4>. QED
        BY <4>1, <4>2, <1>c, <2>1, <2>4
    <3>. QED
      BY <3>1, <3>2
  <2>8. \A s \in Slots : Offset(s)' < Outstanding' => buf'[s] = Len(wire') + 1 + Offset(s)'
    <3>. SUFFICES ASSUME NEW s \in Slots, Offset(s)' < Outstanding - 1
                  PROVE  buf[s] = Len(wire) + 2 + Offset(s)'
      BY <2>2, <2>4, <1>b, <2>1
    <3>1. s # tdh /\ Offset(s)' = Offset(s) - 1 /\ Offset(s) \in 0 .. N - 1
      BY <1>a, <1>b, <2>1, <2>5
    <3>2. Offset(s) < Outstanding
      BY <3>1, <1>b, <2>1
    <3>3. buf[s] = Len(wire) + 1 + Offset(s)
      BY <3>2, <1>d, <2>1
    <3>. QED
      BY <3>1, <3>3, <1>b, <2>1
  <2>9. Outstanding' < N /\ Offset(tdt)' = Outstanding' /\ Outstanding' \in 0 .. N
    <3>1. tdt \in Slots /\ Outstanding \in 1 .. N /\ Outstanding' = Outstanding - 1
      BY <1>b, <2>1, <2>4 DEF TypeOK
    <3>2. Offset(tdt)' = IF tdt = tdh THEN N - 1 ELSE Offset(tdt) - 1
      BY <2>5, <3>1 DEF Offset
    <3>3. CASE Outstanding = N
      BY <3>1, <3>2, <3>3, <2>1 DEF IndInv, RingInv
    <3>4. CASE Outstanding < N
      BY <3>1, <3>2, <3>4, <2>1, <1>a DEF IndInv, RingInv
    <3>. QED
      BY <3>1, <3>3, <3>4
  <2>10. RingInv'
    BY <2>1, <2>4, <2>7, <2>8, <2>9, <1>b DEF IndInv, RingInv
  <2>. QED
    BY <2>1, <2>3, <2>10 DEF IndInv
<1>10. CASE UNCHANGED vars
  BY <1>10 DEF vars, card, IndInv, RingInv, InOrder, Outstanding, Offset, Held
<1>. QED
  BY <1>1, <1>2, <1>3, <1>4, <1>5, <1>6, <1>7, <1>8, <1>9, <1>10 DEF Next, InTransmit

(* The transmit ring keeps its inductive invariant.                         *)
THEOREM RingCorrect == Spec => []IndInv
  BY IndInvInit, IndInvStep, PTL DEF Spec

(* The card sends the accepted frames once and in order, even when callers  *)
(* outrun it.                                                               *)
THEOREM FramesInOrder == Spec => []InOrder
<1>1. IndInv => InOrder
  BY DEF IndInv
<1>. QED
  BY <1>1, RingCorrect, PTL

(* A ring with all descriptors outstanding and an idle card never recovers. *)
THEOREM WedgeIsPermanent == Spec => WedgedForever
<1>1. IndInv /\ [Next]_vars => [Wedged => Wedged']_vars
  <2>. SUFFICES ASSUME IndInv, Next, Wedged PROVE Wedged'
    BY DEF vars, card, Wedged, Outstanding
  <2>1. pc # "attach" /\ tdt = tdh /\ ~dma
    BY NAssumption DEF IndInv, RingInv, Wedged, Outstanding
  <2>2. pc \notin {"copy", "clear", "tail"}
    BY NAssumption DEF IndInv, RingInv, Wedged, Outstanding, TypeOK
  <2>. QED
    BY <2>1, <2>2 DEF Next, InTransmit, TransmitInit, Transmit, CheckStatus, ReturnFull,
       CopyFrame, ClearDD, WriteTail, Fetch, Complete, card, Wedged, Outstanding
<1>. QED
  BY <1>1, RingCorrect, PTL DEF WedgedForever, Spec

(* When the card stays less than N - 1 frames behind its callers,           *)
(* e1000_transmit accepts every frame.                                      *)
THEOREM PacedNeverRefused ==
  ASSUME Lag < N
  PROVE  Spec => []NeverRefused
<1>. DEFINE PInv == /\ NeverRefused
                    /\ pc = "check" => Outstanding < N
<1>1. Init => PInv
  BY DEF Init, NeverRefused
<1>2. IndInv /\ PInv /\ [Next]_vars => PInv'
  <2>. SUFFICES ASSUME IndInv, PInv, [Next]_vars PROVE PInv'
    OBVIOUS
  <2>. USE DEF NeverRefused
  <2>1. CASE CheckStatus
    <3>1. tail_tx = tdt /\ Outstanding < N /\ Offset(tdt) = Outstanding /\ Held = {}
      BY <2>1 DEF CheckStatus, IndInv, RingInv, Held
    <3>2. dd[tail_tx]
      BY <2>1, <3>1, NAssumption, OffsetFacts DEF CheckStatus, IndInv, RingInv, TypeOK
    <3>. QED
      BY <2>1, <3>2 DEF CheckStatus
  <2>2. CASE Transmit
    BY <2>2, NAssumption, LagAssumption DEF Transmit, card, Outstanding, IndInv, TypeOK
  <2>3. CASE Complete
    BY <2>3, NAssumption DEF Complete, Outstanding, IndInv, TypeOK
  <2>4. CASE TransmitInit \/ ReturnFull \/ CopyFrame \/ ClearDD \/ WriteTail \/ Fetch
    BY <2>4 DEF TransmitInit, ReturnFull, CopyFrame, ClearDD, WriteTail, Fetch, card, Outstanding
  <2>5. CASE UNCHANGED vars
    BY <2>5 DEF vars, card, Outstanding
  <2>. QED
    BY <2>1, <2>2, <2>3, <2>4, <2>5 DEF Next, InTransmit
<1>3. PInv => NeverRefused
  OBVIOUS
<1>. QED
  BY <1>1, <1>2, <1>3, RingCorrect, PTL DEF Spec

(* A refusal means that all N descriptors wait for the card.                *)
THEOREM RefusalMeansFull == Spec => RefusesOnlyFull
<1>1. ASSUME IndInv, Next, pc = "check", pc' = "refused" PROVE Outstanding = N
  <2>1. CheckStatus /\ ~dd[tail_tx]
    BY <1>1 DEF Next, InTransmit, TransmitInit, Transmit, CheckStatus, ReturnFull, CopyFrame,
       ClearDD, WriteTail, Fetch, Complete
  <2>2. /\ tail_tx = tdt /\ Held = {} /\ tdt \in Slots /\ Outstanding \in 0 .. N
        /\ Outstanding < N => Offset(tdt) = Outstanding
    BY <1>1 DEF IndInv, RingInv, Held, TypeOK
  <2>3. ~(Offset(tdt) >= Outstanding)
    BY <1>1, <2>1, <2>2 DEF IndInv, RingInv
  <2>. QED
    BY <2>2, <2>3, NAssumption
<1>2. IndInv /\ [Next]_vars =>
        [pc = "check" /\ pc' = "refused" => Outstanding = N]_vars
  BY <1>1
<1>. QED
  BY <1>2, RingCorrect, PTL DEF Spec, RefusesOnlyFull
-----------------------------------------------------------------------------
(* The descriptors from TDH up to TDT hold exactly the frames that were     *)
(* accepted and not yet sent.                                               *)
LEMMA RingHoldsNumbers ==
  ASSUME IndInv
  PROVE  /\ Len(wire) \in Nat /\ accepted \in Nat
         /\ Len(wire) <= accepted /\ accepted - Len(wire) <= N
         /\ RingQueue = Numbers(Len(wire), accepted)
<1>. USE NAssumption, MaxFramesAssumption
<1>1. TypeOK /\ Len(wire) \in Nat /\ accepted \in Nat
  BY DEF IndInv, TypeOK
<1>2. CASE pc = "attach"
  <2>1. accepted = 0 /\ Len(wire) = 0
    BY <1>2 DEF IndInv
  <2>. QED
    BY <1>1, <2>1 DEF RingQueue, Outstanding, Numbers
<1>3. CASE pc # "attach"
  <2>1. Outstanding \in 0 .. N /\ Outstanding = accepted - Len(wire) /\ tdh \in Slots
    BY <1>1, <1>3 DEF IndInv, RingInv, Outstanding, TypeOK
  <2>2. ASSUME NEW k \in 1 .. Outstanding PROVE buf[(tdh + k - 1) % N] = Len(wire) + k
    <3>1. (tdh + k - 1) % N = IF tdh + k - 1 < N THEN tdh + k - 1 ELSE tdh + k - 1 - N
      BY <2>1 DEF Slots
    <3>2. (tdh + k - 1) % N \in Slots /\ Offset((tdh + k - 1) % N) = k - 1
      BY <2>1, <3>1 DEF Slots, Offset
    <3>. QED
      BY <1>1, <1>3, <2>1, <3>2 DEF IndInv, RingInv
  <2>. QED
    BY <1>1, <2>1, <2>2 DEF RingQueue, Numbers
<1>. QED
  BY <1>2, <1>3

(* The transmit ring implements a queue of N frames, whatever the distance  *)
(* between card and callers: only WriteTail puts a frame in and only the    *)
(* card's Complete takes one out.                                           *)
THEOREM RingIsFifo == Spec => RefinesFifo
<1>. DEFINE QueueInv == /\ RingQueue = Numbers(Len(wire), accepted)
                        /\ accepted - Len(wire) <= N
<1>a. IndInv => QueueInv
  BY RingHoldsNumbers
<1>b. IndInv' => QueueInv'
  BY <1>a, PTL
<1>1. Init => Fifo!Init
  BY DEF Init, Fifo!Init, RingQueue, Outstanding
<1>2. IndInv /\ IndInv' /\ [Next]_vars => [Fifo!Next]_(Fifo!vars)
  <2>. SUFFICES ASSUME IndInv, IndInv', [Next]_vars
                PROVE  Fifo!Next \/ (RingQueue' = RingQueue /\ wire' = wire)
    BY DEF Fifo!vars
  <2>. DEFINE d == Len(wire)
  <2>1. /\ d \in Nat /\ accepted \in Nat /\ d <= accepted /\ accepted - d <= N
        /\ RingQueue = Numbers(d, accepted)
    BY RingHoldsNumbers
  <2>2. RingQueue' = Numbers(d', accepted') /\ accepted' - d' <= N
    BY <1>b
  <2>. HIDE DEF d
  <2>3. CASE WriteTail
    <3>1. wire' = wire /\ d' = d /\ accepted' = accepted + 1 /\ accepted + 1 \in Frames
      BY <2>3, MaxFramesAssumption DEF WriteTail, card, IndInv, RingInv, TypeOK, Frames, d
    <3>2. Len(RingQueue) < N /\ RingQueue' = Append(RingQueue, accepted + 1)
      <4>1. Len(RingQueue) = accepted - d /\ Append(RingQueue, accepted + 1) = Numbers(d, accepted + 1)
        BY <2>1, NumbersFacts, Zenon
      <4>. QED
        BY <2>1, <2>2, <3>1, <4>1, NAssumption
    <3>. QED
      BY <3>1, <3>2 DEF Fifo!Next, Fifo!Put
  <2>4. CASE Complete
    <3>1. fetched = d + 1 /\ d < accepted
      BY <2>1, <2>4 DEF Complete, IndInv, RingInv, Outstanding, TypeOK, d
    <3>2. wire' = Append(wire, d + 1) /\ d' = d + 1 /\ accepted' = accepted
      BY <2>4, <3>1 DEF Complete, IndInv, TypeOK, d
    <3>3. RingQueue # <<>> /\ Head(RingQueue) = d + 1 /\ RingQueue' = Tail(RingQueue)
      BY <2>1, <2>2, <3>1, <3>2, NumbersFacts, Zenon
    <3>. QED
      BY <3>2, <3>3 DEF Fifo!Next, Fifo!Get
  <2>5. CASE ~ WriteTail /\ ~ Complete
    <3>1. wire' = wire /\ accepted' = accepted
      BY <2>5 DEF Next, InTransmit, TransmitInit, Transmit, CheckStatus, ReturnFull, CopyFrame,
         ClearDD, Fetch, vars, card
    <3>. QED
      BY <2>1, <2>2, <3>1 DEF d
  <2>. QED
    BY <2>3, <2>4, <2>5
<1>. QED
  BY <1>1, <1>2, RingCorrect, PTL DEF Spec, RefinesFifo, Fifo!Spec
=============================================================================
