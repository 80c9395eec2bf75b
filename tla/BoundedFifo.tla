---------------------------- MODULE BoundedFifo ----------------------------
(***************************************************************************)
(* What a descriptor ring promises its user: a first-in first-out queue    *)
(* that holds at most Cap frames.  The ring modules are shown to implement *)
(* this specification.                                                     *)
(***************************************************************************)
EXTENDS Naturals, Sequences

CONSTANTS Items,   \* the frames
          Cap      \* how many frames the queue holds

VARIABLES queue,   \* accepted and not yet handed over
          output   \* every frame handed over, in order

vars == <<queue, output>>

Init == queue = <<>> /\ output = <<>>

Put(x) == /\ Len(queue) < Cap
          /\ queue' = Append(queue, x)
          /\ UNCHANGED output

Get == /\ queue # <<>>
       /\ output' = Append(output, Head(queue))
       /\ queue' = Tail(queue)

Next == Get \/ \E x \in Items : Put(x)

Spec == Init /\ [][Next]_vars
=============================================================================
