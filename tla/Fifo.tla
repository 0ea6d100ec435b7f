-------------------------------- MODULE Fifo --------------------------------
(***************************************************************************)
(* What the callers of util/queue.c rely on: items leave in the order they *)
(* came, except those that are taken out because their sender has gone.    *)
(***************************************************************************)
EXTENDS Naturals, Sequences

CONSTANTS Items,
          Remote     \* the items a cleanse may take out

VARIABLE q           \* the items queued, oldest first

Init == q = <<>>

Put(e) == q' = Append(q, e)

Take == /\ q # <<>>
        /\ q' = Tail(q)

TakeOut(k) == /\ q[k] \in Remote
              /\ q' = SubSeq(q, 1, k - 1) \o SubSeq(q, k + 1, Len(q))

Next == \/ \E e \in Items : Put(e)
        \/ Take
        \/ \E k \in 1 .. Len(q) : TakeOut(k)

Spec == Init /\ [][Next]_q
=============================================================================
