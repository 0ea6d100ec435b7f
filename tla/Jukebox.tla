------------------------------- MODULE Jukebox -------------------------------
(***************************************************************************)
(* What the player promises, without threads, flags or buffers: files wait *)
(* in a queue, at most one of them is current, the current one is always   *)
(* taken from the front of the queue, and the next is taken only when the  *)
(* current one is over (played to its end, skipped, or not playable).      *)
(***************************************************************************)
EXTENDS Sequences

CONSTANTS Entries,   \* what can be queued
          Nobody     \* no entry is current

VARIABLES queue,     \* the entries waiting, oldest first
          current    \* the entry being handled, or Nobody

jvars == <<queue, current>>

Init == /\ queue = <<>>
        /\ current = Nobody

Enqueue(e) == /\ queue' = Append(queue, e)
              /\ UNCHANGED current

Take == /\ current = Nobody
        /\ queue # <<>>
        /\ current' = Head(queue)
        /\ queue' = Tail(queue)

Release == /\ current # Nobody
           /\ current' = Nobody
           /\ UNCHANGED queue

Next == \/ \E e \in Entries : Enqueue(e)
        \/ Take
        \/ Release

Spec == Init /\ [][Next]_jvars
=============================================================================
