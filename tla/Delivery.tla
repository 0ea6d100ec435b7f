------------------------------ MODULE Delivery ------------------------------
(***************************************************************************)
(* What a file transfer promises, without packets, indices or buffers: the *)
(* file asked for arrives whole, followed by zeros that fill up its last   *)
(* packet, or it is given up.                                              *)
(***************************************************************************)
EXTENDS Naturals, Sequences

CONSTANTS Files,        \* the contents of the files a client has
          MaxPadding    \* the most zeros that can follow: less than a packet carries

VARIABLES asked,        \* the file on its way, <<>> if there is none
          song          \* the last file that arrived

dvars == <<asked, song>>

Zeros(n) == [i \in 1 .. n |-> 0]

Init == asked = <<>> /\ song = <<>>

Ask == /\ asked = <<>>
       /\ asked' \in Files
       /\ UNCHANGED song

Arrive == /\ asked # <<>>
          /\ \E n \in 0 .. MaxPadding : song' = asked \o Zeros(n)
          /\ asked' = <<>>

Lose == /\ asked' = <<>>
        /\ UNCHANGED song

Next == Ask \/ Arrive \/ Lose

Spec == Init /\ [][Next]_dvars
=============================================================================
