------------------------------ MODULE MCQueue -------------------------------
(***************************************************************************)
(* Queue with five items, three of them of the client, so that the array   *)
(* grows three times and a cleanse meets neighbours and the first item.    *)
(***************************************************************************)
EXTENDS Queue

CONSTANTS l1, l2, r1, r2, r3

MCRemote == {r1, r2, r3}
MCItems == {l1, l2} \cup MCRemote
=============================================================================
