------------------------------ MODULE MCSession ------------------------------
(***************************************************************************)
(* Session with two clients, so that one could inherit files of the other, *)
(* and two thread identities: one thread that is ending and the next one.  *)
(***************************************************************************)
EXTENDS Session

CONSTANTS t1, t2, alice, bob

MCThreads == {t1, t2}
MCClients == {alice, bob}
=============================================================================
