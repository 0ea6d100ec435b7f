----------------------------- MODULE MCStreaming ----------------------------
(***************************************************************************)
(* Streaming with a file of two packets and a file of three (the shortest  *)
(* that has all three kinds of packet), one of a single packet, and one    *)
(* that is missing; a cfg chooses which of them may be asked for.          *)
(***************************************************************************)
EXTENDS Streaming

CONSTANTS b1, b2, t1, t2

MCLong == {"two", "three"}
MCShort == {"one"}
MCMissing == {"two", "gone"}
MCPlayable == {"two"}
MCChunks == [f \in Files |-> CASE f = "gone" -> 0 [] f = "one" -> 1 [] f = "two" -> 2 [] f = "three" -> 3]
MCBuffers == {b1, b2}
MCThreads == {t1, t2}
MCSkip == {"skip"}
MCNone == {}
MCCommands == {"play", "pause", "skip"}
MCResume == {"play"}
=============================================================================
