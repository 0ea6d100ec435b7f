-------------------------- MODULE MCPlayerRequests --------------------------
(***************************************************************************)
(* PlayerRequests with small sets: a song, a file that is no WAV and one   *)
(* that is missing; a buffer for each of the three calls, should every one *)
(* leak its own; one thread identity more than a single song needs, so     *)
(* that a second song could overlap the first; and two skips, enough for   *)
(* one between two songs.                                                  *)
(***************************************************************************)
EXTENDS PlayerRequests

CONSTANTS b1, b2, b3, t1, t2

MCFiles == {"song", "text", "gone"}
MCPlayable == {"song"}
MCNotWav == {"text"}
MCBuffers == {b1, b2, b3}
MCThreads == {t1, t2}
MCCommands == {"pause", "resume", "skip"}
=============================================================================
