---------------------------- MODULE AudioWindows ----------------------------
(***************************************************************************)
(* start_platform_audio on waveOut (audio/audio-windows.c): the song is    *)
(* given away in one piece, and waveOutProc, called when it was played,    *)
(* stops the loop the way a user's skip does.                              *)
(***************************************************************************)
EXTENDS PlatformAudio

\* No call is checked: a device that did not open stays silent.
WindowsOpenFails ==
  /\ ThreadStep("open", "look")
  /\ device' = "none"
  /\ failed' = TRUE
  /\ UNCHANGED <<flags, is_playing, live, pieces, given, heard>>

WindowsOpen ==
  /\ ThreadStep("open", "look")
  /\ device' = "paused"
  /\ given' = pieces
  /\ UNCHANGED <<flags, is_playing, song, heard>>

Opened(state) == IF device \in {"paused", "running"} THEN state ELSE device

WindowsLook == Look("check", Opened("running"), Opened("paused"))

\* Slip: it is the end of the song that is waited for.
WindowsCheckDone ==
  /\ ThreadStep("check", IF device = "done" THEN "end" ELSE "look")
  /\ UNCHANGED <<flags, is_playing, song, card>>

WindowsCheckStop ==
  /\ ThreadStep("check", IF should_stop THEN "end" ELSE "look")
  /\ UNCHANGED <<flags, is_playing, song, card>>

\* The song is given back, if it was not, which calls waveOutProc.
WindowsReset ==
  /\ ThreadStep("end", "close")
  /\ device' = Opened("reset")
  /\ UNCHANGED <<flags, is_playing, song, given, heard>>

WindowsClose ==
  /\ ThreadStep("close", "return")
  /\ device # "reset"
  /\ device' = IF device = "none" THEN "none" ELSE "closed"
  /\ UNCHANGED <<flags, is_playing, song, given, heard>>

WindowsThread == \/ WindowsOpenFails \/ WindowsOpen \/ WindowsLook \/ WindowsCheckStop
                 \/ WindowsReset \/ WindowsClose

WindowsPlays ==
  /\ device = "running"
  /\ PlayPiece
  /\ UNCHANGED <<flags, pc, is_playing, song, device, given>>

\* WOM_DONE
waveOutProc ==
  /\ \/ device = "reset"
     \/ device = "running" /\ heard = given
  /\ device' = "done"
  /\ should_stop' = TRUE
  /\ UNCHANGED <<should_play, skipped, interrupted, pc, is_playing, song, given, heard>>
=============================================================================
