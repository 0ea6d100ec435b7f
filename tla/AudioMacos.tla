----------------------------- MODULE AudioMacos -----------------------------
(***************************************************************************)
(* start_platform_audio on an AudioQueue (audio/audio-macos.c): the queue  *)
(* has a thread of its own, which calls audioQueueCallback for each buffer *)
(* it has played.                                                          *)
(***************************************************************************)
EXTENDS PlatformAudio

VARIABLES audioQueueHadStarted, audioQueueIsRunning,
          stopping      \* whether the queue was told to stop when it is empty, and has not yet

macosVars == <<audioQueueHadStarted, audioQueueIsRunning, stopping>>

MacosInit == /\ audioQueueHadStarted = FALSE /\ audioQueueIsRunning = TRUE
             /\ stopping = FALSE

\* Slip: every buffer is given away, whatever read_data found for it.
MacosSetupAll ==
  /\ ThreadStep("open", "look")
  /\ device' = "prepared"
  /\ given' = Room
  /\ audioQueueHadStarted' = FALSE /\ audioQueueIsRunning' = TRUE
  /\ stopping' = FALSE
  /\ UNCHANGED <<flags, is_playing, song, heard>>

\* The buffers are filled before the queue starts: a stop is no matter yet.
MacosSetup ==
  /\ ThreadStep("open", "look")
  /\ device' = "prepared"
  /\ given' = IF pieces < Room THEN pieces ELSE Room
  /\ audioQueueHadStarted' = FALSE /\ audioQueueIsRunning' = TRUE
  /\ stopping' = FALSE
  /\ UNCHANGED <<flags, is_playing, song, heard>>

\* No call is checked: a queue that a call failed for is taken never to run.
MacosSetupFails ==
  /\ ThreadStep("open", "look")
  /\ device' = "none"
  /\ failed' = TRUE
  /\ audioQueueHadStarted' = FALSE /\ audioQueueIsRunning' = TRUE
  /\ stopping' = FALSE
  /\ UNCHANGED <<flags, is_playing, live, pieces, given, heard>>

\* AudioQueueStart fails, and isPlaying is set all the same.
MacosStartFails ==
  /\ ThreadStep("look", "poll")
  /\ should_play /\ ~is_playing
  /\ is_playing' = TRUE
  /\ failed' = TRUE
  /\ UNCHANGED <<flags, live, pieces, card, macosVars>>

MacosLook ==
  /\ Look("poll", IF device = "none" THEN device ELSE "running",
                  IF device = "running" THEN "paused" ELSE device)
  /\ UNCHANGED macosVars

Running == device \in {"running", "paused"}

MacosPoll ==
  /\ ThreadStep("poll", "check")
  /\ \/ /\ audioQueueHadStarted
        /\ audioQueueIsRunning' = Running
        /\ UNCHANGED audioQueueHadStarted
     \/ /\ ~audioQueueHadStarted
        /\ audioQueueHadStarted' = Running
        /\ UNCHANGED audioQueueIsRunning
  /\ UNCHANGED <<flags, is_playing, song, card, stopping>>

MacosCheckStop ==
  /\ ThreadStep("check", IF should_stop \/ ~audioQueueIsRunning THEN "end" ELSE "look")
  /\ UNCHANGED <<flags, is_playing, song, card, macosVars>>

\* Slip: the queue is neither stopped nor disposed of.
MacosLeave ==
  /\ ThreadStep("end", "return")
  /\ UNCHANGED <<flags, is_playing, song, card, macosVars>>

\* Stop, free the buffers, dispose: at once, and no callback comes after it.
MacosDispose ==
  /\ ThreadStep("end", "return")
  /\ device' = "closed"
  /\ UNCHANGED <<flags, is_playing, song, given, heard, macosVars>>

MacosThread == \/ MacosSetup \/ MacosSetupFails \/ MacosLook \/ MacosStartFails
               \/ MacosPoll \/ MacosCheckStop \/ MacosDispose

\* A buffer is played, and filled again by the callback.
MacosCallback ==
  /\ device = "running"
  /\ PlayPiece
  /\ \/ /\ given < pieces
        /\ given' = given + 1
        /\ UNCHANGED stopping
     \/ /\ given = pieces
        /\ stopping' = TRUE
        /\ UNCHANGED given
  /\ UNCHANGED <<flags, pc, is_playing, song, device, audioQueueHadStarted, audioQueueIsRunning>>

MacosStops ==
  /\ device = "running" /\ stopping /\ heard = given
  /\ device' = "stopped" /\ stopping' = FALSE
  /\ UNCHANGED <<flags, pc, is_playing, song, given, heard,
                 audioQueueHadStarted, audioQueueIsRunning>>
=============================================================================
