----------------------------- MODULE AudioLinux -----------------------------
(* start_platform_audio on ALSA (audio/audio-linux.c). *)
EXTENDS PlatformAudio

\* A malformed file, or any of the calls that configure the device.
LinuxSetupFails ==
  /\ ThreadStep("open", "return")
  /\ failed' = TRUE
  /\ UNCHANGED <<flags, is_playing, live, pieces, card>>

LinuxSetup ==
  /\ ThreadStep("open", "look")
  /\ device' = "prepared"
  /\ UNCHANGED <<flags, is_playing, song, given, heard>>

\* snd_pcm_pause fails, and is not checked, unless there is something to do.
LinuxLook ==
  /\ given < pieces
  /\ Look("check", IF device = "paused" THEN "running" ELSE device,
                   IF device = "running" THEN "paused" ELSE device)

LinuxAllWritten ==
  /\ ThreadStep("look", "end")
  /\ given = pieces
  /\ UNCHANGED <<flags, is_playing, song, card>>

LinuxCheckStop ==
  /\ ThreadStep("check", IF should_stop THEN "end" ELSE "write")
  /\ UNCHANGED <<flags, is_playing, song, card>>

\* snd_pcm_writei starts a prepared device, and waits for room in
\* a full one.  A device that is paused does not make room, and the
\* thread that could let it go on is the one that waits.
LinuxWrite ==
  /\ ThreadStep("write", "look")
  /\ device # "xrun" /\ given - heard < Room
  /\ given' = given + 1
  /\ device' = IF device = "prepared" THEN "running" ELSE device
  /\ UNCHANGED <<flags, is_playing, song, heard>>

\* Slip: the device is not made ready again.
LinuxRecoverNothing ==
  /\ ThreadStep("write", "look")
  /\ device = "xrun"
  /\ UNCHANGED <<flags, is_playing, song, card>>

LinuxRecover ==
  /\ ThreadStep("write", "look")
  /\ device = "xrun"
  /\ device' = "prepared"
  /\ UNCHANGED <<flags, is_playing, song, given, heard>>

LinuxWriteFails ==
  /\ ThreadStep("write", "end")
  /\ failed' = TRUE
  /\ UNCHANGED <<flags, is_playing, live, pieces, card>>

LinuxDrop ==
  /\ ThreadStep("end", "return")
  /\ should_stop
  /\ device' = "closed"
  /\ UNCHANGED <<flags, is_playing, song, given, heard>>

\* snd_pcm_drain also lets go a device that is paused.
LinuxDrain ==
  /\ ThreadStep("end", "drain")
  /\ ~should_stop
  /\ device' = "draining"
  /\ UNCHANGED <<flags, is_playing, song, given, heard>>

\* Slip: the device is closed without waiting for what it holds.
LinuxDrainNothing ==
  /\ ThreadStep("drain", "return")
  /\ device' = "closed"
  /\ UNCHANGED <<flags, is_playing, song, given, heard>>

LinuxDrained ==
  /\ ThreadStep("drain", "return")
  /\ heard = given
  /\ device' = "closed"
  /\ UNCHANGED <<flags, is_playing, song, given, heard>>

LinuxThread == \/ LinuxSetupFails \/ LinuxSetup \/ LinuxLook \/ LinuxAllWritten
               \/ LinuxCheckStop \/ LinuxWrite \/ LinuxRecover \/ LinuxDrop
               \/ LinuxDrain \/ LinuxDrained

LinuxPlays ==
  /\ device \in {"running", "draining"}
  /\ PlayPiece
  /\ UNCHANGED <<flags, pc, is_playing, song, device, given>>

LinuxUnderrun ==
  /\ device = "running" /\ heard = given
  /\ device' = "xrun"
  /\ UNCHANGED <<flags, pc, is_playing, song, given, heard>>
=============================================================================
