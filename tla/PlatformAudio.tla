---------------------------- MODULE PlatformAudio ----------------------------
(***************************************************************************)
(* What the three back ends of start_platform_audio share: the flags they  *)
(* obey, the sound card they play on, and start_audio (audio/audio.c),     *)
(* which calls them and frees the song when they return.  A song is a      *)
(* number of pieces: what one snd_pcm_writei or one buffer carries.        *)
(***************************************************************************)
EXTENDS Naturals

CONSTANTS
  Lengths,      \* how many pieces a song may have
  Room          \* how many the device holds (AQBUF_COUNT on macOS)

ASSUME PiecesAssumption == Lengths \subseteq Nat \ {0} /\ Room \in Nat \ {0}

VARIABLES
  should_play, should_stop,
  pc,           \* where the audio thread is
  is_playing,   \* audio_is_playing, isPlaying, audioIsPlaying
  live,         \* whether audio->data is allocated
  pieces,       \* the length of the song
  device,       \* the state of the device
  given, heard, \* how many pieces it was given, and has played
  skipped,      \* history: a user's skip is in should_stop
  interrupted,  \* history: the user paused the song while it was heard
  failed        \* history: the device refused this song

flags == <<should_play, should_stop, skipped, interrupted>>
song == <<live, pieces, failed>>
card == <<device, given, heard>>
commonVars == <<flags, pc, is_playing, song, card>>

PlatformInit ==
  /\ should_play = FALSE /\ should_stop = FALSE
  /\ pc = "idle" /\ is_playing = FALSE
  /\ live = FALSE /\ pieces \in Lengths
  /\ device = "closed" /\ given = 0 /\ heard = 0
  /\ skipped = FALSE /\ interrupted = FALSE /\ failed = FALSE

ThreadStep(from, to) ==
  /\ pc = from
  /\ pc' = to

-----------------------------------------------------------------------------
(* The other threads: users, and the handler, which sets should_play. *)

SetPlay(value) ==
  /\ should_play' = value
  /\ interrupted' = (~value /\ (interrupted \/ (live /\ is_playing /\ heard > 0)))
  /\ UNCHANGED <<should_stop, skipped, pc, is_playing, song, card>>

Skip ==
  /\ should_stop' = TRUE /\ skipped' = TRUE
  /\ UNCHANGED <<should_play, interrupted, pc, is_playing, song, card>>

BeginSong ==
  /\ ThreadStep("idle", "open")
  /\ pieces' \in Lengths /\ live' = TRUE
  /\ is_playing' = FALSE /\ failed' = FALSE
  /\ device' = "closed" /\ given' = 0 /\ heard' = 0
  /\ UNCHANGED flags

Others == SetPlay(TRUE) \/ SetPlay(FALSE) \/ Skip \/ BeginSong

(* The end of start_audio *)

FreeSong ==
  /\ ThreadStep("return", "clear")
  /\ live' = FALSE
  /\ UNCHANGED <<flags, is_playing, pieces, failed, card>>

ClearFlags ==
  /\ ThreadStep("clear", "idle")
  /\ should_stop' = FALSE /\ should_play' = FALSE
  /\ skipped' = FALSE /\ interrupted' = FALSE
  /\ UNCHANGED <<is_playing, song, card>>

-----------------------------------------------------------------------------
(* One look at should_play: the device is told once about each change. *)
Look(to, playing, paused) ==
  /\ ThreadStep("look", to)
  /\ is_playing' = should_play
  /\ device' = IF should_play = is_playing THEN device
               ELSE IF should_play THEN playing ELSE paused
  /\ UNCHANGED <<flags, song, given, heard>>

PlayPiece ==
  /\ heard < given
  /\ heard' = heard + 1
=============================================================================
