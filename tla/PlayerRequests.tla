--------------------------- MODULE PlayerRequests ---------------------------
(***************************************************************************)
(* Player with a record of what the user asked for, to state what a pause  *)
(* and a skip promise.  The four variables added here are history: they    *)
(* never constrain a step of Player (MaxSkips bounds their counters).      *)
(***************************************************************************)
EXTENDS Player

CONSTANT MaxSkips   \* bound: calls of turntable_skip_audio

ASSUME SkipBoundAssumption == MaxSkips \in Nat

VARIABLES
  skips,    \* calls of turntable_skip_audio
  stops,    \* songs ended because should_stop was set
  aimed,    \* the last skip was made while a song was playing
  asked     \* the last request about the current song: "none", "pause", "resume"

historyVars == <<skips, stops, aimed, asked>>
allVars == <<vars, historyVars>>

Playing(t) == tpc[t] \in {"begin", "run"}
SomeSongPlays == \E t \in Threads : Playing(t)

RequestsInit ==
  /\ Init
  /\ skips = 0
  /\ stops = 0
  /\ aimed = FALSE
  /\ asked = "none"

AskSkip ==
  /\ skips < MaxSkips
  /\ TurntableSkipAudio
  /\ skips' = skips + 1
  /\ aimed' = SomeSongPlays
  /\ UNCHANGED <<stops, asked>>

AskPause ==
  /\ TurntablePauseAudio
  /\ asked' = IF SomeSongPlays THEN "pause" ELSE asked
  /\ UNCHANGED <<skips, stops, aimed>>

AskResume ==
  /\ TurntableResumeAudio
  /\ asked' = IF SomeSongPlays THEN "resume" ELSE asked
  /\ UNCHANGED <<skips, stops, aimed>>

Stopped(t) ==
  /\ PlatformStop(t)
  /\ stops' = stops + 1
  /\ UNCHANGED <<skips, aimed, asked>>

NewSong ==
  /\ CreateThread
  /\ asked' = "none"
  /\ UNCHANGED <<skips, stops, aimed>>

Unrecorded ==
  /\ \/ \E f \in Files : TurntableQueueFile(f)
     \/ CheckRunning \/ CheckQueue \/ PopFront \/ RejectFile \/ RejectData \/ LoadFile
     \/ SetPlay \/ EndSleep
     \/ \E t \in Threads : \/ BeginAudio(t) \/ PlatformDone(t) \/ FreeAudio(t)
                           \/ ClearStop(t) \/ ClearPlay(t) \/ ExitAudio(t)
  /\ UNCHANGED historyVars

RequestsNext == \/ AskSkip \/ AskPause \/ AskResume \/ NewSong
                \/ \E t \in Threads : Stopped(t)
                \/ Unrecorded

RequestsSpec == RequestsInit /\ [][RequestsNext]_allVars

RequestsFairSpec == RequestsSpec /\ Fairness

-----------------------------------------------------------------------------
(***************************************************************************)
(* A skip ends at most one song (turntable_skip_audio, and the write of    *)
(* should_stop in start_audio after the platform loop).                    *)
(***************************************************************************)
OneSongPerSkip == stops <= skips

(***************************************************************************)
(* A song is stopped only by a skip made while it was playing: what the    *)
(* demo's help says of `skip`.  start_audio does not clear should_stop     *)
(* before the platform loop, so a skip made between songs ends the next.   *)
(***************************************************************************)
SkipHitsCurrentSong == should_stop /\ (\E t \in Threads : tpc[t] = "run") => aimed

(***************************************************************************)
(* A song the user paused, and did not resume, is paused: what the demo's  *)
(* help says of `pause`.  The handler writes should_play after it created  *)
(* the thread, and can overwrite a pause.                                  *)
(***************************************************************************)
PauseHeld == asked = "pause" /\ SomeSongPlays => ~should_play
=============================================================================
