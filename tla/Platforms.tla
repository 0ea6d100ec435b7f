------------------------------ MODULE Platforms ------------------------------
(* The back ends, one of which audio.c includes. *)
EXTENDS AudioLinux, AudioMacos, AudioWindows

CONSTANT Builds         \* a subset of {"linux", "macos", "windows"}

VARIABLE platform

vars == <<platform, commonVars, macosVars>>

Init ==
  /\ platform \in Builds
  /\ PlatformInit
  /\ MacosInit

On(p) == platform = p /\ UNCHANGED platform
Linux == On("linux") /\ UNCHANGED macosVars
Windows == On("windows") /\ UNCHANGED macosVars

PlatformThread == \/ Linux /\ LinuxThread
                  \/ On("macos") /\ MacosThread
                  \/ Windows /\ WindowsThread

AudioThread == \/ PlatformThread
               \/ (FreeSong \/ ClearFlags) /\ UNCHANGED <<platform, macosVars>>

Plays == \/ Linux /\ LinuxPlays
         \/ On("macos") /\ MacosCallback
         \/ Windows /\ WindowsPlays

Ends == \/ On("macos") /\ MacosStops
        \/ Windows /\ waveOutProc

Next == \/ AudioThread \/ Plays \/ Ends
        \/ Linux /\ (LinuxUnderrun \/ LinuxWriteFails)
        \/ Others /\ UNCHANGED <<platform, macosVars>>

Spec == Init /\ [][Next]_vars

\* The thread and the device run.
Fairness == WF_vars(AudioThread) /\ WF_vars(Plays) /\ WF_vars(Ends)

FairSpec == Spec /\ Fairness

-----------------------------------------------------------------------------
(* Every variable has its type, and the device has not played what it was not given. *)
TypeOK ==
  /\ should_play \in BOOLEAN /\ should_stop \in BOOLEAN /\ is_playing \in BOOLEAN
  /\ live \in BOOLEAN /\ skipped \in BOOLEAN /\ interrupted \in BOOLEAN /\ failed \in BOOLEAN
  /\ pc \in {"idle", "open", "look", "poll", "check", "write", "end", "drain", "close",
             "return", "clear"}
  /\ device \in {"closed", "none", "prepared", "running", "paused", "xrun", "draining",
                 "stopped", "reset", "done"}
  /\ platform \in Builds /\ pieces \in Lengths
  /\ heard \in Nat /\ heard <= given /\ given \in Nat /\ given <= pieces
  /\ audioQueueHadStarted \in BOOLEAN /\ audioQueueIsRunning \in BOOLEAN
  /\ stopping \in BOOLEAN

(***************************************************************************)
(* A song that nobody skipped, and that the device took, is heard to its   *)
(* end: the back end does not return before what it handed over was        *)
(* played, nor does it take the end of the song before for its own.        *)
(***************************************************************************)
WholeSong == pc = "return" /\ ~skipped /\ ~failed => heard = pieces

(***************************************************************************)
(* start_audio frees the song when the back end returns: by then neither   *)
(* the callbacks of an AudioQueue nor a waveOut device read it any more.   *)
(***************************************************************************)
DataOutlivesDevice == ~live => device \in {"closed", "none"}

(***************************************************************************)
(* Where a song stays although should_play is set: on Linux the thread     *)
(* waits for room in a device that it has paused itself                    *)
(* (audio-linux.c:161); on macOS the queue played everything before the    *)
(* loop saw it run, or ran again after it had stopped, and its stop is not *)
(* noticed (audio-macos.c:121-126).  A device that failed stays silent on  *)
(* macOS and Windows, where no call is checked.                            *)
(***************************************************************************)
Blocked == platform = "linux" /\ pc = "write" /\ device = "paused" /\ given - heard >= Room
Unseen ==
  /\ platform = "macos" /\ heard = pieces
  /\ \/ device = "stopped" /\ ~audioQueueHadStarted
     \/ device = "running" /\ ~stopping
Silent == failed /\ platform # "linux"

(***************************************************************************)
(* A song ends, unless it is paused, however often it was before, and      *)
(* unless it stays for one of the reasons above: there are no others, for  *)
(* all orders of pauses, resumes, underruns, drains and callbacks.         *)
(***************************************************************************)
SongEnds ==
  pc # "idle" /\ should_play ~> pc = "idle" \/ ~should_play \/ Silent \/ Blocked \/ Unseen

(***************************************************************************)
(* A skip ends a song, paused or not, on a device that failed or whose     *)
(* stop is not noticed too; it does not when the thread waits for a paused *)
(* device.                                                                 *)
(***************************************************************************)
StopEnds == should_stop ~> pc = "idle" \/ Blocked

-----------------------------------------------------------------------------
(* What the commands of the demo say, and Linux does not do *)

(***************************************************************************)
(* `pause' "pauses the currently playing song" (turntable-demo.c:44): once *)
(* the loop has seen the pause the device does not run.  One that has run  *)
(* dry cannot be paused, and the next write starts it.                     *)
(***************************************************************************)
PausedSilent == interrupted /\ ~is_playing => device # "running"
=============================================================================
