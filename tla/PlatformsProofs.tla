--------------------------- MODULE PlatformsProofs ---------------------------
(***************************************************************************)
(* Proofs about Platforms, for songs and devices of every size: a song is  *)
(* heard to its end, and the device does not outlive the song's data.      *)
(***************************************************************************)
EXTENDS Platforms, TLAPS

-----------------------------------------------------------------------------
(* The inductive invariant *)

\* The variables that are TRUE or FALSE.
Switches ==
  /\ should_play \in BOOLEAN /\ should_stop \in BOOLEAN /\ is_playing \in BOOLEAN
  /\ live \in BOOLEAN /\ skipped \in BOOLEAN /\ interrupted \in BOOLEAN /\ failed \in BOOLEAN
  /\ audioQueueHadStarted \in BOOLEAN /\ audioQueueIsRunning \in BOOLEAN
  /\ stopping \in BOOLEAN

\* While the device is in use, so is the song.
InUse ==
  /\ live = (pc \notin {"idle", "clear"})
  /\ pc \in {"idle", "open", "return", "clear"} => device \in {"closed", "none"}
  /\ pc = "open" => given = 0

\* The loop is left when everything is written, by a skip, or by a failure.
LinuxInv ==
  platform = "linux" =>
    /\ should_stop => skipped
    /\ pc \in {"check", "write"} => given < pieces
    /\ pc \in {"end", "drain"} => given = pieces \/ skipped \/ failed

InLoop == pc \in {"look", "poll", "check", "end"}

\* The queue is found stopped only when it has played everything.
MacosInv ==
  platform = "macos" =>
    /\ pc \notin {"write", "drain", "close"}
    /\ should_stop => skipped
    /\ InLoop /\ stopping => given = pieces
    /\ device = "stopped" => heard = pieces
    /\ InLoop /\ audioQueueHadStarted => device \in {"running", "paused", "stopped"}
    /\ InLoop /\ ~audioQueueIsRunning => heard = pieces
    /\ pc = "end" => skipped \/ heard = pieces

\* waveOutProc sets should_stop for a song that was played, or was stopped before.
WindowsInv ==
  platform = "windows" =>
    /\ pc \in {"idle", "open"} /\ should_stop => skipped
    /\ pc \notin {"idle", "open", "clear"} /\ should_stop => skipped \/ heard = pieces
    /\ pc \in {"end", "close", "return"} => should_stop
    /\ device = "reset" => pc = "close"
    /\ device \in {"running", "paused"} => given = pieces

IInv == TypeOK /\ InUse /\ LinuxInv /\ MacosInv /\ WindowsInv /\ WholeSong

-----------------------------------------------------------------------------
(* The initial states satisfy it. *)
LEMMA InitInv == Init => IInv
<1>1. Lengths \subseteq Nat
  BY PiecesAssumption
<1>2. Init => Switches
  BY DEF Init, PlatformInit, MacosInit, Switches
<1> QED
  BY <1>1, <1>2
  DEF Init, PlatformInit, Switches, MacosInit, IInv, TypeOK, InUse, InLoop, LinuxInv, MacosInv,
      WindowsInv, WholeSong

(* The steps of start_audio and of the other threads preserve it. *)
LEMMA CommonSteps ==
  ASSUME IInv, UNCHANGED <<platform, macosVars>>,
         Others \/ FreeSong \/ ClearFlags
  PROVE  IInv'
<1>1. Lengths \subseteq Nat \ {0}
  BY PiecesAssumption
<1> USE <1>1
    DEF IInv, TypeOK, InUse, InLoop, LinuxInv, MacosInv, WindowsInv, WholeSong,
        macosVars, flags, song, card, ThreadStep
<1>2. CASE SetPlay(TRUE)
  BY <1>2 DEF SetPlay
<1>3. CASE SetPlay(FALSE)
  <2>1. TypeOK'
    <3>1. Switches'
      BY <1>3 DEF SetPlay, Switches
    <3> QED
      BY <3>1, <1>3 DEF SetPlay, Switches
  <2>2. InUse'
    BY <1>3 DEF SetPlay
  <2>3. LinuxInv'
    BY <1>3 DEF SetPlay
  <2>4. MacosInv'
    BY <1>3 DEF SetPlay
  <2>5. WindowsInv'
    BY <1>3 DEF SetPlay
  <2>6. WholeSong'
    BY <1>3 DEF SetPlay
  <2> QED
    BY <2>1, <2>2, <2>3, <2>4, <2>5, <2>6
<1>4. CASE Skip
  BY <1>4 DEF Skip
<1>5. CASE BeginSong
  <2>1. TypeOK'
    <3>1. Switches'
      BY <1>5 DEF BeginSong, Switches
    <3> QED
      BY <3>1, <1>5 DEF BeginSong, Switches
  <2>2. InUse'
    BY <1>5 DEF BeginSong
  <2>3. LinuxInv'
    BY <1>5 DEF BeginSong
  <2>4. MacosInv'
    BY <1>5 DEF BeginSong
  <2>5. WindowsInv'
    BY <1>5 DEF BeginSong
  <2>6. WholeSong'
    BY <1>5 DEF BeginSong
  <2> QED
    BY <2>1, <2>2, <2>3, <2>4, <2>5, <2>6
<1>6. CASE FreeSong
  <2>1. TypeOK'
    <3>1. Switches'
      BY <1>6 DEF FreeSong, Switches
    <3> QED
      BY <3>1, <1>6 DEF FreeSong, Switches
  <2>2. InUse'
    BY <1>6 DEF FreeSong
  <2>3. LinuxInv'
    BY <1>6 DEF FreeSong
  <2>4. MacosInv'
    BY <1>6 DEF FreeSong
  <2>5. WindowsInv'
    BY <1>6 DEF FreeSong
  <2>6. WholeSong'
    BY <1>6 DEF FreeSong
  <2> QED
    BY <2>1, <2>2, <2>3, <2>4, <2>5, <2>6
<1>7. CASE ClearFlags
  <2>1. TypeOK'
    <3>1. Switches'
      BY <1>7 DEF ClearFlags, Switches
    <3> QED
      BY <3>1, <1>7 DEF ClearFlags, Switches
  <2>2. InUse'
    BY <1>7 DEF ClearFlags
  <2>3. LinuxInv'
    BY <1>7 DEF ClearFlags
  <2>4. MacosInv'
    BY <1>7 DEF ClearFlags
  <2>5. WindowsInv'
    BY <1>7 DEF ClearFlags
  <2>6. WholeSong'
    BY <1>7 DEF ClearFlags
  <2> QED
    BY <2>1, <2>2, <2>3, <2>4, <2>5, <2>6
<1> QED
  BY <1>2, <1>3, <1>4, <1>5, <1>6, <1>7 DEF Others

(* So do the steps of the Linux back end and its device. *)
LEMMA LinuxSteps ==
  ASSUME IInv, Linux, LinuxThread \/ LinuxPlays \/ LinuxUnderrun \/ LinuxWriteFails
  PROVE  IInv'
<1>1. Lengths \subseteq Nat \ {0}
  BY PiecesAssumption
<1> USE <1>1
    DEF IInv, TypeOK, InUse, InLoop, LinuxInv, MacosInv, WindowsInv, WholeSong,
        macosVars, flags, song, card, ThreadStep, Linux, On
<1>2. CASE LinuxSetupFails
  BY <1>2 DEF LinuxSetupFails
<1>3. CASE LinuxSetup
  BY <1>3 DEF LinuxSetup
<1>4. CASE LinuxLook
  BY <1>4 DEF LinuxLook, Look
<1>5. CASE LinuxAllWritten
  BY <1>5 DEF LinuxAllWritten
<1>6. CASE LinuxCheckStop
  BY <1>6 DEF LinuxCheckStop
<1>7. CASE LinuxWrite
  BY <1>7 DEF LinuxWrite
<1>8. CASE LinuxRecover
  BY <1>8 DEF LinuxRecover
<1>9. CASE LinuxDrop
  BY <1>9 DEF LinuxDrop
<1>10. CASE LinuxDrain
  BY <1>10 DEF LinuxDrain
<1>11. CASE LinuxDrained
  BY <1>11 DEF LinuxDrained
<1>12. CASE LinuxPlays
  BY <1>12 DEF LinuxPlays, PlayPiece
<1>13. CASE LinuxUnderrun
  BY <1>13 DEF LinuxUnderrun
<1>14. CASE LinuxWriteFails
  BY <1>14 DEF LinuxWriteFails
<1> QED
  BY <1>2, <1>3, <1>4, <1>5, <1>6, <1>7, <1>8, <1>9, <1>10, <1>11, <1>12, <1>13, <1>14
  DEF LinuxThread

(* So do those of the macOS back end and its queue. *)
LEMMA MacosSteps ==
  ASSUME IInv, On("macos"), MacosThread \/ MacosCallback \/ MacosStops
  PROVE  IInv'
<1>1. Lengths \subseteq Nat \ {0} /\ Room \in Nat \ {0}
  BY PiecesAssumption
<1> USE <1>1
    DEF IInv, TypeOK, InUse, InLoop, LinuxInv, MacosInv, WindowsInv, WholeSong,
        macosVars, flags, song, card, ThreadStep, On
<1>2. CASE MacosSetup
  <2>1. TypeOK'
    <3>1. Switches'
      BY <1>2 DEF MacosSetup, Switches
    <3>2. heard' \in Nat /\ heard' <= given' /\ given' \in Nat /\ given' <= pieces'
      <4>1. heard = 0 /\ heard' = 0
        BY <1>2 DEF MacosSetup
      <4>2. CASE pieces < Room
        BY <1>2, <4>1, <4>2 DEF MacosSetup
      <4>3. CASE ~(pieces < Room)
        BY <1>2, <4>1, <4>3 DEF MacosSetup
      <4> QED
        BY <4>2, <4>3
    <3> QED
      BY <3>1, <3>2, <1>2 DEF MacosSetup, Switches
  <2>2. InUse'
    BY <1>2 DEF MacosSetup
  <2>3. LinuxInv'
    BY <1>2 DEF MacosSetup
  <2>4. MacosInv'
    BY <1>2 DEF MacosSetup
  <2>5. WindowsInv'
    BY <1>2 DEF MacosSetup
  <2>6. WholeSong'
    BY <1>2 DEF MacosSetup
  <2> QED
    BY <2>1, <2>2, <2>3, <2>4, <2>5, <2>6
<1>3. CASE MacosLook
  BY <1>3 DEF MacosLook, Look
<1>4. CASE MacosPoll
  <2>1. TypeOK'
    <3>1. Switches'
      <4>1. Running \in BOOLEAN
        BY DEF Running
      <4>2. CASE audioQueueHadStarted
        BY <1>4, <4>1, <4>2 DEF MacosPoll, Switches
      <4>3. CASE ~audioQueueHadStarted
        BY <1>4, <4>1, <4>3 DEF MacosPoll, Switches
      <4> QED
        BY <4>2, <4>3
    <3> QED
      BY <3>1, <1>4 DEF MacosPoll, Running, Switches
  <2>2. InUse'
    BY <1>4 DEF MacosPoll, Running
  <2>3. LinuxInv'
    BY <1>4 DEF MacosPoll, Running
  <2>4. MacosInv'
    BY <1>4 DEF MacosPoll, Running
  <2>5. WindowsInv'
    BY <1>4 DEF MacosPoll, Running
  <2>6. WholeSong'
    BY <1>4 DEF MacosPoll, Running
  <2> QED
    BY <2>1, <2>2, <2>3, <2>4, <2>5, <2>6
<1>5. CASE MacosCheckStop
  BY <1>5 DEF MacosCheckStop
<1>6. CASE MacosDispose
  BY <1>6 DEF MacosDispose
<1>7. CASE MacosCallback
  <2>1. TypeOK'
    <3>1. Switches'
      BY <1>7 DEF MacosCallback, PlayPiece, Switches
    <3> QED
      BY <3>1, <1>7 DEF MacosCallback, PlayPiece, Switches
  <2>2. InUse'
    BY <1>7 DEF MacosCallback, PlayPiece
  <2>3. LinuxInv'
    BY <1>7 DEF MacosCallback, PlayPiece
  <2>4. MacosInv'
    BY <1>7 DEF MacosCallback, PlayPiece
  <2>5. WindowsInv'
    BY <1>7 DEF MacosCallback, PlayPiece
  <2>6. WholeSong'
    BY <1>7 DEF MacosCallback, PlayPiece
  <2> QED
    BY <2>1, <2>2, <2>3, <2>4, <2>5, <2>6
<1>8. CASE MacosStops
  <2>1. TypeOK'
    <3>1. Switches'
      BY <1>8 DEF MacosStops, Switches
    <3> QED
      BY <3>1, <1>8 DEF MacosStops, Switches
  <2>2. InUse'
    BY <1>8 DEF MacosStops
  <2>3. LinuxInv'
    BY <1>8 DEF MacosStops
  <2>4. MacosInv'
    BY <1>8 DEF MacosStops
  <2>5. WindowsInv'
    BY <1>8 DEF MacosStops
  <2>6. WholeSong'
    BY <1>8 DEF MacosStops
  <2> QED
    BY <2>1, <2>2, <2>3, <2>4, <2>5, <2>6
<1>9. CASE MacosSetupFails
  <2>1. TypeOK'
    <3>1. Switches'
      BY <1>9 DEF MacosSetupFails, Switches
    <3> QED
      BY <3>1, <1>9 DEF MacosSetupFails, Switches
  <2>2. InUse' /\ LinuxInv' /\ WindowsInv' /\ WholeSong'
    BY <1>9 DEF MacosSetupFails
  <2>3. MacosInv'
    BY <1>9 DEF MacosSetupFails
  <2> QED
    BY <2>1, <2>2, <2>3
<1>10. CASE MacosStartFails
  BY <1>10 DEF MacosStartFails
<1> QED
  BY <1>2, <1>3, <1>4, <1>5, <1>6, <1>7, <1>8, <1>9, <1>10 DEF MacosThread

(* So do those of the Windows back end and its device. *)
LEMMA WindowsSteps ==
  ASSUME IInv, Windows, WindowsThread \/ WindowsPlays \/ waveOutProc
  PROVE  IInv'
<1>1. Lengths \subseteq Nat \ {0}
  BY PiecesAssumption
<1> USE <1>1
    DEF IInv, TypeOK, InUse, InLoop, LinuxInv, MacosInv, WindowsInv, WholeSong,
        macosVars, flags, song, card, ThreadStep, Windows, On, Opened
<1>2. CASE WindowsOpenFails
  BY <1>2 DEF WindowsOpenFails
<1>3. CASE WindowsOpen
  BY <1>3 DEF WindowsOpen
<1>4. CASE WindowsLook
  BY <1>4 DEF WindowsLook, Look
<1>5. CASE WindowsCheckStop
  BY <1>5 DEF WindowsCheckStop
<1>6. CASE WindowsReset
  BY <1>6 DEF WindowsReset
<1>7. CASE WindowsClose
  BY <1>7 DEF WindowsClose
<1>8. CASE WindowsPlays
  BY <1>8 DEF WindowsPlays, PlayPiece
<1>9. CASE waveOutProc
  BY <1>9 DEF waveOutProc
<1> QED
  BY <1>2, <1>3, <1>4, <1>5, <1>6, <1>7, <1>8, <1>9 DEF WindowsThread

(* Every step preserves it. *)
LEMMA StepInv == IInv /\ [Next]_vars => IInv'
<1> SUFFICES ASSUME IInv, [Next]_vars
             PROVE  IInv'
  OBVIOUS
<1>1. CASE UNCHANGED vars
  BY <1>1
  DEF vars, commonVars, macosVars, flags, song, card, IInv, TypeOK, InUse, InLoop, LinuxInv,
      MacosInv, WindowsInv, WholeSong
<1>2. CASE UNCHANGED <<platform, macosVars>> /\ (Others \/ FreeSong \/ ClearFlags)
  BY <1>2, CommonSteps
<1>3. CASE Linux /\ (LinuxThread \/ LinuxPlays \/ LinuxUnderrun \/ LinuxWriteFails)
  BY <1>3, LinuxSteps
<1>4. CASE On("macos") /\ (MacosThread \/ MacosCallback \/ MacosStops)
  BY <1>4, MacosSteps
<1>5. CASE Windows /\ (WindowsThread \/ WindowsPlays \/ waveOutProc)
  BY <1>5, WindowsSteps
<1> QED
  BY <1>1, <1>2, <1>3, <1>4, <1>5 DEF Next, AudioThread, PlatformThread, Plays, Ends

(* It holds in every reachable state. *)
LEMMA Invariance == Spec => []IInv
  BY InitInv, StepInv, PTL DEF Spec

-----------------------------------------------------------------------------
(* Every variable has its type: no more of a song is given away than there is of it. *)
THEOREM TypeCorrect == Spec => []TypeOK
<1>1. IInv => TypeOK
  BY DEF IInv
<1> QED
  BY <1>1, Invariance, PTL

(***************************************************************************)
(* On every platform a song that nobody skipped, and that the device took, *)
(* was heard to its end when the back end returns (audio.c:11-17).         *)
(***************************************************************************)
THEOREM SongIsWhole == Spec => []WholeSong
<1>1. IInv => WholeSong
  BY DEF IInv
<1> QED
  BY <1>1, Invariance, PTL

(***************************************************************************)
(* The device is closed when start_audio frees the song (audio.c:106).     *)
(***************************************************************************)
THEOREM NoUseAfterFree == Spec => []DataOutlivesDevice
<1>1. IInv => DataOutlivesDevice
  BY DEF IInv, TypeOK, InUse, DataOutlivesDevice
<1> QED
  BY <1>1, Invariance, PTL
=============================================================================
