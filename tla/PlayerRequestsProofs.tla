------------------------ MODULE PlayerRequestsProofs ------------------------
(***************************************************************************)
(* Proof that a skip ends at most one song, for every number of skips,     *)
(* files and threads, under PromptStart.                                   *)
(***************************************************************************)
EXTENDS PlayerRequests, PlayerProofs

(***************************************************************************)
(* A request to stop is spent by the song it ends: from then on, until     *)
(* that song's thread clears should_stop, the flag promises no other stop. *)
(***************************************************************************)
Spent == \E t \in Threads : tpc[t] \in {"free", "unstop"}

SkipInv ==
  /\ skips \in Nat /\ stops \in Nat
  /\ stops <= skips
  /\ should_stop /\ ~Spent => stops + 1 <= skips

(* Every step of RequestsSpec is a step of Player. *)
LEMMA RequestsAreSteps == [RequestsNext]_allVars => [Next]_vars
BY DEF RequestsNext, AskSkip, AskPause, AskResume, Stopped, NewSong, Unrecorded, Next, User, Handler,
       AudioThread, allVars

LEMMA SkipStep == SerialInv /\ SkipInv /\ [RequestsNext]_allVars => SkipInv'
<1> SUFFICES ASSUME SerialInv, SkipInv, [RequestsNext]_allVars PROVE SkipInv'
  OBVIOUS
<1> USE DEF SkipInv
<1>1. ASSUME UNCHANGED <<skips, stops, should_stop>>, Spent => Spent' PROVE SkipInv'
  BY <1>1
<1>2. CASE AskSkip
  <2>1. skips' = skips + 1 /\ stops' = stops
    BY <1>2 DEF AskSkip
  <2> QED
    BY <2>1
<1>3. CASE AskPause \/ AskResume \/ NewSong
  <2>1. UNCHANGED <<skips, stops, should_stop>>
    BY <1>3 DEF AskPause, AskResume, NewSong, TurntablePauseAudio, TurntableResumeAudio, CreateThread, flags
  <2>2. Spent => Spent'
    BY <1>3 DEF AskPause, AskResume, NewSong, TurntablePauseAudio, TurntableResumeAudio, CreateThread,
                StartAudioThread, Exists, threadVars, Spent, SerialInv, TypeOK
  <2> QED
    BY <1>1, <2>1, <2>2
<1>4. ASSUME NEW t \in Threads, Stopped(t) PROVE SkipInv'
  <2>1. should_stop /\ tpc[t] = "run" /\ tpc' = [tpc EXCEPT ![t] = "free"]
        /\ stops' = stops + 1 /\ skips' = skips
    BY <1>4 DEF Stopped, PlatformStop, ThreadStep
  <2>2. ~Spent
    BY <2>1 DEF Spent, SerialInv, OneSongAtATime, Exists
  <2>3. Spent'
    BY <2>1 DEF Spent, SerialInv, TypeOK
  <2> QED
    BY <2>1, <2>2, <2>3
<1>5. CASE Unrecorded
  <2>1. skips' = skips /\ stops' = stops
    BY <1>5 DEF Unrecorded, historyVars
  <2>2. ASSUME NEW t \in Threads, ClearStop(t) PROVE SkipInv'
    <3>1. should_stop' = FALSE
      BY <2>2 DEF ClearStop
    <3> QED
      BY <2>1, <3>1
  <2>3. CASE \/ \E f \in Files : TurntableQueueFile(f)
             \/ CheckRunning \/ CheckQueue \/ PopFront \/ RejectFile \/ RejectData \/ LoadFile
             \/ SetPlay \/ EndSleep
    <3>1. tpc' = tpc /\ should_stop' = should_stop
      BY <2>3 DEF TurntableQueueFile, CheckRunning, CheckQueue, PopFront, RejectFile, RejectData, LoadFile,
                  SetPlay, EndSleep, flags, threadVars
    <3> QED
      BY <1>1, <2>1, <3>1 DEF Spent
  <2>4. ASSUME NEW t \in Threads,
               BeginAudio(t) \/ PlatformDone(t) \/ FreeAudio(t) \/ ClearPlay(t) \/ ExitAudio(t)
        PROVE SkipInv'
    <3>1. should_stop' = should_stop
      BY <2>4 DEF BeginAudio, PlatformDone, FreeAudio, ClearPlay, ExitAudio, flags
    <3>2. Spent => Spent'
      BY <2>4 DEF BeginAudio, PlatformDone, FreeAudio, ClearPlay, ExitAudio, ThreadStep, Spent, SerialInv, TypeOK
    <3> QED
      BY <1>1, <2>1, <3>1, <3>2
  <2> QED
    BY <1>5, <2>2, <2>3, <2>4 DEF Unrecorded
<1>6. CASE UNCHANGED allVars
  BY <1>6 DEF allVars, historyVars, vars, flags, threadVars, Spent
<1> QED
  BY <1>2, <1>3, <1>4, <1>5, <1>6 DEF RequestsNext

(***************************************************************************)
(* A skip ends at most one song (turntable_skip_audio and start_audio).    *)
(***************************************************************************)
THEOREM SkipsSpent == ASSUME PromptStart PROVE RequestsSpec => []OneSongPerSkip
<1>1. RequestsInit => SerialInv /\ SkipInv
  <2> SUFFICES ASSUME RequestsInit PROVE SerialInv /\ SkipInv
    OBVIOUS
  <2>1. SerialInv
    BY InitTypes DEF RequestsInit, Init, SerialInv, OneSongAtATime, HandlerAlone, FlagShowsThread,
                     NewThreadHoldsHandler, Exists, BeforeCreate
  <2> QED
    BY <2>1 DEF RequestsInit, Init, SkipInv
<1>2. SerialInv /\ SkipInv /\ [RequestsNext]_allVars => (SerialInv /\ SkipInv)'
  BY SerialStep, SkipStep, RequestsAreSteps
<1>3. SkipInv => OneSongPerSkip
  BY DEF SkipInv, OneSongPerSkip
<1> QED
  BY <1>1, <1>2, <1>3, PTL DEF RequestsSpec
=============================================================================
