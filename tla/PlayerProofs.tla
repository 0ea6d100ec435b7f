---------------------------- MODULE PlayerProofs ----------------------------
(***************************************************************************)
(* Proofs about Player, for every set of files, buffers and threads: its   *)
(* types, and, when a created audio thread gets to run before the sleep of *)
(* the handler is over (PromptStart), one song at a time, the ownership of *)
(* buffers and the implementation of Jukebox.                              *)
(***************************************************************************)
EXTENDS Player, TLAPS

(***************************************************************************)
(* No step of Player breaks its types (every assignment of audio.c and of  *)
(* the local branches of turntable.c).                                     *)
(***************************************************************************)
LEMMA TypeStep == TypeOK /\ [Next]_vars => TypeOK'
<1> SUFFICES ASSUME TypeOK, [Next]_vars PROVE TypeOK'
  OBVIOUS
<1> USE DEF TypeOK
<1>1. ASSUME NEW f \in Files, TurntableQueueFile(f) PROVE TypeOK'
  <2>1. [filename |-> f, src |-> Local] \in Entries
    BY DEF Entries
  <2>2. file_queue' \in Seq(Entries)
    BY <1>1, <2>1 DEF TurntableQueueFile
  <2>3. queued' \in 0 .. MaxQueued
    BY <1>1, BoundAssumption DEF TurntableQueueFile
  <2> QED
    BY <1>1, <2>2, <2>3 DEF TurntableQueueFile, flags, heapVars, handlerVars, threadVars
<1>2. CASE TurntablePauseAudio \/ TurntableResumeAudio \/ TurntableSkipAudio
  BY <1>2 DEF TurntablePauseAudio, TurntableResumeAudio, TurntableSkipAudio,
              queueVars, heapVars, handlerVars, threadVars
<1>3. CASE Handler
  <2> USE DEF HandlerStep, HandlerPC, queueVars, flags, heapVars, handlerVars, threadVars
  <2>1. CASE CheckRunning \/ CheckQueue \/ RejectFile \/ SetPlay \/ EndSleep
    BY <2>1 DEF CheckRunning, CheckQueue, RejectFile, SetPlay, EndSleep
  <2>2. CASE PopFront
    <3>1. Head(file_queue) \in Entries /\ Tail(file_queue) \in Seq(Entries)
      BY <2>2 DEF PopFront
    <3> QED
      BY <2>2, <3>1 DEF PopFront
  <2>3. CASE LoadFile \/ RejectData
    <3>1. front.filename \in Files
      BY <2>3, FilesAssumption DEF LoadFile, RejectData
    <3> QED
      BY <2>3, <3>1 DEF LoadFile, RejectData
  <2>4. CASE CreateThread
    BY <2>4 DEF CreateThread, StartAudioThread, ThreadPC
  <2> QED
    BY <1>3, <2>1, <2>2, <2>3, <2>4 DEF Handler
<1>4. ASSUME NEW t \in Threads, AudioThread(t) PROVE TypeOK'
  BY <1>4 DEF AudioThread, BeginAudio, PlatformStop, PlatformDone, FreeAudio, ClearStop, ClearPlay,
              ExitAudio, ThreadStep, ThreadPC, queueVars, flags, heapVars, handlerVars
<1>5. CASE UNCHANGED vars
  BY <1>5 DEF vars, queueVars, flags, heapVars, handlerVars, threadVars
<1> QED
  BY <1>1, <1>2, <1>3, <1>4, <1>5 DEF Next, User

(* The initial values have their types. *)
LEMMA InitTypes == Init => TypeOK
<1> SUFFICES ASSUME Init PROVE TypeOK
  OBVIOUS
<1>1. file_queue \in Seq(Entries) /\ queued \in 0 .. MaxQueued
  BY BoundAssumption DEF Init
<1>2. content \in [Buffers -> Files \cup {NULL}]
  BY DEF Init
<1>3. tpc \in [Threads -> ThreadPC] /\ param \in [Threads -> Buffers \cup {NULL}]
  BY DEF Init, ThreadPC
<1> QED
  BY <1>1, <1>2, <1>3 DEF Init, TypeOK, HandlerPC

(***************************************************************************)
(* Every variable of the player always has its type.                       *)
(***************************************************************************)
THEOREM PlayerTypes == Spec => []TypeOK
  BY InitTypes, TypeStep, PTL DEF Spec

-----------------------------------------------------------------------------
(***************************************************************************)
(* The strengthening of OneSongAtATime.  The handler is past its check of  *)
(* handler_thread_is_running only while no audio thread exists; a thread   *)
(* that has run its first statement shows in the flag; one that has not    *)
(* keeps the handler in the two steps after pthread_create.                *)
(***************************************************************************)
BeforeCreate == {"count", "pop", "load", "create"}

HandlerAlone == hpc \in BeforeCreate => \A t \in Threads : ~Exists(t)
FlagShowsThread == \A t \in Threads : tpc[t] \notin {"none", "begin"} => handler_thread_is_running
NewThreadHoldsHandler == \A t \in Threads : tpc[t] = "begin" => hpc \in {"play", "sleep"}

SerialInv == /\ TypeOK
             /\ OneSongAtATime
             /\ HandlerAlone
             /\ FlagShowsThread
             /\ NewThreadHoldsHandler

(***************************************************************************)
(* The step lemma of SerialInv (audio_handler and start_audio); it needs   *)
(* the timing assumption in one place, the end of the handler's sleep.     *)
(***************************************************************************)
LEMMA SerialStep == ASSUME PromptStart PROVE SerialInv /\ [Next]_vars => SerialInv'
<1> SUFFICES ASSUME SerialInv, [Next]_vars PROVE SerialInv'
  OBVIOUS
<1> USE DEF SerialInv, OneSongAtATime, HandlerAlone, FlagShowsThread, NewThreadHoldsHandler, Exists
<1>0. TypeOK'
  BY TypeStep
<1>1. CASE User
  <2>1. tpc' = tpc /\ hpc' = hpc /\ handler_thread_is_running' = handler_thread_is_running
    BY <1>1 DEF User, TurntableQueueFile, TurntablePauseAudio, TurntableResumeAudio, TurntableSkipAudio,
                flags, handlerVars, threadVars
  <2> QED
    BY <1>0, <2>1
<1>2. CASE Handler
  <2> USE DEF HandlerStep, BeforeCreate, flags, threadVars
  <2>1. CASE CheckRunning
    BY <1>0, <2>1 DEF CheckRunning, TypeOK
  <2>2. CASE CheckQueue \/ PopFront \/ RejectFile \/ RejectData \/ LoadFile \/ SetPlay
    BY <1>0, <2>2 DEF CheckQueue, PopFront, RejectFile, RejectData, LoadFile, SetPlay
  <2>3. CASE CreateThread
    <3>1. PICK t \in Threads : StartAudioThread(t)
      BY <2>3 DEF CreateThread
    <3> QED
      BY <1>0, <2>3, <3>1 DEF CreateThread, StartAudioThread, TypeOK
  <2>4. CASE EndSleep
    BY <1>0, <2>4 DEF EndSleep
  <2> QED
    BY <1>2, <2>1, <2>2, <2>3, <2>4 DEF Handler
<1>3. ASSUME NEW t \in Threads, AudioThread(t) PROVE SerialInv'
  <2> USE DEF ThreadStep, handlerVars, flags, TypeOK
  <2>1. CASE BeginAudio(t)
    BY <1>0, <2>1 DEF BeginAudio, BeforeCreate
  <2>2. CASE PlatformStop(t) \/ PlatformDone(t) \/ FreeAudio(t) \/ ClearStop(t) \/ ClearPlay(t)
    BY <1>0, <2>2 DEF PlatformStop, PlatformDone, FreeAudio, ClearStop, ClearPlay
  <2>3. CASE ExitAudio(t)
    BY <1>0, <2>3 DEF ExitAudio
  <2> QED
    BY <1>3, <2>1, <2>2, <2>3 DEF AudioThread
<1>4. CASE UNCHANGED vars
  BY <1>0, <1>4 DEF vars, flags, handlerVars, threadVars
<1> QED
  BY <1>1, <1>2, <1>3, <1>4 DEF Next

(* The invariant of the whole player. *)
LEMMA Serial == ASSUME PromptStart PROVE Spec => []SerialInv
<1>1. Init => SerialInv
  <2>1. Init => TypeOK
    BY InitTypes
  <2> QED
    BY <2>1 DEF Init, SerialInv, OneSongAtATime, HandlerAlone, FlagShowsThread, NewThreadHoldsHandler,
                Exists, BeforeCreate
<1> QED
  BY <1>1, SerialStep, PTL DEF Spec

(***************************************************************************)
(* One song at a time, for any number of threads, files and buffers,       *)
(* provided that a created thread starts before the handler's sleep ends.  *)
(***************************************************************************)
THEOREM PlayerSerial == ASSUME PromptStart PROVE Spec => []OneSongAtATime
<1>1. SerialInv => OneSongAtATime
  BY DEF SerialInv
<1> QED
  BY <1>1, Serial, PTL

-----------------------------------------------------------------------------
(***************************************************************************)
(* The strengthening of BufferOwnership: the handler carries an entry and, *)
(* before pthread_create, a buffer filled from it; an existing thread was  *)
(* given such a buffer; and what the buffer holds can be played, so that   *)
(* it is none of the leaked ones.                                          *)
(***************************************************************************)
Carried == /\ hpc \in {"load", "create"} => front \in Entries
           /\ hpc = "create" => /\ audio \in Buffers
                                /\ content[audio] = front.filename
                                /\ front.filename \in Playable
Given == \A t \in Threads : Exists(t) => param[t] \in Buffers /\ content[param[t]] \in Playable

OwnInv == /\ SerialInv
          /\ BufferOwnership
          /\ Carried
          /\ Given

(* Carried and Given are kept by every step. *)
LEMMA GivenStep == ASSUME PromptStart PROVE OwnInv /\ [Next]_vars => Carried' /\ Given'
<1> SUFFICES ASSUME OwnInv, [Next]_vars PROVE Carried' /\ Given'
  OBVIOUS
<1> USE DEF OwnInv, SerialInv, Carried, Given, Exists
<1>1. CASE User
  <2>1. UNCHANGED <<tpc, param, hpc, front, audio, content>>
    BY <1>1 DEF User, TurntableQueueFile, TurntablePauseAudio, TurntableResumeAudio, TurntableSkipAudio,
                heapVars, handlerVars, threadVars
  <2> QED
    BY <2>1
<1>2. CASE Handler
  <2> USE DEF HandlerStep
  <2>1. CASE CheckRunning \/ CheckQueue \/ RejectFile \/ SetPlay \/ EndSleep
    BY <2>1 DEF CheckRunning, CheckQueue, RejectFile, SetPlay, EndSleep, heapVars, threadVars
  <2>2. CASE PopFront
    <3>1. Head(file_queue) \in Entries
      BY <2>2 DEF PopFront, TypeOK
    <3> QED
      BY <2>2, <3>1 DEF PopFront, heapVars, threadVars
  <2>3. CASE LoadFile \/ RejectData
    BY <2>3 DEF LoadFile, RejectData, HandlerAlone, BeforeCreate, threadVars, TypeOK
  <2>4. CASE CreateThread
    <3>1. PICK t \in Threads : StartAudioThread(t)
      BY <2>4 DEF CreateThread
    <3> QED
      BY <2>4, <3>1 DEF CreateThread, StartAudioThread, heapVars, TypeOK
  <2> QED
    BY <1>2, <2>1, <2>2, <2>3, <2>4 DEF Handler
<1>3. ASSUME NEW t \in Threads, AudioThread(t) PROVE Carried' /\ Given'
  BY <1>3 DEF AudioThread, BeginAudio, PlatformStop, PlatformDone, FreeAudio, ClearStop, ClearPlay, ExitAudio,
              ThreadStep, heapVars, handlerVars, TypeOK
<1>4. CASE UNCHANGED vars
  BY <1>4 DEF vars, heapVars, handlerVars, threadVars
<1> QED
  BY <1>1, <1>2, <1>3, <1>4 DEF Next

(* Ownership is kept by every step (malloc in audio_handler, free in start_audio). *)
LEMMA OwnershipStep == ASSUME PromptStart PROVE OwnInv /\ [Next]_vars => BufferOwnership'
<1> SUFFICES ASSUME OwnInv, [Next]_vars PROVE BufferOwnership'
  OBVIOUS
<1> USE DEF OwnInv, SerialInv
<1>1. ASSUME UNCHANGED <<live, content, tpc, param, audio>>, (hpc = "create") <=> (hpc' = "create")
      PROVE BufferOwnership'
  BY <1>1 DEF BufferOwnership, Leaked, Owner
<1>2. CASE User
  BY <1>1, <1>2 DEF User, TurntableQueueFile, TurntablePauseAudio, TurntableResumeAudio, TurntableSkipAudio,
                    heapVars, handlerVars, threadVars
<1>3. CASE Handler
  <2> USE DEF HandlerStep
  <2>1. CASE CheckRunning \/ CheckQueue \/ PopFront \/ RejectFile \/ SetPlay \/ EndSleep
    BY <1>1, <2>1 DEF CheckRunning, CheckQueue, PopFront, RejectFile, SetPlay, EndSleep, heapVars, threadVars
  <2>2. CASE LoadFile
    <3>1. \A t \in Threads : ~Owner(t) /\ ~Owner(t)'
      BY <2>2 DEF LoadFile, HandlerAlone, BeforeCreate, Exists, Owner, threadVars
    <3>2. live \ Leaked = {}
      BY <2>2, <3>1 DEF LoadFile, BufferOwnership
    <3>3. PICK b \in Buffers \ live :
            live' = live \cup {b} /\ audio' = b /\ content' = [content EXCEPT ![b] = front.filename]
      BY <2>2 DEF LoadFile
    <3>4. front.filename \notin NotWav
      BY <2>2, FilesAssumption DEF LoadFile
    <3>5. Leaked' = Leaked
      BY <3>3, <3>4 DEF Leaked, TypeOK
    <3>6. b \notin Leaked
      BY DEF Leaked
    <3>7. live' \ Leaked' = {b}
      BY <3>2, <3>3, <3>5, <3>6
    <3> QED
      BY <2>2, <3>1, <3>3, <3>7 DEF LoadFile, BufferOwnership
  <2>4. CASE RejectData
    <3>1. \A t \in Threads : ~Owner(t) /\ ~Owner(t)'
      BY <2>4 DEF RejectData, HandlerAlone, BeforeCreate, Exists, Owner, threadVars
    <3>2. live \ Leaked = {}
      BY <2>4, <3>1 DEF RejectData, BufferOwnership
    <3>3. PICK b \in Buffers \ live :
            live' = live \cup {b} /\ content' = [content EXCEPT ![b] = front.filename]
      BY <2>4 DEF RejectData
    <3>4. front.filename \in NotWav
      BY <2>4 DEF RejectData
    <3>5. Leaked' = Leaked \cup {b}
      BY <3>3, <3>4 DEF Leaked, TypeOK
    <3>6. live' \ Leaked' = {}
      BY <3>2, <3>3, <3>5
    <3> QED
      BY <2>4, <3>1, <3>6 DEF RejectData, BufferOwnership
  <2>3. CASE CreateThread
    <3>1. PICK t \in Threads : StartAudioThread(t)
      BY <2>3 DEF CreateThread
    <3>2. \A u \in Threads : ~Owner(u) /\ (Owner(u)' <=> u = t)
      BY <2>3, <3>1 DEF CreateThread, StartAudioThread, HandlerAlone, BeforeCreate, Exists, Owner, TypeOK
    <3>3. live' \ Leaked' = {audio} /\ param'[t] = audio /\ hpc' # "create"
      BY <2>3, <3>1, <3>2 DEF CreateThread, StartAudioThread, BufferOwnership, Leaked, heapVars, TypeOK
    <3> QED
      BY <3>2, <3>3 DEF BufferOwnership
  <2> QED
    BY <1>3, <2>1, <2>2, <2>3, <2>4 DEF Handler
<1>4. ASSUME NEW t \in Threads, AudioThread(t) PROVE BufferOwnership'
  <2>1. Exists(t) /\ hpc # "create" /\ hpc' = hpc /\ audio' = audio /\ content' = content
    BY <1>4 DEF AudioThread, BeginAudio, PlatformStop, PlatformDone, FreeAudio, ClearStop, ClearPlay, ExitAudio,
                ThreadStep, heapVars, handlerVars, HandlerAlone, BeforeCreate, Exists
  <2>2. \A u \in Threads : u # t => ~Owner(u) /\ ~Owner(u)'
    BY <1>4, <2>1 DEF AudioThread, BeginAudio, PlatformStop, PlatformDone, FreeAudio, ClearStop, ClearPlay,
                      ExitAudio, ThreadStep, OneSongAtATime, Exists, Owner, TypeOK
  <2>3. CASE FreeAudio(t)
    <3>1. Owner(t) /\ ~Owner(t)' /\ live' = live \ {param[t]}
      BY <2>3 DEF FreeAudio, ThreadStep, Owner, TypeOK
    <3>3. live \ Leaked = {param[t]}
      BY <2>1, <2>2, <3>1 DEF BufferOwnership
    <3>2. live' \ Leaked' = {}
      BY <2>1, <3>1, <3>3 DEF Leaked
    <3> QED
      BY <2>1, <2>2, <3>1, <3>2 DEF BufferOwnership
  <2>4. CASE BeginAudio(t) \/ PlatformStop(t) \/ PlatformDone(t) \/ ClearStop(t) \/ ClearPlay(t) \/ ExitAudio(t)
    <3>1. live' = live /\ (Owner(t)' <=> Owner(t)) /\ (Owner(t) => param'[t] = param[t])
      BY <2>1, <2>4, NullAssumption DEF BeginAudio, PlatformStop, PlatformDone, ClearStop, ClearPlay, ExitAudio,
                        ThreadStep, heapVars, Owner, TypeOK, Given
    <3> QED
      BY <2>1, <2>2, <3>1 DEF BufferOwnership, Leaked
  <2> QED
    BY <1>4, <2>3, <2>4 DEF AudioThread
<1>5. CASE UNCHANGED vars
  BY <1>1, <1>5 DEF vars, heapVars, handlerVars, threadVars
<1> QED
  BY <1>2, <1>3, <1>4, <1>5 DEF Next

(* The invariant behind the two theorems that follow. *)
LEMMA Owned == ASSUME PromptStart PROVE Spec => []OwnInv
<1>1. Init => OwnInv
  <2> SUFFICES ASSUME Init PROVE OwnInv
    OBVIOUS
  <2>1. SerialInv
    BY InitTypes DEF Init, SerialInv, OneSongAtATime, HandlerAlone, FlagShowsThread, NewThreadHoldsHandler,
                     Exists, BeforeCreate
  <2>2. BufferOwnership
    BY DEF Init, BufferOwnership, Leaked, Owner
  <2> QED
    BY <2>1, <2>2 DEF Init, OwnInv, Carried, Given, Exists
<1>2. OwnInv /\ [Next]_vars => OwnInv'
  BY SerialStep, GivenStep, OwnershipStep DEF OwnInv
<1> QED
  BY <1>1, <1>2, PTL DEF Spec

(***************************************************************************)
(* No song is leaked, used after it is freed or freed twice, and no buffer *)
(* is leaked but the data of files that are no WAV, whatever the user does *)
(* and however the threads interleave, under PromptStart.                  *)
(***************************************************************************)
THEOREM PlayerOwnership == ASSUME PromptStart PROVE Spec => []BufferOwnership
<1>1. OwnInv => BufferOwnership
  BY DEF OwnInv
<1> QED
  BY <1>1, Owned, PTL

-----------------------------------------------------------------------------
(* Whose entry CurrentEntry is, in terms of where the threads are. *)
Song(b) == [filename |-> content[b], src |-> Local]

LEMMA CurrentOfHandler == hpc \in {"load", "create"} => CurrentEntry = front
BY DEF CurrentEntry

LEMMA CurrentOfThread ==
  ASSUME OneSongAtATime, hpc \notin {"load", "create"}, NEW t \in Threads, Exists(t)
  PROVE  CurrentEntry = Song(param[t])
<1>1. (CHOOSE u \in Threads : Exists(u)) = t
  BY DEF OneSongAtATime
<1> QED
  BY <1>1 DEF CurrentEntry, Song

LEMMA CurrentOfNobody ==
  ASSUME hpc \notin {"load", "create"}, \A t \in Threads : ~Exists(t)
  PROVE  CurrentEntry = NULL
BY DEF CurrentEntry

(* A step that neither moves the handler past a pop nor makes or ends a thread. *)
LEMMA CurrentKept ==
  ASSUME UNCHANGED <<front, content, param>>,
         hpc' \in {"load", "create"} <=> hpc \in {"load", "create"},
         \A t \in Threads : Exists(t)' <=> Exists(t)
  PROVE  CurrentEntry' = CurrentEntry
<1>1. CASE hpc \in {"load", "create"}
  BY <1>1 DEF CurrentEntry
<1>2. CASE hpc \notin {"load", "create"}
  <2>1. (\E t \in Threads : Exists(t)') <=> \E t \in Threads : Exists(t)
    OBVIOUS
  <2>2. (CHOOSE t \in Threads : Exists(t)') = CHOOSE t \in Threads : Exists(t)
    OBVIOUS
  <2> QED
    BY <1>2, <2>1, <2>2 DEF CurrentEntry
<1> QED
  BY <1>1, <1>2

(***************************************************************************)
(* The handler's steps as steps of Jukebox: a pop takes the front entry,   *)
(* a file that cannot be played is released, and handing a song over to    *)
(* its thread changes nothing.                                             *)
(***************************************************************************)
LEMMA HandlerIsJukebox ==
  ASSUME PromptStart, OwnInv, OwnInv', Handler
  PROVE  [J!Next]_<<file_queue, CurrentEntry>>
<1> USE DEF HandlerStep, OwnInv, SerialInv
<1>1. CASE CheckRunning \/ CheckQueue \/ SetPlay \/ EndSleep
  <2>1. CurrentEntry' = CurrentEntry
    BY <1>1, CurrentKept DEF CheckRunning, CheckQueue, SetPlay, EndSleep, heapVars, threadVars, Exists
  <2> QED
    BY <1>1, <2>1 DEF CheckRunning, CheckQueue, SetPlay, EndSleep, queueVars
<1>2. CASE PopFront
  <2>1. \A t \in Threads : ~Exists(t)
    BY <1>2 DEF PopFront, HandlerAlone, BeforeCreate
  <2>2. CurrentEntry = NULL
    BY <1>2, <2>1, CurrentOfNobody DEF PopFront
  <2>3. CurrentEntry' = Head(file_queue)
    BY <1>2 DEF PopFront, CurrentEntry
  <2> QED
    BY <1>2, <2>2, <2>3 DEF PopFront, J!Next, J!Take
<1>3. CASE RejectFile \/ RejectData
  <2>1. \A t \in Threads : ~Exists(t)'
    BY <1>3 DEF RejectFile, RejectData, HandlerAlone, BeforeCreate, Exists, threadVars
  <2>2. CurrentEntry' = NULL
    BY <1>3, <2>1 DEF RejectFile, RejectData, CurrentEntry
  <2>3. CurrentEntry \in Entries
    BY <1>3, CurrentOfHandler DEF RejectFile, RejectData, Carried
  <2> QED
    BY <1>3, <2>2, <2>3, NullAssumption DEF RejectFile, RejectData, queueVars, J!Next, J!Release
<1>4. CASE LoadFile
  BY <1>4, CurrentOfHandler DEF LoadFile, CurrentEntry, queueVars
<1>5. CASE CreateThread
  <2>1. PICK t \in Threads : StartAudioThread(t)
    BY <1>5 DEF CreateThread
  <2>2. front = Song(audio)
    BY <1>5 DEF CreateThread, Carried, Song, Entries
  <2>3. Exists(t)' /\ param'[t] = audio /\ content' = content /\ hpc' = "play"
    BY <1>5, <2>1 DEF CreateThread, StartAudioThread, Exists, heapVars, TypeOK
  <2>4. CurrentEntry' = Song(param[t])'
    BY <2>3, CurrentOfThread DEF OneSongAtATime, CurrentEntry, Song
  <2>5. CurrentEntry = front
    BY <1>5, CurrentOfHandler DEF CreateThread
  <2> QED
    BY <1>5, <2>2, <2>3, <2>4, <2>5 DEF Song, CreateThread, queueVars
<1> QED
  BY <1>1, <1>2, <1>3, <1>4, <1>5 DEF Handler

(***************************************************************************)
(* The player implements the jukebox: songs become current one at a time,  *)
(* in the order they were queued (audio_handler and start_audio).          *)
(***************************************************************************)
THEOREM PlayerIsJukebox == ASSUME PromptStart PROVE Spec => IsJukebox
<1>1. Init => J!Init
  BY DEF Init, J!Init, CurrentEntry, Exists
<1>2. OwnInv /\ OwnInv' /\ [Next]_vars => [J!Next]_<<file_queue, CurrentEntry>>
  <2> SUFFICES ASSUME OwnInv, OwnInv', [Next]_vars PROVE [J!Next]_<<file_queue, CurrentEntry>>
    OBVIOUS
  <2>1. CASE User
    <3>1. CurrentEntry' = CurrentEntry
      BY <2>1, CurrentKept DEF User, TurntableQueueFile, TurntablePauseAudio, TurntableResumeAudio,
         TurntableSkipAudio, heapVars, handlerVars, threadVars, Exists
    <3>2. ASSUME NEW f \in Files, TurntableQueueFile(f) PROVE J!Next
      <4>1. [filename |-> f, src |-> Local] \in Entries
        BY DEF Entries
      <4> QED
        BY <3>1, <3>2, <4>1 DEF TurntableQueueFile, J!Next, J!Enqueue
    <3> QED
      BY <2>1, <3>1, <3>2 DEF User, TurntablePauseAudio, TurntableResumeAudio, TurntableSkipAudio, queueVars
  <2>2. CASE Handler
    BY <2>2, HandlerIsJukebox
  <2>3. ASSUME NEW t \in Threads, AudioThread(t) PROVE [J!Next]_<<file_queue, CurrentEntry>>
    <3> USE DEF ThreadStep, OwnInv, SerialInv
    <3>1. CASE ExitAudio(t)
      <4>1. Exists(t) /\ hpc \notin {"load", "create"} /\ hpc' = hpc
        BY <3>1 DEF ExitAudio, Exists, HandlerAlone, BeforeCreate, handlerVars
      <4>2. CurrentEntry = Song(param[t])
        BY <4>1, CurrentOfThread
      <4>3. CurrentEntry \in Entries
        BY <4>1, <4>2, FilesAssumption DEF Given, Song, Entries
      <4>4. \A u \in Threads : ~Exists(u)'
        BY <3>1, <4>1 DEF ExitAudio, OneSongAtATime, Exists, TypeOK
      <4>5. CurrentEntry' = NULL
        BY <4>1, <4>4 DEF CurrentEntry
      <4> QED
        BY <3>1, <4>3, <4>5, NullAssumption DEF ExitAudio, queueVars, J!Next, J!Release
    <3>2. CASE BeginAudio(t) \/ PlatformStop(t) \/ PlatformDone(t) \/ FreeAudio(t) \/ ClearStop(t) \/ ClearPlay(t)
      <4>1. UNCHANGED <<file_queue, hpc, front, content, param>>
        BY <3>2 DEF BeginAudio, PlatformStop, PlatformDone, FreeAudio, ClearStop, ClearPlay, queueVars,
                    heapVars, handlerVars
      <4>2. \A u \in Threads : Exists(u)' <=> Exists(u)
        BY <3>2 DEF BeginAudio, PlatformStop, PlatformDone, FreeAudio, ClearStop, ClearPlay, Exists, TypeOK
      <4> QED
        BY <4>1, <4>2, CurrentKept
    <3> QED
      BY <2>3, <3>1, <3>2 DEF AudioThread
  <2>4. CASE UNCHANGED vars
    <3>1. CurrentEntry' = CurrentEntry
      BY <2>4 DEF vars, heapVars, handlerVars, threadVars, CurrentEntry, Exists
    <3> QED
      BY <2>4, <3>1 DEF vars, queueVars
  <2> QED
    BY <2>1, <2>2, <2>3, <2>4 DEF Next
<1> QED
  BY <1>1, <1>2, Owned, PTL DEF Spec, IsJukebox, J!Spec, J!jvars
=============================================================================
