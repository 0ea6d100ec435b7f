------------------------------- MODULE Player -------------------------------
(***************************************************************************)
(* The playback half of turntable, as it runs in a program that is not     *)
(* connected as a client: the caller's thread (turntable.c), the handler   *)
(* thread (audio_handler in audio/audio.c), the audio threads it creates   *)
(* (start_audio and the platform loop it calls) and the flags of           *)
(* AudioState they share without a lock.                                   *)
(*                                                                         *)
(* Every access to a shared flag, to the queue or to AudioState.audio that *)
(* another thread can observe is a step of its own.  The Makefile compiles *)
(* without optimisation, so each read in a polling loop is a new load.     *)
(* The queue itself is atomic here; its array is the subject of Queue.tla. *)
(* The remote branch of the handler is in Streaming.tla, which reuses the  *)
(* actions of this module.                                                 *)
(***************************************************************************)
EXTENDS Naturals, Sequences, FiniteSets

CONSTANTS
  Files,        \* file names a caller may queue
  Playable,     \* the files that exist, are not empty, under 2 GB and RIFF/WAV
  NotWav,       \* those that are all this except RIFF/WAV
  Commands,     \* the calls the user makes: a subset of {"pause", "resume", "skip"}
  Buffers,      \* addresses malloc may return for an audio buffer
  Threads,      \* identities pthread_create may give to an audio thread
  NULL,
  MaxQueued,    \* bound: calls of turntable_queue_file
  PromptStart   \* whether a created audio thread runs its first statement
                \* before the 10 ms sleep of the handler is over

ASSUME FilesAssumption == Playable \subseteq Files /\ NotWav \subseteq Files \ Playable
ASSUME BoundAssumption == MaxQueued \in Nat
ASSUME TimingAssumption == PromptStart \in BOOLEAN

VARIABLES
  file_queue,   \* SocketState.file_queue, oldest first
  queued,       \* number of calls of turntable_queue_file so far
  should_play, should_stop, handler_thread_is_running,   \* AudioState.flags
  audio,        \* AudioState.audio: a buffer or NULL
  live,         \* buffers allocated and not freed
  content,      \* the file whose bytes a buffer holds
  hpc,          \* where the handler thread is
  front,        \* front_elem of the handler
  tpc,          \* where each audio thread is; "none" if it does not exist
  param         \* the argument each audio thread was created with

flags == <<should_play, should_stop, handler_thread_is_running>>
queueVars == <<file_queue, queued>>
heapVars == <<audio, live, content>>
handlerVars == <<hpc, front>>
threadVars == <<tpc, param>>
vars == <<queueVars, flags, heapVars, handlerVars, threadVars>>

Local == "localhost"
Entries == [filename : Files, src : {Local}]

ASSUME NullAssumption == NULL \notin Buffers /\ NULL \notin Files /\ NULL \notin Entries

(***************************************************************************)
(* "loop" and "count" evaluate the condition of the if; "pop", "load",     *)
(* "create" and "play" are its local branch; "sleep" is the msleep.        *)
(***************************************************************************)
HandlerPC == {"loop", "count", "pop", "load", "create", "play", "sleep"}

(***************************************************************************)
(* "begin" has not run its first statement; "run" is in                    *)
(* start_platform_audio; "free", "unstop", "unplay" and "exit" are the     *)
(* statements after it, in their order.                                    *)
(***************************************************************************)
ThreadPC == {"none", "begin", "run", "free", "unstop", "unplay", "exit"}

Exists(t) == tpc[t] # "none"

Init ==
  /\ file_queue = <<>>
  /\ queued = 0
  /\ should_play = FALSE
  /\ should_stop = FALSE
  /\ handler_thread_is_running = FALSE
  /\ audio = NULL
  /\ live = {}
  /\ content = [b \in Buffers |-> NULL]
  /\ hpc = "loop"
  /\ front = NULL
  /\ tpc = [t \in Threads |-> "none"]
  /\ param = [t \in Threads |-> NULL]

-----------------------------------------------------------------------------
(* The caller's thread. *)

\* Slip: the entry is queued without its source, as the client branch does.
TurntableQueueFileNoSource(f) ==
  /\ queued < MaxQueued
  /\ queued' = queued + 1
  /\ file_queue' = Append(file_queue, [filename |-> f, src |-> NULL])
  /\ UNCHANGED <<flags, heapVars, handlerVars, threadVars>>

TurntableQueueFile(f) ==
  /\ queued < MaxQueued
  /\ queued' = queued + 1
  /\ file_queue' = Append(file_queue, [filename |-> f, src |-> Local])
  /\ UNCHANGED <<flags, heapVars, handlerVars, threadVars>>

TurntablePauseAudio ==
  /\ "pause" \in Commands
  /\ should_play' = FALSE
  /\ UNCHANGED <<queueVars, should_stop, handler_thread_is_running, heapVars, handlerVars, threadVars>>

TurntableResumeAudio ==
  /\ "resume" \in Commands
  /\ should_play' = TRUE
  /\ UNCHANGED <<queueVars, should_stop, handler_thread_is_running, heapVars, handlerVars, threadVars>>

TurntableSkipAudio ==
  /\ "skip" \in Commands
  /\ should_stop' = TRUE
  /\ UNCHANGED <<queueVars, should_play, handler_thread_is_running, heapVars, handlerVars, threadVars>>

-----------------------------------------------------------------------------
(* The handler thread. *)

HandlerStep(from, to) ==
  /\ hpc = from
  /\ hpc' = to

\* Slip: the handler does not look at handler_thread_is_running.
CheckRunningUnguarded ==
  /\ HandlerStep("loop", "count")
  /\ UNCHANGED <<front, queueVars, flags, heapVars, threadVars>>

CheckRunning ==
  /\ HandlerStep("loop", "count")
  /\ ~handler_thread_is_running
  /\ UNCHANGED <<front, queueVars, flags, heapVars, threadVars>>

CheckQueue ==
  /\ HandlerStep("count", IF file_queue # <<>> THEN "pop" ELSE "loop")
  /\ UNCHANGED <<front, queueVars, flags, heapVars, threadVars>>

\* Slip: the handler looks at the front entry and leaves it in the queue.
PopFrontPeek ==
  /\ HandlerStep("pop", "load")
  /\ file_queue # <<>>
  /\ front' = Head(file_queue)
  /\ UNCHANGED <<queueVars, flags, heapVars, threadVars>>

PopFront ==
  /\ HandlerStep("pop", "load")
  /\ file_queue # <<>>
  /\ front' = Head(file_queue)
  /\ file_queue' = Tail(file_queue)
  /\ UNCHANGED <<queued, flags, heapVars, threadVars>>

\* The `continue`s for a file that is too large, and for one that is missing or empty.
RejectFile ==
  /\ HandlerStep("load", "loop")
  /\ front.src = Local
  /\ front.filename \notin Playable \cup NotWav
  /\ front' = NULL
  /\ UNCHANGED <<queueVars, flags, heapVars, threadVars>>

\* The `continue` for a file that is no WAV comes after malloc, and frees nothing.
RejectData ==
  /\ HandlerStep("load", "loop")
  /\ front.src = Local
  /\ front.filename \in NotWav
  /\ front' = NULL
  /\ \E b \in Buffers \ live :
        /\ live' = live \cup {b}
        /\ content' = [content EXCEPT ![b] = front.filename]
  /\ UNCHANGED <<queueVars, flags, audio, threadVars>>

LoadFile ==
  /\ HandlerStep("load", "create")
  /\ front.src = Local
  /\ front.filename \in Playable
  /\ \E b \in Buffers \ live :
        /\ live' = live \cup {b}
        /\ audio' = b
        /\ content' = [content EXCEPT ![b] = front.filename]
  /\ UNCHANGED <<front, queueVars, flags, threadVars>>

\* pthread_create(start_audio, AudioState.audio)
StartAudioThread(t) ==
  /\ ~Exists(t)
  /\ tpc' = [tpc EXCEPT ![t] = "begin"]
  /\ param' = [param EXCEPT ![t] = audio]

CreateThread ==
  /\ HandlerStep("create", "play")
  /\ front' = NULL
  /\ \E t \in Threads : StartAudioThread(t)
  /\ UNCHANGED <<queueVars, flags, heapVars>>

SetPlay ==
  /\ HandlerStep("play", "sleep")
  /\ should_play' = TRUE
  /\ UNCHANGED <<front, queueVars, should_stop, handler_thread_is_running, heapVars, threadVars>>

EndSleep ==
  /\ HandlerStep("sleep", "loop")
  /\ PromptStart => \A t \in Threads : tpc[t] # "begin"
  /\ UNCHANGED <<front, queueVars, flags, heapVars, threadVars>>

Handler == \/ CheckRunning \/ CheckQueue \/ PopFront \/ RejectFile \/ RejectData
           \/ LoadFile \/ CreateThread \/ SetPlay \/ EndSleep

-----------------------------------------------------------------------------
(* An audio thread. *)

ThreadStep(t, from, to) ==
  /\ tpc[t] = from
  /\ tpc' = [tpc EXCEPT ![t] = to]

BeginAudio(t) ==
  /\ ThreadStep(t, "begin", IF param[t] = NULL THEN "unstop" ELSE "run")
  /\ handler_thread_is_running' = TRUE
  /\ UNCHANGED <<param, queueVars, should_play, should_stop, heapVars, handlerVars>>

\* The platform loop finds should_stop set.
PlatformStop(t) ==
  /\ ThreadStep(t, "run", "free")
  /\ should_stop
  /\ UNCHANGED <<param, queueVars, flags, heapVars, handlerVars>>

(***************************************************************************)
(* The platform loop ends by itself: all frames are written, the device    *)
(* cannot be opened or set up, or an error is not recovered.  It may end   *)
(* while should_play is false (the Linux loop goes on writing).            *)
(***************************************************************************)
PlatformDone(t) ==
  /\ ThreadStep(t, "run", "free")
  /\ UNCHANGED <<param, queueVars, flags, heapVars, handlerVars>>

\* Slip: a song that is skipped is not freed.
FreeAudioUnlessStopped(t) ==
  /\ ThreadStep(t, "free", "unstop")
  /\ live' = IF should_stop THEN live ELSE live \ {param[t]}
  /\ UNCHANGED <<param, queueVars, flags, audio, content, handlerVars>>

FreeAudio(t) ==
  /\ ThreadStep(t, "free", "unstop")
  /\ live' = live \ {param[t]}
  /\ UNCHANGED <<param, queueVars, flags, audio, content, handlerVars>>

\* Slip: a request to stop outlives the song it ended.
ClearStopKept(t) ==
  /\ ThreadStep(t, "unstop", "unplay")
  /\ UNCHANGED <<param, queueVars, flags, heapVars, handlerVars>>

ClearStop(t) ==
  /\ ThreadStep(t, "unstop", "unplay")
  /\ should_stop' = FALSE
  /\ UNCHANGED <<param, queueVars, should_play, handler_thread_is_running, heapVars, handlerVars>>

ClearPlay(t) ==
  /\ ThreadStep(t, "unplay", "exit")
  /\ should_play' = FALSE
  /\ UNCHANGED <<param, queueVars, should_stop, handler_thread_is_running, heapVars, handlerVars>>


ExitAudio(t) ==
  /\ ThreadStep(t, "exit", "none")
  /\ handler_thread_is_running' = FALSE
  /\ param' = [param EXCEPT ![t] = NULL]
  /\ UNCHANGED <<queueVars, should_play, should_stop, heapVars, handlerVars>>

AudioThread(t) == \/ BeginAudio(t) \/ PlatformStop(t) \/ PlatformDone(t) \/ FreeAudio(t)
                  \/ ClearStop(t) \/ ClearPlay(t) \/ ExitAudio(t)

-----------------------------------------------------------------------------
User == \/ \E f \in Files : TurntableQueueFile(f)
        \/ TurntablePauseAudio
        \/ TurntableResumeAudio
        \/ TurntableSkipAudio

Next == User \/ Handler \/ \E t \in Threads : AudioThread(t)

(***************************************************************************)
(* The threads are scheduled; the user is free to do nothing.  A song that *)
(* is played again and again gets to its end (each period written stays    *)
(* written), hence strong fairness of PlatformDone under should_play.      *)
(***************************************************************************)
Fairness ==
  /\ WF_vars(Handler)
  /\ \A t \in Threads :
        /\ WF_vars(BeginAudio(t) \/ PlatformStop(t) \/ FreeAudio(t) \/ ClearStop(t) \/ ClearPlay(t) \/ ExitAudio(t))
        /\ SF_vars(should_play /\ PlatformDone(t))

Spec == Init /\ [][Next]_vars

FairSpec == Spec /\ Fairness

-----------------------------------------------------------------------------
(* Every variable has its type. *)
TypeOK ==
  /\ file_queue \in Seq(Entries)
  /\ queued \in 0 .. MaxQueued
  /\ should_play \in BOOLEAN /\ should_stop \in BOOLEAN
  /\ handler_thread_is_running \in BOOLEAN
  /\ audio \in Buffers \cup {NULL}
  /\ live \subseteq Buffers
  /\ content \in [Buffers -> Files \cup {NULL}]
  /\ hpc \in HandlerPC
  /\ front \in Entries \cup {NULL}
  /\ tpc \in [Threads -> ThreadPC]
  /\ param \in [Threads -> Buffers \cup {NULL}]

(***************************************************************************)
(* One song at a time: no two audio threads exist together, so one pause,  *)
(* resume or skip is about one song (audio.c: the handler reads            *)
(* handler_thread_is_running before it pops, the thread sets it only when  *)
(* it runs).                                                               *)
(***************************************************************************)
OneSongAtATime == \A s, t \in Threads : Exists(s) /\ Exists(t) => s = t

(***************************************************************************)
(* Ownership of buffers: what is allocated is exactly what the handler is  *)
(* about to hand over, what a thread still has to free, and the data of    *)
(* files that were no WAV, which nobody frees (audio.c:56-62).  No song is *)
(* leaked, used after it is freed, or freed twice, and nothing else leaks. *)
(***************************************************************************)
Owner(t) == tpc[t] \in {"begin", "run", "free"}
Leaked == {b \in live : content[b] \in NotWav}
BufferOwnership ==
  /\ live \ Leaked = {param[t] : t \in {u \in Threads : Owner(u)}} \cup (IF hpc = "create" THEN {audio} ELSE {})
  /\ \A s, t \in Threads : Owner(s) /\ Owner(t) /\ param[s] = param[t] => s = t

(***************************************************************************)
(* The player is a jukebox: songs become current one at a time, in the     *)
(* order they were queued (audio.c: queue_pop to the end of start_audio).  *)
(***************************************************************************)
CurrentEntry ==
  IF hpc \in {"load", "create"} THEN front
  ELSE IF \E t \in Threads : Exists(t)
       THEN [filename |-> content[param[CHOOSE t \in Threads : Exists(t)]], src |-> Local]
       ELSE NULL

J == INSTANCE Jukebox WITH queue <- file_queue, current <- CurrentEntry, Nobody <- NULL

IsJukebox == J!Spec

=============================================================================
