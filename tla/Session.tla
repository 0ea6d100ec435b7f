------------------------------- MODULE Session -------------------------------
(***************************************************************************)
(* SocketThread with the packet that waits to be sent: send_data_buf,      *)
(* which the socket thread allocates, sends and frees, and which the       *)
(* handler (audio.c) and, in a client, the caller (turntable.c) write to.  *)
(* They look at the connection first and spin on send_data_ready last, and *)
(* in between the connection may end, another one may begin, and a write   *)
(* may go to a buffer that is not there: the program is then killed.       *)
(***************************************************************************)
EXTENDS SocketThread

VARIABLES
  send_data_buf,    \* "null", "live" or "freed"
  send_data_ready,
  unallocated,      \* the threads that have yet to allocate the buffer
  dead,             \* those that closed their descriptor after a failed send
  hpc,              \* where the handler is, with the file of a client
  call,             \* where the caller is in a call that sends
  own,              \* whether a client's own files, with src NULL, are in its queue
  killed            \* whether a NULL or freed address has ended the program

slot == <<send_data_buf, send_data_ready>>
sessionVars == <<slot, unallocated, dead, hpc, call, own, killed>>
allVars == <<vars, sessionVars>>

SessionInit ==
  /\ Init
  /\ send_data_buf = "null" /\ send_data_ready = FALSE
  /\ unallocated = {} /\ dead = {}
  /\ hpc = "look"
  /\ call = "none" /\ own = FALSE /\ killed = FALSE

ConnectedAsClient == socket_connected /\ is_client

Lives == ~killed /\ UNCHANGED killed

-----------------------------------------------------------------------------
(* The caller, which sends when it is connected as a client *)

BeginCall ==
  /\ upc = "idle" /\ call = "none" /\ ConnectedAsClient
  /\ call' = "write"
  /\ UNCHANGED <<vars, slot, unallocated, dead, hpc, own>>
  /\ Lives

\* A command, or a request to play a file.  What is freed may still be written to.
WriteSlot ==
  /\ call = "write" /\ send_data_buf # "null"
  /\ call' \in {"set", "push"}
  /\ UNCHANGED <<vars, slot, unallocated, dead, hpc, own>>
  /\ Lives

\* The file is queued here as well.
PushOwn ==
  /\ call = "push"
  /\ call' = "set"
  /\ own' = TRUE
  /\ UNCHANGED <<vars, slot, unallocated, dead, hpc>>
  /\ Lives

SetReady ==
  /\ call = "set"
  /\ call' = "spin"
  /\ send_data_ready' = TRUE
  /\ UNCHANGED <<vars, send_data_buf, unallocated, dead, hpc, own>>
  /\ Lives

CallEnds ==
  /\ call = "spin" /\ ~send_data_ready
  /\ call' = "none"
  /\ UNCHANGED <<vars, slot, unallocated, dead, hpc, own>>
  /\ Lives

Sending == WriteSlot \/ PushOwn \/ SetReady \/ CallEnds

\* The other calls; turntable_resume_audio also lets the handler go.
OtherCalls ==
  /\ call = "none"
  /\ Caller
  /\ UNCHANGED <<slot, unallocated, dead, hpc, call, own>>
  /\ Lives

Resume ==
  /\ upc = "idle" /\ call = "none" /\ ~ConnectedAsClient
  /\ hpc = "wait"
  /\ hpc' = "look"
  /\ UNCHANGED <<vars, slot, unallocated, dead, call, own>>
  /\ Lives

-----------------------------------------------------------------------------
(* The handler, with the file of a client *)

TakeFile(c) ==
  /\ hpc = "look" /\ c \in sources /\ ~ConnectedAsClient
  /\ hpc' = "copy"
  /\ sources' \in {sources, sources \ {c}}
  /\ UNCHANGED <<callerVars, flags, connection, threadVars, slot, unallocated, dead, call, own>>
  /\ Lives

CopyRequest ==
  /\ hpc = "copy" /\ send_data_buf # "null"
  /\ hpc' = "set"
  /\ UNCHANGED <<vars, slot, unallocated, dead, call, own>>
  /\ Lives

SetRequestReady ==
  /\ hpc = "set"
  /\ hpc' = "spin"
  /\ send_data_ready' = TRUE
  /\ UNCHANGED <<vars, send_data_buf, unallocated, dead, call, own>>
  /\ Lives

RequestSent ==
  /\ hpc = "spin" /\ ~send_data_ready
  /\ hpc' = "wait"
  /\ UNCHANGED <<vars, slot, unallocated, dead, call, own>>
  /\ Lives

Handler == CopyRequest \/ SetRequestReady \/ RequestSent

-----------------------------------------------------------------------------
(* The socket thread *)

\* The steps that leave the slot alone.  A cleanse compares the src of every file.
OtherSteps(t) ==
  /\ \/ Begin(t) \/ Reset(t) \/ SetupFails(t) \/ Listen(t) \/ Connect(t) \/ SignalFailure(t)
     \/ StopAccepting(t) \/ KeepAccepting(t) \/ NobodyCame(t) \/ Accept(t) \/ SetConnected(t)
     \/ ServerLeft(t) /\ t \notin dead
     \/ StopServing(t) \/ LeaveConnection(t)
     \/ ClearQueuedFiles(t) /\ ~own
     \/ SetDisconnected(t) \/ EndConnection(t) \/ EndRunning(t)
  /\ t \notin unallocated
  /\ UNCHANGED <<slot, unallocated, dead, hpc, call, own>>
  /\ Lives

SignalThenAllocate(t) ==
  /\ SignalReady(t)
  /\ unallocated' = unallocated \cup {t}
  /\ UNCHANGED <<slot, dead, hpc, call, own>>
  /\ Lives

Allocate(t) ==
  /\ t \in unallocated
  /\ unallocated' = unallocated \ {t}
  /\ send_data_buf' = "live"
  /\ UNCHANGED <<vars, send_data_ready, dead, hpc, call, own>>
  /\ Lives

\* Slip: only a packet that was sent is done with.
SendWaitingOnce(t) ==
  \/ ~send_data_ready /\ UNCHANGED <<send_data_ready, dead>>
  \/ /\ send_data_ready /\ t \notin dead
     /\ send_data_ready' = FALSE
     /\ UNCHANGED dead
  \/ /\ send_data_ready
     /\ dead' = dead \cup {t}
     /\ UNCHANGED send_data_ready

\* A failed send closes the descriptor; the packet is given up.
SendWaiting(t) ==
  \/ ~send_data_ready /\ UNCHANGED <<send_data_ready, dead>>
  \/ /\ send_data_ready
     /\ send_data_ready' = FALSE
     /\ \/ t \notin dead /\ UNCHANGED dead
        \/ dead' = dead \cup {t}

ServeOnce(t) ==
  /\ KeepServing(t) /\ t \notin unallocated
  /\ SendWaiting(t)
  /\ UNCHANGED <<send_data_buf, unallocated, hpc, call, own>>
  /\ Lives

\* What arrives may be the end of the file the handler waits for, a command to play,
\* or a request for the last of a client's files.  On a closed descriptor nothing arrives.
ParsePacket(t) ==
  /\ Parse(t)
  /\ t \in dead => UNCHANGED <<sources, hpc, own>>
  /\ \/ UNCHANGED <<hpc, own>>
     \/ /\ param[t] = "server" /\ hpc = "wait"
        /\ hpc' = "look"
        /\ UNCHANGED own
     \/ /\ param[t] = "client"
        /\ own' = FALSE
        /\ UNCHANGED hpc
  /\ UNCHANGED <<slot, unallocated, dead, call>>
  /\ Lives

\* Slip: a server, too, frees its buffer when the other side has left.
ClientLeftFrees(t) ==
  /\ ClientLeft(t) /\ t \notin dead \cup unallocated
  /\ send_data_buf' = "freed"
  /\ UNCHANGED <<send_data_ready, unallocated, dead, hpc, call, own>>
  /\ Lives

\* What waits to be sent goes on waiting.
ClientLeftSession(t) ==
  /\ ClientLeft(t) /\ t \notin dead \cup unallocated
  /\ UNCHANGED <<slot, unallocated, dead, hpc, call, own>>
  /\ Lives

FreeSlot(t) ==
  /\ FreeBuffer(t)
  /\ send_data_buf' = "freed"
  /\ UNCHANGED <<send_data_ready, unallocated, dead, hpc, call, own>>
  /\ Lives

NullSlot(t) ==
  /\ NullBuffer(t)
  /\ send_data_buf' = "null"
  /\ UNCHANGED <<send_data_ready, unallocated, dead, hpc, call, own>>
  /\ Lives

UnsetSlot(t) ==
  /\ UnsetReady(t)
  /\ send_data_ready' = FALSE
  /\ UNCHANGED <<send_data_buf, unallocated, dead, hpc, call, own>>
  /\ Lives

CleanseQueueSession(t) ==
  /\ CleanseQueue(t) /\ ~own
  /\ dead' = dead \ {t}
  /\ UNCHANGED <<slot, unallocated, hpc, call, own>>
  /\ Lives

SessionThread(t) ==
  \/ OtherSteps(t) \/ SignalThenAllocate(t) \/ Allocate(t) \/ ServeOnce(t) \/ ParsePacket(t)
  \/ ClientLeftSession(t) \/ FreeSlot(t) \/ NullSlot(t) \/ UnsetSlot(t) \/ CleanseQueueSession(t)

-----------------------------------------------------------------------------
(* What may end the program: a write to a buffer that is not there, and strcmp *)
(* with the src of a file that the program has as a client.                    *)

WritesNowhere == (call = "write" \/ hpc = "copy") /\ send_data_buf # "live"

CleanseComparesNull == own /\ \E t \in Threads : pc[t] \in {"lost", "cleanse"}

HandlerComparesNull == own /\ hpc = "look" /\ ~ConnectedAsClient

Kill ==
  /\ ~killed
  /\ WritesNowhere \/ CleanseComparesNull \/ HandlerComparesNull
  /\ killed' = TRUE
  /\ UNCHANGED <<vars, slot, unallocated, dead, hpc, call, own>>

SessionNext ==
  \/ BeginCall \/ Sending \/ OtherCalls \/ Resume
  \/ \E c \in Clients : TakeFile(c)
  \/ Handler
  \/ \E t \in Threads : SessionThread(t)
  \/ Kill

SessionSpec == SessionInit /\ [][SessionNext]_allVars

\* While the program lives its threads run, and so does the caller inside a call; the
\* handler may be busy with a song and never look at the queue.
SessionFairness ==
  /\ WF_allVars(Sending) /\ WF_allVars(upc # "idle" /\ OtherCalls)
  /\ WF_allVars(Handler) /\ WF_allVars((WritesNowhere \/ CleanseComparesNull) /\ Kill)
  /\ \A t \in Threads : WF_allVars(SessionThread(t))

SessionFairSpec == SessionSpec /\ SessionFairness

-----------------------------------------------------------------------------
(***************************************************************************)
(* Whoever serves a connection finds send_data_buf allocated, over all     *)
(* starts, stops and connections: start_server allocates it once for all   *)
(* its clients, start_client frees it when its server has left, and both   *)
(* send, and clear, what it points to.                                     *)
(***************************************************************************)
SenderFindsBuffer ==
  \A t \in Threads : pc[t] \in {"serve", "parse"} /\ t \notin unallocated => send_data_buf = "live"

(***************************************************************************)
(* While a connection is served no packet waits for ever: it is sent, or   *)
(* given up when the send fails, or the connection ends.                   *)
(***************************************************************************)
Serving == \E t \in Threads : pc[t] \in {"serve", "parse"}
PacketsLeave == send_data_ready /\ Serving ~> ~send_data_ready \/ ~Serving \/ killed

(***************************************************************************)
(* turntable_init_server and turntable_init_client return, whether or not  *)
(* the socket could be set up.                                             *)
(***************************************************************************)
InitCallReturns == upc = "init" ~> upc = "idle" \/ killed

(***************************************************************************)
(* turntable_close_server and turntable_close_client return, whatever the  *)
(* thread was doing.                                                       *)
(***************************************************************************)
CloseCallReturns == upc = "closing" ~> upc = "idle" \/ killed

(***************************************************************************)
(* A client disconnects from its server, as the demo's help says of        *)
(* `disconnect`, and lives on: the strcmp of the cleanse that follows does *)
(* not meet the NULL src of a file that the client had queued.             *)
(***************************************************************************)
NoNullSource == ~socket_thread_should_run => ~CleanseComparesNull
=============================================================================
