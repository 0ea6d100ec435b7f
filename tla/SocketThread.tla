----------------------------- MODULE SocketThread ----------------------------
(***************************************************************************)
(* The life of the socket thread: the calls that start and stop it         *)
(* (turntable.c), its beginning and end (start_socket in socket/socket.c), *)
(* how it sets up, waits for clients, serves and gives up (start_server    *)
(* and start_client), and the condition variable that tells the caller     *)
(* that it is set up.  What is said over a connection is in Streaming;     *)
(* here a peer may come, have files queued, and go whenever it likes.      *)
(*                                                                         *)
(* The mutex of the condition variable is taken by the caller only, so it  *)
(* is always free, and a signal may be sent before the caller waits.       *)
(***************************************************************************)
EXTENDS Naturals, FiniteSets

CONSTANTS
  Threads,          \* identities pthread_create may give to a socket thread
  Clients,          \* the names of hosts that may connect to a server
  NULL,
  SpuriousWakeups,  \* whether pthread_cond_wait may return without a signal
  PollingWait,      \* whether it polls, as on Windows (util/pthread.c)
  PromptWait,       \* whether the caller waits before the new thread signals
  PromptExit        \* whether a thread ends before the next one serves a client

ASSUME ClientsAssumption == NULL \notin Clients
ASSUME TimingAssumption == {SpuriousWakeups, PollingWait, PromptWait, PromptExit} \subseteq BOOLEAN

VARIABLES
  upc,                        \* where the caller is
  role,                       \* what it starts: "server" or "client"
  socket_thread_is_running, socket_thread_should_run,
  socket_connected, is_client,
  pc,                         \* where each socket thread is
  param,                      \* the role a thread was created for
  client_name,                \* the client a thread serves
  sources                     \* the clients that have files in the queue

callerVars == <<upc, role>>
flags == <<socket_thread_is_running, socket_thread_should_run>>
threadVars == <<pc, param, client_name>>
connection == <<socket_connected, is_client>>
vars == <<callerVars, flags, connection, threadVars, sources>>

CallerPC == {"idle", "init", "create", "wait", "waiting", "woken", "disconnect", "closing"}
ThreadPC == {"none", "begin", "reset", "setup", "failed", "ready", "accept", "accepting", "accepted",
             "serve", "parse", "lost", "cleansed", "left", "freed", "nulled", "unset", "end", "stop", "cleanse"}

Init ==
  /\ upc = "idle" /\ role = "server"
  /\ socket_thread_is_running = FALSE /\ socket_thread_should_run = FALSE
  /\ socket_connected = FALSE /\ is_client = FALSE
  /\ pc = [t \in Threads |-> "none"]
  /\ param = [t \in Threads |-> "server"]
  /\ client_name = [t \in Threads |-> NULL]
  /\ sources = {}

-----------------------------------------------------------------------------
(* The caller: start_socket_thread, turntable_close_*, and `disconnect`. *)

CallerStep(from, to) ==
  /\ upc = from
  /\ upc' = to

QuietCall(from, to) ==
  /\ CallerStep(from, to)
  /\ UNCHANGED <<role, flags, connection, threadVars, sources>>

\* Slip: a second socket thread is not refused.
StartSocketUnchecked(r) ==
  /\ CallerStep("idle", "init")
  /\ role' = r
  /\ UNCHANGED <<flags, connection, threadVars, sources>>

StartSocket(r) ==
  /\ CallerStep("idle", "init")
  /\ ~socket_thread_is_running
  /\ role' = r
  /\ UNCHANGED <<flags, connection, threadVars, sources>>

SetShouldRun ==
  /\ CallerStep("init", "create")
  /\ socket_thread_should_run' = TRUE
  /\ UNCHANGED <<role, socket_thread_is_running, connection, threadVars, sources>>

CreateThread ==
  /\ CallerStep("create", "wait")
  /\ \E t \in Threads :
        /\ pc[t] = "none"
        /\ pc' = [pc EXCEPT ![t] = "begin"]
        /\ param' = [param EXCEPT ![t] = role]
  /\ UNCHANGED <<role, flags, connection, client_name, sources>>

\* A wait with a timeout of 0 comes back without a signal, and is made again.
WaitSteps == {<<"wait", "waiting">>} \cup {s \in {<<"waiting", "wait">>} : PollingWait}

Wait == \E s \in WaitSteps : QuietCall(s[1], s[2])

\* Where pthread_cond_wait may return.
WaitOver == {"woken"} \cup {w \in {"waiting"} : SpuriousWakeups}

InitReturns == \E from \in WaitOver : QuietCall(from, "idle")

Close ==
  /\ CallerStep("idle", "closing")
  /\ socket_thread_should_run' = FALSE
  /\ UNCHANGED <<role, socket_thread_is_running, connection, threadVars, sources>>

CloseReturns ==
  /\ QuietCall("closing", "idle")
  /\ ~socket_thread_is_running

\* The demo's command closes what is connected, and nothing else.
Disconnect == QuietCall("idle", "disconnect")

DisconnectConnected ==
  /\ CallerStep("disconnect", "closing")
  /\ socket_connected
  /\ socket_thread_should_run' = FALSE
  /\ UNCHANGED <<role, socket_thread_is_running, connection, threadVars, sources>>

DisconnectNothing ==
  /\ QuietCall("disconnect", "idle")
  /\ ~socket_connected

InCall == \/ SetShouldRun \/ CreateThread \/ Wait \/ InitReturns \/ CloseReturns
          \/ DisconnectConnected \/ DisconnectNothing

Caller == \/ \E r \in {"server", "client"} : StartSocket(r)
          \/ Close \/ Disconnect \/ InCall

-----------------------------------------------------------------------------
(* start_socket, up to its call of start_server or start_client *)

ThreadStep(t, from, to) ==
  /\ pc[t] = from
  /\ pc' = [pc EXCEPT ![t] = to]

QuietStep(t, from, to) ==
  /\ ThreadStep(t, from, to)
  /\ UNCHANGED <<callerVars, flags, connection, param, client_name, sources>>

Begin(t) ==
  /\ ThreadStep(t, "begin", "reset")
  /\ socket_thread_is_running' = TRUE
  /\ UNCHANGED <<callerVars, socket_thread_should_run, connection, param, client_name, sources>>

Reset(t) ==
  /\ ThreadStep(t, "reset", "setup")
  /\ socket_connected' = FALSE
  /\ is_client' = (param[t] = "client")
  /\ UNCHANGED <<callerVars, flags, param, client_name, sources>>

(* Setting up, and the signal that ends every way through it *)

SetupFails(t) == QuietStep(t, "setup", "failed")

Listen(t) ==
  /\ QuietStep(t, "setup", "ready")
  /\ param[t] = "server"

Connect(t) ==
  /\ ThreadStep(t, "setup", "ready")
  /\ param[t] = "client"
  /\ socket_connected' = TRUE
  /\ UNCHANGED <<callerVars, flags, is_client, param, client_name, sources>>

pthread_cond_signal ==
  /\ PromptWait => upc # "wait"
  /\ upc' = IF upc = "waiting" THEN "woken" ELSE upc

\* Slip: a failure returns and does not signal.
SignalFailureForgotten(t) == QuietStep(t, "failed", "end")

SignalFailure(t) ==
  /\ ThreadStep(t, "failed", "end")
  /\ pthread_cond_signal
  /\ UNCHANGED <<role, flags, connection, param, client_name, sources>>

SignalReady(t) ==
  /\ ThreadStep(t, "ready", IF param[t] = "server" THEN "accept" ELSE "serve")
  /\ pthread_cond_signal
  /\ UNCHANGED <<role, flags, connection, param, client_name, sources>>

-----------------------------------------------------------------------------
(* The loop of start_server around accept *)

\* Slip: the loop goes on when the thread should not run.
StopAcceptingNever(t) ==
  /\ QuietStep(t, "accept", "accepting")
  /\ ~socket_thread_should_run

StopAccepting(t) ==
  /\ QuietStep(t, "accept", "end")
  /\ ~socket_thread_should_run

KeepAccepting(t) ==
  /\ QuietStep(t, "accept", "accepting")
  /\ socket_thread_should_run

NobodyCame(t) == QuietStep(t, "accepting", "accept")

\* Slip: the name of the client is not asked for.
AcceptUnnamed(t) ==
  /\ QuietStep(t, "accepting", "accepted")
  /\ PromptExit => \A u \in Threads : pc[u] # "cleanse"

Accept(t) ==
  /\ ThreadStep(t, "accepting", "accepted")
  /\ PromptExit => \A u \in Threads : pc[u] # "cleanse"
  /\ \E c \in Clients : client_name' = [client_name EXCEPT ![t] = c]
  /\ UNCHANGED <<callerVars, flags, connection, param, sources>>

SetConnected(t) ==
  /\ ThreadStep(t, "accepted", "serve")
  /\ socket_connected' = TRUE
  /\ UNCHANGED <<callerVars, flags, is_client, param, client_name, sources>>

(* Serving, in start_server and start_client *)

\* A server has its buffer to free, a client leaves it.
StopServing(t) ==
  /\ QuietStep(t, "serve", IF param[t] = "server" THEN "left" ELSE "end")
  /\ ~socket_thread_should_run

KeepServing(t) ==
  /\ QuietStep(t, "serve", "parse")
  /\ socket_thread_should_run

\* What arrived, if anything, may be a request to play.
Parse(t) ==
  /\ ThreadStep(t, "parse", "serve")
  /\ \/ param[t] = "server" /\ sources' = sources \cup {client_name[t]}
     \/ UNCHANGED sources
  /\ UNCHANGED <<callerVars, flags, connection, param, client_name>>

ServerLeft(t) ==
  /\ QuietStep(t, "serve", "left")
  /\ param[t] = "client"

(* Leaving the buffer, one assignment after the other; see Session. *)

FreeBuffer(t) == QuietStep(t, "left", "freed")

NullBuffer(t) ==
  /\ QuietStep(t, "freed", "nulled")
  /\ param[t] = "client"

UnsetReady(t) ==
  \/ QuietStep(t, "freed", "end") /\ param[t] = "server"
  \/ QuietStep(t, "nulled", "unset")

LeaveConnection(t) ==
  /\ ThreadStep(t, "unset", "end")
  /\ socket_connected' = FALSE
  /\ UNCHANGED <<callerVars, flags, is_client, param, client_name, sources>>

ClientLeft(t) ==
  /\ QuietStep(t, "serve", "lost")
  /\ param[t] = "server"

\* Slip: the files of a client that left stay in the queue.
ClearQueuedFilesNever(t) == QuietStep(t, "lost", "cleansed")

ClearQueuedFiles(t) ==
  /\ ThreadStep(t, "lost", "cleansed")
  /\ sources' = sources \ {client_name[t]}
  /\ UNCHANGED <<callerVars, flags, connection, param, client_name>>

SetDisconnected(t) ==
  /\ ThreadStep(t, "cleansed", "accept")
  /\ socket_connected' = FALSE
  /\ client_name' = [client_name EXCEPT ![t] = NULL]
  /\ UNCHANGED <<callerVars, flags, is_client, param, sources>>

-----------------------------------------------------------------------------
(* The end of start_socket *)

\* Slip: the connection is not declared closed.
EndConnectionForgotten(t) == QuietStep(t, "end", "stop")

EndConnection(t) ==
  /\ ThreadStep(t, "end", "stop")
  /\ socket_connected' = FALSE
  /\ UNCHANGED <<callerVars, flags, is_client, param, client_name, sources>>

EndRunning(t) ==
  /\ ThreadStep(t, "stop", "cleanse")
  /\ socket_thread_is_running' = FALSE
  /\ UNCHANGED <<callerVars, socket_thread_should_run, connection, param, client_name, sources>>

\* Everything that is not local is taken out of the queue.
CleanseQueue(t) ==
  /\ ThreadStep(t, "cleanse", "none")
  /\ sources' = {}
  /\ client_name' = [client_name EXCEPT ![t] = NULL]
  /\ UNCHANGED <<callerVars, flags, connection, param>>

Setup(t) == Begin(t) \/ Reset(t) \/ SetupFails(t) \/ Listen(t) \/ Connect(t) \/ SignalFailure(t) \/ SignalReady(t)
AcceptLoop(t) == StopAccepting(t) \/ KeepAccepting(t) \/ NobodyCame(t) \/ Accept(t) \/ SetConnected(t)
Serve(t) == \/ StopServing(t) \/ KeepServing(t) \/ Parse(t) \/ ServerLeft(t)
            \/ ClientLeft(t) \/ ClearQueuedFiles(t) \/ SetDisconnected(t)
Leave(t) == FreeBuffer(t) \/ NullBuffer(t) \/ UnsetReady(t) \/ LeaveConnection(t)
Finish(t) == EndConnection(t) \/ EndRunning(t) \/ CleanseQueue(t)

SocketThread(t) == Setup(t) \/ AcceptLoop(t) \/ Serve(t) \/ Leave(t) \/ Finish(t)

\* The handler takes the last file of a client out of the queue.
PopLast ==
  /\ \E c \in sources : sources' = sources \ {c}
  /\ UNCHANGED <<callerVars, flags, connection, threadVars>>

Next == Caller \/ PopLast \/ \E t \in Threads : SocketThread(t)

Spec == Init /\ [][Next]_vars

(***************************************************************************)
(* Threads run, and so does the caller inside a call.  getaddrinfo and     *)
(* connect return.                                                         *)
(***************************************************************************)
Fairness == WF_vars(InCall) /\ \A t \in Threads : WF_vars(SocketThread(t))

FairSpec == Spec /\ Fairness

-----------------------------------------------------------------------------
(* Every variable has its type. *)
TypeOK ==
  /\ upc \in CallerPC
  /\ role \in {"server", "client"}
  /\ socket_thread_is_running \in BOOLEAN /\ socket_thread_should_run \in BOOLEAN
  /\ socket_connected \in BOOLEAN /\ is_client \in BOOLEAN
  /\ pc \in [Threads -> ThreadPC]
  /\ param \in [Threads -> {"server", "client"}]
  /\ client_name \in [Threads -> Clients \cup {NULL}]
  /\ sources \subseteq Clients

(***************************************************************************)
(* One socket thread at a time uses SocketState, whatever is started and   *)
(* stopped (start_socket_thread looks at a flag that the thread it created *)
(* before has to set).  A thread that only has the queue to cleanse is not *)
(* counted.                                                                *)
(***************************************************************************)
Active(t) == pc[t] \notin {"none", "cleanse"}
OneSocketThread == \A s, t \in Threads : Active(s) /\ Active(t) => s = t

(***************************************************************************)
(* What says it is connected runs: after turntable_close_* has returned,   *)
(* the other calls take their local branch until the next connection.      *)
(***************************************************************************)
ConnectedRuns == socket_connected => socket_thread_is_running

(***************************************************************************)
(* No client inherits the files of another: while a client is served, the  *)
(* remote files in the queue are its own, so that a file is requested only *)
(* from the program that has it.                                           *)
(***************************************************************************)
OwnFiles ==
  \A t \in Threads : param[t] = "server" /\ pc[t] \in {"serve", "parse"} => sources \subseteq {client_name[t]}
=============================================================================
