------------------------- MODULE SocketThreadProofs -------------------------
(***************************************************************************)
(* Proofs about SocketThread, for any number of threads and clients: its   *)
(* types in every case and, when pthread_cond_wait returns only for a      *)
(* signal, one socket thread at a time, a connection only while it runs,   *)
(* and (PromptExit) no client with the files of another.                   *)
(***************************************************************************)
EXTENDS SocketThread, TLAPS

(***************************************************************************)
(* What Parse needs to keep the type of `sources`: a thread that serves    *)
(* has asked for the name of its client.                                   *)
(***************************************************************************)
HasClient(t) == param[t] = "server" /\ pc[t] \in {"accepted", "serve", "parse", "lost", "cleansed"}
Named == \A t \in Threads : HasClient(t) => client_name[t] \in Clients

(***************************************************************************)
(* No step of the caller breaks the types (start_socket_thread and         *)
(* turntable_close_* in turntable.c).                                      *)
(***************************************************************************)
LEMMA CallerTypes == TypeOK /\ (Caller \/ PopLast) => TypeOK'
<1> SUFFICES ASSUME TypeOK, Caller \/ PopLast PROVE TypeOK'
  OBVIOUS
<1> USE DEF TypeOK, CallerStep, QuietCall, CallerPC, ThreadPC, flags, connection, threadVars, callerVars
<1>1. ASSUME NEW r \in {"server", "client"}, StartSocket(r) PROVE TypeOK'
  BY <1>1 DEF StartSocket
<1>2. CASE Close
  BY <1>2 DEF Close
<1>3. CASE Disconnect \/ Wait \/ InitReturns \/ CloseReturns \/ DisconnectNothing
  BY <1>3 DEF Disconnect, Wait, WaitSteps, InitReturns, WaitOver, CloseReturns, DisconnectNothing
<1>4. CASE SetShouldRun \/ DisconnectConnected
  BY <1>4 DEF SetShouldRun, DisconnectConnected
<1>5. CASE CreateThread
  BY <1>5 DEF CreateThread
<1>6. CASE PopLast
  BY <1>6 DEF PopLast
<1> QED
  BY <1>1, <1>2, <1>3, <1>4, <1>5, <1>6 DEF Caller, InCall

(***************************************************************************)
(* No step of a socket thread breaks the types (start_socket, start_server *)
(* and start_client).                                                      *)
(***************************************************************************)
LEMMA ThreadTypes == ASSUME TypeOK, Named, NEW t \in Threads, SocketThread(t) PROVE TypeOK'
<1> USE DEF TypeOK, ThreadStep, QuietStep, CallerPC, ThreadPC, flags, connection, callerVars
<1>1. ASSUME NEW from \in ThreadPC, NEW to \in ThreadPC, QuietStep(t, from, to) PROVE TypeOK'
  BY <1>1
<1>2. CASE SetupFails(t) \/ Listen(t) \/ StopAccepting(t) \/ KeepAccepting(t) \/ NobodyCame(t)
  BY <1>1, <1>2 DEF SetupFails, Listen, StopAccepting, KeepAccepting, NobodyCame
<1>3. CASE StopServing(t) \/ KeepServing(t) \/ ClientLeft(t) \/ ServerLeft(t) \/ FreeBuffer(t) \/ NullBuffer(t)
           \/ UnsetReady(t)
  BY <1>1, <1>3 DEF StopServing, KeepServing, ClientLeft, ServerLeft, FreeBuffer, NullBuffer, UnsetReady
<1>4. CASE Begin(t)
  BY <1>4 DEF Begin
<1>5. CASE Reset(t)
  BY <1>5 DEF Reset
<1>6. CASE Connect(t)
  BY <1>6 DEF Connect
<1>7. CASE SignalFailure(t)
  BY <1>7 DEF SignalFailure, pthread_cond_signal
<1>8. CASE SignalReady(t)
  BY <1>8 DEF SignalReady, pthread_cond_signal
<1>9. CASE Accept(t)
  BY <1>9 DEF Accept
<1>10. CASE SetConnected(t)
  BY <1>10 DEF SetConnected
<1>11. CASE Parse(t)
  <2>1. sources' \subseteq Clients
    <3>1. CASE param[t] = "server" /\ sources' = sources \cup {client_name[t]}
      BY <1>11, <3>1 DEF Parse, Named, HasClient
    <3> QED
      BY <1>11, <3>1 DEF Parse
  <2> QED
    BY <1>11, <2>1 DEF Parse
<1>12. CASE LeaveConnection(t)
  BY <1>12 DEF LeaveConnection
<1>13. CASE ClearQueuedFiles(t)
  BY <1>13 DEF ClearQueuedFiles
<1>14. CASE SetDisconnected(t)
  BY <1>14 DEF SetDisconnected
<1>15. CASE EndConnection(t)
  BY <1>15 DEF EndConnection
<1>16. CASE EndRunning(t)
  BY <1>16 DEF EndRunning
<1>17. CASE CleanseQueue(t)
  BY <1>17 DEF CleanseQueue
<1> QED
  BY <1>2, <1>3, <1>4, <1>5, <1>6, <1>7, <1>8, <1>9, <1>10, <1>11, <1>12, <1>13, <1>14, <1>15, <1>16, <1>17
  DEF SocketThread, Setup, AcceptLoop, Serve, Leave, Finish

(* A thread keeps the name it has asked for until its client has left. *)
LEMMA NamedStep == TypeOK /\ Named /\ [Next]_vars => Named'
<1> SUFFICES ASSUME TypeOK, Named, [Next]_vars PROVE Named'
  OBVIOUS
<1> USE DEF TypeOK, Named, HasClient, ThreadStep, callerVars, flags, connection, threadVars
<1>1. ASSUME UNCHANGED <<pc, param, client_name>> PROVE Named'
  BY <1>1
<1>2. CASE UNCHANGED vars
  BY <1>1, <1>2 DEF vars
<1>3. CASE PopLast
  BY <1>1, <1>3 DEF PopLast
<1>4. CASE Caller
  <2>1. CASE CreateThread
    BY <2>1 DEF CreateThread
  <2> QED
    BY <1>1, <1>4, <2>1 DEF Caller, StartSocket, Close, Disconnect, InCall, SetShouldRun, Wait,
       InitReturns, CloseReturns, DisconnectConnected, DisconnectNothing, QuietCall
<1>5. ASSUME NEW t \in Threads, SocketThread(t) PROVE Named'
  <2>1. CASE Accept(t)
    BY <2>1 DEF Accept
  <2>2. CASE SetDisconnected(t) \/ CleanseQueue(t)
    BY <2>2 DEF SetDisconnected, CleanseQueue
  <2>3. ASSUME UNCHANGED <<param, client_name>>, NEW to \in ThreadPC, pc' = [pc EXCEPT ![t] = to],
               HasClient(t)' => HasClient(t)
        PROVE Named'
    BY <2>3
  <2>4. CASE Setup(t)
    BY <2>3, <2>4 DEF Setup, Begin, Reset, SetupFails, Listen, Connect, SignalFailure, SignalReady, QuietStep, ThreadPC
  <2>5. CASE AcceptLoop(t)
    BY <2>1, <2>3, <2>5 DEF AcceptLoop, StopAccepting, KeepAccepting, NobodyCame, SetConnected, QuietStep, ThreadPC
  <2>6. CASE Serve(t)
    BY <2>2, <2>3, <2>6 DEF Serve, StopServing, KeepServing, Parse, ServerLeft, ClientLeft, ClearQueuedFiles,
       QuietStep, ThreadPC
  <2>7. CASE Leave(t)
    BY <2>3, <2>7 DEF Leave, FreeBuffer, NullBuffer, UnsetReady, LeaveConnection, QuietStep, ThreadPC
  <2>8. CASE Finish(t)
    BY <2>2, <2>3, <2>8 DEF Finish, EndConnection, EndRunning, ThreadPC
  <2> QED
    BY <1>5, <2>4, <2>5, <2>6, <2>7, <2>8 DEF SocketThread
<1> QED
  BY <1>2, <1>3, <1>4, <1>5 DEF Next

(* The types are kept by every step. *)
LEMMA TypeStep == TypeOK /\ Named /\ [Next]_vars => TypeOK'
<1> SUFFICES ASSUME TypeOK, Named, [Next]_vars PROVE TypeOK'
  OBVIOUS
<1>1. CASE UNCHANGED vars
  BY <1>1 DEF TypeOK, vars, callerVars, flags, connection, threadVars
<1> QED
  BY <1>1, CallerTypes, ThreadTypes DEF Next

(* The types, with the names they rest on. *)
LEMMA TypedAndNamed == Spec => [](TypeOK /\ Named)
<1>1. Init => TypeOK /\ Named
  BY DEF Init, TypeOK, Named, HasClient, CallerPC, ThreadPC
<1> QED
  BY <1>1, TypeStep, NamedStep, PTL DEF Spec

(***************************************************************************)
(* Every variable always has its type, without an assumption on timing.    *)
(***************************************************************************)
THEOREM SocketTypes == Spec => []TypeOK
BY TypedAndNamed, PTL

-----------------------------------------------------------------------------
(***************************************************************************)
(* The strengthening of OneSocketThread and ConnectedRuns.  A thread that  *)
(* has run its first statement shows in the flag; one that has not keeps   *)
(* its caller in pthread_cond_wait, for want of anyone to signal; between  *)
(* the caller's look at the flag and pthread_create no thread is active;   *)
(* and a connection belongs to an active thread that is past its set-up.   *)
(***************************************************************************)
FlagShowsThread == \A t \in Threads : Active(t) /\ pc[t] # "begin" => socket_thread_is_running
NewThreadHoldsCaller == \A t \in Threads : pc[t] = "begin" => upc \in {"wait", "waiting"}
CallerAlone == upc \in {"init", "create"} => \A t \in Threads : ~Active(t)
Holds(t) == \/ pc[t] \in {"serve", "parse", "lost", "cleansed", "left", "freed", "nulled", "unset", "end"}
            \/ pc[t] = "ready" /\ param[t] = "client"
Connected == socket_connected => \E t \in Threads : Holds(t)

SerialInv == /\ TypeOK
             /\ OneSocketThread
             /\ FlagShowsThread
             /\ NewThreadHoldsCaller
             /\ CallerAlone
             /\ Connected

(* The caller keeps SerialInv; it looks at the flag before it starts a thread. *)
LEMMA CallerSerial ==
  ASSUME ~SpuriousWakeups, SerialInv, Caller PROVE SerialInv'
<1> USE DEF SerialInv, OneSocketThread, FlagShowsThread, NewThreadHoldsCaller, CallerAlone, Connected, Active, Holds
<1>1. TypeOK'
  BY CallerTypes
<1>2. CASE CreateThread
  <2>1. PICK t \in Threads : pc[t] = "none" /\ pc' = [pc EXCEPT ![t] = "begin"] /\ param' = [param EXCEPT ![t] = role]
    BY <1>2 DEF CreateThread
  <2>2. \A u \in Threads : ~Active(u)
    BY <1>2 DEF CreateThread, CallerStep
  <2>3. upc' = "wait" /\ ~socket_connected'
    BY <1>2, <2>2 DEF CreateThread, CallerStep, connection
  <2> QED
    BY <1>1, <2>1, <2>2, <2>3 DEF TypeOK
<1>3. ASSUME UNCHANGED <<pc, param, socket_thread_is_running, socket_connected>>,
             NewThreadHoldsCaller', CallerAlone'
      PROVE SerialInv'
  BY <1>1, <1>3
<1>4. ASSUME NEW r \in {"server", "client"}, StartSocket(r) PROVE SerialInv'
  <2>1. UNCHANGED <<pc, param, socket_thread_is_running, socket_connected>> /\ ~socket_thread_is_running
    BY <1>4 DEF StartSocket, threadVars, flags, connection
  <2>2. upc = "idle" /\ upc' = "init"
    BY <1>4 DEF StartSocket, CallerStep
  <2> QED
    BY <1>3, <2>1, <2>2
<1>5. CASE Close \/ SetShouldRun \/ DisconnectConnected
  <2>1. UNCHANGED <<pc, param, socket_thread_is_running, socket_connected>>
    BY <1>5 DEF Close, SetShouldRun, DisconnectConnected, threadVars, connection
  <2>2. \/ upc \in {"idle", "disconnect"} /\ upc' = "closing"
        \/ upc = "init" /\ upc' = "create"
    BY <1>5 DEF Close, SetShouldRun, DisconnectConnected, CallerStep
  <2> QED
    BY <1>3, <2>1, <2>2
<1>6. ASSUME NEW from, NEW to, QuietCall(from, to), from \in {"idle", "woken", "closing", "disconnect", "wait", "waiting"},
             to \in {"disconnect", "idle", "wait", "waiting"},
             from \in {"wait", "waiting"} => to \in {"wait", "waiting"}
      PROVE SerialInv'
  <2>1. UNCHANGED <<pc, param, socket_thread_is_running, socket_connected>>
    BY <1>6 DEF QuietCall, threadVars, flags, connection
  <2>2. upc = from /\ upc' = to
    BY <1>6 DEF QuietCall, CallerStep
  <2> QED
    BY <1>3, <1>6, <2>1, <2>2
<1>7. CASE Wait
  BY <1>6, <1>7 DEF Wait, WaitSteps
<1> QED
  BY <1>2, <1>4, <1>5, <1>6, <1>7
  DEF Caller, InCall, Disconnect, InitReturns, WaitOver, CloseReturns, DisconnectNothing

(* A thread keeps SerialInv: it is the only active one, or it only cleanses. *)
LEMMA ThreadSerial ==
  ASSUME SerialInv, TypeOK', NEW t \in Threads, SocketThread(t) PROVE SerialInv'
<1> USE DEF SerialInv, OneSocketThread, FlagShowsThread, NewThreadHoldsCaller, CallerAlone, Connected, Active, Holds,
            ThreadStep, QuietStep, callerVars, flags, connection
<1>1. CASE CleanseQueue(t)
  <2>1. UNCHANGED <<param, upc, socket_thread_is_running, socket_connected>>
    BY <1>1 DEF CleanseQueue
  <2>2. pc[t] = "cleanse" /\ pc' = [pc EXCEPT ![t] = "none"]
    BY <1>1 DEF CleanseQueue
  <2> QED
    BY <2>1, <2>2 DEF TypeOK
<1>2. ASSUME UNCHANGED <<param, upc, socket_thread_is_running, socket_connected>>,
             NEW to \in ThreadPC \ {"none", "begin", "cleanse"}, pc' = [pc EXCEPT ![t] = to],
             Active(t), pc[t] # "begin", Holds(t) => Holds(t)'
      PROVE SerialInv'
  BY <1>2 DEF TypeOK
<1>3. ASSUME UNCHANGED <<param, upc, socket_thread_is_running>>, ~socket_connected',
             NEW to \in ThreadPC \ {"none", "begin", "cleanse"}, pc' = [pc EXCEPT ![t] = to],
             Active(t), pc[t] # "begin"
      PROVE SerialInv'
  BY <1>3 DEF TypeOK
<1>4. CASE Begin(t)
  <2>1. UNCHANGED <<param, upc, socket_connected>> /\ socket_thread_is_running'
    BY <1>4 DEF Begin
  <2>2. pc[t] = "begin" /\ pc' = [pc EXCEPT ![t] = "reset"]
    BY <1>4 DEF Begin
  <2> QED
    BY <2>1, <2>2 DEF TypeOK
<1>5. CASE Connect(t) \/ SetConnected(t)
  <2>1. UNCHANGED <<param, upc, socket_thread_is_running>>
    BY <1>5 DEF Connect, SetConnected
  <2>2. PICK to \in {"ready", "serve"} : /\ pc[t] \in {"setup", "accepted"}
                                         /\ pc' = [pc EXCEPT ![t] = to]
                                         /\ to = "ready" => param[t] = "client"
    BY <1>5 DEF Connect, SetConnected
  <2>3. Holds(t)'
    BY <2>1, <2>2 DEF TypeOK
  <2> QED
    BY <2>1, <2>2, <2>3 DEF TypeOK
<1>6. CASE SignalFailure(t) \/ SignalReady(t)
  <2>1. UNCHANGED <<param, socket_thread_is_running, socket_connected>>
    BY <1>6 DEF SignalFailure, SignalReady
  <2>2. upc' = upc \/ upc' = "woken"
    BY <1>6 DEF SignalFailure, SignalReady, pthread_cond_signal
  <2>3. PICK to \in {"accept", "serve", "end"} : /\ pc[t] \in {"failed", "ready"}
                                                 /\ pc' = [pc EXCEPT ![t] = to]
                                                 /\ to = "accept" => param[t] = "server"
    BY <1>6 DEF SignalFailure, SignalReady
  <2>4. Holds(t) => Holds(t)'
    BY <2>1, <2>3 DEF TypeOK
  <2>5. \A u \in Threads : u # t => ~Active(u)
    BY <2>3
  <2> QED
    BY <2>1, <2>2, <2>3, <2>4, <2>5 DEF TypeOK
<1>7. CASE EndRunning(t)
  <2>1. UNCHANGED <<param, upc, socket_connected>>
    BY <1>7 DEF EndRunning
  <2>2. pc[t] = "stop" /\ pc' = [pc EXCEPT ![t] = "cleanse"]
    BY <1>7 DEF EndRunning
  <2>3. (\A u \in Threads : u # t => ~Active(u)) /\ ~socket_connected
    BY <2>2
  <2> QED
    BY <2>1, <2>2, <2>3 DEF TypeOK
<1>8. CASE Reset(t) \/ LeaveConnection(t) \/ SetDisconnected(t) \/ EndConnection(t)
  BY <1>3, <1>8 DEF Reset, LeaveConnection, SetDisconnected, EndConnection, ThreadPC
<1>9. CASE SetupFails(t) \/ Listen(t) \/ StopAccepting(t) \/ KeepAccepting(t) \/ NobodyCame(t) \/ Accept(t)
  <2>1. UNCHANGED <<param, upc, socket_thread_is_running, socket_connected>>
    BY <1>9 DEF SetupFails, Listen, StopAccepting, KeepAccepting, NobodyCame, Accept
  <2>2. PICK to \in {"failed", "ready", "end", "accepting", "accept", "accepted"} :
           pc[t] \in {"setup", "accept", "accepting"} /\ pc' = [pc EXCEPT ![t] = to]
    BY <1>9 DEF SetupFails, Listen, StopAccepting, KeepAccepting, NobodyCame, Accept
  <2> QED
    BY <1>2, <2>1, <2>2 DEF ThreadPC
<1>10. CASE StopServing(t) \/ KeepServing(t) \/ Parse(t) \/ ClientLeft(t) \/ ClearQueuedFiles(t)
  <2>1. UNCHANGED <<param, upc, socket_thread_is_running, socket_connected>>
    BY <1>10 DEF StopServing, KeepServing, Parse, ClientLeft, ClearQueuedFiles
  <2>2. PICK to \in {"left", "end", "parse", "serve", "lost", "cleansed"} :
           pc[t] \in {"serve", "parse", "lost"} /\ pc' = [pc EXCEPT ![t] = to]
    BY <1>10 DEF StopServing, KeepServing, Parse, ClientLeft, ClearQueuedFiles
  <2> QED
    BY <1>2, <2>1, <2>2 DEF TypeOK, ThreadPC
<1>11. CASE ServerLeft(t) \/ FreeBuffer(t) \/ NullBuffer(t) \/ UnsetReady(t)
  <2>1. UNCHANGED <<param, upc, socket_thread_is_running, socket_connected>>
    BY <1>11 DEF ServerLeft, FreeBuffer, NullBuffer, UnsetReady
  <2>2. PICK to \in {"left", "freed", "nulled", "unset", "end"} :
           pc[t] \in {"serve", "left", "freed", "nulled"} /\ pc' = [pc EXCEPT ![t] = to]
    BY <1>11 DEF ServerLeft, FreeBuffer, NullBuffer, UnsetReady
  <2> QED
    BY <1>2, <2>1, <2>2 DEF TypeOK, ThreadPC
<1> QED
  BY <1>1, <1>4, <1>5, <1>6, <1>7, <1>8, <1>9, <1>10, <1>11
  DEF SocketThread, Setup, AcceptLoop, Serve, Leave, Finish

(* Every step keeps it when nobody wakes without a signal. *)
LEMMA SerialStep == ASSUME ~SpuriousWakeups PROVE TypeOK /\ Named /\ SerialInv /\ [Next]_vars => SerialInv'
<1> SUFFICES ASSUME TypeOK, Named, SerialInv, [Next]_vars PROVE SerialInv'
  OBVIOUS
<1>1. TypeOK'
  BY TypeStep
<1>2. ASSUME UNCHANGED <<upc, pc, param, socket_thread_is_running, socket_connected>> PROVE SerialInv'
  BY <1>1, <1>2 DEF SerialInv, OneSocketThread, FlagShowsThread, NewThreadHoldsCaller, CallerAlone, Connected,
     Active, Holds
<1>3. CASE UNCHANGED vars \/ PopLast
  BY <1>2, <1>3 DEF vars, PopLast, callerVars, threadVars, flags, connection
<1> QED
  BY <1>1, <1>3, CallerSerial, ThreadSerial DEF Next

(* Initially there is no thread. *)
LEMMA SerialInit == Init => SerialInv
BY DEF Init, SerialInv, TypeOK, OneSocketThread, FlagShowsThread, NewThreadHoldsCaller, CallerAlone, Connected,
       Active, CallerPC, ThreadPC

(* SerialInv is an invariant of every run in which nobody wakes without a signal. *)
LEMMA Serial == ASSUME ~SpuriousWakeups PROVE Spec => []SerialInv
BY SerialInit, SerialStep, TypedAndNamed, PTL DEF Spec

(***************************************************************************)
(* One socket thread at a time, for any number of starts and stops, unless *)
(* pthread_cond_wait returns without a signal.                             *)
(***************************************************************************)
THEOREM OneAtATime == ASSUME ~SpuriousWakeups PROVE Spec => []OneSocketThread
<1>1. SerialInv => OneSocketThread
  BY DEF SerialInv
<1> QED
  BY <1>1, Serial, PTL

(***************************************************************************)
(* What is connected runs, under the same assumption: the order of the two *)
(* last writes of start_socket.                                            *)
(***************************************************************************)
THEOREM ConnectedOnlyRunning == ASSUME ~SpuriousWakeups PROVE Spec => []ConnectedRuns
<1>1. SerialInv => ConnectedRuns
  BY DEF SerialInv, Connected, Holds, FlagShowsThread, Active, ConnectedRuns
<1> QED
  BY <1>1, Serial, PTL

-----------------------------------------------------------------------------
(***************************************************************************)
(* The strengthening of OwnFiles.  Files of a client in the queue have a   *)
(* holder, the thread that served it and has not cleansed the queue since; *)
(* and nobody serves a client while another thread has yet to cleanse,     *)
(* which is what PromptExit is for.                                        *)
(***************************************************************************)
Holder(t) == /\ param[t] = "server"
             /\ pc[t] \in {"serve", "parse", "lost", "left", "freed", "nulled", "unset", "end", "stop", "cleanse"}
FilesHaveHolder == sources # {} => \E t \in Threads : Holder(t) /\ sources \subseteq {client_name[t]}
CleanseFirst == (\E t \in Threads : pc[t] = "cleanse") => \A u \in Threads : ~HasClient(u)

FilesInv == FilesHaveHolder /\ CleanseFirst

(* Whoever has a client is the holder, or there are no files. *)
LEMMA HolderHasClient ==
  ASSUME OneSocketThread, FilesInv, NEW u \in Threads, HasClient(u)
  PROVE  /\ sources \subseteq {client_name[u]}
         /\ pc[u] \in {"accepted", "cleansed"} => sources = {}
<1>1. ASSUME NEW t \in Threads, Holder(t) PROVE t = u
  BY <1>1 DEF OneSocketThread, Active, FilesInv, CleanseFirst, Holder, HasClient
<1> QED
  BY <1>1 DEF FilesInv, FilesHaveHolder, Holder

(* The files and the threads move together in every step. *)
LEMMA FilesStep ==
  ASSUME PromptExit, TypeOK, OneSocketThread, FilesInv, [Next]_vars PROVE FilesInv'
<1> USE DEF TypeOK, FilesInv, FilesHaveHolder, CleanseFirst, Holder, HasClient, ThreadStep, QuietStep,
            callerVars, flags, connection, threadVars
<1>1. ASSUME UNCHANGED threadVars, sources' \subseteq sources PROVE FilesInv'
  BY <1>1
<1>2. CASE UNCHANGED vars
  BY <1>1, <1>2 DEF vars
<1>3. CASE PopLast
  BY <1>1, <1>3 DEF PopLast
<1>4. CASE Caller
  <2>1. CASE CreateThread
    <3>1. PICK t \in Threads : pc[t] = "none" /\ pc' = [pc EXCEPT ![t] = "begin"] /\ param' = [param EXCEPT ![t] = role]
      BY <2>1 DEF CreateThread
    <3>2. UNCHANGED <<client_name, sources>>
      BY <2>1 DEF CreateThread
    <3> QED
      BY <3>1, <3>2
  <2> QED
    BY <1>1, <1>4, <2>1 DEF Caller, StartSocket, Close, Disconnect, InCall, SetShouldRun, Wait,
       InitReturns, CloseReturns, DisconnectConnected, DisconnectNothing, QuietCall
<1>5. ASSUME NEW t \in Threads, SocketThread(t) PROVE FilesInv'
  <2>1. ASSUME UNCHANGED <<param, client_name, sources>>, NEW to \in ThreadPC \ {"cleanse"},
               pc' = [pc EXCEPT ![t] = to], HasClient(t)' => HasClient(t), Holder(t) => Holder(t)'
        PROVE FilesInv'
    BY <2>1
  <2>2. CASE Setup(t)
    BY <2>1, <2>2 DEF Setup, Begin, Reset, SetupFails, Listen, Connect, SignalFailure, SignalReady, ThreadPC
  <2>3. CASE Accept(t)
    <3>1. /\ pc[t] = "accepting" /\ pc' = [pc EXCEPT ![t] = "accepted"]
          /\ UNCHANGED <<param, sources>>
          /\ \A u \in Threads : pc[u] # "cleanse"
      BY <2>3 DEF Accept
    <3>2. sources = {}
      BY <3>1 DEF OneSocketThread, Active
    <3> QED
      BY <3>1, <3>2
  <2>4. CASE StopAccepting(t) \/ KeepAccepting(t) \/ NobodyCame(t) \/ SetConnected(t)
    BY <2>1, <2>4 DEF StopAccepting, KeepAccepting, NobodyCame, SetConnected, ThreadPC
  <2>5. CASE StopServing(t) \/ KeepServing(t) \/ ServerLeft(t) \/ ClientLeft(t)
    BY <2>1, <2>5 DEF StopServing, KeepServing, ServerLeft, ClientLeft, ThreadPC
  <2>6. CASE Parse(t)
    <3>1. CASE UNCHANGED sources
      BY <2>1, <2>6, <3>1 DEF Parse, ThreadPC
    <3>2. CASE param[t] = "server" /\ sources' = sources \cup {client_name[t]}
      <4>1. pc[t] = "parse" /\ pc' = [pc EXCEPT ![t] = "serve"] /\ UNCHANGED <<param, client_name>>
        BY <2>6 DEF Parse
      <4>2. sources \subseteq {client_name[t]}
        BY <3>2, <4>1, HolderHasClient
      <4> QED
        BY <3>2, <4>1, <4>2
    <3> QED
      BY <2>6, <3>1, <3>2 DEF Parse
  <2>7. CASE ClearQueuedFiles(t)
    <3>1. pc[t] = "lost" /\ pc' = [pc EXCEPT ![t] = "cleansed"] /\ UNCHANGED <<param, client_name>>
      BY <2>7 DEF ClearQueuedFiles
    <3>2. sources' = sources \ {client_name[t]}
      BY <2>7 DEF ClearQueuedFiles
    <3>3. CASE param[t] = "server"
      <4>1. sources' = {}
        BY <3>1, <3>2, <3>3, HolderHasClient
      <4> QED
        BY <3>1, <3>3, <4>1
    <3>4. CASE param[t] # "server"
      BY <3>1, <3>2, <3>4
    <3> QED
      BY <3>3, <3>4
  <2>8. CASE SetDisconnected(t)
    <3>1. /\ pc[t] = "cleansed" /\ pc' = [pc EXCEPT ![t] = "accept"]
          /\ client_name' = [client_name EXCEPT ![t] = NULL] /\ UNCHANGED <<param, sources>>
      BY <2>8 DEF SetDisconnected
    <3> QED
      BY <3>1
  <2>9. CASE EndConnection(t)
    BY <2>1, <2>9 DEF EndConnection, ThreadPC
  <2>10. CASE EndRunning(t)
    <3>1. pc[t] = "stop" /\ pc' = [pc EXCEPT ![t] = "cleanse"] /\ UNCHANGED <<param, client_name, sources>>
      BY <2>10 DEF EndRunning
    <3>2. \A u \in Threads : u # t => ~Active(u)
      BY <3>1 DEF OneSocketThread, Active
    <3> QED
      BY <3>1, <3>2 DEF Active
  <2>11. CASE CleanseQueue(t)
    <3>1. pc[t] = "cleanse" /\ pc' = [pc EXCEPT ![t] = "none"] /\ UNCHANGED param /\ sources' = {}
      BY <2>11 DEF CleanseQueue
    <3> QED
      BY <3>1
  <2>12. CASE Leave(t)
    BY <2>1, <2>12 DEF Leave, FreeBuffer, NullBuffer, UnsetReady, LeaveConnection, ThreadPC
  <2> QED
    BY <1>5, <2>2, <2>3, <2>4, <2>5, <2>6, <2>7, <2>8, <2>9, <2>10, <2>11, <2>12
    DEF SocketThread, AcceptLoop, Serve, Finish
<1> QED
  BY <1>2, <1>3, <1>4, <1>5 DEF Next

(***************************************************************************)
(* No client inherits the files of another, when no wakeup is spurious and *)
(* an ending thread has cleansed the queue before the next serves a client *)
(* (the cleanses of start_server and of start_socket).                     *)
(***************************************************************************)
THEOREM FilesStayOwn == ASSUME ~SpuriousWakeups, PromptExit PROVE Spec => []OwnFiles
<1>1. Init => FilesInv
  BY DEF Init, FilesInv, FilesHaveHolder, CleanseFirst
<1>2. SerialInv /\ FilesInv /\ [Next]_vars => FilesInv'
  BY FilesStep DEF SerialInv
<1>3. SerialInv /\ FilesInv => OwnFiles
  BY HolderHasClient DEF SerialInv, OwnFiles, HasClient
<1> QED
  BY <1>1, <1>2, <1>3, Serial, PTL DEF Spec
=============================================================================
