---------------------------- MODULE SessionProofs ----------------------------
(***************************************************************************)
(* Proofs about Session, for any number of threads and clients: it is      *)
(* SocketThread with more detail, and a thread that serves a connection    *)
(* finds the buffer it sends from.                                         *)
(***************************************************************************)
EXTENDS Session, SocketThreadProofs

-----------------------------------------------------------------------------
(* Every step of Session is a step of SocketThread, or leaves it alone. *)
LEMMA SessionSteps == [SessionNext]_allVars => [Next]_vars
<1> SUFFICES ASSUME [SessionNext]_allVars
             PROVE  [Next]_vars
  OBVIOUS
<1>1. CASE UNCHANGED vars
  BY <1>1
<1>2. CASE OtherCalls
  BY <1>2 DEF OtherCalls, Next
<1>3. ASSUME NEW c \in Clients, TakeFile(c)
      PROVE  [Next]_vars
  BY <1>3 DEF TakeFile, Next, PopLast, vars
<1>4. ASSUME NEW t \in Threads, SessionThread(t)
      PROVE  [Next]_vars
  <2>1. SocketThread(t) \/ UNCHANGED vars
    BY <1>4
    DEF SessionThread, OtherSteps, SignalThenAllocate, Allocate, ServeOnce, ParsePacket,
        ClientLeftSession, FreeSlot, NullSlot, UnsetSlot, CleanseQueueSession, SocketThread,
        Setup, AcceptLoop, Serve, Leave, Finish
  <2> QED
    BY <2>1 DEF Next
<1> QED
  BY <1>1, <1>2, <1>3, <1>4
  DEF SessionNext, allVars, BeginCall, Sending, WriteSlot, PushOwn, SetReady, CallEnds, Resume,
      Handler, CopyRequest, SetRequestReady, RequestSent, Kill

(***************************************************************************)
(* Session implements SocketThread, whose theorems hold for it.            *)
(***************************************************************************)
THEOREM SessionIsSocketThread == SessionSpec => Spec
<1>1. SessionInit => Init
  BY DEF SessionInit
<1> QED
  BY <1>1, SessionSteps, PTL DEF SessionSpec, Spec

-----------------------------------------------------------------------------
(***************************************************************************)
(* The strengthening of SenderFindsBuffer.  A thread that has yet to       *)
(* allocate the buffer stays where it is until it has; from then on the    *)
(* buffer is there until the thread itself frees it, whoever a server      *)
(* serves in between.                                                      *)
(***************************************************************************)
UsesBuffer(t) == pc[t] \in {"accept", "accepting", "accepted", "serve", "parse", "lost", "cleansed"}

UnallocatedStays ==
  \A t \in unallocated :
    t \in Threads /\ pc[t] = IF param[t] = "server" THEN "accept" ELSE "serve"

AllocatedLive == \A t \in Threads : UsesBuffer(t) => t \in unallocated \/ send_data_buf = "live"

BufferInv == UnallocatedStays /\ AllocatedLive

(* A step that is taken beside the buffer. *)
LEMMA BesideBuffer ==
  ASSUME BufferInv, UNCHANGED <<pc, param, send_data_buf, unallocated>>
  PROVE  BufferInv'
BY DEF BufferInv, UnallocatedStays, AllocatedLive, UsesBuffer

(* A thread that has its buffer goes on to where it needs it only from where it had it. *)
LEMMA MoveKeepsBuffer ==
  ASSUME TypeOK, BufferInv, NEW t \in Threads, NEW to, pc' = [pc EXCEPT ![t] = to],
         t \notin unallocated, UNCHANGED <<param, send_data_buf, unallocated>>,
         UsesBuffer(t)' => UsesBuffer(t)
  PROVE  BufferInv'
BY DEF TypeOK, BufferInv, UnallocatedStays, AllocatedLive, UsesBuffer

(* The caller creates threads, and does nothing else to them. *)
LEMMA CallerKeepsBuffer == ASSUME TypeOK, BufferInv, OtherCalls PROVE BufferInv'
<1>1. UNCHANGED <<send_data_buf, unallocated>>
  BY DEF OtherCalls, slot
<1>2. CASE CreateThread
  <2>1. PICK t \in Threads : /\ pc[t] = "none" /\ pc' = [pc EXCEPT ![t] = "begin"]
                             /\ param' = [param EXCEPT ![t] = role]
    BY <1>2 DEF CreateThread
  <2>2. \A u \in Threads : u # t => pc'[u] = pc[u] /\ param'[u] = param[u]
    BY <2>1 DEF TypeOK
  <2>3. pc'[t] = "begin" /\ t \notin unallocated
    BY <2>1 DEF TypeOK, BufferInv, UnallocatedStays
  <2> QED
    BY <1>1, <2>2, <2>3 DEF BufferInv, UnallocatedStays, AllocatedLive, UsesBuffer
<1>3. CASE ~CreateThread
  <2>1. UNCHANGED threadVars
    BY <1>3
    DEF OtherCalls, Caller, InCall, StartSocket, Close, Disconnect, SetShouldRun, Wait,
        InitReturns, CloseReturns, DisconnectConnected, DisconnectNothing, QuietCall
  <2> QED
    BY <1>1, <2>1, BesideBuffer DEF threadVars
<1> QED
  BY <1>2, <1>3

(* The thread allocates the buffer, uses it, and frees it when nobody else is there. *)
LEMMA ThreadKeepsBuffer ==
  ASSUME TypeOK, OneSocketThread, BufferInv, NEW t \in Threads, SessionThread(t)
  PROVE  BufferInv'
<1> USE DEF ThreadStep, QuietStep
<1>1. CASE OtherSteps(t)
  <2>1. t \notin unallocated /\ UNCHANGED <<param, send_data_buf, unallocated>>
    BY <1>1
    DEF OtherSteps, slot, Begin, Reset, SetupFails, Listen, Connect, SignalFailure, StopAccepting,
        KeepAccepting, NobodyCame, Accept, SetConnected, ServerLeft, StopServing, LeaveConnection,
        ClearQueuedFiles, SetDisconnected, EndConnection, EndRunning
  <2>2. PICK to \in ThreadPC : /\ pc' = [pc EXCEPT ![t] = to]
                               /\ pc[t] \in {"begin", "reset", "setup", "failed"} =>
                                    to \in {"reset", "setup", "failed", "ready", "end"}
                               /\ pc[t] \in {"unset", "end", "stop"} => to \in {"end", "stop", "cleanse"}
                               /\ pc[t] \in {"begin", "reset", "setup", "failed", "unset", "end", "stop"}
                                  \/ UsesBuffer(t)
    BY <1>1
    DEF OtherSteps, Begin, Reset, SetupFails, Listen, Connect, SignalFailure, StopAccepting,
        KeepAccepting, NobodyCame, Accept, SetConnected, ServerLeft, StopServing, LeaveConnection,
        ClearQueuedFiles, SetDisconnected, EndConnection, EndRunning, ThreadPC, UsesBuffer
  <2>3. UsesBuffer(t)' => UsesBuffer(t)
    BY <2>2 DEF TypeOK, UsesBuffer
  <2> QED
    BY <2>1, <2>2, <2>3, MoveKeepsBuffer
<1>2. CASE SignalThenAllocate(t)
  <2>1. /\ pc' = [pc EXCEPT ![t] = IF param[t] = "server" THEN "accept" ELSE "serve"]
        /\ unallocated' = unallocated \cup {t}
        /\ UNCHANGED <<param, send_data_buf>>
    BY <1>2 DEF SignalThenAllocate, SignalReady, slot
  <2>2. \A u \in Threads : u # t => pc'[u] = pc[u]
    BY <2>1 DEF TypeOK
  <2> QED
    BY <2>1, <2>2 DEF TypeOK, BufferInv, UnallocatedStays, AllocatedLive, UsesBuffer
<1>3. CASE Allocate(t)
  BY <1>3 DEF Allocate, BufferInv, UnallocatedStays, AllocatedLive, UsesBuffer, vars, threadVars
<1>4. CASE ServeOnce(t) \/ ClientLeftSession(t)
  <2>1. PICK to \in {"parse", "lost"} : pc[t] = "serve" /\ pc' = [pc EXCEPT ![t] = to]
    BY <1>4 DEF ServeOnce, KeepServing, ClientLeftSession, ClientLeft
  <2>2. t \notin unallocated /\ UNCHANGED <<param, send_data_buf, unallocated>>
    BY <1>4 DEF ServeOnce, KeepServing, ClientLeftSession, ClientLeft, slot
  <2> QED
    BY <2>1, <2>2, MoveKeepsBuffer DEF UsesBuffer
<1>5. CASE ParsePacket(t)
  <2>1. pc[t] = "parse" /\ pc' = [pc EXCEPT ![t] = "serve"]
    BY <1>5 DEF ParsePacket, Parse
  <2>2. t \notin unallocated
    BY <2>1 DEF BufferInv, UnallocatedStays
  <2>3. UNCHANGED <<param, send_data_buf, unallocated>>
    BY <1>5 DEF ParsePacket, Parse, slot
  <2> QED
    BY <2>1, <2>2, <2>3, MoveKeepsBuffer DEF UsesBuffer
<1>6. CASE FreeSlot(t) \/ NullSlot(t) \/ UnsetSlot(t)
  <2>1. PICK to \in {"freed", "nulled", "unset", "end"} :
           pc[t] \in {"left", "freed", "nulled"} /\ pc' = [pc EXCEPT ![t] = to]
    BY <1>6 DEF FreeSlot, NullSlot, UnsetSlot, FreeBuffer, NullBuffer, UnsetReady
  <2>2. UNCHANGED <<param, unallocated>>
    BY <1>6 DEF FreeSlot, NullSlot, UnsetSlot, FreeBuffer, NullBuffer, UnsetReady
  <2>3. t \notin unallocated
    BY <2>1 DEF BufferInv, UnallocatedStays
  <2>4. \A u \in Threads : ~UsesBuffer(u)'
    BY <2>1 DEF OneSocketThread, Active, TypeOK, UsesBuffer
  <2> QED
    BY <2>1, <2>2, <2>3, <2>4 DEF TypeOK, BufferInv, UnallocatedStays, AllocatedLive
<1>7. CASE CleanseQueueSession(t)
  <2>1. pc[t] = "cleanse" /\ pc' = [pc EXCEPT ![t] = "none"]
    BY <1>7 DEF CleanseQueueSession, CleanseQueue
  <2>2. t \notin unallocated
    BY <2>1 DEF BufferInv, UnallocatedStays
  <2>3. UNCHANGED <<param, send_data_buf, unallocated>>
    BY <1>7 DEF CleanseQueueSession, CleanseQueue, slot
  <2> QED
    BY <2>1, <2>2, <2>3, MoveKeepsBuffer DEF TypeOK, UsesBuffer
<1> QED
  BY <1>1, <1>2, <1>3, <1>4, <1>5, <1>6, <1>7 DEF SessionThread

(* Every step keeps the invariant, also those of the handler and of calls that send. *)
LEMMA BufferStep == ASSUME TypeOK, OneSocketThread, BufferInv, [SessionNext]_allVars PROVE BufferInv'
<1>1. CASE OtherCalls
  BY <1>1, CallerKeepsBuffer
<1>2. ASSUME NEW t \in Threads, SessionThread(t) PROVE BufferInv'
  BY <1>2, ThreadKeepsBuffer
<1>3. CASE BeginCall \/ Sending \/ Resume \/ Handler \/ Kill \/ \E c \in Clients : TakeFile(c)
  BY <1>3, BesideBuffer
  DEF BeginCall, Sending, WriteSlot, PushOwn, SetReady, CallEnds, Resume, Handler, CopyRequest,
      SetRequestReady, RequestSent, TakeFile, Kill, slot, vars, threadVars
<1>4. CASE UNCHANGED allVars
  BY <1>4, BesideBuffer DEF allVars, sessionVars, slot, vars, threadVars
<1> QED
  BY <1>1, <1>2, <1>3, <1>4 DEF SessionNext

(***************************************************************************)
(* Whoever serves a connection finds send_data_buf allocated, for any      *)
(* number of starts, stops and clients, when pthread_cond_wait returns     *)
(* only for a signal: with a second socket thread one would free what the  *)
(* other sends (server.c:84 and 110, client.c:82 and 115).                 *)
(***************************************************************************)
THEOREM ServingFindsBuffer == ASSUME ~SpuriousWakeups PROVE SessionSpec => []SenderFindsBuffer
<1>1. SessionInit => BufferInv
  BY DEF SessionInit, Init, BufferInv, UnallocatedStays, AllocatedLive, UsesBuffer
<1>2. SerialInv /\ BufferInv /\ [SessionNext]_allVars => BufferInv'
  BY BufferStep DEF SerialInv
<1>3. BufferInv => SenderFindsBuffer
  BY DEF BufferInv, AllocatedLive, UsesBuffer, SenderFindsBuffer
<1> QED
  BY <1>1, <1>2, <1>3, Serial, SessionIsSocketThread, PTL DEF SessionSpec
=============================================================================
