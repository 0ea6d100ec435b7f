------------------------------ MODULE Streaming -----------------------------
(***************************************************************************)
(* One client connected to one server, from the moment both are connected. *)
(* The server is Player, extended with the remote branch of its handler    *)
(* and with its socket thread; the client is the thread of its caller and  *)
(* its socket thread (its handler is idle while it is connected).          *)
(*                                                                         *)
(*   client user --c_buf--> client socket --c2s--> server socket --> flags *)
(*                          client socket <--s2c-- server socket <--s_buf- *)
(*                                                       server handler    *)
(*                                                                         *)
(* In each program send_data_buf and send_data_ready are the one-packet    *)
(* slot through which the other threads have their socket thread send.     *)
(* A packet is delivered whole and in order: the server puts its packets   *)
(* together from what recv returns, and TCP does the rest.  A send waits   *)
(* while Window packets are under way; a recv of either loop returns at    *)
(* once (MSG_DONTWAIT), with nothing although a packet is still under way  *)
(* or with the next one.                                                   *)
(***************************************************************************)
EXTENDS Player, SequencesExt

CONSTANTS
  Chunks,          \* packets a file of the client takes; 0 if it is missing or empty
  ClientCommands,  \* the commands the client's user gives: of "play", "pause", "skip"
  MaxCalls,        \* bound: calls of the client's user
  Window           \* packets that fit between send and recv, in each direction

ASSUME ChunksAssumption == Chunks \in [Files -> Nat]
ASSUME CallsAssumption == MaxCalls \in Nat
ASSUME WindowAssumption == Window \in Nat \ {0}
ASSUME CommandsAssumption == ClientCommands \subseteq {"play", "pause", "skip"}

VARIABLES
  (* the client *)
  c_queue,         \* SocketState.file_queue of the client: file names
  c_buf, c_ready,  \* send_data_buf and send_data_ready
  upc,             \* where the user is in a turntable_ call
  calls,           \* calls so far
  wanted,          \* the file of the call of turntable_queue_file
  cpc,             \* where start_client's loop is
  c_got,           \* the packet it received
  index,           \* index of the next packet of a transfer
  popped,          \* what data[0] holds when c_queue is empty: the last file taken out
  wrapped,         \* whether count of c_queue was lowered below zero
  (* the connection *)
  c2s, s2c,
  (* the server, beside the variables of Player *)
  s_buf, s_ready,
  spc,             \* where start_server's loop is
  s_got,           \* the packet it received
  received         \* the packets of the file that a buffer holds

userVars == <<upc, calls, wanted>>
slotVars == <<c_buf, c_ready>>
clientVars == <<cpc, c_got, index, popped, wrapped>>
serverVars == <<s_buf, s_ready>>
sockVars == <<spc, s_got>>
streamVars == <<c_queue, slotVars, userVars, clientVars, c2s, s2c, serverVars, sockVars, received>>
svars == <<vars, streamVars>>

\* The name of the client, as the server sees it.  (What getnameinfo returns in
\* start_server for a client on the same machine may be "localhost" itself; the
\* handler would take its entries for local ones.  That case is not modelled.)
Client == "client"
Nothing == [type |-> "none", file |-> NULL, index |-> 0]
Command(c) == [type |-> c, file |-> NULL, index |-> 0]
Packet(type, f, i) == [type |-> type, file |-> f, index |-> i]

\* A buffer of zeros is a packet: COMMAND, PLAY.
Zeroed == Command("play")

StreamInit ==
  /\ Init
  /\ c_queue = <<>>
  /\ c_buf = Zeroed /\ c_ready = FALSE
  /\ upc = "idle" /\ calls = 0 /\ wanted = NULL
  /\ cpc = "recv" /\ c_got = Nothing /\ index = 0 /\ popped = NULL /\ wrapped = FALSE
  /\ c2s = <<>> /\ s2c = <<>>
  /\ s_buf = Zeroed /\ s_ready = FALSE
  /\ spc = "recv" /\ s_got = Nothing
  /\ received = [b \in Buffers |-> {}]

-----------------------------------------------------------------------------
(* The client's user, connected as a client (turntable.c). *)

UserStep(from, to) ==
  /\ upc = from
  /\ upc' = to

AskFile(f) ==
  /\ UserStep("idle", "push")
  /\ calls < MaxCalls
  /\ calls' = calls + 1
  /\ wanted' = f
  /\ c_buf' = Packet("play_req", f, 0)
  /\ UNCHANGED <<vars, c_queue, c_ready, clientVars, c2s, s2c, serverVars, sockVars, received>>

\* Slip: the new entry is put before the others.
PushOwnInFront ==
  /\ UserStep("push", "ready")
  /\ c_queue' = <<wanted>> \o c_queue
  /\ UNCHANGED <<vars, calls, wanted, slotVars, clientVars, c2s, s2c, serverVars, sockVars, received>>

\* With count below zero, queue_push writes before the array: the program ends.
PushOwn ==
  /\ UserStep("push", "ready")
  /\ ~wrapped
  /\ c_queue' = Append(c_queue, wanted)
  /\ UNCHANGED <<vars, calls, wanted, slotVars, clientVars, c2s, s2c, serverVars, sockVars, received>>

AskCommand(c) ==
  /\ UserStep("idle", "ready")
  /\ calls < MaxCalls
  /\ calls' = calls + 1
  /\ c_buf' = Command(c)
  /\ UNCHANGED <<vars, c_queue, c_ready, wanted, clientVars, c2s, s2c, serverVars, sockVars, received>>

SetReady ==
  /\ UserStep("ready", "spin")
  /\ c_ready' = TRUE
  /\ UNCHANGED <<vars, c_queue, c_buf, calls, wanted, clientVars, c2s, s2c, serverVars, sockVars, received>>

CallReturns ==
  /\ UserStep("spin", "idle")
  /\ ~c_ready
  /\ UNCHANGED <<vars, c_queue, slotVars, calls, wanted, clientVars, c2s, s2c, serverVars, sockVars, received>>

InCall == PushOwn \/ SetReady \/ CallReturns
ClientUser == (\E f \in Files : AskFile(f)) \/ (\E c \in ClientCommands : AskCommand(c)) \/ InCall

-----------------------------------------------------------------------------
(* The loop of start_client, and what parse_packet does with a FILE_REQ. *)

ClientStep(from, to) ==
  /\ cpc = from
  /\ cpc' = to

ClientRecv ==
  /\ ClientStep("recv", "send")
  /\ \/ s2c # <<>> /\ c_got' = Head(s2c) /\ s2c' = Tail(s2c)
     \/ c_ready /\ c_got' = Nothing /\ UNCHANGED s2c
  /\ UNCHANGED <<vars, c_queue, slotVars, userVars, popped, wrapped, index, c2s, serverVars, sockVars, received>>

ClientSend ==
  /\ ClientStep("send", "parse")
  /\ IF c_ready
     THEN /\ Len(c2s) < Window
          /\ c2s' = Append(c2s, c_buf)
          /\ c_buf' = Zeroed
          /\ c_ready' = FALSE
     ELSE UNCHANGED <<c2s, slotVars>>
  /\ UNCHANGED <<vars, c_queue, userVars, popped, wrapped, c_got, index, s2c, serverVars, sockVars, received>>

\* queue_peek reads data[0] and does not look at count.
Peek == IF c_queue # <<>> THEN Head(c_queue) ELSE popped

NextInQueue(f) == Peek = f

\* Nothing received, or a request that is not for the head of the queue.  The
\* entry of a queue that never held one is not initialised: reading it ends
\* the program.
ClientSkip ==
  /\ ClientStep("parse", "recv")
  /\ c_got = Nothing \/ (Peek # NULL /\ ~NextInQueue(c_got.file))
  /\ c_got' = Nothing
  /\ UNCHANGED <<vars, c_queue, slotVars, userVars, popped, wrapped, index, c2s, s2c, serverVars, sockVars, received>>

\* Slip: the client keeps the file it sends in its queue.
BeginTransferUnpopped ==
  /\ c_got.type = "file_req"
  /\ ClientStep("parse", IF Chunks[c_got.file] = 0 THEN "error" ELSE "transfer")
  /\ NextInQueue(c_got.file)
  /\ index' = 0
  /\ UNCHANGED <<vars, c_queue, slotVars, userVars, popped, wrapped, c_got, c2s, s2c, serverVars, sockVars, received>>

\* queue_pop does not look at count either: the pop of an empty queue lowers
\* it below zero, and the next one shifts the memory behind the array: the
\* program ends.
BeginTransfer ==
  /\ c_got.type = "file_req"
  /\ ClientStep("parse", IF Chunks[c_got.file] = 0 THEN "error" ELSE "transfer")
  /\ NextInQueue(c_got.file)
  /\ ~wrapped
  /\ popped' = c_got.file
  /\ IF c_queue # <<>>
     THEN c_queue' = Tail(c_queue) /\ UNCHANGED wrapped
     ELSE wrapped' = TRUE /\ UNCHANGED c_queue
  /\ index' = 0
  /\ UNCHANGED <<vars, slotVars, userVars, c_got, c2s, s2c, serverVars, sockVars, received>>

\* A missing file: the header is written into the shared buffer, which is then sent.
WriteError ==
  /\ ClientStep("error", "flush")
  /\ c_buf' = [c_buf EXCEPT !.type = "missing"]
  /\ UNCHANGED <<vars, c_queue, c_ready, userVars, popped, wrapped, c_got, index, c2s, s2c, serverVars,
                 sockVars, received>>

SendError ==
  /\ ClientStep("flush", "recv")
  /\ Len(c2s) < Window
  /\ c2s' = Append(c2s, c_buf)
  /\ c_got' = Nothing
  /\ UNCHANGED <<vars, c_queue, slotVars, userVars, popped, wrapped, index, s2c, serverVars, sockVars, received>>

\* Slip: the last packet is recognised one packet too early.
KindEarly(f, i) == IF i = 0 THEN "start" ELSE IF i + 2 = Chunks[f] THEN "end" ELSE "middle"

\* The header of packet i: the first is START, whatever the number of packets.
Kind(f, i) == IF i = 0 THEN "start" ELSE IF i = Chunks[f] - 1 THEN "end" ELSE "middle"

SendChunk ==
  /\ cpc = "transfer"
  /\ Len(c2s) < Window
  /\ c2s' = Append(c2s, Packet(Kind(c_got.file, index), c_got.file, index))
  /\ index' = index + 1
  /\ IF index + 1 = Chunks[c_got.file]
     THEN cpc' = "recv" /\ c_got' = Nothing
     ELSE UNCHANGED <<cpc, c_got>>
  /\ UNCHANGED <<vars, c_queue, slotVars, userVars, popped, wrapped, s2c, serverVars, sockVars, received>>

ClientSocket == \/ ClientRecv \/ ClientSend \/ ClientSkip \/ BeginTransfer
                \/ WriteError \/ SendError \/ SendChunk

-----------------------------------------------------------------------------
(* The loop of start_server, and what parse_packet does on the server. *)

ServerStep(from, to) ==
  /\ spc = from
  /\ spc' = to

ServerRecv ==
  /\ ServerStep("recv", "send")
  /\ \/ c2s # <<>> /\ s_got' = Head(c2s) /\ c2s' = Tail(c2s)
     \/ s_ready /\ s_got' = Nothing /\ UNCHANGED c2s
  /\ UNCHANGED <<vars, c_queue, slotVars, userVars, clientVars, s2c, serverVars, received>>

ServerSend ==
  /\ ServerStep("send", "parse")
  /\ IF s_ready
     THEN /\ Len(s2c) < Window
          /\ s2c' = Append(s2c, s_buf)
          /\ s_buf' = Zeroed
          /\ s_ready' = FALSE
     ELSE UNCHANGED <<s2c, serverVars>>
  /\ UNCHANGED <<vars, c_queue, slotVars, userVars, clientVars, c2s, s_got, received>>

Parse(type) ==
  /\ ServerStep("parse", "recv")
  /\ s_got.type = type
  /\ s_got' = Nothing
  /\ UNCHANGED <<c_queue, slotVars, userVars, clientVars, c2s, s2c, serverVars>>

ParseNothing == Parse("none") /\ UNCHANGED <<vars, received>>

ParsePlay ==
  /\ Parse("play")
  /\ should_play' = TRUE
  /\ UNCHANGED <<queueVars, should_stop, handler_thread_is_running, heapVars, handlerVars, threadVars, received>>

ParsePause ==
  /\ Parse("pause")
  /\ should_play' = FALSE
  /\ UNCHANGED <<queueVars, should_stop, handler_thread_is_running, heapVars, handlerVars, threadVars, received>>

\* A skip sets the flag and waits until no song is running.
ParseSkip ==
  /\ ServerStep("parse", "skipping")
  /\ s_got.type = "skip"
  /\ should_stop' = TRUE
  /\ UNCHANGED <<queueVars, should_play, handler_thread_is_running, heapVars, handlerVars, threadVars,
                 c_queue, slotVars, userVars, clientVars, c2s, s2c, serverVars, s_got, received>>

\* Slip: the thread waits for the flag it set, which only a song clears.
SkipDoneWhenCleared ==
  /\ ServerStep("skipping", "recv")
  /\ ~should_stop
  /\ s_got' = Nothing
  /\ UNCHANGED <<vars, c_queue, slotVars, userVars, clientVars, c2s, s2c, serverVars, received>>

\* Slip: the thread waits until the handler has no request either, which it is to answer.
SkipDoneWhenIdle ==
  /\ ServerStep("skipping", "recv")
  /\ ~handler_thread_is_running /\ hpc \notin {"ready", "sent", "await"}
  /\ s_got' = Nothing
  /\ UNCHANGED <<vars, c_queue, slotVars, userVars, clientVars, c2s, s2c, serverVars, received>>

SkipDone ==
  /\ ServerStep("skipping", "recv")
  /\ ~handler_thread_is_running
  /\ s_got' = Nothing
  /\ UNCHANGED <<vars, c_queue, slotVars, userVars, clientVars, c2s, s2c, serverVars, received>>

\* Slip: the entry is queued without its source, as the client queues its own.
ParsePlayReqNoSource ==
  /\ Parse("play_req")
  /\ file_queue' = Append(file_queue, [filename |-> s_got.file, src |-> NULL])
  /\ UNCHANGED <<queued, flags, heapVars, handlerVars, threadVars, received>>

ParsePlayReq ==
  /\ Parse("play_req")
  /\ file_queue' = Append(file_queue, [filename |-> s_got.file, src |-> Client])
  /\ UNCHANGED <<queued, flags, heapVars, handlerVars, threadVars, received>>

ParseStart ==
  /\ Parse("start")
  /\ \E b \in Buffers \ live :
        /\ live' = live \cup {b}
        /\ audio' = b
        /\ content' = [content EXCEPT ![b] = s_got.file]
        /\ received' = [received EXCEPT ![b] = {0}]
  /\ UNCHANGED <<queueVars, flags, handlerVars, threadVars>>

\* Without a START before it, a packet is written through a null pointer: the program ends.
ParseChunk ==
  /\ audio # NULL
  /\ received' = [received EXCEPT ![audio] = @ \cup {s_got.index}]
  /\ UNCHANGED <<queueVars, should_stop, handler_thread_is_running, heapVars, handlerVars, threadVars>>

\* Slip: the song begins when its second packet is here.
ParseMiddlePlays == Parse("middle") /\ ParseChunk /\ should_play' = TRUE

\* Slip: the last packet is stored and the handler is not told.
ParseEndSilent == Parse("end") /\ ParseChunk /\ UNCHANGED should_play

ParseMiddle == Parse("middle") /\ ParseChunk /\ UNCHANGED should_play
ParseEnd == Parse("end") /\ ParseChunk /\ should_play' = TRUE

ParseMissing ==
  /\ Parse("missing")
  /\ audio' = NULL
  /\ should_play' = TRUE
  /\ UNCHANGED <<queueVars, should_stop, handler_thread_is_running, live, content, handlerVars, threadVars,
                 received>>

ServerSocket == \/ ServerRecv \/ ServerSend \/ ParseNothing \/ ParsePlay \/ ParsePause \/ ParseSkip
                \/ SkipDone \/ ParsePlayReq \/ ParseStart \/ ParseMiddle \/ ParseEnd \/ ParseMissing

-----------------------------------------------------------------------------
(* The remote branch of the server's handler. *)

WriteRequest ==
  /\ HandlerStep("load", "ready")
  /\ front.src = Client
  /\ s_buf' = Packet("file_req", front.filename, 0)
  /\ UNCHANGED <<front, queueVars, flags, heapVars, threadVars, s_ready,
                 c_queue, slotVars, userVars, clientVars, c2s, s2c, sockVars, received>>

SetRequestReady ==
  /\ HandlerStep("ready", "sent")
  /\ s_ready' = TRUE
  /\ UNCHANGED <<front, queueVars, flags, heapVars, threadVars, s_buf,
                 c_queue, slotVars, userVars, clientVars, c2s, s2c, sockVars, received>>

RequestSent ==
  /\ HandlerStep("sent", "await")
  /\ ~s_ready
  /\ UNCHANGED <<front, queueVars, flags, heapVars, threadVars, streamVars>>

SongReady ==
  /\ HandlerStep("await", "start")
  /\ should_play
  /\ UNCHANGED <<front, queueVars, flags, heapVars, threadVars, streamVars>>

StartRemote ==
  /\ HandlerStep("start", "sleep")
  /\ front' = NULL
  /\ \E t \in Threads : StartAudioThread(t)
  /\ UNCHANGED <<queueVars, flags, heapVars, streamVars>>

RemoteHandler == WriteRequest \/ SetRequestReady \/ RequestSent \/ SongReady \/ StartRemote

LocalHandler == Handler /\ UNCHANGED streamVars
ServerUser == User /\ UNCHANGED streamVars
ServerAudio(t) == AudioThread(t) /\ UNCHANGED streamVars

StreamNext == \/ ClientUser \/ ClientSocket \/ ServerSocket \/ RemoteHandler
              \/ LocalHandler \/ ServerUser \/ \E t \in Threads : ServerAudio(t)

StreamSpec == StreamInit /\ [][StreamNext]_svars

(***************************************************************************)
(* Every thread runs; users are free to do nothing, but finish their calls. *)
(***************************************************************************)
StreamFairness ==
  /\ WF_svars(InCall) /\ WF_svars(ClientSocket) /\ WF_svars(ServerSocket)
  /\ WF_svars(RemoteHandler \/ LocalHandler)
  /\ \A t \in Threads :
        /\ WF_svars((BeginAudio(t) \/ PlatformStop(t) \/ FreeAudio(t) \/ ClearStop(t) \/ ClearPlay(t) \/ ExitAudio(t))
                    /\ UNCHANGED streamVars)
        /\ SF_svars(should_play /\ PlatformDone(t) /\ UNCHANGED streamVars)

FairStreamSpec == StreamSpec /\ StreamFairness

-----------------------------------------------------------------------------
(* Every variable has its type. *)
PacketTypes == {"none", "play", "pause", "skip", "play_req", "file_req", "start", "middle", "end", "missing"}
Packets == [type : PacketTypes, file : Files \cup {NULL}, index : Nat]
RemoteEntries == [filename : Files, src : {Local, Client}]
RemotePC == HandlerPC \cup {"ready", "sent", "await", "start"}

StreamTypeOK ==
  /\ file_queue \in Seq(RemoteEntries)
  /\ queued \in 0 .. MaxQueued /\ calls \in 0 .. MaxCalls
  /\ should_play \in BOOLEAN /\ should_stop \in BOOLEAN /\ handler_thread_is_running \in BOOLEAN
  /\ audio \in Buffers \cup {NULL} /\ live \subseteq Buffers
  /\ content \in [Buffers -> Files \cup {NULL}]
  /\ received \in [Buffers -> SUBSET Nat]
  /\ hpc \in RemotePC /\ front \in RemoteEntries \cup {NULL}
  /\ tpc \in [Threads -> ThreadPC] /\ param \in [Threads -> Buffers \cup {NULL}]
  /\ c_queue \in Seq(Files) /\ wanted \in Files \cup {NULL}
  /\ upc \in {"idle", "push", "ready", "spin"}
  /\ cpc \in {"recv", "send", "parse", "error", "flush", "transfer"} /\ index \in Nat
  /\ popped \in Files \cup {NULL} /\ wrapped \in BOOLEAN
  /\ spc \in {"recv", "send", "parse", "skipping"}
  /\ {c_buf, s_buf, c_got, s_got} \subseteq Packets /\ c_ready \in BOOLEAN /\ s_ready \in BOOLEAN
  /\ c2s \in Seq(Packets) /\ s2c \in Seq(Packets)

(***************************************************************************)
(* The client's queue mirrors the server's: the files it holds are, in     *)
(* order, the one being requested, those in the server's queue, and those  *)
(* whose PLAY_REQ is on its way.  This is what makes the client answer     *)
(* (socket.c compares the request with the head of the queue).             *)
(***************************************************************************)
If(condition, s) == IF condition THEN s ELSE <<>>

FilesIn(packets, type) ==
  FlattenSeq([k \in DOMAIN packets |-> If(packets[k].type = type, <<packets[k].file>>)])

RemoteFiles(entries) ==
  FlattenSeq([k \in DOMAIN entries |-> If(entries[k].src = Client, <<entries[k].filename>>)])

RequestUnderWay ==
  FilesIn(If(cpc \in {"send", "parse"}, <<c_got>>) \o s2c \o If(s_ready, <<s_buf>>), "file_req")
  \o RemoteFiles(If(hpc \in {"load", "ready"}, <<front>>))

PlayReqsUnderWay ==
  FilesIn(If(spc \in {"send", "parse"}, <<s_got>>) \o c2s
          \o If(upc = "ready" \/ c_ready, <<c_buf>>), "play_req")

QueueMirror == c_queue = RequestUnderWay \o RemoteFiles(file_queue) \o PlayReqsUnderWay

(***************************************************************************)
(* The server asks for the file at the head of the client's queue, and     *)
(* there is one: the client's diagnostic of a request that "was not next   *)
(* in queue" accuses no server that runs this code, and queue_peek and     *)
(* queue_pop, which look at no count, meet no empty queue.                 *)
(***************************************************************************)
RequestIsHead ==
  cpc = "parse" /\ c_got.type = "file_req" => c_queue # <<>> /\ Head(c_queue) = c_got.file

(***************************************************************************)
(* A song of the client begins when all of it is here, and it is the song  *)
(* that was requested (audio_handler waits for should_play, which          *)
(* AUDIOFILE_END sets).                                                    *)
(***************************************************************************)
StartComplete ==
  hpc = "start" =>
    \/ Chunks[front.filename] = 0
    \/ /\ audio \in live
       /\ content[audio] = front.filename
       /\ received[audio] = 0 .. Chunks[front.filename] - 1

(***************************************************************************)
(* What is received of a file is written to a buffer that is allocated and *)
(* that no audio thread is playing (AUDIOFILE_MIDDLE and AUDIOFILE_END).   *)
(***************************************************************************)
WriteTarget ==
  spc = "parse" /\ s_got.type \in {"middle", "end"} =>
    audio \in live /\ \A t \in Threads : Owner(t) => param[t] # audio

(***************************************************************************)
(* A song requested from the client begins in the end (the handler waits   *)
(* for should_play without a limit).                                       *)
(***************************************************************************)
RequestedSongBegins == hpc = "await" ~> hpc = "start"

(***************************************************************************)
(* The socket thread of the server comes back from a skip: it waits for    *)
(* the song to end, and neither the song nor the handler waits for it      *)
(* (COMMAND_SKIP in parse_packet).                                         *)
(***************************************************************************)
SkipReturns == spc = "skipping" ~> spc = "recv"

(***************************************************************************)
(* A call of the client's user returns, whatever is transferred meanwhile  *)
(* and however long the server takes to read it (the loops on              *)
(* send_data_ready in turntable.c).                                        *)
(***************************************************************************)
CallsReturn == upc # "idle" ~> upc = "idle"
=============================================================================
