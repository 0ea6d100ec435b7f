--------------------------- MODULE StreamingProofs ---------------------------
(***************************************************************************)
(* Proofs about Streaming, for every set of files, buffers and threads,    *)
(* every length of a file and every number of calls: the types, one song   *)
(* at a time on a server that plays songs of a client, and, for whole      *)
(* files and without resumes, that every packet of a file is written where *)
(* it belongs and that a song begins complete.  Then, with what flattening *)
(* does to sequences of any length, that the queues of the two programs    *)
(* mirror each other while no file is missing, so that the server asks for *)
(* what the client has at the head of its queue.                           *)
(***************************************************************************)
EXTENDS Streaming, SequenceTheorems, WellFoundedInduction, TLAPS

-----------------------------------------------------------------------------
(***************************************************************************)
(* The types, variable by variable of each thread, and what they rest on:  *)
(* the handler holds an entry from queue_pop until it has created the      *)
(* audio thread, and a PLAY_REQ names a file.                              *)
(***************************************************************************)
FileKnown(p) == p.type = "play_req" => p.file \in Files

FlagTypes == should_play \in BOOLEAN /\ should_stop \in BOOLEAN /\ handler_thread_is_running \in BOOLEAN

QueueTypes == file_queue \in Seq(RemoteEntries) /\ queued \in 0 .. MaxQueued

HeapTypes ==
  /\ audio \in Buffers \cup {NULL} /\ live \subseteq Buffers
  /\ content \in [Buffers -> Files \cup {NULL}]
  /\ received \in [Buffers -> SUBSET Nat]

ThreadTypes ==
  /\ hpc \in RemotePC /\ front \in RemoteEntries \cup {NULL}
  /\ hpc \in {"load", "create", "ready", "sent", "await", "start"} => front \in RemoteEntries
  /\ tpc \in [Threads -> ThreadPC] /\ param \in [Threads -> Buffers \cup {NULL}]

UserTypes ==
  /\ c_queue \in Seq(Files) /\ wanted \in Files \cup {NULL}
  /\ upc \in {"idle", "push", "ready", "spin"} /\ calls \in 0 .. MaxCalls
  /\ upc = "push" => wanted \in Files

SlotTypes == c_buf \in Packets /\ FileKnown(c_buf) /\ c_ready \in BOOLEAN

ClientTypes ==
  /\ cpc \in {"recv", "send", "parse", "error", "flush", "transfer"}
  /\ c_got \in Packets /\ index \in Nat
  /\ popped \in Files \cup {NULL} /\ wrapped \in BOOLEAN

WireTypes ==
  /\ c2s \in Seq(Packets) /\ s2c \in Seq(Packets)
  /\ \A i \in 1 .. Len(c2s) : FileKnown(c2s[i])

SockTypes == spc \in {"recv", "send", "parse", "skipping"} /\ s_got \in Packets /\ FileKnown(s_got)

RequestTypes == s_buf \in Packets /\ s_ready \in BOOLEAN

ServerTypes == FlagTypes /\ QueueTypes /\ HeapTypes /\ ThreadTypes
TypeInv == ServerTypes /\ UserTypes /\ SlotTypes /\ ClientTypes /\ WireTypes /\ SockTypes /\ RequestTypes

(* Together they are the type invariant. *)
LEMMA TypesTogether == TypeInv => StreamTypeOK
  BY DEF TypeInv, ServerTypes, FlagTypes, QueueTypes, HeapTypes, ThreadTypes, UserTypes, SlotTypes, ClientTypes,
         WireTypes, SockTypes, RequestTypes, StreamTypeOK

(* The packets the code makes are packets. *)
LEMMA PacketsMade ==
  /\ Nothing \in Packets /\ Zeroed \in Packets
  /\ \A c \in ClientCommands : Command(c) \in Packets
  /\ \A type \in PacketTypes, f \in Files \cup {NULL}, i \in Nat : Packet(type, f, i) \in Packets
  /\ \A p \in Packets : [p EXCEPT !.type = "missing"] \in Packets
  BY CommandsAssumption DEF Nothing, Zeroed, Command, Packet, Packets, PacketTypes

(* Where a variable does not change, its type does not. *)
LEMMA UserKept == UserTypes /\ UNCHANGED <<c_queue, userVars>> => UserTypes'
  BY DEF UserTypes, userVars
LEMMA SlotKept == SlotTypes /\ UNCHANGED slotVars => SlotTypes'
  BY DEF SlotTypes, FileKnown, slotVars
LEMMA ClientKept == ClientTypes /\ UNCHANGED clientVars => ClientTypes'
  BY DEF ClientTypes, clientVars
LEMMA WireKept == WireTypes /\ UNCHANGED <<c2s, s2c>> => WireTypes'
  BY DEF WireTypes, FileKnown
LEMMA SockKept == SockTypes /\ UNCHANGED sockVars => SockTypes'
  BY DEF SockTypes, FileKnown, sockVars
LEMMA RequestKept == RequestTypes /\ UNCHANGED serverVars => RequestTypes'
  BY DEF RequestTypes, serverVars
LEMMA FlagKept == FlagTypes /\ UNCHANGED flags => FlagTypes'
  BY DEF FlagTypes, flags
LEMMA QueueKept == QueueTypes /\ UNCHANGED queueVars => QueueTypes'
  BY DEF QueueTypes, queueVars
LEMMA HeapKept == HeapTypes /\ UNCHANGED <<heapVars, received>> => HeapTypes'
  BY DEF HeapTypes, heapVars
LEMMA ThreadKept == ThreadTypes /\ UNCHANGED <<handlerVars, threadVars>> => ThreadTypes'
  BY DEF ThreadTypes, handlerVars, threadVars
LEMMA ServerKept == ServerTypes /\ UNCHANGED <<vars, received>> => ServerTypes'
  BY FlagKept, QueueKept, HeapKept, ThreadKept DEF ServerTypes, vars

(* The initial values have their types. *)
LEMMA TypeInit == StreamInit => TypeInv
<1> SUFFICES ASSUME StreamInit PROVE TypeInv
  OBVIOUS
<1>1. FlagTypes /\ QueueTypes /\ UserTypes
  <2>1. FlagTypes
    BY DEF StreamInit, Init, FlagTypes
  <2>2. QueueTypes
    BY BoundAssumption DEF StreamInit, Init, QueueTypes
  <2>3. UserTypes
    BY CallsAssumption DEF StreamInit, UserTypes
  <2> QED
    BY <2>1, <2>2, <2>3
<1>2. HeapTypes
  BY DEF StreamInit, Init, HeapTypes
<1>3. ThreadTypes
  BY DEF StreamInit, Init, ThreadTypes, ThreadPC, RemotePC, HandlerPC
<1>4. SlotTypes /\ ClientTypes /\ SockTypes /\ RequestTypes
  BY PacketsMade DEF StreamInit, SlotTypes, ClientTypes, SockTypes, RequestTypes, FileKnown, Zeroed, Command, Nothing
<1>5. WireTypes
  BY DEF StreamInit, WireTypes
<1> QED
  BY <1>1, <1>2, <1>3, <1>4, <1>5 DEF TypeInv, ServerTypes

(* The client's user (turntable.c). *)
LEMMA TypeUser == TypeInv /\ ClientUser => TypeInv'
<1> SUFFICES ASSUME TypeInv, ClientUser PROVE UserTypes' /\ SlotTypes'
  BY ClientKept, WireKept, SockKept, RequestKept, ServerKept
     DEF TypeInv, ClientUser, InCall, AskFile, PushOwn, AskCommand, SetReady, CallReturns
<1> USE DEF TypeInv, UserStep
<1>1. ASSUME NEW f \in Files, AskFile(f) PROVE UserTypes' /\ SlotTypes'
  <2>1. Packet("play_req", f, 0) \in Packets /\ FileKnown(Packet("play_req", f, 0))
    BY PacketsMade DEF PacketTypes, FileKnown, Packet
  <2>2. SlotTypes'
    BY <1>1, <2>1 DEF AskFile, SlotTypes
  <2>3. UserTypes'
    BY <1>1, CallsAssumption DEF AskFile, UserTypes
  <2> QED
    BY <2>2, <2>3
<1>2. CASE PushOwn
  BY <1>2, SlotKept DEF PushOwn, UserTypes
<1>3. ASSUME NEW c \in ClientCommands, AskCommand(c) PROVE UserTypes' /\ SlotTypes'
  <2>1. Command(c) \in Packets /\ FileKnown(Command(c))
    BY PacketsMade, CommandsAssumption DEF Command, FileKnown
  <2>2. SlotTypes'
    BY <1>3, <2>1 DEF AskCommand, SlotTypes
  <2>3. UserTypes'
    BY <1>3, CallsAssumption DEF AskCommand, UserTypes
  <2> QED
    BY <2>2, <2>3
<1>4. CASE SetReady
  BY <1>4 DEF SetReady, UserTypes, SlotTypes, FileKnown
<1>5. CASE CallReturns
  BY <1>5, SlotKept DEF CallReturns, UserTypes
<1> QED
  BY <1>1, <1>2, <1>3, <1>4, <1>5 DEF ClientUser, InCall

(* The client's socket thread (start_client, parse_packet). *)
LEMMA TypeClient == TypeInv /\ ClientSocket => TypeInv'
<1> SUFFICES ASSUME TypeInv, ClientSocket PROVE UserTypes' /\ SlotTypes' /\ ClientTypes' /\ WireTypes'
  BY SockKept, RequestKept, ServerKept
     DEF TypeInv, ClientSocket, ClientRecv, ClientSend, ClientSkip, BeginTransfer, WriteError, SendError, SendChunk
<1> USE DEF TypeInv, ClientStep
<1>1. CASE ClientRecv
  <2>1. c_got' \in Packets /\ s2c' \in Seq(Packets)
    <3>1. CASE s2c # <<>> /\ c_got' = Head(s2c) /\ s2c' = Tail(s2c)
      BY <3>1 DEF WireTypes
    <3>2. CASE c_got' = Nothing /\ UNCHANGED s2c
      BY <3>2, PacketsMade DEF WireTypes
    <3> QED
      BY <1>1, <3>1, <3>2 DEF ClientRecv
  <2> QED
    BY <1>1, <2>1, UserKept, SlotKept DEF ClientRecv, ClientTypes, WireTypes, FileKnown
<1>2. CASE ClientSend
  <2>1. UserTypes' /\ ClientTypes'
    BY <1>2, UserKept DEF ClientSend, ClientTypes
  <2>2. CASE c_ready
    <3>1. SlotTypes'
      <4>1. c_buf' = Zeroed /\ c_ready' = FALSE
        BY <1>2, <2>2 DEF ClientSend
      <4>2. Zeroed \in Packets /\ FileKnown(Zeroed)
        BY PacketsMade DEF FileKnown, Zeroed, Command
      <4> QED
        BY <4>1, <4>2 DEF SlotTypes, FileKnown
    <3>2. WireTypes'
      BY <1>2, <2>2, SMTT(30) DEF ClientSend, SlotTypes, WireTypes, FileKnown
    <3> QED
      BY <2>1, <3>1, <3>2
  <2>3. CASE ~c_ready
    BY <1>2, <2>1, <2>3, SlotKept, WireKept DEF ClientSend
  <2> QED
    BY <2>2, <2>3
<1>3. CASE ClientSkip
  BY <1>3, PacketsMade, UserKept, SlotKept, WireKept DEF ClientSkip, ClientTypes
<1>4. CASE BeginTransfer
  <2>1. c_queue' \in Seq(Files)
    BY <1>4 DEF BeginTransfer, UserTypes
  <2>2. UserTypes'
    BY <1>4, <2>1 DEF BeginTransfer, UserTypes, userVars
  <2>4. c_got.file \in Files \cup {NULL}
    BY DEF ClientTypes, Packets
  <2>3. ClientTypes'
    BY <1>4, <2>4 DEF BeginTransfer, ClientTypes
  <2> QED
    BY <1>4, <2>2, <2>3, SlotKept, WireKept DEF BeginTransfer
<1>5. CASE WriteError
  <2>1. c_buf' = [c_buf EXCEPT !.type = "missing"] /\ c_buf' \in Packets
    BY <1>5, PacketsMade DEF WriteError, SlotTypes
  <2>2. c_buf'.type = "missing"
    BY <2>1 DEF SlotTypes, Packets
  <2>3. SlotTypes'
    BY <1>5, <2>1, <2>2 DEF WriteError, SlotTypes, FileKnown
  <2> QED
    BY <1>5, <2>3, UserKept, WireKept DEF WriteError, ClientTypes
<1>6. CASE SendError
  <2>1. WireTypes'
    BY <1>6 DEF SendError, WireTypes, SlotTypes, FileKnown
  <2> QED
    BY <1>6, <2>1, PacketsMade, UserKept, SlotKept DEF SendError, ClientTypes
<1>7. CASE SendChunk
  <2> DEFINE p == Packet(Kind(c_got.file, index), c_got.file, index)
  <2>1. Kind(c_got.file, index) \in {"start", "middle", "end"}
    BY DEF Kind
  <2>2. c_got.file \in Files \cup {NULL} /\ index \in Nat
    BY DEF ClientTypes, Packets
  <2>3. p \in Packets /\ FileKnown(p)
    BY <2>1, <2>2, PacketsMade DEF PacketTypes, Packet, FileKnown
  <2> HIDE DEF p
  <2>4. c2s' = Append(c2s, p) /\ UNCHANGED s2c
    BY <1>7 DEF SendChunk, p
  <2>5. WireTypes'
    BY <2>3, <2>4 DEF WireTypes, FileKnown
  <2>6. ClientTypes'
    BY <1>7, PacketsMade DEF SendChunk, ClientTypes
  <2> QED
    BY <1>7, <2>5, <2>6, UserKept, SlotKept DEF SendChunk
<1> QED
  BY <1>1, <1>2, <1>3, <1>4, <1>5, <1>6, <1>7 DEF ClientSocket

(* The server's socket thread (start_server, parse_packet). *)
LEMMA TypeServer == TypeInv /\ ServerSocket => TypeInv'
<1> SUFFICES ASSUME TypeInv, ServerSocket PROVE ServerTypes' /\ WireTypes' /\ SockTypes' /\ RequestTypes'
  BY UserKept, SlotKept, ClientKept
     DEF TypeInv, ServerSocket, ServerRecv, ServerSend, ParseNothing, ParsePlay, ParsePause, ParseSkip, SkipDone,
         ParsePlayReq, ParseStart, ParseMiddle, ParseEnd, ParseMissing, ParseChunk, Parse
<1> USE DEF TypeInv, ServerStep
<1>1. CASE ServerRecv
  <2>1. CASE c2s # <<>> /\ s_got' = Head(c2s) /\ c2s' = Tail(c2s)
    <3>1. s_got' = c2s[1] /\ 1 \in 1 .. Len(c2s) /\ c2s' \in Seq(Packets) /\ Len(c2s') = Len(c2s) - 1
      BY <2>1 DEF WireTypes
    <3>2. \A i \in 1 .. Len(c2s') : c2s'[i] = c2s[i + 1] /\ i + 1 \in 1 .. Len(c2s)
      BY <2>1, <3>1 DEF WireTypes
    <3>3. s_got' \in Packets /\ FileKnown(s_got)'
      BY <3>1 DEF WireTypes, FileKnown
    <3>4. \A i \in 1 .. Len(c2s') : FileKnown(c2s[i])'
      BY <3>2 DEF WireTypes, FileKnown
    <3> QED
      BY <1>1, <3>1, <3>3, <3>4, ServerKept, RequestKept DEF ServerRecv, WireTypes, SockTypes
  <2>2. CASE s_got' = Nothing /\ UNCHANGED c2s
    BY <1>1, <2>2, PacketsMade, WireKept, ServerKept, RequestKept DEF ServerRecv, SockTypes, FileKnown, Nothing
  <2> QED
    BY <1>1, <2>1, <2>2 DEF ServerRecv
<1>2. CASE ServerSend
  <2>1. SockTypes'
    BY <1>2 DEF ServerSend, SockTypes, FileKnown
  <2>2. CASE s_ready
    <3>1. RequestTypes'
      BY <1>2, <2>2, PacketsMade DEF ServerSend, RequestTypes
    <3>2. s2c' \in Seq(Packets) /\ UNCHANGED c2s
      BY <1>2, <2>2 DEF ServerSend, RequestTypes, WireTypes
    <3> QED
      BY <1>2, <2>1, <3>1, <3>2, ServerKept DEF ServerSend, WireTypes, FileKnown
  <2>3. CASE ~s_ready
    BY <1>2, <2>1, <2>3, ServerKept, WireKept, RequestKept DEF ServerSend
  <2> QED
    BY <2>2, <2>3
<1>3. CASE ParseSkip \/ SkipDone
  <2>1. SockTypes'
    BY <1>3, PacketsMade DEF ParseSkip, SkipDone, SockTypes, FileKnown, Nothing
  <2>2. CASE ParseSkip
    BY <2>1, <2>2, QueueKept, HeapKept, ThreadKept, WireKept, RequestKept
       DEF ParseSkip, ServerTypes, FlagTypes
  <2>3. CASE SkipDone
    BY <2>1, <2>3, ServerKept, WireKept, RequestKept DEF SkipDone
  <2> QED
    BY <1>3, <2>2, <2>3
<1>4. ASSUME NEW type, Parse(type) PROVE SockTypes' /\ WireTypes' /\ RequestTypes'
  BY <1>4, PacketsMade, WireKept, RequestKept DEF Parse, SockTypes, FileKnown, Nothing
<1>5. CASE ParseNothing
  BY <1>4, <1>5, ServerKept DEF ParseNothing
<1>6. CASE ParsePlay
  <2>1. FlagTypes'
    BY <1>6 DEF ParsePlay, ServerTypes, FlagTypes
  <2> QED
    BY <1>4, <1>6, <2>1, QueueKept, HeapKept, ThreadKept DEF ParsePlay, ServerTypes
<1>7. CASE ParsePause
  <2>1. FlagTypes'
    BY <1>7 DEF ParsePause, ServerTypes, FlagTypes
  <2> QED
    BY <1>4, <1>7, <2>1, QueueKept, HeapKept, ThreadKept DEF ParsePause, ServerTypes
<1>8. CASE ParsePlayReq
  <2>1. [filename |-> s_got.file, src |-> Client] \in RemoteEntries
    BY <1>8 DEF ParsePlayReq, Parse, RemoteEntries, SockTypes, FileKnown
  <2>2. QueueTypes'
    BY <1>8, <2>1 DEF ParsePlayReq, ServerTypes, QueueTypes
  <2> QED
    BY <1>4, <1>8, <2>2, FlagKept, HeapKept, ThreadKept DEF ParsePlayReq, ServerTypes
<1>9. CASE ParseStart
  <2>1. s_got.file \in Files \cup {NULL}
    BY DEF SockTypes, Packets
  <2>2. HeapTypes'
    BY <1>9, <2>1 DEF ParseStart, ServerTypes, HeapTypes
  <2> QED
    BY <1>4, <1>9, <2>2, FlagKept, QueueKept, ThreadKept DEF ParseStart, ServerTypes
<1>10. CASE ParseMiddle \/ ParseEnd
  <2>1. s_got.index \in Nat
    BY DEF SockTypes, Packets
  <2>2. ParseChunk
    BY <1>10 DEF ParseMiddle, ParseEnd
  <2>3. HeapTypes'
    BY <2>1, <2>2 DEF ParseChunk, ServerTypes, HeapTypes, heapVars
  <2>4. FlagTypes'
    <3>1. CASE ParseMiddle
      BY <3>1, FlagKept DEF ParseMiddle, ParseChunk, ServerTypes, flags
    <3>2. CASE ParseEnd
      BY <3>2 DEF ParseEnd, ParseChunk, ServerTypes, FlagTypes
    <3> QED
      BY <1>10, <3>1, <3>2
  <2>5. SockTypes' /\ WireTypes' /\ RequestTypes'
    BY <1>4, <1>10 DEF ParseMiddle, ParseEnd
  <2> QED
    BY <2>2, <2>3, <2>4, <2>5, QueueKept, ThreadKept DEF ParseChunk, ServerTypes
<1>11. CASE ParseMissing
  <2>1. FlagTypes'
    BY <1>11 DEF ParseMissing, ServerTypes, FlagTypes
  <2>2. HeapTypes'
    BY <1>11 DEF ParseMissing, ServerTypes, HeapTypes
  <2> QED
    BY <1>4, <1>11, <2>1, <2>2, QueueKept, ThreadKept DEF ParseMissing, ServerTypes
<1> QED
  BY <1>1, <1>2, <1>3, <1>5, <1>6, <1>7, <1>8, <1>9, <1>10, <1>11 DEF ServerSocket

(* The handler (audio_handler), both branches. *)
LEMMA TypeHandler == TypeInv /\ (RemoteHandler \/ LocalHandler) => TypeInv'
<1> SUFFICES ASSUME TypeInv, RemoteHandler \/ LocalHandler PROVE TypeInv'
  OBVIOUS
<1> SUFFICES ServerTypes' /\ RequestTypes'
  <2>1. UNCHANGED <<c_queue, userVars, slotVars, clientVars, c2s, s2c, sockVars>>
    <3>1. CASE RemoteHandler
      BY <3>1 DEF RemoteHandler, WriteRequest, SetRequestReady, RequestSent, SongReady, StartRemote, streamVars,
                  slotVars, userVars, clientVars, sockVars
    <3>2. CASE LocalHandler
      BY <3>2 DEF LocalHandler, streamVars
    <3> QED
      BY <3>1, <3>2
  <2> QED
    BY <2>1, UserKept, SlotKept, ClientKept, WireKept, SockKept DEF TypeInv
<1> USE DEF TypeInv, ServerTypes, HandlerStep, RemotePC, HandlerPC
<1>1. CASE WriteRequest
  <2>1. front.filename \in Files
    BY <1>1 DEF WriteRequest, RemoteEntries, ThreadTypes
  <2>2. Packet("file_req", front.filename, 0) \in Packets
    BY <2>1, PacketsMade DEF PacketTypes
  <2>3. RequestTypes'
    BY <1>1, <2>2 DEF WriteRequest, RequestTypes
  <2>4. ThreadTypes'
    BY <1>1 DEF WriteRequest, ThreadTypes, threadVars
  <2> QED
    BY <1>1, <2>3, <2>4, FlagKept, QueueKept, HeapKept DEF WriteRequest
<1>2. CASE SetRequestReady
  <2>1. RequestTypes'
    BY <1>2 DEF SetRequestReady, RequestTypes
  <2>2. ThreadTypes'
    BY <1>2 DEF SetRequestReady, ThreadTypes, threadVars
  <2> QED
    BY <1>2, <2>1, <2>2, FlagKept, QueueKept, HeapKept DEF SetRequestReady
<1>3. ASSUME UNCHANGED <<flags, queueVars, heapVars, received, serverVars>>, ThreadTypes'
      PROVE  ServerTypes' /\ RequestTypes'
  BY <1>3, FlagKept, QueueKept, HeapKept, RequestKept
<1>4. CASE RequestSent
  <2>1. ThreadTypes'
    BY <1>4 DEF RequestSent, ThreadTypes, threadVars
  <2> QED
    BY <1>3, <1>4, <2>1 DEF RequestSent, streamVars
<1>5. CASE SongReady
  <2>1. ThreadTypes'
    BY <1>5 DEF SongReady, ThreadTypes, threadVars
  <2> QED
    BY <1>3, <1>5, <2>1 DEF SongReady, streamVars
<1>6. ASSUME NEW t \in Threads, StartAudioThread(t)
      PROVE  tpc' \in [Threads -> ThreadPC] /\ param' \in [Threads -> Buffers \cup {NULL}]
  BY <1>6 DEF StartAudioThread, ThreadTypes, HeapTypes, ThreadPC
<1>7. CASE StartRemote
  <2>1. ThreadTypes'
    BY <1>6, <1>7 DEF StartRemote, ThreadTypes
  <2> QED
    BY <1>3, <1>7, <2>1 DEF StartRemote, streamVars
<1>8. CASE LocalHandler /\ CreateThread
  <2>1. ThreadTypes'
    BY <1>6, <1>8 DEF CreateThread, ThreadTypes
  <2> QED
    BY <1>3, <1>8, <2>1 DEF LocalHandler, CreateThread, streamVars
<1>9. CASE LocalHandler /\ (CheckRunning \/ CheckQueue \/ EndSleep \/ RejectFile)
  <2>1. ThreadTypes'
    BY <1>9 DEF CheckRunning, CheckQueue, EndSleep, RejectFile, ThreadTypes, threadVars
  <2>2. UNCHANGED <<flags, queueVars, heapVars, received, serverVars>>
    BY <1>9 DEF CheckRunning, CheckQueue, EndSleep, RejectFile, LocalHandler, streamVars
  <2> QED
    BY <2>1, <2>2, FlagKept, QueueKept, HeapKept, RequestKept
<1>10. CASE LocalHandler /\ SetPlay
  <2>1. FlagTypes'
    BY <1>10 DEF SetPlay, FlagTypes
  <2>2. ThreadTypes'
    BY <1>10 DEF SetPlay, ThreadTypes, threadVars
  <2>3. UNCHANGED <<queueVars, heapVars, received, serverVars>>
    BY <1>10 DEF SetPlay, LocalHandler, streamVars
  <2> QED
    BY <2>1, <2>2, <2>3, QueueKept, HeapKept, RequestKept
<1>11. CASE LocalHandler /\ PopFront
  <2>1. Head(file_queue) \in RemoteEntries /\ Tail(file_queue) \in Seq(RemoteEntries)
    BY <1>11 DEF PopFront, QueueTypes
  <2>2. QueueTypes' /\ ThreadTypes'
    BY <1>11, <2>1 DEF PopFront, QueueTypes, ThreadTypes, threadVars
  <2>3. UNCHANGED <<flags, heapVars, received, serverVars>>
    BY <1>11 DEF PopFront, LocalHandler, streamVars
  <2> QED
    BY <2>2, <2>3, FlagKept, HeapKept, RequestKept
<1>12. CASE LocalHandler /\ LoadFile
  <2>1. front.filename \in Files
    BY <1>12, FilesAssumption DEF LoadFile
  <2>2. HeapTypes'
    BY <1>12, <2>1 DEF LoadFile, HeapTypes, LocalHandler, streamVars
  <2>3. ThreadTypes'
    BY <1>12 DEF LoadFile, ThreadTypes, threadVars
  <2>4. UNCHANGED <<flags, queueVars, serverVars>>
    BY <1>12 DEF LoadFile, LocalHandler, streamVars
  <2> QED
    BY <2>2, <2>3, <2>4, FlagKept, QueueKept, RequestKept
<1>13. CASE RemoteHandler
  BY <1>1, <1>2, <1>4, <1>5, <1>7, <1>13 DEF RemoteHandler
<1>15. CASE LocalHandler /\ RejectData
  <2>1. front.filename \in Files
    BY <1>15, FilesAssumption DEF RejectData
  <2>2. HeapTypes'
    BY <1>15, <2>1 DEF RejectData, HeapTypes, LocalHandler, streamVars
  <2>3. ThreadTypes'
    BY <1>15 DEF RejectData, ThreadTypes, threadVars
  <2>4. UNCHANGED <<flags, queueVars, serverVars>>
    BY <1>15 DEF RejectData, LocalHandler, streamVars
  <2> QED
    BY <2>2, <2>3, <2>4, FlagKept, QueueKept, RequestKept
<1>14. CASE LocalHandler
  <2>1. Handler
    BY <1>14 DEF LocalHandler
  <2> QED
    BY <1>8, <1>9, <1>10, <1>11, <1>12, <1>14, <1>15, <2>1 DEF Handler
<1> QED
  BY <1>13, <1>14

(* The server's user. *)
LEMMA TypeServerUser == TypeInv /\ ServerUser => TypeInv'
<1> SUFFICES ASSUME TypeInv, ServerUser PROVE TypeInv'
  OBVIOUS
<1> SUFFICES FlagTypes' /\ QueueTypes'
  <2>1. UNCHANGED <<streamVars, heapVars, handlerVars, threadVars>>
    <3>1. UNCHANGED streamVars /\ User
      BY DEF ServerUser
    <3>2. UNCHANGED <<heapVars, handlerVars, threadVars>>
      BY <3>1 DEF User, TurntableQueueFile, TurntablePauseAudio, TurntableResumeAudio, TurntableSkipAudio
    <3> QED
      BY <3>1, <3>2
  <2> QED
    BY <2>1, UserKept, SlotKept, ClientKept, WireKept, SockKept, RequestKept, HeapKept, ThreadKept
       DEF TypeInv, ServerTypes, streamVars
<1> USE DEF TypeInv, ServerTypes
<1>1. ASSUME NEW f \in Files, TurntableQueueFile(f) PROVE FlagTypes' /\ QueueTypes'
  <2>1. [filename |-> f, src |-> Local] \in RemoteEntries
    BY DEF RemoteEntries
  <2>2. QueueTypes'
    BY <1>1, <2>1, BoundAssumption DEF TurntableQueueFile, QueueTypes
  <2> QED
    BY <1>1, <2>2, FlagKept DEF TurntableQueueFile
<1>2. CASE TurntablePauseAudio
  BY <1>2, QueueKept DEF TurntablePauseAudio, FlagTypes
<1>3. CASE TurntableResumeAudio
  BY <1>3, QueueKept DEF TurntableResumeAudio, FlagTypes
<1>4. CASE TurntableSkipAudio
  BY <1>4, QueueKept DEF TurntableSkipAudio, FlagTypes
<1> QED
  BY <1>1, <1>2, <1>3, <1>4 DEF ServerUser, User

(* The audio threads. *)
LEMMA TypeAudio == ASSUME TypeInv, NEW t \in Threads, ServerAudio(t) PROVE TypeInv'
<1> SUFFICES FlagTypes' /\ HeapTypes' /\ ThreadTypes'
  <2>1. UNCHANGED <<streamVars, queueVars>>
    BY DEF ServerAudio, AudioThread, BeginAudio, PlatformStop, PlatformDone, FreeAudio, ClearStop, ClearPlay, ExitAudio
  <2> QED
    BY <2>1, UserKept, SlotKept, ClientKept, WireKept, SockKept, RequestKept, QueueKept
       DEF TypeInv, ServerTypes, streamVars
<1> USE DEF TypeInv, ServerTypes, ThreadStep
<1>1. ThreadTypes'
  <2>1. UNCHANGED handlerVars
    BY DEF ServerAudio, AudioThread, BeginAudio, PlatformStop, PlatformDone, FreeAudio, ClearStop, ClearPlay, ExitAudio
  <2>2. tpc' \in [Threads -> ThreadPC]
    BY DEF ServerAudio, AudioThread, BeginAudio, PlatformStop, PlatformDone, FreeAudio, ClearStop, ClearPlay, ExitAudio,
           ThreadTypes, ThreadPC
  <2>3. param' \in [Threads -> Buffers \cup {NULL}]
    BY DEF ServerAudio, AudioThread, BeginAudio, PlatformStop, PlatformDone, FreeAudio, ClearStop, ClearPlay, ExitAudio,
           ThreadTypes
  <2> QED
    BY <2>1, <2>2, <2>3 DEF ThreadTypes, handlerVars
<1>2. HeapTypes'
  <2>1. UNCHANGED <<audio, content, received>> /\ live' \subseteq live
    BY DEF ServerAudio, AudioThread, BeginAudio, PlatformStop, PlatformDone, FreeAudio, ClearStop, ClearPlay, ExitAudio,
           heapVars, streamVars
  <2> QED
    BY <2>1 DEF HeapTypes
<1>3. CASE BeginAudio(t)
  BY <1>1, <1>2, <1>3 DEF BeginAudio, FlagTypes
<1>4. CASE PlatformStop(t) \/ PlatformDone(t) \/ FreeAudio(t)
  BY <1>1, <1>2, <1>4, FlagKept DEF PlatformStop, PlatformDone, FreeAudio
<1>5. CASE ClearStop(t)
  BY <1>1, <1>2, <1>5 DEF ClearStop, FlagTypes
<1>6. CASE ClearPlay(t)
  BY <1>1, <1>2, <1>6 DEF ClearPlay, FlagTypes
<1>7. CASE ExitAudio(t)
  BY <1>1, <1>2, <1>7 DEF ExitAudio, FlagTypes
<1> QED
  BY <1>3, <1>4, <1>5, <1>6, <1>7 DEF ServerAudio, AudioThread

(* No step breaks a type. *)
LEMMA TypeStep == TypeInv /\ [StreamNext]_svars => TypeInv'
<1> SUFFICES ASSUME TypeInv, [StreamNext]_svars PROVE TypeInv'
  OBVIOUS
<1>1. CASE UNCHANGED svars
  BY <1>1, UserKept, SlotKept, ClientKept, WireKept, SockKept, RequestKept, ServerKept
     DEF TypeInv, svars, streamVars
<1> QED
  BY <1>1, TypeUser, TypeClient, TypeServer, TypeHandler, TypeServerUser, TypeAudio DEF StreamNext

(***************************************************************************)
(* Every variable of both programs always has its type, without an         *)
(* assumption on files, commands or time.                                  *)
(***************************************************************************)
THEOREM StreamTypes == StreamSpec => []StreamTypeOK
<1>1. StreamSpec => []TypeInv
  BY TypeInit, TypeStep, PTL DEF StreamSpec
<1> QED
  BY <1>1, TypesTogether, PTL

-----------------------------------------------------------------------------
(***************************************************************************)
(* One song at a time on a server that also plays songs of its client.     *)
(* The argument is that of PlayerProofs; the handler is now past its check *)
(* for as long as the client takes to send a file, and the socket thread   *)
(* writes the flags meanwhile, which keeps no thread from showing in       *)
(* handler_thread_is_running.                                              *)
(***************************************************************************)
Busy == {"count", "pop", "load", "create", "ready", "sent", "await", "start"}

HandlerAlone == hpc \in Busy => \A t \in Threads : ~Exists(t)
FlagShowsThread == \A t \in Threads : tpc[t] \notin {"none", "begin"} => handler_thread_is_running
NewThreadHoldsHandler == \A t \in Threads : tpc[t] = "begin" => hpc \in {"play", "sleep"}

SerialInv == OneSongAtATime /\ HandlerAlone /\ FlagShowsThread /\ NewThreadHoldsHandler

(* What the clients and the socket threads do is not seen by SerialInv. *)
LEMMA SerialKept == SerialInv /\ UNCHANGED <<tpc, hpc, handler_thread_is_running>> => SerialInv'
  BY DEF SerialInv, OneSongAtATime, HandlerAlone, FlagShowsThread, NewThreadHoldsHandler, Exists

(***************************************************************************)
(* The handler's steps (audio_handler); the one at the end of its sleep    *)
(* needs the timing assumption.                                            *)
(***************************************************************************)
LEMMA SerialHandler ==
  ASSUME PromptStart, TypeInv, SerialInv, RemoteHandler \/ LocalHandler
  PROVE  SerialInv'
<1> USE DEF TypeInv, ServerTypes, ThreadTypes, SerialInv, OneSongAtATime, HandlerAlone, FlagShowsThread,
            NewThreadHoldsHandler, Exists, Busy, HandlerStep
<1>1. ASSUME hpc \in Busy, NEW t \in Threads, StartAudioThread(t), hpc' \in {"play", "sleep"},
             handler_thread_is_running' = handler_thread_is_running
      PROVE  SerialInv'
  BY <1>1 DEF StartAudioThread
<1>2. ASSUME hpc \in Busy, UNCHANGED <<tpc, handler_thread_is_running>> PROVE SerialInv'
  BY <1>2
<1>3. CASE WriteRequest
  BY <1>2, <1>3 DEF WriteRequest, flags, threadVars
<1>4. CASE SetRequestReady
  BY <1>2, <1>4 DEF SetRequestReady, flags, threadVars
<1>5. CASE RequestSent
  BY <1>2, <1>5 DEF RequestSent, flags, threadVars
<1>6. CASE SongReady
  BY <1>2, <1>6 DEF SongReady, flags, threadVars
<1>7. CASE StartRemote
  BY <1>1, <1>7 DEF StartRemote, flags
<1>8. CASE CheckRunning
  BY <1>8 DEF CheckRunning, flags, threadVars
<1>9. CASE CheckQueue
  BY <1>2, <1>9 DEF CheckQueue, flags, threadVars
<1>10. CASE PopFront
  BY <1>2, <1>10 DEF PopFront, flags, threadVars
<1>11. CASE RejectFile \/ RejectData
  BY <1>2, <1>11 DEF RejectFile, RejectData, flags, threadVars
<1>12. CASE LoadFile
  BY <1>2, <1>12 DEF LoadFile, flags, threadVars
<1>13. CASE CreateThread
  BY <1>1, <1>13 DEF CreateThread, flags
<1>14. CASE SetPlay
  BY <1>14 DEF SetPlay, threadVars
<1>15. CASE EndSleep
  BY <1>15 DEF EndSleep, flags, threadVars
<1>16. CASE RemoteHandler
  BY <1>3, <1>4, <1>5, <1>6, <1>7, <1>16 DEF RemoteHandler
<1>17. CASE LocalHandler
  <2>1. Handler
    BY <1>17 DEF LocalHandler
  <2> QED
    BY <1>8, <1>9, <1>10, <1>11, <1>12, <1>13, <1>14, <1>15, <2>1 DEF Handler
<1> QED
  BY <1>16, <1>17

(* The steps of an audio thread (start_audio). *)
LEMMA SerialAudio == ASSUME TypeInv, SerialInv, NEW t \in Threads, ServerAudio(t) PROVE SerialInv'
<1> USE DEF TypeInv, ServerTypes, ThreadTypes, SerialInv, OneSongAtATime, HandlerAlone, FlagShowsThread,
            NewThreadHoldsHandler, Exists, Busy, ThreadStep, handlerVars
<1>1. ASSUME tpc[t] \notin {"none", "begin"}, UNCHANGED <<hpc, handler_thread_is_running>>,
             NEW to \in {"free", "unstop", "unplay", "exit"}, tpc' = [tpc EXCEPT ![t] = to]
      PROVE  SerialInv'
  BY <1>1
<1>2. CASE BeginAudio(t)
  BY <1>2 DEF BeginAudio
<1>3. CASE PlatformStop(t)
  BY <1>1, <1>3 DEF PlatformStop, flags
<1>4. CASE PlatformDone(t)
  BY <1>1, <1>4 DEF PlatformDone, flags
<1>5. CASE FreeAudio(t)
  BY <1>1, <1>5 DEF FreeAudio, flags
<1>6. CASE ClearStop(t)
  BY <1>1, <1>6 DEF ClearStop
<1>7. CASE ClearPlay(t)
  BY <1>1, <1>7 DEF ClearPlay
<1>8. CASE ExitAudio(t)
  BY <1>8 DEF ExitAudio
<1>9. AudioThread(t)
  BY DEF ServerAudio
<1> QED
  BY <1>2, <1>3, <1>4, <1>5, <1>6, <1>7, <1>8, <1>9 DEF AudioThread

(* What every other thread leaves alone. *)
LEMMA OthersKeepThreads ==
  ClientUser \/ ClientSocket \/ ServerSocket \/ ServerUser => UNCHANGED <<tpc, param, hpc, front, handler_thread_is_running>>
<1>1. ASSUME UNCHANGED vars PROVE UNCHANGED <<tpc, param, hpc, front, handler_thread_is_running>>
  BY <1>1 DEF vars, flags, handlerVars, threadVars
<1>2. CASE ClientUser
  BY <1>1, <1>2 DEF ClientUser, InCall, AskFile, PushOwn, AskCommand, SetReady, CallReturns
<1>3. CASE ClientSocket
  BY <1>1, <1>3 DEF ClientSocket, ClientRecv, ClientSend, ClientSkip, BeginTransfer, WriteError, SendError, SendChunk
<1>4. CASE ServerSocket
  <2> USE DEF flags, handlerVars, threadVars
  <2>1. CASE ServerRecv \/ ServerSend \/ ParseNothing \/ SkipDone
    BY <1>1, <2>1 DEF ServerRecv, ServerSend, ParseNothing, SkipDone
  <2>2. CASE ParsePlay \/ ParsePause \/ ParseSkip \/ ParsePlayReq
    BY <2>2 DEF ParsePlay, ParsePause, ParseSkip, ParsePlayReq
  <2>3. CASE ParseStart \/ ParseMiddle \/ ParseEnd \/ ParseMissing
    BY <2>3 DEF ParseStart, ParseMiddle, ParseEnd, ParseChunk, ParseMissing
  <2> QED
    BY <1>4, <2>1, <2>2, <2>3 DEF ServerSocket
<1>5. CASE ServerUser
  <2>1. User
    BY <1>5 DEF ServerUser
  <2> QED
    BY <2>1 DEF User, TurntableQueueFile, TurntablePauseAudio, TurntableResumeAudio, TurntableSkipAudio,
                flags, handlerVars, threadVars
<1> QED
  BY <1>2, <1>3, <1>4, <1>5

(* All together. *)
LEMMA SerialStepAll == ASSUME PromptStart PROVE TypeInv /\ SerialInv /\ [StreamNext]_svars => SerialInv'
<1> SUFFICES ASSUME TypeInv, SerialInv, [StreamNext]_svars PROVE SerialInv'
  OBVIOUS
<1>1. CASE RemoteHandler
  BY <1>1, SerialHandler
<1>2. CASE LocalHandler
  BY <1>2, SerialHandler
<1>3. ASSUME NEW t \in Threads, ServerAudio(t) PROVE SerialInv'
  BY <1>3, SerialAudio
<1>4. CASE ClientUser \/ ClientSocket \/ ServerSocket \/ ServerUser
  BY <1>4, OthersKeepThreads, SerialKept
<1>5. CASE UNCHANGED svars
  BY <1>5, SerialKept DEF svars, vars, flags, handlerVars, threadVars
<1> QED
  BY <1>1, <1>2, <1>3, <1>4, <1>5 DEF StreamNext

(***************************************************************************)
(* No two audio threads exist together, whatever the users of both         *)
(* programs do and however long a transfer takes, provided that a created  *)
(* thread starts before the handler's sleep ends.                          *)
(***************************************************************************)
THEOREM StreamSerial == ASSUME PromptStart PROVE StreamSpec => []OneSongAtATime
<1>1. StreamInit => TypeInv /\ SerialInv
  BY TypeInit DEF StreamInit, Init, SerialInv, OneSongAtATime, HandlerAlone, FlagShowsThread,
                  NewThreadHoldsHandler, Exists, Busy
<1>2. (TypeInv /\ SerialInv) /\ [StreamNext]_svars => (TypeInv /\ SerialInv)'
  BY TypeStep, SerialStepAll
<1>3. SerialInv => OneSongAtATime
  BY DEF SerialInv
<1> QED
  BY <1>1, <1>2, <1>3, PTL DEF StreamSpec

-----------------------------------------------------------------------------
(***************************************************************************)
(* Complete songs.  The assumptions are those without which TLC finds a    *)
(* song begun too early: no other code sets should_play (a song of the     *)
(* server itself, a resume of either user), and every file has a last      *)
(* packet, which one of a single packet has not.                           *)
(***************************************************************************)
WholeFiles ==
  /\ PromptStart /\ Playable = {}
  /\ "resume" \notin Commands /\ "play" \notin ClientCommands
  /\ \A f \in Files : Chunks[f] >= 2

IsChunk(p) == p.type \in {"start", "middle", "end"}
Orders == {"play_req", "pause", "skip"}
Requesting == hpc \in {"sent", "await"}
Size == Chunks[front.filename]
Request == Packet("file_req", front.filename, 0)

\* A packet of the requested file.
Sound(p) == /\ Requesting /\ p.file = front.filename
            /\ p.index \in 0 .. Size - 1 /\ p.type = Kind(front.filename, p.index)

NoChunks == ~IsChunk(s_got) /\ \A i \in 1 .. Len(c2s) : ~IsChunk(c2s[i])

\* Neither a request nor an answer is under way.
Quiet == ~s_ready /\ s2c = <<>> /\ c_got.type = "none" /\ NoChunks

\* The user's buffer holds an order, which waits for the socket thread.
UserInv ==
  /\ upc \in {"push", "ready"} \/ c_ready => c_buf.type \in Orders
  /\ c_ready => upc = "spin"

\* The client is told of, and sends, the file the handler waits for.
ClientInv ==
  /\ cpc \notin {"error", "flush"}
  /\ c_got.type \in {"none", "file_req"}
  /\ c_got.type = "file_req" => cpc \in {"send", "parse", "transfer"} /\ Requesting /\ c_got.file = front.filename
  /\ cpc = "transfer" => c_got.type = "file_req" /\ index < Size

RequestInv ==
  /\ hpc \notin {"create", "play"}
  /\ hpc = "ready" \/ s_ready => s_buf = Request
  /\ s_ready => hpc = "sent"
  /\ s2c # <<>> => Requesting /\ s2c = <<Request>>

WireInv ==
  /\ \A i \in 1 .. Len(c2s) : c2s[i].type \in Orders \/ Sound(c2s[i])
  /\ s_got.type \in Orders \cup {"none"} \/ Sound(s_got)
  /\ spc = "recv" => s_got.type = "none"
  /\ spc = "skipping" => s_got.type = "skip"

\* There is one request, and it is in one place, or else an answer to it.
TokenInv ==
  /\ s_ready => s2c = <<>>
  /\ s_ready \/ s2c # <<>> => c_got.type = "none" /\ NoChunks
  /\ c_got.type = "file_req" /\ cpc # "transfer" => NoChunks

\* The packets of the file come in the order of their indices.
OrderInv ==
  /\ \A i, j \in 1 .. Len(c2s) : i < j /\ IsChunk(c2s[i]) /\ IsChunk(c2s[j]) => c2s[i].index < c2s[j].index
  /\ \A i \in 1 .. Len(c2s) : IsChunk(s_got) /\ IsChunk(c2s[i]) => s_got.index < c2s[i].index
  /\ \A i \in 1 .. Len(c2s) : cpc = "transfer" /\ IsChunk(c2s[i]) => c2s[i].index < index
  /\ cpc = "transfer" /\ IsChunk(s_got) => s_got.index < index

\* Packet k is in the server's hands, on the wire, or still to be sent.
Pending(k) == \/ IsChunk(s_got) /\ s_got.index = k
              \/ \E i \in 1 .. Len(c2s) : IsChunk(c2s[i]) /\ c2s[i].index = k
              \/ cpc = "transfer" /\ index <= k

Held == audio \in live /\ content[audio] = front.filename

\* The buffer was allocated for this file, and has the packets that are not pending.
Partial == /\ ~Pending(0) /\ Held
           /\ received[audio] \subseteq 0 .. Size - 1
           /\ \A k \in 0 .. Size - 1 : Pending(k) \/ k \in received[audio]

DataInv == cpc = "transfer" \/ ~NoChunks => Partial \/ \A k \in 0 .. Size - 1 : Pending(k)

Complete == Held /\ received[audio] = 0 .. Size - 1

\* A thread that has not cleared should_play.
Plays(t) == tpc[t] \in {"begin", "run", "free", "unstop", "unplay"}

PlayInv ==
  /\ should_play => \/ Requesting /\ Quiet /\ Complete
                    \/ hpc = "start"
                    \/ \E t \in Threads : Plays(t)
  /\ hpc = "start" => Quiet /\ Complete

ConnInv == ClientInv /\ RequestInv /\ WireInv /\ TokenInv /\ OrderInv /\ DataInv /\ PlayInv

(* A file the handler waits for has two packets or more. *)
LEMMA SizeKnown ==
  ASSUME WholeFiles, TypeInv, Requesting
  PROVE  front.filename \in Files /\ Size \in Nat /\ Size >= 2
<1>1. front \in RemoteEntries
  BY DEF TypeInv, ServerTypes, ThreadTypes, Requesting
<1> QED
  BY <1>1, ChunksAssumption DEF RemoteEntries, WholeFiles, Size

(* Outside of a request nothing is under way. *)
LEMMA QuietOutside == ASSUME ConnInv, ~Requesting PROVE Quiet /\ cpc # "transfer"
<1>1. c_got.type = "none" /\ cpc # "transfer"
  BY DEF ConnInv, ClientInv
<1>2. s2c = <<>> /\ ~s_ready
  BY DEF ConnInv, RequestInv, Requesting
<1>3. NoChunks
  BY DEF ConnInv, WireInv, NoChunks, Sound, IsChunk, Orders
<1> QED
  BY <1>1, <1>2, <1>3 DEF Quiet

(* ... and it stays so, whatever the handler and an audio thread do there. *)
LEMMA OutsideKept ==
  ASSUME ConnInv, ~Requesting, ~Requesting', UNCHANGED <<clientVars, c2s, s2c, s_ready, sockVars>>,
         hpc' \notin {"create", "play"}, hpc' = "ready" => s_buf' = Request', PlayInv'
  PROVE  ConnInv'
<1>1. Quiet /\ cpc # "transfer"
  BY QuietOutside
<1>2. NoChunks' /\ ~s_ready' /\ s2c' = <<>> /\ c_got'.type = "none" /\ cpc' # "transfer"
  BY <1>1 DEF Quiet, NoChunks, clientVars, sockVars
<1>3. ClientInv'
  BY <1>2 DEF ConnInv, ClientInv, clientVars
<1>4. RequestInv'
  BY <1>2 DEF RequestInv
<1>5. WireInv'
  BY DEF ConnInv, WireInv, Sound, sockVars
<1>6. TokenInv'
  BY <1>2 DEF TokenInv
<1>7. OrderInv'
  BY <1>2 DEF OrderInv, NoChunks
<1>8. DataInv'
  BY <1>2 DEF DataInv
<1> QED
  BY <1>3, <1>4, <1>5, <1>6, <1>7, <1>8 DEF ConnInv

(***************************************************************************)
(* A step that moves no packet of the file, and does not set should_play,  *)
(* keeps the invariant: an order of the client's user is put away at most. *)
(***************************************************************************)
LEMMA ConnKept ==
  ASSUME ConnInv, UNCHANGED <<clientVars, c2s, s2c, serverVars, handlerVars, heapVars, received, tpc>>,
         should_play' => should_play,
         \/ spc' = "parse" /\ s_got' = s_got
         \/ spc' = "skipping" /\ s_got' = s_got /\ s_got.type = "skip"
         \/ UNCHANGED sockVars
         \/ spc' = "recv" /\ ~IsChunk(s_got) /\ s_got' = Nothing
  PROVE  ConnInv'
<1> USE DEF clientVars, serverVars, handlerVars, heapVars, sockVars
<1>1. IsChunk(s_got') <=> IsChunk(s_got)
  BY DEF IsChunk, Nothing
<1>2. IsChunk(s_got) => s_got' = s_got
  BY DEF Nothing
<1>3. NoChunks' <=> NoChunks
  BY <1>1 DEF NoChunks
<1>4. ClientInv' /\ RequestInv'
  BY DEF ConnInv, ClientInv, RequestInv, Requesting, Size, Request
<1>5. WireInv'
  BY DEF ConnInv, WireInv, Sound, Requesting, Size, Nothing
<1>6. TokenInv'
  BY <1>3 DEF ConnInv, TokenInv
<1>7. OrderInv'
  BY <1>1, <1>2 DEF ConnInv, OrderInv
<1>8. \A k : Pending(k)' <=> Pending(k)
  BY <1>1, <1>2 DEF Pending
<1>9. DataInv'
  BY <1>3, <1>8 DEF ConnInv, DataInv, Partial, Held, Size
<1>10. PlayInv'
  BY <1>3 DEF ConnInv, PlayInv, Requesting, Quiet, Complete, Held, Size, Plays
<1> QED
  BY <1>4, <1>5, <1>6, <1>7, <1>9, <1>10 DEF ConnInv

(* The client's user gives orders only (turntable.c). *)
LEMMA ConnUser == ASSUME WholeFiles, TypeInv, UserInv, ConnInv, ClientUser PROVE UserInv' /\ ConnInv'
<1>1. UserInv'
  <2> USE DEF UserInv, UserStep, slotVars
  <2>1. ASSUME NEW f \in Files, AskFile(f) PROVE UserInv'
    BY <2>1 DEF AskFile, Packet, Orders
  <2>2. CASE PushOwn
    BY <2>2 DEF PushOwn
  <2>3. ASSUME NEW c \in ClientCommands, AskCommand(c) PROVE UserInv'
    <3>1. c \in Orders
      BY CommandsAssumption DEF WholeFiles, Orders
    <3> QED
      BY <2>3, <3>1 DEF AskCommand, Command
  <2>4. CASE SetReady
    BY <2>4 DEF SetReady
  <2>5. CASE CallReturns
    BY <2>5 DEF CallReturns
  <2> QED
    BY <2>1, <2>2, <2>3, <2>4, <2>5 DEF ClientUser, InCall
<1>2. UNCHANGED <<vars, clientVars, c2s, s2c, serverVars, sockVars, received>>
  BY DEF ClientUser, InCall, AskFile, PushOwn, AskCommand, SetReady, CallReturns
<1>3. ConnInv'
  BY <1>2, ConnKept DEF vars, flags, threadVars
<1> QED
  BY <1>1, <1>3

(* A request is received, or nothing (start_client). *)
LEMMA ConnClientRecv == ASSUME ConnInv, ClientRecv PROVE ConnInv'
<1> USE DEF ConnInv, ClientRecv, ClientStep, vars, flags, handlerVars, heapVars, threadVars, serverVars, sockVars
<1>1. c_got.type = "none" /\ cpc = "recv" /\ cpc' = "send"
  BY DEF ClientInv
<1>2. NoChunks' <=> NoChunks
  BY DEF NoChunks
<1>3. OrderInv'
  BY <1>1 DEF OrderInv
<1>4. WireInv'
  BY DEF WireInv, Sound, Requesting, Size
<1>5. \A k : Pending(k)' <=> Pending(k)
  BY <1>1 DEF Pending
<1>6. DataInv'
  BY <1>1, <1>2, <1>5 DEF DataInv, Partial, Held, Size
<1>7. CASE s2c # <<>> /\ c_got' = Head(s2c) /\ s2c' = Tail(s2c)
  <2>1. s2c = <<Request>> /\ Requesting /\ NoChunks /\ ~s_ready
    BY <1>7 DEF RequestInv, TokenInv
  <2>2. s2c' = <<>> /\ c_got' = Request
    BY <1>7, <2>1
  <2>3. c_got'.type = "file_req" /\ c_got'.file = front.filename
    BY <2>2 DEF Request, Packet
  <2>4. ClientInv'
    BY <1>1, <2>1, <2>3 DEF ClientInv, Requesting
  <2>5. RequestInv'
    BY <2>1, <2>2 DEF RequestInv, Requesting, Request
  <2>6. TokenInv'
    BY <1>2, <2>1, <2>2 DEF TokenInv
  <2>7. PlayInv'
    BY <1>7 DEF PlayInv, Quiet, Plays
  <2> QED
    BY <1>3, <1>4, <1>6, <2>4, <2>5, <2>6, <2>7
<1>8. CASE c_ready /\ c_got' = Nothing /\ UNCHANGED s2c
  <2>1. c_got'.type = "none"
    BY <1>8 DEF Nothing
  <2>2. ClientInv' /\ RequestInv'
    BY <1>1, <1>8, <2>1 DEF ClientInv, RequestInv, Requesting, Request
  <2>3. TokenInv'
    BY <1>2, <1>8, <2>1 DEF TokenInv
  <2>4. PlayInv'
    BY <1>1, <1>2, <1>8, <2>1 DEF PlayInv, Quiet, Complete, Held, Requesting, Size, Plays
  <2> QED
    BY <1>3, <1>4, <1>6, <2>2, <2>3, <2>4
<1> QED
  BY <1>7, <1>8

(* The order in the buffer is sent, and the buffer zeroed (start_client). *)
LEMMA ConnClientSend == ASSUME TypeInv, UserInv, ConnInv, ClientSend PROVE UserInv' /\ ConnInv'
<1> USE DEF ConnInv, ClientStep, vars, flags, handlerVars, heapVars, threadVars, serverVars, sockVars
<1>1. cpc = "send" /\ cpc' = "parse" /\ UNCHANGED <<c_got, index, s2c, s_buf, s_ready, spc, s_got, vars, received>>
  BY DEF ClientSend
<1>2. c2s \in Seq(Packets)
  BY DEF TypeInv, WireTypes
<1>3. \/ UNCHANGED <<c2s, slotVars>>
      \/ c2s' = Append(c2s, c_buf) /\ c_buf.type \in Orders /\ c_ready' = FALSE
  BY DEF ClientSend, UserInv
<1>4. UserInv'
  BY DEF ClientSend, UserInv, userVars, slotVars
<1>5. /\ \A i \in 1 .. Len(c2s) : i \in 1 .. Len(c2s') /\ c2s'[i] = c2s[i]
      /\ \A i \in 1 .. Len(c2s') : i \in 1 .. Len(c2s) \/ c2s'[i].type \in Orders
  BY <1>2, <1>3
<1>6. \A i \in 1 .. Len(c2s') : IsChunk(c2s'[i]) => i \in 1 .. Len(c2s) /\ c2s'[i] = c2s[i]
  BY <1>5 DEF IsChunk, Orders
<1>7. NoChunks' <=> NoChunks
  BY <1>1, <1>5, <1>6 DEF NoChunks
<1>8. \A k : Pending(k)' <=> Pending(k)
  BY <1>1, <1>5, <1>6 DEF Pending
<1>9. ClientInv' /\ RequestInv'
  BY <1>1 DEF ClientInv, RequestInv, Requesting, Size, Request
<1>10. WireInv'
  BY <1>1, <1>5 DEF WireInv, Sound, Requesting, Size
<1>11. TokenInv'
  BY <1>1, <1>7 DEF TokenInv
<1>12. OrderInv'
  BY <1>1, <1>6 DEF OrderInv
<1>13. DataInv'
  BY <1>1, <1>7, <1>8 DEF DataInv, Partial, Held, Size
<1>14. PlayInv'
  BY <1>1, <1>7 DEF PlayInv, Quiet, Complete, Held, Requesting, Size, Plays
<1> QED
  BY <1>4, <1>9, <1>10, <1>11, <1>12, <1>13, <1>14

(* A request that is not for the head of the queue is dropped (parse_packet). *)
LEMMA ConnClientSkip == ASSUME ConnInv, ClientSkip PROVE ConnInv'
<1> USE DEF ConnInv, ClientSkip, ClientStep, vars, flags, handlerVars, heapVars, threadVars, serverVars, sockVars
<1>1. c_got'.type = "none" /\ cpc = "parse" /\ cpc' = "recv"
  BY DEF Nothing
<1>2. NoChunks' <=> NoChunks
  BY DEF NoChunks
<1>3. \A k : Pending(k)' <=> Pending(k)
  BY <1>1 DEF Pending
<1>4. ClientInv' /\ RequestInv'
  BY <1>1 DEF ClientInv, RequestInv, Requesting, Request
<1>5. WireInv' /\ TokenInv' /\ OrderInv'
  BY <1>1, <1>2 DEF WireInv, Sound, Requesting, Size, TokenInv, OrderInv
<1>6. DataInv'
  BY <1>1, <1>2, <1>3 DEF DataInv, Partial, Held, Size
<1>7. PlayInv'
  BY <1>1, <1>2 DEF PlayInv, Quiet, Complete, Held, Requesting, Size, Plays
<1> QED
  BY <1>4, <1>5, <1>6, <1>7

(* The file asked for is opened; all of it is pending (parse_packet). *)
LEMMA ConnBeginTransfer == ASSUME WholeFiles, TypeInv, ConnInv, BeginTransfer PROVE ConnInv'
<1> USE DEF ConnInv, ClientStep, vars, flags, handlerVars, heapVars, threadVars, serverVars, sockVars
<1>1. c_got.type = "file_req" /\ cpc = "parse" /\ Requesting /\ c_got.file = front.filename
  BY DEF BeginTransfer, ClientInv
<1>2. Size \in Nat /\ Size >= 2
  BY <1>1, SizeKnown
<1>3. /\ cpc' = "transfer" /\ index' = 0 /\ c_got' = c_got
      /\ UNCHANGED <<vars, c2s, s2c, s_buf, s_ready, spc, s_got, received>>
  BY <1>1, <1>2 DEF BeginTransfer, Size
<1>4. NoChunks /\ NoChunks' /\ ~s_ready /\ s2c = <<>>
  BY <1>1, <1>3 DEF TokenInv, NoChunks
<1>5. ClientInv' /\ RequestInv'
  BY <1>1, <1>2, <1>3 DEF ClientInv, RequestInv, Requesting, Size, Request
<1>6. WireInv'
  BY <1>3 DEF WireInv, Sound, Requesting, Size
<1>7. TokenInv' /\ OrderInv'
  BY <1>3, <1>4 DEF TokenInv, OrderInv, NoChunks
<1>8. DataInv'
  BY <1>2, <1>3 DEF DataInv, Pending, Size
<1>9. PlayInv'
  BY <1>1, <1>3 DEF PlayInv, Quiet, Plays
<1> QED
  BY <1>5, <1>6, <1>7, <1>8, <1>9

(* A packet of the file is sent (the loop in parse_packet). *)
LEMMA ConnSendChunk == ASSUME WholeFiles, TypeInv, ConnInv, SendChunk PROVE ConnInv'
<1> USE DEF ConnInv, vars, flags, handlerVars, heapVars, threadVars, serverVars, sockVars
<1>1. cpc = "transfer" /\ c_got.type = "file_req" /\ Requesting /\ c_got.file = front.filename /\ index < Size
  BY DEF SendChunk, ClientInv
<1>2. Size \in Nat /\ Size >= 2 /\ index \in Nat /\ c2s \in Seq(Packets)
  BY <1>1, SizeKnown DEF TypeInv, ClientTypes, WireTypes
<1> DEFINE p == Packet(Kind(front.filename, index), front.filename, index)
<1>3. p.index = index /\ IsChunk(p) /\ Sound(p)
  BY <1>1, <1>2 DEF Packet, Kind, IsChunk, Sound
<1>4. /\ c2s' = Append(c2s, p) /\ index' = index + 1
      /\ UNCHANGED <<vars, s2c, s_buf, s_ready, spc, s_got, received>>
  BY <1>1 DEF SendChunk
<1>5. \/ cpc' = "recv" /\ c_got' = Nothing /\ index + 1 = Size
      \/ cpc' = "transfer" /\ c_got' = c_got /\ index + 1 < Size
  <2>1. IF index + 1 = Chunks[c_got.file] THEN cpc' = "recv" /\ c_got' = Nothing ELSE UNCHANGED <<cpc, c_got>>
    BY DEF SendChunk
  <2> QED
    BY <1>1, <1>2, <2>1 DEF Size
<1> HIDE DEF p
<1>6. /\ Len(c2s') = Len(c2s) + 1 /\ c2s'[Len(c2s) + 1] = p
      /\ \A i \in 1 .. Len(c2s) : c2s'[i] = c2s[i]
  BY <1>2, <1>4
<1>7. (Requesting' <=> Requesting) /\ Size' = Size
  BY <1>4 DEF Requesting, Size
<1>8. ClientInv'
  BY <1>1, <1>4, <1>5, <1>7 DEF ClientInv, Nothing
<1>9. RequestInv'
  BY <1>4 DEF RequestInv, Requesting, Request
<1>10. WireInv'
  <2>1. ASSUME NEW i \in 1 .. Len(c2s') PROVE c2s'[i].type \in Orders \/ Sound(c2s'[i])
    <3>1. CASE i \in 1 .. Len(c2s)
      BY <1>6, <3>1 DEF WireInv
    <3>2. CASE i = Len(c2s) + 1
      BY <1>3, <1>6, <3>2
    <3> QED
      BY <1>2, <1>6, <3>1, <3>2
  <2>2. \A i \in 1 .. Len(c2s') : (c2s[i].type \in Orders \/ Sound(c2s[i]))'
    BY <1>4, <1>7, <2>1 DEF Sound
  <2>3. (s_got.type \in Orders \cup {"none"} \/ Sound(s_got))'
    BY <1>4, <1>7 DEF WireInv, Sound
  <2> QED
    BY <1>4, <2>2, <2>3 DEF WireInv
<1>11. TokenInv'
  BY <1>1, <1>4, <1>5 DEF TokenInv, Nothing
<1>12. OrderInv'
  <2>1. \A i \in 1 .. Len(c2s) : IsChunk(c2s[i]) => c2s[i].index < index
    BY <1>1 DEF OrderInv
  <2>2. IsChunk(s_got) => s_got.index < index
    BY <1>1 DEF OrderInv
  <2>3. ASSUME NEW i \in 1 .. Len(c2s'), NEW j \in 1 .. Len(c2s'), i < j, IsChunk(c2s'[i]), IsChunk(c2s'[j])
        PROVE  c2s'[i].index < c2s'[j].index
    <3>1. i \in 1 .. Len(c2s)
      BY <1>2, <1>6, <2>3
    <3>2. CASE j \in 1 .. Len(c2s)
      BY <1>6, <2>3, <3>1, <3>2 DEF OrderInv
    <3>3. CASE j = Len(c2s) + 1
      BY <1>3, <1>6, <2>1, <2>3, <3>1, <3>3
    <3> QED
      BY <1>2, <1>6, <3>2, <3>3
  <2>4. ASSUME NEW i \in 1 .. Len(c2s'), IsChunk(s_got), IsChunk(c2s'[i]) PROVE s_got.index < c2s'[i].index
    <3>1. CASE i \in 1 .. Len(c2s)
      BY <1>6, <2>4, <3>1 DEF OrderInv
    <3>2. CASE i = Len(c2s) + 1
      BY <1>3, <1>6, <2>2, <2>4, <3>2
    <3> QED
      BY <1>2, <1>6, <3>1, <3>2
  <2>5. ASSUME NEW i \in 1 .. Len(c2s'), IsChunk(c2s'[i]) PROVE c2s'[i].index < index + 1
    <3>1. CASE i \in 1 .. Len(c2s)
      <4>1. c2s[i] \in Packets
        BY <1>2, <3>1
      <4>2. c2s[i].index \in Nat
        BY <4>1 DEF Packets
      <4> QED
        BY <1>2, <1>6, <2>1, <2>5, <3>1, <4>2
    <3>2. CASE i = Len(c2s) + 1
      BY <1>2, <1>3, <1>6, <3>2
    <3> QED
      BY <1>2, <1>6, <3>1, <3>2
  <2>6. IsChunk(s_got) => s_got.index < index + 1
    <3>1. s_got.index \in Nat
      BY DEF TypeInv, SockTypes, Packets
    <3> QED
      BY <1>2, <2>2, <3>1
  <2> QED
    BY <1>4, <2>3, <2>4, <2>5, <2>6 DEF OrderInv
<1>13. \A k \in 0 .. Size - 1 : Pending(k)' <=> Pending(k)
  <2> SUFFICES ASSUME NEW k \in 0 .. Size - 1 PROVE Pending(k)' <=> Pending(k)
    OBVIOUS
  <2>1. (\E i \in 1 .. Len(c2s') : IsChunk(c2s'[i]) /\ c2s'[i].index = k)
          <=> (\E i \in 1 .. Len(c2s) : IsChunk(c2s[i]) /\ c2s[i].index = k) \/ k = index
    <3>1. CASE k = index
      BY <1>2, <1>3, <1>6, <3>1
    <3>2. CASE k # index
      <4>1. \A i \in 1 .. Len(c2s') : IsChunk(c2s'[i]) /\ c2s'[i].index = k => i \in 1 .. Len(c2s)
        BY <1>2, <1>3, <1>6, <3>2
      <4> QED
        BY <1>2, <1>6, <3>2, <4>1
    <3> QED
      BY <3>1, <3>2
  <2>2. (cpc' = "transfer" /\ index' <= k) \/ k = index <=> index <= k
    BY <1>2, <1>4, <1>5
  <2> QED
    BY <1>1, <1>4, <2>1, <2>2 DEF Pending
<1>14. DataInv'
  <2>1. Pending(0)' <=> Pending(0)
    BY <1>2, <1>13
  <2> QED
    BY <1>1, <1>4, <1>7, <1>13, <2>1 DEF DataInv, Partial, Held
<1>15. PlayInv'
  BY <1>1, <1>4 DEF PlayInv, Quiet, Plays
<1> QED
  BY <1>8, <1>9, <1>10, <1>11, <1>12, <1>14, <1>15

(* The client's socket thread. *)
LEMMA ConnClient == ASSUME WholeFiles, TypeInv, UserInv, ConnInv, ClientSocket PROVE UserInv' /\ ConnInv'
<1>1. ASSUME UNCHANGED <<upc, slotVars>> PROVE UserInv'
  BY <1>1 DEF UserInv, slotVars
<1>2. CASE ClientRecv
  BY <1>1, <1>2, ConnClientRecv DEF ClientRecv, userVars
<1>3. CASE ClientSend
  BY <1>3, ConnClientSend
<1>4. CASE ClientSkip
  BY <1>1, <1>4, ConnClientSkip DEF ClientSkip, userVars
<1>5. CASE BeginTransfer
  BY <1>1, <1>5, ConnBeginTransfer DEF BeginTransfer, userVars
<1>6. CASE SendChunk
  BY <1>1, <1>6, ConnSendChunk DEF SendChunk, userVars
<1>7. ~WriteError /\ ~SendError
  BY DEF ConnInv, ClientInv, WriteError, SendError, ClientStep
<1> QED
  BY <1>2, <1>3, <1>4, <1>5, <1>6, <1>7 DEF ClientSocket

(* A packet is received, or nothing (start_server). *)
LEMMA ConnServerRecv == ASSUME TypeInv, ConnInv, ServerRecv PROVE ConnInv'
<1> USE DEF ConnInv, ServerStep, vars, flags, handlerVars, heapVars, threadVars, serverVars, clientVars
<1>1. spc = "recv" /\ spc' = "send" /\ s_got.type = "none" /\ ~IsChunk(s_got)
  BY DEF ServerRecv, WireInv, IsChunk
<1>2. CASE s_ready /\ s_got' = Nothing /\ UNCHANGED c2s
  <2>1. ~IsChunk(s_got') /\ s_got'.type = "none"
    BY <1>2 DEF IsChunk, Nothing
  <2>2. NoChunks' <=> NoChunks
    BY <1>1, <1>2, <2>1 DEF NoChunks
  <2>3. \A k : Pending(k)' <=> Pending(k)
    BY <1>1, <1>2, <2>1 DEF Pending, ServerRecv
  <2>4. ClientInv' /\ RequestInv'
    BY DEF ServerRecv, ClientInv, RequestInv, Requesting, Size, Request
  <2>5. WireInv' /\ TokenInv' /\ OrderInv'
    BY <1>1, <1>2, <2>1, <2>2 DEF ServerRecv, WireInv, Sound, Requesting, Size, TokenInv, OrderInv
  <2>6. DataInv'
    BY <2>2, <2>3 DEF ServerRecv, DataInv, Partial, Held, Size
  <2>7. PlayInv'
    BY <2>2 DEF ServerRecv, PlayInv, Quiet, Complete, Held, Requesting, Size, Plays
  <2> QED
    BY <2>4, <2>5, <2>6, <2>7
<1>3. CASE c2s # <<>> /\ s_got' = Head(c2s) /\ c2s' = Tail(c2s)
  <2>1. UNCHANGED <<vars, c_got, cpc, index, s2c, s_buf, s_ready, received>>
    BY DEF ServerRecv
  <2>2. /\ Len(c2s) \in Nat /\ 1 \in 1 .. Len(c2s) /\ s_got' = c2s[1] /\ Len(c2s') = Len(c2s) - 1
        /\ \A i \in 1 .. Len(c2s') : i + 1 \in 1 .. Len(c2s) /\ c2s'[i] = c2s[i + 1]
    BY <1>3 DEF TypeInv, WireTypes
  <2>3. \A i \in 1 .. Len(c2s) : i = 1 \/ (i - 1 \in 1 .. Len(c2s') /\ c2s[i] = c2s'[i - 1])
    BY <2>2
  <2>4. NoChunks' <=> NoChunks
    BY <1>1, <2>2, <2>3 DEF NoChunks
  <2>5. \A k : Pending(k)' <=> Pending(k)
    <3> SUFFICES ASSUME NEW k PROVE Pending(k)' <=> Pending(k)
      OBVIOUS
    <3>1. (\E i \in 1 .. Len(c2s) : IsChunk(c2s[i]) /\ c2s[i].index = k)
            <=> \/ IsChunk(s_got') /\ s_got'.index = k
                \/ \E i \in 1 .. Len(c2s') : IsChunk(c2s'[i]) /\ c2s'[i].index = k
      BY <2>2, <2>3
    <3> QED
      BY <1>1, <2>1, <3>1 DEF Pending
  <2>6. ClientInv' /\ RequestInv'
    BY <2>1 DEF ClientInv, RequestInv, Requesting, Size, Request
  <2>7. WireInv'
    BY <1>1, <2>1, <2>2 DEF WireInv, Sound, Requesting, Size
  <2>8. TokenInv'
    BY <2>1, <2>4 DEF TokenInv
  <2>9. OrderInv'
    <3>1. \A i, j \in 1 .. Len(c2s') : i < j /\ IsChunk(c2s'[i]) /\ IsChunk(c2s'[j]) => c2s'[i].index < c2s'[j].index
      <4> SUFFICES ASSUME NEW i \in 1 .. Len(c2s'), NEW j \in 1 .. Len(c2s'), i < j,
                          IsChunk(c2s[i + 1]), IsChunk(c2s[j + 1])
                   PROVE  c2s[i + 1].index < c2s[j + 1].index
        BY <2>2
      <4>1. i + 1 < j + 1 /\ i + 1 \in 1 .. Len(c2s) /\ j + 1 \in 1 .. Len(c2s)
        BY <2>2
      <4> QED
        BY <4>1 DEF OrderInv
    <3>2. \A i \in 1 .. Len(c2s') : IsChunk(s_got') /\ IsChunk(c2s'[i]) => s_got'.index < c2s'[i].index
      <4> SUFFICES ASSUME NEW i \in 1 .. Len(c2s'), IsChunk(c2s[1]), IsChunk(c2s[i + 1])
                   PROVE  c2s[1].index < c2s[i + 1].index
        BY <2>2
      <4>1. 1 < i + 1 /\ i + 1 \in 1 .. Len(c2s)
        BY <2>2
      <4> QED
        BY <2>2, <4>1 DEF OrderInv
    <3>3. cpc = "transfer" => /\ \A i \in 1 .. Len(c2s') : IsChunk(c2s'[i]) => c2s'[i].index < index
                              /\ IsChunk(s_got') => s_got'.index < index
      BY <2>2 DEF OrderInv
    <3> QED
      BY <2>1, <3>1, <3>2, <3>3 DEF OrderInv
  <2>10. DataInv'
    BY <2>1, <2>4, <2>5 DEF DataInv, Partial, Held, Size
  <2>11. PlayInv'
    BY <2>1, <2>4 DEF PlayInv, Quiet, Complete, Held, Requesting, Size, Plays
  <2> QED
    BY <2>6, <2>7, <2>8, <2>9, <2>10, <2>11
<1> QED
  BY <1>2, <1>3 DEF ServerRecv

(* The request in the buffer is sent, and the buffer zeroed (start_server). *)
LEMMA ConnServerSend == ASSUME ConnInv, ServerSend PROVE ConnInv'
<1> USE DEF ServerStep
<1>1. /\ spc = "send" /\ spc' = "parse"
      /\ UNCHANGED <<vars, clientVars, c2s, s_got, received>>
  BY DEF ServerSend
<1>2. CASE ~s_ready
  <2>1. UNCHANGED <<s2c, serverVars>>
    BY <1>2 DEF ServerSend
  <2> QED
    BY <1>1, <2>1, ConnKept DEF vars, flags, threadVars
<1>3. CASE s_ready
  <2> USE DEF ConnInv, vars, flags, handlerVars, heapVars, threadVars, clientVars
  <2>1. hpc = "sent" /\ s2c = <<>> /\ s_buf = Request /\ c_got.type = "none" /\ NoChunks
    BY <1>3 DEF RequestInv, TokenInv
  <2>2. s2c' = <<Request>> /\ s_ready' = FALSE
    BY <1>3, <2>1 DEF ServerSend
  <2>3. NoChunks' /\ c_got'.type = "none" /\ cpc' # "transfer"
    BY <1>1, <2>1 DEF NoChunks, ClientInv
  <2>4. ClientInv'
    BY <1>1 DEF ClientInv, Requesting, Size
  <2>5. RequestInv'
    BY <1>1, <2>1, <2>2 DEF RequestInv, Requesting, Request
  <2>6. WireInv'
    BY <1>1 DEF WireInv, Sound, Requesting, Size
  <2>7. TokenInv' /\ DataInv'
    BY <2>2, <2>3 DEF TokenInv, DataInv
  <2>8. OrderInv'
    BY <1>1 DEF OrderInv
  <2>9. PlayInv'
    BY <1>1, <1>3, <2>1 DEF PlayInv, Quiet, Plays
  <2> QED
    BY <2>4, <2>5, <2>6, <2>7, <2>8, <2>9
<1> QED
  BY <1>2, <1>3

(***************************************************************************)
(* What is known when a packet of the file is parsed: the others that are  *)
(* pending have larger indices, and no request is under way.               *)
(***************************************************************************)
LEMMA ChunkInHand ==
  ASSUME WholeFiles, TypeInv, ConnInv, IsChunk(s_got)
  PROVE  /\ Requesting /\ Sound(s_got) /\ s_got.index \in 0 .. Size - 1 /\ Size \in Nat /\ Size >= 2
         /\ ~s_ready /\ s2c = <<>> /\ (c_got.type = "none" \/ cpc = "transfer")
         /\ s_got.type = "start" <=> s_got.index = 0
         /\ s_got.type = "end" <=> s_got.index = Size - 1
         /\ \A i \in 1 .. Len(c2s) : IsChunk(c2s[i]) => s_got.index < c2s[i].index /\ c2s[i].index < Size
         /\ cpc = "transfer" => s_got.index < index /\ index < Size
<1> USE DEF ConnInv
<1>1. Sound(s_got) /\ Requesting
  BY DEF WireInv, IsChunk, Orders, Sound
<1>2. Size \in Nat /\ Size >= 2
  BY <1>1, SizeKnown
<1>3. s_got.index \in 0 .. Size - 1 /\ s_got.type = Kind(front.filename, s_got.index)
  BY <1>1 DEF Sound
<1>4. /\ s_got.type = "start" <=> s_got.index = 0
      /\ s_got.type = "end" <=> s_got.index = Size - 1
  BY <1>2, <1>3 DEF Kind, Size
<1>5. ~s_ready /\ s2c = <<>> /\ (c_got.type = "none" \/ cpc = "transfer")
  BY DEF TokenInv, NoChunks, ClientInv
<1>6. ASSUME NEW i \in 1 .. Len(c2s), IsChunk(c2s[i]) PROVE s_got.index < c2s[i].index /\ c2s[i].index < Size
  <2>1. Sound(c2s[i])
    BY <1>6 DEF WireInv, IsChunk, Orders
  <2> QED
    BY <1>2, <1>6, <2>1 DEF OrderInv, Sound
<1>7. cpc = "transfer" => s_got.index < index /\ index < Size
  BY DEF OrderInv, ClientInv
<1> QED
  BY <1>1, <1>2, <1>3, <1>4, <1>5, <1>6, <1>7

(* What its removal from the server's hands leaves. *)
LEMMA ChunkDone ==
  ASSUME WholeFiles, TypeInv, ConnInv, IsChunk(s_got), s_got' = Nothing, spc' = "recv",
         UNCHANGED <<clientVars, c2s, s2c, serverVars, handlerVars>>
  PROVE  /\ ClientInv' /\ RequestInv' /\ WireInv' /\ TokenInv' /\ OrderInv'
         /\ \A k : Pending(k) => Pending(k)' \/ k = s_got.index
         /\ \A k : Pending(k)' => Pending(k)
         /\ \A k \in 0 .. s_got.index : ~Pending(k)'
         /\ ~Pending(0)'
<1> USE DEF ConnInv, clientVars, serverVars, handlerVars
<1>1. ~IsChunk(s_got') /\ s_got'.type = "none"
  BY DEF IsChunk, Nothing
<1>2. ClientInv' /\ RequestInv'
  BY DEF ClientInv, RequestInv, Requesting, Size, Request
<1>3. WireInv' /\ OrderInv'
  BY <1>1 DEF WireInv, OrderInv, Sound, Requesting, Size
<1>4. TokenInv'
  BY <1>1, ChunkInHand DEF TokenInv
<1>5. /\ \A k : Pending(k) => Pending(k)' \/ k = s_got.index
      /\ \A k : Pending(k)' => Pending(k)
  BY <1>1 DEF Pending
<1>6. ASSUME NEW k \in 0 .. s_got.index, Pending(k)' PROVE FALSE
  <2>1. s_got.index \in Nat /\ index \in Nat
    BY DEF TypeInv, SockTypes, ClientTypes, Packets
  <2>2. CASE \E i \in 1 .. Len(c2s) : IsChunk(c2s[i]) /\ c2s[i].index = k
    <3>1. PICK i \in 1 .. Len(c2s) : IsChunk(c2s[i]) /\ c2s[i].index = k
      BY <2>2
    <3>2. s_got.index < k
      BY <3>1, ChunkInHand
    <3> QED
      BY <1>6, <2>1, <3>2
  <2>3. CASE cpc = "transfer" /\ index <= k
    <3>1. s_got.index < index
      BY <2>3, ChunkInHand
    <3> QED
      BY <1>6, <2>1, <2>3, <3>1
  <2> QED
    BY <1>1, <1>6, <2>2, <2>3 DEF Pending
<1>7. 0 \in 0 .. s_got.index
  BY DEF TypeInv, SockTypes, Packets
<1> QED
  BY <1>2, <1>3, <1>4, <1>5, <1>6, <1>7

(* The first packet allocates the buffer (AUDIOFILE_START). *)
LEMMA ConnParseStart == ASSUME WholeFiles, TypeInv, ConnInv, ParseStart PROVE ConnInv'
<1> USE DEF ConnInv, flags, threadVars
<1>1. IsChunk(s_got) /\ s_got.type = "start" /\ s_got' = Nothing /\ spc' = "recv"
  BY DEF ParseStart, Parse, ServerStep, IsChunk
<1>2. UNCHANGED <<clientVars, c2s, s2c, serverVars, handlerVars, should_play, tpc>>
  BY DEF ParseStart, Parse
<1>3. Size \in Nat /\ Size >= 2 /\ s_got.index = 0 /\ s_got.file = front.filename
  BY <1>1, ChunkInHand DEF Sound
<1>4. audio' \in live' /\ content'[audio'] = front.filename /\ received'[audio'] = {0}
  BY <1>3 DEF ParseStart, TypeInv, ServerTypes, HeapTypes
<1>5. /\ \A k : Pending(k) => Pending(k)' \/ k = 0
      /\ ~Pending(0)'
  BY <1>1, <1>2, <1>3, ChunkDone
<1>6. \A k \in 0 .. Size - 1 : Pending(k)
  <2>1. Pending(0) /\ ~NoChunks
    BY <1>1, <1>3 DEF Pending, NoChunks
  <2> QED
    BY <2>1 DEF DataInv, Partial
<1>7. Size' = Size /\ front' = front
  BY <1>2 DEF handlerVars, Size
<1>8. DataInv'
  <2>1. Held'
    BY <1>4, <1>7 DEF Held
  <2>2. (received[audio])' \subseteq 0 .. Size' - 1
    BY <1>3, <1>4, <1>7
  <2>3. \A k \in 0 .. Size' - 1 : Pending(k)' \/ k \in (received[audio])'
    BY <1>4, <1>5, <1>6, <1>7
  <2> QED
    BY <1>5, <2>1, <2>2, <2>3 DEF DataInv, Partial
<1>9. PlayInv'
  BY <1>1, <1>2, ChunkInHand DEF PlayInv, Quiet, NoChunks, Plays, handlerVars, Requesting
<1> QED
  BY <1>1, <1>2, <1>8, <1>9, ChunkDone

(***************************************************************************)
(* A later packet finds the buffer of its file, and adds itself to it      *)
(* (AUDIOFILE_MIDDLE, AUDIOFILE_END).                                      *)
(***************************************************************************)
LEMMA ChunkStored ==
  ASSUME WholeFiles, TypeInv, ConnInv, s_got.type \in {"middle", "end"}
  PROVE  /\ Held /\ received[audio] \subseteq 0 .. Size - 1
         /\ \A k \in 0 .. Size - 1 : Pending(k) \/ k \in received[audio]
<1> USE DEF ConnInv
<1>1. IsChunk(s_got) /\ s_got.type # "start"
  BY DEF IsChunk
<1>2. Size \in Nat /\ Size >= 2 /\ s_got.index \in 1 .. Size - 1
  BY <1>1, ChunkInHand
<1>3. ~Pending(0)
  <2>1. \A i \in 1 .. Len(c2s) : IsChunk(c2s[i]) => c2s[i].index # 0
    <3> SUFFICES ASSUME NEW i \in 1 .. Len(c2s), IsChunk(c2s[i]), c2s[i].index = 0 PROVE FALSE
      OBVIOUS
    <3>1. s_got.index < c2s[i].index
      BY <1>1, ChunkInHand
    <3> QED
      BY <1>2, <3>1
  <2>2. ~(cpc = "transfer" /\ index <= 0)
    <3>1. cpc = "transfer" => s_got.index < index
      BY <1>1, ChunkInHand
    <3>2. index \in Nat
      BY DEF TypeInv, ClientTypes
    <3> QED
      BY <1>2, <3>1, <3>2
  <2>3. ~(IsChunk(s_got) /\ s_got.index = 0)
    BY <1>2
  <2> QED
    BY <2>1, <2>2, <2>3 DEF Pending
<1>4. ~NoChunks
  BY <1>1 DEF NoChunks
<1>5. 0 \in 0 .. Size - 1
  BY <1>2
<1> QED
  BY <1>3, <1>4, <1>5 DEF DataInv, Partial

LEMMA ChunkAdded ==
  ASSUME WholeFiles, TypeInv, ConnInv, s_got.type \in {"middle", "end"}, ParseChunk, Parse(s_got.type)
  PROVE  /\ Held' /\ (received[audio])' \subseteq 0 .. Size - 1
         /\ \A k \in 0 .. Size - 1 : Pending(k)' \/ k \in (received[audio])'
<1> USE DEF ConnInv
<1>1. IsChunk(s_got) /\ s_got' = Nothing /\ spc' = "recv"
  BY DEF IsChunk, Parse, ServerStep
<1>2. UNCHANGED <<clientVars, c2s, s2c, serverVars, handlerVars, heapVars>>
  BY DEF ParseChunk, Parse
<1>3. s_got.index \in 0 .. Size - 1
  BY <1>1, ChunkInHand
<1>4. audio \in Buffers /\ audio' = audio /\ front' = front
  BY <1>2, ChunkStored DEF Held, TypeInv, ServerTypes, HeapTypes, heapVars, handlerVars
<1>5. received'[audio] = received[audio] \cup {s_got.index}
  BY <1>4 DEF ParseChunk, TypeInv, ServerTypes, HeapTypes
<1>6. \A k : Pending(k) => Pending(k)' \/ k = s_got.index
  BY <1>1, <1>2, ChunkDone
<1>7. Held'
  BY <1>2, ChunkStored DEF Held, heapVars, handlerVars
<1> QED
  BY <1>3, <1>4, <1>5, <1>6, <1>7, ChunkStored

LEMMA ConnParseMiddle == ASSUME WholeFiles, TypeInv, ConnInv, ParseMiddle PROVE ConnInv'
<1> USE DEF ConnInv
<1>1. IsChunk(s_got) /\ s_got.type = "middle" /\ s_got' = Nothing /\ spc' = "recv" /\ Parse(s_got.type) /\ ParseChunk
  BY DEF ParseMiddle, Parse, ServerStep, IsChunk
<1>2. UNCHANGED <<clientVars, c2s, s2c, serverVars, handlerVars, should_play, tpc>>
  BY DEF ParseMiddle, ParseChunk, Parse, threadVars
<1>3. ~Pending(0)'
  BY <1>1, <1>2, ChunkDone
<1>4. Size' = Size
  BY <1>2 DEF handlerVars, Size
<1>5. DataInv'
  BY <1>1, <1>3, <1>4, ChunkAdded DEF DataInv, Partial
<1>6. PlayInv'
  BY <1>1, <1>2, ChunkInHand DEF PlayInv, Quiet, NoChunks, Plays, handlerVars, Requesting
<1> QED
  BY <1>1, <1>2, <1>5, <1>6, ChunkDone

(* With the last packet, all of the file is here. *)
LEMMA ConnParseEnd == ASSUME WholeFiles, TypeInv, ConnInv, ParseEnd PROVE ConnInv'
<1> USE DEF ConnInv
<1>1. IsChunk(s_got) /\ s_got.type = "end" /\ s_got' = Nothing /\ spc' = "recv" /\ Parse(s_got.type) /\ ParseChunk
  BY DEF ParseEnd, Parse, ServerStep, IsChunk
<1>2. UNCHANGED <<clientVars, c2s, s2c, serverVars, handlerVars, tpc>>
  BY DEF ParseEnd, ParseChunk, Parse, threadVars
<1>3. Size' = Size /\ Size \in Nat /\ s_got.index = Size - 1 /\ Requesting /\ (Requesting' <=> Requesting)
  BY <1>1, <1>2, ChunkInHand DEF handlerVars, Size, Requesting
<1>4. \A i \in 1 .. Len(c2s) : ~IsChunk(c2s[i])
  <2> SUFFICES ASSUME NEW i \in 1 .. Len(c2s), IsChunk(c2s[i]) PROVE FALSE
    OBVIOUS
  <2>1. c2s[i] \in Packets
    BY DEF TypeInv, WireTypes
  <2>2. c2s[i].index \in Nat
    BY <2>1 DEF Packets
  <2>3. s_got.index < c2s[i].index /\ c2s[i].index < Size
    BY <1>1, ChunkInHand
  <2> QED
    BY <1>3, <2>2, <2>3
<1>5. cpc # "transfer"
  <2>1. cpc = "transfer" => s_got.index < index /\ index < Size
    BY <1>1, ChunkInHand
  <2> QED
    BY <1>3, <2>1 DEF TypeInv, ClientTypes
<1>6. ~IsChunk(s_got')
  BY <1>1 DEF IsChunk, Nothing
<1>7. Quiet' /\ NoChunks' /\ cpc' # "transfer"
  BY <1>1, <1>2, <1>4, <1>5, <1>6, ChunkInHand DEF Quiet, NoChunks, clientVars, serverVars
<1>8. \A k : ~Pending(k)'
  BY <1>2, <1>4, <1>5, <1>6, <1>7 DEF Pending, clientVars
<1>9. Complete'
  <2>1. Held' /\ (received[audio])' \subseteq 0 .. Size - 1 /\ \A k \in 0 .. Size - 1 : k \in (received[audio])'
    BY <1>1, <1>8, ChunkAdded
  <2> QED
    BY <1>3, <2>1 DEF Complete
<1>10. DataInv'
  BY <1>7 DEF DataInv
<1>11. PlayInv'
  BY <1>3, <1>7, <1>9 DEF PlayInv
<1> QED
  BY <1>1, <1>2, <1>10, <1>11, ChunkDone

(* The server's socket thread. *)
LEMMA ConnServer == ASSUME WholeFiles, TypeInv, ConnInv, ServerSocket PROVE ConnInv'
<1>1. ASSUME NEW type \in Orders \cup {"none"}, Parse(type) PROVE ~IsChunk(s_got) /\ s_got' = Nothing /\ spc' = "recv"
  BY <1>1 DEF Parse, ServerStep, IsChunk, Orders
<1>2. CASE ServerRecv
  BY <1>2, ConnServerRecv
<1>3. CASE ServerSend
  BY <1>3, ConnServerSend
<1>4. CASE ParseNothing
  <2>1. Parse("none") /\ UNCHANGED <<vars, received>>
    BY <1>4 DEF ParseNothing
  <2> QED
    BY <1>1, <2>1, ConnKept DEF Parse, vars, flags, threadVars
<1>5. CASE ParsePause
  <2>1. Parse("pause") /\ UNCHANGED <<handlerVars, heapVars, received, tpc>> /\ should_play' = FALSE
    BY <1>5 DEF ParsePause, threadVars
  <2>2. "pause" \in Orders
    BY DEF Orders
  <2> QED
    BY <1>1, <2>1, <2>2, ConnKept DEF Parse
<1>6. CASE ParseSkip
  <2>1. spc' = "skipping" /\ s_got' = s_got /\ s_got.type = "skip" /\ should_play' = should_play
    BY <1>6 DEF ParseSkip, ServerStep
  <2> QED
    BY <1>6, <2>1, ConnKept DEF ParseSkip, threadVars
<1>7. CASE SkipDone
  <2>1. ~IsChunk(s_got)
    BY <1>7 DEF SkipDone, ServerStep, ConnInv, WireInv, IsChunk
  <2> QED
    BY <1>7, <2>1, ConnKept DEF SkipDone, ServerStep, vars, flags, threadVars
<1>8. CASE ParsePlayReq
  <2>1. Parse("play_req") /\ UNCHANGED <<handlerVars, heapVars, received, tpc, should_play>>
    BY <1>8 DEF ParsePlayReq, threadVars, flags
  <2>2. "play_req" \in Orders
    BY DEF Orders
  <2> QED
    BY <1>1, <2>1, <2>2, ConnKept DEF Parse
<1>9. CASE ParseStart
  BY <1>9, ConnParseStart
<1>10. CASE ParseMiddle
  BY <1>10, ConnParseMiddle
<1>11. CASE ParseEnd
  BY <1>11, ConnParseEnd
<1>12. s_got.type \in {"pause", "skip", "play_req", "none", "start", "middle", "end"}
  BY DEF ConnInv, WireInv, Orders, Sound, Kind
<1>13. ~ParsePlay /\ ~ParseMissing
  BY <1>12 DEF ParsePlay, ParseMissing, Parse
<1> QED
  BY <1>2, <1>3, <1>4, <1>5, <1>6, <1>7, <1>8, <1>9, <1>10, <1>11, <1>13 DEF ServerSocket

(* A request begins while no song plays and nothing is under way (audio_handler). *)
LEMMA ConnSetRequestReady == ASSUME WholeFiles, SerialInv, ConnInv, SetRequestReady PROVE ConnInv'
<1>1. /\ hpc = "ready" /\ hpc' = "sent" /\ s_ready' = TRUE
      /\ UNCHANGED <<front, flags, heapVars, threadVars, s_buf, clientVars, c2s, s2c, sockVars, received>>
  BY DEF SetRequestReady, HandlerStep
<1>2. Quiet /\ cpc # "transfer" /\ s_buf = Request
  BY <1>1, QuietOutside DEF Requesting, ConnInv, RequestInv
<1>3. ~should_play
  BY <1>1 DEF SerialInv, HandlerAlone, Busy, Exists, ConnInv, PlayInv, Requesting, Plays
<1>4. NoChunks' /\ c_got'.type = "none" /\ cpc' # "transfer" /\ s2c' = <<>>
  BY <1>1, <1>2 DEF Quiet, NoChunks, clientVars, sockVars
<1>5. ClientInv'
  BY <1>1, <1>4 DEF ConnInv, ClientInv, clientVars
<1>6. RequestInv'
  BY <1>1, <1>2, <1>4 DEF RequestInv, Request
<1>7. WireInv'
  BY <1>1, <1>2, <1>4 DEF ConnInv, WireInv, Quiet, NoChunks, IsChunk, Sound, Kind, sockVars
<1>8. TokenInv' /\ DataInv'
  BY <1>4 DEF TokenInv, DataInv
<1>9. OrderInv'
  BY <1>4 DEF OrderInv, NoChunks
<1>10. PlayInv'
  BY <1>1, <1>3 DEF PlayInv, flags
<1> QED
  BY <1>5, <1>6, <1>7, <1>8, <1>9, <1>10 DEF ConnInv

LEMMA ConnRequestSent == ASSUME ConnInv, RequestSent PROVE ConnInv'
<1> USE DEF ConnInv, streamVars, flags, heapVars, threadVars, clientVars, serverVars, sockVars
<1>1. /\ hpc = "sent" /\ hpc' = "await" /\ ~s_ready /\ (Requesting <=> Requesting')
      /\ UNCHANGED <<front, flags, heapVars, threadVars, streamVars>>
  BY DEF RequestSent, HandlerStep, Requesting
<1>2. ClientInv' /\ RequestInv' /\ WireInv'
  BY <1>1 DEF ClientInv, RequestInv, WireInv, Sound, Requesting, Size, Request
<1>3. TokenInv' /\ OrderInv' /\ (NoChunks' <=> NoChunks) /\ \A k : Pending(k)' <=> Pending(k)
  BY <1>1 DEF TokenInv, OrderInv, NoChunks, Pending
<1>4. DataInv'
  BY <1>1, <1>3 DEF DataInv, Partial, Held, Size
<1>5. PlayInv'
  BY <1>1, <1>3 DEF PlayInv, Quiet, Complete, Held, Size, Requesting, Plays
<1> QED
  BY <1>2, <1>3, <1>4, <1>5

(* should_play ends the request: it tells that the file is complete (audio_handler). *)
LEMMA ConnSongReady == ASSUME SerialInv, ConnInv, SongReady PROVE ConnInv'
<1>1. /\ hpc = "await" /\ hpc' = "start" /\ should_play
      /\ UNCHANGED <<front, flags, heapVars, threadVars, streamVars>>
  BY DEF SongReady, HandlerStep
<1>2. Quiet /\ Complete
  BY <1>1 DEF SerialInv, HandlerAlone, Busy, Exists, ConnInv, PlayInv, Plays
<1>3. Quiet' /\ Complete'
  BY <1>1, <1>2 DEF Quiet, NoChunks, Complete, Held, Size, streamVars, heapVars, clientVars, serverVars, sockVars
<1>4. cpc # "transfer" /\ UNCHANGED <<clientVars, c2s, s2c, sockVars, s_ready>>
  BY <1>1, <1>2 DEF Quiet, ConnInv, ClientInv, streamVars, serverVars
<1>5. NoChunks' /\ c_got'.type = "none" /\ cpc' # "transfer" /\ ~s_ready' /\ s2c' = <<>>
  BY <1>3, <1>4 DEF Quiet, clientVars
<1>6. ClientInv'
  BY <1>4, <1>5 DEF ConnInv, ClientInv, clientVars
<1>7. RequestInv'
  BY <1>1, <1>5 DEF RequestInv
<1>8. WireInv'
  BY <1>2, <1>4 DEF ConnInv, WireInv, Quiet, NoChunks, IsChunk, Sound, Kind, sockVars
<1>9. TokenInv' /\ DataInv'
  BY <1>5 DEF TokenInv, DataInv
<1>10. OrderInv'
  BY <1>5 DEF OrderInv, NoChunks
<1>11. PlayInv'
  BY <1>1, <1>3 DEF PlayInv
<1> QED
  BY <1>6, <1>7, <1>8, <1>9, <1>10, <1>11 DEF ConnInv

(* The handler. *)
LEMMA ConnHandler ==
  ASSUME WholeFiles, TypeInv, SerialInv, ConnInv, RemoteHandler \/ LocalHandler
  PROVE  ConnInv'
<1>1. ASSUME ~Requesting, ~Requesting', UNCHANGED <<clientVars, c2s, s2c, s_ready, sockVars>>,
             UNCHANGED <<flags, tpc>>, hpc' \notin {"create", "play", "start"}, hpc # "start",
             hpc' = "ready" => s_buf' = Request'
      PROVE  ConnInv'
  <2>1. PlayInv'
    BY <1>1 DEF ConnInv, PlayInv, Plays, flags
  <2> QED
    BY <1>1, <2>1, OutsideKept
<1> USE DEF HandlerStep, Requesting, streamVars, serverVars, threadVars
<1>2. CASE WriteRequest
  BY <1>1, <1>2 DEF WriteRequest, Request, Packet
<1>3. CASE SetRequestReady
  BY <1>3, ConnSetRequestReady
<1>4. CASE RequestSent
  BY <1>4, ConnRequestSent
<1>5. CASE SongReady
  BY <1>5, ConnSongReady
<1>6. CASE StartRemote
  <2>1. PICK t \in Threads : StartAudioThread(t)
    BY <1>6 DEF StartRemote
  <2>2. Plays(t)'
    BY <2>1 DEF StartAudioThread, TypeInv, ServerTypes, ThreadTypes, Plays
  <2>3. hpc = "start" /\ hpc' = "sleep" /\ UNCHANGED <<clientVars, c2s, s2c, s_ready, sockVars>>
    BY <1>6 DEF StartRemote
  <2>4. PlayInv'
    BY <2>2, <2>3 DEF PlayInv
  <2> QED
    BY <2>3, <2>4, OutsideKept
<1>7. CASE CheckRunning /\ UNCHANGED streamVars
  BY <1>1, <1>7 DEF CheckRunning
<1>8. CASE CheckQueue /\ UNCHANGED streamVars
  BY <1>1, <1>8 DEF CheckQueue
<1>9. CASE PopFront /\ UNCHANGED streamVars
  BY <1>1, <1>9 DEF PopFront
<1>10. CASE (RejectFile \/ RejectData) /\ UNCHANGED streamVars
  BY <1>1, <1>10 DEF RejectFile, RejectData
<1>11. CASE EndSleep /\ UNCHANGED streamVars
  BY <1>1, <1>11 DEF EndSleep
<1>12. ~LoadFile /\ ~CreateThread /\ ~SetPlay
  BY DEF LoadFile, CreateThread, SetPlay, WholeFiles, ConnInv, RequestInv
<1>13. CASE RemoteHandler
  BY <1>2, <1>3, <1>4, <1>5, <1>6, <1>13 DEF RemoteHandler
<1>14. CASE LocalHandler
  <2>1. Handler /\ UNCHANGED streamVars
    BY <1>14 DEF LocalHandler
  <2> QED
    BY <1>7, <1>8, <1>9, <1>10, <1>11, <1>12, <2>1 DEF Handler
<1> QED
  BY <1>13, <1>14

(* The server's user cannot set should_play but by a resume. *)
LEMMA ConnServerUser == ASSUME WholeFiles, ConnInv, ServerUser PROVE ConnInv'
<1>1. User /\ UNCHANGED streamVars
  BY DEF ServerUser
<1>2. UNCHANGED <<handlerVars, heapVars, tpc>>
  BY <1>1 DEF User, TurntableQueueFile, TurntablePauseAudio, TurntableResumeAudio, TurntableSkipAudio, threadVars
<1>3. \/ should_play' = FALSE
      \/ UNCHANGED should_play
  BY <1>1 DEF User, TurntableQueueFile, TurntablePauseAudio, TurntableResumeAudio, TurntableSkipAudio,
              WholeFiles, flags
<1> QED
  BY <1>1, <1>2, <1>3, ConnKept DEF streamVars

(* An audio thread exists outside of a request only, and clears should_play before it ends. *)
LEMMA ConnAudio == ASSUME TypeInv, SerialInv, ConnInv, NEW t \in Threads, ServerAudio(t) PROVE ConnInv'
<1> USE DEF TypeInv, ServerTypes, ThreadTypes, ThreadStep
<1>1. AudioThread(t) /\ UNCHANGED streamVars /\ Exists(t) /\ UNCHANGED hpc /\ UNCHANGED front
  BY DEF ServerAudio, AudioThread, BeginAudio, PlatformStop, PlatformDone, FreeAudio, ClearStop, ClearPlay,
         ExitAudio, Exists, handlerVars
<1>2. hpc \notin Busy
  BY <1>1 DEF SerialInv, HandlerAlone
<1>3. ~Requesting /\ ~Requesting' /\ hpc' \notin {"ready", "start", "create", "play"}
  BY <1>1, <1>2 DEF Requesting, Busy, ConnInv, RequestInv
<1>4. should_play => \E u \in Threads : Plays(u)
  BY <1>1, <1>3 DEF ConnInv, PlayInv
<1>5. ASSUME UNCHANGED should_play, Plays(t) => Plays(t)' PROVE PlayInv'
  <2>1. \A u \in Threads : u # t => tpc'[u] = tpc[u]
    BY <1>1 DEF AudioThread, BeginAudio, PlatformStop, PlatformDone, FreeAudio, ClearStop, ClearPlay, ExitAudio
  <2>2. \A u \in Threads : Plays(u) => Plays(u)'
    BY <1>5, <2>1 DEF Plays
  <2> QED
    BY <1>3, <1>4, <1>5, <2>2 DEF PlayInv
<1>6. PlayInv'
  <2> USE DEF Plays, flags
  <2>1. CASE BeginAudio(t)
    BY <1>5, <2>1 DEF BeginAudio
  <2>2. CASE PlatformStop(t)
    BY <1>5, <2>2 DEF PlatformStop
  <2>3. CASE PlatformDone(t)
    BY <1>5, <2>3 DEF PlatformDone
  <2>4. CASE FreeAudio(t)
    BY <1>5, <2>4 DEF FreeAudio
  <2>5. CASE ClearStop(t)
    BY <1>5, <2>5 DEF ClearStop
  <2>6. CASE ClearPlay(t)
    BY <1>3, <2>6 DEF ClearPlay, PlayInv
  <2>7. CASE ExitAudio(t)
    BY <1>5, <2>7 DEF ExitAudio
  <2> QED
    BY <1>1, <2>1, <2>2, <2>3, <2>4, <2>5, <2>6, <2>7 DEF AudioThread
<1> QED
  BY <1>1, <1>3, <1>6, OutsideKept DEF streamVars, serverVars

(***************************************************************************)
(* The invariant, and that it says what the two properties say: a thread   *)
(* that owns a buffer exists, and none exists while a file is requested.   *)
(***************************************************************************)
FlowInv == TypeInv /\ SerialInv /\ UserInv /\ ConnInv

LEMMA FlowInit == StreamInit => FlowInv
<1> SUFFICES ASSUME StreamInit PROVE FlowInv
  OBVIOUS
<1>1. TypeInv
  BY TypeInit
<1>2. SerialInv
  BY DEF StreamInit, Init, SerialInv, OneSongAtATime, HandlerAlone, FlagShowsThread, NewThreadHoldsHandler,
         Exists, Busy
<1>3. UserInv
  BY DEF StreamInit, UserInv
<1>4. NoChunks /\ cpc # "transfer" /\ ~s_ready /\ s2c = <<>> /\ c_got.type = "none"
  BY DEF StreamInit, NoChunks, IsChunk, Nothing
<1>5. ClientInv /\ RequestInv /\ WireInv /\ PlayInv
  BY DEF StreamInit, Init, ClientInv, RequestInv, WireInv, PlayInv, Nothing
<1>6. TokenInv /\ DataInv
  BY <1>4 DEF TokenInv, DataInv
<1>7. OrderInv
  BY <1>4 DEF OrderInv, NoChunks
<1> QED
  BY <1>1, <1>2, <1>3, <1>5, <1>6, <1>7 DEF FlowInv, ConnInv

LEMMA FlowStep == ASSUME WholeFiles PROVE FlowInv /\ [StreamNext]_svars => FlowInv'
<1> SUFFICES ASSUME FlowInv, [StreamNext]_svars PROVE FlowInv'
  OBVIOUS
<1> USE DEF FlowInv
<1>1. TypeInv'
  BY TypeStep
<1>2. SerialInv'
  BY SerialStepAll DEF WholeFiles
<1>3. ASSUME UNCHANGED <<upc, slotVars>> PROVE UserInv'
  BY <1>3 DEF UserInv, slotVars
<1>4. CASE ClientUser
  BY <1>1, <1>2, <1>4, ConnUser
<1>5. CASE ClientSocket
  BY <1>1, <1>2, <1>5, ConnClient
<1>6. CASE ServerSocket
  <2>1. UNCHANGED <<upc, slotVars>>
    BY <1>6 DEF ServerSocket, ServerRecv, ServerSend, ParseNothing, ParsePlay, ParsePause, ParseSkip, SkipDone,
                ParsePlayReq, ParseStart, ParseMiddle, ParseEnd, ParseMissing, Parse, userVars
  <2> QED
    BY <1>1, <1>2, <1>3, <1>6, <2>1, ConnServer
<1>7. CASE RemoteHandler
  <2>1. UNCHANGED <<upc, slotVars>>
    BY <1>7 DEF RemoteHandler, WriteRequest, SetRequestReady, RequestSent, SongReady, StartRemote, userVars, streamVars
  <2> QED
    BY <1>1, <1>2, <1>3, <1>7, <2>1, ConnHandler
<1>8. ASSUME UNCHANGED streamVars PROVE UserInv'
  BY <1>3, <1>8 DEF streamVars, userVars
<1>9. CASE LocalHandler
  BY <1>1, <1>2, <1>8, <1>9, ConnHandler DEF LocalHandler
<1>10. CASE ServerUser
  BY <1>1, <1>2, <1>8, <1>10, ConnServerUser DEF ServerUser
<1>11. ASSUME NEW t \in Threads, ServerAudio(t) PROVE FlowInv'
  BY <1>1, <1>2, <1>8, <1>11, ConnAudio DEF ServerAudio
<1>12. CASE UNCHANGED svars
  BY <1>1, <1>2, <1>8, <1>12, ConnKept DEF svars, vars, streamVars, flags, threadVars
<1> QED
  BY <1>4, <1>5, <1>6, <1>7, <1>9, <1>10, <1>11, <1>12 DEF StreamNext

LEMMA FlowProperties == ASSUME WholeFiles, FlowInv PROVE StartComplete /\ WriteTarget
<1> USE DEF FlowInv
<1>1. StartComplete
  BY DEF StartComplete, ConnInv, PlayInv, Complete, Held, Size
<1>2. WriteTarget
  <2> SUFFICES ASSUME s_got.type \in {"middle", "end"}
               PROVE  audio \in live /\ \A t \in Threads : Owner(t) => param[t] # audio
    BY DEF WriteTarget
  <2>1. audio \in live
    BY ChunkStored DEF Held
  <2>2. Requesting
    BY ChunkInHand DEF IsChunk
  <2>3. \A t \in Threads : ~Exists(t)
    BY <2>2 DEF SerialInv, HandlerAlone, Busy, Requesting
  <2> QED
    BY <2>1, <2>3 DEF Owner, Exists
<1> QED
  BY <1>1, <1>2

(* The invariant holds of every behaviour. *)
LEMMA Flow == ASSUME WholeFiles PROVE StreamSpec => []FlowInv
  BY FlowInit, FlowStep, PTL DEF StreamSpec

(***************************************************************************)
(* A song of the client begins with all of its packets in the buffer the   *)
(* audio thread gets, for every number of packets, and however the client's *)
(* pauses, skips and new requests cross the transfer.                      *)
(***************************************************************************)
THEOREM SongsComplete == ASSUME WholeFiles PROVE StreamSpec => []StartComplete
<1>1. FlowInv => StartComplete
  BY FlowProperties
<1> QED
  BY <1>1, Flow, PTL

(***************************************************************************)
(* A packet of a file is written to a buffer that is allocated and that no *)
(* audio thread is playing.                                                *)
(***************************************************************************)
THEOREM PacketsFindBuffer == ASSUME WholeFiles PROVE StreamSpec => []WriteTarget
<1>1. FlowInv => WriteTarget
  BY FlowProperties
<1> QED
  BY <1>1, Flow, PTL

-----------------------------------------------------------------------------
(* Sequences of sequences *)

(* Induction over the natural numbers, for a set of them. *)
LEMMA NatInduct ==
  ASSUME NEW S, 0 \in S, \A n \in Nat : n \in S => n + 1 \in S
  PROVE  Nat \subseteq S
<1> DEFINE T == Nat \ S
<1> SUFFICES ASSUME T # {}
             PROVE  FALSE
  OBVIOUS
<1>1. PICK m \in T : \A k \in T : ~ (<<k, m>> \in OpToRel(<, Nat))
  <2>1. T \subseteq Nat
    OBVIOUS
  <2> HIDE DEF T
  <2> QED
    BY <2>1, WFMin, NatLessThanWellFounded
<1>2. m \in Nat /\ m \notin S /\ m # 0
  OBVIOUS
<1>3. m - 1 \in Nat /\ m - 1 < m /\ (m - 1) + 1 = m
  BY <1>2
<1>4. <<m - 1, m>> \in OpToRel(<, Nat)
  BY <1>2, <1>3 DEF OpToRel
<1>5. m - 1 \in S
  BY <1>1, <1>3, <1>4
<1> QED
  BY <1>2, <1>3, <1>5

\* v[i] are the first i sequences of s, one behind the other.
Flattens(v, s) == v = [i \in 1 .. Len(s) |-> IF i = 1 THEN s[i] ELSE v[i - 1] \o s[i]]

(* Every sequence of sequences can be flattened. *)
LEMMA FlattensExists ==
  ASSUME NEW S
  PROVE  \A s \in Seq(Seq(S)) : \E v : Flattens(v, s)
<1> DEFINE N == {n \in Nat : \A s \in Seq(Seq(S)) : Len(s) = n => \E v : Flattens(v, s)}
<1>1. 0 \in N
  <2>1. ASSUME NEW s \in Seq(Seq(S)), Len(s) = 0
        PROVE  \E v : Flattens(v, s)
    <3>1. Flattens([i \in {} |-> <<>>], s)
      BY <2>1 DEF Flattens
    <3> QED
      BY <3>1
  <2> QED
    BY <2>1
<1>2. ASSUME NEW n \in Nat, n \in N
      PROVE  n + 1 \in N
  <2>1. ASSUME NEW s \in Seq(Seq(S)), Len(s) = n + 1
        PROVE  \E v : Flattens(v, s)
    <3>1. s # <<>>
      BY <2>1, EmptySeq
    <3>2. PICK r \in Seq(Seq(S)), x \in Seq(S) : s = Append(r, x)
      BY <3>1, SequenceEmptyOrAppend
    <3>3. Len(r) = n /\ \A i \in 1 .. n : s[i] = r[i]
      BY <2>1, <3>2, AppendProperties, LenProperties
    <3>4. PICK v : Flattens(v, r)
      BY <1>2, <3>3
    <3> DEFINE w == [i \in 1 .. n + 1 |->
                       IF i = n + 1 THEN (IF i = 1 THEN s[i] ELSE v[n] \o s[i]) ELSE v[i]]
    <3>5. \A i \in 1 .. n + 1 : w[i] = IF i = 1 THEN s[i] ELSE w[i - 1] \o s[i]
      <4>1. \A i \in 1 .. n : v[i] = IF i = 1 THEN s[i] ELSE v[i - 1] \o s[i]
        BY <3>3, <3>4 DEF Flattens
      <4> QED
        BY <4>1
    <3>6. Flattens(w, s)
      BY <2>1, <3>5 DEF Flattens
    <3> HIDE DEF w
    <3> QED
      BY <3>6
  <2> QED
    BY <2>1
<1>3. Nat \subseteq N
  <2> HIDE DEF N
  <2> QED
    BY <1>1, <1>2, NatInduct
<1>4. ASSUME NEW s \in Seq(Seq(S))
      PROVE  \E v : Flattens(v, s)
  <2>1. Len(s) \in N
    BY <1>3, LenProperties
  <2> QED
    BY <2>1
<1> QED
  BY <1>4

(* FlattenSeq flattens. *)
LEMMA FlattenIs ==
  ASSUME NEW S, NEW s \in Seq(Seq(S)), s # <<>>
  PROVE  \E v : Flattens(v, s) /\ FlattenSeq(s) = v[Len(s)]
<1>1. Len(s) # 0
  BY EmptySeq
<1>2. PICK v : v = CHOOSE u : Flattens(u, s)
  OBVIOUS
<1>3. FlattenSeq(s) = v[Len(s)]
  BY <1>1, <1>2 DEF FlattenSeq, Flattens
<1>4. Flattens(v, s)
  BY <1>2, FlattensExists
<1> QED
  BY <1>3, <1>4

(* Two ways of flattening agree, as far as both go. *)
LEMMA FlattensAgree ==
  ASSUME NEW S, NEW r \in Seq(S), NEW x \in S,
         NEW v, Flattens(v, r), NEW u, Flattens(u, Append(r, x))
  PROVE  \A k \in 1 .. Len(r) : v[k] = u[k]
<1>1. PICK n \in Nat : n = Len(r)
  BY LenProperties
<1>2. PICK s : s = Append(r, x)
  OBVIOUS
<1>3. Len(s) = n + 1 /\ \A i \in 1 .. n : s[i] = r[i]
  BY <1>1, <1>2, AppendProperties
<1>4. \A i \in 1 .. n : v[i] = IF i = 1 THEN r[i] ELSE v[i - 1] \o r[i]
  BY <1>1 DEF Flattens
<1>5. \A i \in 1 .. n : u[i] = IF i = 1 THEN r[i] ELSE u[i - 1] \o r[i]
  <2>1. \A i \in 1 .. n + 1 : u[i] = IF i = 1 THEN s[i] ELSE u[i - 1] \o s[i]
    BY <1>2, <1>3 DEF Flattens
  <2> QED
    BY <1>3, <2>1
<1> DEFINE N == {k \in Nat : k \in 1 .. n => v[k] = u[k]}
<1>6. 0 \in N
  OBVIOUS
<1>7. ASSUME NEW k \in Nat, k \in N
      PROVE  k + 1 \in N
  <2>1. CASE k + 1 \in 1 .. n /\ k # 0
    <3>1. k \in 1 .. n /\ k + 1 # 1 /\ (k + 1) - 1 = k
      BY <2>1
    <3>2. v[k + 1] = v[k] \o r[k + 1] /\ u[k + 1] = u[k] \o r[k + 1]
      BY <1>4, <1>5, <2>1, <3>1
    <3>3. v[k] = u[k]
      BY <1>7, <3>1
    <3>4. v[k + 1] = u[k + 1]
      BY <3>2, <3>3
    <3> QED
      BY <3>4
  <2>2. CASE k + 1 \in 1 .. n /\ k = 0
    BY <1>4, <1>5, <2>2
  <2> QED
    BY <2>1, <2>2
<1>8. Nat \subseteq N
  <2> HIDE DEF N
  <2> QED
    BY <1>6, <1>7, NatInduct
<1> QED
  BY <1>1, <1>8

(* One sequence more. *)
LEMMA FlattenAppend ==
  ASSUME NEW S, NEW r \in Seq(Seq(S)), NEW x \in Seq(S)
  PROVE  FlattenSeq(Append(r, x)) = FlattenSeq(r) \o x
<1>1. PICK s \in Seq(Seq(S)), n \in Nat : s = Append(r, x) /\ n = Len(r)
  BY AppendProperties, LenProperties
<1>2. s \in Seq(Seq(S)) /\ s # <<>> /\ Len(s) = n + 1 /\ s[n + 1] = x
  BY <1>1, AppendProperties
<1>3. PICK u : Flattens(u, s) /\ FlattenSeq(s) = u[Len(s)]
  BY <1>2, FlattenIs
<1>4. \A i \in 1 .. n + 1 : u[i] = IF i = 1 THEN s[i] ELSE u[i - 1] \o s[i]
  BY <1>2, <1>3 DEF Flattens
<1>5. CASE r = <<>>
  <2>1. n = 0 /\ FlattenSeq(r) = <<>>
    BY <1>1, <1>5, EmptySeq DEF FlattenSeq
  <2>2. FlattenSeq(s) = x
    BY <1>2, <1>3, <1>4, <2>1
  <2>3. <<>> \o x = x
    BY ConcatEmptySeq
  <2> QED
    BY <1>1, <2>1, <2>2, <2>3
<1>6. CASE r # <<>>
  <2>1. n \in Nat \ {0}
    BY <1>1, <1>6, EmptySeq
  <2>2. PICK v : Flattens(v, r) /\ FlattenSeq(r) = v[n]
    BY <1>1, <1>6, FlattenIs
  <2>3. v[n] = u[n]
    <3>1. \A k \in 1 .. Len(r) : v[k] = u[k]
      BY <1>1, <1>3, <2>2, FlattensAgree
    <3> QED
      BY <1>1, <2>1, <3>1
  <2>4. u[n + 1] = u[n] \o x
    <3>1. n + 1 \in 1 .. n + 1 /\ n + 1 # 1 /\ (n + 1) - 1 = n
      BY <2>1
    <3> QED
      BY <1>2, <1>4, <3>1
  <2> QED
    BY <1>1, <1>2, <1>3, <2>2, <2>3, <2>4
<1> QED
  BY <1>5, <1>6

(* What is flattened is a sequence, and a sequence of sequences may be cut *)
(* in two before.                                                          *)
LEMMA FlattenConcat ==
  ASSUME NEW S
  PROVE  \A t \in Seq(Seq(S)) :
           /\ FlattenSeq(t) \in Seq(S)
           /\ \A s \in Seq(Seq(S)) : FlattenSeq(s \o t) = FlattenSeq(s) \o FlattenSeq(t)
<1>0. FlattenSeq(<<>>) = <<>>
  BY DEF FlattenSeq
<1> DEFINE A == {t \in Seq(Seq(S)) : FlattenSeq(t) \in Seq(S)}
           N == {n \in Nat : \A t \in Seq(Seq(S)) : Len(t) = n => t \in A}
<1>1. 0 \in N
  <2>1. \A t \in Seq(Seq(S)) : Len(t) = 0 => t = <<>>
    BY EmptySeq
  <2> QED
    BY <1>0, <2>1
<1>2. ASSUME NEW n \in Nat, n \in N
      PROVE  n + 1 \in N
  <2>1. ASSUME NEW t \in Seq(Seq(S)), Len(t) = n + 1
        PROVE  FlattenSeq(t) \in Seq(S)
    <3>1. t # <<>>
      BY <2>1, EmptySeq
    <3>2. PICK r \in Seq(Seq(S)), x \in Seq(S) : t = Append(r, x)
      BY <3>1, SequenceEmptyOrAppend
    <3>3. Len(r) = n
      BY <2>1, <3>2, AppendProperties, LenProperties
    <3>4. FlattenSeq(r) \in Seq(S)
      BY <1>2, <3>3
    <3>5. FlattenSeq(t) = FlattenSeq(r) \o x
      BY <3>2, FlattenAppend
    <3> QED
      BY <3>4, <3>5, ConcatProperties
  <2> QED
    BY <2>1
<1>3. Nat \subseteq N
  <2> HIDE DEF N
  <2> QED
    BY <1>1, <1>2, NatInduct
<1>4. \A t \in Seq(Seq(S)) : FlattenSeq(t) \in Seq(S)
  <2>1. \A t \in Seq(Seq(S)) : Len(t) \in N
    BY <1>3, LenProperties
  <2> QED
    BY <2>1
<1> DEFINE C == {t \in Seq(Seq(S)) :
                   \A s \in Seq(Seq(S)) : FlattenSeq(s \o t) = FlattenSeq(s) \o FlattenSeq(t)}
           M == {n \in Nat : \A t \in Seq(Seq(S)) : Len(t) = n => t \in C}
<1>5. 0 \in M
  <2>1. ASSUME NEW t \in Seq(Seq(S)), Len(t) = 0, NEW s \in Seq(Seq(S))
        PROVE  FlattenSeq(s \o t) = FlattenSeq(s) \o FlattenSeq(t)
    <3>1. t = <<>>
      BY <2>1, EmptySeq
    <3>2. s \o t = s
      BY <3>1, ConcatEmptySeq
    <3>3. FlattenSeq(s) \o <<>> = FlattenSeq(s)
      BY <1>4, ConcatEmptySeq
    <3> QED
      BY <1>0, <3>1, <3>2, <3>3
  <2> QED
    BY <2>1
<1>6. ASSUME NEW n \in Nat, n \in M
      PROVE  n + 1 \in M
  <2>1. ASSUME NEW t \in Seq(Seq(S)), Len(t) = n + 1, NEW s \in Seq(Seq(S))
        PROVE  FlattenSeq(s \o t) = FlattenSeq(s) \o FlattenSeq(t)
    <3>1. t # <<>>
      BY <2>1, EmptySeq
    <3>2. PICK r \in Seq(Seq(S)), x \in Seq(S) : t = Append(r, x)
      BY <3>1, SequenceEmptyOrAppend
    <3>3. Len(r) = n
      BY <2>1, <3>2, AppendProperties, LenProperties
    <3>4. FlattenSeq(s \o r) = FlattenSeq(s) \o FlattenSeq(r)
      BY <1>6, <3>3
    <3>5. s \o t = Append(s \o r, x) /\ s \o r \in Seq(Seq(S))
      <4>1. s \o r \in Seq(Seq(S)) /\ <<x>> \in Seq(Seq(S))
        BY ConcatProperties
      <4>2. t = r \o <<x>> /\ Append(s \o r, x) = (s \o r) \o <<x>>
        BY <3>2, <4>1, AppendIsConcat
      <4>3. (s \o r) \o <<x>> = s \o (r \o <<x>>)
        BY <4>1, ConcatAssociative, SMTT(30)
      <4> QED
        BY <4>1, <4>2, <4>3
    <3>6. FlattenSeq(s \o t) = FlattenSeq(s \o r) \o x /\ FlattenSeq(t) = FlattenSeq(r) \o x
      BY <3>2, <3>5, FlattenAppend
    <3>7. (FlattenSeq(s) \o FlattenSeq(r)) \o x = FlattenSeq(s) \o (FlattenSeq(r) \o x)
      BY <1>4, ConcatAssociative, SMTT(30)
    <3> QED
      BY <3>4, <3>6, <3>7
  <2> QED
    BY <2>1
<1>7. Nat \subseteq M
  <2> HIDE DEF M
  <2> QED
    BY <1>5, <1>6, NatInduct
<1>8. \A t \in Seq(Seq(S)), s \in Seq(Seq(S)) : FlattenSeq(s \o t) = FlattenSeq(s) \o FlattenSeq(t)
  <2>1. \A t \in Seq(Seq(S)) : Len(t) \in M
    BY <1>7, LenProperties
  <2> QED
    BY <2>1
<1> QED
  BY <1>4, <1>8

-----------------------------------------------------------------------------
(* The files that packets and entries name *)

\* g makes a sequence over S of each element of E.
Makes(g, E, S) == g \in [E -> Seq(S)]

\* What g makes of the elements of s, one behind the other.
Gather(g, s) == FlattenSeq([k \in DOMAIN s |-> g[s[k]]])

(* Gathered from two sequences. *)
LEMMA GatherCat ==
  ASSUME NEW E, NEW S, NEW g, Makes(g, E, S), NEW s \in Seq(E), NEW t \in Seq(E)
  PROVE  /\ Gather(g, s) \in Seq(S) /\ Gather(g, t) \in Seq(S)
         /\ Gather(g, s \o t) = Gather(g, s) \o Gather(g, t)
<1> DEFINE each(q) == [k \in DOMAIN q |-> g[q[k]]]
<1>2. ASSUME NEW q \in Seq(E)
      PROVE  each(q) \in Seq(Seq(S)) /\ Len(each(q)) = Len(q)
  <2>1. PICK n \in Nat : n = Len(q) /\ DOMAIN q = 1 .. n /\ \A k \in 1 .. n : q[k] \in E
    BY LenProperties, ElementOfSeq
  <2>2. each(q) \in [1 .. n -> Seq(S)]
    BY <2>1 DEF Makes
  <2>3. each(q) \in Seq(Seq(S))
    <3>1. PICK f, T : f = each(q) /\ T = Seq(S)
      OBVIOUS
    <3>2. f \in [1 .. n -> T]
      BY <2>2, <3>1
    <3>3. f \in Seq(T)
      BY <3>2, SeqDef
    <3> QED
      BY <3>1, <3>3
  <2> QED
    BY <2>1, <2>2, <2>3, LenProperties
<1>3. each(s \o t) = each(s) \o each(t)
  <2>1. PICK m \in Nat, n \in Nat : m = Len(s) /\ n = Len(t)
    BY LenProperties
  <2>2. /\ s \o t \in Seq(E) /\ Len(s \o t) = m + n
        /\ \A i \in 1 .. m + n : (s \o t)[i] = IF i <= m THEN s[i] ELSE t[i - m]
    BY <2>1, ConcatProperties
  <2>3. DOMAIN s = 1 .. m /\ DOMAIN t = 1 .. n /\ DOMAIN (s \o t) = 1 .. m + n
    BY <2>1, <2>2, LenProperties
  <2>4. /\ each(s) \in Seq(Seq(S)) /\ Len(each(s)) = m
        /\ each(t) \in Seq(Seq(S)) /\ Len(each(t)) = n
        /\ each(s \o t) \in Seq(Seq(S)) /\ Len(each(s \o t)) = m + n
    BY <1>2, <2>1, <2>2
  <2>5. /\ \A i \in 1 .. m : each(s)[i] = g[s[i]]
        /\ \A i \in 1 .. n : each(t)[i] = g[t[i]]
        /\ \A i \in 1 .. m + n : each(s \o t)[i] = g[(s \o t)[i]]
    BY <2>3
  <2> HIDE DEF each
  <2>6. /\ each(s) \o each(t) \in Seq(Seq(S)) /\ Len(each(s) \o each(t)) = m + n
        /\ \A i \in 1 .. m + n :
             (each(s) \o each(t))[i] = IF i <= m THEN each(s)[i] ELSE each(t)[i - m]
    BY <2>4, ConcatProperties
  <2>7. ASSUME NEW i \in 1 .. m + n
        PROVE  each(s \o t)[i] = (each(s) \o each(t))[i]
    <3>1. CASE i <= m
      <4>1. i \in 1 .. m
        BY <3>1
      <4>2. each(s \o t)[i] = g[s[i]]
        BY <2>2, <2>5, <3>1
      <4>3. (each(s) \o each(t))[i] = each(s)[i]
        BY <2>6, <3>1
      <4> QED
        BY <2>5, <4>1, <4>2, <4>3
    <3>2. CASE ~(i <= m)
      <4>1. i - m \in 1 .. n
        BY <3>2
      <4>2. each(s \o t)[i] = g[t[i - m]]
        BY <2>2, <2>5, <3>2
      <4>3. (each(s) \o each(t))[i] = each(t)[i - m]
        BY <2>6, <3>2
      <4> QED
        BY <2>5, <4>1, <4>2, <4>3
    <3> QED
      BY <3>1, <3>2
  <2> QED
    BY <2>4, <2>6, <2>7, SeqEqual
<1>4. each(s) \in Seq(Seq(S)) /\ each(t) \in Seq(Seq(S))
  BY <1>2
<1>5. /\ Gather(g, s) = FlattenSeq(each(s)) /\ Gather(g, t) = FlattenSeq(each(t))
      /\ Gather(g, s \o t) = FlattenSeq(each(s \o t))
  BY DEF Gather
<1> HIDE DEF each
<1>6. /\ FlattenSeq(each(s)) \in Seq(S) /\ FlattenSeq(each(t)) \in Seq(S)
      /\ FlattenSeq(each(s) \o each(t)) = FlattenSeq(each(s)) \o FlattenSeq(each(t))
  BY <1>4, FlattenConcat
<1> QED
  BY <1>3, <1>5, <1>6

(* Gathered from nothing, and from one element. *)
LEMMA GatherOne ==
  ASSUME NEW E, NEW S, NEW g \in [E -> Seq(S)], NEW e \in E
  PROVE  Gather(g, <<>>) = <<>> /\ Gather(g, <<e>>) = g[e]
<1>1. FlattenSeq(<<>>) = <<>>
  BY DEF FlattenSeq
<1>2. Gather(g, <<>>) = <<>>
  <2>1. [k \in DOMAIN <<>> |-> g[<<>>[k]]] = <<>>
    OBVIOUS
  <2> QED
    BY <1>1, <2>1 DEF Gather
<1>3. PICK x \in Seq(S) : x = g[e]
  OBVIOUS
<1>4. FlattenSeq(<<x>>) = x
  <2>1. <<>> \in Seq(Seq(S))
    BY EmptySeq
  <2>2. FlattenSeq(Append(<<>>, x)) = FlattenSeq(<<>>) \o x
    BY <2>1, FlattenAppend
  <2>3. Append(<<>>, x) = <<x>> /\ <<>> \o x = x
    BY ConcatEmptySeq
  <2> QED
    BY <1>1, <2>2, <2>3
<1>5. [k \in DOMAIN <<e>> |-> g[<<e>>[k]]] = <<x>>
  BY <1>3
<1> QED
  BY <1>2, <1>3, <1>4, <1>5 DEF Gather

Names == Files \cup {NULL}

\* The files that one packet, and one entry, adds to those that are named.
FileOf(type) == [p \in Packets |-> If(p.type = type, <<p.file>>)]
NameOf == [e \in RemoteEntries |-> If(e.src = Client, <<e.filename>>)]

(* The files of packets are gathered packet by packet. *)
LEMMA FilesGather ==
  ASSUME NEW type
  PROVE  /\ FileOf(type) \in [Packets -> Seq(Names)]
         /\ \A s \in Seq(Packets) : FilesIn(s, type) = Gather(FileOf(type), s)
<1>1. FileOf(type) \in [Packets -> Seq(Names)]
  <2>1. ASSUME NEW p \in Packets
        PROVE  If(p.type = type, <<p.file>>) \in Seq(Names)
    <3>1. p.file \in Names
      BY DEF Packets, Names
    <3> QED
      BY <3>1 DEF If
  <2> QED
    BY <2>1 DEF FileOf
<1>2. ASSUME NEW s \in Seq(Packets)
      PROVE  FilesIn(s, type) = Gather(FileOf(type), s)
  <2>1. \A k \in DOMAIN s : s[k] \in Packets
    BY LenProperties, ElementOfSeq
  <2>2. [k \in DOMAIN s |-> If(s[k].type = type, <<s[k].file>>)] = [k \in DOMAIN s |-> FileOf(type)[s[k]]]
    BY <2>1 DEF FileOf
  <2> QED
    BY <2>2 DEF FilesIn, Gather
<1> QED
  BY <1>1, <1>2

(* The files of two sequences of packets. *)
LEMMA FilesCat ==
  ASSUME NEW s \in Seq(Packets), NEW t \in Seq(Packets), NEW type
  PROVE  /\ FilesIn(s, type) \in Seq(Names) /\ FilesIn(t, type) \in Seq(Names)
         /\ FilesIn(s \o t, type) = FilesIn(s, type) \o FilesIn(t, type)
<1>1. s \o t \in Seq(Packets)
  BY ConcatProperties
<1>2. PICK g, S : Makes(g, Packets, S) /\ g = FileOf(type) /\ S = Names
  BY FilesGather DEF Makes
<1>3. /\ Gather(g, s) \in Seq(S) /\ Gather(g, t) \in Seq(S)
      /\ Gather(g, s \o t) = Gather(g, s) \o Gather(g, t)
  <2>1. Makes(g, Packets, S) /\ s \in Seq(Packets) /\ t \in Seq(Packets)
    BY <1>2
  <2>2. Gather(g, s) \in Seq(S)
    BY <2>1, GatherCat
  <2>3. Gather(g, t) \in Seq(S)
    BY <2>1, GatherCat
  <2>4. Gather(g, s \o t) = Gather(g, s) \o Gather(g, t)
    BY <2>1, GatherCat
  <2> QED
    BY <2>2, <2>3, <2>4
<1> QED
  BY <1>1, <1>2, <1>3, FilesGather

(* The file of one packet. *)
LEMMA FilesOne ==
  ASSUME NEW p \in Packets, NEW type
  PROVE  /\ FilesIn(<<>>, type) = <<>>
         /\ p.type = type => FilesIn(<<p>>, type) = <<p.file>>
         /\ p.type # type => FilesIn(<<p>>, type) = <<>>
<1>1. <<>> \in Seq(Packets) /\ <<p>> \in Seq(Packets)
  OBVIOUS
<1>2. FilesIn(<<>>, type) = <<>> /\ FilesIn(<<p>>, type) = FileOf(type)[p]
  BY <1>1, FilesGather, GatherOne, ZenonT(40)
<1> QED
  BY <1>2 DEF FileOf, If

(* The files of entries are gathered entry by entry. *)
LEMMA NamesGather ==
  /\ NameOf \in [RemoteEntries -> Seq(Names)]
  /\ \A s \in Seq(RemoteEntries) : RemoteFiles(s) = Gather(NameOf, s)
<1>1. NameOf \in [RemoteEntries -> Seq(Names)]
  <2>1. ASSUME NEW e \in RemoteEntries
        PROVE  If(e.src = Client, <<e.filename>>) \in Seq(Names)
    <3>1. e.filename \in Names
      BY DEF RemoteEntries, Names
    <3> QED
      BY <3>1 DEF If
  <2> QED
    BY <2>1 DEF NameOf
<1>2. ASSUME NEW s \in Seq(RemoteEntries)
      PROVE  RemoteFiles(s) = Gather(NameOf, s)
  <2>1. \A k \in DOMAIN s : s[k] \in RemoteEntries
    BY LenProperties, ElementOfSeq
  <2>2. [k \in DOMAIN s |-> If(s[k].src = Client, <<s[k].filename>>)] = [k \in DOMAIN s |-> NameOf[s[k]]]
    BY <2>1 DEF NameOf
  <2> QED
    BY <2>2 DEF RemoteFiles, Gather
<1> QED
  BY <1>1, <1>2

(* The files of two sequences of entries. *)
LEMMA NamesCat ==
  ASSUME NEW s \in Seq(RemoteEntries), NEW t \in Seq(RemoteEntries)
  PROVE  /\ RemoteFiles(s) \in Seq(Names) /\ RemoteFiles(t) \in Seq(Names)
         /\ RemoteFiles(s \o t) = RemoteFiles(s) \o RemoteFiles(t)
<1>1. s \o t \in Seq(RemoteEntries)
  BY ConcatProperties
<1>2. PICK g, S : Makes(g, RemoteEntries, S) /\ g = NameOf /\ S = Names
  BY NamesGather DEF Makes
<1>3. /\ Gather(g, s) \in Seq(S) /\ Gather(g, t) \in Seq(S)
      /\ Gather(g, s \o t) = Gather(g, s) \o Gather(g, t)
  <2>1. Makes(g, RemoteEntries, S) /\ s \in Seq(RemoteEntries) /\ t \in Seq(RemoteEntries)
    BY <1>2
  <2>2. Gather(g, s) \in Seq(S)
    BY <2>1, GatherCat
  <2>3. Gather(g, t) \in Seq(S)
    BY <2>1, GatherCat
  <2>4. Gather(g, s \o t) = Gather(g, s) \o Gather(g, t)
    BY <2>1, GatherCat
  <2> QED
    BY <2>2, <2>3, <2>4
<1> QED
  BY <1>1, <1>2, <1>3, NamesGather

(* The file of one entry. *)
LEMMA NamesOne ==
  ASSUME NEW e \in RemoteEntries
  PROVE  /\ RemoteFiles(<<>>) = <<>>
         /\ e.src = Client => RemoteFiles(<<e>>) = <<e.filename>>
         /\ e.src # Client => RemoteFiles(<<e>>) = <<>>
<1>1. <<>> \in Seq(RemoteEntries) /\ <<e>> \in Seq(RemoteEntries)
  OBVIOUS
<1>2. RemoteFiles(<<>>) = <<>> /\ RemoteFiles(<<e>>) = NameOf[e]
  BY <1>1, NamesGather, GatherOne
<1> QED
  BY <1>2 DEF NameOf, If

-----------------------------------------------------------------------------
(***************************************************************************)
(* The client's queue mirrors the server's as long as no file of the       *)
(* client is missing or empty (a missing file has the socket thread write  *)
(* into the user's slot, WriteError).  Beside the mirror itself, a slot    *)
(* holds what the thread that fills it put there until it is sent.         *)
(***************************************************************************)
NoneMissing == \A f \in Files : Chunks[f] > 0

SlotsInv ==
  /\ c_ready => upc = "spin"
  /\ upc = "push" => c_buf.type = "play_req" /\ c_buf.file = wanted
  /\ cpc \notin {"error", "flush"}
  /\ s_ready => hpc = "sent"
  /\ hpc = "ready" => front.src = Client /\ s_buf.type = "file_req" /\ s_buf.file = front.filename

MirrorInv == TypeInv /\ SlotsInv /\ QueueMirror

\* Where a request or a PLAY_REQ may be: the places FilesIn reads in order.
InClient == If(cpc \in {"send", "parse"}, <<c_got>>)
InRequest == If(s_ready, <<s_buf>>)
InHandler == If(hpc \in {"load", "ready"}, <<front>>)
InServer == If(spc \in {"send", "parse"}, <<s_got>>)
InSlot == If(upc = "ready" \/ c_ready, <<c_buf>>)

\* Concatenation under names of its own, and the files that packets of a type
\* name in three places.
Behind(a, b) == a \o b
Line(a, b, c) == (a \o b) \o c
Named(got, wire, slot, type) == FilesIn(Line(got, wire, slot), type)

\* How the client's queue is made up of what is requested (a packet, or in the
\* handler's hand), what is queued, and what is yet to be queued.
Mirror(c, a, h, q, z) == c = Behind(Behind(Behind(a, h), q), z)

\* What is requested, in hand, queued and yet to be queued.
Asked == Named(InClient, s2c, InRequest, "file_req")
InHand == RemoteFiles(InHandler)
AskedLater == RemoteFiles(file_queue)
ToQueue == Named(InServer, c2s, InSlot, "play_req")

(* The mirror, in those words, before a step and after it. *)
LEMMA WholeMirror == QueueMirror <=> Mirror(c_queue, Asked, InHand, AskedLater, ToQueue)
BY DEF QueueMirror, Mirror, Behind, RequestUnderWay, PlayReqsUnderWay, Named, Line, Asked, InHand, AskedLater, ToQueue,
       InClient, InRequest, InHandler, InServer, InSlot

LEMMA WholeMirrorNext == QueueMirror' <=> Mirror(c_queue', Asked', InHand', AskedLater', ToQueue')
BY DEF QueueMirror, Mirror, Behind, RequestUnderWay, PlayReqsUnderWay, Named, Line, Asked, InHand, AskedLater, ToQueue,
       InClient, InRequest, InHandler, InServer, InSlot

\* The sequences that the packets under way are in.
Places ==
  /\ InClient \in Seq(Packets) /\ s2c \in Seq(Packets) /\ InRequest \in Seq(Packets)
  /\ InHandler \in Seq(RemoteEntries) /\ file_queue \in Seq(RemoteEntries)
  /\ InServer \in Seq(Packets) /\ c2s \in Seq(Packets) /\ InSlot \in Seq(Packets)

(* The packets and entries under way are packets and entries. *)
LEMMA PlacesTyped == TypeInv => Places
<1> SUFFICES ASSUME TypeInv
             PROVE  Places
  OBVIOUS
<1>1. c_got \in Packets /\ s_buf \in Packets /\ s_got \in Packets /\ c_buf \in Packets
      /\ s2c \in Seq(Packets) /\ c2s \in Seq(Packets) /\ file_queue \in Seq(RemoteEntries)
      /\ (hpc \in {"load", "ready"} => front \in RemoteEntries)
  BY DEF TypeInv, ServerTypes, ClientTypes, RequestTypes, SockTypes, SlotTypes, WireTypes, QueueTypes, ThreadTypes
<1>2. \A p \in Packets : <<p>> \in Seq(Packets)
  OBVIOUS
<1>3. \A e \in RemoteEntries : <<e>> \in Seq(RemoteEntries)
  OBVIOUS
<1>4. <<>> \in Seq(Packets) /\ <<>> \in Seq(RemoteEntries)
  OBVIOUS
<1> QED
  BY <1>1, <1>2, <1>3, <1>4 DEF Places, InClient, InRequest, InHandler, InServer, InSlot, If

(* They still are after a step. *)
LEMMA PlacesTypedNext == TypeInv' => Places'
<1> SUFFICES ASSUME TypeInv'
             PROVE  Places'
  OBVIOUS
<1>1. c_got' \in Packets /\ s_buf' \in Packets /\ s_got' \in Packets /\ c_buf' \in Packets
      /\ s2c' \in Seq(Packets) /\ c2s' \in Seq(Packets) /\ file_queue' \in Seq(RemoteEntries)
      /\ (hpc' \in {"load", "ready"} => front' \in RemoteEntries)
  BY DEF TypeInv, ServerTypes, ClientTypes, RequestTypes, SockTypes, SlotTypes, WireTypes, QueueTypes, ThreadTypes
<1>2. \A p \in Packets : <<p>> \in Seq(Packets)
  OBVIOUS
<1>3. \A e \in RemoteEntries : <<e>> \in Seq(RemoteEntries)
  OBVIOUS
<1>4. <<>> \in Seq(Packets) /\ <<>> \in Seq(RemoteEntries)
  OBVIOUS
<1> QED
  BY <1>1, <1>2, <1>3, <1>4 DEF Places, InClient, InRequest, InHandler, InServer, InSlot, If

(* The files of three sequences of packets. *)
LEMMA FilesThree ==
  ASSUME NEW a \in Seq(Packets), NEW b \in Seq(Packets), NEW c \in Seq(Packets), NEW type
  PROVE  /\ FilesIn(Line(a, b, c), type) \in Seq(Names)
         /\ FilesIn(Line(a, b, c), type) = Line(FilesIn(a, type), FilesIn(b, type), FilesIn(c, type))
<1>1. a \o b \in Seq(Packets)
  BY ConcatProperties
<1>2. FilesIn(a \o b, type) = FilesIn(a, type) \o FilesIn(b, type)
      /\ FilesIn(a, type) \in Seq(Names) /\ FilesIn(b, type) \in Seq(Names)
  BY FilesCat
<1>3. FilesIn((a \o b) \o c, type) = FilesIn(a \o b, type) \o FilesIn(c, type)
      /\ FilesIn(a \o b, type) \in Seq(Names) /\ FilesIn(c, type) \in Seq(Names)
  BY <1>1, FilesCat, ZenonT(40)
<1>4. FilesIn(a \o b, type) \o FilesIn(c, type) \in Seq(Names)
  BY <1>3, ConcatProperties
<1> QED
  BY <1>2, <1>3, <1>4 DEF Line

(* What packets and entries name are sequences of names. *)
LEMMA FilesTyped == \A s \in Seq(Packets) : \A type : FilesIn(s, type) \in Seq(Names)
  BY FilesCat
LEMMA NamesTyped == \A s \in Seq(RemoteEntries) : RemoteFiles(s) \in Seq(Names)
  BY NamesCat

(* Nothing names nothing. *)
LEMMA EmptyFiles == (\A type : FilesIn(<<>>, type) = <<>>) /\ RemoteFiles(<<>>) = <<>>
  BY DEF FilesIn, RemoteFiles, FlattenSeq

(* Sequences of one element. *)
LEMMA Ones == /\ \A p \in Packets : <<p>> \in Seq(Packets)
              /\ \A e \in RemoteEntries : <<e>> \in Seq(RemoteEntries)
              /\ <<>> \in Seq(Packets) /\ <<>> \in Seq(RemoteEntries)
  OBVIOUS

(* What packets under way name, place by place. *)
LEMMA NamedByPlace ==
  ASSUME NEW got \in Seq(Packets), NEW w \in Seq(Packets), NEW slot \in Seq(Packets), NEW type
  PROVE  /\ Named(got, w, slot, type) \in Seq(Names)
         /\ Named(got, w, slot, type) = Line(FilesIn(got, type), FilesIn(w, type), FilesIn(slot, type))
  BY FilesThree DEF Named

(* A packet that is received stays under way. *)
LEMMA ReceivedStays ==
  ASSUME NEW w \in Seq(Packets), w # <<>>, NEW slot \in Seq(Packets), NEW type
  PROVE  Named(<<Head(w)>>, Tail(w), slot, type) = Named(<<>>, w, slot, type)
<1>1. <<Head(w)>> \o Tail(w) = w /\ <<>> \o w = w
  OBVIOUS
<1> QED
  BY <1>1 DEF Named, Line

(* A packet that is sent stays under way. *)
LEMMA SentStays ==
  ASSUME NEW got \in Seq(Packets), NEW w \in Seq(Packets), NEW p \in Packets, NEW type
  PROVE  Named(got, Append(w, p), <<>>, type) = Named(got, w, <<p>>, type)
<1>1. <<p>> \in Seq(Packets) /\ Append(w, p) = w \o <<p>>
  BY AppendIsConcat
<1>2. got \o Append(w, p) \in Seq(Packets)
  BY <1>1, ConcatProperties
<1>3. (got \o Append(w, p)) \o <<>> = got \o Append(w, p)
  BY <1>2, ConcatEmptySeq
<1>4. (got \o w) \o <<p>> = got \o (w \o <<p>>)
  BY <1>1, ConcatAssociative
<1> QED
  BY <1>1, <1>3, <1>4 DEF Named, Line

(* Sequences of names, one behind the other. *)
LEMMA Associate ==
  ASSUME NEW a \in Seq(Names), NEW b \in Seq(Names), NEW c \in Seq(Names)
  PROVE  /\ Line(a, b, c) = Behind(Behind(a, b), c)
         /\ Line(a, b, c) = Behind(a, Behind(b, c))
         /\ Behind(Behind(a, b), c) = Behind(a, Behind(b, c))
<1>1. (a \o b) \o c = a \o (b \o c)
  BY ConcatAssociative
<1> QED
  BY <1>1 DEF Behind, Line

(* Names behind names are names. *)
LEMMA BehindTyped ==
  ASSUME NEW a \in Seq(Names), NEW b \in Seq(Names)
  PROVE  Behind(a, b) \in Seq(Names)
  BY ConcatProperties DEF Behind

(* Nothing behind names, and names behind nothing. *)
LEMMA BehindEmpty ==
  ASSUME NEW a \in Seq(Names)
  PROVE  Behind(a, <<>>) = a /\ Behind(<<>>, a) = a
  BY ConcatEmptySeq DEF Behind

(* The files of two sequences, one behind the other. *)
LEMMA FilesBehind ==
  ASSUME NEW s \in Seq(Packets), NEW t \in Seq(Packets), NEW type
  PROVE  FilesIn(Behind(s, t), type) = Behind(FilesIn(s, type), FilesIn(t, type))
  BY FilesCat DEF Behind

(* What the first place names comes first. *)
LEMMA FirstPlace ==
  ASSUME NEW p \in Packets, NEW w \in Seq(Packets), NEW slot \in Seq(Packets), NEW type
  PROVE  Named(<<p>>, w, slot, type) = Behind(FilesIn(<<p>>, type), Named(<<>>, w, slot, type))
<1>1. PICK one \in Seq(Packets), none \in Seq(Packets) : one = <<p>> /\ none = <<>>
  BY Ones
<1>2. PICK a \in Seq(Names), b \in Seq(Names), c \in Seq(Names), n \in Seq(Names) :
        a = FilesIn(one, type) /\ b = FilesIn(w, type) /\ c = FilesIn(slot, type)
        /\ n = FilesIn(none, type) /\ n = <<>>
  BY <1>1, FilesTyped, EmptyFiles
<1>3. Named(one, w, slot, type) = Line(FilesIn(one, type), FilesIn(w, type), FilesIn(slot, type))
  BY NamedByPlace
<1>4. Named(none, w, slot, type) = Line(FilesIn(none, type), FilesIn(w, type), FilesIn(slot, type))
  BY NamedByPlace
<1>5. Line(a, b, c) = Behind(a, Behind(b, c))
  BY Associate
<1>6. Line(n, b, c) = Behind(Behind(n, b), c)
  BY Associate
<1>7. Behind(n, b) = b
  BY <1>2, BehindEmpty
<1> QED
  BY <1>1, <1>2, <1>3, <1>4, <1>5, <1>6, <1>7

(* What the last place names comes last. *)
LEMMA LastPlace ==
  ASSUME NEW got \in Seq(Packets), NEW w \in Seq(Packets), NEW p \in Packets, NEW type
  PROVE  Named(got, w, <<p>>, type) = Behind(Named(got, w, <<>>, type), FilesIn(<<p>>, type))
<1>1. PICK one \in Seq(Packets), none \in Seq(Packets) : one = <<p>> /\ none = <<>>
  BY Ones
<1>2. PICK a \in Seq(Names), b \in Seq(Names), c \in Seq(Names), n \in Seq(Names) :
        a = FilesIn(got, type) /\ b = FilesIn(w, type) /\ c = FilesIn(one, type)
        /\ n = FilesIn(none, type) /\ n = <<>>
  BY <1>1, FilesTyped, EmptyFiles
<1>3. Named(got, w, one, type) = Line(FilesIn(got, type), FilesIn(w, type), FilesIn(one, type))
  BY NamedByPlace
<1>4. Named(got, w, none, type) = Line(FilesIn(got, type), FilesIn(w, type), FilesIn(none, type))
  BY NamedByPlace
<1>5. Line(a, b, c) = Behind(Behind(a, b), c)
  BY Associate
<1>6. Line(a, b, n) = Behind(Behind(a, b), n) /\ Behind(a, b) \in Seq(Names)
  BY Associate, BehindTyped
<1>7. Behind(Behind(a, b), n) = Behind(a, b)
  BY <1>2, <1>6, BehindEmpty
<1> QED
  BY <1>1, <1>2, <1>3, <1>4, <1>5, <1>6, <1>7

(* A packet of another type names nothing, wherever it is put. *)
LEMMA OtherPacket ==
  ASSUME NEW got \in Seq(Packets), NEW w \in Seq(Packets), NEW slot \in Seq(Packets), NEW p \in Packets,
         NEW type, p.type # type
  PROVE  Named(got, Append(w, p), slot, type) = Named(got, w, slot, type)
<1>1. Append(w, p) = w \o <<p>> /\ Append(w, p) \in Seq(Packets)
  BY AppendIsConcat, AppendProperties
<1>2. PICK one \in Seq(Packets), long \in Seq(Packets) : one = <<p>> /\ long = Append(w, p) /\ long = w \o one
  BY <1>1, Ones
<1>3. FilesIn(Behind(w, one), type) = Behind(FilesIn(w, type), FilesIn(one, type))
  BY FilesBehind
<1>4. FilesIn(one, type) = <<>> /\ FilesIn(w, type) \in Seq(Names)
  BY <1>2, FilesOne, FilesTyped
<1>5. FilesIn(long, type) = FilesIn(w, type)
  BY <1>2, <1>3, <1>4, ConcatEmptySeq DEF Behind
<1>6. Named(got, long, slot, type) = Line(FilesIn(got, type), FilesIn(long, type), FilesIn(slot, type))
  BY NamedByPlace
<1>7. Named(got, w, slot, type) = Line(FilesIn(got, type), FilesIn(w, type), FilesIn(slot, type))
  BY NamedByPlace
<1> QED
  BY <1>2, <1>5, <1>6, <1>7
(* One name, behind nothing and behind names. *)
LEMMA OneName ==
  ASSUME NEW f \in Names, NEW g \in Seq(Names)
  PROVE  /\ <<f>> \in Seq(Names) /\ Append(g, f) = Behind(g, <<f>>)
         /\ Behind(<<f>>, g) # <<>> /\ Head(Behind(<<f>>, g)) = f /\ Tail(Behind(<<f>>, g)) = g
  BY AppendIsConcat DEF Behind

(* The mirror when the client queues a file. *)
LEMMA MirrorPush ==
  ASSUME NEW c \in Seq(Names), NEW a \in Seq(Names), NEW h \in Seq(Names), NEW q \in Seq(Names),
         NEW z \in Seq(Names), NEW f \in Names, Mirror(c, a, h, q, z)
  PROVE  Mirror(Append(c, f), a, h, q, Behind(z, <<f>>))
<1>1. PICK y \in Seq(Names) : y = Behind(Behind(a, h), q)
  BY BehindTyped
<1>2. PICK o \in Seq(Names) : o = <<f>>
  BY OneName
<1>3. Behind(Behind(y, z), o) = Behind(y, Behind(z, o))
  BY Associate
<1>4. Append(c, f) = Behind(c, <<f>>)
  BY OneName
<1> QED
  BY <1>1, <1>2, <1>3, <1>4 DEF Mirror

(* The mirror when the client takes the file that is asked for. *)
LEMMA MirrorTake ==
  ASSUME NEW c \in Seq(Names), NEW a \in Seq(Names), NEW h \in Seq(Names), NEW q \in Seq(Names),
         NEW z \in Seq(Names), NEW f \in Names, Mirror(c, Behind(<<f>>, a), h, q, z)
  PROVE  c # <<>> /\ Head(c) = f /\ Mirror(Tail(c), a, h, q, z)
<1>1. PICK o \in Seq(Names) : o = <<f>>
  BY OneName
<1>2. PICK d \in Seq(Names) : d = Behind(a, h)
  BY BehindTyped
<1>3. PICK e \in Seq(Names) : e = Behind(d, q)
  BY BehindTyped
<1>4. PICK g \in Seq(Names) : g = Behind(e, z)
  BY BehindTyped
<1>5. Behind(Behind(o, a), h) = Behind(o, Behind(a, h))
  BY Associate
<1>6. Behind(Behind(o, d), q) = Behind(o, Behind(d, q))
  BY Associate
<1>7. Behind(Behind(o, e), z) = Behind(o, Behind(e, z))
  BY Associate
<1>8. c = Behind(<<f>>, g)
  BY <1>1, <1>2, <1>3, <1>4, <1>5, <1>6, <1>7 DEF Mirror
<1>9. c # <<>> /\ Head(c) = f /\ Tail(c) = g
  BY <1>8, OneName
<1> QED
  BY <1>2, <1>3, <1>4, <1>9 DEF Mirror

(* The mirror when the handler takes an entry from the queue. *)
LEMMA MirrorPop ==
  ASSUME NEW c, NEW a \in Seq(Names), NEW r \in Seq(Names), NEW q \in Seq(Names), NEW z \in Seq(Names),
         Mirror(c, a, <<>>, Behind(r, q), z)
  PROVE  Mirror(c, a, r, q, z)
<1>1. Behind(a, <<>>) = a
  BY BehindEmpty
<1>2. Behind(Behind(a, r), q) = Behind(a, Behind(r, q))
  BY Associate
<1> QED
  BY <1>1, <1>2 DEF Mirror

(* The mirror when the handler asks for the file of its entry. *)
LEMMA MirrorAsk ==
  ASSUME NEW c, NEW a \in Seq(Names), NEW r \in Seq(Names), NEW q \in Seq(Names), NEW z \in Seq(Names),
         Mirror(c, a, r, q, z)
  PROVE  Mirror(c, Behind(a, r), <<>>, q, z)
<1>1. Behind(Behind(a, r), <<>>) = Behind(a, r)
  BY BehindTyped, BehindEmpty
<1> QED
  BY <1>1 DEF Mirror

(* The mirror when the server queues a file. *)
LEMMA MirrorQueued ==
  ASSUME NEW c, NEW a \in Seq(Names), NEW h \in Seq(Names), NEW q \in Seq(Names), NEW z \in Seq(Names),
         NEW f \in Names, Mirror(c, a, h, q, Behind(<<f>>, z))
  PROVE  Mirror(c, a, h, Behind(q, <<f>>), z)
<1>1. PICK o \in Seq(Names) : o = <<f>>
  BY OneName
<1>2. PICK x \in Seq(Names) : x = Behind(a, h)
  BY BehindTyped
<1>3. Behind(x, q) \in Seq(Names)
  BY BehindTyped
<1>4. Behind(Behind(x, q), o) = Behind(x, Behind(q, o))
  BY Associate
<1>5. Behind(Behind(Behind(x, q), o), z) = Behind(Behind(x, q), Behind(o, z))
  BY <1>3, Associate
<1> QED
  BY <1>1, <1>2, <1>4, <1>5 DEF Mirror

-----------------------------------------------------------------------------
(* The steps, and the parts of the mirror they leave alone.                *)

(* A packet of another type names nothing where it is. *)
LEMMA NoName ==
  ASSUME NEW p \in Packets, NEW w \in Seq(Packets), NEW s \in Seq(Packets), NEW type, p.type # type
  PROVE  /\ Named(<<p>>, w, s, type) = Named(<<>>, w, s, type)
         /\ Named(s, w, <<p>>, type) = Named(s, w, <<>>, type)
<1>1. PICK none \in Seq(Packets) : none = <<>>
  BY Ones
<1>2. FilesIn(<<p>>, type) = <<>>
  BY FilesOne
<1>3. PICK x \in Seq(Names) : x = Named(none, w, s, type)
  BY NamedByPlace
<1>4. PICK y \in Seq(Names) : y = Named(s, w, none, type)
  BY NamedByPlace
<1>5. Behind(x, <<>>) = x /\ Behind(<<>>, x) = x /\ Behind(y, <<>>) = y
  BY BehindEmpty
<1>6. Named(<<p>>, w, s, type) = Behind(FilesIn(<<p>>, type), Named(<<>>, w, s, type))
  BY FirstPlace
<1>7. Named(s, w, <<p>>, type) = Behind(Named(s, w, <<>>, type), FilesIn(<<p>>, type))
  BY LastPlace
<1> QED
  BY <1>1, <1>2, <1>3, <1>4, <1>5, <1>6, <1>7

(* Where the variables do not change, neither does what they name. *)
LEMMA AskedKept == UNCHANGED <<cpc, c_got, s2c, s_ready, s_buf>> => Asked' = Asked
  BY DEF Asked, InClient, InRequest
LEMMA HandKept == UNCHANGED <<hpc, front>> => InHand' = InHand
  BY DEF InHand, InHandler
LEMMA LaterKept == UNCHANGED file_queue => AskedLater' = AskedLater
  BY DEF AskedLater
LEMMA ToQueueKept == UNCHANGED <<spc, s_got, c2s, upc, c_ready, c_buf>> => ToQueue' = ToQueue
  BY DEF ToQueue, InServer, InSlot
LEMMA ServerSideKept == UNCHANGED vars => InHand' = InHand /\ AskedLater' = AskedLater
  BY HandKept, LaterKept DEF vars, handlerVars, queueVars

(* A step that leaves all parts alone keeps the mirror. *)
LEMMA MirrorKept ==
  ASSUME QueueMirror, UNCHANGED c_queue, Asked' = Asked, InHand' = InHand, AskedLater' = AskedLater, ToQueue' = ToQueue
  PROVE  QueueMirror'
  BY WholeMirror, WholeMirrorNext

(* The parts of the mirror are sequences of names. *)
LEMMA PartsTyped ==
  ASSUME TypeInv
  PROVE  /\ c_queue \in Seq(Names) /\ Asked \in Seq(Names) /\ InHand \in Seq(Names)
         /\ AskedLater \in Seq(Names) /\ ToQueue \in Seq(Names)
<1>1. Places
  BY PlacesTyped
<1>2. c_queue \in Seq(Names)
  BY DEF TypeInv, UserTypes, Names
<1>3. Asked \in Seq(Names)
  BY <1>1, NamedByPlace DEF Places, Asked
<1>4. ToQueue \in Seq(Names)
  BY <1>1, NamedByPlace DEF Places, ToQueue
<1>5. InHand \in Seq(Names) /\ AskedLater \in Seq(Names)
  BY <1>1, NamesTyped DEF Places, InHand, AskedLater
<1> QED
  BY <1>2, <1>3, <1>4, <1>5

(* They still are after a step. *)
LEMMA PartsTypedNext ==
  ASSUME TypeInv'
  PROVE  /\ Asked' \in Seq(Names) /\ InHand' \in Seq(Names)
         /\ AskedLater' \in Seq(Names) /\ ToQueue' \in Seq(Names)
<1>1. Places'
  BY PlacesTypedNext
<1>3. Asked' \in Seq(Names)
  BY <1>1, NamedByPlace DEF Places, Asked
<1>4. ToQueue' \in Seq(Names)
  BY <1>1, NamedByPlace DEF Places, ToQueue
<1>5. InHand' \in Seq(Names) /\ AskedLater' \in Seq(Names)
  BY <1>1, NamesTyped DEF Places, InHand, AskedLater
<1> QED
  BY <1>3, <1>4, <1>5

(* The client's user. *)
LEMMA MirrorUser == ASSUME MirrorInv, ClientUser PROVE QueueMirror'
<1>1. Asked' = Asked /\ InHand' = InHand /\ AskedLater' = AskedLater
  <2>1. UNCHANGED <<vars, clientVars, s2c, serverVars>>
    BY DEF ClientUser, InCall, AskFile, PushOwn, AskCommand, SetReady, CallReturns
  <2> QED
    BY <2>1, AskedKept, ServerSideKept DEF clientVars, serverVars
<1>2. InServer \in Seq(Packets) /\ c2s \in Seq(Packets) /\ InSlot \in Seq(Packets) /\ c_buf \in Packets
      /\ c_ready \in BOOLEAN
  BY PlacesTyped DEF MirrorInv, Places, TypeInv, SlotTypes
<1>3. InServer' = InServer /\ c2s' = c2s
  <2>1. UNCHANGED <<sockVars, c2s>>
    BY DEF ClientUser, InCall, AskFile, PushOwn, AskCommand, SetReady, CallReturns
  <2> QED
    BY <2>1 DEF sockVars, InServer
<1>4. CASE (InCall /\ ~PushOwn) \/ (\E f \in Files : AskFile(f))
  <2>1. UNCHANGED c_queue /\ InSlot' = InSlot
    BY <1>2, <1>4 DEF MirrorInv, SlotsInv, InCall, AskFile, SetReady, CallReturns, UserStep, InSlot, If, slotVars
  <2>2. ToQueue' = ToQueue
    BY <1>3, <2>1 DEF ToQueue
  <2> QED
    BY <1>1, <2>1, <2>2, MirrorKept DEF MirrorInv
<1>5. ASSUME NEW c \in ClientCommands, AskCommand(c)
      PROVE  QueueMirror'
  <2>1. InSlot = <<>> /\ InSlot' = <<Command(c)>> /\ UNCHANGED c_queue
    BY <1>2, <1>5 DEF MirrorInv, SlotsInv, AskCommand, UserStep, InSlot, If
  <2>2. Command(c) \in Packets /\ Command(c).type # "play_req"
    BY PacketsMade, CommandsAssumption DEF Command
  <2>3. ToQueue' = ToQueue
    <3>1. Named(InServer, c2s, <<Command(c)>>, "play_req") = Named(InServer, c2s, <<>>, "play_req")
      BY <1>2, <2>2, NoName
    <3> QED
      BY <1>3, <2>1, <3>1 DEF ToQueue
  <2> QED
    BY <1>1, <2>1, <2>3, MirrorKept DEF MirrorInv
<1>6. CASE PushOwn
  <2>1. InSlot = <<>> /\ InSlot' = <<c_buf>>
    BY <1>2, <1>6 DEF MirrorInv, SlotsInv, PushOwn, UserStep, InSlot, If, slotVars
  <2>2. c_buf.type = "play_req" /\ c_buf.file = wanted /\ wanted \in Names /\ c_queue' = Append(c_queue, wanted)
    BY <1>6 DEF MirrorInv, SlotsInv, PushOwn, UserStep, TypeInv, UserTypes, Names
  <2>3. FilesIn(<<c_buf>>, "play_req") = <<wanted>>
    BY <1>2, <2>2, FilesOne
  <2>4. Named(InServer, c2s, <<c_buf>>, "play_req")
          = Behind(Named(InServer, c2s, <<>>, "play_req"), FilesIn(<<c_buf>>, "play_req"))
    BY <1>2, LastPlace
  <2>5. ToQueue' = Behind(ToQueue, <<wanted>>)
    BY <1>3, <2>1, <2>3, <2>4 DEF ToQueue
  <2>6. Mirror(Append(c_queue, wanted), Asked, InHand, AskedLater, Behind(ToQueue, <<wanted>>))
    BY <2>2, PartsTyped, WholeMirror, MirrorPush DEF MirrorInv
  <2> QED
    BY <1>1, <2>2, <2>5, <2>6, WholeMirrorNext
<1> QED
  BY <1>4, <1>5, <1>6 DEF ClientUser

(* The client finds the request at the head of its queue. *)
LEMMA RequestFound == ASSUME MirrorInv PROVE RequestIsHead
<1> SUFFICES ASSUME cpc = "parse", c_got.type = "file_req"
             PROVE  c_queue # <<>> /\ Head(c_queue) = c_got.file
  BY DEF RequestIsHead
<1>1. InClient = <<c_got>>
  BY DEF InClient, If
<1>2. c_got \in Packets /\ s2c \in Seq(Packets) /\ InRequest \in Seq(Packets) /\ c_got.file \in Names
  BY PlacesTyped DEF MirrorInv, Places, TypeInv, ClientTypes, Packets, Names
<1>3. PICK a \in Seq(Names) : a = Named(<<>>, s2c, InRequest, "file_req")
  BY <1>2, Ones, NamedByPlace
<1>4. FilesIn(<<c_got>>, "file_req") = <<c_got.file>>
  BY <1>2, FilesOne
<1>5. Named(<<c_got>>, s2c, InRequest, "file_req")
        = Behind(FilesIn(<<c_got>>, "file_req"), Named(<<>>, s2c, InRequest, "file_req"))
  BY <1>2, FirstPlace
<1>6. Asked = Behind(<<c_got.file>>, a)
  BY <1>1, <1>3, <1>4, <1>5 DEF Asked
<1>7. Mirror(c_queue, Behind(<<c_got.file>>, a), InHand, AskedLater, ToQueue)
  BY <1>6, WholeMirror DEF MirrorInv
<1>8. c_queue # <<>> /\ Head(c_queue) = c_got.file
  BY <1>2, <1>7, PartsTyped, MirrorTake, SMTT(30) DEF MirrorInv
<1> QED
  BY <1>8

(* The client's socket thread receives. *)
LEMMA MirrorClientRecv == ASSUME MirrorInv, ClientRecv PROVE QueueMirror'
<1>1. UNCHANGED <<vars, c_queue, sockVars, c2s, userVars, slotVars, serverVars>>
  BY DEF ClientRecv
<1>2. InHand' = InHand /\ AskedLater' = AskedLater /\ ToQueue' = ToQueue
  BY <1>1, ServerSideKept, ToQueueKept DEF sockVars, userVars, slotVars
<1>3. InClient = <<>> /\ InClient' = <<c_got'>> /\ InRequest' = InRequest
  BY <1>1 DEF ClientRecv, ClientStep, InClient, InRequest, If, serverVars
<1>4. s2c \in Seq(Packets) /\ InRequest \in Seq(Packets)
  BY PlacesTyped DEF MirrorInv, Places
<1>5. Asked' = Asked
  <2>1. CASE s2c # <<>> /\ c_got' = Head(s2c) /\ s2c' = Tail(s2c)
    <3>1. Named(<<Head(s2c)>>, Tail(s2c), InRequest, "file_req") = Named(<<>>, s2c, InRequest, "file_req")
      BY <1>4, <2>1, ReceivedStays
    <3> QED
      BY <1>3, <2>1, <3>1 DEF Asked
  <2>2. CASE c_got' = Nothing /\ UNCHANGED s2c
    <3>1. Nothing \in Packets /\ Nothing.type # "file_req"
      BY PacketsMade DEF Nothing
    <3>2. Named(<<Nothing>>, s2c, InRequest, "file_req") = Named(<<>>, s2c, InRequest, "file_req")
      BY <1>4, <3>1, NoName
    <3> QED
      BY <1>3, <2>2, <3>2 DEF Asked
  <2> QED
    BY <2>1, <2>2 DEF ClientRecv
<1> QED
  BY <1>1, <1>2, <1>5, MirrorKept DEF MirrorInv

(* It sends what the slot holds. *)
LEMMA MirrorClientSend == ASSUME MirrorInv, ClientSend PROVE QueueMirror'
<1>1. UNCHANGED <<vars, c_queue, sockVars, s2c, userVars, c_got, serverVars>>
  BY DEF ClientSend
<1>2. InClient' = InClient /\ InRequest' = InRequest
  BY <1>1 DEF ClientSend, ClientStep, InClient, InRequest, serverVars
<1>3. InHand' = InHand /\ AskedLater' = AskedLater /\ Asked' = Asked
  BY <1>1, <1>2, ServerSideKept DEF Asked
<1>4. InServer' = InServer
  BY <1>1 DEF InServer, sockVars
<1>5. InServer \in Seq(Packets) /\ c2s \in Seq(Packets) /\ c_buf \in Packets
  BY PlacesTyped DEF MirrorInv, Places, TypeInv, SlotTypes
<1>6. ToQueue' = ToQueue
  <2>1. CASE c_ready
    <3>1. InSlot = <<c_buf>> /\ InSlot' = <<>> /\ c2s' = Append(c2s, c_buf)
      BY <1>1, <2>1 DEF MirrorInv, SlotsInv, ClientSend, InSlot, If, userVars
    <3>2. Named(InServer, Append(c2s, c_buf), <<>>, "play_req") = Named(InServer, c2s, <<c_buf>>, "play_req")
      BY <1>5, SentStays
    <3> QED
      BY <1>4, <3>1, <3>2 DEF ToQueue
  <2>2. CASE ~c_ready
    BY <1>1, <2>2, ToQueueKept DEF ClientSend, slotVars, userVars, sockVars
  <2> QED
    BY <2>1, <2>2
<1> QED
  BY <1>1, <1>3, <1>6, MirrorKept DEF MirrorInv

(* It has nothing to do: a request would be for the head of the queue. *)
LEMMA MirrorClientSkip == ASSUME MirrorInv, ClientSkip PROVE QueueMirror'
<1>1. UNCHANGED <<vars, c_queue, sockVars, c2s, s2c, userVars, slotVars, serverVars>>
  BY DEF ClientSkip
<1>2. InHand' = InHand /\ AskedLater' = AskedLater /\ ToQueue' = ToQueue
  BY <1>1, ServerSideKept, ToQueueKept DEF sockVars, userVars, slotVars
<1>3. InClient = <<c_got>> /\ InClient' = <<>> /\ InRequest' = InRequest
  BY <1>1 DEF ClientSkip, ClientStep, InClient, InRequest, If, serverVars
<1>4. s2c \in Seq(Packets) /\ InRequest \in Seq(Packets) /\ c_got \in Packets
  BY PlacesTyped DEF MirrorInv, Places, TypeInv, ClientTypes
<1>5. c_got.type # "file_req"
  BY RequestFound DEF RequestIsHead, ClientSkip, ClientStep, Nothing, Peek, NextInQueue
<1>6. Named(<<c_got>>, s2c, InRequest, "file_req") = Named(<<>>, s2c, InRequest, "file_req")
  BY <1>4, <1>5, NoName
<1>7. Asked' = Asked
  BY <1>1, <1>3, <1>6 DEF Asked
<1> QED
  BY <1>1, <1>2, <1>7, MirrorKept DEF MirrorInv

(* It takes the file asked for from its queue. *)
LEMMA MirrorBegin == ASSUME MirrorInv, BeginTransfer PROVE QueueMirror'
<1>1. UNCHANGED <<vars, sockVars, c2s, s2c, userVars, slotVars, serverVars, c_got>>
  BY DEF BeginTransfer
<1>2. InHand' = InHand /\ AskedLater' = AskedLater /\ ToQueue' = ToQueue
  BY <1>1, ServerSideKept, ToQueueKept DEF sockVars, userVars, slotVars
<1>3. InClient = <<c_got>> /\ InClient' = <<>> /\ InRequest' = InRequest
  BY <1>1 DEF BeginTransfer, ClientStep, InClient, InRequest, If, serverVars
<1>4. s2c \in Seq(Packets) /\ InRequest \in Seq(Packets) /\ c_got \in Packets /\ c_got.file \in Names
  BY PlacesTyped DEF MirrorInv, Places, TypeInv, ClientTypes, Packets, Names
<1>5. PICK a \in Seq(Names) : a = Named(<<>>, s2c, InRequest, "file_req")
  BY <1>4, Ones, NamedByPlace
<1>6. FilesIn(<<c_got>>, "file_req") = <<c_got.file>>
  BY <1>4, FilesOne DEF BeginTransfer
<1>7. Named(<<c_got>>, s2c, InRequest, "file_req")
        = Behind(FilesIn(<<c_got>>, "file_req"), Named(<<>>, s2c, InRequest, "file_req"))
  BY <1>4, FirstPlace
<1>8. Asked = Behind(<<c_got.file>>, a) /\ Asked' = a
  BY <1>1, <1>3, <1>5, <1>6, <1>7 DEF Asked
<1>9. Mirror(c_queue, Behind(<<c_got.file>>, a), InHand, AskedLater, ToQueue)
  BY <1>8, WholeMirror DEF MirrorInv
<1>10. Mirror(Tail(c_queue), a, InHand, AskedLater, ToQueue)
  BY <1>4, <1>9, PartsTyped, MirrorTake DEF MirrorInv
<1>11. c_queue' = Tail(c_queue)
  BY RequestFound DEF RequestIsHead, BeginTransfer, ClientStep
<1> QED
  BY <1>2, <1>8, <1>10, <1>11, WholeMirrorNext

(* It sends a packet of a file. *)
LEMMA MirrorSendChunk == ASSUME MirrorInv, SendChunk PROVE QueueMirror'
<1>1. UNCHANGED <<vars, c_queue, sockVars, s2c, userVars, slotVars, serverVars>>
  BY DEF SendChunk
<1>2. InClient' = InClient /\ InRequest' = InRequest
  BY <1>1 DEF SendChunk, InClient, InRequest, If, serverVars
<1>3. InHand' = InHand /\ AskedLater' = AskedLater /\ Asked' = Asked
  BY <1>1, <1>2, ServerSideKept DEF Asked
<1>4. InServer' = InServer /\ InSlot' = InSlot
  BY <1>1 DEF InServer, InSlot, sockVars, userVars, slotVars
<1>5. InServer \in Seq(Packets) /\ c2s \in Seq(Packets) /\ InSlot \in Seq(Packets)
  BY PlacesTyped DEF MirrorInv, Places
<1>6. PICK p \in Packets : c2s' = Append(c2s, p) /\ p.type # "play_req"
  <2>1. Kind(c_got.file, index) \in {"start", "middle", "end"}
    BY DEF Kind
  <2>2. c_got.file \in Files \cup {NULL} /\ index \in Nat
    BY DEF MirrorInv, TypeInv, ClientTypes, Packets
  <2>3. Packet(Kind(c_got.file, index), c_got.file, index) \in Packets
        /\ Packet(Kind(c_got.file, index), c_got.file, index).type # "play_req"
    BY <2>1, <2>2, PacketsMade DEF PacketTypes, Packet
  <2> QED
    BY <2>3 DEF SendChunk
<1>7. Named(InServer, Append(c2s, p), InSlot, "play_req") = Named(InServer, c2s, InSlot, "play_req")
  BY <1>5, <1>6, OtherPacket
<1>8. ToQueue' = ToQueue
  BY <1>4, <1>6, <1>7 DEF ToQueue
<1> QED
  BY <1>1, <1>3, <1>8, MirrorKept DEF MirrorInv

(* The client's socket thread: no file is missing, so it never writes an error. *)
LEMMA MirrorClient == ASSUME MirrorInv, ClientSocket PROVE QueueMirror'
<1>1. ~WriteError /\ ~SendError
  BY DEF MirrorInv, SlotsInv, WriteError, SendError, ClientStep
<1> QED
  BY <1>1, MirrorClientRecv, MirrorClientSend, MirrorClientSkip, MirrorBegin, MirrorSendChunk DEF ClientSocket

(* The server's socket thread receives. *)
LEMMA MirrorServerRecv == ASSUME MirrorInv, ServerRecv PROVE QueueMirror'
<1>1. UNCHANGED <<vars, c_queue, clientVars, s2c, userVars, slotVars, serverVars>>
  BY DEF ServerRecv
<1>2. InHand' = InHand /\ AskedLater' = AskedLater /\ Asked' = Asked
  BY <1>1, ServerSideKept, AskedKept DEF clientVars, serverVars
<1>3. InServer = <<>> /\ InServer' = <<s_got'>> /\ InSlot' = InSlot
  BY <1>1 DEF ServerRecv, ServerStep, InServer, InSlot, If, userVars, slotVars
<1>4. c2s \in Seq(Packets) /\ InSlot \in Seq(Packets)
  BY PlacesTyped DEF MirrorInv, Places
<1>5. ToQueue' = ToQueue
  <2>1. CASE c2s # <<>> /\ s_got' = Head(c2s) /\ c2s' = Tail(c2s)
    <3>1. Named(<<Head(c2s)>>, Tail(c2s), InSlot, "play_req") = Named(<<>>, c2s, InSlot, "play_req")
      BY <1>4, <2>1, ReceivedStays
    <3> QED
      BY <1>3, <2>1, <3>1 DEF ToQueue
  <2>2. CASE s_got' = Nothing /\ UNCHANGED c2s
    <3>1. Nothing \in Packets /\ Nothing.type # "play_req"
      BY PacketsMade DEF Nothing
    <3>2. Named(<<Nothing>>, c2s, InSlot, "play_req") = Named(<<>>, c2s, InSlot, "play_req")
      BY <1>4, <3>1, NoName
    <3> QED
      BY <1>3, <2>2, <3>2 DEF ToQueue
  <2> QED
    BY <2>1, <2>2 DEF ServerRecv
<1> QED
  BY <1>1, <1>2, <1>5, MirrorKept DEF MirrorInv

(* It sends what the slot holds. *)
LEMMA MirrorServerSend == ASSUME MirrorInv, ServerSend PROVE QueueMirror'
<1>1. UNCHANGED <<vars, c_queue, clientVars, c2s, userVars, slotVars, s_got>>
  BY DEF ServerSend
<1>2. InServer' = InServer /\ InSlot' = InSlot
  BY <1>1 DEF ServerSend, ServerStep, InServer, InSlot, If, userVars, slotVars
<1>3. InHand' = InHand /\ AskedLater' = AskedLater /\ ToQueue' = ToQueue
  BY <1>1, <1>2, ServerSideKept DEF ToQueue
<1>4. InClient' = InClient
  BY <1>1 DEF InClient, clientVars
<1>5. InClient \in Seq(Packets) /\ s2c \in Seq(Packets) /\ s_buf \in Packets
  BY PlacesTyped DEF MirrorInv, Places, TypeInv, RequestTypes
<1>6. Asked' = Asked
  <2>1. CASE s_ready
    <3>1. InRequest = <<s_buf>> /\ InRequest' = <<>> /\ s2c' = Append(s2c, s_buf)
      BY <2>1 DEF ServerSend, InRequest, If
    <3>2. Named(InClient, Append(s2c, s_buf), <<>>, "file_req") = Named(InClient, s2c, <<s_buf>>, "file_req")
      BY <1>5, SentStays
    <3> QED
      BY <1>4, <3>1, <3>2 DEF Asked
  <2>2. CASE ~s_ready
    BY <1>1, <2>2, AskedKept DEF ServerSend, serverVars, clientVars
  <2> QED
    BY <2>1, <2>2
<1> QED
  BY <1>1, <1>3, <1>6, MirrorKept DEF MirrorInv

(* It is done with what it received, and does not touch the queue. *)
LEMMA MirrorParsed ==
  ASSUME MirrorInv, spc = "parse", s_got.type # "play_req", spc' \in {"recv", "skipping"},
         UNCHANGED <<file_queue, handlerVars, c_queue, clientVars, c2s, s2c, userVars, slotVars, serverVars>>
  PROVE  QueueMirror'
<1>1. InHand' = InHand /\ AskedLater' = AskedLater /\ Asked' = Asked
  BY HandKept, LaterKept, AskedKept DEF handlerVars, clientVars, serverVars
<1>2. InServer = <<s_got>> /\ InServer' = <<>> /\ InSlot' = InSlot
  BY DEF InServer, InSlot, If, userVars, slotVars
<1>3. c2s \in Seq(Packets) /\ InSlot \in Seq(Packets) /\ s_got \in Packets
  BY PlacesTyped DEF MirrorInv, Places, TypeInv, SockTypes
<1>4. Named(<<s_got>>, c2s, InSlot, "play_req") = Named(<<>>, c2s, InSlot, "play_req")
  BY <1>3, NoName
<1>5. ToQueue' = ToQueue
  BY <1>2, <1>4 DEF ToQueue
<1> QED
  BY <1>1, <1>5, MirrorKept DEF MirrorInv

(* It queues a file of the client. *)
LEMMA MirrorPlayReq == ASSUME MirrorInv, ParsePlayReq PROVE QueueMirror'
<1>1. UNCHANGED <<handlerVars, c_queue, clientVars, c2s, s2c, userVars, slotVars, serverVars>>
  BY DEF ParsePlayReq, Parse
<1>2. InHand' = InHand /\ Asked' = Asked
  BY <1>1, HandKept, AskedKept DEF handlerVars, clientVars, serverVars
<1>3. InServer = <<s_got>> /\ InServer' = <<>> /\ InSlot' = InSlot
  BY <1>1 DEF ParsePlayReq, Parse, ServerStep, InServer, InSlot, If, userVars, slotVars
<1>4. c2s \in Seq(Packets) /\ InSlot \in Seq(Packets) /\ s_got \in Packets /\ file_queue \in Seq(RemoteEntries)
      /\ s_got.file \in Files
  BY PlacesTyped DEF MirrorInv, Places, TypeInv, SockTypes, FileKnown, ParsePlayReq, Parse
<1>5. PICK z \in Seq(Names), f \in Names : z = Named(<<>>, c2s, InSlot, "play_req") /\ f = s_got.file
  BY <1>4, Ones, NamedByPlace DEF Names
<1>6. FilesIn(<<s_got>>, "play_req") = <<f>>
  BY <1>4, <1>5, FilesOne DEF ParsePlayReq, Parse
<1>7. Named(<<s_got>>, c2s, InSlot, "play_req")
        = Behind(FilesIn(<<s_got>>, "play_req"), Named(<<>>, c2s, InSlot, "play_req"))
  BY <1>4, FirstPlace
<1>8. ToQueue = Behind(<<f>>, z) /\ ToQueue' = z
  BY <1>1, <1>3, <1>5, <1>6, <1>7 DEF ToQueue
<1>9. AskedLater' = Behind(AskedLater, <<f>>)
  <2>1. PICK e \in RemoteEntries : e = [filename |-> s_got.file, src |-> Client]
    BY <1>4 DEF RemoteEntries
  <2>2. file_queue' = file_queue \o <<e>>
    BY <1>4, <2>1, AppendIsConcat DEF ParsePlayReq
  <2>3. RemoteFiles(<<e>>) = <<f>>
    BY <1>5, <2>1, NamesOne
  <2>4. <<e>> \in Seq(RemoteEntries)
    BY Ones
  <2>5. Behind(RemoteFiles(file_queue), RemoteFiles(<<e>>)) = RemoteFiles(file_queue \o <<e>>)
    BY <1>4, <2>4, NamesCat DEF Behind
  <2> QED
    BY <2>2, <2>3, <2>5 DEF AskedLater
<1>10. Mirror(c_queue, Asked, InHand, AskedLater, Behind(<<f>>, z))
  BY <1>8, WholeMirror DEF MirrorInv
<1>11. Mirror(c_queue, Asked, InHand, Behind(AskedLater, <<f>>), z)
  BY <1>10, PartsTyped, MirrorQueued DEF MirrorInv
<1> QED
  BY <1>1, <1>2, <1>8, <1>9, <1>11, WholeMirrorNext

(* The server's socket thread. *)
LEMMA MirrorServer == ASSUME MirrorInv, ServerSocket PROVE QueueMirror'
<1>1. CASE SkipDone
  <2>1. UNCHANGED <<vars, c_queue, clientVars, c2s, s2c, userVars, slotVars, serverVars>>
    BY <1>1 DEF SkipDone
  <2>2. InHand' = InHand /\ AskedLater' = AskedLater /\ Asked' = Asked
    BY <2>1, ServerSideKept, AskedKept DEF clientVars, serverVars
  <2>3. InServer' = InServer /\ InSlot' = InSlot
    BY <1>1, <2>1 DEF SkipDone, ServerStep, InServer, InSlot, If, userVars, slotVars
  <2> QED
    BY <2>1, <2>2, <2>3, MirrorKept DEF MirrorInv, ToQueue
<1>2. CASE ParseSkip
  BY <1>2, MirrorParsed DEF ParseSkip, ServerStep, queueVars
<1>3. ASSUME NEW type, Parse(type), type # "play_req", UNCHANGED <<file_queue, handlerVars>>
      PROVE  QueueMirror'
  BY <1>3, MirrorParsed DEF Parse, ServerStep
<1>4. CASE ParseNothing
  BY <1>3, <1>4 DEF ParseNothing, vars, queueVars
<1>5. CASE ParsePlay \/ ParsePause \/ ParseMissing \/ ParseStart
  BY <1>3, <1>5 DEF ParsePlay, ParsePause, ParseMissing, ParseStart, queueVars
<1>6. CASE ParseMiddle \/ ParseEnd
  BY <1>3, <1>6 DEF ParseMiddle, ParseEnd, ParseChunk, queueVars
<1> QED
  BY <1>1, <1>2, <1>4, <1>5, <1>6, MirrorServerRecv, MirrorServerSend, MirrorPlayReq DEF ServerSocket

(* The handler leaves a request where it is. *)
LEMMA MirrorHandlerKept ==
  ASSUME MirrorInv, InHand' = InHand, InRequest' = InRequest,
         UNCHANGED <<file_queue, c_queue, clientVars, c2s, s2c, userVars, slotVars, sockVars>>
  PROVE  QueueMirror'
<1>1. AskedLater' = AskedLater /\ ToQueue' = ToQueue
  BY LaterKept, ToQueueKept DEF userVars, slotVars, sockVars
<1>2. Asked' = Asked
  <2>1. InClient' = InClient
    BY DEF InClient, clientVars
  <2> QED
    BY <2>1 DEF Asked
<1> QED
  BY <1>1, <1>2, MirrorKept DEF MirrorInv

(* It passes the request to the socket thread. *)
LEMMA MirrorSetRequest == ASSUME MirrorInv, SetRequestReady PROVE QueueMirror'
<1>1. UNCHANGED <<front, queueVars, s_buf, c_queue, clientVars, c2s, s2c, userVars, slotVars, sockVars>>
  BY DEF SetRequestReady
<1>2. AskedLater' = AskedLater /\ ToQueue' = ToQueue
  BY <1>1, LaterKept, ToQueueKept DEF userVars, slotVars, sockVars, queueVars
<1>3. InClient' = InClient
  BY <1>1 DEF InClient, clientVars
<1>4. s_buf \in Packets /\ front \in RemoteEntries /\ s_ready \in BOOLEAN
      /\ front.src = Client /\ s_buf.type = "file_req" /\ s_buf.file = front.filename
  BY DEF MirrorInv, SlotsInv, TypeInv, ServerTypes, ThreadTypes, RequestTypes, SetRequestReady, HandlerStep
<1>5. InHandler = <<front>> /\ InHandler' = <<>> /\ InRequest = <<>> /\ InRequest' = <<s_buf>>
  BY <1>1, <1>4 DEF MirrorInv, SlotsInv, SetRequestReady, HandlerStep, InHandler, InRequest, If
<1>6. InClient \in Seq(Packets) /\ s2c \in Seq(Packets)
  BY PlacesTyped DEF MirrorInv, Places
<1>7. FilesIn(<<s_buf>>, "file_req") = RemoteFiles(<<front>>)
  <2>1. FilesIn(<<s_buf>>, "file_req") = <<s_buf.file>>
    BY <1>4, FilesOne
  <2>2. RemoteFiles(<<front>>) = <<front.filename>>
    BY <1>4, NamesOne
  <2> QED
    BY <1>4, <2>1, <2>2
<1>8. Named(InClient, s2c, <<s_buf>>, "file_req")
        = Behind(Named(InClient, s2c, <<>>, "file_req"), FilesIn(<<s_buf>>, "file_req"))
  BY <1>4, <1>6, LastPlace
<1>9. Asked' = Behind(Asked, InHand)
  BY <1>1, <1>3, <1>5, <1>7, <1>8 DEF Asked, InHand
<1>10. InHand' = <<>>
  BY <1>5, EmptyFiles DEF InHand
<1>11. Mirror(c_queue, Behind(Asked, InHand), <<>>, AskedLater, ToQueue)
  BY PartsTyped, WholeMirror, MirrorAsk DEF MirrorInv
<1> QED
  BY <1>1, <1>2, <1>9, <1>10, <1>11, WholeMirrorNext

(* A sequence is its head and its tail. *)
LEMMA HeadAndTail ==
  \A s \in Seq(RemoteEntries) :
    s # <<>> => <<Head(s)>> \in Seq(RemoteEntries) /\ Tail(s) \in Seq(RemoteEntries) /\ s = <<Head(s)>> \o Tail(s)
<1> SUFFICES ASSUME NEW s \in Seq(RemoteEntries), s # <<>>
             PROVE  <<Head(s)>> \in Seq(RemoteEntries) /\ Tail(s) \in Seq(RemoteEntries) /\ s = <<Head(s)>> \o Tail(s)
  OBVIOUS
<1>1. Head(s) \in RemoteEntries /\ Tail(s) \in Seq(RemoteEntries)
  OBVIOUS
<1>2. <<Head(s)>> \o Tail(s) = s
  OBVIOUS
<1> QED
  BY <1>1, <1>2

(* It takes an entry from the queue. *)
LEMMA MirrorPopFront == ASSUME MirrorInv, TypeInv', LocalHandler, PopFront PROVE QueueMirror'
<1>1. UNCHANGED <<c_queue, clientVars, c2s, s2c, userVars, slotVars, sockVars, serverVars>>
  BY DEF LocalHandler, streamVars
<1>2. Asked' = Asked /\ ToQueue' = ToQueue
  BY <1>1, AskedKept, ToQueueKept DEF clientVars, serverVars, userVars, slotVars, sockVars
<1>3. InHandler = <<>> /\ InHandler' = <<Head(file_queue)>>
  BY DEF PopFront, HandlerStep, InHandler, If
<1>4. file_queue \in Seq(RemoteEntries) /\ file_queue # <<>>
  BY DEF MirrorInv, TypeInv, ServerTypes, QueueTypes, PopFront
<1>5. PICK one \in Seq(RemoteEntries), rest \in Seq(RemoteEntries) :
        one = <<Head(file_queue)>> /\ rest = Tail(file_queue) /\ file_queue = one \o rest
  BY <1>4, HeadAndTail
<1>6. RemoteFiles(one \o rest) = Behind(RemoteFiles(one), RemoteFiles(rest))
  BY NamesCat DEF Behind
<1>7. InHand = <<>> /\ InHand' = RemoteFiles(one) /\ AskedLater' = RemoteFiles(rest)
      /\ AskedLater = Behind(RemoteFiles(one), RemoteFiles(rest))
  BY <1>3, <1>5, <1>6, EmptyFiles DEF InHand, AskedLater, PopFront
<1>8. Mirror(c_queue, Asked, <<>>, Behind(InHand', AskedLater'), ToQueue)
  BY <1>7, WholeMirror DEF MirrorInv
<1>9. Mirror(c_queue, Asked, InHand', AskedLater', ToQueue)
  BY <1>8, PartsTyped, PartsTypedNext, MirrorPop DEF MirrorInv
<1> QED
  BY <1>1, <1>2, <1>9, WholeMirrorNext

(* The handler, both branches. *)
LEMMA MirrorHandler == ASSUME MirrorInv, TypeInv', RemoteHandler \/ LocalHandler PROVE QueueMirror'
<1>1. CASE LocalHandler /\ (RejectFile \/ RejectData \/ LoadFile)
  <2>1. UNCHANGED <<file_queue, c_queue, clientVars, c2s, s2c, userVars, slotVars, sockVars, serverVars>>
    BY <1>1 DEF LocalHandler, streamVars, RejectFile, RejectData, LoadFile, queueVars
  <2>2. InHandler = <<front>> /\ InHandler' = <<>>
    BY <1>1 DEF RejectFile, RejectData, LoadFile, HandlerStep, InHandler, If
  <2>3. front \in RemoteEntries /\ front.src # Client
    BY <1>1 DEF MirrorInv, TypeInv, ServerTypes, ThreadTypes, RejectFile, RejectData, LoadFile, HandlerStep, Local, Client
  <2>4. InHand' = InHand
    BY <2>2, <2>3, NamesOne DEF InHand
  <2>5. InRequest' = InRequest
    BY <2>1 DEF InRequest, serverVars
  <2> QED
    BY <2>1, <2>4, <2>5, MirrorHandlerKept
<1>2. CASE LocalHandler /\ (CheckRunning \/ CheckQueue \/ CreateThread \/ SetPlay \/ EndSleep)
  <2>1. UNCHANGED <<file_queue, c_queue, clientVars, c2s, s2c, userVars, slotVars, sockVars, serverVars>>
    BY <1>2 DEF LocalHandler, streamVars, CheckRunning, CheckQueue, CreateThread, SetPlay, EndSleep, queueVars
  <2>2. InHandler = <<>> /\ InHandler' = <<>>
    BY <1>2 DEF CheckRunning, CheckQueue, CreateThread, SetPlay, EndSleep, HandlerStep, InHandler, If
  <2>3. InHand' = InHand /\ InRequest' = InRequest
    BY <2>1, <2>2 DEF InHand, InRequest, serverVars
  <2> QED
    BY <2>1, <2>3, MirrorHandlerKept
<1>3. CASE WriteRequest
  <2>1. UNCHANGED <<file_queue, front, c_queue, clientVars, c2s, s2c, userVars, slotVars, sockVars, s_ready>>
    BY <1>3 DEF WriteRequest, queueVars
  <2>2. InHandler' = InHandler
    BY <1>3 DEF WriteRequest, HandlerStep, InHandler, If
  <2>3. InRequest = <<>> /\ InRequest' = <<>>
    BY <1>3 DEF WriteRequest, HandlerStep, MirrorInv, SlotsInv, TypeInv, RequestTypes, InRequest, If
  <2>4. InHand' = InHand
    BY <2>2 DEF InHand
  <2> QED
    BY <2>1, <2>3, <2>4, MirrorHandlerKept
<1>4. CASE RequestSent \/ SongReady \/ StartRemote
  <2>1. UNCHANGED <<file_queue, c_queue, clientVars, c2s, s2c, userVars, slotVars, sockVars, serverVars>>
    BY <1>4 DEF RequestSent, SongReady, StartRemote, queueVars, streamVars
  <2>2. InHandler = <<>> /\ InHandler' = <<>>
    BY <1>4 DEF RequestSent, SongReady, StartRemote, HandlerStep, InHandler, If
  <2>3. InHand' = InHand /\ InRequest' = InRequest
    BY <2>1, <2>2 DEF InHand, InRequest, serverVars
  <2> QED
    BY <2>1, <2>3, MirrorHandlerKept
<1>5. CASE LocalHandler
  BY <1>1, <1>2, <1>5, MirrorPopFront DEF LocalHandler, Handler
<1>6. CASE RemoteHandler
  BY <1>3, <1>4, <1>6, MirrorSetRequest DEF RemoteHandler
<1> QED
  BY <1>5, <1>6

(* The threads that do not touch the mirror. *)
LEMMA MirrorOthers ==
  ASSUME MirrorInv, ServerUser \/ \E t \in Threads : ServerAudio(t)
  PROVE  QueueMirror'
<1>1. UNCHANGED <<handlerVars, streamVars>>
  BY DEF ServerUser, User, TurntableQueueFile, TurntablePauseAudio, TurntableResumeAudio, TurntableSkipAudio,
         ServerAudio, AudioThread, BeginAudio, PlatformStop, PlatformDone, FreeAudio, ClearStop, ClearPlay, ExitAudio
<1>2. UNCHANGED c_queue /\ Asked' = Asked /\ InHand' = InHand /\ ToQueue' = ToQueue
  BY <1>1, AskedKept, HandKept, ToQueueKept
     DEF streamVars, handlerVars, clientVars, serverVars, sockVars, userVars, slotVars
<1>3. AskedLater' = AskedLater
  <2>1. CASE UNCHANGED file_queue
    BY <2>1, LaterKept
  <2>2. ASSUME NEW f \in Files, TurntableQueueFile(f)
        PROVE  AskedLater' = AskedLater
    <3>1. PICK e \in RemoteEntries : e = [filename |-> f, src |-> Local]
      BY DEF RemoteEntries
    <3>2. file_queue \in Seq(RemoteEntries)
      BY DEF MirrorInv, TypeInv, ServerTypes, QueueTypes
    <3>3. file_queue' = file_queue \o <<e>>
      BY <2>2, <3>1, <3>2, AppendIsConcat DEF TurntableQueueFile
    <3>4. <<e>> \in Seq(RemoteEntries)
      BY Ones
    <3>5. RemoteFiles(file_queue \o <<e>>) = Behind(RemoteFiles(file_queue), RemoteFiles(<<e>>))
      BY <3>2, <3>4, NamesCat DEF Behind
    <3>6. RemoteFiles(<<e>>) = <<>>
      BY <3>1, NamesOne DEF Local, Client
    <3>7. Behind(RemoteFiles(file_queue), <<>>) = RemoteFiles(file_queue)
      BY <3>2, NamesTyped, BehindEmpty
    <3> QED
      BY <3>3, <3>5, <3>6, <3>7 DEF AskedLater
  <2> QED
    BY <2>1, <2>2 DEF ServerUser, User, TurntablePauseAudio, TurntableResumeAudio, TurntableSkipAudio, queueVars,
         ServerAudio, AudioThread, BeginAudio, PlatformStop, PlatformDone, FreeAudio, ClearStop, ClearPlay, ExitAudio
<1> QED
  BY <1>2, <1>3, MirrorKept DEF MirrorInv

-----------------------------------------------------------------------------
(* The slots, step by step.                                                *)

\* SlotsInv, by the thread that fills a slot.
UserSlot == (c_ready => upc = "spin") /\ (upc = "push" => c_buf.type = "play_req" /\ c_buf.file = wanted)
NoError == cpc \notin {"error", "flush"}
RequestSlot ==
  /\ s_ready => hpc = "sent"
  /\ hpc = "ready" => front.src = Client /\ s_buf.type = "file_req" /\ s_buf.file = front.filename

(* The client's side of the slots. *)
LEMMA SlotsClient == ASSUME NoneMissing, MirrorInv, ClientUser \/ ClientSocket PROVE SlotsInv'
<1>1. RequestSlot'
  <2>1. UNCHANGED <<handlerVars, serverVars>>
    BY DEF ClientUser, InCall, AskFile, PushOwn, AskCommand, SetReady, CallReturns, ClientSocket, ClientRecv,
           ClientSend, ClientSkip, BeginTransfer, WriteError, SendError, SendChunk, vars
  <2> QED
    BY <2>1 DEF MirrorInv, SlotsInv, RequestSlot, handlerVars, serverVars
<1>2. UserSlot' /\ NoError'
  <2>1. ASSUME NEW f \in Files, AskFile(f)
        PROVE  UserSlot' /\ NoError'
    BY <2>1 DEF AskFile, UserStep, Packet, MirrorInv, SlotsInv, UserSlot, NoError, clientVars
  <2>2. ASSUME NEW c \in ClientCommands, AskCommand(c)
        PROVE  UserSlot' /\ NoError'
    BY <2>2 DEF AskCommand, UserStep, MirrorInv, SlotsInv, UserSlot, NoError, clientVars
  <2>3. CASE InCall
    BY <2>3 DEF InCall, PushOwn, SetReady, CallReturns, UserStep, MirrorInv, SlotsInv, UserSlot, NoError,
                clientVars, slotVars
  <2>4. CASE ClientSend
    BY <2>4 DEF ClientSend, ClientStep, MirrorInv, SlotsInv, UserSlot, NoError, userVars, slotVars
  <2>5. CASE ClientRecv \/ ClientSkip \/ SendChunk
    BY <2>5 DEF ClientRecv, ClientSkip, SendChunk, ClientStep, MirrorInv, SlotsInv, UserSlot, NoError,
                userVars, slotVars
  <2>6. CASE BeginTransfer
    <3>1. c_queue \in Seq(Files) /\ c_queue # <<>> /\ Head(c_queue) = c_got.file
      BY <2>6, RequestFound DEF BeginTransfer, ClientStep, RequestIsHead, MirrorInv, TypeInv, UserTypes
    <3>2. c_got.file \in Files
      BY <3>1
    <3>3. Chunks[c_got.file] # 0
      BY <3>2, ChunksAssumption DEF NoneMissing
    <3>4. cpc' = "transfer"
      BY <2>6, <3>3 DEF BeginTransfer, ClientStep
    <3> QED
      BY <2>6, <3>4 DEF BeginTransfer, MirrorInv, SlotsInv, UserSlot, NoError, userVars, slotVars
  <2>7. ~WriteError /\ ~SendError
    BY DEF MirrorInv, SlotsInv, WriteError, SendError, ClientStep
  <2> QED
    BY <2>1, <2>2, <2>3, <2>4, <2>5, <2>6, <2>7 DEF ClientUser, ClientSocket
<1> QED
  BY <1>1, <1>2 DEF SlotsInv, UserSlot, NoError, RequestSlot

(* The server's side of the slots. *)
LEMMA SlotsServer ==
  ASSUME MirrorInv, \/ ServerSocket \/ RemoteHandler \/ LocalHandler \/ ServerUser \/ \E t \in Threads : ServerAudio(t)
  PROVE  SlotsInv'
<1>1. UserSlot' /\ NoError'
  <2>1. UNCHANGED <<userVars, slotVars, clientVars>>
    <3>1. CASE ServerSocket
      BY <3>1 DEF ServerSocket, ServerRecv, ServerSend, ParseNothing, ParsePlay, ParsePause, ParseSkip, SkipDone,
                  ParsePlayReq, ParseStart, ParseMiddle, ParseEnd, ParseMissing, Parse
    <3>2. CASE RemoteHandler
      BY <3>2 DEF RemoteHandler, WriteRequest, SetRequestReady, RequestSent, SongReady, StartRemote, streamVars
    <3> QED
      BY <3>1, <3>2 DEF LocalHandler, ServerUser, ServerAudio, streamVars
  <2> QED
    BY <2>1 DEF MirrorInv, SlotsInv, UserSlot, NoError, userVars, slotVars, clientVars
<1>2. RequestSlot'
  <2>1. CASE ServerSend
    BY <2>1 DEF ServerSend, MirrorInv, SlotsInv, RequestSlot, vars, handlerVars, serverVars
  <2>2. CASE ServerSocket /\ ~ServerSend
    <3>1. UNCHANGED <<handlerVars, serverVars>>
      BY <2>2 DEF ServerSocket, ServerRecv, ParseNothing, ParsePlay, ParsePause, ParseSkip, SkipDone,
                  ParsePlayReq, ParseStart, ParseMiddle, ParseEnd, ParseMissing, ParseChunk, Parse, vars
    <3> QED
      BY <3>1 DEF MirrorInv, SlotsInv, RequestSlot, handlerVars, serverVars
  <2>3. CASE WriteRequest
    BY <2>3 DEF WriteRequest, HandlerStep, Packet, MirrorInv, SlotsInv, RequestSlot
  <2>4. CASE SetRequestReady \/ RequestSent \/ SongReady \/ StartRemote
    BY <2>4 DEF SetRequestReady, RequestSent, SongReady, StartRemote, HandlerStep, MirrorInv, SlotsInv, RequestSlot,
                streamVars, serverVars
  <2>5. CASE LocalHandler
    <3>1. hpc # "sent" /\ hpc' \notin {"ready", "sent"} /\ UNCHANGED serverVars
      BY <2>5 DEF LocalHandler, Handler, CheckRunning, CheckQueue, PopFront, RejectFile, RejectData, LoadFile,
                  CreateThread, SetPlay, EndSleep, HandlerStep, streamVars
    <3> QED
      BY <3>1 DEF MirrorInv, SlotsInv, RequestSlot, serverVars
  <2>6. CASE ServerUser \/ \E t \in Threads : ServerAudio(t)
    <3>1. UNCHANGED <<handlerVars, serverVars>>
      BY <2>6 DEF ServerUser, User, TurntableQueueFile, TurntablePauseAudio, TurntableResumeAudio, TurntableSkipAudio,
             ServerAudio, AudioThread, BeginAudio, PlatformStop, PlatformDone, FreeAudio, ClearStop, ClearPlay, ExitAudio,
             streamVars
    <3> QED
      BY <3>1 DEF MirrorInv, SlotsInv, RequestSlot, handlerVars, serverVars
  <2> QED
    BY <2>1, <2>2, <2>3, <2>4, <2>5, <2>6 DEF RemoteHandler
<1> QED
  BY <1>1, <1>2 DEF SlotsInv, UserSlot, NoError, RequestSlot

(* The mirror is kept by every step. *)
LEMMA MirrorStep == ASSUME NoneMissing PROVE MirrorInv /\ [StreamNext]_svars => MirrorInv'
<1> SUFFICES ASSUME MirrorInv, [StreamNext]_svars
             PROVE  MirrorInv'
  OBVIOUS
<1>1. TypeInv'
  BY TypeStep DEF MirrorInv
<1>2. CASE StreamNext
  <2>1. SlotsInv'
    BY <1>2, SlotsClient, SlotsServer DEF StreamNext
  <2>2. QueueMirror'
    BY <1>1, <1>2, MirrorUser, MirrorClient, MirrorServer, MirrorHandler, MirrorOthers DEF StreamNext
  <2> QED
    BY <1>1, <2>1, <2>2 DEF MirrorInv
<1>3. CASE UNCHANGED svars
  <2>1. SlotsInv'
    BY <1>3 DEF svars, vars, handlerVars, streamVars, slotVars, userVars, clientVars, serverVars, MirrorInv, SlotsInv
  <2>2. UNCHANGED c_queue /\ Asked' = Asked /\ InHand' = InHand /\ AskedLater' = AskedLater /\ ToQueue' = ToQueue
    BY <1>3, AskedKept, ServerSideKept, ToQueueKept
       DEF svars, streamVars, clientVars, serverVars, sockVars, userVars, slotVars
  <2>3. QueueMirror'
    BY <2>2, MirrorKept DEF MirrorInv
  <2> QED
    BY <1>1, <2>1, <2>3 DEF MirrorInv
<1> QED
  BY <1>2, <1>3

(* Nothing is under way when the two have just connected. *)
LEMMA MirrorInit == StreamInit => MirrorInv
<1> SUFFICES ASSUME StreamInit
             PROVE  MirrorInv
  OBVIOUS
<1>1. SlotsInv
  BY DEF StreamInit, Init, SlotsInv
<1>2. InClient = <<>> /\ InRequest = <<>> /\ InHandler = <<>> /\ InServer = <<>> /\ InSlot = <<>>
      /\ s2c = <<>> /\ c2s = <<>> /\ file_queue = <<>> /\ c_queue = <<>>
  BY DEF StreamInit, Init, InClient, InRequest, InHandler, InServer, InSlot, If
<1>3. Asked = <<>> /\ InHand = <<>> /\ AskedLater = <<>> /\ ToQueue = <<>>
  <2>1. \A type : Named(<<>>, <<>>, <<>>, type) = <<>>
    <3>1. Line(<<>>, <<>>, <<>>) = <<>>
      BY DEF Line
    <3> QED
      BY <3>1, EmptyFiles DEF Named
  <2> QED
    BY <1>2, <2>1, EmptyFiles DEF Asked, InHand, AskedLater, ToQueue
<1>4. Mirror(<<>>, <<>>, <<>>, <<>>, <<>>)
  BY DEF Mirror, Behind
<1>5. QueueMirror
  BY <1>2, <1>3, <1>4, WholeMirror
<1> QED
  BY <1>1, <1>5, TypeInit DEF MirrorInv

(* The mirror and what it rests on hold always. *)
LEMMA MirrorAlways == ASSUME NoneMissing PROVE StreamSpec => []MirrorInv
<1>1. StreamInit => MirrorInv
  BY MirrorInit
<1>2. MirrorInv /\ [StreamNext]_svars => MirrorInv'
  BY MirrorStep
<1> QED
  BY <1>1, <1>2, PTL DEF StreamSpec

(***************************************************************************)
(* The client's queue mirrors the server's, while the two play and while   *)
(* files are on their way, if none of the client's files is missing:       *)
(* what the client takes off when it begins a transfer is what the server  *)
(* took off to ask for it (socket.c, parse_packet; audio.c, queue_pop).    *)
(***************************************************************************)
THEOREM QueuesMirror == ASSUME NoneMissing PROVE StreamSpec => []QueueMirror
<1>1. MirrorInv => QueueMirror
  BY DEF MirrorInv
<1> QED
  BY <1>1, MirrorAlways, PTL

(***************************************************************************)
(* The server never asks for a file that is not next in the client's queue *)
(* nor finds that queue empty, where parse_packet would compare with, and  *)
(* count down from, an entry that is not there, if none of the client's    *)
(* files is missing.                                                       *)
(***************************************************************************)
THEOREM RequestsFound == ASSUME NoneMissing PROVE StreamSpec => []RequestIsHead
<1>1. MirrorInv => RequestIsHead
  BY RequestFound
<1> QED
  BY <1>1, MirrorAlways, PTL

=============================================================================
