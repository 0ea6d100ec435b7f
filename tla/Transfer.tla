------------------------------ MODULE Transfer ------------------------------
(***************************************************************************)
(* How a file travels: the AUDIOFILE_FILE_REQ branch of parse_packet       *)
(* (socket/socket.c) cuts it into packets of one size, each with an index  *)
(* as wide as the file needs; send may take any part of a packet, or fail  *)
(* when the connection is gone; the server cuts the bytes into packets     *)
(* again (Framing) and copies their data to the place the index says.      *)
(*                                                                         *)
(* The first byte of a packet is its kind alone: the other bits of the     *)
(* header are constant here.  When a client left in the middle of a packet *)
(* the packets of the next are cut in the wrong places (see FullPackets);  *)
(* how the parser takes those is not followed.                             *)
(***************************************************************************)
EXTENDS Framing, FiniteSets

CONSTANTS
  Files,            \* the contents of the files: sequences of bytes
  Base,             \* the number of values of a byte
  BUFFER_SIZE,      \* what START allocates: 100 * SIZE_MB
  Junk,             \* what malloc leaves in a byte
  Window,           \* bytes that fit between send and recv
  MaxTransfers      \* bound: files asked for

VARIABLES
  spc,              \* where the client's thread is: "idle", "fill" or "send"
  file_data,        \* the file and its padding
  file_data_index,  \* how much of it is in packets
  buffer,           \* the packet
  total_written,    \* bytes sent, modulo PACKET_SIZE (a divisor of 2^64)
  broken,           \* whether the connection is gone
  transfers,        \* how many files were asked for
  asked,            \* the file the server waits for, or <<>>
  data, len,        \* AudioState.audio->data and ->len
  song              \* what END completed last

senderVars == <<spc, file_data, file_data_index, buffer, total_written>>
audioVars == <<data, len>>
vars == <<stream, framingVars, senderVars, broken, transfers, asked, audioVars, song>>

START == 0
MIDDLE == 1
END == 2
HEADER_LEN == 1

ASSUME WindowAssumption == Window \in Nat \ {0}
ASSUME BaseAssumption == Base \in Nat \ {0, 1} /\ BUFFER_SIZE \in Nat

Fresh(n) == [i \in 1 .. n |-> Junk]
Zeros(n) == [i \in 1 .. n |-> 0]

-----------------------------------------------------------------------------
(* Arithmetic on packets *)

\* 1 << (8 * n): how many values an index of n bytes has.
Power[n \in Nat] == IF n = 0 THEN 1 ELSE Base * Power[n - 1]

Payload(width) == PACKET_SIZE - (HEADER_LEN + 1 + width)

\* START allocates room for the data of a packet (100 MB, for less than 4 kB).
ASSUME BufferAssumption == Payload(1) <= BUFFER_SIZE

\* Slip: the number of packets, not the largest index, is compared.
FitsOneMore(size, width) == Power[width] >= size \div Payload(width)

Fits(size, width) == Power[width] - 1 >= size \div Payload(width)

Widths == {w \in 1 .. PACKET_SIZE : HEADER_LEN + 1 + w < PACKET_SIZE}

IndexWidth(size) ==
  CHOOSE w \in Widths : Fits(size, w) /\ \A v \in 1 .. w - 1 : ~Fits(size, v)

\* The branch for a packet too small for any index is left out.
ASSUME FilesAssumption ==
  \A f \in Files : f \in Seq(Nat) /\ Len(f) > 0 /\ \E w \in Widths : Fits(Len(f), w)

\* Slip: a file that fills its last packet gets another one.
PaddingAlways(size, width) == Payload(width) - (size % Payload(width))

Padding(size, width) == (Payload(width) - (size % Payload(width))) % Payload(width)

Width(p) == p[HEADER_LEN + 1]
Index(p) == SubSeq(p, HEADER_LEN + 2, HEADER_LEN + 1 + Width(p))
Data(p) == SubSeq(p, HEADER_LEN + 2 + Width(p), Len(p))

\* Slip: the first byte is the most significant.
GetBigEndian(p) ==
  LET value[i \in 0 .. Width(p)] == IF i = 0 THEN 0 ELSE value[i - 1] * Base + Index(p)[i]
  IN  value[Width(p)]

\* Little-endian.
GetPacketIndex(p) ==
  LET value[i \in 0 .. Width(p)] ==
        IF i = 0 THEN 0 ELSE value[i - 1] + Index(p)[i] * Power[i - 1]
  IN  value[Width(p)]

\* A byte is incremented when all before it have wrapped to 0.
IncPacketIndex(p) ==
  [i \in DOMAIN p |->
     IF /\ i \in HEADER_LEN + 2 .. HEADER_LEN + 1 + Width(p)
        /\ \A j \in HEADER_LEN + 2 .. i - 1 : p[j] = Base - 1
     THEN (p[i] + 1) % Base
     ELSE p[i]]

Packets(size) ==
  LET w == IndexWidth(size) IN (size + Padding(size, w)) \div Payload(w)

Kind(index, packets) ==
  IF index = 0 THEN START ELSE IF index = packets - 1 THEN END ELSE MIDDLE

-----------------------------------------------------------------------------
Init ==
  /\ FramingInit
  /\ spc = "idle" /\ file_data = <<>> /\ file_data_index = 0
  /\ buffer = <<>> /\ total_written = 0
  /\ broken = FALSE /\ transfers = 0
  /\ asked = <<>>
  /\ data = <<>> /\ len = 0 /\ song = <<>>

(* The client's socket thread, in parse_packet *)

\* A request, and the preparation of the first packet.
BeginTransfer(f) ==
  LET width == IndexWidth(Len(f))
  IN  /\ spc = "idle" /\ asked = <<>> /\ ~broken
      /\ spc' = "fill"
      /\ asked' = f
      /\ file_data' = f \o Zeros(Padding(Len(f), width))
      /\ file_data_index' = 0
      /\ buffer' = <<Junk, width>> \o Zeros(width) \o Fresh(Payload(width))
      /\ total_written' = 0
      /\ transfers < MaxTransfers
      /\ transfers' = transfers + 1
      /\ UNCHANGED <<stream, framingVars, broken, audioVars, song>>

FillPacket ==
  /\ spc = "fill"
  /\ file_data_index < Len(file_data)
  /\ spc' = "send"
  /\ LET payload == Len(Data(buffer))
     IN  buffer' = <<Kind(GetPacketIndex(buffer), Len(file_data) \div payload), Width(buffer)>>
                   \o Index(buffer)
                   \o SubSeq(file_data, file_data_index + 1, file_data_index + payload)
  /\ UNCHANGED <<file_data, file_data_index, total_written, stream, framingVars,
                 broken, transfers, asked, audioVars, song>>

EndTransfer ==
  /\ spc = "fill"
  /\ file_data_index >= Len(file_data)
  /\ spc' = "idle"
  /\ UNCHANGED <<file_data, file_data_index, buffer, total_written, stream, framingVars,
                 broken, transfers, asked, audioVars, song>>

\* The inner loop ends when a multiple of PACKET_SIZE is written.
Written(total) ==
  /\ total_written' = total
  /\ \/ /\ total = 0
        /\ spc' = "fill"
        /\ buffer' = IncPacketIndex(buffer)
        /\ file_data_index' = file_data_index + Len(Data(buffer))
     \/ /\ total # 0
        /\ UNCHANGED <<spc, buffer, file_data_index>>
  /\ UNCHANGED <<file_data, framingVars, broken, transfers, asked, audioVars, song>>

\* Slip: a full packet is not recognised, and the next read begins behind it.
SendUncounted(n) ==
  /\ spc = "send" /\ ~broken
  /\ Len(stream) + n <= received + Window
  /\ stream' = stream \o SubSeq(buffer, total_written + 1, total_written + n)
  /\ Written(total_written + n)

\* It waits while there is no room for what it sends.
Send(n) ==
  /\ spc = "send" /\ ~broken
  /\ total_written + n <= PACKET_SIZE
  /\ Len(stream) + n <= received + Window
  /\ stream' = stream \o SubSeq(buffer, total_written + 1, total_written + n)
  /\ Written(IF total_written + n = PACKET_SIZE THEN 0 ELSE total_written + n)

\* Slip: a failed send is not added to what was written.
SendFailsIgnored ==
  /\ spc = "send" /\ broken
  /\ UNCHANGED stream
  /\ Written(total_written)

\* A failed send returns -1, and that is added.
SendFails ==
  /\ spc = "send" /\ broken
  /\ UNCHANGED stream
  /\ Written(IF total_written = 0 THEN PACKET_SIZE - 1 ELSE total_written - 1)

Sender == \/ FillPacket \/ EndTransfer \/ SendFails
          \/ \E n \in 1 .. PACKET_SIZE : Send(n)

-----------------------------------------------------------------------------
(* The connection *)

Break ==
  /\ ~broken
  /\ broken' = TRUE
  /\ UNCHANGED <<stream, framingVars, senderVars, transfers, asked, audioVars, song>>

\* recv returns 0 and the server accepts another client; the handler goes on waiting.
Reconnect ==
  /\ broken /\ spc = "idle"
  /\ NextConnection
  /\ broken' = FALSE
  /\ UNCHANGED <<senderVars, transfers, asked, audioVars, song>>

\* The packets of this connection are cut in the wrong places.
Torn == carried # 0

(***************************************************************************)
(* `resume` lets the handler go without the file.  Here it comes when      *)
(* nothing of the file is on its way any more; Streaming has it any time.  *)
(***************************************************************************)
Resume ==
  /\ asked # <<>>
  /\ spc = "idle" /\ received = Len(stream)
  /\ Torn \/ recv_data_packet_buf = <<>>
  /\ asked' = <<>>
  /\ UNCHANGED <<stream, framingVars, senderVars, broken, transfers, audioVars, song>>

-----------------------------------------------------------------------------
(* The server's socket thread *)

\* memcpy of s to place at of a block that is at least as long as needed
Copy(block, at, s) ==
  [i \in 1 .. Len(block) |-> IF i \in at + 1 .. at + Len(s) THEN s[i - at] ELSE block[i]]

\* realloc doubles the block, once.
Grow(block, needed) ==
  IF needed > Len(block) THEN block \o Fresh(Len(block)) ELSE block

Store(p) ==
  /\ data' = Copy(Grow(data, len + Len(Data(p))), Len(Data(p)) * GetPacketIndex(p), Data(p))
  /\ len' = len + Len(Data(p))

ParseStart(p) ==
  /\ p[1] = START
  /\ data' = Copy(Fresh(BUFFER_SIZE), 0, Data(p))
  /\ len' = Len(Data(p))
  /\ UNCHANGED <<asked, song>>

ParseMiddle(p) ==
  /\ p[1] = MIDDLE
  /\ Store(p)
  /\ UNCHANGED <<asked, song>>

\* The handler, which waits for the file, is let go.
ParseEnd(p) ==
  /\ p[1] = END
  /\ Store(p)
  /\ song' = SubSeq(data', 1, len')
  /\ asked' = <<>>

Receive(n) ==
  /\ Recv(n)
  /\ \/ /\ packet' = <<>> \/ Torn
        /\ UNCHANGED <<asked, audioVars, song>>
     \/ packet' # <<>> /\ ~Torn /\ (ParseStart(packet') \/ ParseMiddle(packet') \/ ParseEnd(packet'))
  /\ UNCHANGED <<stream, senderVars, broken, transfers>>

Receiver == \E n \in 1 .. PACKET_SIZE : Receive(n)

Next == \/ \E f \in Files : BeginTransfer(f)
        \/ Sender \/ Break \/ Reconnect \/ Resume \/ Receiver

Spec == Init /\ [][Next]_vars

\* Both threads run.
Fairness == WF_vars(Sender) /\ WF_vars(Receiver)

FairSpec == Spec /\ Fairness

-----------------------------------------------------------------------------
(* Every variable has its type. *)
Byte == Nat \cup {Junk}
TypeOK ==
  /\ spc \in {"idle", "fill", "send"}
  /\ {stream, recv_data_packet_buf, packet, file_data, buffer, data, song} \subseteq Seq(Byte)
  /\ {carried, received, parsed, file_data_index, len, transfers} \subseteq Nat
  /\ total_written \in 0 .. PACKET_SIZE - 1
  /\ broken \in BOOLEAN
  /\ asked \in Files \cup {<<>>}

(***************************************************************************)
(* What the server plays is the file it asked for, whatever pieces it was  *)
(* sent and received in, across all index widths and paddings: the index   *)
(* is wide enough, END is the last packet and comes last, and every packet *)
(* lands at its place.                                                     *)
(***************************************************************************)
D == INSTANCE Delivery WITH MaxPadding <- Payload(1) - 1

IsDelivery == D!Spec

(***************************************************************************)
(* The data of a packet are copied to a place inside the block: the check  *)
(* that lets it grow looks at the bytes stored so far, the copy goes where *)
(* the index says (socket.c:205 and 209).                                  *)
(***************************************************************************)
CopyInside ==
  [][packet' # <<>> /\ parsed' # parsed /\ ~Torn =>
       Len(Data(packet')) * (GetPacketIndex(packet') + 1) <= Len(data')]_vars

(***************************************************************************)
(* A transfer ends, also when the connection breaks in the middle of it    *)
(* and every send fails: a failure takes total_written one byte back, down *)
(* to a multiple of PACKET_SIZE.                                           *)
(***************************************************************************)
TransferReturns == spc # "idle" ~> spc = "idle"

(***************************************************************************)
(* A file of more than one packet that its client has begun to send        *)
(* arrives, unless the connection breaks or an earlier one broke in the    *)
(* middle of a packet.                                                     *)
(***************************************************************************)
FileArrives ==
  \A f \in Files :
    Packets(Len(f)) > 1 => (asked = f /\ spc # "idle" ~> asked # f \/ broken \/ Torn)
=============================================================================
