------------------------------- MODULE Framing -------------------------------
(***************************************************************************)
(* How the server cuts what it receives into packets: the loop of          *)
(* start_server (socket/server.c) around recv and parse_packet.  TCP gives *)
(* back the bytes of a connection in order, in pieces of any size; each    *)
(* piece is added to recv_data_packet_buf, and as soon as that holds a     *)
(* packet the packet is parsed.                                            *)
(***************************************************************************)
EXTENDS Naturals, Sequences

CONSTANT PACKET_SIZE

ASSUME PacketAssumption == PACKET_SIZE \in Nat \ {0}

VARIABLES
  stream,                 \* what the buffer held, and then what the client of this connection sent
  carried,                \* how much of it the client before had sent
  received,               \* how much of it is or was in the buffer
  recv_data_packet_buf,   \* its first recv_packet_len bytes
  packet,                 \* the packet just handed to parse_packet, or <<>>
  parsed                  \* how many were, over this connection

framingVars == <<carried, received, recv_data_packet_buf, packet, parsed>>

FramingInit ==
  /\ stream = <<>> /\ carried = 0 /\ received = 0
  /\ recv_data_packet_buf = <<>>
  /\ packet = <<>> /\ parsed = 0

\* Slip: only a buffer that holds exactly one packet is parsed.
RecvExact(n) ==
  LET all == recv_data_packet_buf \o SubSeq(stream, received + 1, received + n)
  IN  /\ received + n <= Len(stream)
      /\ received' = received + n /\ carried' = carried
      /\ \/ /\ Len(all) # PACKET_SIZE
            /\ recv_data_packet_buf' = all
            /\ packet' = <<>> /\ parsed' = parsed
         \/ /\ Len(all) = PACKET_SIZE
            /\ packet' = all /\ parsed' = parsed + 1
            /\ recv_data_packet_buf' = <<>>

\* Slip: what follows a packet in the buffer is not moved to its front.
RecvDropsRest(n) ==
  LET all == recv_data_packet_buf \o SubSeq(stream, received + 1, received + n)
  IN  /\ received + n <= Len(stream)
      /\ received' = received + n /\ carried' = carried
      /\ \/ /\ Len(all) < PACKET_SIZE
            /\ recv_data_packet_buf' = all
            /\ packet' = <<>> /\ parsed' = parsed
         \/ /\ Len(all) >= PACKET_SIZE
            /\ packet' = SubSeq(all, 1, PACKET_SIZE) /\ parsed' = parsed + 1
            /\ recv_data_packet_buf' = <<>>

(***************************************************************************)
(* recv returns n bytes, at most a packet's worth, and at most one packet  *)
(* is parsed: what follows it is moved to the front of the buffer.         *)
(***************************************************************************)
Recv(n) ==
  LET all == recv_data_packet_buf \o SubSeq(stream, received + 1, received + n)
  IN  /\ received + n <= Len(stream)
      /\ received' = received + n /\ carried' = carried
      /\ \/ /\ Len(all) < PACKET_SIZE
            /\ recv_data_packet_buf' = all
            /\ packet' = <<>> /\ parsed' = parsed
         \/ /\ Len(all) >= PACKET_SIZE
            /\ packet' = SubSeq(all, 1, PACKET_SIZE) /\ parsed' = parsed + 1
            /\ recv_data_packet_buf' = SubSeq(all, PACKET_SIZE + 1, Len(all))

\* Another client: recv_data_packet_buf is as the one before left it.
NextConnection ==
  /\ stream' = recv_data_packet_buf
  /\ carried' = Len(recv_data_packet_buf) /\ received' = Len(recv_data_packet_buf)
  /\ packet' = <<>> /\ parsed' = 0
  /\ UNCHANGED recv_data_packet_buf

-----------------------------------------------------------------------------
(***************************************************************************)
(* The stream is cut into packets without a gap or an overlap, whatever    *)
(* pieces recv returns and however many clients there have been: what      *)
(* parse_packet is given are the next PACKET_SIZE bytes, where those that  *)
(* an earlier client left in the buffer count as the first of the stream.  *)
(***************************************************************************)
StreamCut ==
  packet # <<>> =>
    /\ parsed * PACKET_SIZE <= Len(stream)
    /\ packet = SubSeq(stream, (parsed - 1) * PACKET_SIZE + 1, parsed * PACKET_SIZE)

(***************************************************************************)
(* `This acts as a buffer so the logical-packet parser gets full packets'  *)
(* (server.c:89): what parse_packet is given is what the client of this    *)
(* connection sent as a packet.                                            *)
(***************************************************************************)
Own == SubSeq(stream, carried + 1, Len(stream))
FullPackets ==
  packet # <<>> =>
    /\ parsed * PACKET_SIZE <= Len(Own)
    /\ packet = SubSeq(Own, (parsed - 1) * PACKET_SIZE + 1, parsed * PACKET_SIZE)

(***************************************************************************)
(* Between two recvs less than a packet is waiting: the next piece fits    *)
(* into the 2 * PACKET_SIZE bytes of the buffer, and one call of           *)
(* parse_packet per recv is enough to keep up.                             *)
(***************************************************************************)
NoBacklog == Len(recv_data_packet_buf) < PACKET_SIZE
=============================================================================
