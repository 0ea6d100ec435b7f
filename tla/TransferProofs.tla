---------------------------- MODULE TransferProofs ----------------------------
(***************************************************************************)
(* Proofs about Transfer, for packets, files and indices of every size:    *)
(* the server cuts what it receives into packets without a gap or an       *)
(* overlap, however TCP cut the bytes; no copy of the parser leaves its    *)
(* block; and a file that arrives is the one that was asked for, byte by   *)
(* byte.                                                                   *)
(***************************************************************************)
EXTENDS Transfer, SequenceTheorems, WellFoundedInduction, TLAPS

-----------------------------------------------------------------------------
(* The inductive invariant of the receiving side *)

\* What waits in the buffer are the bytes after the last packet.
Frames ==
  /\ stream \in Seq(Byte) /\ recv_data_packet_buf \in Seq(Byte)
  /\ received \in 0 .. Len(stream) /\ parsed \in Nat /\ carried \in Nat
  /\ received = parsed * PACKET_SIZE + Len(recv_data_packet_buf)
  /\ \A i \in 1 .. Len(recv_data_packet_buf) :
        recv_data_packet_buf[i] = stream[parsed * PACKET_SIZE + i]

\* The last packet is the one before these bytes.
LastPacket ==
  packet # <<>> =>
    /\ packet \in Seq(Byte) /\ Len(packet) = PACKET_SIZE
    /\ parsed \in Nat \ {0} /\ parsed * PACKET_SIZE <= Len(stream)
    /\ \A i \in 1 .. PACKET_SIZE : packet[i] = stream[(parsed - 1) * PACKET_SIZE + i]

-----------------------------------------------------------------------------
(* Lemmas about sequences of bytes *)

(* A piece of a sequence, and what precedes it, byte for byte. *)
LEMMA AppendPiece ==
  ASSUME NEW s \in Seq(Byte), NEW b \in Seq(Byte), NEW k \in Nat, NEW n \in Nat,
         k + n <= Len(s), Len(b) <= k,
         \A i \in 1 .. Len(b) : b[i] = s[k - Len(b) + i],
         NEW all, all = b \o SubSeq(s, k + 1, k + n)
  PROVE  /\ all \in Seq(Byte) /\ Len(all) = Len(b) + n
         /\ \A i \in 1 .. Len(b) + n : all[i] = s[k - Len(b) + i]
<1> DEFINE piece == SubSeq(s, k + 1, k + n)
<1>0. Len(s) \in Nat /\ Len(b) \in Nat
  BY LenProperties
<1>1. \A i \in k + 1 .. k + n : s[i] \in Byte
  BY <1>0, ElementOfSeq
<1>2. /\ piece \in Seq(Byte)
      /\ Len(piece) = IF k + 1 <= k + n THEN k + n - (k + 1) + 1 ELSE 0
      /\ \A i \in 1 .. k + n - (k + 1) + 1 : piece[i] = s[k + 1 + i - 1]
  BY <1>1, SubSeqProperties
<1> HIDE DEF piece
<1>3. Len(piece) = n /\ \A i \in 1 .. n : piece[i] = s[k + i]
  <2>1. k + n - (k + 1) + 1 = n /\ \A i \in 1 .. n : k + 1 + i - 1 = k + i
    OBVIOUS
  <2> QED
    BY <1>2, <2>1
<1>4. /\ b \o piece \in Seq(Byte)
      /\ Len(b \o piece) = Len(b) + Len(piece)
      /\ \A i \in 1 .. Len(b) + Len(piece) :
            (b \o piece)[i] = IF i <= Len(b) THEN b[i] ELSE piece[i - Len(b)]
  BY <1>2, ConcatProperties
<1>5. all = b \o piece
  BY DEF piece
<1>6. ASSUME NEW i \in 1 .. Len(b) + n
      PROVE  all[i] = s[k - Len(b) + i]
  <2>1. CASE i <= Len(b)
    BY <1>0, <1>3, <1>4, <1>5, <2>1
  <2>2. CASE i > Len(b)
    <3>1. i - Len(b) \in 1 .. n /\ k + (i - Len(b)) = k - Len(b) + i
      BY <1>0, <2>2
    <3>2. all[i] = piece[i - Len(b)]
      BY <1>0, <1>3, <1>4, <1>5, <2>2
    <3> QED
      BY <1>3, <3>1, <3>2
  <2> QED
    BY <1>0, <2>1, <2>2
<1> QED
  BY <1>3, <1>4, <1>5, <1>6

(* A sequence cut in two: the first part and the rest. *)
LEMMA CutAt ==
  ASSUME NEW s \in Seq(Byte), NEW n \in 0 .. Len(s)
  PROVE  /\ SubSeq(s, 1, n) \in Seq(Byte) /\ Len(SubSeq(s, 1, n)) = n
         /\ \A i \in 1 .. n : SubSeq(s, 1, n)[i] = s[i]
         /\ SubSeq(s, n + 1, Len(s)) \in Seq(Byte)
         /\ Len(SubSeq(s, n + 1, Len(s))) = Len(s) - n
         /\ \A i \in 1 .. Len(s) - n : SubSeq(s, n + 1, Len(s))[i] = s[n + i]
<1>1. Len(s) \in Nat
  BY LenProperties
<1>2. \A i \in 1 .. n : s[i] \in Byte
  BY <1>1, ElementOfSeq
<1>3. \A i \in n + 1 .. Len(s) : s[i] \in Byte
  BY <1>1, ElementOfSeq
<1>4. /\ SubSeq(s, 1, n) \in Seq(Byte)
      /\ Len(SubSeq(s, 1, n)) = IF 1 <= n THEN n - 1 + 1 ELSE 0
      /\ \A i \in 1 .. n - 1 + 1 : SubSeq(s, 1, n)[i] = s[1 + i - 1]
  BY <1>1, <1>2, SubSeqProperties
<1>5. /\ SubSeq(s, n + 1, Len(s)) \in Seq(Byte)
      /\ Len(SubSeq(s, n + 1, Len(s))) = IF n + 1 <= Len(s) THEN Len(s) - (n + 1) + 1 ELSE 0
      /\ \A i \in 1 .. Len(s) - (n + 1) + 1 : SubSeq(s, n + 1, Len(s))[i] = s[n + 1 + i - 1]
  BY <1>1, <1>3, SubSeqProperties
<1> QED
  BY <1>1, <1>4, <1>5

-----------------------------------------------------------------------------
(* The steps of the receiving side *)

(* recv, with a packet parsed or not, keeps its place. *)
LEMMA RecvKeepsPlace ==
  ASSUME NoBacklog, Frames, NEW n \in 1 .. PACKET_SIZE, Recv(n), UNCHANGED stream
  PROVE  NoBacklog' /\ Frames' /\ LastPacket'
<1> DEFINE b == recv_data_packet_buf
           all == b \o SubSeq(stream, received + 1, received + n)
<1>0. PACKET_SIZE \in Nat \ {0} /\ Len(stream) \in Nat /\ Len(b) \in Nat
  BY PacketAssumption, LenProperties DEF Frames
<1>1. /\ received \in Nat /\ parsed \in Nat
      /\ received = parsed * PACKET_SIZE + Len(b)
      /\ received + n <= Len(stream) /\ Len(b) < PACKET_SIZE
      /\ parsed * PACKET_SIZE \in Nat
  BY <1>0 DEF Frames, Recv, NoBacklog
<1>2. received - Len(b) = parsed * PACKET_SIZE /\ Len(b) <= received
  BY <1>0, <1>1
<1>3. /\ all \in Seq(Byte) /\ Len(all) = Len(b) + n
      /\ \A i \in 1 .. Len(b) + n : all[i] = stream[received - Len(b) + i]
  BY <1>0, <1>1, <1>2, AppendPiece, SMTT(30) DEF Frames
<1>4. \A i \in 1 .. Len(all) : all[i] = stream[parsed * PACKET_SIZE + i]
  BY <1>2, <1>3
<1>5. received' = received + n /\ stream' = stream /\ carried' \in Nat
  BY DEF Recv, Frames
<1>8. \/ /\ Len(all) < PACKET_SIZE
         /\ recv_data_packet_buf' = all
         /\ packet' = <<>> /\ parsed' = parsed
      \/ /\ Len(all) >= PACKET_SIZE
         /\ packet' = SubSeq(all, 1, PACKET_SIZE) /\ parsed' = parsed + 1
         /\ recv_data_packet_buf' = SubSeq(all, PACKET_SIZE + 1, Len(all))
  BY DEF Recv
<1>9. Len(all) \in Nat
  BY <1>0, <1>3
<1> HIDE DEF all
<1>6. CASE Len(all) < PACKET_SIZE
  <2>1. recv_data_packet_buf' = all /\ packet' = <<>> /\ parsed' = parsed
    BY <1>0, <1>6, <1>8, <1>9
  <2>2. NoBacklog'
    BY <1>6, <2>1 DEF NoBacklog
  <2>3. Frames'
    <3>1. \A i \in 1 .. Len(all) : all[i] = stream'[parsed' * PACKET_SIZE + i]
      BY <1>4, <1>5, <2>1
    <3>2. received' \in 0 .. Len(stream') /\ received' = parsed' * PACKET_SIZE + Len(all)
      <4>1. received' \in 0 .. Len(stream')
        BY <1>0, <1>1, <1>5
      <4>2. Len(all) = Len(b) + n /\ parsed' = parsed
        BY <1>3, <2>1
      <4> QED
        BY <1>0, <1>1, <1>5, <4>1, <4>2
    <3>3. stream' \in Seq(Byte) /\ all \in Seq(Byte) /\ parsed' \in Nat
      BY <1>1, <1>3, <1>5, <2>1 DEF Frames
    <3> QED
      BY <1>5, <2>1, <3>1, <3>2, <3>3 DEF Frames
  <2>4. LastPacket'
    BY <2>1 DEF LastPacket
  <2> QED
    BY <2>2, <2>3, <2>4
<1>7. CASE Len(all) >= PACKET_SIZE
  <2>1. /\ packet' = SubSeq(all, 1, PACKET_SIZE) /\ parsed' = parsed + 1
        /\ recv_data_packet_buf' = SubSeq(all, PACKET_SIZE + 1, Len(all))
    BY <1>0, <1>7, <1>8, <1>9
  <2>2. PACKET_SIZE \in 0 .. Len(all)
    BY <1>0, <1>1, <1>3, <1>7
  <2>3. /\ packet' \in Seq(Byte) /\ Len(packet') = PACKET_SIZE
        /\ \A i \in 1 .. PACKET_SIZE : packet'[i] = all[i]
        /\ recv_data_packet_buf' \in Seq(Byte)
        /\ Len(recv_data_packet_buf') = Len(all) - PACKET_SIZE
        /\ \A i \in 1 .. Len(all) - PACKET_SIZE :
              recv_data_packet_buf'[i] = all[PACKET_SIZE + i]
    BY <1>3, <2>1, <2>2, CutAt
  <2>4. parsed' * PACKET_SIZE = parsed * PACKET_SIZE + PACKET_SIZE
    BY <1>0, <1>1, <2>1
  <2>5. NoBacklog'
    <3>1. Len(b) < PACKET_SIZE /\ Len(all) = Len(b) + n
      BY <1>1, <1>3
    <3>2. Len(all) - PACKET_SIZE < PACKET_SIZE
      BY <1>0, <3>1
    <3> QED
      BY <2>3, <3>2 DEF NoBacklog
  <2>6. received' = parsed' * PACKET_SIZE + Len(recv_data_packet_buf')
    <3>1. received' = parsed * PACKET_SIZE + Len(all)
      BY <1>0, <1>1, <1>3, <1>5
    <3>2. parsed * PACKET_SIZE \in Nat
      BY <1>1
    <3> QED
      BY <1>0, <1>9, <2>3, <2>4, <3>1, <3>2
  <2>7. ASSUME NEW i \in 1 .. Len(recv_data_packet_buf')
        PROVE  recv_data_packet_buf'[i] = stream'[parsed' * PACKET_SIZE + i]
    <3>1. PACKET_SIZE + i \in 1 .. Len(all)
      BY <1>0, <1>1, <1>3, <1>7, <2>3
    <3>2. parsed * PACKET_SIZE + (PACKET_SIZE + i) = parsed' * PACKET_SIZE + i
      BY <1>0, <1>1, <1>3, <2>3, <2>4
    <3> QED
      BY <1>4, <1>5, <2>3, <3>1, <3>2
  <2>8. Frames'
    <3>1. received' \in 0 .. Len(stream')
      BY <1>0, <1>1, <1>5
    <3>2. parsed' \in Nat
      BY <1>1, <2>1
    <3>3. stream' \in Seq(Byte)
      BY <1>5 DEF Frames
    <3> QED
      BY <1>5, <2>3, <2>6, <2>7, <3>1, <3>2, <3>3 DEF Frames
  <2>9. LastPacket'
    <3>1. parsed' \in Nat \ {0} /\ parsed' - 1 = parsed
      BY <1>1, <2>1
    <3>2. parsed' * PACKET_SIZE <= Len(stream')
      <4>1. Len(b) + n >= PACKET_SIZE /\ received + n <= Len(stream')
        BY <1>1, <1>3, <1>5, <1>7
      <4> QED
        BY <1>0, <1>1, <2>4, <4>1
    <3>3. \A i \in 1 .. PACKET_SIZE : packet'[i] = stream'[parsed * PACKET_SIZE + i]
      BY <1>0, <1>3, <1>4, <1>5, <1>7, <2>3, <2>2
    <3> QED
      BY <2>3, <3>1, <3>2, <3>3 DEF LastPacket
  <2> QED
    BY <2>5, <2>8, <2>9
<1> QED
  BY <1>0, <1>1, <1>3, <1>6, <1>7

(* More bytes sent do not move those that were. *)
LEMMA SendKeepsPlace ==
  ASSUME Frames, LastPacket, NEW piece \in Seq(Byte), stream' = stream \o piece,
         UNCHANGED framingVars
  PROVE  Frames' /\ LastPacket'
<1>0. PACKET_SIZE \in Nat \ {0} /\ Len(stream) \in Nat /\ Len(piece) \in Nat
      /\ Len(recv_data_packet_buf) \in Nat
  BY PacketAssumption, LenProperties DEF Frames
<1>1. /\ stream' \in Seq(Byte) /\ Len(stream') = Len(stream) + Len(piece)
      /\ \A i \in 1 .. Len(stream) + Len(piece) :
            stream'[i] = IF i <= Len(stream) THEN stream[i] ELSE piece[i - Len(stream)]
  BY ConcatProperties DEF Frames
<1>2. Len(stream) <= Len(stream') /\ \A i \in 1 .. Len(stream) : stream'[i] = stream[i]
  BY <1>0, <1>1
<1>3. /\ received' = received /\ recv_data_packet_buf' = recv_data_packet_buf
      /\ packet' = packet /\ parsed' = parsed /\ carried' = carried
  BY DEF framingVars
<1>4. Frames'
  <2>1. ASSUME NEW i \in 1 .. Len(recv_data_packet_buf)
        PROVE  recv_data_packet_buf[i] = stream'[parsed * PACKET_SIZE + i]
    <3>1. parsed * PACKET_SIZE + i \in 1 .. Len(stream)
      BY <1>0 DEF Frames
    <3> QED
      BY <1>2, <3>1 DEF Frames
  <2> QED
    BY <1>0, <1>1, <1>2, <1>3, <2>1 DEF Frames
<1>5. LastPacket'
  <2> SUFFICES ASSUME packet # <<>>
               PROVE  LastPacket'
    BY <1>3 DEF LastPacket
  <2>1. ASSUME NEW i \in 1 .. PACKET_SIZE
        PROVE  packet[i] = stream'[(parsed - 1) * PACKET_SIZE + i]
    <3>1. (parsed - 1) * PACKET_SIZE + PACKET_SIZE = parsed * PACKET_SIZE
          /\ (parsed - 1) * PACKET_SIZE \in Nat
      BY <1>0 DEF LastPacket
    <3>2. (parsed - 1) * PACKET_SIZE + i \in 1 .. Len(stream)
      BY <1>0, <3>1, SMTT(30) DEF LastPacket
    <3> QED
      BY <1>2, <3>2 DEF LastPacket
  <2>2. parsed * PACKET_SIZE <= Len(stream')
    BY <1>0, <1>1, <1>2 DEF LastPacket
  <2> QED
    BY <1>3, <2>1, <2>2 DEF LastPacket
<1> QED
  BY <1>4, <1>5

(* What is parsed is the next packet of the stream. *)
LEMMA PacketOfStream ==
  ASSUME Frames, LastPacket
  PROVE  StreamCut
<1> SUFFICES ASSUME packet # <<>>
             PROVE  /\ parsed * PACKET_SIZE <= Len(stream)
                    /\ packet = SubSeq(stream, (parsed - 1) * PACKET_SIZE + 1, parsed * PACKET_SIZE)
  BY DEF StreamCut
<1> DEFINE m == (parsed - 1) * PACKET_SIZE + 1
           p == SubSeq(stream, m, parsed * PACKET_SIZE)
<1>0. PACKET_SIZE \in Nat \ {0} /\ Len(stream) \in Nat
  BY PacketAssumption, LenProperties DEF Frames
<1>1. /\ m \in Nat \ {0} /\ parsed * PACKET_SIZE \in Nat
      /\ parsed * PACKET_SIZE = m + PACKET_SIZE - 1
      /\ parsed * PACKET_SIZE <= Len(stream)
  BY <1>0, SMTT(30) DEF LastPacket
<1>2. \A i \in m .. parsed * PACKET_SIZE : stream[i] \in Byte
  BY <1>0, <1>1, ElementOfSeq DEF Frames
<1>3. \A i \in 1 .. PACKET_SIZE : packet[i] = stream[m + i - 1]
  BY <1>0, SMTT(30) DEF LastPacket
<1> HIDE DEF m
<1>4. /\ p \in Seq(Byte)
      /\ Len(p) = IF m <= parsed * PACKET_SIZE THEN parsed * PACKET_SIZE - m + 1 ELSE 0
      /\ \A i \in 1 .. parsed * PACKET_SIZE - m + 1 : p[i] = stream[m + i - 1]
  BY <1>1, <1>2, SubSeqProperties
<1>5. Len(p) = PACKET_SIZE /\ \A i \in 1 .. PACKET_SIZE : p[i] = stream[m + i - 1]
  BY <1>0, <1>1, <1>4
<1> HIDE DEF p
<1>6. packet = p
  <2>1. packet \in Seq(Byte) /\ Len(packet) = PACKET_SIZE
    BY DEF LastPacket
  <2> QED
    BY <1>3, <1>4, <1>5, <2>1, SeqEqual
<1> QED
  BY <1>1, <1>6 DEF p, m

-----------------------------------------------------------------------------
(* The width of an index leaves room for data, and it is wide enough. *)
LEMMA IndexWidthType ==
  ASSUME NEW f \in Files
  PROVE  IndexWidth(Len(f)) \in Widths /\ Fits(Len(f), IndexWidth(Len(f)))
<1> DEFINE Enough == {w \in Widths : Fits(Len(f), w)}
<1>1. Enough \subseteq Nat /\ Enough # {}
  BY FilesAssumption, PacketAssumption DEF Widths
<1>2. PICK w \in Enough : \A v \in Enough : ~ (<<v, w>> \in OpToRel(<, Nat))
  BY <1>1, WFMin, NatLessThanWellFounded
<1>3. \A v \in 1 .. w - 1 : ~Fits(Len(f), v)
  <2> SUFFICES ASSUME NEW v \in 1 .. w - 1, Fits(Len(f), v)
               PROVE  FALSE
    OBVIOUS
  <2>1. v \in Widths
    BY PacketAssumption DEF Widths, HEADER_LEN
  <2>2. <<v, w>> \in OpToRel(<, Nat)
    BY <1>1 DEF OpToRel, Widths
  <2> QED
    BY <1>2, <2>1, <2>2
<1> QED
  BY <1>2, <1>3 DEF IndexWidth

-----------------------------------------------------------------------------
(* The sending side: what is sent are bytes *)

\* A whole packet, whose index can be counted up.
IsPacket(b) ==
  /\ b \in Seq(Byte) /\ Len(b) = PACKET_SIZE
  /\ Width(b) \in Widths
  /\ \A i \in 3 .. Width(b) + 2 : b[i] \in Nat

\* The padded file is cut into packets without a remainder.
Cuts ==
  \E k, m \in Nat :
    /\ file_data_index = k * Payload(Width(buffer))
    /\ Len(file_data) = m * Payload(Width(buffer))
    /\ spc = "send" => k < m

SenderInv ==
  spc # "idle" =>
    IsPacket(buffer) /\ file_data \in Seq(Byte) /\ total_written \in 0 .. PACKET_SIZE - 1 /\ Cuts

(* The bounds of a width. *)
LEMMA WidthBounds ==
  ASSUME NEW w \in Widths
  PROVE  /\ w \in Nat \ {0} /\ w + 2 < PACKET_SIZE
         /\ Payload(w) \in Nat \ {0} /\ Payload(w) = PACKET_SIZE - (w + 2)
BY PacketAssumption DEF Widths, Payload, HEADER_LEN

(* A header, an index and data make a packet. *)
LEMMA MadePacket ==
  ASSUME NEW kind \in Byte, NEW w \in Widths, NEW x \in Seq(Nat), Len(x) = w,
         NEW d \in Seq(Byte), Len(d) = Payload(w)
  PROVE  /\ IsPacket(<<kind, w>> \o x \o d) /\ Width(<<kind, w>> \o x \o d) = w
         /\ (<<kind, w>> \o x \o d)[1] = kind
         /\ \A i \in 1 .. w : (<<kind, w>> \o x \o d)[i + 2] = x[i]
         /\ \A i \in 1 .. Payload(w) : (<<kind, w>> \o x \o d)[i + (w + 2)] = d[i]
<1> DEFINE head == <<kind, w>>
           hx == head \o x
           b == hx \o d
<1>1. /\ w \in Nat \ {0} /\ w + 2 < PACKET_SIZE /\ PACKET_SIZE \in Nat
      /\ Payload(w) \in Nat \ {0} /\ Payload(w) = PACKET_SIZE - (w + 2)
  BY WidthBounds, PacketAssumption
<1>2. head \in Seq(Byte) /\ Len(head) = 2 /\ head[1] = kind /\ head[2] = w
  BY <1>1 DEF Byte
<1>3. x \in Seq(Byte) /\ \A i \in 1 .. w : x[i] \in Nat
  BY SeqMonotonic, ElementOfSeq DEF Byte
<1> HIDE DEF head
<1>4. /\ hx \in Seq(Byte) /\ Len(hx) = w + 2
      /\ hx[1] = kind /\ hx[2] = w
      /\ \A i \in 3 .. w + 2 : hx[i] \in Nat
      /\ \A i \in 1 .. w : hx[i + 2] = x[i]
  <2>1. /\ hx \in Seq(Byte) /\ Len(hx) = Len(head) + Len(x)
        /\ \A i \in 1 .. Len(head) + Len(x) :
              hx[i] = IF i <= Len(head) THEN head[i] ELSE x[i - Len(head)]
    BY <1>2, <1>3, ConcatProperties
  <2> HIDE DEF hx
  <2>2. \A i \in 1 .. w + 2 : hx[i] = IF i <= 2 THEN head[i] ELSE x[i - 2]
    BY <1>1, <1>2, <2>1
  <2>3. ASSUME NEW i \in 3 .. w + 2
        PROVE  hx[i] \in Nat
    <3>1. i - 2 \in 1 .. w /\ i \in 1 .. w + 2 /\ ~(i <= 2)
      BY <1>1
    <3> QED
      BY <1>3, <2>2, <3>1
  <2>4. ASSUME NEW i \in 1 .. w
        PROVE  hx[i + 2] = x[i]
    <3>1. i + 2 \in 1 .. w + 2 /\ ~(i + 2 <= 2) /\ (i + 2) - 2 = i
      BY <1>1
    <3> QED
      BY <2>2, <3>1
  <2> QED
    BY <1>1, <1>2, <2>1, <2>2, <2>3, <2>4
<1> HIDE DEF hx
<1>5. /\ b \in Seq(Byte) /\ Len(b) = Len(hx) + Len(d)
      /\ \A i \in 1 .. Len(hx) + Len(d) :
            b[i] = IF i <= Len(hx) THEN hx[i] ELSE d[i - Len(hx)]
  BY <1>4, ConcatProperties
<1> HIDE DEF b
<1>6. Len(b) = PACKET_SIZE
  BY <1>1, <1>4, <1>5
<1>7. \A i \in 1 .. w + 2 : b[i] = hx[i]
  BY <1>1, <1>4, <1>5
<1>8. b[1] = kind /\ b[2] = w /\ \A i \in 3 .. w + 2 : b[i] \in Nat
  BY <1>1, <1>4, <1>7
<1>9. Width(b) = w
  BY <1>8 DEF Width, HEADER_LEN
<1>10. ASSUME NEW i \in 1 .. w
       PROVE  b[i + 2] = x[i]
  <2>1. i + 2 \in 1 .. w + 2
    BY <1>1
  <2> QED
    BY <1>4, <1>7, <2>1
<1>11. ASSUME NEW i \in 1 .. Payload(w)
       PROVE  b[i + (w + 2)] = d[i]
  <2>1. i + (w + 2) \in 1 .. (w + 2) + Payload(w) /\ ~(i + (w + 2) <= w + 2)
        /\ (i + (w + 2)) - (w + 2) = i
    BY <1>1
  <2> QED
    BY <1>4, <1>5, <2>1
<1> QED
  BY <1>5, <1>6, <1>8, <1>9, <1>10, <1>11 DEF IsPacket, b, hx, head

(* The parts of a packet have the lengths its width gives them. *)
LEMMA PacketParts ==
  ASSUME NEW b, IsPacket(b)
  PROVE  /\ Index(b) \in Seq(Nat) /\ Len(Index(b)) = Width(b)
         /\ \A i \in 1 .. Width(b) : Index(b)[i] = b[i + 2]
         /\ Data(b) \in Seq(Byte) /\ Len(Data(b)) = Payload(Width(b))
         /\ \A i \in 1 .. Payload(Width(b)) : Data(b)[i] = b[i + (Width(b) + 2)]
<1>0. PICK w : w = Width(b)
  OBVIOUS
<1>1. /\ w \in Nat \ {0} /\ w + 2 < PACKET_SIZE
      /\ Payload(w) = PACKET_SIZE - (w + 2)
      /\ Len(b) = PACKET_SIZE /\ PACKET_SIZE \in Nat
  BY <1>0, WidthBounds, PacketAssumption DEF IsPacket
<1>2. /\ \A i \in 3 .. w + 2 : b[i] \in Nat
      /\ \A i \in w + 3 .. PACKET_SIZE : b[i] \in Byte
  BY <1>0, <1>1, ElementOfSeq DEF IsPacket
<1>3. Index(b) = SubSeq(b, 3, w + 2) /\ Data(b) = SubSeq(b, w + 3, PACKET_SIZE)
  <2>1. /\ HEADER_LEN + 2 = 3 /\ HEADER_LEN + 1 + Width(b) = w + 2
        /\ HEADER_LEN + 2 + Width(b) = w + 3
    BY <1>0, <1>1 DEF HEADER_LEN
  <2> QED
    BY <1>1, <2>1 DEF Index, Data
<1>4. /\ SubSeq(b, 3, w + 2) \in Seq(Nat)
      /\ Len(SubSeq(b, 3, w + 2)) = IF 3 <= w + 2 THEN (w + 2) - 3 + 1 ELSE 0
      /\ \A i \in 1 .. (w + 2) - 3 + 1 : SubSeq(b, 3, w + 2)[i] = b[3 + i - 1]
  BY <1>1, <1>2, SubSeqProperties
<1>5. /\ SubSeq(b, w + 3, PACKET_SIZE) \in Seq(Byte)
      /\ Len(SubSeq(b, w + 3, PACKET_SIZE)) =
           IF w + 3 <= PACKET_SIZE THEN PACKET_SIZE - (w + 3) + 1 ELSE 0
      /\ \A i \in 1 .. PACKET_SIZE - (w + 3) + 1 :
            SubSeq(b, w + 3, PACKET_SIZE)[i] = b[w + 3 + i - 1]
  BY <1>1, <1>2, SubSeqProperties
<1>6. \A i \in 1 .. w : i \in 1 .. (w + 2) - 3 + 1 /\ 3 + i - 1 = i + 2
  BY <1>1
<1>7. \A i \in 1 .. Payload(w) :
        i \in 1 .. PACKET_SIZE - (w + 3) + 1 /\ w + 3 + i - 1 = i + (w + 2)
  BY <1>1
<1>8. Index(b) \in Seq(Nat) /\ Len(Index(b)) = w /\ \A i \in 1 .. w : Index(b)[i] = b[i + 2]
  BY <1>1, <1>3, <1>4, <1>6
<1>9. /\ Data(b) \in Seq(Byte) /\ Len(Data(b)) = Payload(w)
      /\ \A i \in 1 .. Payload(w) : Data(b)[i] = b[i + (w + 2)]
  BY <1>1, <1>3, <1>5, <1>7
<1> QED
  BY <1>0, <1>8, <1>9

(* Counting up the index leaves a packet, of the same width. *)
LEMMA CountedPacket ==
  ASSUME NEW b, IsPacket(b)
  PROVE  IsPacket(IncPacketIndex(b)) /\ Width(IncPacketIndex(b)) = Width(b)
<1> DEFINE c == IncPacketIndex(b)
<1>1. /\ Width(b) \in Nat \ {0} /\ Width(b) + 2 < PACKET_SIZE
      /\ PACKET_SIZE \in Nat /\ Base \in Nat \ {0, 1}
  BY WidthBounds, PacketAssumption, BaseAssumption DEF IsPacket
<1>2. DOMAIN b = 1 .. PACKET_SIZE
  BY LenProperties DEF IsPacket
<1>3. \A i \in 1 .. PACKET_SIZE : b[i] \in Byte
  BY <1>1, ElementOfSeq DEF IsPacket
<1>4. \A i \in 3 .. Width(b) + 2 : (b[i] + 1) % Base \in Nat
  BY <1>1 DEF IsPacket
<1>5. /\ c \in [1 .. PACKET_SIZE -> Byte]
      /\ \A i \in 3 .. Width(b) + 2 : c[i] \in Nat
      /\ c[2] = b[2]
  <2>1. c = [i \in 1 .. PACKET_SIZE |->
               IF i \in 3 .. Width(b) + 2 /\ \A j \in 3 .. i - 1 : b[j] = Base - 1
               THEN (b[i] + 1) % Base ELSE b[i]]
    BY <1>1, <1>2 DEF IncPacketIndex, HEADER_LEN
  <2> HIDE DEF c
  <2>2. ASSUME NEW i \in 1 .. PACKET_SIZE
        PROVE  c[i] \in Byte
    BY <1>1, <1>3, <1>4, <2>1 DEF Byte
  <2>3. ASSUME NEW i \in 3 .. Width(b) + 2
        PROVE  c[i] \in Nat
    BY <1>1, <1>4, <2>1 DEF IsPacket
  <2>4. c[2] = b[2]
    BY <1>1, <2>1
  <2> QED
    BY <2>1, <2>2, <2>3, <2>4
<1> HIDE DEF c
<1>6. c \in Seq(Byte) /\ Len(c) = PACKET_SIZE
  BY <1>1, <1>5, SeqDef
<1>7. Width(c) = Width(b)
  BY <1>5 DEF Width, HEADER_LEN
<1> QED
  BY <1>5, <1>6, <1>7 DEF IsPacket, c

(* Division with a remainder. *)
LEMMA Division ==
  ASSUME NEW n \in Nat, NEW p \in Nat \ {0}
  PROVE  \E q \in Nat, r \in 0 .. p - 1 : n = q * p + r /\ r = n % p /\ q = n \div p
<1> DEFINE r == n % p
           q == n \div p
<1>1. r \in 0 .. p - 1 /\ q \in Nat /\ n = q * p + r
  OBVIOUS
<1>2. r = n % p /\ q = n \div p
  OBVIOUS
<1> HIDE DEF q, r
<1> QED
  BY <1>1, <1>2

(* A padded file is a whole number of packets. *)
LEMMA PaddedLength ==
  ASSUME NEW n \in Nat, NEW w \in Widths
  PROVE  Padding(n, w) \in Nat /\ \E m \in Nat : n + Padding(n, w) = m * Payload(w)
<1> DEFINE p == Payload(w)
<1>1. p \in Nat \ {0}
  BY WidthBounds
<1>2. PICK q \in Nat, r \in 0 .. p - 1 : n = q * p + r /\ r = n % p
  BY <1>1, Division
<1>3. Padding(n, w) = (p - r) % p
  BY <1>2 DEF Padding
<1> HIDE DEF p
<1>4. CASE r = 0
  <2>1. (p - r) % p = 0
    BY <1>1, <1>4
  <2>2. n + 0 = q * p
    BY <1>1, <1>2, <1>4
  <2> QED
    BY <1>2, <1>3, <2>1, <2>2 DEF p
<1>5. CASE r # 0
  <2>1. (p - r) % p = p - r
    BY <1>1, <1>2, <1>5
  <2>2. n + (p - r) = (q + 1) * p
    BY <1>1, <1>2
  <2>3. p - r \in Nat /\ q + 1 \in Nat
    BY <1>1, <1>2
  <2> QED
    BY <1>3, <2>1, <2>2, <2>3 DEF p
<1> QED
  BY <1>4, <1>5

-----------------------------------------------------------------------------
(* The steps of both sides *)

IInv == NoBacklog /\ Frames /\ SenderInv
(* Bytes that are all the same. *)
LEMMA Filled ==
  ASSUME NEW n \in Nat
  PROVE  /\ Zeros(n) \in Seq(Nat) /\ Zeros(n) \in Seq(Byte) /\ Len(Zeros(n)) = n
         /\ Fresh(n) \in Seq(Byte) /\ Len(Fresh(n)) = n
<1>1. Zeros(n) \in [1 .. n -> Nat] /\ Zeros(n) \in [1 .. n -> Byte] /\ Fresh(n) \in [1 .. n -> Byte]
  BY DEF Zeros, Fresh, Byte
<1>2. Zeros(n) \in Seq(Nat) /\ Zeros(n) \in Seq(Byte) /\ Fresh(n) \in Seq(Byte)
  BY <1>1, SeqDef
<1>3. Len(Zeros(n)) = n /\ Len(Fresh(n)) = n
  BY <1>2, LenProperties DEF Zeros, Fresh
<1> QED
  BY <1>2, <1>3

(* The first packet of a transfer is a packet, and the file is padded. *)
LEMMA BeginSender ==
  ASSUME NEW f \in Files, BeginTransfer(f)
  PROVE  SenderInv'
<1> DEFINE w == IndexWidth(Len(f))
<1>1. /\ spc' = "fill" /\ file_data' = f \o Zeros(Padding(Len(f), w)) /\ file_data_index' = 0
      /\ buffer' = <<Junk, w>> \o Zeros(w) \o Fresh(Payload(w)) /\ total_written' = 0
  BY DEF BeginTransfer
<1>2. w \in Widths
  BY IndexWidthType
<1> HIDE DEF w
<1>3. w \in Nat \ {0} /\ Payload(w) \in Nat \ {0} /\ PACKET_SIZE \in Nat \ {0}
  BY <1>2, WidthBounds, PacketAssumption
<1>4. IsPacket(buffer') /\ Width(buffer') = w
  <2>1. Zeros(w) \in Seq(Nat) /\ Len(Zeros(w)) = w
    BY <1>3, Filled
  <2>2. Fresh(Payload(w)) \in Seq(Byte) /\ Len(Fresh(Payload(w))) = Payload(w)
    BY <1>3, Filled
  <2>3. Junk \in Byte
    BY DEF Byte
  <2> QED
    BY <1>1, <1>2, <2>1, <2>2, <2>3, MadePacket
<1>5. f \in Seq(Byte) /\ Len(f) \in Nat
  BY FilesAssumption, SeqMonotonic, LenProperties DEF Byte
<1>6. /\ Padding(Len(f), w) \in Nat
      /\ \E m \in Nat : Len(f) + Padding(Len(f), w) = m * Payload(w)
  BY <1>2, <1>5, PaddedLength
<1>7. file_data' \in Seq(Byte) /\ Len(file_data') = Len(f) + Padding(Len(f), w)
  <2> DEFINE z == Zeros(Padding(Len(f), w))
  <2>1. z \in Seq(Byte) /\ Len(z) = Padding(Len(f), w)
    BY <1>6, Filled
  <2> HIDE DEF z
  <2>2. f \o z \in Seq(Byte) /\ Len(f \o z) = Len(f) + Len(z)
    BY <1>5, <2>1, ConcatProperties
  <2> QED
    BY <1>1, <2>1, <2>2 DEF z
<1>8. Cuts'
  <2>1. PICK m \in Nat : Len(file_data') = m * Payload(w)
    BY <1>6, <1>7
  <2>2. file_data_index' = 0 * Payload(w) /\ spc' # "send"
    BY <1>1, <1>3
  <2> QED
    BY <1>4, <2>1, <2>2 DEF Cuts
<1> QED
  BY <1>1, <1>3, <1>4, <1>7, <1>8 DEF SenderInv

(* A packet that was filled is a packet. *)
LEMMA FillSender ==
  ASSUME SenderInv, FillPacket
  PROVE  SenderInv'
<1> DEFINE w == Width(buffer)
           p == Payload(w)
           piece == SubSeq(file_data, file_data_index + 1, file_data_index + p)
<1>0. /\ IsPacket(buffer) /\ file_data \in Seq(Byte) /\ total_written \in 0 .. PACKET_SIZE - 1
      /\ Cuts /\ spc' = "send"
      /\ file_data_index < Len(file_data)
      /\ UNCHANGED <<file_data, file_data_index, total_written>>
  BY DEF SenderInv, FillPacket
<1>1. w \in Widths /\ p \in Nat \ {0} /\ Len(Data(buffer)) = p
      /\ Index(buffer) \in Seq(Nat) /\ Len(Index(buffer)) = w
  BY <1>0, PacketParts, WidthBounds DEF IsPacket
<1>2. PICK kind \in Byte : buffer' = <<kind, w>> \o Index(buffer) \o piece
  <2>1. \A i, n : Kind(i, n) \in Byte
    BY DEF Kind, START, MIDDLE, END, Byte
  <2> QED
    BY <1>1, <2>1 DEF FillPacket
<1>3. PICK k, m \in Nat : /\ file_data_index = k * p
                          /\ Len(file_data) = m * p
  BY <1>0 DEF Cuts
<1>4. k < m /\ file_data_index \in Nat /\ file_data_index + p <= Len(file_data)
      /\ Len(file_data) \in Nat
  <2> HIDE DEF p
  <2>1. k * p < m * p
    BY <1>0, <1>3
  <2>2. k < m
    BY <1>1, <2>1
  <2>3. (k + 1) * p <= m * p /\ (k + 1) * p = k * p + p
    BY <1>1, <2>2
  <2> QED
    BY <1>1, <1>3, <2>2, <2>3
<1> HIDE DEF w, p
<1>5. piece \in Seq(Byte) /\ Len(piece) = p
  <2>1. \A i \in file_data_index + 1 .. file_data_index + p : file_data[i] \in Byte
    BY <1>0, <1>1, <1>4, ElementOfSeq
  <2>2. /\ piece \in Seq(Byte)
        /\ Len(piece) = IF file_data_index + 1 <= file_data_index + p
                        THEN file_data_index + p - (file_data_index + 1) + 1 ELSE 0
    BY <1>1, <1>4, <2>1, SubSeqProperties
  <2> QED
    BY <1>1, <1>4, <2>2
<1> HIDE DEF piece
<1>6. IsPacket(buffer') /\ Width(buffer') = w
  BY <1>1, <1>2, <1>5, MadePacket DEF p
<1>7. Cuts'
  BY <1>0, <1>3, <1>4, <1>6 DEF Cuts, p
<1> QED
  BY <1>0, <1>6, <1>7 DEF SenderInv

(* Counting what was written keeps the sender in order. *)
LEMMA WrittenSender ==
  ASSUME SenderInv, spc = "send", NEW n \in 0 .. PACKET_SIZE - 1, Written(n)
  PROVE  SenderInv'
<1>0. /\ IsPacket(buffer) /\ file_data \in Seq(Byte) /\ Cuts /\ file_data' = file_data
      /\ total_written' = n
  BY DEF SenderInv, Written
<1>1. CASE n = 0
  <2>1. /\ spc' = "fill" /\ buffer' = IncPacketIndex(buffer)
        /\ file_data_index' = file_data_index + Len(Data(buffer))
    BY <1>1 DEF Written
  <2>2. IsPacket(buffer') /\ Width(buffer') = Width(buffer)
    BY <1>0, <2>1, CountedPacket
  <2>3. Cuts'
    <3>1. Width(buffer) \in Widths /\ Len(Data(buffer)) = Payload(Width(buffer))
      BY <1>0, PacketParts DEF IsPacket
    <3>2. PICK k, m \in Nat : /\ file_data_index = k * Payload(Width(buffer))
                              /\ Len(file_data) = m * Payload(Width(buffer))
      BY <1>0 DEF Cuts
    <3>3. file_data_index' = (k + 1) * Payload(Width(buffer))
      BY <2>1, <3>1, <3>2, WidthBounds
    <3> QED
      BY <1>0, <2>1, <2>2, <3>2, <3>3 DEF Cuts
  <2> QED
    BY <1>0, <2>1, <2>2, <2>3 DEF SenderInv
<1>2. CASE n # 0
  BY <1>0, <1>2 DEF Written, SenderInv, Cuts
<1> QED
  BY <1>1, <1>2

(* What a send takes of a packet are bytes. *)
LEMMA SendSteps ==
  ASSUME IInv, LastPacket, NEW n \in 1 .. PACKET_SIZE, Send(n)
  PROVE  IInv' /\ LastPacket'
<1> DEFINE piece == SubSeq(buffer, total_written + 1, total_written + n)
<1>0. /\ spc = "send" /\ PACKET_SIZE \in Nat \ {0} /\ total_written + n <= PACKET_SIZE
      /\ SenderInv /\ IsPacket(buffer) /\ total_written \in 0 .. PACKET_SIZE - 1
      /\ stream' = stream \o piece
  BY PacketAssumption DEF Send, IInv, SenderInv
<1>1. piece \in Seq(Byte)
  <2>1. \A i \in total_written + 1 .. total_written + n : buffer[i] \in Byte
    BY <1>0, ElementOfSeq DEF IsPacket
  <2> QED
    BY <1>0, <2>1, SubSeqProperties
<1>2. UNCHANGED framingVars
  BY DEF Send, Written
<1>3. Frames' /\ LastPacket'
  BY <1>0, <1>1, <1>2, SendKeepsPlace DEF IInv
<1>4. NoBacklog'
  BY <1>2 DEF IInv, NoBacklog, framingVars
<1>5. SenderInv'
  <2>1. PICK m \in 0 .. PACKET_SIZE - 1 : Written(m)
    <3>1. CASE total_written + n = PACKET_SIZE
      BY <1>0, <3>1 DEF Send
    <3>2. CASE total_written + n # PACKET_SIZE
      <4>1. total_written + n \in 0 .. PACKET_SIZE - 1
        BY <1>0, <3>2
      <4> QED
        BY <3>2, <4>1 DEF Send
    <3> QED
      BY <3>1, <3>2
  <2> QED
    BY <1>0, <2>1, WrittenSender
<1> QED
  BY <1>3, <1>4, <1>5 DEF IInv

(* Every step keeps the bytes of the connection in place. *)
LEMMA PlaceStep ==
  ASSUME IInv, LastPacket, [Next]_vars
  PROVE  IInv' /\ LastPacket'
<1>1. ASSUME NEW f \in Files, BeginTransfer(f)
      PROVE  IInv' /\ LastPacket'
  <2>1. SenderInv'
    BY <1>1, BeginSender
  <2>2. UNCHANGED <<stream, framingVars>>
    BY <1>1 DEF BeginTransfer
  <2> QED
    BY <2>1, <2>2 DEF IInv, NoBacklog, Frames, LastPacket, framingVars
<1>2. CASE FillPacket
  <2>1. SenderInv'
    BY <1>2, FillSender DEF IInv
  <2>2. UNCHANGED <<stream, framingVars>>
    BY <1>2 DEF FillPacket
  <2> QED
    BY <2>1, <2>2 DEF IInv, NoBacklog, Frames, LastPacket, framingVars
<1>3. CASE EndTransfer
  BY <1>3 DEF EndTransfer, IInv, NoBacklog, Frames, LastPacket, framingVars, SenderInv
<1>4. ASSUME NEW n \in 1 .. PACKET_SIZE, Send(n)
      PROVE  IInv' /\ LastPacket'
  BY <1>4, SendSteps
<1>5. CASE SendFails
  <2>1. UNCHANGED <<stream, framingVars>>
    BY <1>5 DEF SendFails, Written
  <2>2. PICK m \in 0 .. PACKET_SIZE - 1 : Written(m)
    <3>1. total_written \in 0 .. PACKET_SIZE - 1 /\ PACKET_SIZE \in Nat \ {0}
      BY <1>5, PacketAssumption DEF SendFails, IInv, SenderInv
    <3> QED
      BY <1>5, <3>1 DEF SendFails
  <2>3. SenderInv'
    BY <1>5, <2>2, WrittenSender DEF SendFails, IInv
  <2> QED
    BY <2>1, <2>3 DEF IInv, NoBacklog, Frames, LastPacket, framingVars
<1>6. CASE Break
  BY <1>6
  DEF Break, IInv, NoBacklog, Frames, LastPacket, framingVars, senderVars, SenderInv, Cuts
<1>7. CASE Reconnect
  <2>1. /\ spc = "idle" /\ spc' = spc /\ UNCHANGED senderVars
        /\ stream' = recv_data_packet_buf /\ received' = Len(recv_data_packet_buf)
        /\ carried' = Len(recv_data_packet_buf) /\ packet' = <<>> /\ parsed' = 0
        /\ recv_data_packet_buf' = recv_data_packet_buf
    BY <1>7 DEF Reconnect, NextConnection, senderVars
  <2>2. recv_data_packet_buf \in Seq(Byte) /\ Len(recv_data_packet_buf) \in Nat
    BY LenProperties DEF IInv, Frames
  <2>3. Frames'
    <3>1. 0 * PACKET_SIZE = 0 /\ 0 \in Nat
      BY PacketAssumption
    <3> QED
      BY <2>1, <2>2, <3>1 DEF Frames
  <2> QED
    BY <2>1, <2>3 DEF IInv, NoBacklog, LastPacket, SenderInv, Cuts, senderVars
<1>8. ASSUME NEW n \in 1 .. PACKET_SIZE, Receive(n)
      PROVE  IInv' /\ LastPacket'
  <2>1. Recv(n) /\ UNCHANGED <<stream, senderVars>>
    BY <1>8 DEF Receive
  <2>2. NoBacklog' /\ Frames' /\ LastPacket'
    BY <2>1, RecvKeepsPlace DEF IInv
  <2> QED
    BY <2>1, <2>2 DEF IInv, SenderInv, Cuts, senderVars
<1>9. CASE Resume
  BY <1>9
  DEF Resume, IInv, NoBacklog, Frames, LastPacket, framingVars, senderVars, SenderInv, Cuts
<1>10. CASE UNCHANGED vars
  BY <1>10
  DEF vars, IInv, NoBacklog, Frames, LastPacket, framingVars, senderVars, SenderInv, Cuts
<1> QED
  BY <1>1, <1>2, <1>3, <1>4, <1>5, <1>6, <1>7, <1>8, <1>9, <1>10
  DEF Next, Sender, Receiver

(* Initially nothing was sent. *)
LEMMA PlaceInit == Init => IInv /\ LastPacket
<1> SUFFICES ASSUME Init
             PROVE  IInv /\ LastPacket
  OBVIOUS
<1>1. PACKET_SIZE \in Nat \ {0} /\ <<>> \in Seq(Byte) /\ Len(<<>>) = 0
  BY PacketAssumption, EmptySeq
<1> QED
  BY <1>1 DEF Init, FramingInit, IInv, NoBacklog, Frames, LastPacket, SenderInv

-----------------------------------------------------------------------------
(* Powers of the base, and what an index is worth *)

(* Induction over the natural numbers, for a set of them. *)
LEMMA NatInduct ==
  ASSUME NEW S, 0 \in S, \A n \in Nat : n \in S => n + 1 \in S
  PROVE  Nat \subseteq S
<1> DEFINE T == Nat \ S
<1> SUFFICES ASSUME T # {}
             PROVE  FALSE
  OBVIOUS
<1>1. PICK m \in T : \A k \in T : ~ (<<k, m>> \in OpToRel(<, Nat))
  <2>1. T \subseteq Nat
    OBVIOUS
  <2> HIDE DEF T
  <2> QED
    BY <2>1, WFMin, NatLessThanWellFounded
<1>2. m \in Nat /\ m \notin S /\ m # 0
  OBVIOUS
<1>3. m - 1 \in Nat /\ m - 1 < m /\ (m - 1) + 1 = m
  BY <1>2
<1>4. <<m - 1, m>> \in OpToRel(<, Nat)
  BY <1>2, <1>3 DEF OpToRel
<1>5. m - 1 \in S
  BY <1>1, <1>3, <1>4
<1> QED
  BY <1>2, <1>3, <1>5

\* v holds the first n powers.
PowersTo(v, n) == v = [i \in 0 .. n |-> IF i = 0 THEN 1 ELSE Base * v[i - 1]]

(* There are powers up to any number. *)
LEMMA PowersExist == \A n \in Nat : \E v : PowersTo(v, n)
<1> DEFINE S == {n \in Nat : \E v : PowersTo(v, n)}
<1>1. 0 \in S
  <2>1. PowersTo([i \in 0 .. 0 |-> 1], 0)
    BY DEF PowersTo
  <2> QED
    BY <2>1
<1>2. ASSUME NEW n \in Nat, n \in S
      PROVE  n + 1 \in S
  <2>1. PICK v : PowersTo(v, n)
    BY <1>2
  <2> DEFINE w == [i \in 0 .. n + 1 |-> IF i = n + 1 THEN Base * v[n] ELSE v[i]]
  <2>2. PowersTo(w, n + 1)
    <3>1. \A i \in 0 .. n + 1 : w[i] = IF i = 0 THEN 1 ELSE Base * w[i - 1]
      BY <2>1 DEF PowersTo
    <3> QED
      BY <3>1 DEF PowersTo
  <2> HIDE DEF w
  <2>3. n + 1 \in Nat /\ \E u : PowersTo(u, n + 1)
    BY <2>2
  <2> QED
    BY <2>3
<1>3. Nat \subseteq S
  <2> HIDE DEF S
  <2> QED
    BY <1>1, <1>2, NatInduct
<1> QED
  BY <1>3

(* They agree, however far they go. *)
LEMMA PowersAgree ==
  ASSUME NEW n \in Nat, NEW m \in Nat, n <= m, NEW v, PowersTo(v, n), NEW u, PowersTo(u, m)
  PROVE  \A k \in 0 .. n : v[k] = u[k]
<1> DEFINE S == {k \in Nat : k <= n => v[k] = u[k]}
<1>0. /\ \A i \in 0 .. n : v[i] = IF i = 0 THEN 1 ELSE Base * v[i - 1]
      /\ \A i \in 0 .. m : u[i] = IF i = 0 THEN 1 ELSE Base * u[i - 1]
  BY DEF PowersTo
<1>1. 0 \in S
  BY <1>0
<1>2. ASSUME NEW k \in Nat, k \in S
      PROVE  k + 1 \in S
  <2>1. CASE k + 1 <= n
    <3>1. k + 1 \in 0 .. n /\ k + 1 \in 0 .. m /\ k + 1 # 0 /\ (k + 1) - 1 = k /\ k <= n
      BY <2>1
    <3>2. v[k + 1] = Base * v[k] /\ u[k + 1] = Base * u[k]
      BY <1>0, <3>1
    <3> QED
      BY <1>2, <3>1, <3>2
  <2> QED
    BY <2>1
<1>3. Nat \subseteq S
  <2> HIDE DEF S
  <2> QED
    BY <1>1, <1>2, NatInduct
<1> QED
  BY <1>3

(* The equations of Power. *)
LEMMA PowerStep ==
  /\ Power[0] = 1
  /\ \A n \in Nat : Power[n + 1] = Base * Power[n] /\ Power[n] \in Nat \ {0}
<1> DEFINE upto(n) == CHOOSE v : PowersTo(v, n)
           all == [n \in Nat |-> upto(n)[n]]
<1>1. \A n \in Nat : PowersTo(upto(n), n)
  BY PowersExist
<1> HIDE DEF upto
<1>2. \A n \in Nat : all[n] = IF n = 0 THEN 1 ELSE Base * all[n - 1]
  <2> SUFFICES ASSUME NEW n \in Nat
               PROVE  all[n] = IF n = 0 THEN 1 ELSE Base * all[n - 1]
    OBVIOUS
  <2>1. \A i \in 0 .. n : upto(n)[i] = IF i = 0 THEN 1 ELSE Base * upto(n)[i - 1]
    BY <1>1 DEF PowersTo
  <2>2. CASE n = 0
    BY <2>1, <2>2
  <2>3. CASE n # 0
    <3>1. n - 1 \in Nat /\ n - 1 <= n /\ n - 1 \in 0 .. n - 1 /\ n \in 0 .. n
      BY <2>3
    <3>2. upto(n - 1)[n - 1] = upto(n)[n - 1]
      BY <1>1, <3>1, PowersAgree
    <3>3. upto(n)[n] = Base * upto(n)[n - 1]
      BY <2>1, <2>3, <3>1
    <3> QED
      BY <2>3, <3>1, <3>2, <3>3
  <2> QED
    BY <2>2, <2>3
<1>3. all = [n \in Nat |-> IF n = 0 THEN 1 ELSE Base * all[n - 1]]
  <2> HIDE DEF upto
  <2>1. all = [n \in Nat |-> all[n]]
    OBVIOUS
  <2> HIDE DEF all
  <2> QED
    BY <1>2, <2>1
<1> HIDE DEF all
<1>4. Power = [n \in Nat |-> IF n = 0 THEN 1 ELSE Base * Power[n - 1]]
  BY <1>3 DEF Power
<1>5. \A n \in Nat : Power[n] = IF n = 0 THEN 1 ELSE Base * Power[n - 1]
  BY <1>4
<1>6. Power[0] = 1
  BY <1>5
<1>7. \A n \in Nat : Power[n + 1] = Base * Power[n]
  BY <1>5
<1> DEFINE S == {n \in Nat : Power[n] \in Nat \ {0}}
<1>8. 0 \in S
  BY <1>6
<1>9. ASSUME NEW n \in Nat, n \in S
      PROVE  n + 1 \in S
  <2>1. Power[n + 1] = Base * Power[n] /\ Power[n] \in Nat \ {0} /\ Base \in Nat \ {0}
    BY <1>7, <1>9, BaseAssumption
  <2>2. \A x, y \in Nat \ {0} : x * y \in Nat \ {0}
    OBVIOUS
  <2> QED
    BY <2>1, <2>2
<1>10. Nat \subseteq S
  <2> HIDE DEF S
  <2> QED
    BY <1>8, <1>9, NatInduct
<1> QED
  BY <1>6, <1>7, <1>10

\* v holds the worth of the first i bytes of an index, for every i.
Worth(v, b) ==
  /\ v \in [0 .. Width(b) -> Nat] /\ v[0] = 0
  /\ \A i \in 1 .. Width(b) : v[i] = v[i - 1] + b[i + 2] * Power[i - 1]

(* get_packet_index adds up the bytes of the index. *)
LEMMA IndexWorth ==
  ASSUME NEW b, IsPacket(b)
  PROVE  \E v : Worth(v, b) /\ GetPacketIndex(b) = v[Width(b)]
<1> DEFINE W == Width(b)
           Eq(v, n) == v = [i \in 0 .. n |->
                              IF i = 0 THEN 0 ELSE v[i - 1] + Index(b)[i] * Power[i - 1]]
<1>0. W \in Nat \ {0} /\ W + 2 < PACKET_SIZE /\ PACKET_SIZE \in Nat
  BY WidthBounds, PacketAssumption DEF IsPacket
<1>1. \A n \in Nat : \E v : Eq(v, n)
  <2> DEFINE S == {n \in Nat : \E v : Eq(v, n)}
  <2>1. 0 \in S
    <3>1. Eq([i \in 0 .. 0 |-> 0], 0)
      OBVIOUS
    <3> QED
      BY <3>1
  <2>2. ASSUME NEW n \in Nat, n \in S
        PROVE  n + 1 \in S
    <3>1. PICK v : Eq(v, n)
      BY <2>2
    <3> DEFINE w == [i \in 0 .. n + 1 |->
                       IF i = n + 1 THEN v[n] + Index(b)[n + 1] * Power[n] ELSE v[i]]
    <3>2. Eq(w, n + 1)
      <4>1. ASSUME NEW i \in 0 .. n + 1
            PROVE  w[i] = IF i = 0 THEN 0 ELSE w[i - 1] + Index(b)[i] * Power[i - 1]
        BY <3>1
      <4> QED
        BY <4>1
    <3> HIDE DEF w
    <3>3. \E u : Eq(u, n + 1)
      BY <3>2
    <3> HIDE DEF Eq
    <3>4. n + 1 \in Nat
      OBVIOUS
    <3> QED
      BY <3>3, <3>4
  <2>3. Nat \subseteq S
    <3> HIDE DEF S
    <3> QED
      BY <2>1, <2>2, NatInduct
  <2> QED
    BY <2>3
<1>2. PICK v : v = CHOOSE u : Eq(u, W)
  OBVIOUS
<1>3. Eq(v, W)
  <2> HIDE DEF Eq
  <2> QED
    BY <1>0, <1>1, <1>2
<1>4. GetPacketIndex(b) = v[W]
  BY <1>2 DEF GetPacketIndex
<1>5. \A i \in 1 .. W : Index(b)[i] = b[i + 2] /\ b[i + 2] \in Nat
  <2>1. Index(b) = SubSeq(b, 3, W + 2)
    BY <1>0 DEF Index, HEADER_LEN
  <2>2. \A i \in 1 .. (W + 2) - 3 + 1 : SubSeq(b, 3, W + 2)[i] = b[3 + i - 1]
    BY <1>0, SubSeqProperties DEF IsPacket
  <2>3. \A i \in 1 .. W : /\ i \in 1 .. (W + 2) - 3 + 1 /\ 3 + i - 1 = i + 2
                          /\ i + 2 \in 3 .. W + 2
    BY <1>0
  <2> QED
    BY <2>1, <2>2, <2>3 DEF IsPacket
<1>6. v[0] = 0 /\ \A i \in 1 .. W : v[i] = v[i - 1] + b[i + 2] * Power[i - 1]
  <2>1. \A i \in 0 .. W : v[i] = IF i = 0 THEN 0 ELSE v[i - 1] + Index(b)[i] * Power[i - 1]
    BY <1>3
  <2> QED
    BY <1>0, <1>5, <2>1
<1>7. \A i \in 0 .. W : v[i] \in Nat
  <2> DEFINE S == {n \in Nat : n <= W => v[n] \in Nat}
  <2>1. 0 \in S
    BY <1>6
  <2>2. ASSUME NEW n \in Nat, n \in S
        PROVE  n + 1 \in S
    <3>1. CASE n + 1 <= W
      <4>1. n + 1 \in 1 .. W /\ n <= W /\ (n + 1) - 1 = n
        BY <1>0, <3>1
      <4>2. v[n] \in Nat /\ b[n + 1 + 2] \in Nat /\ Power[n] \in Nat
        BY <1>5, <2>2, <4>1, PowerStep
      <4>3. v[n + 1] = v[n] + b[n + 1 + 2] * Power[n]
        BY <1>6, <4>1
      <4>4. \A x, y, z \in Nat : x + y * z \in Nat
        OBVIOUS
      <4> QED
        BY <4>2, <4>3, <4>4
    <3> QED
      BY <3>1
  <2>3. Nat \subseteq S
    <3> HIDE DEF S
    <3> QED
      BY <2>1, <2>2, NatInduct
  <2> QED
    BY <1>0, <2>3
<1>8. v \in [0 .. W -> Nat]
  BY <1>3, <1>7
<1> QED
  BY <1>4, <1>6, <1>8 DEF Worth

\* The bytes of an index are bytes.
Counts(b) == \A i \in 3 .. Width(b) + 2 : b[i] \in 0 .. Base - 1

(* An index of zeros is zero. *)
LEMMA ZeroIndex ==
  ASSUME NEW b, IsPacket(b), \A i \in 3 .. Width(b) + 2 : b[i] = 0
  PROVE  GetPacketIndex(b) = 0
<1> DEFINE W == Width(b)
<1>0. W \in Nat \ {0}
  BY WidthBounds DEF IsPacket
<1>1. PICK v : Worth(v, b) /\ GetPacketIndex(b) = v[W]
  BY IndexWorth
<1> DEFINE S == {n \in Nat : n <= W => v[n] = 0}
<1>2. 0 \in S
  BY <1>1 DEF Worth
<1>3. ASSUME NEW n \in Nat, n \in S
      PROVE  n + 1 \in S
  <2>1. CASE n + 1 <= W
    <3>1. n + 1 \in 1 .. W /\ n <= W /\ (n + 1) - 1 = n /\ n + 1 + 2 \in 3 .. W + 2
      BY <1>0, <2>1
    <3>2. v[n + 1] = v[n] + b[n + 1 + 2] * Power[n]
      BY <1>1, <3>1 DEF Worth
    <3>3. b[n + 1 + 2] = 0 /\ v[n] = 0 /\ Power[n] \in Nat
      BY <1>3, <3>1, PowerStep
    <3> QED
      BY <3>2, <3>3
  <2> QED
    BY <2>1
<1>4. Nat \subseteq S
  <2> HIDE DEF S
  <2> QED
    BY <1>2, <1>3, NatInduct
<1> QED
  BY <1>0, <1>1, <1>4

(* inc_packet_index adds one, unless every byte of the index wraps. *)
LEMMA IndexCounts ==
  ASSUME NEW b, IsPacket(b), Counts(b), GetPacketIndex(b) + 1 < Power[Width(b)]
  PROVE  GetPacketIndex(IncPacketIndex(b)) = GetPacketIndex(b) + 1
<1> DEFINE W == Width(b)
           c == IncPacketIndex(b)
           wrapped(n) == \A j \in 3 .. n + 2 : b[j] = Base - 1
<1>0. /\ W \in Nat \ {0} /\ W + 2 < PACKET_SIZE /\ PACKET_SIZE \in Nat
      /\ Base \in Nat /\ Base >= 2
      /\ IsPacket(c) /\ Width(c) = W
  BY WidthBounds, PacketAssumption, BaseAssumption, CountedPacket DEF IsPacket
<1>1. PICK v : Worth(v, b) /\ GetPacketIndex(b) = v[W]
  BY IndexWorth
<1>2. PICK u : Worth(u, c) /\ GetPacketIndex(c) = u[W]
  BY <1>0, IndexWorth
<1>3. \A i \in 3 .. W + 2 : c[i] = IF \A j \in 3 .. i - 1 : b[j] = Base - 1
                                  THEN (b[i] + 1) % Base ELSE b[i]
  <2>1. DOMAIN b = 1 .. PACKET_SIZE
    BY LenProperties DEF IsPacket
  <2> QED
    BY <1>0, <2>1 DEF IncPacketIndex, HEADER_LEN
<1> HIDE DEF c
<1> DEFINE S == {n \in Nat : n <= W => u[n] + (IF wrapped(n) THEN Power[n] ELSE 0) = v[n] + 1}
<1>4. 0 \in S
  <2>1. wrapped(0)
    OBVIOUS
  <2> QED
    BY <1>1, <1>2, <2>1, PowerStep DEF Worth
<1>5. ASSUME NEW n \in Nat, n \in S
      PROVE  n + 1 \in S
  <2> SUFFICES ASSUME n + 1 <= W
               PROVE  u[n + 1] + (IF wrapped(n + 1) THEN Power[n + 1] ELSE 0) = v[n + 1] + 1
    OBVIOUS
  <2>1. n + 1 \in 1 .. W /\ n \in 0 .. W /\ n <= W /\ (n + 1) - 1 = n /\ n + 1 + 2 = n + 3
        /\ n + 3 \in 3 .. W + 2 /\ (n + 3) - 1 = n + 2
    BY <1>0
  <2>2. /\ v[n + 1] = v[n] + b[n + 3] * Power[n]
        /\ u[n + 1] = u[n] + c[n + 3] * Power[n]
    BY <1>0, <1>1, <1>2, <2>1 DEF Worth
  <2>3. u[n] + (IF wrapped(n) THEN Power[n] ELSE 0) = v[n] + 1
    BY <1>5, <2>1
  <2>4. c[n + 3] = IF wrapped(n) THEN (b[n + 3] + 1) % Base ELSE b[n + 3]
    BY <1>3, <2>1
  <2>5. wrapped(n + 1) <=> wrapped(n) /\ b[n + 3] = Base - 1
    <3>1. \A j : j \in 3 .. (n + 1) + 2 <=> j \in 3 .. n + 2 \/ j = n + 3
      OBVIOUS
    <3> QED
      BY <3>1
  <2>6. /\ b[n + 3] \in 0 .. Base - 1 /\ v[n] \in Nat /\ u[n] \in Nat
        /\ Power[n] \in Nat /\ Power[n + 1] = Base * Power[n]
    BY <1>0, <1>1, <1>2, <2>1, PowerStep DEF Counts, Worth
  <2> HIDE DEF wrapped
  <2>7. CASE ~wrapped(n)
    BY <2>2, <2>3, <2>4, <2>5, <2>6, <2>7
  <2>8. CASE wrapped(n) /\ b[n + 3] = Base - 1
    <3>1. c[n + 3] = 0
      BY <1>0, <2>4, <2>8
    <3>2. u[n + 1] = u[n]
      BY <2>2, <2>6, <3>1
    <3>3. (Base - 1) * Power[n] = Base * Power[n] - Power[n]
      BY <1>0, <2>6
    <3>4. v[n + 1] = v[n] + (Base * Power[n] - Power[n])
      BY <2>2, <2>8, <3>3
    <3>5. u[n] + Power[n] = v[n] + 1 /\ wrapped(n + 1)
      BY <2>3, <2>5, <2>8
    <3>6. Base * Power[n] \in Nat
      BY <1>0, <2>6
    <3> QED
      BY <2>6, <3>2, <3>4, <3>5, <3>6
  <2>9. CASE wrapped(n) /\ b[n + 3] # Base - 1
    <3>1. (b[n + 3] + 1) % Base = b[n + 3] + 1
      <4>1. b[n + 3] + 1 \in 0 .. Base - 1
        BY <1>0, <2>6, <2>9
      <4> QED
        BY <1>0, <4>1
    <3>2. c[n + 3] = b[n + 3] + 1
      BY <2>4, <2>9, <3>1
    <3>3. (b[n + 3] + 1) * Power[n] = b[n + 3] * Power[n] + Power[n]
      BY <2>6
    <3>4. u[n] + Power[n] = v[n] + 1 /\ ~wrapped(n + 1)
      BY <2>3, <2>5, <2>9
    <3>5. PICK q \in Nat : q = b[n + 3] * Power[n]
      BY <2>6
    <3>6. v[n + 1] = v[n] + q /\ u[n + 1] = u[n] + (q + Power[n])
      BY <2>2, <3>2, <3>3, <3>5
    <3> QED
      BY <2>6, <3>4, <3>5, <3>6
  <2> QED
    BY <2>7, <2>8, <2>9
<1>6. Nat \subseteq S
  <2> HIDE DEF S
  <2> QED
    BY <1>4, <1>5, NatInduct
<1>7. u[W] + (IF wrapped(W) THEN Power[W] ELSE 0) = v[W] + 1
  BY <1>0, <1>6
<1>8. u[W] \in Nat /\ v[W] \in Nat /\ Power[W] \in Nat
  <2>1. u \in [0 .. W -> Nat] /\ v \in [0 .. W -> Nat] /\ W \in 0 .. W /\ W \in Nat
    BY <1>0, <1>1, <1>2 DEF Worth
  <2> QED
    BY <2>1, PowerStep
<1>9. GetPacketIndex(b) = v[W] /\ v[W] + 1 < Power[W] /\ GetPacketIndex(c) = u[W]
  BY <1>1, <1>2
<1> HIDE DEF wrapped
<1>10. u[W] = v[W] + 1
  BY <1>7, <1>8, <1>9
<1> QED
  BY <1>9, <1>10 DEF c

(* Its bytes stay bytes. *)
LEMMA CountsOn ==
  ASSUME NEW b, IsPacket(b), Counts(b)
  PROVE  Counts(IncPacketIndex(b))
<1> DEFINE W == Width(b)
           c == IncPacketIndex(b)
<1>0. /\ W \in Nat \ {0} /\ W + 2 < PACKET_SIZE /\ PACKET_SIZE \in Nat
      /\ Base \in Nat /\ Base >= 2 /\ Width(c) = W
  BY WidthBounds, PacketAssumption, BaseAssumption, CountedPacket DEF IsPacket
<1>1. DOMAIN b = 1 .. PACKET_SIZE
  BY LenProperties DEF IsPacket
<1>2. \A i \in 3 .. W + 2 : c[i] = (b[i] + 1) % Base \/ c[i] = b[i]
  BY <1>0, <1>1 DEF IncPacketIndex, HEADER_LEN
<1> HIDE DEF c
<1>3. \A i \in 3 .. W + 2 : b[i] \in 0 .. Base - 1 /\ (b[i] + 1) % Base \in 0 .. Base - 1
  BY <1>0 DEF Counts
<1> QED
  BY <1>0, <1>2, <1>3 DEF Counts, c

-----------------------------------------------------------------------------
(* A transfer on its way: the inductive invariant of both sides *)

\* The file as it is sent, and how much of it a packet carries.
Padded(f) == f \o Zeros(Padding(Len(f), IndexWidth(Len(f))))
Carried(f) == Payload(IndexWidth(Len(f)))

\* Packet k of a file.
IsPiece(q, f, k) ==
  /\ IsPacket(q) /\ Width(q) = IndexWidth(Len(f))
  /\ q[1] = Kind(k, Packets(Len(f))) /\ GetPacketIndex(q) = k
  /\ \A i \in 1 .. Carried(f) : Data(q)[i] = Padded(f)[k * Carried(f) + i]

\* The bytes that follow k packets.
Slice(s, k) == [i \in 1 .. PACKET_SIZE |-> s[k * PACKET_SIZE + i]]

\* After b packets, the packets of a file were sent, in order, or the first of them.
SentPieces(s, b, f) ==
  /\ Len(s) <= (b + Packets(Len(f))) * PACKET_SIZE
  /\ \A k \in 0 .. Packets(Len(f)) - 1 :
        (b + k + 1) * PACKET_SIZE <= Len(s) => IsPiece(Slice(s, b + k), f, k)

\* The block holds what n packets of a file carry.
Holds(block, size, n, f) ==
  n # 0 => /\ size = n * Carried(f) /\ Len(block) >= size
           /\ \A i \in 1 .. size : block[i] = Padded(f)[i]

\* The client is at packet k of a file ...
AtPacket(k, f) ==
  /\ file_data = Padded(f) /\ Width(buffer) = IndexWidth(Len(f)) /\ Counts(buffer)
  /\ file_data_index = k * Carried(f)
  /\ k < Packets(Len(f)) => GetPacketIndex(buffer) = k
  /\ spc = "send" => k < Packets(Len(f)) /\ IsPiece(buffer, f, k)
  /\ spc = "fill" => total_written = 0

\* ... and what it sent, unless that failed, are b + k packets and a part of the next.
UpTo(k, b) ==
  ~broken => /\ Len(stream) = (b + k) * PACKET_SIZE + total_written
             /\ \A i \in 1 .. total_written : stream[(b + k) * PACKET_SIZE + i] = buffer[i]

AllSent == spc # "idle" => spc = "fill" /\ file_data_index >= Len(file_data)

\* The file asked for after b packets is on its way.
OnItsWay(b) ==
  /\ b <= parsed
  /\ SentPieces(stream, b, asked)
  /\ Holds(data, len, parsed - b, asked)
  /\ parsed - b = Packets(Len(asked)) => Packets(Len(asked)) = 1
  /\ spc # "idle" => \E k \in 0 .. Packets(Len(asked)) : AtPacket(k, asked) /\ UpTo(k, b)
  /\ Len(stream) = (b + Packets(Len(asked))) * PACKET_SIZE => AllSent

Underway ==
  IF asked = <<>> THEN Len(stream) = parsed * PACKET_SIZE /\ AllSent
  ELSE \E b \in 0 .. parsed : OnItsWay(b)

\* The types of what the sequences of bytes are cut with.
Types ==
  /\ spc \in {"idle", "fill", "send"} /\ broken \in BOOLEAN
  /\ file_data \in Seq(Byte) /\ buffer \in Seq(Byte) /\ data \in Seq(Byte) /\ song \in Seq(Byte)
  /\ file_data_index \in Nat /\ len \in Nat /\ transfers \in Nat
  /\ total_written \in 0 .. PACKET_SIZE - 1
  /\ asked \in Files \cup {<<>>}

TransferInv == IInv /\ LastPacket /\ Types /\ Underway

\* What a client sends is followed only where it begins with an empty buffer.
WholeInv == IInv /\ LastPacket /\ Types /\ (~Torn => Underway)

-----------------------------------------------------------------------------
(* Packets and the pieces of a file *)

(* A multiple divides without a remainder. *)
LEMMA DivideMultiple ==
  ASSUME NEW m \in Nat, NEW p \in Nat \ {0}
  PROVE  (m * p) \div p = m
<1> DEFINE n == m * p
           q == n \div p
           r == n % p
<1>1. n \in Nat
  OBVIOUS
<1> HIDE DEF n
<1>2. q \in Nat /\ r \in 0 .. p - 1 /\ n = q * p + r
  BY <1>1
<1> HIDE DEF q, r
<1>3. (m - q) * p = r
  <2>1. (m - q) * p = m * p - q * p /\ m * p \in Nat /\ q * p \in Nat
    BY <1>2
  <2> QED
    BY <1>2, <2>1 DEF n
<1>4. CASE m - q >= 1
  <2>1. (m - q) * p >= p
    BY <1>2, <1>4
  <2> QED
    BY <1>2, <1>3, <2>1
<1>5. CASE m - q <= -1
  <2>1. (m - q) * p < 0
    BY <1>2, <1>5
  <2> QED
    BY <1>2, <1>3, <2>1
<1>6. CASE m = q
  BY <1>6 DEF q, n
<1> QED
  BY <1>2, <1>4, <1>5, <1>6

(* What the padding adds up to. *)
LEMMA FileSizes ==
  ASSUME NEW f \in Files
  PROVE  /\ IndexWidth(Len(f)) \in Widths
         /\ Carried(f) \in Nat \ {0} /\ Carried(f) <= Payload(1)
         /\ Packets(Len(f)) \in Nat \ {0}
         /\ Packets(Len(f)) <= Power[IndexWidth(Len(f))]
         /\ f \in Seq(Byte)
         /\ Padded(f) \in Seq(Byte) /\ Len(Padded(f)) = Packets(Len(f)) * Carried(f)
         /\ Padding(Len(f), IndexWidth(Len(f))) \in 0 .. Payload(1) - 1
<1> DEFINE w == IndexWidth(Len(f))
           p == Payload(w)
           n == Len(f)
           z == Padding(n, w)
<1>1. /\ w \in Widths /\ Fits(n, w)
      /\ f \in Seq(Byte) /\ n \in Nat /\ n > 0
  BY IndexWidthType, FilesAssumption, SeqMonotonic, LenProperties DEF Byte
<1>2. /\ w \in Nat \ {0} /\ p \in Nat \ {0}
      /\ p <= Payload(1)
  BY <1>1, WidthBounds, PacketAssumption DEF Payload, HEADER_LEN
<1>3. Power[w] \in Nat /\ Power[w] - 1 >= n \div p
  BY <1>1, <1>2, PowerStep DEF Fits
<1>4. PICK q \in Nat, r \in 0 .. p - 1 : n = q * p + r /\ r = n % p /\ q = n \div p
  BY <1>1, <1>2, Division
<1>5. z = (p - r) % p
  BY <1>4 DEF Padding
<1>6. Packets(n) = (n + z) \div p
  BY DEF Packets
<1>7. Padded(f) = f \o Zeros(z) /\ Carried(f) = p
  BY DEF Padded, Carried
<1> HIDE DEF w, p, n, z
<1>8. PICK m \in Nat \ {0} : n + z = m * p /\ m <= q + 1 /\ z \in 0 .. p - 1
  <2>1. CASE r = 0
    <3>1. (p - r) % p = 0
      BY <1>2, <2>1
    <3>2. z = 0 /\ n + z = q * p
      <4>1. z = 0
        BY <1>5, <3>1
      <4>2. n = q * p + 0
        BY <1>4, <2>1
      <4>3. q * p \in Nat
        BY <1>2, <1>4
      <4> QED
        BY <4>1, <4>2, <4>3
    <3>3. q # 0
      <4>1. n = q * p + 0
        BY <1>4, <2>1
      <4>2. n # 0
        BY <1>1
      <4>3. q = 0 => q * p = 0
        BY <1>2
      <4> QED
        BY <4>1, <4>2, <4>3
    <3> QED
      BY <1>2, <1>4, <3>2, <3>3
  <2>2. CASE r # 0
    <3>1. (p - r) % p = p - r
      BY <1>2, <1>4, <2>2
    <3>2. z = p - r
      BY <1>5, <3>1
    <3>3. n + (p - r) = (q + 1) * p
      BY <1>2, <1>4
    <3>4. q + 1 \in Nat \ {0} /\ p - r \in 0 .. p - 1
      BY <1>2, <1>4, <2>2
    <3> QED
      BY <3>2, <3>3, <3>4
  <2> QED
    BY <2>1, <2>2
<1>9. Packets(n) = m
  BY <1>2, <1>6, <1>8, DivideMultiple
<1>10. m <= Power[w]
  BY <1>3, <1>4, <1>8
<1>11. Padded(f) \in Seq(Byte) /\ Len(Padded(f)) = m * p
  <2>1. Zeros(z) \in Seq(Byte) /\ Len(Zeros(z)) = z
    BY <1>2, <1>8, Filled
  <2>2. f \o Zeros(z) \in Seq(Byte) /\ Len(f \o Zeros(z)) = Len(f) + Len(Zeros(z))
    BY <1>1, <2>1, ConcatProperties
  <2> QED
    BY <1>7, <1>8, <2>1, <2>2 DEF n
<1>12. z \in 0 .. Payload(1) - 1
  BY <1>2, <1>8, PacketAssumption DEF Payload, HEADER_LEN
<1> QED
  BY <1>1, <1>2, <1>7, <1>9, <1>10, <1>11, <1>12 DEF w, n, z

(* The index of a packet is in the bytes of its index, and nowhere else. *)
LEMMA SameIndex ==
  ASSUME NEW b, IsPacket(b), NEW c, IsPacket(c), Width(c) = Width(b),
         \A i \in 3 .. Width(b) + 2 : c[i] = b[i]
  PROVE  GetPacketIndex(c) = GetPacketIndex(b)
<1> DEFINE W == Width(b)
<1>0. W \in Nat \ {0}
  BY WidthBounds DEF IsPacket
<1>1. PICK v : Worth(v, b) /\ GetPacketIndex(b) = v[W]
  BY IndexWorth
<1>2. PICK u : Worth(u, c) /\ GetPacketIndex(c) = u[W]
  BY IndexWorth
<1> DEFINE S == {n \in Nat : n <= W => u[n] = v[n]}
<1>3. 0 \in S
  BY <1>1, <1>2 DEF Worth
<1>4. ASSUME NEW n \in Nat, n \in S
      PROVE  n + 1 \in S
  <2>1. CASE n + 1 <= W
    <3>1. n + 1 \in 1 .. W /\ n <= W /\ (n + 1) - 1 = n /\ n + 1 + 2 \in 3 .. W + 2
      BY <1>0, <2>1
    <3>2. v[n + 1] = v[n] + b[n + 1 + 2] * Power[n] /\ u[n + 1] = u[n] + c[n + 1 + 2] * Power[n]
      BY <1>1, <1>2, <3>1 DEF Worth
    <3>3. u[n] = v[n] /\ c[n + 1 + 2] = b[n + 1 + 2]
      BY <1>4, <3>1
    <3> QED
      BY <3>2, <3>3
  <2> QED
    BY <2>1
<1>5. Nat \subseteq S
  <2> HIDE DEF S
  <2> QED
    BY <1>3, <1>4, NatInduct
<1> QED
  BY <1>0, <1>1, <1>2, <1>5

(* The piece of a sequence of bytes that a packet takes. *)
LEMMA PieceOf ==
  ASSUME NEW s \in Seq(Byte), NEW k \in Nat, NEW n \in Nat, k + n <= Len(s),
         NEW r, r = SubSeq(s, k + 1, k + n)
  PROVE  r \in Seq(Byte) /\ Len(r) = n /\ \A i \in 1 .. n : r[i] = s[k + i]
<1>0. Len(s) \in Nat
  BY LenProperties
<1>1. \A i \in k + 1 .. k + n : s[i] \in Byte
  BY <1>0, ElementOfSeq
<1>2. /\ SubSeq(s, k + 1, k + n) \in Seq(Byte)
      /\ Len(SubSeq(s, k + 1, k + n)) = IF k + 1 <= k + n THEN k + n - (k + 1) + 1 ELSE 0
      /\ \A i \in 1 .. k + n - (k + 1) + 1 : SubSeq(s, k + 1, k + n)[i] = s[k + 1 + i - 1]
  BY <1>1, SubSeqProperties
<1>3. k + n - (k + 1) + 1 = n /\ \A i \in 1 .. n : k + 1 + i - 1 = k + i
  OBVIOUS
<1> QED
  BY <1>2, <1>3

(* Products grow with their factors. *)
LEMMA Products ==
  ASSUME NEW x \in Nat, NEW y \in Nat, NEW p \in Nat
  PROVE  /\ x * p \in Nat /\ (x + 1) * p = x * p + p
         /\ x <= y => x * p <= y * p
         /\ x < y => x * p + p <= y * p
<1>1. x * p \in Nat /\ y * p \in Nat /\ (x + 1) * p = x * p + p
  OBVIOUS
<1>2. ASSUME x <= y PROVE x * p <= y * p
  BY <1>2
<1>3. ASSUME x < y PROVE x * p + p <= y * p
  <2>1. x + 1 <= y
    BY <1>3
  <2>2. (x + 1) * p <= y * p
    BY <2>1
  <2> QED
    BY <1>1, <2>2
<1> QED
  BY <1>1, <1>2, <1>3

-----------------------------------------------------------------------------
(* The steps of the client *)

(* Where packets end: those that fit into n bytes. *)
LEMMA PacketEnds ==
  ASSUME NEW b \in Nat, NEW k \in Nat, NEW j \in Nat, NEW n \in Nat,
         n <= (b + k + 1) * PACKET_SIZE, (b + j + 1) * PACKET_SIZE <= n
  PROVE  \/ j < k /\ (b + j) * PACKET_SIZE + PACKET_SIZE <= (b + k) * PACKET_SIZE
         \/ j = k /\ n = (b + k + 1) * PACKET_SIZE
<1> DEFINE x == (b + k) * PACKET_SIZE
           y == (b + j) * PACKET_SIZE
<1>1. PACKET_SIZE \in Nat \ {0} /\ b + k \in Nat /\ b + j \in Nat
  BY PacketAssumption
<1>2. /\ x \in Nat /\ (b + k + 1) * PACKET_SIZE = x + PACKET_SIZE
      /\ y \in Nat /\ (b + j + 1) * PACKET_SIZE = y + PACKET_SIZE
      /\ (b + j < b + k => y + PACKET_SIZE <= x)
      /\ (b + k < b + j => x + PACKET_SIZE <= y)
  BY <1>1, Products
<1> HIDE DEF x, y
<1>3. n <= x + PACKET_SIZE /\ y + PACKET_SIZE <= n
  BY <1>2
<1>4. CASE j < k
  BY <1>2, <1>4 DEF x, y
<1>5. CASE k < j
  BY <1>1, <1>2, <1>3, <1>5
<1>6. CASE j = k
  <2>1. x = y
    BY <1>6 DEF x, y
  <2> QED
    BY <1>1, <1>2, <1>3, <1>6, <2>1
<1> QED
  BY <1>4, <1>5, <1>6

(* What follows the packets sent, up to the end of the next, adds that one. *)
LEMMA MoreSent ==
  ASSUME NEW f \in Files, NEW b \in Nat, NEW k \in Nat, k < Packets(Len(f)),
         NEW s \in Seq(Byte), SentPieces(s, b, f), (b + k) * PACKET_SIZE <= Len(s),
         NEW t \in Seq(Byte), Len(t) <= (b + k + 1) * PACKET_SIZE,
         \A i \in 1 .. Len(s) : t[i] = s[i],
         Len(t) = (b + k + 1) * PACKET_SIZE => IsPiece(Slice(t, b + k), f, k)
  PROVE  SentPieces(t, b, f)
<1>0. PICK M \in Nat, m \in Nat, n \in Nat : M = Packets(Len(f)) /\ m = Len(s) /\ n = Len(t)
  BY FileSizes, LenProperties
<1>1. PACKET_SIZE \in Nat \ {0}
  BY PacketAssumption
<1>2. /\ n <= (b + k + 1) * PACKET_SIZE /\ (b + k) * PACKET_SIZE <= m /\ k < M
      /\ n = (b + k + 1) * PACKET_SIZE => IsPiece(Slice(t, b + k), f, k)
      /\ \A j \in 0 .. M - 1 : (b + j + 1) * PACKET_SIZE <= m => IsPiece(Slice(s, b + j), f, j)
      /\ \A i \in 1 .. m : t[i] = s[i]
  BY <1>0 DEF SentPieces
<1> SUFFICES /\ n <= (b + M) * PACKET_SIZE
             /\ \A j \in 0 .. M - 1 :
                   (b + j + 1) * PACKET_SIZE <= n => IsPiece(Slice(t, b + j), f, j)
  BY <1>0 DEF SentPieces
<1>3. n <= (b + M) * PACKET_SIZE
  <2>1. b + k + 1 \in Nat /\ b + M \in Nat /\ b + k + 1 <= b + M
    BY <1>2
  <2>2. PICK x \in Nat, y \in Nat : /\ x = (b + k + 1) * PACKET_SIZE /\ y = (b + M) * PACKET_SIZE
                                    /\ x <= y
    BY <1>1, <2>1, Products
  <2>3. n <= x
    BY <1>2, <2>2
  <2>4. n <= y
    BY <2>2, <2>3
  <2> QED
    BY <2>2, <2>4
<1>4. ASSUME NEW j \in Nat, j < M, (b + j + 1) * PACKET_SIZE <= n
      PROVE  IsPiece(Slice(t, b + j), f, j)
  <2>1. CASE j < k /\ (b + j) * PACKET_SIZE + PACKET_SIZE <= (b + k) * PACKET_SIZE
    <3>1. PICK y \in Nat, x \in Nat : /\ y = (b + j) * PACKET_SIZE /\ x = (b + k) * PACKET_SIZE
                                      /\ (b + j + 1) * PACKET_SIZE = y + PACKET_SIZE
      <4>1. b + j \in Nat /\ b + k \in Nat
        OBVIOUS
      <4> QED
        BY <1>1, <4>1, Products
    <3>2. y + PACKET_SIZE <= m
      <4>1. y + PACKET_SIZE <= x /\ x <= m
        BY <1>2, <2>1, <3>1
      <4> QED
        BY <1>1, <4>1
    <3>3. \A i \in 1 .. PACKET_SIZE : y + i \in 1 .. m
      BY <1>1, <3>2, SMTT(30)
    <3>4. \A i \in 1 .. PACKET_SIZE : t[y + i] = s[y + i]
      BY <1>2, <3>3
    <3>5. Slice(t, b + j) = Slice(s, b + j)
      BY <3>1, <3>4 DEF Slice
    <3>6. j \in 0 .. M - 1
      BY <1>4
    <3>7. (b + j + 1) * PACKET_SIZE <= m
      BY <3>1, <3>2
    <3> QED
      BY <1>2, <3>5, <3>6, <3>7
  <2>2. CASE j = k /\ n = (b + k + 1) * PACKET_SIZE
    BY <1>2, <2>2
  <2> QED
    BY <1>2, <1>4, <2>1, <2>2, PacketEnds
<1> QED
  BY <1>3, <1>4

(* A packet for which IsPiece holds, byte for byte, is that piece. *)
LEMMA SamePiece ==
  ASSUME NEW q, NEW f, NEW k, IsPiece(q, f, k), NEW s, NEW j,
         \A i \in 1 .. PACKET_SIZE : s[j * PACKET_SIZE + i] = q[i]
  PROVE  Slice(s, j) = q
<1>1. q \in Seq(Byte) /\ Len(q) = PACKET_SIZE
  BY DEF IsPiece, IsPacket
<1>2. q = [i \in 1 .. PACKET_SIZE |-> q[i]]
  BY <1>1, LenProperties
<1> QED
  BY <1>2 DEF Slice

(* A transfer begins after the packets that were parsed. *)
LEMMA BeginUnderway ==
  ASSUME TransferInv, NEW f \in Files, BeginTransfer(f)
  PROVE  Underway'
<1> DEFINE w == IndexWidth(Len(f))
           M == Packets(Len(f))
<1>1. /\ spc = "idle" /\ asked = <<>> /\ spc' = "fill" /\ asked' = f
      /\ file_data' = f \o Zeros(Padding(Len(f), w)) /\ file_data_index' = 0
      /\ buffer' = <<Junk, w>> \o Zeros(w) \o Fresh(Payload(w)) /\ total_written' = 0
      /\ UNCHANGED <<stream, parsed, broken, data, len>>
  BY DEF BeginTransfer, framingVars, audioVars
<1>2. /\ w \in Widths /\ M \in Nat \ {0} /\ Carried(f) \in Nat \ {0}
      /\ f # <<>>
  BY FileSizes, FilesAssumption, EmptySeq
<1>3. Len(stream) = parsed * PACKET_SIZE /\ Len(stream) \in Nat /\ parsed \in Nat /\ PACKET_SIZE \in Nat \ {0}
  BY <1>1, PacketAssumption, LenProperties DEF TransferInv, Underway, IInv, Frames
<1> HIDE DEF w
<1>4. w \in Nat \ {0} /\ Payload(w) \in Nat \ {0}
  BY <1>2, WidthBounds
<1>5. IsPacket(buffer') /\ Width(buffer') = w /\ \A i \in 3 .. w + 2 : buffer'[i] = 0
  <2>1. Zeros(w) \in Seq(Nat) /\ Len(Zeros(w)) = w
    BY <1>4, Filled
  <2>2. Fresh(Payload(w)) \in Seq(Byte) /\ Len(Fresh(Payload(w))) = Payload(w)
    BY <1>4, Filled
  <2>3. Junk \in Byte
    BY DEF Byte
  <2>4. /\ IsPacket(buffer') /\ Width(buffer') = w
        /\ \A i \in 1 .. w : buffer'[i + 2] = Zeros(w)[i]
    BY <1>1, <1>2, <2>1, <2>2, <2>3, MadePacket
  <2>5. \A i \in 3 .. w + 2 : i - 2 \in 1 .. w /\ (i - 2) + 2 = i
    BY <1>4
  <2>6. \A i \in 1 .. w : Zeros(w)[i] = 0
    BY DEF Zeros
  <2> QED
    BY <2>4, <2>5, <2>6
<1>6. PICK packetNow : packetNow = buffer'
  OBVIOUS
<1>7. GetPacketIndex(packetNow) = 0 /\ Counts(packetNow)
  <2>1. GetPacketIndex(packetNow) = 0
    BY <1>5, <1>6, ZeroIndex
  <2>2. 0 \in 0 .. Base - 1
    BY BaseAssumption
  <2> QED
    BY <1>5, <1>6, <2>1, <2>2 DEF Counts
<1> HIDE DEF M
<1>8. (AtPacket(0, asked) /\ UpTo(0, parsed))'
  <2>1. 0 * Carried(f) = 0 /\ (parsed + 0) * PACKET_SIZE + 0 = Len(stream)
    BY <1>2, <1>3
  <2>2. file_data' = Padded(f)
    BY <1>1 DEF Padded, w
  <2> QED
    BY <1>1, <1>5, <1>6, <1>7, <2>1, <2>2 DEF AtPacket, UpTo, w
<1>9. \A k \in 0 .. M - 1 : ~((parsed + k + 1) * PACKET_SIZE <= Len(stream))
  <2> TAKE k \in 0 .. M - 1
  <2>1. parsed * PACKET_SIZE + PACKET_SIZE <= (parsed + k + 1) * PACKET_SIZE
    <3>1. parsed + k + 1 \in Nat /\ parsed < parsed + k + 1
      BY <1>2, <1>3
    <3> QED
      BY <1>3, <3>1, Products
  <2>2. (parsed + k + 1) * PACKET_SIZE \in Nat
    BY <1>2, <1>3
  <2> QED
    BY <1>3, <2>1, <2>2
<1>10. Len(stream) < (parsed + M) * PACKET_SIZE
  <2>1. parsed + M \in Nat /\ parsed < parsed + M
    BY <1>2, <1>3
  <2>2. parsed * PACKET_SIZE + PACKET_SIZE <= (parsed + M) * PACKET_SIZE /\ (parsed + M) * PACKET_SIZE \in Nat
    BY <1>3, <2>1, Products
  <2> QED
    BY <1>3, <2>2
<1>11. (parsed + M) * PACKET_SIZE \in Nat
  BY <1>2, <1>3
<1>12. SentPieces(stream', parsed, f)
  BY <1>1, <1>3, <1>9, <1>10, <1>11 DEF SentPieces, M
<1>13. PICK b \in 0 .. parsed : b = parsed
  BY <1>3
<1>14. OnItsWay(b)'
  <2>1. SentPieces(stream', b, asked')
    BY <1>1, <1>12, <1>13
  <2>2. Holds(data', len', parsed' - b, asked')
    BY <1>1, <1>3, <1>13 DEF Holds
  <2>3. parsed' - b # Packets(Len(asked')) /\ b <= parsed'
    BY <1>1, <1>2, <1>3, <1>13 DEF M
  <2>4. Len(stream') # (b + Packets(Len(asked'))) * PACKET_SIZE
    BY <1>1, <1>3, <1>10, <1>11, <1>13 DEF M
  <2>5. 0 \in 0 .. Packets(Len(asked'))
    BY <1>1, <1>2 DEF M
  <2>6. AtPacket(0, asked)' /\ UpTo(0, b)'
    BY <1>1, <1>8, <1>13 DEF UpTo
  <2> QED
    BY <2>1, <2>2, <2>3, <2>4, <2>5, <2>6 DEF OnItsWay
<1> QED
  BY <1>1, <1>2, <1>13, <1>14 DEF Underway

(* The parts of a packet that was made. *)
LEMMA MadeIs ==
  ASSUME NEW kind \in Byte, NEW x \in Seq(Nat), Len(x) \in Widths,
         NEW d \in Seq(Byte), Len(d) = Payload(Len(x)),
         NEW b, b = <<kind, Len(x)>> \o x \o d
  PROVE  /\ IsPacket(b) /\ b[1] = kind /\ b[2] = Len(x)
         /\ \A i \in 1 .. Len(x) : b[i + 2] = x[i]
         /\ \A i \in 1 .. Payload(Len(x)) : b[i + (Len(x) + 2)] = d[i]
<1> DEFINE w == Len(x)
           made == <<kind, w>> \o x \o d
<1>1. w \in Widths /\ Len(x) = w /\ Len(d) = Payload(w) /\ b = made
  OBVIOUS
<1> HIDE DEF w
<1>2. /\ IsPacket(made) /\ Width(made) = w /\ made[1] = kind
      /\ \A i \in 1 .. w : made[i + 2] = x[i]
      /\ \A i \in 1 .. Payload(w) : made[i + (w + 2)] = d[i]
  BY <1>1, MadePacket, SMTT(30)
<1> HIDE DEF made
<1>3. Width(made) = made[2]
  BY DEF Width, HEADER_LEN
<1> QED
  BY <1>1, <1>2, <1>3

(* The transfer that the client's thread is busy with is on its way. *)
LEMMA BusyTransfer ==
  ASSUME TransferInv, spc = "send" \/ (spc = "fill" /\ file_data_index < Len(file_data))
  PROVE  /\ asked \in Files /\ asked # <<>>
         /\ \E b \in 0 .. parsed :
              /\ OnItsWay(b)
              /\ \E k \in Nat : k < Packets(Len(asked)) /\ AtPacket(k, asked) /\ UpTo(k, b)
<1>1. spc # "idle" /\ ~AllSent
  <2>1. Len(file_data) \in Nat /\ file_data_index \in Nat
    BY LenProperties DEF TransferInv, Types
  <2> QED
    BY <2>1 DEF AllSent
<1>2. asked \in Files /\ asked # <<>>
  BY <1>1 DEF TransferInv, Underway, Types
<1>3. PICK b \in 0 .. parsed : OnItsWay(b)
  BY <1>2 DEF TransferInv, Underway
<1>4. PICK k \in 0 .. Packets(Len(asked)) : AtPacket(k, asked) /\ UpTo(k, b)
  BY <1>1, <1>3 DEF OnItsWay
<1>5. PICK m \in Nat, p \in Nat \ {0} : m = Packets(Len(asked)) /\ p = Carried(asked)
  BY <1>2, FileSizes
<1>6. k \in Nat /\ k <= m
  BY <1>5
<1>7. k < m
  <2>1. CASE spc = "send"
    BY <1>4, <1>5, <2>1 DEF AtPacket
  <2>2. CASE file_data_index < Len(file_data)
    <3>1. file_data_index = k * p /\ Len(file_data) = m * p
      BY <1>2, <1>4, <1>5, FileSizes DEF AtPacket
    <3>2. k * p < m * p
      BY <2>2, <3>1
    <3>3. k = m => k * p = m * p
      OBVIOUS
    <3>4. k * p \in Nat /\ m * p \in Nat
      BY <1>5, <1>6
    <3>5. k # m
      BY <3>2, <3>3, <3>4
    <3> QED
      BY <1>6, <3>5
  <2> QED
    BY <2>1, <2>2
<1> QED
  BY <1>2, <1>3, <1>4, <1>5, <1>6, <1>7

(* A packet that is filled is a piece of the file. *)
LEMMA FillUnderway ==
  ASSUME TransferInv, FillPacket
  PROVE  Underway'
<1>1. PICK b \in 0 .. parsed, k \in Nat :
        /\ asked \in Files /\ asked # <<>> /\ OnItsWay(b)
        /\ k < Packets(Len(asked)) /\ AtPacket(k, asked) /\ UpTo(k, b)
  BY BusyTransfer DEF FillPacket
<1>2. PICK m \in Nat, p \in Nat \ {0}, w \in Widths :
        m = Packets(Len(asked)) /\ p = Carried(asked) /\ w = IndexWidth(Len(asked))
  BY <1>1, FileSizes
<1>3. /\ w \in Nat \ {0} /\ p = Payload(w)
      /\ IsPacket(buffer) /\ file_data \in Seq(Byte)
      /\ Width(buffer) = w /\ GetPacketIndex(buffer) = k /\ Counts(buffer)
      /\ file_data = Padded(asked) /\ file_data_index = k * p /\ total_written = 0
      /\ Len(file_data) = m * p /\ k < m
      /\ Len(Data(buffer)) = p /\ Index(buffer) \in Seq(Nat) /\ Len(Index(buffer)) = w
      /\ \A i \in 1 .. w : Index(buffer)[i] = buffer[i + 2]
  <2>1. IsPacket(buffer) /\ file_data \in Seq(Byte) /\ spc = "fill"
    BY DEF TransferInv, IInv, SenderInv, FillPacket
  <2>2. Width(buffer) = w /\ file_data = Padded(asked) /\ file_data_index = k * p
        /\ GetPacketIndex(buffer) = k /\ Counts(buffer) /\ total_written = 0
    BY <1>1, <1>2, <2>1 DEF AtPacket
  <2>3. Len(file_data) = m * p
    BY <1>1, <1>2, <2>2, FileSizes
  <2> QED
    BY <1>1, <1>2, <2>1, <2>2, <2>3, PacketParts, WidthBounds DEF Carried
<1>4. PICK piece : piece = SubSeq(file_data, k * p + 1, k * p + p)
  OBVIOUS
<1>5. piece \in Seq(Byte) /\ Len(piece) = p /\ \A i \in 1 .. p : piece[i] = file_data[k * p + i]
  <2>1. p \in Nat /\ k < m /\ Len(file_data) = m * p /\ file_data \in Seq(Byte)
    BY <1>3
  <2>2. PICK at \in Nat, n \in Nat : at = k * p /\ n = m * p /\ at + p <= n
    BY <2>1, Products
  <2>3. at + p <= Len(file_data) /\ piece = SubSeq(file_data, at + 1, at + p)
    BY <1>4, <2>1, <2>2
  <2>4. piece \in Seq(Byte) /\ Len(piece) = p /\ \A i \in 1 .. p : piece[i] = file_data[at + i]
    BY <2>1, <2>3, PieceOf
  <2> QED
    BY <2>2, <2>4
<1>6. Len(file_data) \div Len(Data(buffer)) = m
  BY <1>2, <1>3, DivideMultiple
<1>7. Kind(k, m) \in Byte
  BY DEF Kind, START, MIDDLE, END, Byte
<1>8. PICK q : q = buffer' /\ q = <<Kind(k, m), w>> \o Index(buffer) \o piece
  BY <1>3, <1>4, <1>6 DEF FillPacket
<1>9. /\ IsPacket(q) /\ Width(q) = w /\ q[1] = Kind(k, m)
      /\ \A i \in 1 .. w : q[i + 2] = Index(buffer)[i]
      /\ \A i \in 1 .. Payload(w) : q[i + (w + 2)] = piece[i]
  <2>1. PICK kind \in Byte, x \in Seq(Nat) : kind = Kind(k, m) /\ x = Index(buffer) /\ Len(x) = w
    BY <1>3, <1>7
  <2>2. piece \in Seq(Byte) /\ Len(piece) = Payload(w) /\ q = <<kind, w>> \o x \o piece
    BY <1>3, <1>5, <1>8, <2>1
  <2>3. /\ IsPacket(q) /\ Width(q) = w /\ q[1] = kind
        /\ \A i \in 1 .. w : q[i + 2] = x[i]
        /\ \A i \in 1 .. Payload(w) : q[i + (w + 2)] = piece[i]
    <3>1. /\ Len(x) \in Widths /\ piece \in Seq(Byte) /\ Len(piece) = Payload(Len(x))
          /\ q = <<kind, Len(x)>> \o x \o piece
      BY <1>2, <2>1, <2>2
    <3>2. IsPacket(q)
      BY <3>1, MadeIs
    <3>6. Width(q) = Len(x)
      <4>1. q[2] = Len(x)
        BY <3>1, MadeIs
      <4>2. Width(q) = q[2]
        BY DEF Width, HEADER_LEN
      <4> QED
        BY <4>1, <4>2
    <3>3. q[1] = kind
      BY <3>1, MadeIs
    <3>4. \A i \in 1 .. Len(x) : q[i + 2] = x[i]
      BY <3>1, MadeIs
    <3>5. \A i \in 1 .. Payload(Len(x)) : q[i + (Len(x) + 2)] = piece[i]
      BY <3>1, MadeIs
    <3> QED
      BY <2>1, <3>2, <3>3, <3>4, <3>5, <3>6
  <2> QED
    BY <2>1, <2>3
<1>10. \A i \in 3 .. w + 2 : q[i] = buffer[i]
  <2>1. \A j \in 1 .. w : q[j + 2] = buffer[j + 2]
    BY <1>3, <1>9
  <2>2. \A i \in 3 .. w + 2 : i - 2 \in 1 .. w /\ (i - 2) + 2 = i
    BY <1>3
  <2> QED
    BY <2>1, <2>2
<1>11. GetPacketIndex(q) = k
  BY <1>3, <1>9, <1>10, SameIndex
<1>12. Counts(q)
  BY <1>3, <1>9, <1>10 DEF Counts
<1>13. IsPiece(q, asked, k)
  <2>0. \A i \in 1 .. Payload(Width(q)) : Data(q)[i] = q[i + (Width(q) + 2)]
    BY <1>9, PacketParts
  <2>1. \A i \in 1 .. p : Data(q)[i] = q[i + (w + 2)]
    BY <1>3, <1>9, <2>0
  <2>2. \A i \in 1 .. p : Data(q)[i] = Padded(asked)[k * p + i]
    BY <1>3, <1>5, <1>9, <2>1
  <2> QED
    BY <1>2, <1>9, <1>11, <2>2 DEF IsPiece
<1>14. /\ spc' = "send"
       /\ UNCHANGED <<file_data, file_data_index, total_written, stream, parsed, broken, asked, data, len>>
  BY DEF FillPacket, framingVars, audioVars
<1>15. AtPacket(k, asked)'
  BY <1>1, <1>2, <1>3, <1>8, <1>9, <1>11, <1>12, <1>13, <1>14 DEF AtPacket
<1>16. UpTo(k, b)'
  <2>1. ~ \E i \in 1 .. 0 : TRUE
    OBVIOUS
  <2> QED
    BY <1>1, <1>3, <1>14, <2>1 DEF UpTo
<1>17. ~(Len(stream) = (b + m) * PACKET_SIZE)
  <2>1. ~AllSent
    <3>1. file_data_index < Len(file_data) /\ spc = "fill"
      BY DEF FillPacket
    <3>2. Len(file_data) \in Nat /\ file_data_index \in Nat
      BY LenProperties DEF TransferInv, Types
    <3> QED
      BY <3>1, <3>2 DEF AllSent
  <2> QED
    BY <1>1, <1>2, <2>1 DEF OnItsWay
<1>18. OnItsWay(b)'
  <2>1. k \in 0 .. Packets(Len(asked'))
    BY <1>2, <1>3, <1>14
  <2>2. SentPieces(stream', b, asked') /\ Holds(data', len', parsed' - b, asked')
        /\ (parsed' - b = Packets(Len(asked')) => Packets(Len(asked')) = 1)
    BY <1>1, <1>14 DEF OnItsWay
  <2>3. Len(stream') # (b + Packets(Len(asked'))) * PACKET_SIZE
    BY <1>2, <1>14, <1>17
  <2>4. b <= parsed'
    BY <1>1, <1>14 DEF OnItsWay
  <2> QED
    BY <1>15, <1>16, <2>1, <2>2, <2>3, <2>4 DEF OnItsWay
<1> QED
  BY <1>1, <1>14, <1>18 DEF Underway

(* A part of a packet, sent behind the part before it. *)
LEMMA PartSent ==
  ASSUME NEW s \in Seq(Byte), NEW q \in Seq(Byte), NEW u \in Nat, NEW n \in Nat,
         u + n <= Len(q), u <= Len(s), \A i \in 1 .. u : s[Len(s) - u + i] = q[i],
         NEW t, t = s \o SubSeq(q, u + 1, u + n)
  PROVE  /\ t \in Seq(Byte) /\ Len(t) = Len(s) + n
         /\ \A i \in 1 .. Len(s) : t[i] = s[i]
         /\ \A i \in 1 .. u + n : t[Len(s) - u + i] = q[i]
<1>1. PICK r : r = SubSeq(q, u + 1, u + n)
  OBVIOUS
<1>2. r \in Seq(Byte) /\ Len(r) = n /\ \A i \in 1 .. n : r[i] = q[u + i]
  BY <1>1, PieceOf
<1>3. PICK m \in Nat, x \in Nat : m = Len(s) /\ m = x + u /\ x = Len(s) - u
  BY LenProperties
<1>4. /\ t \in Seq(Byte) /\ Len(t) = m + n
      /\ \A i \in 1 .. m + n : t[i] = IF i <= m THEN s[i] ELSE r[i - m]
  <2>1. /\ s \o r \in Seq(Byte) /\ Len(s \o r) = Len(s) + Len(r)
        /\ \A i \in 1 .. Len(s) + Len(r) : (s \o r)[i] = IF i <= Len(s) THEN s[i] ELSE r[i - Len(s)]
    BY <1>2, ConcatProperties
  <2>2. t = s \o r
    BY <1>1
  <2> QED
    BY <1>2, <1>3, <2>1, <2>2
<1>5. \A i \in 1 .. m : t[i] = s[i]
  BY <1>4
<1>6. ASSUME NEW i \in 1 .. u + n
      PROVE  t[x + i] = q[i]
  <2>1. CASE i <= u
    <3>1. x + i \in 1 .. m /\ i \in 1 .. u
      BY <1>3, <2>1
    <3>2. s[x + i] = q[i]
      BY <1>3, <3>1
    <3> QED
      BY <1>5, <3>1, <3>2
  <2>2. CASE i > u
    <3>1. x + i \in 1 .. m + n /\ ~(x + i <= m) /\ (x + i) - m = i - u /\ i - u \in 1 .. n
          /\ u + (i - u) = i
      BY <1>3, <2>2
    <3>2. t[x + i] = r[i - u]
      BY <1>4, <3>1
    <3> QED
      BY <1>2, <3>1, <3>2
  <2>3. i <= u \/ i > u
    <3>1. i \in Nat /\ u \in Nat
      OBVIOUS
    <3> QED
      BY <3>1
  <2> QED
    BY <2>1, <2>2, <2>3
<1> QED
  BY <1>3, <1>4, <1>5, <1>6

(* The client goes on to the next packet, or stays with this one. *)
LEMMA WrittenAt ==
  ASSUME TransferInv, spc = "send", NEW n \in 0 .. PACKET_SIZE - 1, Written(n),
         asked \in Files, NEW k \in Nat, k < Packets(Len(asked)), AtPacket(k, asked)
  PROVE  /\ n = 0 => AtPacket(k + 1, asked)' /\ spc' = "fill"
         /\ n # 0 => AtPacket(k, asked)' /\ spc' = "send"
<1>1. PICK m \in Nat, p \in Nat \ {0}, w \in Widths :
        m = Packets(Len(asked)) /\ p = Carried(asked) /\ w = IndexWidth(Len(asked))
  BY FileSizes
<1>2. /\ IsPiece(buffer, asked, k) /\ Width(buffer) = w /\ Counts(buffer) /\ k < m
      /\ file_data = Padded(asked) /\ file_data_index = k * p
      /\ IsPacket(buffer) /\ GetPacketIndex(buffer) = k
      /\ total_written' = n /\ file_data' = file_data /\ asked' = asked
  BY <1>1 DEF AtPacket, IsPiece, Written
<1>3. CASE n = 0
  <2>1. /\ spc' = "fill" /\ buffer' = IncPacketIndex(buffer)
        /\ file_data_index' = file_data_index + Len(Data(buffer))
    BY <1>3 DEF Written
  <2>2. PICK q : q = buffer' /\ q = IncPacketIndex(buffer)
    BY <2>1
  <2>3. Width(q) = w /\ Counts(q)
    BY <1>2, <2>2, CountedPacket, CountsOn
  <2>4. Len(Data(buffer)) = p
    BY <1>1, <1>2, PacketParts DEF Carried
  <2>5. file_data_index' = (k + 1) * p
    BY <1>1, <1>2, <2>1, <2>4, Products
  <2>6. k + 1 < m => GetPacketIndex(q) = k + 1
    <3>1. Power[w] \in Nat /\ m <= Power[w]
      <4>1. w \in Nat
        BY WidthBounds
      <4> QED
        BY <1>1, <4>1, FileSizes, PowerStep
    <3>2. k + 1 < m => k + 1 < Power[w]
      BY <3>1
    <3> QED
      BY <1>2, <2>2, <3>2, IndexCounts
  <2> QED
    BY <1>1, <1>2, <1>3, <2>1, <2>2, <2>3, <2>5, <2>6 DEF AtPacket
<1>4. CASE n # 0
  <2>1. UNCHANGED <<spc, buffer, file_data_index>>
    BY <1>4 DEF Written
  <2> QED
    BY <1>1, <1>2, <1>4, <2>1 DEF AtPacket
<1> QED
  BY <1>3, <1>4

(* A failed send sends nothing, and the client goes on all the same. *)
LEMMA FailUnderway ==
  ASSUME TransferInv, SendFails
  PROVE  Underway'
<1>1. PICK b \in 0 .. parsed, k \in Nat :
        /\ asked \in Files /\ asked # <<>> /\ OnItsWay(b)
        /\ k < Packets(Len(asked)) /\ AtPacket(k, asked) /\ UpTo(k, b)
  BY BusyTransfer DEF SendFails
<1>2. PICK m \in Nat : m = Packets(Len(asked))
  BY <1>1, FileSizes
<1>3. PICK n \in 0 .. PACKET_SIZE - 1 : Written(n)
  <2>1. total_written \in 0 .. PACKET_SIZE - 1 /\ PACKET_SIZE \in Nat \ {0}
    BY PacketAssumption DEF TransferInv, Types
  <2> QED
    BY <2>1 DEF SendFails
<1>4. spc = "send" /\ broken /\ broken' = broken
      /\ UNCHANGED <<stream, parsed, asked, data, len>>
  BY <1>3 DEF SendFails, Written, framingVars, audioVars
<1>5. PICK j \in 0 .. m : AtPacket(j, asked)' /\ spc' # "idle"
  <2>1. k \in 0 .. m /\ k + 1 \in 0 .. m
    BY <1>1, <1>2
  <2> QED
    BY <1>1, <1>3, <1>4, <2>1, WrittenAt
<1>6. UpTo(j, b)'
  BY <1>4 DEF UpTo
<1>7. Len(stream) # (b + m) * PACKET_SIZE
  BY <1>1, <1>2, <1>4 DEF OnItsWay, AllSent
<1>8. OnItsWay(b)'
  <2>1. SentPieces(stream', b, asked') /\ Holds(data', len', parsed' - b, asked')
        /\ (parsed' - b = Packets(Len(asked')) => Packets(Len(asked')) = 1) /\ b <= parsed'
    BY <1>1, <1>4 DEF OnItsWay
  <2>2. j \in 0 .. Packets(Len(asked')) /\ Len(stream') # (b + Packets(Len(asked'))) * PACKET_SIZE
    BY <1>2, <1>4, <1>7
  <2> QED
    BY <1>5, <1>6, <2>1, <2>2 DEF OnItsWay
<1> QED
  BY <1>1, <1>4, <1>8 DEF Underway

(* A send takes the packet further, or completes it. *)
LEMMA SendUnderway ==
  ASSUME TransferInv, NEW n \in 1 .. PACKET_SIZE, Send(n)
  PROVE  Underway'
<1>1. PICK b \in 0 .. parsed, k \in Nat :
        /\ asked \in Files /\ asked # <<>> /\ OnItsWay(b)
        /\ k < Packets(Len(asked)) /\ AtPacket(k, asked) /\ UpTo(k, b)
  BY BusyTransfer DEF Send
<1>2. PICK m \in Nat, p \in Nat \ {0} : m = Packets(Len(asked)) /\ p = Carried(asked)
  BY <1>1, FileSizes
<1>3. /\ PACKET_SIZE \in Nat \ {0} /\ b \in Nat /\ k < m /\ stream \in Seq(Byte)
      /\ spc = "send" /\ ~broken /\ total_written \in 0 .. PACKET_SIZE - 1
      /\ IsPiece(buffer, asked, k) /\ buffer \in Seq(Byte) /\ Len(buffer) = PACKET_SIZE
      /\ total_written + n <= PACKET_SIZE
      /\ stream' = stream \o SubSeq(buffer, total_written + 1, total_written + n)
  <2>1. parsed \in Nat
    BY DEF TransferInv, IInv, Frames
  <2> QED
    BY <1>1, <1>2, <2>1, PacketAssumption
    DEF TransferInv, IInv, Frames, Types, AtPacket, IsPiece, IsPacket, Send
<1>13. b + k \in Nat /\ k \in Nat /\ n \in Nat
  BY <1>3
<1>14. PICK x \in Nat : /\ x = (b + k) * PACKET_SIZE
                        /\ (b + k + 1) * PACKET_SIZE = x + PACKET_SIZE
  BY <1>3, <1>13, Products
<1>15. PICK u \in Nat : u = total_written /\ u + n <= PACKET_SIZE
  BY <1>3
<1>4. Len(stream) = x + u /\ \A i \in 1 .. u : stream[x + i] = buffer[i]
  BY <1>1, <1>3, <1>14, <1>15 DEF UpTo
<1>5. PICK t : t = stream'
  OBVIOUS
<1>6. /\ t \in Seq(Byte) /\ Len(t) = x + u + n
      /\ \A i \in 1 .. Len(stream) : t[i] = stream[i]
      /\ \A i \in 1 .. u + n : t[x + i] = buffer[i]
  <2>1. u + n <= Len(buffer) /\ t = stream \o SubSeq(buffer, u + 1, u + n)
    BY <1>3, <1>5, <1>15
  <2>2. stream \in Seq(Byte) /\ buffer \in Seq(Byte)
    BY <1>3
  <2>3. u <= Len(stream) /\ Len(stream) - u = x
    BY <1>4
  <2>4. \A i \in 1 .. u : stream[Len(stream) - u + i] = buffer[i]
    BY <1>4, <2>3
  <2>5. /\ t \in Seq(Byte) /\ Len(t) = Len(stream) + n
        /\ \A i \in 1 .. Len(stream) : t[i] = stream[i]
        /\ \A i \in 1 .. u + n : t[Len(stream) - u + i] = buffer[i]
    <3>1. PICK s \in Seq(Byte), q \in Seq(Byte) : s = stream /\ q = buffer
      BY <2>2
    <3>2. /\ u + n <= Len(q) /\ u <= Len(s) /\ t = s \o SubSeq(q, u + 1, u + n)
          /\ \A i \in 1 .. u : s[Len(s) - u + i] = q[i]
      BY <2>1, <2>3, <2>4, <3>1
    <3>3. /\ t \in Seq(Byte) /\ Len(t) = Len(s) + n
          /\ \A i \in 1 .. Len(s) : t[i] = s[i]
          /\ \A i \in 1 .. u + n : t[Len(s) - u + i] = q[i]
      BY <1>13, <3>2, PartSent
    <3> QED
      BY <3>1, <3>3
  <2> QED
    BY <1>4, <1>13, <2>3, <2>5
<1>7. UNCHANGED <<parsed, broken, asked, data, len>>
  BY DEF Send, Written, framingVars, audioVars
<1>8. ASSUME u + n = PACKET_SIZE PROVE Slice(t, b + k) = buffer
  <2>1. \A i \in 1 .. PACKET_SIZE : t[x + i] = buffer[i]
    BY <1>6, <1>8
  <2>2. \A i \in 1 .. PACKET_SIZE : t[(b + k) * PACKET_SIZE + i] = buffer[i]
    BY <1>14, <2>1
  <2>3. IsPiece(buffer, asked, k)
    BY <1>3
  <2> QED
    BY <2>2, <2>3, SamePiece
<1>16. PICK l \in Nat : l = Len(t) /\ l = x + (u + n)
  BY <1>6, <1>13
<1>9. SentPieces(t, b, asked)
  <2>1. SentPieces(stream, b, asked)
    BY <1>1 DEF OnItsWay
  <2>2. l <= x + PACKET_SIZE /\ (l = x + PACKET_SIZE => u + n = PACKET_SIZE)
    BY <1>3, <1>13, <1>15, <1>16
  <2>3. Len(t) <= (b + k + 1) * PACKET_SIZE
    BY <1>14, <1>16, <2>2
  <2>4. Len(t) = (b + k + 1) * PACKET_SIZE => IsPiece(Slice(t, b + k), asked, k)
    BY <1>3, <1>8, <1>14, <1>16, <2>2
  <2>5. (b + k) * PACKET_SIZE <= Len(stream)
    BY <1>4, <1>14
  <2> QED
    BY <1>1, <1>3, <1>6, <2>1, <2>3, <2>4, <2>5, MoreSent
<1>10. PICK all \in Nat : /\ all = (b + m) * PACKET_SIZE /\ x + PACKET_SIZE <= all
                         /\ (all = x + PACKET_SIZE => m = k + 1)
  <2>1. b + m \in Nat /\ b + k < b + m /\ b + k + 1 \in Nat
    BY <1>3, <1>13
  <2>2. PICK all \in Nat : all = (b + m) * PACKET_SIZE /\ x + PACKET_SIZE <= all
    BY <1>3, <1>13, <1>14, <2>1, Products
  <2>3. ASSUME m # k + 1 PROVE all # x + PACKET_SIZE
    <3>1. b + k + 1 < b + m
      BY <1>3, <1>13, <2>3
    <3>2. (b + k + 1) * PACKET_SIZE + PACKET_SIZE <= (b + m) * PACKET_SIZE
      BY <1>3, <2>1, <3>1, Products
    <3>3. x + PACKET_SIZE + PACKET_SIZE <= all
      BY <1>14, <2>2, <3>2
    <3>4. PACKET_SIZE \in Nat \ {0}
      BY <1>3
    <3> QED
      BY <3>3, <3>4
  <2> QED
    BY <2>2, <2>3
<1>11. CASE u + n = PACKET_SIZE
  <2>1. AtPacket(k + 1, asked)' /\ spc' = "fill" /\ total_written' = 0
    <3>1. Written(0) /\ 0 \in 0 .. PACKET_SIZE - 1
      BY <1>3, <1>15, <1>11 DEF Send
    <3>2. total_written' = 0
      BY <3>1 DEF Written
    <3> QED
      BY <1>1, <1>3, <3>1, <3>2, WrittenAt
  <2>0. l = x + PACKET_SIZE
    BY <1>11, <1>16
  <2>2. UpTo(k + 1, b)'
    <3>1. b + (k + 1) = b + k + 1
      BY <1>3, <1>13
    <3>2. (b + (k + 1)) * PACKET_SIZE = x + PACKET_SIZE
      BY <1>14, <3>1
    <3>3. l = l + 0
      OBVIOUS
    <3>4. Len(stream') = (b + (k + 1)) * PACKET_SIZE + 0
      BY <1>5, <1>16, <2>0, <3>2, <3>3
    <3>5. ~ \E i \in 1 .. 0 : TRUE
      OBVIOUS
    <3> QED
      BY <2>1, <3>4, <3>5 DEF UpTo
  <2>3. Len(stream') = (b + m) * PACKET_SIZE => AllSent'
    <3> SUFFICES ASSUME Len(stream') = (b + m) * PACKET_SIZE
                 PROVE  AllSent'
      OBVIOUS
    <3>0. l = all
      BY <1>5, <1>10, <1>16
    <3>1. m = k + 1
      BY <1>10, <2>0, <3>0
    <3>2. file_data_index' = (k + 1) * p /\ file_data' = Padded(asked)
      BY <1>2, <1>7, <2>1 DEF AtPacket
    <3>3. Len(file_data') = m * p /\ m * p \in Nat
      BY <1>1, <1>2, <3>2, FileSizes
    <3>4. file_data_index' >= Len(file_data')
      BY <3>1, <3>2, <3>3
    <3> QED
      BY <2>1, <3>4 DEF AllSent
  <2>4. OnItsWay(b)'
    <3>1. SentPieces(stream', b, asked') /\ Holds(data', len', parsed' - b, asked')
          /\ (parsed' - b = Packets(Len(asked')) => Packets(Len(asked')) = 1) /\ b <= parsed'
      BY <1>1, <1>5, <1>7, <1>9 DEF OnItsWay
    <3>2. k + 1 \in 0 .. Packets(Len(asked')) /\ Packets(Len(asked')) = m
      BY <1>2, <1>3, <1>7, <1>13
    <3>3. Len(stream') = (b + Packets(Len(asked'))) * PACKET_SIZE => AllSent'
      BY <2>3, <3>2
    <3> QED
      BY <2>1, <2>2, <3>1, <3>2, <3>3 DEF OnItsWay
  <2> QED
    BY <1>1, <1>7, <2>4 DEF Underway
<1>12. CASE u + n # PACKET_SIZE
  <2>0. u + n \in 0 .. PACKET_SIZE - 1 /\ u + n # 0
    BY <1>3, <1>13, <1>15, <1>12
  <2>1. AtPacket(k, asked)' /\ spc' = "send" /\ total_written' = u + n /\ buffer' = buffer
    <3>1. Written(u + n)
      BY <1>3, <1>15, <1>12 DEF Send
    <3>2. total_written' = u + n /\ buffer' = buffer
      BY <2>0, <3>1 DEF Written
    <3> QED
      BY <1>1, <1>3, <2>0, <3>1, <3>2, WrittenAt
  <2>2. UpTo(k, b)'
    <3>1. Len(stream') = x + (u + n) /\ \A i \in 1 .. u + n : stream'[x + i] = buffer[i]
      BY <1>5, <1>6, <1>16
    <3>2. /\ Len(stream') = (b + k) * PACKET_SIZE + total_written'
          /\ \A i \in 1 .. total_written' : stream'[(b + k) * PACKET_SIZE + i] = buffer'[i]
      BY <1>14, <2>1, <3>1
    <3> QED
      BY <3>2 DEF UpTo
  <2>3. Len(stream') # (b + m) * PACKET_SIZE
    <3>1. l < all
      BY <1>3, <1>10, <1>16, <2>0
    <3> QED
      BY <1>5, <1>10, <1>16, <3>1
  <2>4. OnItsWay(b)'
    <3>1. SentPieces(stream', b, asked') /\ Holds(data', len', parsed' - b, asked')
          /\ (parsed' - b = Packets(Len(asked')) => Packets(Len(asked')) = 1) /\ b <= parsed'
      BY <1>1, <1>5, <1>7, <1>9 DEF OnItsWay
    <3>2. k \in 0 .. Packets(Len(asked')) /\ Packets(Len(asked')) = m
      BY <1>2, <1>3, <1>7, <1>13
    <3>3. Len(stream') # (b + Packets(Len(asked'))) * PACKET_SIZE
      BY <2>3, <3>2
    <3> QED
      BY <2>1, <2>2, <3>1, <3>2, <3>3 DEF OnItsWay
  <2> QED
    BY <1>1, <1>7, <2>4 DEF Underway
<1> QED
  BY <1>11, <1>12

(* The steps that leave the file, and what was sent of it, as they are. *)
LEMMA QuietUnderway ==
  ASSUME TransferInv, UNCHANGED <<stream, parsed, asked, data, len>>,
         UNCHANGED <<file_data, file_data_index, buffer, total_written>>,
         broken' \in {broken, TRUE}, spc' \in {spc, "idle"}
  PROVE  Underway'
<1>1. AllSent => AllSent'
  BY DEF AllSent
<1>2. ASSUME NEW b, OnItsWay(b)
      PROVE  OnItsWay(b)'
  <2>1. ASSUME spc' # "idle"
        PROVE  \E k \in 0 .. Packets(Len(asked)) : AtPacket(k, asked)' /\ UpTo(k, b)'
    <3>1. PICK k \in 0 .. Packets(Len(asked)) : AtPacket(k, asked) /\ UpTo(k, b)
      BY <1>2, <2>1 DEF OnItsWay
    <3>2. AtPacket(k, asked)'
      BY <2>1, <3>1 DEF AtPacket
    <3>3. UpTo(k, b)'
      BY <3>1 DEF UpTo
    <3> QED
      BY <3>2, <3>3
  <2> QED
    BY <1>1, <1>2, <2>1 DEF OnItsWay
<1> QED
  BY <1>1, <1>2 DEF TransferInv, Underway

(* With another connection that begins with an empty buffer no packet is   *)
(* on its way, and the file that was asked for is still waited for.        *)
LEMMA ReconnectUnderway ==
  ASSUME Frames, Types, Reconnect, ~Torn'
  PROVE  Underway'
<1>1. /\ stream' = recv_data_packet_buf /\ parsed' = 0 /\ carried' = Len(recv_data_packet_buf)
      /\ asked' = asked /\ spc' = "idle"
  BY DEF Reconnect, NextConnection, senderVars
<1>2. Len(stream') = 0
  BY <1>1 DEF Torn
<1>3. AllSent'
  BY <1>1 DEF AllSent
<1>4. CASE asked = <<>>
  BY <1>1, <1>2, <1>3, <1>4, PacketAssumption DEF Underway
<1>5. CASE asked # <<>>
  <2>1. PICK m \in Nat \ {0} : m = Packets(Len(asked))
    BY <1>5, FileSizes DEF Types
  <2>2. PICK y \in Nat : y = (0 + m) * PACKET_SIZE /\ y # 0
    BY <2>1, PacketAssumption
  <2>3. ASSUME NEW k \in 0 .. m - 1
        PROVE  (0 + k + 1) * PACKET_SIZE > 0
    <3>1. PICK j \in Nat \ {0} : j = 0 + k + 1
      BY <2>1
    <3>2. j * PACKET_SIZE > 0
      BY <3>1, PacketAssumption
    <3> QED
      BY <3>1, <3>2
  <2>4. SentPieces(stream', 0, asked)
    <3>1. PICK s, f : s = stream' /\ f = asked
      OBVIOUS
    <3>2. Len(s) <= (0 + m) * PACKET_SIZE
      BY <1>2, <2>2, <3>1
    <3>3. \A k \in 0 .. m - 1 : ~((0 + k + 1) * PACKET_SIZE <= Len(s))
      <4>1. ASSUME NEW k \in 0 .. m - 1
            PROVE  ~((0 + k + 1) * PACKET_SIZE <= 0)
        <5>1. (0 + k + 1) * PACKET_SIZE \in Nat
          BY PacketAssumption
        <5> QED
          BY <2>3, <5>1
      <4> QED
        BY <1>2, <3>1, <4>1
    <3>4. SentPieces(s, 0, f)
      BY <2>1, <3>1, <3>2, <3>3 DEF SentPieces
    <3> QED
      BY <3>1, <3>4
  <2>5. parsed' - 0 = 0 /\ Holds(data', len', 0, asked)
    BY <1>1 DEF Holds
  <2>6. OnItsWay(0)'
    BY <1>1, <1>2, <1>3, <2>1, <2>2, <2>4, <2>5 DEF OnItsWay
  <2> QED
    BY <1>1, <1>5, <2>6 DEF Underway
<1> QED
  BY <1>4, <1>5

(* A file is given up when nothing of it is on its way. *)
LEMMA ResumeUnderway ==
  ASSUME Frames, Resume, ~Torn
  PROVE  Underway'
<1>1. /\ asked' = <<>> /\ spc = "idle" /\ received = Len(stream) /\ recv_data_packet_buf = <<>>
      /\ UNCHANGED <<stream, parsed, spc>>
  BY DEF Resume, senderVars, framingVars
<1>2. Len(recv_data_packet_buf) = 0
  BY <1>1, EmptySeq
<1>3. Len(stream) = parsed * PACKET_SIZE
  <2>1. PICK x \in Nat : x = parsed * PACKET_SIZE
    BY PacketAssumption, Products DEF Frames
  <2> QED
    BY <1>1, <1>2, <2>1 DEF Frames
<1> QED
  BY <1>1, <1>3 DEF Underway, AllSent

-----------------------------------------------------------------------------
(* Copying into a block *)

(* What a copy leaves, byte for byte. *)
LEMMA CopyStores ==
  ASSUME NEW block \in Seq(Byte), NEW at \in Nat, NEW s \in Seq(Byte)
  PROVE  /\ Copy(block, at, s) \in Seq(Byte) /\ Len(Copy(block, at, s)) = Len(block)
         /\ \A i \in 1 .. Len(block) :
              /\ i \in at + 1 .. at + Len(s) => Copy(block, at, s)[i] = s[i - at]
              /\ i \notin at + 1 .. at + Len(s) => Copy(block, at, s)[i] = block[i]
<1>1. PICK m \in Nat, n \in Nat : m = Len(block) /\ n = Len(s)
  BY LenProperties
<1>2. PICK c : c = Copy(block, at, s)
  OBVIOUS
<1>3. c = [i \in 1 .. m |-> IF i \in at + 1 .. at + n THEN s[i - at] ELSE block[i]]
  BY <1>1, <1>2 DEF Copy
<1>4. ASSUME NEW i \in 1 .. m
      PROVE  (IF i \in at + 1 .. at + n THEN s[i - at] ELSE block[i]) \in Byte
  <2>1. CASE i \in at + 1 .. at + n
    <3>1. i - at \in 1 .. n
      BY <2>1
    <3> QED
      BY <1>1, <2>1, <3>1, ElementOfSeq
  <2>2. CASE i \notin at + 1 .. at + n
    BY <1>1, <2>2, ElementOfSeq
  <2> QED
    BY <2>1, <2>2
<1>5. c \in [1 .. m -> Byte]
  BY <1>3, <1>4
<1>6. c \in Seq(Byte) /\ Len(c) = m
  <2>1. c \in Seq(Byte)
    BY <1>5, SeqDef
  <2> QED
    BY <1>5, <2>1, LenProperties
<1> QED
  BY <1>1, <1>2, <1>3, <1>6

(* A block that grows keeps its bytes, and doubling it once is enough for *)
(* a piece that is not longer than what it holds.                          *)
LEMMA GrowKeeps ==
  ASSUME NEW block \in Seq(Byte), NEW needed \in Nat
  PROVE  /\ Grow(block, needed) \in Seq(Byte) /\ Len(Grow(block, needed)) >= Len(block)
         /\ needed <= Len(block) + Len(block) => Len(Grow(block, needed)) >= needed
         /\ \A i \in 1 .. Len(block) : Grow(block, needed)[i] = block[i]
<1>1. PICK m \in Nat : m = Len(block)
  BY LenProperties
<1>2. Fresh(m) \in Seq(Byte) /\ Len(Fresh(m)) = m
  BY Filled
<1>3. /\ block \o Fresh(m) \in Seq(Byte) /\ Len(block \o Fresh(m)) = m + m
      /\ \A i \in 1 .. m : (block \o Fresh(m))[i] = block[i]
  <2>1. /\ block \o Fresh(m) \in Seq(Byte) /\ Len(block \o Fresh(m)) = Len(block) + Len(Fresh(m))
        /\ \A i \in 1 .. Len(block) + Len(Fresh(m)) :
              (block \o Fresh(m))[i] = IF i <= Len(block) THEN block[i] ELSE Fresh(m)[i - Len(block)]
    BY <1>2, ConcatProperties
  <2>2. \A i \in 1 .. m : i \in 1 .. m + m /\ i <= m
    OBVIOUS
  <2> QED
    BY <1>1, <1>2, <2>1, <2>2
<1>4. CASE needed > m
  <2>1. Grow(block, needed) = block \o Fresh(m)
    BY <1>1, <1>4 DEF Grow
  <2> QED
    BY <1>1, <1>3, <2>1
<1>5. CASE ~(needed > m)
  <2>1. Grow(block, needed) = block
    BY <1>1, <1>5 DEF Grow
  <2> QED
    BY <1>1, <1>5, <2>1
<1> QED
  BY <1>4, <1>5

\* The first n bytes of s are those of t.
Begins(s, t, n) == \A i \in 1 .. n : s[i] = t[i]

\* s are the bytes of t from place l on.
PieceAt(s, t, l) == \A i \in 1 .. Len(s) : s[i] = t[l + i]

(* A piece stored behind the bytes before it. *)
LEMMA StoredPiece ==
  ASSUME NEW g \in Seq(Byte), NEW s \in Seq(Byte), NEW t \in Seq(Byte), NEW l \in Nat,
         l + Len(s) <= Len(g), Begins(g, t, l), PieceAt(s, t, l)
  PROVE  Begins(Copy(g, l, s), t, l + Len(s))
<1>1. PICK x \in Nat, n \in Nat : x = Len(g) /\ n = Len(s) /\ l + n <= x
  BY LenProperties
<1>2. PICK c : c = Copy(g, l, s)
  OBVIOUS
<1>3. ASSUME NEW i \in 1 .. x
      PROVE  c[i] = IF i \in l + 1 .. l + n THEN s[i - l] ELSE g[i]
  BY <1>1, <1>2 DEF Copy
<1>4. ASSUME NEW i \in 1 .. l + n
      PROVE  c[i] = t[i]
  <2>1. CASE i <= l
    <3>1. i \in 1 .. x /\ i \notin l + 1 .. l + n /\ i \in 1 .. l
      BY <1>1, <2>1
    <3> QED
      BY <1>3, <3>1 DEF Begins
  <2>2. CASE i > l
    <3>1. i \in 1 .. x /\ i \in l + 1 .. l + n /\ i - l \in 1 .. n /\ l + (i - l) = i
      BY <1>1, <2>2
    <3>2. PICK j : j = i - l /\ j \in 1 .. Len(s) /\ l + j = i
      BY <1>1, <3>1
    <3>3. c[i] = s[j]
      BY <1>3, <3>1, <3>2
    <3>4. s[j] = t[l + j]
      BY <3>2 DEF PieceAt
    <3> QED
      BY <3>2, <3>3, <3>4
  <2>3. i <= l \/ i > l
    BY <1>1
  <2> QED
    BY <2>1, <2>2, <2>3
<1> QED
  BY <1>1, <1>2, <1>4 DEF Begins

(* The first piece, in a fresh block. *)
LEMMA StartHolds ==
  ASSUME NEW f \in Files, NEW q, IsPiece(q, f, 0), ParseStart(q)
  PROVE  /\ data' \in Seq(Byte) /\ len' \in Nat /\ Holds(data', len', 1, f)
         /\ Len(Data(q)) * (GetPacketIndex(q) + 1) <= Len(data')
<1>1. PICK p \in Nat \ {0} : p = Carried(f) /\ p <= BUFFER_SIZE /\ BUFFER_SIZE \in Nat
  <2>1. Carried(f) \in Nat \ {0} /\ Carried(f) <= Payload(1)
    BY FileSizes
  <2>2. Payload(1) <= BUFFER_SIZE /\ BUFFER_SIZE \in Nat /\ Payload(1) \in Int
    BY BaseAssumption, BufferAssumption, PacketAssumption DEF Payload, HEADER_LEN
  <2> QED
    BY <2>1, <2>2
<1>2. PICK s : s = Data(q)
  OBVIOUS
<1>3. s \in Seq(Byte) /\ Len(s) = p /\ GetPacketIndex(q) = 0
      /\ \A i \in 1 .. p : s[i] = Padded(f)[0 * p + i]
  BY <1>1, <1>2, PacketParts DEF IsPiece, Carried
<1>4. PICK c : c = Copy(Fresh(BUFFER_SIZE), 0, s)
  OBVIOUS
<1>5. Fresh(BUFFER_SIZE) \in Seq(Byte) /\ Len(Fresh(BUFFER_SIZE)) = BUFFER_SIZE
  BY <1>1, Filled
<1>6. /\ c \in Seq(Byte) /\ Len(c) = BUFFER_SIZE
      /\ \A i \in 1 .. BUFFER_SIZE : i \in 0 + 1 .. 0 + p => c[i] = s[i - 0]
  BY <1>3, <1>4, <1>5, CopyStores
<1>7. \A i \in 1 .. p : i \in 1 .. BUFFER_SIZE /\ i \in 0 + 1 .. 0 + p /\ i - 0 = i /\ 0 * p + i = i
  BY <1>1
<1>8. \A i \in 1 .. p : c[i] = Padded(f)[i]
  BY <1>3, <1>6, <1>7
<1>9. data' = c /\ len' = p
  BY <1>2, <1>3, <1>4 DEF ParseStart
<1>10. Holds(c, p, 1, f)
  <2>1. p = 1 * p /\ BUFFER_SIZE >= p
    BY <1>1
  <2> QED
    BY <1>1, <1>6, <1>8, <2>1 DEF Holds
<1>11. p * (0 + 1) <= BUFFER_SIZE
  BY <1>1
<1> QED
  BY <1>1, <1>2, <1>3, <1>6, <1>9, <1>10, <1>11

(* Another piece, behind the ones before it. *)
LEMMA StoreHolds ==
  ASSUME NEW f \in Files, NEW d \in Nat \ {0}, NEW q, IsPiece(q, f, d), Store(q),
         data \in Seq(Byte), Holds(data, len, d, f)
  PROVE  /\ data' \in Seq(Byte) /\ len' \in Nat /\ Holds(data', len', d + 1, f)
         /\ Len(Data(q)) * (GetPacketIndex(q) + 1) <= Len(data')
<1>1. PICK p \in Nat \ {0} : p = Carried(f)
  BY FileSizes
<1>2. PICK l \in Nat : l = d * p /\ l = p * d /\ (d + 1) * p = l + p /\ p * (d + 1) = l + p /\ p <= l
  <2>1. d * p \in Nat /\ d * p = p * d /\ p * (d + 1) = (d + 1) * p
    BY <1>1
  <2>2. (d + 1) * p = d * p + p
    BY <1>1, Products
  <2>3. 1 * p <= d * p /\ 1 * p = p
    <3>1. 1 \in Nat /\ 1 <= d /\ d \in Nat
      OBVIOUS
    <3> QED
      BY <1>1, <3>1, Products
  <2> QED
    BY <2>1, <2>2, <2>3
<1>3. PICK s : s = Data(q)
  OBVIOUS
<1>4. s \in Seq(Byte) /\ Len(s) = p /\ GetPacketIndex(q) = d
      /\ \A i \in 1 .. p : s[i] = Padded(f)[d * p + i]
  BY <1>1, <1>3, PacketParts DEF IsPiece, Carried
<1>5. \A i \in 1 .. p : s[i] = Padded(f)[l + i]
  BY <1>2, <1>4
<1>6. len = l /\ l <= Len(data) /\ \A i \in 1 .. l : data[i] = Padded(f)[i]
  <2>1. len = l /\ Len(data) >= len /\ \A i \in 1 .. len : data[i] = Padded(f)[i]
    BY <1>1, <1>2 DEF Holds
  <2>2. Len(data) \in Nat
    BY LenProperties
  <2> QED
    BY <2>1, <2>2
<1>7. PICK g, c : g = Grow(data, l + p) /\ c = Copy(g, l, s)
  OBVIOUS
<1>8. data' = c /\ len' = l + p
  <2>1. data' = Copy(Grow(data, len + Len(s)), Len(s) * GetPacketIndex(q), s) /\ len' = len + Len(s)
    BY <1>3 DEF Store
  <2>2. Len(s) * GetPacketIndex(q) = l
    BY <1>2, <1>4
  <2> QED
    BY <1>4, <1>6, <1>7, <2>1, <2>2
<1>9. /\ c \in Seq(Byte) /\ l + Len(s) <= Len(c)
      /\ \A i \in 1 .. l + Len(s) : c[i] = Padded(f)[i]
  <2>1. PICK m \in Nat : m = Len(data)
    BY LenProperties
  <2>2. l + p \in Nat /\ l + p <= m + m
    BY <1>2, <1>6, <2>1
  <2>3. g \in Seq(Byte) /\ Len(g) >= l + p /\ \A i \in 1 .. m : g[i] = data[i]
    BY <1>7, <2>1, <2>2, GrowKeeps
  <2>4. PICK t \in Seq(Byte) : t = Padded(f)
    BY FileSizes
  <2>5. \A i \in 1 .. l : g[i] = t[i]
    <3>1. \A i \in 1 .. l : i \in 1 .. m
      BY <1>6, <2>1
    <3> QED
      BY <1>6, <2>3, <2>4, <3>1
  <2>6. \A i \in 1 .. Len(s) : s[i] = t[l + i]
    BY <1>4, <1>5, <2>4
  <2>7. l + Len(s) <= Len(g) /\ s \in Seq(Byte) /\ g \in Seq(Byte)
    <3>1. PICK x \in Nat : x = Len(g) /\ x >= l + p
      BY <2>3, LenProperties
    <3> QED
      BY <1>4, <2>3, <3>1
  <2>8. \A i \in 1 .. l + Len(s) : c[i] = t[i]
    <3>1. Begins(g, t, l) /\ PieceAt(s, t, l)
      BY <2>5, <2>6 DEF Begins, PieceAt
    <3>2. Begins(Copy(g, l, s), t, l + Len(s))
      BY <2>7, <3>1, StoredPiece
    <3> QED
      BY <1>7, <3>2 DEF Begins
  <2>9. c \in Seq(Byte) /\ Len(c) = Len(g)
    BY <1>7, <2>7, CopyStores
  <2> QED
    BY <1>7, <2>4, <2>7, <2>8, <2>9
<1>10. PICK m \in Nat : m = Len(c)
  BY <1>9, LenProperties
<1>11. l + p \in Nat /\ l + p <= m
  BY <1>1, <1>4, <1>9, <1>10
<1>12. Holds(c, l + p, d + 1, f)
  BY <1>1, <1>2, <1>4, <1>9, <1>10, <1>11 DEF Holds
<1>13. Len(Data(q)) * (GetPacketIndex(q) + 1) = l + p
  BY <1>2, <1>3, <1>4
<1> QED
  BY <1>8, <1>9, <1>10, <1>11, <1>12, <1>13

(* A packet is a piece of the file asked for: the one after those stored. *)
LEMMA ReceivedPiece ==
  ASSUME TransferInv, NEW n \in 1 .. PACKET_SIZE, Receive(n), packet' # <<>>
  PROVE  /\ asked \in Files /\ asked # <<>> /\ parsed' = parsed + 1
         /\ (parsed + 1) * PACKET_SIZE <= Len(stream)
         /\ \E b \in Nat, d \in Nat :
              /\ parsed = b + d /\ OnItsWay(b)
              /\ d < Packets(Len(asked)) /\ IsPiece(packet', asked, d)
<1>1. PACKET_SIZE \in Nat \ {0} /\ parsed \in Nat /\ stream \in Seq(Byte)
  BY PacketAssumption DEF TransferInv, IInv, Frames
<1>2. Recv(n) /\ stream' = stream
  BY DEF Receive
<1>3. parsed' = parsed + 1 /\ LastPacket'
  <2>1. parsed' = parsed + 1
    BY <1>2 DEF Recv
  <2>2. LastPacket'
    BY <1>2, RecvKeepsPlace DEF TransferInv, IInv
  <2> QED
    BY <2>1, <2>2
<1>4. PICK q : q = packet'
  OBVIOUS
<1>5. /\ q \in Seq(Byte) /\ Len(q) = PACKET_SIZE /\ (parsed + 1) * PACKET_SIZE <= Len(stream)
      /\ \A i \in 1 .. PACKET_SIZE : q[i] = stream[parsed * PACKET_SIZE + i]
  <2>1. parsed' - 1 = parsed
    BY <1>1, <1>3
  <2> QED
    BY <1>2, <1>3, <1>4, <2>1 DEF LastPacket
<1>6. PICK x \in Nat, all \in Nat : /\ x = parsed * PACKET_SIZE /\ all = Len(stream)
                                    /\ (parsed + 1) * PACKET_SIZE = x + PACKET_SIZE
                                    /\ x + PACKET_SIZE <= all
  <2>1. parsed * PACKET_SIZE \in Nat /\ (parsed + 1) * PACKET_SIZE = parsed * PACKET_SIZE + PACKET_SIZE
    BY <1>1, Products
  <2>2. Len(stream) \in Nat
    BY <1>1, LenProperties
  <2> QED
    BY <1>5, <2>1, <2>2
<1>7. asked \in Files /\ asked # <<>>
  <2>1. asked # <<>>
    <3>1. asked = <<>> => all = x
      BY <1>6 DEF TransferInv, Underway
    <3>2. all # x
      BY <1>1, <1>6
    <3> QED
      BY <3>1, <3>2
  <2> QED
    BY <2>1 DEF TransferInv, Types
<1>8. PICK b \in 0 .. parsed : OnItsWay(b)
  BY <1>7 DEF TransferInv, Underway
<1>9. PICK d \in Nat, m \in Nat : d = parsed - b /\ parsed = b + d /\ m = Packets(Len(asked))
  <2>1. Packets(Len(asked)) \in Nat
    BY <1>7, FileSizes
  <2>2. parsed - b \in Nat /\ parsed = b + (parsed - b)
    BY <1>1
  <2> QED
    BY <2>1, <2>2
<1>10. b \in Nat
  BY <1>1
<1>11. d < m
  <2> SUFFICES ASSUME ~(d < m)
               PROVE  FALSE
    OBVIOUS
  <2>1. b + m \in Nat /\ b + m <= parsed
    BY <1>9, <1>10
  <2>2. PICK y \in Nat : y = (b + m) * PACKET_SIZE /\ y <= x
    BY <1>1, <1>6, <2>1, Products
  <2>3. all <= y
    BY <1>6, <1>8, <1>9, <2>2 DEF OnItsWay, SentPieces
  <2> QED
    BY <1>1, <1>6, <2>2, <2>3
<1>12. IsPiece(Slice(stream, parsed), asked, d)
  <2>1. b + d + 1 = parsed + 1 /\ d \in 0 .. m - 1
    BY <1>9, <1>10, <1>11
  <2>2. (b + d + 1) * PACKET_SIZE <= Len(stream) /\ d \in 0 .. Packets(Len(asked)) - 1
    BY <1>5, <1>9, <2>1
  <2>3. IsPiece(Slice(stream, b + d), asked, d)
    BY <1>8, <2>2 DEF OnItsWay, SentPieces
  <2> QED
    BY <1>9, <2>3
<1>13. Slice(stream, parsed) = q
  <2>1. Slice(stream, parsed) \in Seq(Byte) /\ Len(Slice(stream, parsed)) = PACKET_SIZE
    BY <1>12 DEF IsPiece, IsPacket
  <2>2. \A i \in 1 .. PACKET_SIZE : Slice(stream, parsed)[i] = q[i]
    BY <1>5 DEF Slice
  <2> QED
    BY <1>5, <2>1, <2>2, SeqEqual
<1> QED
  BY <1>3, <1>4, <1>5, <1>7, <1>8, <1>9, <1>10, <1>11, <1>12, <1>13

(* A packet stores its piece of the file, and the last of several gives   *)
(* the whole file to the player.                                          *)
LEMMA PieceStored ==
  ASSUME TransferInv, NEW f \in Files, NEW d \in Nat, d < Packets(Len(f)),
         NEW q, IsPiece(q, f, d), Holds(data, len, d, f),
         ParseStart(q) \/ ParseMiddle(q) \/ ParseEnd(q)
  PROVE  /\ data' \in Seq(Byte) /\ len' \in Nat /\ Holds(data', len', d + 1, f)
         /\ Len(Data(q)) * (GetPacketIndex(q) + 1) <= Len(data')
         /\ \/ /\ d + 1 = Packets(Len(f)) => Packets(Len(f)) = 1
               /\ asked' = asked /\ song' = song
            \/ /\ d + 1 = Packets(Len(f))
               /\ asked' = <<>> /\ song' = SubSeq(data', 1, len')
<1>1. PICK m \in Nat : m = Packets(Len(f)) /\ d < m
  BY FileSizes
<1>2. q[1] = Kind(d, m) /\ START = 0 /\ MIDDLE = 1 /\ END = 2
  BY <1>1 DEF IsPiece, START, MIDDLE, END
<1>3. data \in Seq(Byte)
  BY DEF TransferInv, Types
<1>4. CASE d = 0
  <2>1. q[1] = START
    BY <1>2, <1>4 DEF Kind
  <2>2. ParseStart(q)
    BY <1>2, <2>1 DEF ParseMiddle, ParseEnd
  <2>3. IsPiece(q, f, 0)
    BY <1>4
  <2>4. /\ data' \in Seq(Byte) /\ len' \in Nat /\ Holds(data', len', 1, f)
        /\ Len(Data(q)) * (GetPacketIndex(q) + 1) <= Len(data')
    BY <2>2, <2>3, StartHolds
  <2>5. d + 1 = 1
    BY <1>4
  <2>6. asked' = asked /\ song' = song
    BY <2>2 DEF ParseStart
  <2> QED
    BY <2>4, <2>5, <2>6
<1>5. CASE d # 0 /\ d = m - 1
  <2>1. q[1] = END
    BY <1>2, <1>5 DEF Kind
  <2>2. ParseEnd(q)
    BY <1>2, <2>1 DEF ParseStart, ParseMiddle
  <2>3. Store(q) /\ d \in Nat \ {0}
    BY <1>5, <2>2 DEF ParseEnd
  <2>4. /\ data' \in Seq(Byte) /\ len' \in Nat /\ Holds(data', len', d + 1, f)
        /\ Len(Data(q)) * (GetPacketIndex(q) + 1) <= Len(data')
    BY <1>3, <2>3, StoreHolds
  <2>5. d + 1 = m
    BY <1>1, <1>5
  <2>6. asked' = <<>> /\ song' = SubSeq(data', 1, len')
    BY <2>2 DEF ParseEnd
  <2> QED
    BY <1>1, <2>4, <2>5, <2>6
<1>6. CASE d # 0 /\ d # m - 1
  <2>1. q[1] = MIDDLE
    BY <1>2, <1>6 DEF Kind
  <2>2. ParseMiddle(q)
    BY <1>2, <2>1 DEF ParseStart, ParseEnd
  <2>3. Store(q) /\ d \in Nat \ {0}
    BY <1>6, <2>2 DEF ParseMiddle
  <2>4. /\ data' \in Seq(Byte) /\ len' \in Nat /\ Holds(data', len', d + 1, f)
        /\ Len(Data(q)) * (GetPacketIndex(q) + 1) <= Len(data')
    BY <1>3, <2>3, StoreHolds
  <2>5. d + 1 # m
    BY <1>1, <1>6
  <2>6. asked' = asked /\ song' = song
    BY <2>2 DEF ParseMiddle
  <2> QED
    BY <1>1, <2>4, <2>5, <2>6
<1> QED
  BY <1>4, <1>5, <1>6

(* All the pieces of a file are the file and its padding. *)
LEMMA WholeFile ==
  ASSUME NEW f \in Files, NEW block \in Seq(Byte), NEW size \in Nat,
         Holds(block, size, Packets(Len(f)), f)
  PROVE  SubSeq(block, 1, size) = Padded(f) /\ Padded(f) \in Seq(Byte)
<1>1. PICK t \in Seq(Byte) : t = Padded(f)
  BY FileSizes
<1>2. size = Len(t) /\ size <= Len(block) /\ \A i \in 1 .. size : block[i] = t[i]
  BY <1>1, FileSizes DEF Holds
<1>3. PICK r : r = SubSeq(block, 1, size)
  OBVIOUS
<1>4. r \in Seq(Byte) /\ Len(r) = size /\ \A i \in 1 .. size : r[i] = block[i]
  <2>1. size \in 0 .. Len(block)
    BY <1>2, LenProperties
  <2> QED
    BY <1>3, <2>1, CutAt
<1>5. r = t
  <2>1. \A i \in 1 .. Len(r) : r[i] = t[i]
    BY <1>2, <1>4
  <2> QED
    BY <1>1, <1>2, <1>4, <2>1, SeqEqual
<1> QED
  BY <1>1, <1>3, <1>5

(* The parser stores the piece, and the file stays on its way or arrives. *)
LEMMA ParseUnderway ==
  ASSUME TransferInv, ~Torn, NEW n \in 1 .. PACKET_SIZE, Receive(n), packet' # <<>>
  PROVE  /\ Underway'
         /\ data' \in Seq(Byte) /\ len' \in Nat /\ song' \in Seq(Byte)
         /\ Len(Data(packet')) * (GetPacketIndex(packet') + 1) <= Len(data')
         /\ asked \in Files /\ asked # <<>>
         /\ \/ asked' = asked /\ song' = song
            \/ asked' = <<>> /\ song' = Padded(asked)
<1>1. /\ asked \in Files /\ asked # <<>> /\ parsed' = parsed + 1
      /\ (parsed + 1) * PACKET_SIZE <= Len(stream)
  BY ReceivedPiece
<1>2. PICK b \in Nat, d \in Nat :
        /\ parsed = b + d /\ OnItsWay(b)
        /\ d < Packets(Len(asked)) /\ IsPiece(packet', asked, d)
  BY ReceivedPiece
<1>3. PICK f \in Files, m \in Nat : f = asked /\ m = Packets(Len(f)) /\ d < m
  BY <1>1, <1>2, FileSizes
<1>4. PICK q : q = packet'
  OBVIOUS
<1>5. ParseStart(q) \/ ParseMiddle(q) \/ ParseEnd(q)
  BY <1>4 DEF Receive
<1>6. UNCHANGED <<stream, senderVars, broken>>
  BY DEF Receive
<1>7. Holds(data, len, d, f)
  <2>1. parsed - b = d
    BY <1>2
  <2> QED
    BY <1>2, <1>3, <2>1 DEF OnItsWay
<1>8. IsPiece(q, f, d)
  BY <1>2, <1>3, <1>4
<1>9. /\ data' \in Seq(Byte) /\ len' \in Nat /\ Holds(data', len', d + 1, f)
      /\ Len(Data(q)) * (GetPacketIndex(q) + 1) <= Len(data')
  BY <1>3, <1>5, <1>7, <1>8, PieceStored
<1>10. \/ /\ d + 1 = m => m = 1
          /\ asked' = asked /\ song' = song
       \/ /\ d + 1 = m
          /\ asked' = <<>> /\ song' = SubSeq(data', 1, len')
  BY <1>3, <1>5, <1>7, <1>8, PieceStored
<1>11. parsed' = b + (d + 1) /\ parsed' - b = d + 1 /\ b <= parsed' /\ b \in 0 .. parsed'
  BY <1>1, <1>2
<1>12. AllSent => AllSent'
  BY <1>6 DEF AllSent, senderVars
<1>13. CASE (d + 1 = m => m = 1) /\ asked' = asked /\ song' = song
  <2>1. SentPieces(stream', b, asked') /\ Holds(data', len', parsed' - b, asked')
        /\ (parsed' - b = Packets(Len(asked')) => Packets(Len(asked')) = 1)
    BY <1>2, <1>3, <1>6, <1>9, <1>11, <1>13 DEF OnItsWay
  <2>2. ASSUME spc' # "idle"
        PROVE  \E k \in 0 .. Packets(Len(asked')) : AtPacket(k, asked)' /\ UpTo(k, b)'
    <3>1. spc # "idle"
      BY <1>6, <2>2 DEF senderVars
    <3>2. PICK k \in 0 .. Packets(Len(asked)) : AtPacket(k, asked) /\ UpTo(k, b)
      BY <1>2, <3>1 DEF OnItsWay
    <3>3. AtPacket(k, asked)'
      BY <1>6, <1>13, <3>2 DEF AtPacket, senderVars
    <3>4. UpTo(k, b)'
      BY <1>6, <3>2 DEF UpTo, senderVars
    <3> QED
      BY <1>13, <3>3, <3>4
  <2>3. Len(stream') = (b + Packets(Len(asked'))) * PACKET_SIZE => AllSent'
    BY <1>2, <1>6, <1>12, <1>13 DEF OnItsWay
  <2>4. OnItsWay(b)'
    BY <1>11, <2>1, <2>2, <2>3 DEF OnItsWay
  <2>5. asked' # <<>>
    BY <1>1, <1>13
  <2>6. song' \in Seq(Byte)
    BY <1>13 DEF TransferInv, Types
  <2> QED
    BY <1>1, <1>4, <1>9, <1>11, <1>13, <2>4, <2>5, <2>6 DEF Underway
<1>14. CASE d + 1 = m /\ asked' = <<>> /\ song' = SubSeq(data', 1, len')
  <2>1. song' = Padded(asked) /\ song' \in Seq(Byte)
    <3>1. PICK block, size : block = data' /\ size = len'
      OBVIOUS
    <3>2. Holds(block, size, Packets(Len(f)), f)
      BY <1>3, <1>9, <1>14, <3>1
    <3>3. SubSeq(block, 1, size) = Padded(f) /\ Padded(f) \in Seq(Byte)
      BY <1>9, <3>1, <3>2, WholeFile
    <3> QED
      BY <1>3, <1>14, <3>1, <3>3
  <2>2. parsed + 1 = b + m /\ parsed' = b + m
    BY <1>1, <1>2, <1>11, <1>14
  <2>3. PICK x, all : x = Len(stream) /\ all = (b + m) * PACKET_SIZE
    OBVIOUS
  <2>4. x \in Nat /\ all \in Nat /\ all <= x /\ x <= all
    <3>1. all <= x
      BY <1>1, <2>2, <2>3
    <3>2. x <= all
      BY <1>2, <1>3, <2>3 DEF OnItsWay, SentPieces
    <3>3. x \in Nat
      BY <2>3, LenProperties DEF TransferInv, IInv, Frames
    <3>4. all \in Nat
      BY <1>3, <2>3, PacketAssumption, Products
    <3> QED
      BY <3>1, <3>2, <3>3, <3>4
  <2>5. x = all
    BY <2>4
  <2>6. Len(stream') = parsed' * PACKET_SIZE
    BY <1>6, <2>2, <2>3, <2>5
  <2>7. AllSent'
    <3>1. Len(stream) = (b + Packets(Len(asked))) * PACKET_SIZE
      BY <1>3, <2>3, <2>5
    <3> QED
      BY <1>2, <1>12, <3>1 DEF OnItsWay
  <2> QED
    BY <1>1, <1>4, <1>9, <1>14, <2>1, <2>6, <2>7 DEF Underway
<1> QED
  BY <1>10, <1>13, <1>14

-----------------------------------------------------------------------------
(* The whole invariant is inductive *)

(* Writing keeps the types. *)
LEMMA WrittenTypes ==
  ASSUME IInv, Types, spc = "send", NEW n \in 0 .. PACKET_SIZE - 1, Written(n)
  PROVE  Types'
<1>1. IsPacket(buffer) /\ SenderInv'
  <2>1. SenderInv
    BY DEF IInv
  <2> QED
    BY <2>1, WrittenSender DEF SenderInv
<1>2. spc' \in {"fill", "send"}
  BY DEF Written
<1>3. buffer' \in Seq(Byte)
  BY <1>1, <1>2 DEF SenderInv, IsPacket
<1>4. file_data_index' \in Nat
  <2>1. PICK l \in Nat : l = Len(Data(buffer))
    BY <1>1, PacketParts, LenProperties
  <2>2. file_data_index' \in {file_data_index, file_data_index + l}
    BY <2>1 DEF Written
  <2> QED
    BY <2>1, <2>2 DEF Types
<1> QED
  BY <1>2, <1>3, <1>4 DEF Types, Written, audioVars

(* Every step keeps the types. *)
LEMMA TypesStep ==
  ASSUME WholeInv, [Next]_vars
  PROVE  Types'
<1>0. IInv /\ LastPacket /\ Types /\ IInv' /\ PACKET_SIZE \in Nat \ {0}
  BY PlaceStep, PacketAssumption DEF WholeInv
<1>1. ASSUME NEW f \in Files, BeginTransfer(f)
      PROVE  Types'
  <2>1. file_data' = Padded(f) /\ Padded(f) \in Seq(Byte)
    BY <1>1, FileSizes DEF BeginTransfer, Padded
  <2>2. spc' = "fill" /\ total_written' = 0 /\ file_data_index' = 0 /\ asked' = f
        /\ transfers' = transfers + 1 /\ UNCHANGED <<broken, data, len, song>>
    BY <1>1 DEF BeginTransfer, audioVars
  <2>3. buffer' \in Seq(Byte)
    BY <1>0, <2>2 DEF IInv, SenderInv, IsPacket
  <2> QED
    BY <1>0, <2>1, <2>2, <2>3 DEF Types
<1>2. CASE FillPacket
  <2>1. buffer' \in Seq(Byte) /\ spc' = "send"
    BY <1>0, <1>2 DEF FillPacket, IInv, SenderInv, IsPacket
  <2> QED
    BY <1>0, <1>2, <2>1 DEF Types, FillPacket, audioVars
<1>3. CASE EndTransfer
  BY <1>0, <1>3 DEF Types, EndTransfer, audioVars
<1>4. ASSUME NEW n \in 1 .. PACKET_SIZE, Send(n)
      PROVE  Types'
  <2>1. total_written + n \in 0 .. PACKET_SIZE - 1 \/ total_written + n = PACKET_SIZE
    BY <1>0, <1>4 DEF Types, Send
  <2>2. PICK m \in 0 .. PACKET_SIZE - 1 : Written(m)
    <3>1. 0 \in 0 .. PACKET_SIZE - 1
      BY <1>0
    <3> QED
      BY <1>4, <2>1, <3>1 DEF Send
  <2> QED
    BY <1>0, <1>4, <2>2, WrittenTypes DEF Send
<1>5. CASE SendFails
  <2>1. PICK m \in 0 .. PACKET_SIZE - 1 : Written(m)
    <3>1. total_written \in 0 .. PACKET_SIZE - 1
      BY <1>0 DEF Types
    <3> QED
      BY <1>0, <1>5, <3>1 DEF SendFails
  <2> QED
    BY <1>0, <1>5, <2>1, WrittenTypes DEF SendFails
<1>6. CASE Break
  BY <1>0, <1>6 DEF Types, Break, senderVars, audioVars
<1>7. CASE Reconnect
  BY <1>0, <1>7 DEF Types, Reconnect, senderVars, audioVars
<1>8. ASSUME NEW n \in 1 .. PACKET_SIZE, Receive(n)
      PROVE  Types'
  <2>1. UNCHANGED <<senderVars, broken, transfers>>
    BY <1>8 DEF Receive
  <2>2. /\ data' \in Seq(Byte) /\ len' \in Nat /\ song' \in Seq(Byte)
        /\ asked' \in Files \cup {<<>>}
    <3>1. CASE packet' = <<>> \/ Torn
      <4>1. UNCHANGED <<asked, audioVars, song>>
        BY <1>8, <3>1 DEF Receive
      <4> QED
        BY <1>0, <4>1 DEF Types, audioVars
    <3>2. CASE packet' # <<>> /\ ~Torn
      <4>1. /\ data' \in Seq(Byte) /\ len' \in Nat /\ song' \in Seq(Byte)
            /\ asked \in Files /\ (asked' = asked \/ asked' = <<>>)
        BY <1>8, <3>2, ParseUnderway DEF WholeInv, TransferInv
      <4> QED
        BY <4>1
    <3> QED
      BY <3>1, <3>2
  <2> QED
    BY <1>0, <2>1, <2>2 DEF Types, senderVars
<1>9. CASE Resume
  BY <1>0, <1>9 DEF Types, Resume, senderVars, audioVars
<1>10. CASE UNCHANGED vars
  BY <1>0, <1>10 DEF Types, vars, senderVars, audioVars
<1> QED
  BY <1>1, <1>2, <1>3, <1>4, <1>5, <1>6, <1>7, <1>8, <1>9, <1>10
  DEF Next, Sender, Receiver

(* Every step of a connection keeps the file on its way. *)
LEMMA UnderwayStep ==
  ASSUME TransferInv, ~Torn, [Next]_vars, ~Reconnect
  PROVE  Underway'
<1>1. ASSUME NEW f \in Files, BeginTransfer(f)
      PROVE  Underway'
  BY <1>1, BeginUnderway
<1>2. CASE FillPacket
  BY <1>2, FillUnderway
<1>3. CASE EndTransfer
  <2>1. UNCHANGED <<stream, parsed, asked, data, len>>
        /\ UNCHANGED <<file_data, file_data_index, buffer, total_written>>
        /\ broken' \in {broken, TRUE} /\ spc' \in {spc, "idle"}
    BY <1>3 DEF EndTransfer, framingVars, audioVars
  <2> QED
    BY <2>1, QuietUnderway
<1>4. ASSUME NEW n \in 1 .. PACKET_SIZE, Send(n)
      PROVE  Underway'
  BY <1>4, SendUnderway
<1>5. CASE SendFails
  BY <1>5, FailUnderway
<1>6. CASE Break
  <2>1. UNCHANGED <<stream, parsed, asked, data, len>>
        /\ UNCHANGED <<file_data, file_data_index, buffer, total_written>>
        /\ broken' \in {broken, TRUE} /\ spc' \in {spc, "idle"}
    BY <1>6 DEF Break, framingVars, senderVars, audioVars
  <2> QED
    BY <2>1, QuietUnderway
<1>7. CASE Resume
  BY <1>7, ResumeUnderway DEF TransferInv, IInv
<1>8. ASSUME NEW n \in 1 .. PACKET_SIZE, Receive(n)
      PROVE  Underway'
  <2>1. CASE packet' = <<>>
    <3>1. parsed' = parsed
      <4>1. /\ parsed' = parsed + 1 => packet' # <<>>
            /\ parsed' = parsed \/ parsed' = parsed + 1
        <5>1. LastPacket' /\ Frames' /\ Recv(n)
          BY <1>8, RecvKeepsPlace DEF Receive, TransferInv, IInv
        <5>2. PICK all \in Seq(Byte) :
                \/ Len(all) < PACKET_SIZE /\ parsed' = parsed
                \/ /\ Len(all) >= PACKET_SIZE /\ packet' = SubSeq(all, 1, PACKET_SIZE)
                   /\ parsed' = parsed + 1
          <6>1. recv_data_packet_buf \o SubSeq(stream, received + 1, received + n) \in Seq(Byte)
            <7>1. received + n <= Len(stream)
              BY <5>1 DEF Recv
            <7>2. received \in Nat /\ stream \in Seq(Byte) /\ recv_data_packet_buf \in Seq(Byte)
              BY LenProperties DEF TransferInv, IInv, Frames
            <7>3. SubSeq(stream, received + 1, received + n) \in Seq(Byte)
              BY <7>1, <7>2, PieceOf
            <7> QED
              BY <7>2, <7>3, ConcatProperties
          <6> QED
            BY <5>1, <6>1 DEF Recv
        <5>3. ASSUME Len(all) >= PACKET_SIZE PROVE SubSeq(all, 1, PACKET_SIZE) # <<>>
          <6>1. PACKET_SIZE \in 0 .. Len(all) /\ PACKET_SIZE # 0
            BY <5>3, PacketAssumption, LenProperties
          <6>2. Len(SubSeq(all, 1, PACKET_SIZE)) = PACKET_SIZE
            BY <6>1, CutAt
          <6> QED
            BY <6>1, <6>2, EmptySeq
        <5>4. parsed + 1 # parsed
          BY DEF TransferInv, IInv, Frames
        <5> QED
          BY <5>2, <5>3, <5>4
      <4> QED
        BY <2>1, <4>1
    <3>2. UNCHANGED <<stream, parsed, asked, data, len>>
          /\ UNCHANGED <<file_data, file_data_index, buffer, total_written>>
          /\ broken' \in {broken, TRUE} /\ spc' \in {spc, "idle"}
      BY <1>8, <2>1, <3>1 DEF Receive, senderVars, audioVars
    <3> QED
      BY <3>2, QuietUnderway
  <2>2. CASE packet' # <<>>
    BY <1>8, <2>2, ParseUnderway
  <2> QED
    BY <2>1, <2>2
<1>9. CASE UNCHANGED vars
  <2>1. UNCHANGED <<stream, parsed, asked, data, len>>
        /\ UNCHANGED <<file_data, file_data_index, buffer, total_written>>
        /\ broken' \in {broken, TRUE} /\ spc' \in {spc, "idle"}
    BY <1>9 DEF vars, framingVars, senderVars, audioVars
  <2> QED
    BY <2>1, QuietUnderway
<1> QED
  BY <1>1, <1>2, <1>3, <1>4, <1>5, <1>6, <1>7, <1>8, <1>9 DEF Next, Sender, Receiver

(* The invariant, from the first state on. *)
LEMMA TransferInit == Init => WholeInv
<1> SUFFICES ASSUME Init
             PROVE  WholeInv
  OBVIOUS
<1>1. PACKET_SIZE \in Nat \ {0} /\ <<>> \in Seq(Byte) /\ Len(<<>>) = 0
  BY PacketAssumption, EmptySeq
<1>2. IInv /\ LastPacket
  BY PlaceInit
<1>3. Types
  <2>1. total_written \in 0 .. PACKET_SIZE - 1
    <3>1. 0 \in 0 .. PACKET_SIZE - 1 /\ total_written = 0
      BY <1>1 DEF Init
    <3> QED
      BY <3>1
  <2>2. file_data \in Seq(Byte) /\ buffer \in Seq(Byte) /\ data \in Seq(Byte) /\ song \in Seq(Byte)
    BY <1>1 DEF Init
  <2>3. asked \in Files \cup {<<>>} /\ spc \in {"idle", "fill", "send"} /\ broken \in BOOLEAN
    BY DEF Init
  <2>4. file_data_index \in Nat /\ len \in Nat /\ transfers \in Nat
    BY DEF Init
  <2> QED
    BY <2>1, <2>2, <2>3, <2>4 DEF Types
<1>4. Underway
  BY <1>1 DEF Init, FramingInit, Underway, AllSent
<1> QED
  BY <1>2, <1>3, <1>4 DEF WholeInv

(* Every step keeps the whole invariant. *)
LEMMA TransferStep ==
  ASSUME WholeInv, [Next]_vars
  PROVE  WholeInv'
<1>1. IInv' /\ LastPacket' /\ Types'
  BY PlaceStep, TypesStep DEF WholeInv
<1>2. ASSUME ~Torn'
      PROVE  Underway'
  <2>1. CASE Reconnect
    BY <1>2, <2>1, ReconnectUnderway DEF WholeInv, IInv
  <2>2. CASE ~Reconnect
    <3>1. carried' = carried
      BY <2>2 DEF Next, Sender, Receiver, BeginTransfer, FillPacket, EndTransfer, Send,
                  SendFails, Written, Break, Resume, Receive, Recv, framingVars, vars
    <3>2. TransferInv /\ ~Torn
      BY <1>2, <3>1 DEF WholeInv, TransferInv, Torn
    <3> QED
      BY <2>2, <3>2, UnderwayStep
  <2> QED
    BY <2>1, <2>2
<1> QED
  BY <1>1, <1>2 DEF WholeInv

-----------------------------------------------------------------------------
(***************************************************************************)
(* Less than a packet waits between two calls of recv, so that the next    *)
(* piece fits into the 2 * PACKET_SIZE bytes of the buffer, wherever a     *)
(* client leaves off.                                                      *)
(***************************************************************************)
THEOREM BufferSuffices == Spec => []NoBacklog
<1>1. IInv /\ LastPacket /\ [Next]_vars => (IInv /\ LastPacket)'
  BY PlaceStep
<1>2. IInv => NoBacklog
  BY DEF IInv
<1> QED
  BY PlaceInit, <1>1, <1>2, PTL DEF Spec

(***************************************************************************)
(* parse_packet gets the next packet's worth of what the clients sent,     *)
(* one after the other, without a gap or an overlap (server.c:88-101);     *)
(* these are the packets of the connection only when the client before     *)
(* left between two packets (FullPackets does not hold).                   *)
(***************************************************************************)
THEOREM ParserGetsStream == Spec => []StreamCut
<1>1. IInv /\ LastPacket /\ [Next]_vars => (IInv /\ LastPacket)'
  BY PlaceStep
<1>2. IInv /\ LastPacket => StreamCut
  BY PacketOfStream DEF IInv
<1> QED
  BY PlaceInit, <1>1, <1>2, PTL DEF Spec

(***************************************************************************)
(* Every variable has its type.                                            *)
(***************************************************************************)
THEOREM TransferTypes == Spec => []TypeOK
<1>1. WholeInv /\ [Next]_vars => WholeInv'
  BY TransferStep
<1>2. WholeInv => TypeOK
  <2> SUFFICES ASSUME WholeInv
               PROVE  TypeOK
    OBVIOUS
  <2>1. packet \in Seq(Byte)
    <3>1. packet = <<>> => packet \in Seq(Byte)
      BY EmptySeq
    <3>2. packet # <<>> => packet \in Seq(Byte)
      BY DEF WholeInv, LastPacket
    <3> QED
      BY <3>1, <3>2
  <2>2. /\ stream \in Seq(Byte) /\ recv_data_packet_buf \in Seq(Byte)
        /\ {parsed, received, carried} \subseteq Nat
    BY LenProperties DEF WholeInv, IInv, Frames
  <2> QED
    BY <2>1, <2>2 DEF WholeInv, Types, TypeOK
<1> QED
  BY TransferInit, <1>1, <1>2, PTL DEF Spec

(***************************************************************************)
(* The data of a packet are copied to a place inside the block, for files  *)
(* and packets of every size: doubling the block once is enough            *)
(* (socket.c:205-209), because the pieces have one size and come in order. *)
(* That is so in a connection that begins with an empty buffer.            *)
(***************************************************************************)
THEOREM CopiesStayInside == Spec => CopyInside
<1>1. WholeInv /\ [Next]_vars => WholeInv'
  BY TransferStep
<1>2. WholeInv /\ [Next]_vars =>
        [packet' # <<>> /\ parsed' # parsed /\ ~Torn =>
           Len(Data(packet')) * (GetPacketIndex(packet') + 1) <= Len(data')]_vars
  <2> SUFFICES ASSUME WholeInv, Next, packet' # <<>>, parsed' # parsed, ~Torn
               PROVE  Len(Data(packet')) * (GetPacketIndex(packet') + 1) <= Len(data')
    OBVIOUS
  <2>1. CASE Reconnect
    BY <2>1 DEF Reconnect, NextConnection
  <2>2. ASSUME NEW n \in 1 .. PACKET_SIZE, Receive(n)
        PROVE  Len(Data(packet')) * (GetPacketIndex(packet') + 1) <= Len(data')
    BY <2>2, ParseUnderway DEF WholeInv, TransferInv
  <2>3. Reconnect \/ \E n \in 1 .. PACKET_SIZE : Receive(n)
    BY DEF Next, Sender, Receiver, BeginTransfer, FillPacket, EndTransfer, Send, SendFails,
           Written, Break, Resume, framingVars
  <2> QED
    BY <2>1, <2>2, <2>3
<1> QED
  BY TransferInit, <1>1, <1>2, PTL DEF Spec, CopyInside

(***************************************************************************)
(* The transfer implements Delivery: whatever pieces the bytes are sent    *)
(* and received in, and for every file, byte, index width and packet size, *)
(* what the server plays is the file it asked for, and less than a packet  *)
(* of zeros, or the file is given up.  (The packets of a client that       *)
(* follows one who left in the middle of a packet are not parsed here.)    *)
(***************************************************************************)
THEOREM TransferIsDelivery == Spec => IsDelivery
<1>1. WholeInv /\ [Next]_vars => WholeInv'
  BY TransferStep
<1>2. Init => D!Init
  BY DEF Init, D!Init
<1>3. WholeInv /\ [Next]_vars => [D!Next]_(D!dvars)
  <2> SUFFICES ASSUME WholeInv, [Next]_vars
               PROVE  D!Next \/ UNCHANGED <<asked, song>>
    BY DEF D!dvars
  <2>1. ASSUME NEW f \in Files, BeginTransfer(f)
        PROVE  D!Ask
    BY <2>1 DEF BeginTransfer, D!Ask
  <2>2. ASSUME FillPacket \/ EndTransfer \/ SendFails \/ Break \/ Reconnect \/ UNCHANGED vars
        PROVE  UNCHANGED <<asked, song>>
    BY <2>2 DEF FillPacket, EndTransfer, SendFails, Written, Break, Reconnect, vars
  <2>3. ASSUME NEW n \in 1 .. PACKET_SIZE, Send(n)
        PROVE  UNCHANGED <<asked, song>>
    BY <2>3 DEF Send, Written
  <2>4. ASSUME Resume
        PROVE  D!Lose
    BY <2>4 DEF Resume, D!Lose
  <2>5. ASSUME NEW n \in 1 .. PACKET_SIZE, Receive(n)
        PROVE  D!Arrive \/ UNCHANGED <<asked, song>>
    <3>1. CASE packet' = <<>> \/ Torn
      BY <2>5, <3>1 DEF Receive
    <3>2. CASE packet' # <<>> /\ ~Torn
      <4>1. asked \in Files /\ asked # <<>>
        BY <2>5, <3>2, ParseUnderway DEF WholeInv, TransferInv
      <4>2. CASE asked' = asked /\ song' = song
        BY <4>2
      <4>3. CASE asked' = <<>> /\ song' = Padded(asked)
        <5>1. PICK z \in 0 .. Payload(1) - 1 : z = Padding(Len(asked), IndexWidth(Len(asked)))
          BY <4>1, FileSizes
        <5>2. song' = asked \o D!Zeros(z)
          BY <4>3, <5>1 DEF Padded, Zeros, D!Zeros
        <5> QED
          BY <4>1, <4>3, <5>2 DEF D!Arrive
      <4> QED
        BY <2>5, <3>2, <4>2, <4>3, ParseUnderway DEF WholeInv, TransferInv
    <3> QED
      BY <3>1, <3>2
  <2> QED
    BY <2>1, <2>2, <2>3, <2>4, <2>5 DEF Next, Sender, Receiver, D!Next
<1> QED
  BY TransferInit, <1>1, <1>2, <1>3, PTL DEF Spec, IsDelivery, D!Spec
=============================================================================
