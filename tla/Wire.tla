-------------------------------- MODULE Wire --------------------------------
(***************************************************************************)
(* One direction of a connection of libupkeeper (upk_network.c): the       *)
(* sender queues packets and writes them, whole or in parts, to a non-     *)
(* blocking stream socket; the receiver reads a header and then a payload, *)
(* a packet for each call, and hands the message to its callback.          *)
(*                                                                         *)
(* The counts that read() and write() return are kept in a size_t, so that *)
(* -1 is never below 0: a payload that is not there yet makes one more     *)
(* byte awaited than the packet has.                                       *)
(***************************************************************************)
EXTENDS WireFormat

CONSTANTS Messages,    \* what is sent: a set of [type, args]
          Followers,   \* bound: the ones that are sent after the first
          MaxSent,     \* bound: packets queued
          MaxShort,    \* bound: short writes
          MaxString,   \* UPK_MAX_STRING_LEN
          MaxPacket    \* UPK_MAX_PACKET_SIZE, in cells

(* A packet has room for the largest message, which has two strings and    *)
(* the numbers of an svcinfo, and its size is a number.                    *)
ASSUME WireAssumption ==
  /\ {MaxSent, MaxShort, MaxString, MaxPacket} \subseteq Nat
  /\ 2 * MaxString + 28 <= MaxPacket /\ MaxPacket \in UInt32
  /\ \A m \in Messages :
       m = [type |-> m.type, args |-> m.args] /\ IsCall(m.type, m.args, MaxString)

VARIABLES sent,      \* the messages queued, in order
          writeq,    \* the packet of the queue, if any: [msg, written]
          short,     \* the number of short writes
          stream,    \* the cells in the socket
          peer,      \* is the sender's end open?
          fd,        \* is the receiver's end open?
          alive,     \* is the receiver's process running?
          readbuf, nHdr, nRem,   \* readbuf, n_hdr_bytes_read, n_remaining_read
          errno,     \* the receiver's errno: "ok" or "again"
          got,       \* the messages handed to callbacks
          cut        \* history: did a read find less than it asked for?

wireVars == <<sent, writeq, short, stream, peer, fd, alive, readbuf, nHdr, nRem,
              errno, got, cut>>
sender == <<sent, writeq, short, peer>>
receiver == <<fd, alive, readbuf, nHdr, nRem, errno, got, cut>>

HeaderLen == 4 * WordLen
FooterLen == WordLen

WireInit ==
  /\ sent = <<>> /\ writeq = <<>> /\ short = 0
  /\ stream = <<>> /\ peer = TRUE
  /\ fd = TRUE /\ alive = TRUE
  /\ readbuf = <<>> /\ nHdr = 0 /\ nRem = 0 /\ errno = "ok"
  /\ got = <<>> /\ cut = FALSE

(* upk_queue_packet: the serialised packet, header and footer included, is *)
(* put on the write queue.  It is alone there: a client waits for a reply, *)
(* and the controller replies once in each round.  (upk_write_packets      *)
(* takes the packet queued last and forgets the ones before; module        *)
(* ClientSession has the queue as a list.)                                 *)
QueuePacket(m) ==
  /\ peer /\ writeq = <<>>
  /\ Len(sent) < MaxSent /\ (sent # <<>> => m \in Followers)
  /\ LET pkt == CreatePkt(0, m.type, m.args)[1]
     IN /\ writeq' = <<[msg |-> Cells(SerializePacket(pkt), 0,
                                     HeaderLen + pkt.payload_len + FooterLen),
                       written |-> 0]>>
        /\ sent' = Append(sent, [type |-> m.type, payload |-> pkt.payload])
  /\ UNCHANGED <<short, stream, peer>> /\ UNCHANGED receiver

(* upk_write_packets, when select() finds room: the packet goes on where   *)
(* the last write ended.                                                   *)
WritePackets ==
  /\ peer /\ fd /\ alive /\ writeq # <<>>
  /\ LET w == writeq[1]
         left == Len(w.msg) - w.written
     IN \E n \in (IF short < MaxShort THEN 1 .. left ELSE {left}) :
          /\ stream' = stream \o Cells(w.msg, w.written, n)
          /\ short' = short + (IF n < left THEN 1 ELSE 0)
          /\ writeq' = IF n = left THEN <<>> ELSE [writeq EXCEPT ![1].written = @ + n]
  /\ UNCHANGED <<sent, peer>> /\ UNCHANGED receiver

(* The sender disconnects, or ends; what is in the socket stays there.     *)
PeerClose ==
  /\ peer /\ peer' = FALSE
  /\ UNCHANGED <<sent, writeq, short, stream>> /\ UNCHANGED receiver
-----------------------------------------------------------------------------
(* read(fd, buf, want) of the non-blocking socket holding s: the cells,    *)
(* the count as a size_t read gives, -1 for EAGAIN, and errno.             *)
Read(s, want, err) ==
  LET n == IF want < Len(s) THEN want ELSE Len(s)
  IN IF n = 0 /\ peer THEN [cells |-> <<>>, n |-> 0 - 1, rest |-> s, errno |-> "again"]
     ELSE [cells |-> SubSeq(s, 1, n), n |-> n,
           rest |-> SubSeq(s, n + 1, Len(s)), errno |-> err]

(* memory with cells written at offset at *)
Overlay(buf, at, cells) ==
  Cells(buf, 0, at) \o cells \o SubSeq(buf, at + Len(cells) + 1, Len(buf))

(* upk_call_received_packet_callbacks: the message is copied, by the size  *)
(* the table has for it, to last_pkt_data and given to the handler of its  *)
(* index.                                                                  *)
Callback(m) ==
  got' = Append(got, [type |-> MsgSizes[MsgtypeIdx(m.payload.val.msgtype) + 1],
                      payload |-> m.payload])

(* upk_disconnect_handle *)
Disconnect == fd' = FALSE /\ UNCHANGED <<alive, got>>

(* The third part of upk_read_packets: the rest of a packet of which rem   *)
(* cells are missing is read behind the header; whole, it is deserialised. *)
ReadPayload(s, err, buf, hdr, rem, wasCut) ==
  LET r == Read(s, rem, err)
      left == rem - r.n
      b == Overlay(buf, HeaderLen, r.cells)
      pkt == DeserializePacket(b, MaxPacket)
  IN /\ stream' = r.rest /\ errno' = r.errno /\ nHdr' = hdr
     /\ cut' = (wasCut \/ r.n < rem)
     /\ \/ /\ r.n = 0 /\ r.errno # "again"
           /\ Disconnect
           /\ readbuf' = b /\ nRem' = rem
        \/ /\ r.n # 0 \/ r.errno = "again"
           /\ left # 0
           /\ readbuf' = b /\ nRem' = left
           /\ UNCHANGED <<fd, alive, got>>
        \/ /\ r.n # 0 /\ left = 0
           /\ readbuf' = <<>> /\ nRem' = 0
           /\ IF pkt = <<>> THEN alive' = FALSE /\ UNCHANGED <<fd, got>>
              ELSE Callback(pkt[1]) /\ UNCHANGED <<fd, alive>>

(* Mutant: a packet with no fields is taken for a bogus one.               *)
MutantCheckHeader(s, err, buf, hdr, wasCut) ==
  LET payload_len == Number(Cells(buf, 0, WordLen))
      version_id == Number(Cells(buf, WordLen, WordLen))
      bogus == version_id # 0 \/ payload_len > MaxPacket \/ payload_len <= WordLen
  IN \/ /\ hdr # HeaderLen
        /\ stream' = s /\ errno' = err /\ readbuf' = buf /\ nHdr' = hdr /\ nRem' = 0
        /\ cut' = wasCut
        /\ UNCHANGED <<fd, alive, got>>
     \/ /\ hdr = HeaderLen /\ bogus
        /\ Disconnect
        /\ stream' = s /\ errno' = err /\ readbuf' = buf /\ nHdr' = 0 /\ nRem' = 0
        /\ cut' = wasCut
     \/ /\ hdr = HeaderLen /\ ~bogus
        /\ ReadPayload(s, err, buf, 0, payload_len + FooterLen, wasCut)

(* The second part: a header that is complete must have a version and a    *)
(* length that can be handled.                                             *)
CheckHeader(s, err, buf, hdr, wasCut) ==
  LET payload_len == Number(Cells(buf, 0, WordLen))
      version_id == Number(Cells(buf, WordLen, WordLen))
  IN \/ /\ hdr # HeaderLen
        /\ stream' = s /\ errno' = err /\ readbuf' = buf /\ nHdr' = hdr /\ nRem' = 0
        /\ cut' = wasCut
        /\ UNCHANGED <<fd, alive, got>>
     \/ /\ hdr = HeaderLen /\ (version_id # 0 \/ payload_len > MaxPacket)
        /\ Disconnect
        /\ stream' = s /\ errno' = err /\ readbuf' = buf /\ nHdr' = 0 /\ nRem' = 0
        /\ cut' = wasCut
     \/ /\ hdr = HeaderLen /\ version_id = 0 /\ payload_len <= MaxPacket
        /\ ReadPayload(s, err, buf, 0, payload_len + FooterLen, wasCut)

(* The first part: what is missing of a header is read, always to the      *)
(* start of readbuf.  select() found the socket readable.                  *)
ReadHeader ==
  LET r == Read(stream, HeaderLen - nHdr, "ok")
  IN \/ /\ r.n = 0
        /\ Disconnect
        /\ errno' = "ok"
        /\ UNCHANGED <<stream, readbuf, nHdr, nRem, cut>>
     \/ /\ r.n > 0
        /\ CheckHeader(r.rest, r.errno, Overlay(readbuf, 0, r.cells), nHdr + r.n,
                       cut \/ r.n < HeaderLen - nHdr)

(* select() finds the receiver's descriptor readable.                      *)
Readable == alive /\ fd /\ (stream # <<>> \/ ~peer)

(* upk_read_packets, for a descriptor select() found readable.             *)
ReadPackets ==
  /\ Readable
  /\ UNCHANGED sender
  /\ IF nRem = 0 THEN ReadHeader
     ELSE ReadPayload(stream, errno, readbuf, nHdr, nRem, cut)

WireNext ==
  \/ \E m \in Messages : QueuePacket(m)
  \/ WritePackets
  \/ PeerClose
  \/ ReadPackets

(* The event loops of both ends keep running: they write while packets are *)
(* pending and read while there is something to read.  (The second is weak *)
(* fairness of ReadPackets, with what enables a step of it written out: at *)
(* the end of the file, with an errno left by an earlier read, it does     *)
(* nothing.)                                                               *)
Idle == ~Readable \/ (stream = <<>> /\ nRem # 0 /\ errno = "again")
WireFairness ==
  /\ WF_wireVars(WritePackets)
  /\ []<>Idle \/ []<><<ReadPackets>>_wireVars

WireSpec == WireInit /\ [][WireNext]_wireVars /\ WireFairness
-----------------------------------------------------------------------------
(* As long as no read found only a part of what it asked for, the messages *)
(* handed to the callbacks are the ones that were queued, field by field   *)
(* and in order, and the receiver keeps running: for every type of message *)
(* the lengths computed by the create functions, the order of the fields   *)
(* in serializer and deserializer and the dispatch tables agree, and short *)
(* writes go on where they ended (upk_write_packets).                      *)
Intact == ~cut => alive /\ IsPrefix(got, sent)

(* Even when packets arrive in pieces, which upk_read_packets does not put *)
(* together, no callback is given a message that was not sent, or one      *)
(* twice, or out of order: the checksum ends the process first.            *)
NeverAltered ==
  \E f \in [DOMAIN got -> DOMAIN sent] :
    /\ \A i, j \in DOMAIN got : i < j => f[i] < f[j]
    /\ \A i \in DOMAIN got : got[i] = sent[f[i]]

(* Every packet queued is handed to a callback, and the connection closed  *)
(* once the sender has closed its end, unless the sender closed before or  *)
(* a packet was read in pieces.                                            *)
Settles ==
  /\ \A n \in 1 .. MaxSent :
       (Len(sent) = n) ~> (Len(got) >= n \/ ~peer \/ cut)
  /\ ~peer ~> (~fd \/ cut)
=============================================================================
