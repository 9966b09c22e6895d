----------------------------- MODULE PacketStream -----------------------------
(***************************************************************************)
(* CPacket (RemoteCtrl/Packet.h, RemoteClient/ClientSocket.h) and the two  *)
(* loops that cut a byte stream into packets: SendPack of the client,      *)
(* which keeps what follows a packet for the next one, and DealCommand of  *)
(* the server, which wants one packet.  A packet on the wire is the head   *)
(* FF FE, a DWORD that counts what follows it, the command, the data and   *)
(* the sum of the data.  Nothing marks the end of a packet, and FF FE may  *)
(* well be in the data.                                                    *)
(*                                                                         *)
(* Bytes, WORDs and the sum are what they are in the code.  A DWORD of     *)
(* 2^30 or more is represented by 2^30, more than any buffer holds.        *)
(* buf is the whole buffer: behind the first index bytes it holds what     *)
(* earlier packets have left there, and the parser may read that.          *)
(***************************************************************************)
EXTENDS Integers, Sequences, SequencesExt

CONSTANTS
    Packets,      \* the packets that may be sent: [sCmd, strData]
    MaxPackets,   \* bound: the packets sent on the connection
    BUFFER_SIZE,  \* of the receiver
    Faults        \* what may happen: "cut", the sender dies within a packet;
                  \* "reset", the connection breaks

Under(n) == 0..(n - 1)
Byte == Under(256)
Word == Under(65536)
Huge == 1073741824

ASSUME StreamAssumption ==
    /\ Packets \subseteq [sCmd : Word, strData : Seq(Byte)]
    /\ MaxPackets \in Nat
    /\ BUFFER_SIZE \in Nat \ {0} /\ BUFFER_SIZE < Huge
    /\ Faults \subseteq {"cut", "reset"}
    /\ \A p \in Packets : Len(p.strData) + 10 <= BUFFER_SIZE

VARIABLES
    loop,       \* the loop that receives: "all", SendPack; "auto", SendPack with
                \* CSM_AUTOCLOSE; "deal", DealCommand
    sent,       \* history: the packets the sender has sent as a whole
    flow,       \* the bytes on their way
    sender,     \* "open", "closed" after its last packet, or "cut" within one
    broken,     \* "yes" once the connection has been reset
    buf, index, \* the receiver's buffer, and how much of it has been received
    delivered,  \* the packets the loop has taken out of the stream
    receiver    \* "recv", "over", or "undefined" after an underflow of index

vars == <<loop, sent, flow, sender, broken, buf, index, delivered, receiver>>

TypeOK ==
    /\ loop \in {"all", "auto", "deal"}
    /\ sent \in Seq(Packets) /\ Len(sent) <= MaxPackets
    /\ flow \in Seq(Byte)
    /\ sender \in {"open", "closed", "cut"} /\ broken \in {"yes", "no"}
    /\ buf \in [1..BUFFER_SIZE -> Byte] /\ index \in 0..BUFFER_SIZE
    /\ delivered \in Seq([sCmd : Word, strData : Seq(Byte)])
    /\ receiver \in {"recv", "over", "undefined"}

Init ==
    /\ loop \in {"all", "auto", "deal"}
    /\ sent = <<>> /\ flow = <<>> /\ sender = "open" /\ broken = "no"
    /\ buf = SubSeq([k \in 1..BUFFER_SIZE |-> 0], 1, BUFFER_SIZE) /\ index = 0
    /\ delivered = <<>> /\ receiver = "recv"

-----------------------------------------------------------------------------
(* CPacket. *)

(* Slip: the low byte is not cut off. *)
WordAndByte(w) == <<w, w \div 256>>

WordBytes(w)  == <<w % 256, w \div 256>>
DWordBytes(d) == WordBytes(d % 65536) \o WordBytes(d \div 65536)

(* The sum of the bytes, in a WORD. *)
Sum(data) ==
    LET sSum[j \in 0..Len(data)] ==
            IF j = 0 THEN 0 ELSE (sSum[j - 1] + data[j]) % 65536
    IN sSum[Len(data)]

sHead == <<255, 254>>

(* CPacket(nCmd, pData, nSize) and Data(). *)
Data(p) ==
    sHead \o DWordBytes(Len(p.strData) + 4) \o WordBytes(p.sCmd)
          \o p.strData \o WordBytes(Sum(p.strData))

(* The byte, WORD, DWORD at pData + i.  One byte behind the buffer may be   *)
(* read: the NUL of strBuffer.                                              *)
At(b, i)      == IF i < BUFFER_SIZE THEN b[i + 1] ELSE 0
WordAt(b, i)  == At(b, i) + 256 * At(b, i + 1)
DWordAt(b, i) == IF WordAt(b, i + 2) < 16384
                 THEN WordAt(b, i) + 65536 * WordAt(b, i + 2) ELSE Huge

(* Slip: the search does not stop at a head. *)
AfterLastHead(b, n) ==
    LET heads == {i \in 0..(n - 1) : WordAt(b, i) = 65279} IN
    IF heads = {} THEN n ELSE 2 + CHOOSE i \in heads : \A k \in heads : i >= k

(* Where the search for the head ends: behind the first one, or at n.       *)
AfterHead(b, n) ==
    LET heads == {i \in 0..(n - 1) : WordAt(b, i) = 65279} IN
    IF heads = {} THEN n ELSE 2 + CHOOSE i \in heads : \A k \in heads : i <= k

(* Slip: one byte more is wanted. *)
WholeAndMore(b, i, n) == i + 8 < n /\ i + 4 + DWordAt(b, i) <= n

(* What follows the head at i is within the first n bytes. *)
Whole(b, i, n) == i + 8 <= n /\ i + 4 + DWordAt(b, i) <= n

(* CPacket(pData, nSize): the packet in the first n bytes, whose head ends  *)
(* at i, and nSize, which is 0 if there is none.                            *)
CPacket(b, i, n) ==
    LET size == IF DWordAt(b, i) > 4 THEN DWordAt(b, i) - 4 ELSE 0
        data == [k \in 1..size |-> At(b, i + 5 + k)] IN
    IF Whole(b, i, n) /\ Sum(data) = WordAt(b, i + 6 + size)
    THEN [nSize |-> i + 8 + size,
          pack  |-> [sCmd |-> WordAt(b, i + 4), strData |-> data]]
    ELSE [nSize |-> 0, pack |-> [sCmd |-> 0, strData |-> <<>>]]

-----------------------------------------------------------------------------
(* The sender. *)

Send(p) ==
    /\ sender = "open" /\ Len(sent) < MaxPackets
    /\ sent' = Append(sent, p)
    /\ flow' = IF broken = "no" THEN flow \o Data(p) ELSE flow
    /\ UNCHANGED <<loop, sender, broken, buf, index, delivered, receiver>>

Close ==
    /\ sender = "open" /\ sender' = "closed"
    /\ UNCHANGED <<loop, sent, flow, broken, buf, index, delivered, receiver>>

(* The sender's process ends when the first n bytes of p have left it. *)
Cut(p, n) ==
    /\ "cut" \in Faults /\ sender = "open" /\ broken = "no"
    /\ sender' = "cut"
    /\ flow' = flow \o SubSeq(Data(p), 1, n)
    /\ UNCHANGED <<loop, sent, broken, buf, index, delivered, receiver>>

(* The connection breaks: what is on its way is lost. *)
Reset ==
    /\ "reset" \in Faults /\ broken = "no"
    /\ broken' = "yes" /\ flow' = <<>>
    /\ UNCHANGED <<loop, sent, sender, buf, index, delivered, receiver>>

-----------------------------------------------------------------------------
(* The receiver. *)

(* memmove of the rest; what is behind it stays. *)
MoveDown(b, size, rest) ==
    SubSeq(b, size + 1, size + rest) \o SubSeq(b, rest + 1, BUFFER_SIZE)

(* What both loops do with b, of which n bytes have been received.  SendPack *)
(* goes on unless it is to close; DealCommand returns the command.          *)
Parse(b, n) ==
    \E got \in {CPacket(b, AfterHead(b, n), n)} :
    IF got.nSize = 0
    THEN buf' = b /\ index' = n /\ UNCHANGED <<delivered, receiver>>
    ELSE /\ delivered' = Append(delivered, got.pack)
         /\ index' = n - got.nSize
         /\ buf' = MoveDown(b, got.nSize, n - got.nSize)
         /\ receiver' = IF loop = "all" THEN "recv" ELSE "over"

Room == BUFFER_SIZE - index

(* recv() gets some of the bytes. *)
Recv(n) ==
    /\ receiver = "recv" /\ n <= Len(flow) /\ n <= Room
    /\ flow' = SubSeq(flow, n + 1, Len(flow))
    /\ \E b \in {SubSeq(buf, 1, index) \o SubSeq(flow, 1, n)
                   \o SubSeq(buf, index + n + 1, BUFFER_SIZE)} : Parse(b, index + n)
    /\ UNCHANGED <<loop, sent, sender, broken>>

(* 0 from recv() ends DealCommand, and SendPack when its buffer is empty.   *)
Over == loop = "deal" \/ index = 0

(* recv() returns 0: the sender has closed, or there is no room.  SendPack  *)
(* looks at what it has got.                                                *)
RecvNothing ==
    /\ receiver = "recv" /\ broken = "no"
    /\ (flow = <<>> /\ sender # "open") \/ Room = 0
    /\ IF Over THEN receiver' = "over" /\ UNCHANGED <<buf, index, delivered>>
               ELSE Parse(buf, index)
    /\ UNCHANGED <<loop, sent, flow, sender, broken>>

(* recv() returns -1.  Both loops add it to index; in DealCommand, where    *)
(* len is unsigned, also to an index of 0.                                  *)
RecvError ==
    /\ receiver = "recv" /\ broken = "yes"
    /\ IF index > 0 THEN Parse(buf, index - 1)
       ELSE /\ receiver' = IF loop = "deal" THEN "undefined" ELSE "over"
            /\ UNCHANGED <<buf, index, delivered>>
    /\ UNCHANGED <<loop, sent, flow, sender, broken>>

Receiver == (\E n \in 1..Len(flow) : Recv(n)) \/ RecvNothing \/ RecvError

-----------------------------------------------------------------------------
Next ==
    \/ \E p \in Packets : Send(p) \/ \E n \in 1..(Len(Data(p)) - 1) : Cut(p, n)
    \/ Close \/ Reset
    \/ Receiver

Spec == Init /\ [][Next]_vars

(* The receiver's thread goes on; the sender need not send. *)
FairSpec == Spec /\ WF_vars(Receiver)

-----------------------------------------------------------------------------
(* The packets taken out of the stream are those that were put into it, in  *)
(* order, however recv() cuts the stream, whatever the data looks like and  *)
(* whatever earlier packets have left in the buffer, also when the sender   *)
(* dies within a packet and when the connection breaks.                     *)
(* When the sender's closing ends SendPack, nothing that was sent is        *)
(* missing: packets that came together with the last one have been handled. *)
InOrder ==
    /\ IsPrefix(delivered, sent)
    /\ loop = "all" /\ receiver = "over" /\ broken = "no" =>
           sender # "open" /\ delivered = sent

(* A closed stream comes to its end: the buffer never fills up for good.    *)
StreamEnds == sender = "closed" ~> receiver # "recv"
=============================================================================
