----------------------------- MODULE RemoteSession -----------------------------
(***************************************************************************)
(* One request after another: the client's network thread (SendPacket,     *)
(* threadFunc2, InitSocket and SendPack of RemoteClient/ClientSocket.cpp)  *)
(* and the server's loop (CServerSocket::Run, RemoteCtrl/ServerSocket.h,   *)
(* with CCommand::RunCommand).  A request has a connection of its own.  In *)
(* the mode CSM_AUTOCLOSE the client closes it after the first packet of   *)
(* the answer; otherwise it takes packets until the server closes.         *)
(*                                                                         *)
(* A packet travels as two units, so that recv can return in the middle of *)
(* one; a unit of an answer is the request whose command made the packet.  *)
(* What SendMessage makes the window do is not here (see Download): the    *)
(* window answers, and the network thread goes on.  The box that a failed  *)
(* connect shows is: its loop takes the messages of the thread it is on.   *)
(***************************************************************************)
EXTENDS Integers, Sequences, SequencesExt

CONSTANTS
    MaxRequests,  \* bound: the requests that are posted
    Replies,      \* how many packets a command may answer with
    Faults        \* what may happen: "connect", connect fails although the server
                  \* listens; "send", send fails; "reset", a connection breaks;
                  \* "accept", accept fails; "die", the server's process ends

ASSUME SessionAssumption ==
    /\ MaxRequests \in Nat
    /\ Replies \subseteq Nat
    /\ Faults \subseteq {"connect", "send", "reset", "accept", "die"}

VARIABLES
    posted,     \* the requests posted to the network thread: 1, 2, ..., posted
    auto,       \* the requests posted with CSM_AUTOCLOSE
    cpc,        \* where the network thread is: "get", "connect", "box" (connect has
                \* failed, and AfxMessageBox waits for the user), "send" or "recv"
    cur,        \* the last request taken from the thread's message queue: with
                \* "connect", "send" and "recv" the one SendPack is at
    buf,        \* the first index units of strBuffer
    acks,       \* acks[r]: the packets the window was given for r
    result,     \* result[r]: how r ended: "acked", "closed", "unsent", "refused";
                \* "failed" until the box for it is closed, "lost" in a box
    backlog,    \* the connections nobody has accepted yet
    link,       \* link[r]: the connection of r: "none", "up" or "broken"
    cOpen,      \* the requests whose socket the client has open
    sOpen,      \* the requests whose socket the server has open
    toServer,   \* toServer[r]: the units on their way to the server
    toClient,   \* toClient[r]: the units on their way to the client
    spc,        \* where the server is
    m_client,   \* the connection it serves, 0 for INVALID_SOCKET
    got,        \* the units of the request it has read
    lstPackets, \* the packets it still has to send, each the request that made it
    count,      \* the accepts that have failed
    executed,   \* history: the requests whose command was run, in order
    produced,   \* produced[r]: how many packets the command of r made
    full        \* history: the requests refused for a full backlog

clientVars == <<posted, auto, cpc, cur, buf, acks, result>>
linkVars   == <<backlog, link, cOpen, sOpen, toServer, toClient>>
serverVars == <<spc, m_client, got, lstPackets, count, executed, produced>>
vars == <<clientVars, linkVars, serverVars, full>>

Requests == 1..MaxRequests

TypeOK ==
    /\ posted \in 0..MaxRequests /\ auto \subseteq Requests
    /\ cpc \in {"get", "connect", "box", "send", "recv"} /\ cur \in 0..MaxRequests
    /\ buf \in Seq(Requests)
    /\ acks \in [Requests -> Seq(Requests)]
    /\ result \in [Requests ->
                     {"none", "acked", "closed", "unsent", "refused", "failed", "lost"}]
    /\ backlog \in Seq(Requests)
    /\ link \in [Requests -> {"none", "up", "broken"}]
    /\ cOpen \subseteq Requests /\ sOpen \subseteq Requests
    /\ toServer \in [Requests -> 0..2]
    /\ toClient \in [Requests -> Seq(Requests)]
    /\ spc \in {"accept", "deal", "exec", "send", "close", "returned", "down"}
    /\ m_client \in 0..MaxRequests /\ got \in 0..2
    /\ lstPackets \in Seq(Requests) /\ count \in 0..3
    /\ executed \in Seq(Requests)
    /\ produced \in [Requests -> Nat]
    /\ full \subseteq Requests

Init ==
    /\ posted = 0 /\ auto = {} /\ cpc = "get" /\ cur = 0 /\ buf = <<>>
    /\ acks = [r \in Requests |-> <<>>] /\ result = [r \in Requests |-> "none"]
    /\ backlog = <<>> /\ link = [r \in Requests |-> "none"]
    /\ cOpen = {} /\ sOpen = {}
    /\ toServer = [r \in Requests |-> 0] /\ toClient = [r \in Requests |-> <<>>]
    /\ spc = "accept" /\ m_client = 0 /\ got = 0 /\ lstPackets = <<>> /\ count = 0
    /\ executed = <<>> /\ produced = [r \in Requests |-> 0]
    /\ full = {}

-----------------------------------------------------------------------------
(* The window, or the thread that watches the screen: SendCommandPacket.    *)

SendPacket(autoClose) ==
    /\ posted < MaxRequests
    /\ posted' = posted + 1
    /\ auto' = IF autoClose THEN auto \cup {posted + 1} ELSE auto
    /\ UNCHANGED <<cpc, cur, buf, acks, result, linkVars, serverVars, full>>

-----------------------------------------------------------------------------
(* The network thread. *)

GetMessage ==
    /\ cpc = "get" /\ cur < posted
    /\ cur' = cur + 1 /\ cpc' = "connect" /\ buf' = <<>>
    /\ UNCHANGED <<posted, auto, acks, result, linkVars, serverVars, full>>

(* Slip: a request the server closed without an answer is sent again. *)
EndedOrSentAgain(how) ==
    IF how = "closed" /\ acks[cur] = <<>>
    THEN cpc' = "connect" /\ UNCHANGED result
    ELSE cpc' = "get" /\ result' = [result EXCEPT ![cur] = how]

(* SendPack has ended the request cur. *)
Ended(how) == cpc' = "get" /\ result' = [result EXCEPT ![cur] = how]

(* Slip: the listening socket keeps nothing for accept. *)
ListenNothing == 0

(* listen(m_sock, 1) in CServerSocket::InitSocket. *)
Listen == 1

(* closesocket by the client. *)
CloseMySocket == cOpen \ {cur}

Listening == spc # "down"

Connect ==
    /\ cpc = "connect" /\ Listening /\ Len(backlog) < Listen
    /\ backlog' = Append(backlog, cur)
    /\ link' = [link EXCEPT ![cur] = "up"]
    /\ cOpen' = cOpen \cup {cur} /\ sOpen' = sOpen \cup {cur}
    /\ cpc' = "send"
    /\ UNCHANGED <<posted, auto, cur, buf, acks, result, toServer, toClient,
                   serverVars, full>>

(* connect fails, and AfxMessageBox is called on the network thread.        *)
ConnectFails ==
    /\ cpc = "connect"
    /\ ~Listening \/ Len(backlog) >= Listen \/ "connect" \in Faults
    /\ cpc' = "box" /\ result' = [result EXCEPT ![cur] = "failed"]
    /\ full' = IF Listening /\ Len(backlog) >= Listen THEN full \cup {cur} ELSE full
    /\ UNCHANGED <<posted, auto, cur, buf, acks, linkVars, serverVars>>

(* The box has a message loop, which takes the thread's messages, and has   *)
(* no window to give a request to.                                          *)
BoxTakes ==
    /\ cpc = "box" /\ cur < posted
    /\ cur' = cur + 1
    /\ result' = [result EXCEPT ![cur + 1] = "lost"]
    /\ UNCHANGED <<posted, auto, cpc, buf, acks, linkVars, serverVars, full>>

(* The request whose connect failed, if there is one. *)
Told(r) == IF result[r] = "failed" THEN "refused" ELSE result[r]

(* The user closes the box, which is seen once no message is left: InitSocket *)
(* returns false, and the window is told of the request that failed.        *)
CloseBox ==
    /\ cpc = "box" /\ cur = posted
    /\ cpc' = "get" /\ result' = [r \in Requests |-> Told(r)]
    /\ UNCHANGED <<posted, auto, cur, buf, acks, linkVars, serverVars, full>>

Send ==
    /\ cpc = "send"
    /\ toServer' = IF link[cur] = "up" THEN [toServer EXCEPT ![cur] = 2] ELSE toServer
    /\ cpc' = "recv"
    /\ UNCHANGED <<posted, auto, cur, buf, acks, result, backlog, link, cOpen, sOpen,
                   toClient, serverVars, full>>

SendFails ==
    /\ cpc = "send" /\ ("send" \in Faults \/ link[cur] = "broken")
    /\ cOpen' = CloseMySocket
    /\ Ended("unsent")
    /\ UNCHANGED <<posted, auto, cur, buf, acks, backlog, link, sOpen, toServer,
                   toClient, serverVars, full>>

(* A packet is parsed from the first units of b and shown to the window.    *)
(* Then the connection is closed, or the units are dropped.                 *)
Parse(b) ==
    IF Len(b) >= 2
    THEN /\ acks' = [acks EXCEPT ![cur] = Append(@, b[1])]
         /\ IF cur \in auto
            THEN Ended("acked") /\ cOpen' = CloseMySocket /\ buf' = <<>>
            ELSE buf' = SubSeq(b, 3, Len(b)) /\ UNCHANGED <<cpc, result, cOpen>>
    ELSE buf' = b /\ UNCHANGED <<acks, cpc, result, cOpen>>

(* Nothing has been received and not parsed. *)
BufferEmpty == buf = <<>>

(* recv gave nothing and the buffer is empty: the window is told. *)
TellClosed ==
    /\ BufferEmpty
    /\ Ended("closed") /\ cOpen' = CloseMySocket
    /\ UNCHANGED <<buf, acks>>

RecvData ==
    /\ cpc = "recv" /\ link[cur] = "up"
    /\ \E n \in 1..Len(toClient[cur]) :
          /\ Parse(buf \o SubSeq(toClient[cur], 1, n))
          /\ toClient' = [toClient EXCEPT ![cur] = SubSeq(@, n + 1, Len(@))]
    /\ UNCHANGED <<posted, auto, cur, backlog, link, sOpen, toServer, serverVars, full>>

(* recv returns 0.  With half a packet in the buffer it is called again.    *)
RecvEnd ==
    /\ cpc = "recv" /\ link[cur] = "up" /\ toClient[cur] = <<>> /\ cur \notin sOpen
    /\ TellClosed \/ (~BufferEmpty /\ Parse(buf))
    /\ UNCHANGED <<posted, auto, cur, backlog, link, sOpen, toServer, toClient,
                   serverVars, full>>

(* recv returns -1, which is added to index. *)
RecvError ==
    /\ cpc = "recv" /\ link[cur] = "broken"
    /\ TellClosed \/ (~BufferEmpty /\ Parse(Front(buf)))
    /\ UNCHANGED <<posted, auto, cur, backlog, link, sOpen, toServer, toClient,
                   serverVars, full>>

SendPack ==
    \/ Connect \/ ConnectFails \/ BoxTakes \/ Send \/ SendFails
    \/ RecvData \/ RecvEnd \/ RecvError

-----------------------------------------------------------------------------
(* The server: CServerSocket::Run. *)

AcceptClient ==
    /\ spc = "accept" /\ backlog # <<>>
    /\ m_client' = Head(backlog) /\ backlog' = Tail(backlog)
    /\ spc' = "deal" /\ got' = 0
    /\ UNCHANGED <<clientVars, link, cOpen, sOpen, toServer, toClient, lstPackets, count,
                   executed, produced, full>>

(* Slip: one failure more. *)
GiveUpLate == count > 3

(* The fourth failure since Run began ends it. *)
GiveUp == count >= 3

(* accept fails.  DealCommand and CloseClient have no client to work with.  *)
AcceptFails ==
    /\ spc = "accept" /\ "accept" \in Faults
    /\ IF GiveUp THEN spc' = "returned" /\ UNCHANGED count
                     ELSE count' = count + 1 /\ UNCHANGED spc
    /\ UNCHANGED <<clientVars, linkVars, m_client, got, lstPackets, executed, produced, full>>

(* DealCommand: recv until there is a whole packet. *)
DealRecv ==
    /\ spc = "deal"
    /\ \E n \in 1..toServer[m_client] :
          /\ toServer' = [toServer EXCEPT ![m_client] = @ - n]
          /\ got' = got + n
          /\ spc' = IF got + n = 2 THEN "exec" ELSE "deal"
    /\ UNCHANGED <<clientVars, backlog, link, cOpen, sOpen, toClient, m_client, lstPackets,
                   count, executed, produced, full>>

DealEnd ==
    /\ spc = "deal" /\ toServer[m_client] = 0
    /\ link[m_client] = "up" /\ m_client \notin cOpen
    /\ spc' = "close"
    /\ UNCHANGED <<clientVars, linkVars, m_client, got, lstPackets, count, executed,
                   produced, full>>

(* The process ends: its sockets are closed, and what nobody accepted is    *)
(* reset.                                                                   *)
ProcessEnds ==
    /\ spc' = "down" /\ m_client' = 0 /\ backlog' = <<>> /\ sOpen' = {}
    /\ link' = [r \in Requests |-> IF r \in ToSet(backlog) THEN "broken" ELSE link[r]]

(* recv returns -1.  len is unsigned, so that this is not seen: the buffer  *)
(* is parsed as if it had no end.  That is an access violation, or what has *)
(* arrived and the zeroes behind it are a packet.                           *)
DealError ==
    /\ spc = "deal" /\ link[m_client] = "broken"
    /\ \/ ProcessEnds
       \/ got > 0 /\ spc' = "exec" /\ UNCHANGED <<m_client, backlog, sOpen, link>>
    /\ UNCHANGED <<clientVars, cOpen, toServer, toClient, got, lstPackets, count,
                   executed, produced, full>>

(* RunCommand fills lstPackets. *)
RunCommand ==
    /\ spc = "exec"
    /\ \E n \in Replies :
          /\ lstPackets' = lstPackets \o [i \in 1..n |-> m_client]
          /\ produced' = [produced EXCEPT ![m_client] = n]
    /\ executed' = Append(executed, m_client)
    /\ spc' = "send"
    /\ UNCHANGED <<clientVars, linkVars, m_client, got, count, full>>

(* What the client will receive once u was sent. *)
Delivered(u) ==
    toClient' = IF m_client \in cOpen /\ link[m_client] = "up"
                THEN [toClient EXCEPT ![m_client] = @ \o u] ELSE toClient

(* Slip: one packet per command. *)
SentAllEarly == Len(lstPackets) <= 1

SentAll == lstPackets = <<>>

(* Send; whether it succeeds is not looked at. *)
SendFront ==
    /\ spc = "send" /\ ~SentAll
    /\ Delivered(<<Head(lstPackets), Head(lstPackets)>>)
    /\ lstPackets' = Tail(lstPackets)
    /\ UNCHANGED <<clientVars, backlog, link, cOpen, sOpen, toServer, spc, m_client, got,
                   count, executed, produced, full>>

SendEnd ==
    /\ spc = "send" /\ SentAll
    /\ spc' = "close"
    /\ UNCHANGED <<clientVars, linkVars, m_client, got, lstPackets, count, executed,
                   produced, full>>

(* Slip: the connection is left open. *)
CloseNothing == sOpen

CloseSocket == sOpen \ {m_client}

CloseClient ==
    /\ spc = "close"
    /\ sOpen' = CloseSocket
    /\ m_client' = 0 /\ spc' = "accept"
    /\ UNCHANGED <<clientVars, backlog, link, cOpen, toServer, toClient, got, lstPackets,
                   count, executed, produced, full>>

Run ==
    \/ AcceptClient \/ DealRecv \/ DealEnd \/ DealError
    \/ RunCommand \/ SendFront \/ SendEnd \/ CloseClient

-----------------------------------------------------------------------------
(* What goes wrong outside. *)

(* A connection breaks; what is on its way is lost. *)
Break(r) ==
    /\ "reset" \in Faults /\ link[r] = "up"
    /\ link' = [link EXCEPT ![r] = "broken"]
    /\ toServer' = [toServer EXCEPT ![r] = 0]
    /\ toClient' = [toClient EXCEPT ![r] = <<>>]
    /\ UNCHANGED <<clientVars, backlog, cOpen, sOpen, serverVars, full>>

(* The server's process is ended, maybe in the middle of a packet, or Run   *)
(* has returned and it ends by itself.                                      *)
Die ==
    /\ spc = "returned" \/ ("die" \in Faults /\ spc # "down")
    /\ ProcessEnds
    /\ \/ UNCHANGED toClient
       \/ spc = "send" /\ lstPackets # <<>> /\ Delivered(<<Head(lstPackets)>>)
    /\ UNCHANGED <<clientVars, cOpen, toServer, got, lstPackets, count, executed,
                   produced, full>>

-----------------------------------------------------------------------------
Next ==
    \/ \E a \in BOOLEAN : SendPacket(a)
    \/ GetMessage \/ SendPack \/ CloseBox
    \/ Run \/ AcceptFails
    \/ (\E r \in Requests : Break(r)) \/ Die

Spec == Init /\ [][Next]_vars

(* The network thread and the server go on; the user need not click, nor     *)
(* close a box.                                                             *)
Fairness == WF_vars(GetMessage \/ SendPack) /\ WF_vars(Run)

FairSpec == Spec /\ Fairness

-----------------------------------------------------------------------------
(* Commands are run in the order in which they were posted, each at most    *)
(* once, although the client goes on to the next connection while the       *)
(* server is still busy with the last one, and whatever breaks.             *)
InPostedOrder == \A i, j \in DOMAIN executed : i < j => executed[i] < executed[j]

(* The window is given packets that the command of this very request made,  *)
(* although lstPackets outlives the command, and no more than it made.      *)
(* When the server's closing ends a request, the connection having held, it *)
(* has all of them: those that are received with the end, and still in the  *)
(* buffer when recv first returns 0, too.                                   *)
OwnAnswers ==
    \A r \in Requests :
        /\ Len(acks[r]) <= produced[r] /\ ToSet(acks[r]) \subseteq {r}
        /\ result[r] = "closed" /\ link[r] = "up" /\ spc # "down" =>
               Len(acks[r]) = produced[r]

(* A backlog of one is enough: a connection is refused for a full one only  *)
(* after a request that the client gave up because its connection failed.   *)
BacklogSuffices ==
    \A r \in full :
        \E k \in 1..(r - 1) : link[k] = "broken" \/ result[k] = "unsent"

(* Every request ends: the peer's closing, or an error, is noticed          *)
(* (ClientSocket.cpp:275), while the server's process lives and accepts,    *)
(* and if the user closes every box about a failed connect (line 98).  The  *)
(* requests posted behind such a one are the exception: the box takes them, *)
(* they are never sent, and the window is told nothing of them.  Once the   *)
(* server has ended, the end of the stream may come in the middle of a      *)
(* packet, and then a request need not end: recv returns 0 for ever, while  *)
(* index is not 0.  And the server comes back for the next client, whatever *)
(* the user does.                                                           *)
Ends(r) == result[r] \in {"acked", "closed", "unsent", "refused"}

LostBehind(r) == result[r] = "lost" /\ \E k \in 1..(r - 1) : result[k] = "refused"

BoxesAreClosed == []<>(cpc # "box")

EveryRequestEnds ==
    /\ BoxesAreClosed =>
          \A r \in Requests :
             r <= posted ~> Ends(r) \/ LostBehind(r) \/ spc \in {"returned", "down"}
    /\ spc \in {"deal", "exec", "send", "close"} ~> spc \in {"accept", "down"}
=============================================================================
