-------------------------- MODULE RemoteSessionProofs --------------------------
(***************************************************************************)
(* Proofs about RemoteSession, for any number of requests, any answers and *)
(* any faults.                                                             *)
(*                                                                         *)
(* The argument about order: what has been executed, what is being served, *)
(* what is in the backlog and what is being connected are, in this order,  *)
(* growing numbers.  The argument about answers: the packets the window    *)
(* was given, those under way in either direction of the stream and those  *)
(* still to be sent are no more than the command made, and as many while   *)
(* the connection holds and the client has not given it up.  The server    *)
(* closes a connection only when nothing is left to be sent on it.  The    *)
(* argument about the backlog: while the connection of an earlier request  *)
(* is in it, that request has ended; one that ended because the server had *)
(* closed is not in the backlog, so the client had given it up.            *)
(***************************************************************************)
EXTENDS RemoteSession, SequenceTheorems, TLAPS

Service == {"deal", "exec", "send", "close"}

Results == {"none", "acked", "closed", "unsent", "refused", "failed", "lost"}

(* Where the two programs are. *)
Places ==
    /\ cur <= posted /\ (cpc # "get" => cur # 0)
    /\ buf # <<>> => cpc = "recv"
    /\ spc \in Service => m_client # 0
    /\ \A r \in Requests :
          r > cur \/ (r = cur /\ cpc \in {"connect", "send"}) => toServer[r] = 0
    /\ spc = "deal" => /\ got + toServer[m_client] <= 2
                       /\ m_client = cur /\ cpc = "send" => got = 0

(* The requests that the client has connected, or given up.                 *)
Begun == {r \in Requests : r <= cur /\ (cpc = "connect" => r < cur)}

Order ==
    /\ InPostedOrder
    /\ \A i, j \in DOMAIN backlog : i < j => backlog[i] < backlog[j]
    /\ \A i \in DOMAIN executed : \A j \in DOMAIN backlog : executed[i] < backlog[j]
    /\ \A i \in DOMAIN executed : executed[i] \in Begun
    /\ \A j \in DOMAIN backlog : backlog[j] \in Begun
    /\ spc \in {"deal", "exec"} => \A i \in DOMAIN executed : executed[i] < m_client
    /\ spc \in Service => m_client \in Begun /\ \A j \in DOMAIN backlog : m_client < backlog[j]

IInv1 == TypeOK /\ Places /\ Order

-----------------------------------------------------------------------------
LEMMA OneMore ==
  ASSUME NEW S, NEW s \in Seq(S), NEW e \in S
  PROVE  /\ Append(s, e) \in Seq(S)
         /\ Len(Append(s, e)) = Len(s) + 1
         /\ DOMAIN Append(s, e) = 1..(Len(s) + 1)
         /\ DOMAIN s = 1..Len(s) /\ Len(s) \in Nat
         /\ \A i \in DOMAIN s : Append(s, e)[i] = s[i]
         /\ Append(s, e)[Len(s) + 1] = e
BY AppendProperties, LenProperties

LEMMA OneLess ==
  ASSUME NEW S, NEW s \in Seq(S), s # <<>>
  PROVE  /\ Tail(s) \in Seq(S)
         /\ Head(s) = s[1] /\ Head(s) \in S
         /\ Len(s) \in Nat \ {0} /\ Len(Tail(s)) = Len(s) - 1
         /\ DOMAIN s = 1..Len(s)
         /\ DOMAIN Tail(s) = 1..(Len(s) - 1)
         /\ \A i \in 1..(Len(s) - 1) : Tail(s)[i] = s[i + 1]
BY HeadTailProperties, LenProperties, EmptySeq

(* The first n, and the rest. *)
LEMMA Split ==
  ASSUME NEW S, NEW s \in Seq(S), NEW n \in 1..Len(s)
  PROVE  /\ SubSeq(s, 1, n) \in Seq(S) /\ Len(SubSeq(s, 1, n)) = n
         /\ SubSeq(s, n + 1, Len(s)) \in Seq(S)
         /\ Len(SubSeq(s, n + 1, Len(s))) = Len(s) - n
<1>1. Len(s) \in Nat /\ \A i \in 1..Len(s) : s[i] \in S
  BY LenProperties, ElementOfSeq
<1>2. n \in Int /\ n + 1 \in Int /\ 1 \in Int /\ Len(s) \in Int
  BY <1>1
<1>3. \A i \in 1..n : s[i] \in S
  BY <1>1
<1>4. \A i \in (n + 1)..Len(s) : s[i] \in S
  BY <1>1
<1>5. SubSeq(s, 1, n) \in Seq(S) /\ Len(SubSeq(s, 1, n)) = n
  BY <1>1, <1>2, <1>3, SubSeqProperties
<1>6. /\ SubSeq(s, n + 1, Len(s)) \in Seq(S)
      /\ Len(SubSeq(s, n + 1, Len(s))) = IF n + 1 <= Len(s) THEN Len(s) - (n + 1) + 1 ELSE 0
  BY <1>2, <1>4, SubSeqProperties
<1> QED BY <1>1, <1>5, <1>6

LEMMA FrontOf ==
  ASSUME NEW S, NEW s \in Seq(S), s # <<>>
  PROVE  Front(s) \in Seq(S) /\ Len(Front(s)) = Len(s) - 1
<1>1. Len(s) \in Nat \ {0} /\ \A i \in 1..Len(s) : s[i] \in S
  BY EmptySeq, LenProperties, ElementOfSeq
<1>2. 1 \in Int /\ Len(s) - 1 \in Int /\ \A i \in 1..(Len(s) - 1) : s[i] \in S
  BY <1>1
<1>3. /\ SubSeq(s, 1, Len(s) - 1) \in Seq(S)
      /\ Len(SubSeq(s, 1, Len(s) - 1)) = IF 1 <= Len(s) - 1 THEN (Len(s) - 1) - 1 + 1 ELSE 0
  BY <1>2, SubSeqProperties
<1>4. Front(s) = SubSeq(s, 1, Len(s) - 1)
  BY DEF Front
<1>5. (IF 1 <= Len(s) - 1 THEN (Len(s) - 1) - 1 + 1 ELSE 0) = Len(s) - 1
  <2>1. \A l \in Nat \ {0} : (IF 1 <= l - 1 THEN (l - 1) - 1 + 1 ELSE 0) = l - 1
    OBVIOUS
  <2> QED BY <1>1, <2>1, Zenon
<1> QED BY <1>3, <1>4, <1>5

(* What Parse does with units of S: nothing but keep them, or it takes a    *)
(* packet of two, and keeps the rest or, where it closes, drops it.         *)
LEMMA ParseDoes ==
  ASSUME NEW S, NEW b \in Seq(S), Parse(b)
  PROVE  /\ buf' \in Seq(S)
         /\ \/ /\ Len(b) < 2 /\ buf' = b /\ UNCHANGED <<acks, cpc, result, cOpen>>
            \/ /\ Len(b) >= 2 /\ b[1] \in S
               /\ acks' = [acks EXCEPT ![cur] = Append(@, b[1])]
               /\ \/ /\ buf' = <<>> /\ cpc' = "get" /\ cOpen' = cOpen \ {cur}
                     /\ result' = [result EXCEPT ![cur] = "acked"]
                  \/ /\ Len(buf') = Len(b) - 2 /\ UNCHANGED <<cpc, result, cOpen>>
<1>1. Len(b) \in Nat
  BY LenProperties
<1>2. CASE Len(b) >= 2
  <2>1. b[1] \in S
    BY <1>1, <1>2, ElementOfSeq
  <2>2. SubSeq(b, 3, Len(b)) \in Seq(S) /\ Len(SubSeq(b, 3, Len(b))) = Len(b) - 2
    <3>1. 2 \in 1..Len(b) /\ 2 + 1 = 3
      BY <1>1, <1>2
    <3>2. SubSeq(b, 2 + 1, Len(b)) \in Seq(S) /\ Len(SubSeq(b, 2 + 1, Len(b))) = Len(b) - 2
      BY <3>1, Split
    <3> QED BY <3>1, <3>2
  <2>3. <<>> \in Seq(S)
    BY EmptySeq
  <2> QED BY <1>2, <2>1, <2>2, <2>3 DEF Parse, Ended, CloseMySocket
<1>3. CASE Len(b) < 2
  BY <1>1, <1>3 DEF Parse
<1> QED BY <1>1, <1>2, <1>3

(* The three ways in which recv returns. *)
LEMMA RecvDoes ==
  ASSUME NEW S, cur \in Requests, buf \in Seq(S), toClient[cur] \in Seq(S),
         DOMAIN toClient = Requests,
         RecvData \/ RecvEnd \/ RecvError
  PROVE  \/ /\ TellClosed /\ toClient' = toClient /\ link[cur] = "up"
            /\ cur \notin sOpen /\ toClient[cur] = <<>>
         \/ TellClosed /\ toClient' = toClient /\ link[cur] = "broken"
         \/ \E b \in Seq(S) :
               /\ Parse(b)
               /\ \A r \in Requests \ {cur} : toClient'[r] = toClient[r]
               /\ DOMAIN toClient' = Requests
               /\ toClient'[cur] \in Seq(S)
               /\ Len(b) + Len(toClient'[cur]) <= Len(buf) + Len(toClient[cur])
               /\ link[cur] = "up" =>
                     Len(b) + Len(toClient'[cur]) = Len(buf) + Len(toClient[cur])
<1>0. Len(buf) \in Nat /\ Len(toClient[cur]) \in Nat
  BY LenProperties
<1>1. CASE RecvData
  <2>1. PICK n \in 1..Len(toClient[cur]) :
           /\ Parse(buf \o SubSeq(toClient[cur], 1, n))
           /\ toClient' = [toClient EXCEPT ![cur] = SubSeq(@, n + 1, Len(@))]
    BY <1>1 DEF RecvData
  <2> DEFINE b == buf \o SubSeq(toClient[cur], 1, n)
  <2>2. SubSeq(toClient[cur], 1, n) \in Seq(S) /\ Len(SubSeq(toClient[cur], 1, n)) = n
    BY Split
  <2>3. b \in Seq(S) /\ Len(b) = Len(buf) + n
    BY <2>2, ConcatProperties
  <2>4. /\ toClient'[cur] = SubSeq(toClient[cur], n + 1, Len(toClient[cur]))
        /\ \A r \in Requests \ {cur} : toClient'[r] = toClient[r]
        /\ DOMAIN toClient' = Requests
    BY <2>1
  <2>5. toClient'[cur] \in Seq(S) /\ Len(toClient'[cur]) = Len(toClient[cur]) - n
    BY <2>4, Split
  <2>6. Parse(b)
    BY <2>1
  <2> HIDE DEF b
  <2>7. Len(b) + Len(toClient'[cur]) = Len(buf) + Len(toClient[cur])
    BY <1>0, <2>3, <2>5
  <2>8. Len(b) + Len(toClient'[cur]) <= Len(buf) + Len(toClient[cur])
    BY <1>0, <2>7
  <2> QED BY <2>3, <2>4, <2>5, <2>6, <2>7, <2>8, Zenon
<1>2. CASE RecvEnd
  BY <1>0, <1>2 DEF RecvEnd
<1>3. CASE RecvError
  <2>1. CASE TellClosed
    BY <1>3, <2>1 DEF RecvError
  <2>2. CASE ~BufferEmpty /\ Parse(Front(buf))
    <3>1. Front(buf) \in Seq(S) /\ Len(Front(buf)) = Len(buf) - 1
      BY <2>2, FrontOf DEF BufferEmpty
    <3> QED BY <1>0, <1>3, <2>2, <3>1 DEF RecvError
  <2> QED BY <1>3, <2>1, <2>2 DEF RecvError
<1> QED BY <1>1, <1>2, <1>3

-----------------------------------------------------------------------------
(* The types, and where the two programs are. *)

LEMMA RecvTypes ==
  ASSUME TypeOK, Places, RecvData \/ RecvEnd \/ RecvError
  PROVE  /\ cpc = "recv" /\ cur \in Requests
         /\ buf' \in Seq(Requests)
         /\ acks' \in [Requests -> Seq(Requests)]
         /\ cpc' \in {"get", "recv"} /\ (buf' # <<>> => cpc' = "recv")
         /\ result' \in [Requests -> Results]
         /\ cOpen' \subseteq Requests
         /\ toClient' \in [Requests -> Seq(Requests)]
         /\ UNCHANGED <<posted, auto, cur, backlog, link, sOpen, toServer, serverVars, full>>
<1>1. /\ cpc = "recv" /\ cur \in Requests
      /\ UNCHANGED <<posted, auto, cur, backlog, link, sOpen, toServer, serverVars, full>>
  BY SessionAssumption DEF RecvData, RecvEnd, RecvError, TypeOK, Places, Requests
<1>2. DOMAIN toClient = Requests /\ buf \in Seq(Requests) /\ toClient[cur] \in Seq(Requests)
  BY <1>1 DEF TypeOK
<1>3. CASE TellClosed /\ toClient' = toClient
  BY <1>1, <1>3 DEF TellClosed, Ended, CloseMySocket, BufferEmpty, TypeOK, Results
<1>4. ASSUME NEW b \in Seq(Requests), Parse(b),
             \A r \in Requests \ {cur} : toClient'[r] = toClient[r],
             DOMAIN toClient' = Requests, toClient'[cur] \in Seq(Requests),
             toClient' = [r \in Requests |-> toClient'[r]]
      PROVE  /\ buf' \in Seq(Requests)
             /\ acks' \in [Requests -> Seq(Requests)]
             /\ cpc' \in {"get", "recv"} /\ (buf' # <<>> => cpc' = "recv")
             /\ result' \in [Requests -> Results]
             /\ cOpen' \subseteq Requests
             /\ toClient' \in [Requests -> Seq(Requests)]
  <2>1. toClient' \in [Requests -> Seq(Requests)]
    BY <1>4 DEF TypeOK
  <2>2. buf' \in Seq(Requests)
    BY <1>4, ParseDoes
  <2>3. CASE UNCHANGED <<acks, cpc, result, cOpen>>
    BY <1>1, <2>1, <2>2, <2>3 DEF TypeOK, Results
  <2>4. CASE /\ b[1] \in Requests /\ acks' = [acks EXCEPT ![cur] = Append(@, b[1])]
             /\ \/ /\ buf' = <<>> /\ cpc' = "get" /\ cOpen' = cOpen \ {cur}
                   /\ result' = [result EXCEPT ![cur] = "acked"]
                \/ UNCHANGED <<cpc, result, cOpen>>
    <3>1. Append(acks[cur], b[1]) \in Seq(Requests)
      BY <1>1, <2>4, OneMore DEF TypeOK
    <3>2. acks' \in [Requests -> Seq(Requests)]
      BY <2>4, <3>1 DEF TypeOK
    <3> QED BY <1>1, <2>1, <2>2, <2>4, <3>2 DEF TypeOK, Results
  <2> QED BY <1>4, <2>3, <2>4, ParseDoes
<1>5. \/ TellClosed /\ toClient' = toClient
      \/ \E b \in Seq(Requests) :
            /\ Parse(b) /\ \A r \in Requests \ {cur} : toClient'[r] = toClient[r]
            /\ DOMAIN toClient' = Requests /\ toClient'[cur] \in Seq(Requests)
  BY <1>1, <1>2, RecvDoes
<1>6. toClient' = [r \in Requests |-> toClient'[r]]
  BY DEF RecvData, RecvEnd, RecvError, TypeOK
<1> QED BY <1>1, <1>3, <1>4, <1>5, <1>6

-----------------------------------------------------------------------------
(* The order. *)

LEMMA OrderKept ==
  ASSUME Order, backlog' \in {backlog, <<>>}, UNCHANGED <<executed, cur>>,
         cpc' = "connect" => cpc = "connect",
         spc' \in Service => spc \in Service /\ m_client' = m_client,
         spc' \in {"deal", "exec"} => spc \in {"deal", "exec"}
  PROVE  Order'
<1>1. DOMAIN backlog' \subseteq DOMAIN backlog /\ \A j \in DOMAIN backlog' : backlog'[j] = backlog[j]
  OBVIOUS
<1>2. Begun \subseteq Begun'
  BY DEF Begun
<1>3. UNCHANGED executed
  OBVIOUS
<1> QED BY <1>1, <1>2, <1>3 DEF Order, InPostedOrder, Service

LEMMA OrderGet ==
  ASSUME TypeOK, Order, GetMessage \/ BoxTakes
  PROVE  Order'
<1>1. Begun \subseteq Begun'
  BY DEF Begun, GetMessage, BoxTakes, TypeOK, Requests
<1>2. UNCHANGED <<executed, backlog, spc, m_client>>
  BY DEF GetMessage, BoxTakes, linkVars, serverVars
<1> QED BY <1>1, <1>2 DEF Order, InPostedOrder

LEMMA OrderConnect ==
  ASSUME TypeOK, Places, Order, Connect
  PROVE  Order'
<1>1. /\ cur \in Requests /\ cpc = "connect" /\ cpc' = "send"
      /\ UNCHANGED <<executed, cur, spc, m_client>> /\ backlog' = Append(backlog, cur)
  BY SessionAssumption DEF Connect, serverVars, Places, TypeOK, Requests
<1>2. /\ DOMAIN backlog' = 1..(Len(backlog) + 1) /\ DOMAIN backlog = 1..Len(backlog)
      /\ Len(backlog) \in Nat
      /\ \A i \in DOMAIN backlog : backlog'[i] = backlog[i]
      /\ backlog'[Len(backlog) + 1] = cur
  BY <1>1, OneMore DEF TypeOK
<1>3. Begun \subseteq Begun' /\ \A r \in Begun : r < cur
  BY <1>1 DEF Begun
<1>4. cur' \in Begun'
  BY <1>1 DEF Begun, Requests
<1>5. \A j \in DOMAIN backlog' : backlog'[j] = cur \/ (j \in DOMAIN backlog /\ backlog'[j] = backlog[j])
  BY <1>2
<1>6. \A i, j \in DOMAIN backlog' : i < j => backlog'[i] < backlog'[j]
  <2> SUFFICES ASSUME NEW i \in DOMAIN backlog', NEW j \in DOMAIN backlog', i < j
               PROVE  backlog'[i] < backlog'[j]
    OBVIOUS
  <2>1. i \in DOMAIN backlog /\ backlog'[i] = backlog[i]
    BY <1>2
  <2>2. CASE j \in DOMAIN backlog
    BY <1>2, <2>1, <2>2 DEF Order
  <2>3. CASE j = Len(backlog) + 1
    BY <1>2, <1>3, <2>1, <2>3 DEF Order
  <2> QED BY <1>2, <2>2, <2>3
<1>7. \A i \in DOMAIN executed : \A j \in DOMAIN backlog' : executed[i] < backlog'[j]
  BY <1>3, <1>5 DEF Order
<1>8. spc \in Service => \A j \in DOMAIN backlog' : m_client < backlog'[j]
  BY <1>3, <1>5 DEF Order
<1>9. \A j \in DOMAIN backlog' : backlog'[j] \in Begun'
  BY <1>1, <1>3, <1>4, <1>5 DEF Order
<1>10. (\A i \in DOMAIN executed : executed'[i] \in Begun') /\ (spc \in Service => m_client' \in Begun')
  BY <1>1, <1>3 DEF Order
<1> QED BY <1>1, <1>6, <1>7, <1>8, <1>9, <1>10 DEF Order, InPostedOrder, Service

LEMMA OrderAccept ==
  ASSUME TypeOK, Order, AcceptClient
  PROVE  Order'
<1>1. /\ m_client' = Head(backlog) /\ backlog' = Tail(backlog) /\ backlog # <<>>
      /\ spc' = "deal" /\ UNCHANGED <<executed, cur, cpc>>
  BY DEF AcceptClient, clientVars
<1>2. /\ m_client' = backlog[1] /\ 1 \in DOMAIN backlog
      /\ Len(backlog) \in Nat \ {0} /\ DOMAIN backlog = 1..Len(backlog)
      /\ DOMAIN backlog' = 1..(Len(backlog) - 1)
      /\ \A j \in DOMAIN backlog' : j + 1 \in DOMAIN backlog /\ backlog'[j] = backlog[j + 1]
  BY <1>1, OneLess DEF TypeOK
<1>3. Begun' = Begun
  BY <1>1 DEF Begun
<1>4. \A i, j \in DOMAIN backlog' : i < j => backlog'[i] < backlog'[j]
  <2> SUFFICES ASSUME NEW i \in DOMAIN backlog', NEW j \in DOMAIN backlog', i < j
               PROVE  backlog'[i] < backlog'[j]
    OBVIOUS
  <2>1. i + 1 < j + 1
    BY <1>2
  <2> QED BY <1>2, <2>1 DEF Order
<1>5. \A j \in DOMAIN backlog' : m_client' < backlog'[j]
  <2> SUFFICES ASSUME NEW j \in DOMAIN backlog' PROVE backlog[1] < backlog[j + 1]
    BY <1>2
  <2>1. 1 < j + 1 /\ j + 1 \in DOMAIN backlog
    BY <1>2
  <2> QED BY <1>2, <2>1 DEF Order
<1>6. \A i \in DOMAIN executed : executed[i] < m_client' /\ executed[i] \in Begun
  BY <1>2 DEF Order
<1>7. \A i \in DOMAIN executed : \A j \in DOMAIN backlog' : executed[i] < backlog'[j]
  BY <1>2 DEF Order
<1>8. m_client' \in Begun /\ \A j \in DOMAIN backlog' : backlog'[j] \in Begun
  BY <1>2 DEF Order
<1>9. /\ InPostedOrder'
      /\ \A j \in DOMAIN backlog' : backlog'[j] \in Begun'
      /\ \A i \in DOMAIN executed : executed'[i] \in Begun'
      /\ m_client' \in Begun'
  BY <1>1, <1>3, <1>6, <1>8 DEF Order, InPostedOrder
<1> QED BY <1>1, <1>4, <1>5, <1>6, <1>7, <1>9 DEF Order, InPostedOrder

LEMMA OrderRun ==
  ASSUME TypeOK, Order, RunCommand, m_client \in Requests
  PROVE  Order'
<1>1. /\ spc = "exec" /\ spc' = "send" /\ executed' = Append(executed, m_client)
      /\ UNCHANGED <<backlog, cur, cpc, m_client>>
  BY DEF RunCommand, clientVars, linkVars
<1>2. /\ DOMAIN executed' = 1..(Len(executed) + 1) /\ DOMAIN executed = 1..Len(executed)
      /\ Len(executed) \in Nat
      /\ \A i \in DOMAIN executed : executed'[i] = executed[i]
      /\ executed'[Len(executed) + 1] = m_client
  BY <1>1, OneMore DEF TypeOK
<1>3. Begun' = Begun
  BY <1>1 DEF Begun
<1>4. \A i \in DOMAIN executed' :
         executed'[i] = m_client \/ (i \in DOMAIN executed /\ executed'[i] = executed[i])
  BY <1>2
<1>5. InPostedOrder'
  <2> SUFFICES ASSUME NEW i \in DOMAIN executed', NEW j \in DOMAIN executed', i < j
               PROVE  executed'[i] < executed'[j]
    BY DEF InPostedOrder
  <2>1. i \in DOMAIN executed /\ executed'[i] = executed[i]
    BY <1>2
  <2>2. CASE j \in DOMAIN executed
    BY <1>2, <2>1, <2>2 DEF Order, InPostedOrder
  <2>3. CASE j = Len(executed) + 1
    BY <1>1, <1>2, <2>1, <2>3 DEF Order
  <2> QED BY <1>2, <2>2, <2>3
<1>6. \A i \in DOMAIN executed' : \A j \in DOMAIN backlog : executed'[i] < backlog[j]
  BY <1>1, <1>4 DEF Order, Service
<1>7. \A i \in DOMAIN executed' : executed'[i] \in Begun
  BY <1>1, <1>4 DEF Order, Service
<1>8. m_client \in Begun /\ \A j \in DOMAIN backlog : m_client < backlog[j] /\ backlog[j] \in Begun
  BY <1>1 DEF Order, Service
<1>9. \A i, j \in DOMAIN backlog : i < j => backlog[i] < backlog[j]
  BY DEF Order
<1>10. m_client' \in Begun' /\ \A i \in DOMAIN executed' : executed'[i] \in Begun'
  BY <1>1, <1>3, <1>7, <1>8
<1>11. \A j \in DOMAIN backlog' : backlog'[j] \in Begun'
  BY <1>1, <1>3, <1>8
<1> QED BY <1>1, <1>5, <1>6, <1>8, <1>9, <1>10, <1>11 DEF Order

-----------------------------------------------------------------------------
(* One lemma for each process. *)

LEMMA ClientStep ==
  ASSUME IInv1,
         \/ (\E a \in BOOLEAN : SendPacket(a)) \/ GetMessage \/ ConnectFails
         \/ BoxTakes \/ CloseBox \/ Send \/ SendFails
  PROVE  IInv1'
<1> USE SessionAssumption
<1>1. CASE \E a \in BOOLEAN : SendPacket(a)
  <2>1. /\ posted' = posted + 1 /\ posted' \in 0..MaxRequests /\ auto' \subseteq Requests
        /\ UNCHANGED <<cpc, cur, buf, acks, result, linkVars, serverVars, full>>
    BY <1>1 DEF SendPacket, IInv1, TypeOK, Requests
  <2>2. TypeOK'
    BY <2>1 DEF IInv1, TypeOK, linkVars, serverVars
  <2>3. Places'
    BY <2>1 DEF IInv1, TypeOK, Places, linkVars, serverVars
  <2>4. Order'
    BY <2>1, OrderKept DEF IInv1, linkVars, serverVars
  <2> QED BY <2>2, <2>3, <2>4 DEF IInv1
<1>2. CASE GetMessage
  <2>1. /\ cur' = cur + 1 /\ cur < posted /\ cpc' = "connect" /\ buf' = <<>>
        /\ UNCHANGED <<posted, auto, acks, result, linkVars, serverVars, full>>
    BY <1>2 DEF GetMessage
  <2>2. TypeOK'
    <3>1. <<>> \in Seq(Requests)
      BY EmptySeq
    <3> QED BY <2>1, <3>1 DEF IInv1, TypeOK, linkVars, serverVars
  <2>3. Places'
    <3>1. cur' <= posted' /\ cur' # 0 /\ buf' = <<>>
      BY <2>1 DEF IInv1, TypeOK
    <3>2. \A r \in Requests : r >= cur' => toServer'[r] = 0
      BY <2>1 DEF IInv1, TypeOK, Places, linkVars, Requests
    <3>3. spc' \in Service => m_client' # 0
      BY <2>1 DEF IInv1, Places, serverVars
    <3>4. spc' = "deal" => got' + toServer'[m_client'] <= 2
      BY <2>1 DEF IInv1, Places, serverVars, linkVars
    <3> QED BY <2>1, <3>1, <3>2, <3>3, <3>4 DEF Places, Requests, IInv1, TypeOK
  <2>4. Order'
    BY <1>2, OrderGet DEF IInv1
  <2> QED BY <2>2, <2>3, <2>4 DEF IInv1
<1>3. CASE ConnectFails
  <2>1. /\ cpc = "connect" /\ cpc' = "box" /\ result' = [result EXCEPT ![cur] = "failed"]
        /\ full' \in {full, full \cup {cur}} /\ cur \in Requests
        /\ UNCHANGED <<posted, auto, cur, buf, acks, linkVars, serverVars>>
    BY <1>3 DEF ConnectFails, IInv1, TypeOK, Places, Requests
  <2>2. TypeOK'
    BY <2>1 DEF IInv1, TypeOK, linkVars, serverVars
  <2>3. Places'
    BY <2>1 DEF IInv1, TypeOK, Places, linkVars, serverVars
  <2>4. Order'
    BY <2>1, OrderKept DEF IInv1, linkVars, serverVars
  <2> QED BY <2>2, <2>3, <2>4 DEF IInv1
<1>4. CASE Send
  <2>1. /\ cpc = "send" /\ cpc' = "recv" /\ cur \in Requests
        /\ toServer' = IF link[cur] = "up" THEN [toServer EXCEPT ![cur] = 2] ELSE toServer
        /\ UNCHANGED <<posted, auto, cur, buf, acks, result, backlog, link, cOpen, sOpen,
                       toClient, serverVars, full>>
    BY <1>4 DEF Send, IInv1, TypeOK, Places, Requests
  <2>2. TypeOK'
    <3>1. toServer' \in [Requests -> 0..2]
      BY <2>1 DEF IInv1, TypeOK
    <3>2. cpc' \in {"get", "connect", "box", "send", "recv"}
      BY <2>1
    <3> QED BY <2>1, <3>1, <3>2 DEF IInv1, TypeOK, serverVars
  <2>3. Places'
    <3>1. spc = "deal" => got + toServer'[m_client] <= 2
      <4>1. CASE m_client = cur
        BY <2>1, <4>1 DEF IInv1, TypeOK, Places
      <4>2. CASE m_client # cur
        BY <2>1, <4>2 DEF IInv1, TypeOK, Places, Service, Requests
      <4> QED BY <4>1, <4>2
    <3> QED BY <2>1, <3>1 DEF IInv1, TypeOK, Places, serverVars
  <2>4. Order'
    BY <2>1, OrderKept DEF IInv1, serverVars
  <2> QED BY <2>2, <2>3, <2>4 DEF IInv1
<1>5. CASE SendFails
  <2>1. /\ cpc = "send" /\ cpc' = "get" /\ result' = [result EXCEPT ![cur] = "unsent"]
        /\ cOpen' = cOpen \ {cur}
        /\ UNCHANGED <<posted, auto, cur, buf, acks, backlog, link, sOpen, toServer,
                       toClient, serverVars, full>>
    BY <1>5 DEF SendFails, Ended, CloseMySocket
  <2>2. TypeOK'
    BY <2>1 DEF IInv1, TypeOK, serverVars
  <2>3. Places'
    BY <2>1 DEF IInv1, TypeOK, Places, serverVars
  <2>4. Order'
    BY <2>1, OrderKept DEF IInv1, serverVars
  <2> QED BY <2>2, <2>3, <2>4 DEF IInv1
<1>6. CASE BoxTakes
  <2>1. /\ cpc = "box" /\ cur' = cur + 1 /\ cur < posted
        /\ result' = [result EXCEPT ![cur + 1] = "lost"]
        /\ UNCHANGED <<posted, auto, cpc, buf, acks, linkVars, serverVars, full>>
    BY <1>6 DEF BoxTakes
  <2>2. TypeOK'
    <3>1. result' \in [Requests -> Results]
      BY <2>1 DEF IInv1, TypeOK, Results
    <3>2. cur' \in 0..MaxRequests
      BY <2>1 DEF IInv1, TypeOK
    <3> QED BY <2>1, <3>1, <3>2 DEF IInv1, TypeOK, Results, linkVars, serverVars
  <2>3. Places'
    <3>1. cur' <= posted' /\ cur' # 0
      BY <2>1 DEF IInv1, TypeOK
    <3>2. \A r \in Requests : r >= cur' => r > cur
      BY <2>1 DEF IInv1, TypeOK, Requests
    <3> QED BY <2>1, <3>1, <3>2 DEF IInv1, TypeOK, Places, Requests, linkVars, serverVars
  <2>4. Order'
    BY <1>6, OrderGet DEF IInv1
  <2> QED BY <2>2, <2>3, <2>4 DEF IInv1
<1>7. CASE CloseBox
  <2>1. /\ cpc = "box" /\ cpc' = "get" /\ result' = [r \in Requests |-> Told(r)]
        /\ UNCHANGED <<posted, auto, cur, buf, acks, linkVars, serverVars, full>>
    BY <1>7 DEF CloseBox
  <2>2. TypeOK'
    <3>1. result' \in [Requests -> Results]
      BY <2>1 DEF IInv1, TypeOK, Told, Results
    <3> QED BY <2>1, <3>1 DEF IInv1, TypeOK, Results, linkVars, serverVars
  <2>3. Places'
    BY <2>1 DEF IInv1, TypeOK, Places, linkVars, serverVars
  <2>4. Order'
    BY <2>1, OrderKept DEF IInv1, linkVars, serverVars
  <2> QED BY <2>2, <2>3, <2>4 DEF IInv1
<1> QED BY <1>1, <1>2, <1>3, <1>4, <1>5, <1>6, <1>7

LEMMA ConnectStep ==
  ASSUME IInv1, Connect
  PROVE  IInv1'
<1>1. /\ cpc = "connect" /\ cpc' = "send" /\ cur \in Requests
      /\ backlog' = Append(backlog, cur)
      /\ link' = [link EXCEPT ![cur] = "up"]
      /\ cOpen' = cOpen \cup {cur} /\ sOpen' = sOpen \cup {cur}
      /\ UNCHANGED <<posted, auto, cur, buf, acks, result, toServer, toClient, serverVars, full>>
  BY SessionAssumption DEF Connect, IInv1, TypeOK, Places, Requests
<1>2. backlog' \in Seq(Requests)
  BY <1>1, OneMore DEF IInv1, TypeOK
<1>3. TypeOK'
  BY <1>1, <1>2 DEF IInv1, TypeOK, serverVars
<1>4. spc = "deal" => m_client # cur
  BY <1>1 DEF IInv1, Order, Service, Begun, Requests
<1>5. Places'
  BY <1>1, <1>4 DEF IInv1, TypeOK, Places, serverVars
<1> QED BY <1>1, <1>3, <1>5, OrderConnect DEF IInv1

LEMMA RecvStep ==
  ASSUME IInv1, RecvData \/ RecvEnd \/ RecvError
  PROVE  IInv1'
<1>1. /\ cpc = "recv" /\ cur \in Requests
      /\ buf' \in Seq(Requests)
      /\ acks' \in [Requests -> Seq(Requests)]
      /\ cpc' \in {"get", "recv"} /\ (buf' # <<>> => cpc' = "recv")
      /\ result' \in [Requests -> Results]
      /\ cOpen' \subseteq Requests
      /\ toClient' \in [Requests -> Seq(Requests)]
      /\ UNCHANGED <<posted, auto, cur, backlog, link, sOpen, toServer, serverVars, full>>
  BY RecvTypes DEF IInv1
<1>2. TypeOK'
  BY <1>1 DEF IInv1, TypeOK, Results, serverVars
<1>3. Places'
  BY <1>1 DEF IInv1, TypeOK, Places, serverVars
<1>4. Order'
  BY <1>1, OrderKept DEF IInv1, serverVars
<1> QED BY <1>2, <1>3, <1>4 DEF IInv1

(* The process ends. *)
LEMMA EndsStep ==
  ASSUME IInv1, ProcessEnds, UNCHANGED <<clientVars, cOpen, toServer, got, lstPackets, count,
                                         executed, produced, full>>,
         toClient' \in [Requests -> Seq(Requests)]
  PROVE  IInv1'
<1>1. /\ spc' = "down" /\ m_client' = 0 /\ backlog' = <<>> /\ sOpen' = {}
      /\ link' = [r \in Requests |-> IF r \in ToSet(backlog) THEN "broken" ELSE link[r]]
  BY DEF ProcessEnds
<1>2. <<>> \in Seq(Requests)
  BY EmptySeq
<1>3. link' \in [Requests -> {"none", "up", "broken"}]
  BY <1>1 DEF IInv1, TypeOK
<1>4. TypeOK'
  <2>1. /\ m_client' \in 0..MaxRequests /\ spc' = "down"
        /\ backlog' \in Seq(Requests) /\ sOpen' \subseteq Requests
    BY <1>1, <1>2, SessionAssumption
  <2> QED BY <1>3, <2>1 DEF IInv1, TypeOK, clientVars
<1>5. Places'
  BY <1>1 DEF IInv1, Places, Service, clientVars
<1>6. Order'
  BY <1>1, OrderKept DEF IInv1, Service, clientVars
<1> QED BY <1>4, <1>5, <1>6 DEF IInv1

(* What is delivered keeps its type. *)
LEMMA DeliveredDoes ==
  ASSUME TypeOK, m_client \in Requests, NEW S, NEW u \in Seq(S), Delivered(u),
         toClient[m_client] \in Seq(S)
  PROVE  /\ \A r \in Requests \ {m_client} : toClient'[r] = toClient[r]
         /\ DOMAIN toClient' = Requests /\ toClient' = [r \in Requests |-> toClient'[r]]
         /\ toClient'[m_client] \in Seq(S)
         /\ Len(toClient[m_client]) \in Nat
         /\ Len(toClient'[m_client]) <= Len(toClient[m_client]) + Len(u)
         /\ m_client \in cOpen /\ link[m_client] = "up" =>
               Len(toClient'[m_client]) = Len(toClient[m_client]) + Len(u)
<1>1. Len(toClient[m_client]) \in Nat /\ Len(u) \in Nat
  BY LenProperties
<1>2. /\ toClient[m_client] \o u \in Seq(S)
      /\ Len(toClient[m_client] \o u) = Len(toClient[m_client]) + Len(u)
  BY ConcatProperties
<1>3. CASE m_client \in cOpen /\ link[m_client] = "up"
  <2>1. toClient' = [toClient EXCEPT ![m_client] = @ \o u]
    BY <1>3 DEF Delivered
  <2>2. /\ toClient'[m_client] = toClient[m_client] \o u
        /\ \A r \in Requests \ {m_client} : toClient'[r] = toClient[r]
        /\ DOMAIN toClient' = Requests /\ toClient' = [r \in Requests |-> toClient'[r]]
    BY <2>1 DEF TypeOK
  <2> QED BY <1>1, <1>2, <2>2
<1>4. CASE ~(m_client \in cOpen /\ link[m_client] = "up")
  <2>1. toClient' = toClient
    BY <1>4 DEF Delivered
  <2> QED BY <1>1, <1>4, <2>1 DEF TypeOK
<1> QED BY <1>3, <1>4

LEMMA ServedIsRequest ==
  ASSUME IInv1, spc \in Service
  PROVE  m_client \in Requests
BY SessionAssumption DEF IInv1, TypeOK, Places, Requests

LEMMA AcceptStep ==
  ASSUME IInv1, AcceptClient \/ AcceptFails
  PROVE  IInv1'
<1>1. CASE AcceptClient
  <2>1. /\ m_client' = Head(backlog) /\ backlog' = Tail(backlog) /\ backlog # <<>>
        /\ spc' = "deal" /\ got' = 0
        /\ UNCHANGED <<clientVars, link, cOpen, sOpen, toServer, toClient, lstPackets, count,
                       executed, produced, full>>
    BY <1>1 DEF AcceptClient
  <2>2. backlog' \in Seq(Requests) /\ m_client' \in Requests
    BY <2>1, OneLess DEF IInv1, TypeOK
  <2>3. TypeOK'
    <3>1. UNCHANGED clientVars
      BY <2>1
    <3> QED BY <2>1, <2>2, <3>1, SMTT(40) DEF IInv1, TypeOK, clientVars, Requests
  <2>4. Places'
    <3>1. m_client' # 0
      BY <2>2 DEF Requests
    <3>2. got' + toServer'[m_client'] <= 2
      <4>1. toServer'[m_client'] \in 0..2
        BY <2>2, <2>3 DEF TypeOK
      <4> QED BY <2>1, <4>1
    <3> QED BY <2>1, <3>1, <3>2 DEF IInv1, Places, clientVars
  <2> QED BY <1>1, <2>3, <2>4, OrderAccept DEF IInv1
<1>2. CASE AcceptFails
  <2>1. /\ spc = "accept" /\ spc' \in {"accept", "returned"}
        /\ count' \in 0..3
        /\ UNCHANGED <<clientVars, linkVars, m_client, got, lstPackets, executed, produced, full>>
    BY <1>2 DEF AcceptFails, GiveUp, IInv1, TypeOK
  <2>2. TypeOK'
    BY <2>1 DEF IInv1, TypeOK, clientVars, linkVars
  <2>3. Places'
    BY <2>1 DEF IInv1, Places, Service, clientVars, linkVars
  <2>4. Order'
    BY <2>1, OrderKept DEF IInv1, Service, clientVars, linkVars
  <2> QED BY <2>2, <2>3, <2>4 DEF IInv1
<1> QED BY <1>1, <1>2

LEMMA DealStep ==
  ASSUME IInv1, DealRecv \/ DealEnd \/ DealError
  PROVE  IInv1'
<1>0. spc = "deal" /\ m_client \in Requests
  BY ServedIsRequest DEF DealRecv, DealEnd, DealError, Service
<1>1. CASE DealRecv
  <2>1. PICK n \in 1..toServer[m_client] :
           /\ toServer' = [toServer EXCEPT ![m_client] = @ - n]
           /\ got' = got + n
           /\ spc' = IF got + n = 2 THEN "exec" ELSE "deal"
    BY <1>1 DEF DealRecv
  <2>2. UNCHANGED <<clientVars, backlog, link, cOpen, sOpen, toClient, m_client, lstPackets,
                    count, executed, produced, full>>
    BY <1>1 DEF DealRecv
  <2>3. toServer[m_client] \in 0..2 /\ got \in 0..2 /\ got + toServer[m_client] <= 2
    BY <1>0 DEF IInv1, TypeOK, Places
  <2>4. /\ toServer' \in [Requests -> 0..2] /\ got' \in 0..2
        /\ got' + toServer'[m_client] <= 2
        /\ \A r \in Requests : toServer[r] = 0 => toServer'[r] = 0
    BY <1>0, <2>1, <2>3 DEF IInv1, TypeOK
  <2>5. TypeOK'
    BY <2>1, <2>2, <2>4 DEF IInv1, TypeOK, clientVars
  <2>6. ~(m_client = cur /\ cpc = "send")
    BY <1>0, <2>1 DEF IInv1, Places, TypeOK
  <2>7. Places'
    BY <1>0, <2>1, <2>2, <2>4, <2>6 DEF IInv1, Places, Service, clientVars
  <2>8. Order'
    BY <1>0, <2>1, <2>2, OrderKept DEF IInv1, Service, clientVars
  <2> QED BY <2>5, <2>7, <2>8 DEF IInv1
<1>2. CASE DealEnd
  <2>1. /\ spc' = "close"
        /\ UNCHANGED <<clientVars, linkVars, m_client, got, lstPackets, count, executed,
                       produced, full>>
    BY <1>2 DEF DealEnd
  <2>2. TypeOK'
    BY <2>1 DEF IInv1, TypeOK, clientVars, linkVars
  <2>3. Places'
    BY <1>0, <2>1 DEF IInv1, Places, Service, clientVars, linkVars
  <2>4. Order'
    BY <1>0, <2>1, OrderKept DEF IInv1, Service, clientVars, linkVars
  <2> QED BY <2>2, <2>3, <2>4 DEF IInv1
<1>3. CASE DealError
  <2>1. CASE ProcessEnds
    <3>1. /\ toClient' \in [Requests -> Seq(Requests)]
          /\ UNCHANGED <<clientVars, cOpen, toServer, got, lstPackets, count, executed,
                         produced, full>>
      BY <1>3 DEF DealError, IInv1, TypeOK
    <3> QED BY <2>1, <3>1, EndsStep
  <2>2. CASE spc' = "exec" /\ UNCHANGED <<m_client, backlog, sOpen, link>>
    <3>1. UNCHANGED <<clientVars, cOpen, toServer, toClient, got, lstPackets, count,
                      executed, produced, full>>
      BY <1>3 DEF DealError
    <3>2. TypeOK'
      BY <2>2, <3>1 DEF IInv1, TypeOK, clientVars
    <3>3. Places'
      BY <1>0, <2>2, <3>1 DEF IInv1, Places, Service, clientVars
    <3>4. Order'
      BY <1>0, <2>2, <3>1, OrderKept DEF IInv1, Service, clientVars
    <3> QED BY <3>2, <3>3, <3>4 DEF IInv1
  <2> QED BY <1>3, <2>1, <2>2 DEF DealError
<1> QED BY <1>1, <1>2, <1>3

LEMMA RunStep ==
  ASSUME IInv1, RunCommand
  PROVE  IInv1'
<1>0. spc = "exec" /\ m_client \in Requests
  BY ServedIsRequest DEF RunCommand, Service
<1>1. PICK n \in Replies :
         /\ lstPackets' = lstPackets \o [i \in 1..n |-> m_client]
         /\ produced' = [produced EXCEPT ![m_client] = n]
  BY DEF RunCommand
<1>2. /\ executed' = Append(executed, m_client) /\ spc' = "send"
      /\ UNCHANGED <<clientVars, linkVars, m_client, got, count, full>>
  BY DEF RunCommand
<1>3. n \in Nat /\ [i \in 1..n |-> m_client] \in Seq(Requests)
  BY <1>0, SessionAssumption
<1>4. lstPackets' \in Seq(Requests) /\ executed' \in Seq(Requests)
  BY <1>0, <1>1, <1>2, <1>3, ConcatProperties, OneMore DEF IInv1, TypeOK
<1>5. TypeOK'
  BY <1>1, <1>2, <1>3, <1>4 DEF IInv1, TypeOK, clientVars, linkVars
<1>6. Places'
  BY <1>0, <1>2 DEF IInv1, Places, Service, clientVars, linkVars
<1>7. Order'
  BY <1>0, OrderRun DEF IInv1
<1> QED BY <1>5, <1>6, <1>7 DEF IInv1

(* The packet that is sent next, twice: two units. *)
LEMMA FrontUnits ==
  ASSUME NEW S, NEW s \in Seq(S), s # <<>>
  PROVE  /\ <<Head(s), Head(s)>> \in Seq(S) /\ Len(<<Head(s), Head(s)>>) = 2
         /\ <<Head(s)>> \in Seq(S) /\ Len(<<Head(s)>>) = 1
<1>1. Head(s) \in S
  BY OneLess
<1> QED BY <1>1

LEMMA SendStep ==
  ASSUME IInv1, SendFront \/ SendEnd \/ CloseClient
  PROVE  IInv1'
<1>1. CASE SendFront
  <2>1. /\ spc = "send" /\ lstPackets # <<>> /\ lstPackets' = Tail(lstPackets)
        /\ Delivered(<<Head(lstPackets), Head(lstPackets)>>)
        /\ UNCHANGED <<clientVars, backlog, link, cOpen, sOpen, toServer, spc, m_client, got,
                       count, executed, produced, full>>
    BY <1>1 DEF SendFront, SentAll
  <2>2. m_client \in Requests
    BY <2>1, ServedIsRequest DEF Service
  <2>3. lstPackets' \in Seq(Requests) /\ <<Head(lstPackets), Head(lstPackets)>> \in Seq(Requests)
    BY <2>1, OneLess, FrontUnits DEF IInv1, TypeOK
  <2>4. /\ \A r \in Requests \ {m_client} : toClient'[r] = toClient[r]
        /\ toClient' = [r \in Requests |-> toClient'[r]]
        /\ toClient'[m_client] \in Seq(Requests)
    BY <2>1, <2>2, <2>3, DeliveredDoes DEF IInv1, TypeOK
  <2>5. toClient' \in [Requests -> Seq(Requests)]
    BY <2>2, <2>4 DEF IInv1, TypeOK
  <2>6. TypeOK'
    BY <2>1, <2>3, <2>5 DEF IInv1, TypeOK, clientVars
  <2>7. Places'
    BY <2>1 DEF IInv1, Places, clientVars
  <2>8. Order'
    BY <2>1, OrderKept DEF IInv1, clientVars
  <2> QED BY <2>6, <2>7, <2>8 DEF IInv1
<1>2. CASE SendEnd
  <2>1. /\ spc = "send" /\ spc' = "close"
        /\ UNCHANGED <<clientVars, linkVars, m_client, got, lstPackets, count, executed,
                       produced, full>>
    BY <1>2 DEF SendEnd
  <2>2. TypeOK'
    BY <2>1 DEF IInv1, TypeOK, clientVars, linkVars
  <2>3. Places'
    BY <2>1 DEF IInv1, Places, Service, clientVars, linkVars
  <2>4. Order'
    BY <2>1, OrderKept DEF IInv1, Service, clientVars, linkVars
  <2> QED BY <2>2, <2>3, <2>4 DEF IInv1
<1>3. CASE CloseClient
  <2>1. /\ sOpen' = sOpen \ {m_client} /\ m_client' = 0 /\ spc' = "accept"
        /\ UNCHANGED <<clientVars, backlog, link, cOpen, toServer, toClient, got, lstPackets,
                       count, executed, produced, full>>
    BY <1>3 DEF CloseClient, CloseSocket
  <2>2. TypeOK'
    BY <2>1, SessionAssumption DEF IInv1, TypeOK, clientVars
  <2>3. Places'
    BY <2>1 DEF IInv1, Places, Service, clientVars
  <2>4. Order'
    BY <2>1, OrderKept DEF IInv1, Service, clientVars
  <2> QED BY <2>2, <2>3, <2>4 DEF IInv1
<1> QED BY <1>1, <1>2, <1>3

LEMMA FaultStep ==
  ASSUME IInv1, (\E r \in Requests : Break(r)) \/ Die
  PROVE  IInv1'
<1>1. ASSUME NEW r \in Requests, Break(r) PROVE IInv1'
  <2>1. /\ link' = [link EXCEPT ![r] = "broken"]
        /\ toServer' = [toServer EXCEPT ![r] = 0]
        /\ toClient' = [toClient EXCEPT ![r] = <<>>]
        /\ UNCHANGED <<clientVars, backlog, cOpen, sOpen, serverVars, full>>
    BY <1>1 DEF Break
  <2>2. <<>> \in Seq(Requests)
    BY EmptySeq
  <2>3. TypeOK'
    BY <2>1, <2>2 DEF IInv1, TypeOK, clientVars, serverVars
  <2>4. \A k \in Requests : toServer'[k] \in {0, toServer[k]} /\ toServer[k] \in 0..2
    BY <2>1 DEF IInv1, TypeOK
  <2>5. spc = "deal" => got + toServer'[m_client] <= 2
    <3>1. SUFFICES ASSUME spc = "deal" PROVE got + toServer'[m_client] <= 2
      OBVIOUS
    <3>2. m_client \in Requests /\ got \in 0..2 /\ got + toServer[m_client] <= 2
      BY <3>1, ServedIsRequest DEF IInv1, TypeOK, Places, Service
    <3> QED BY <2>4, <3>2
  <2>6. Places'
    BY <2>1, <2>4, <2>5 DEF IInv1, TypeOK, Places, clientVars, serverVars
  <2>7. Order'
    BY <2>1, OrderKept DEF IInv1, clientVars, serverVars
  <2> QED BY <2>3, <2>6, <2>7 DEF IInv1
<1>2. CASE Die
  <2>1. /\ ProcessEnds
        /\ UNCHANGED <<clientVars, cOpen, toServer, got, lstPackets, count, executed,
                       produced, full>>
    BY <1>2 DEF Die
  <2>2. toClient' \in [Requests -> Seq(Requests)]
    <3>1. CASE toClient' = toClient
      BY <3>1 DEF IInv1, TypeOK
    <3>2. CASE spc = "send" /\ lstPackets # <<>> /\ Delivered(<<Head(lstPackets)>>)
      <4>1. m_client \in Requests
        BY <3>2, ServedIsRequest DEF Service
      <4>2. <<Head(lstPackets)>> \in Seq(Requests)
        BY <3>2, FrontUnits DEF IInv1, TypeOK
      <4>3. /\ \A r \in Requests \ {m_client} : toClient'[r] = toClient[r]
            /\ toClient' = [r \in Requests |-> toClient'[r]]
            /\ toClient'[m_client] \in Seq(Requests)
        BY <3>2, <4>1, <4>2, DeliveredDoes DEF IInv1, TypeOK
      <4> QED BY <4>1, <4>3 DEF IInv1, TypeOK
    <3> QED BY <1>2, <3>1, <3>2 DEF Die
  <2> QED BY <2>1, <2>2, EndsStep
<1> QED BY <1>1, <1>2

LEMMA InitIInv1 == Init => IInv1
<1> SUFFICES ASSUME Init PROVE IInv1
  OBVIOUS
<1>1. <<>> \in Seq(Requests)
  BY EmptySeq
<1>2. TypeOK
  BY <1>1, SessionAssumption DEF Init, TypeOK
<1>3. Places
  BY DEF Init, Places, Service
<1>4. DOMAIN executed = {} /\ DOMAIN backlog = {}
  BY DEF Init
<1>5. Order
  BY <1>4 DEF Init, Order, InPostedOrder, Service
<1> QED BY <1>2, <1>3, <1>5 DEF IInv1

LEMMA NextIInv1 == IInv1 /\ [Next]_vars => IInv1'
<1> SUFFICES ASSUME IInv1, [Next]_vars PROVE IInv1'
  OBVIOUS
<1>1. CASE UNCHANGED vars
  <2>1. Begun' = Begun
    BY <1>1 DEF vars, clientVars, Begun
  <2> QED BY <1>1, <2>1 DEF vars, clientVars, linkVars, serverVars, IInv1, TypeOK, Places, Order,
                   InPostedOrder
<1> QED BY <1>1, ClientStep, ConnectStep, RecvStep, AcceptStep, DealStep, RunStep, SendStep,
           FaultStep DEF Next, SendPack, Run

LEMMA Invariant1 == Spec => []IInv1
BY InitIInv1, NextIInv1, PTL DEF Spec

(* The variables keep their types: never more than a request under way to   *)
(* the server, or more than four failed accepts.                            *)
THEOREM SessionTypeCorrect == Spec => []TypeOK
<1>1. IInv1 => TypeOK
  BY DEF IInv1
<1> QED BY <1>1, Invariant1, PTL

(* Commands are run in the order in which they were posted, each at most    *)
(* once, for any number of requests and whatever breaks.                    *)
THEOREM InPostedOrderHolds == Spec => []InPostedOrder
<1>1. IInv1 => InPostedOrder
  BY DEF IInv1, Order
<1> QED BY <1>1, Invariant1, PTL

-----------------------------------------------------------------------------
(* The answers.                                                             *)

(* The units of r that the window was given, has in the buffer, or that are *)
(* on their way, and those of the packets still to be sent.                 *)
Total(r) ==
    2 * Len(acks[r]) + Len(toClient[r])
      + (IF r = cur THEN Len(buf) ELSE 0)
      + (IF spc = "send" /\ m_client = r THEN 2 * Len(lstPackets) ELSE 0)

(* Everything about r is still to come. *)
ToCome == {r \in Requests : r > cur \/ (r = cur /\ cpc = "connect")}

Owned ==
    /\ \A r \in Requests : acks[r] \in Seq({r}) /\ toClient[r] \in Seq({r})
    /\ buf \in Seq({cur})
    /\ spc = "send" => lstPackets \in Seq({m_client})
    /\ spc \in {"accept", "deal", "exec", "close"} => lstPackets = <<>>

NotYet ==
    /\ \A r \in ToCome : acks[r] = <<>> /\ toClient[r] = <<>> /\ link[r] = "none"
                         /\ r \notin cOpen /\ result[r] = "none"
    /\ cpc \in {"connect", "send", "recv"} => result[cur] = "none"
    /\ cpc \in {"send", "recv"} => cur \in cOpen
    /\ \A r \in Requests : produced[r] # 0 => \E i \in DOMAIN executed : executed[i] = r

Balance ==
    \A r \in Requests :
        /\ Total(r) <= 2 * produced[r]
        /\ link[r] = "up" /\ r \in cOpen /\ spc # "down" => Total(r) = 2 * produced[r]

(* The server holds open what it has not dealt with.                        *)
StillOpen ==
    spc # "down" =>
        /\ \A j \in DOMAIN backlog : backlog[j] \in sOpen
        /\ spc \in Service => m_client \in sOpen

Complete ==
    \A r \in Requests :
        result[r] = "closed" /\ link[r] = "up" /\ spc # "down" =>
            r \notin sOpen /\ Len(acks[r]) = produced[r]

Answers == Owned /\ NotYet /\ Balance /\ StillOpen /\ Complete

IInv2 == IInv1 /\ Answers

(* The steps in which no unit moves. *)
LEMMA AnswersKept ==
  ASSUME IInv2,
         UNCHANGED <<acks, buf, cur, toClient, executed, produced, link, lstPackets, m_client,
                     backlog, sOpen>>,
         cpc' = "connect" => cpc = "connect",
         cpc' \in {"send", "recv"} => cpc \in {"send", "recv"} /\ cOpen' = cOpen,
         cOpen' \subseteq cOpen,
         cpc' \in {"connect", "send", "recv"} =>
            cpc \in {"connect", "send", "recv"} /\ result' = result,
         \A r \in Requests :
            result'[r] = result[r] \/ (r \notin ToCome' /\ result'[r] # "closed"),
         spc' = spc \/ lstPackets = <<>>,
         spc' \in Service => spc \in Service,
         spc' # "down" => spc # "down"
  PROVE  Answers'
<1>1. Owned'
  <2>1. <<>> \in Seq({m_client})
    BY EmptySeq
  <2> QED BY <2>1 DEF IInv2, Answers, Owned
<1>2. NotYet'
  <2>1. ToCome' \subseteq ToCome
    BY DEF ToCome
  <2>2. \A r \in ToCome' : result'[r] = result[r]
    BY DEF ToCome
  <2> QED BY <2>1, <2>2 DEF IInv2, Answers, NotYet
<1>3. \A r \in Requests : Total(r)' = Total(r)
  <2>1. Len(<<>>) = 0
    BY EmptySeq
  <2>2. CASE spc' = spc
    BY <2>2 DEF Total
  <2>3. CASE lstPackets = <<>>
    <3>1. 2 * Len(lstPackets) = 0 /\ lstPackets' = lstPackets
      BY <2>1, <2>3
    <3> QED BY <3>1 DEF Total
  <2> QED BY <2>2, <2>3
<1>4. Balance'
  BY <1>3 DEF IInv2, Answers, Balance
<1>5. StillOpen'
  BY DEF IInv2, Answers, StillOpen
<1>6. Complete'
  BY DEF IInv2, Answers, Complete
<1> QED BY <1>1, <1>2, <1>4, <1>5, <1>6 DEF Answers

LEMMA AnswersQuiet ==
  ASSUME IInv2,
         \/ (\E a \in BOOLEAN : SendPacket(a)) \/ ConnectFails \/ CloseBox
         \/ Send \/ SendFails \/ AcceptFails \/ DealRecv \/ DealEnd \/ SendEnd
         \/ DealError /\ ~ProcessEnds
  PROVE  Answers'
<1>1. CASE \E a \in BOOLEAN : SendPacket(a)
  BY <1>1, AnswersKept DEF SendPacket, linkVars, serverVars
<1>2. CASE ConnectFails
  <2>1. /\ cpc' = "box" /\ result' = [result EXCEPT ![cur] = "failed"]
        /\ UNCHANGED <<posted, auto, cur, buf, acks, linkVars, serverVars>>
    BY <1>2 DEF ConnectFails
  <2>2. \A r \in Requests :
           result'[r] = result[r] \/ (r \notin ToCome' /\ result'[r] # "closed")
    BY <2>1 DEF IInv2, IInv1, TypeOK, ToCome, Requests
  <2> QED BY <2>1, <2>2, AnswersKept DEF linkVars, serverVars
<1>3. CASE Send
  BY <1>3, AnswersKept DEF Send, serverVars
<1>4. CASE SendFails
  <2>1. /\ cpc' = "get" /\ result' = [result EXCEPT ![cur] = "unsent"] /\ cOpen' \subseteq cOpen
        /\ UNCHANGED <<posted, auto, cur, buf, acks, backlog, link, sOpen, toServer,
                       toClient, serverVars, full>>
    BY <1>4 DEF SendFails, Ended, CloseMySocket
  <2>2. \A r \in Requests :
           result'[r] = result[r] \/ (r \notin ToCome' /\ result'[r] # "closed")
    BY <2>1 DEF IInv2, IInv1, TypeOK, ToCome, Requests
  <2> QED BY <2>1, <2>2, AnswersKept DEF serverVars
<1>5. CASE AcceptFails
  BY <1>5, AnswersKept DEF AcceptFails, Service, IInv2, Answers, Owned, clientVars, linkVars
<1>6. CASE DealRecv
  BY <1>6, AnswersKept DEF DealRecv, Service, IInv2, Answers, Owned, clientVars
<1>7. CASE DealEnd
  BY <1>7, AnswersKept DEF DealEnd, Service, IInv2, Answers, Owned, clientVars, linkVars
<1>8. CASE SendEnd
  BY <1>8, AnswersKept DEF SendEnd, SentAll, Service, clientVars, linkVars
<1>9. CASE DealError /\ ~ProcessEnds
  <2>1. /\ spc = "deal" /\ spc' = "exec" /\ UNCHANGED <<m_client, backlog, sOpen, link>>
        /\ UNCHANGED <<clientVars, cOpen, toServer, toClient, got, lstPackets, count,
                       executed, produced, full>>
    BY <1>9 DEF DealError
  <2> QED BY <2>1, AnswersKept DEF Service, IInv2, Answers, Owned, clientVars
<1>10. CASE CloseBox
  <2>1. /\ cpc' = "get" /\ result' = [r \in Requests |-> Told(r)]
        /\ UNCHANGED <<posted, auto, cur, buf, acks, linkVars, serverVars>>
    BY <1>10 DEF CloseBox
  <2>2. ToCome' \subseteq ToCome /\ \A r \in ToCome : result[r] = "none"
    BY <2>1 DEF ToCome, IInv2, Answers, NotYet
  <2>3. \A r \in Requests :
           result'[r] = result[r] \/ (r \notin ToCome' /\ result'[r] # "closed")
    BY <2>1, <2>2 DEF Told
  <2> QED BY <2>1, <2>3, AnswersKept DEF linkVars, serverVars
<1> QED BY <1>1, <1>2, <1>3, <1>4, <1>5, <1>6, <1>7, <1>8, <1>9, <1>10

(* What is executed, served or in the backlog is not still to come. *)
LEMMA BegunNotToCome ==
  ASSUME TypeOK
  PROVE  Begun \cap ToCome = {}
BY DEF Begun, ToCome, TypeOK, Requests

(* The next request is taken, by the thread or by the box.                  *)
LEMMA AnswersGet ==
  ASSUME IInv2, GetMessage \/ BoxTakes
  PROVE  Answers'
<1>1. /\ cur < posted /\ cur' = cur + 1 /\ cpc \in {"get", "box"}
      /\ \/ cpc' = "connect" /\ buf' = <<>> /\ UNCHANGED result
         \/ cpc' = "box" /\ buf' = buf /\ result' = [result EXCEPT ![cur'] = "lost"]
      /\ UNCHANGED <<acks, linkVars, serverVars>>
  BY DEF GetMessage, BoxTakes
<1>2. /\ buf = <<>> /\ buf' = <<>> /\ Len(buf) = 0 /\ Len(buf') = 0
      /\ cur \in Nat /\ cur' \in Requests
  <2>1. buf = <<>>
    BY <1>1 DEF IInv2, IInv1, Places
  <2>2. Len(<<>>) = 0
    BY EmptySeq
  <2>3. cur \in Nat /\ cur' \in Requests
    BY <1>1, SessionAssumption DEF IInv2, IInv1, TypeOK, Requests
  <2> QED BY <1>1, <2>1, <2>2, <2>3
<1>3. Owned'
  <2>1. buf' \in Seq({cur'})
    BY <1>2, EmptySeq
  <2> QED BY <1>1, <2>1 DEF IInv2, Answers, Owned, linkVars, serverVars
<1>4. NotYet'
  <2>1. ToCome' \subseteq ToCome /\ cur' \in ToCome
    BY <1>1, <1>2 DEF ToCome, Requests
  <2>2. \A r \in ToCome' : result'[r] = result[r]
    <3>1. CASE UNCHANGED result
      BY <3>1
    <3>2. CASE cpc' = "box" /\ result' = [result EXCEPT ![cur'] = "lost"]
      <4>1. cur' \notin ToCome'
        BY <1>2, <3>2 DEF ToCome, Requests
      <4> QED BY <3>2, <4>1 DEF ToCome, IInv2, IInv1, TypeOK
    <3> QED BY <1>1, <3>1, <3>2
  <2>3. cpc' = "connect" => result' = result
    BY <1>1
  <2> QED BY <1>1, <2>1, <2>2, <2>3 DEF IInv2, Answers, NotYet, linkVars, serverVars
<1>5. Balance'
  <2>1. \A r \in Requests : Total(r)' = Total(r)
    <3>1. \A r \in Requests : (IF r = cur THEN Len(buf) ELSE 0) = 0
                              /\ (IF r = cur' THEN Len(buf') ELSE 0) = 0
      BY <1>1, <1>2
    <3> QED BY <1>1, <3>1 DEF Total, linkVars, serverVars
  <2> QED BY <1>1, <2>1 DEF IInv2, Answers, Balance, linkVars, serverVars
<1>6. StillOpen'
  BY <1>1 DEF IInv2, Answers, StillOpen, linkVars, serverVars
<1>7. Complete'
  <2>1. \A r \in Requests : result'[r] = "closed" => result[r] = "closed"
    BY <1>1 DEF IInv2, IInv1, TypeOK
  <2> QED BY <1>1, <2>1 DEF IInv2, Answers, Complete, linkVars, serverVars
<1> QED BY <1>3, <1>4, <1>5, <1>6, <1>7 DEF Answers

LEMMA AnswersConnect ==
  ASSUME IInv2, Connect
  PROVE  Answers'
<1>1. /\ cpc = "connect" /\ cpc' = "send" /\ cur \in Requests
      /\ backlog' = Append(backlog, cur)
      /\ link' = [link EXCEPT ![cur] = "up"]
      /\ cOpen' = cOpen \cup {cur} /\ sOpen' = sOpen \cup {cur}
      /\ UNCHANGED <<cur, buf, acks, result, toClient, serverVars>>
  BY SessionAssumption DEF Connect, IInv2, IInv1, TypeOK, Places, Requests
<1>2. Owned'
  BY <1>1 DEF IInv2, Answers, Owned, serverVars
<1>3. cur \in ToCome /\ ToCome' \subseteq ToCome \ {cur}
  BY <1>1 DEF ToCome, Requests, IInv2, IInv1, TypeOK
<1>4. /\ \A r \in Requests : link'[r] = IF r = cur THEN "up" ELSE link[r]
      /\ result[cur] = "none"
  BY <1>1, <1>3 DEF IInv2, IInv1, TypeOK, Answers, NotYet
<1>5. NotYet'
  <2>1. \A r \in ToCome' : r \in ToCome /\ r # cur /\ r \in Requests
    BY <1>3 DEF ToCome
  <2> QED BY <1>1, <1>4, <2>1 DEF IInv2, Answers, NotYet, serverVars
<1>6. \A r \in Requests : Total(r)' = Total(r)
  BY <1>1 DEF Total, serverVars
<1>7. Total(cur) = 0 /\ produced[cur] = 0
  <2>1. cur \notin Begun
    BY <1>3, BegunNotToCome DEF IInv2, IInv1
  <2>2. spc = "send" => m_client # cur
    BY <2>1 DEF IInv2, IInv1, Order, Service
  <2>3. \A i \in DOMAIN executed : executed[i] # cur
    BY <2>1 DEF IInv2, IInv1, Order
  <2>4. acks[cur] = <<>> /\ toClient[cur] = <<>> /\ buf = <<>> /\ Len(<<>>) = 0
    BY <1>1, <1>3, EmptySeq DEF IInv2, IInv1, Answers, NotYet, Places
  <2>5. produced[cur] = 0
    BY <1>1, <2>3 DEF IInv2, Answers, NotYet
  <2> QED BY <2>2, <2>4, <2>5 DEF Total
<1>8. Balance'
  BY <1>1, <1>4, <1>6, <1>7 DEF IInv2, Answers, Balance, serverVars
<1>9. StillOpen'
  <2>1. \A j \in DOMAIN backlog' : backlog'[j] = cur \/ (j \in DOMAIN backlog /\ backlog'[j] = backlog[j])
    BY <1>1, OneMore DEF IInv2, IInv1, TypeOK
  <2> QED BY <1>1, <2>1 DEF IInv2, Answers, StillOpen, serverVars
<1>10. Complete'
  BY <1>1, <1>4 DEF IInv2, Answers, Complete, serverVars
<1> QED BY <1>2, <1>5, <1>8, <1>9, <1>10 DEF Answers

LEMMA AnswersAccept ==
  ASSUME IInv2, AcceptClient
  PROVE  Answers'
<1>1. /\ spc = "accept" /\ m_client' = Head(backlog) /\ backlog' = Tail(backlog)
      /\ backlog # <<>> /\ spc' = "deal"
      /\ UNCHANGED <<clientVars, link, cOpen, sOpen, toServer, toClient, lstPackets, count,
                     executed, produced, full>>
  BY DEF AcceptClient
<1>2. /\ m_client' = backlog[1] /\ 1 \in DOMAIN backlog
      /\ \A j \in DOMAIN backlog' : j + 1 \in DOMAIN backlog /\ backlog'[j] = backlog[j + 1]
  BY <1>1, OneLess DEF IInv2, IInv1, TypeOK
<1>3. Owned'
  BY <1>1 DEF IInv2, Answers, Owned, clientVars
<1>4. NotYet'
  <2>1. ToCome' = ToCome
    BY <1>1 DEF ToCome, clientVars
  <2> QED BY <1>1, <2>1 DEF IInv2, Answers, NotYet, clientVars
<1>5. Balance'
  <2>1. \A r \in Requests : Total(r)' = Total(r)
    BY <1>1 DEF Total, clientVars
  <2> QED BY <1>1, <2>1 DEF IInv2, Answers, Balance, clientVars
<1>6. StillOpen' /\ Complete'
  BY <1>1, <1>2 DEF IInv2, Answers, StillOpen, Complete, clientVars
<1> QED BY <1>3, <1>4, <1>5, <1>6 DEF Answers

LEMMA AnswersRun ==
  ASSUME IInv2, RunCommand
  PROVE  Answers'
<1>0. spc = "exec" /\ m_client \in Requests
  BY ServedIsRequest DEF RunCommand, Service, IInv2
<1>1. PICK n \in Replies :
         /\ lstPackets' = lstPackets \o [i \in 1..n |-> m_client]
         /\ produced' = [produced EXCEPT ![m_client] = n]
  BY DEF RunCommand
<1>2. /\ executed' = Append(executed, m_client) /\ spc' = "send"
      /\ UNCHANGED <<clientVars, linkVars, m_client, got, count, full>>
  BY DEF RunCommand
<1>3. lstPackets' \in Seq({m_client}) /\ Len(lstPackets') = n /\ n \in Nat
  <2>1. n \in Nat /\ [i \in 1..n |-> m_client] \in Seq({m_client})
        /\ Len([i \in 1..n |-> m_client]) = n
    BY SessionAssumption
  <2>2. lstPackets = <<>>
    BY <1>0 DEF IInv2, Answers, Owned
  <2> QED BY <1>1, <2>1, <2>2, ConcatEmptySeq
<1>4. Owned'
  BY <1>2, <1>3 DEF IInv2, Answers, Owned, clientVars, linkVars
<1>5. \A r \in Requests : produced'[r] = IF r = m_client THEN n ELSE produced[r]
  BY <1>0, <1>1 DEF IInv2, IInv1, TypeOK
<1>6. produced[m_client] = 0
  <2>1. \A i \in DOMAIN executed : executed[i] < m_client
    BY <1>0 DEF IInv2, IInv1, Order
  <2>2. \A i \in DOMAIN executed : executed[i] # m_client
    BY <1>0, <2>1 DEF Requests
  <2> QED BY <1>0, <2>2 DEF IInv2, Answers, NotYet
<1>7. NotYet'
  <2>1. ToCome' = ToCome
    BY <1>2 DEF ToCome, clientVars
  <2>2. /\ DOMAIN executed' = 1..(Len(executed) + 1) /\ DOMAIN executed = 1..Len(executed)
        /\ Len(executed) \in Nat
        /\ \A i \in DOMAIN executed : executed'[i] = executed[i]
        /\ executed'[Len(executed) + 1] = m_client
    BY <1>0, <1>2, OneMore DEF IInv2, IInv1, TypeOK
  <2>3. DOMAIN executed \subseteq DOMAIN executed' /\ Len(executed) + 1 \in DOMAIN executed'
    BY <2>2
  <2>4. \A r \in Requests : produced'[r] # 0 => \E i \in DOMAIN executed' : executed'[i] = r
    BY <1>5, <2>2, <2>3 DEF IInv2, Answers, NotYet
  <2> QED BY <1>2, <2>1, <2>4 DEF IInv2, Answers, NotYet, clientVars, linkVars
<1>8. Balance'
  <2>1. \A r \in Requests : /\ Len(acks[r]) \in Nat /\ Len(toClient[r]) \in Nat
                            /\ Len(buf) \in Nat
    BY LenProperties DEF IInv2, Answers, Owned
  <2>2. \A r \in Requests \ {m_client} : Total(r)' = Total(r) /\ produced'[r] = produced[r]
    BY <1>0, <1>2, <1>5 DEF Total, clientVars, linkVars
  <2>3. Total(m_client) <= 0
    BY <1>0, <1>6 DEF IInv2, Answers, Balance
  <2>4. /\ Len(acks[m_client]) = 0 /\ Len(toClient[m_client]) = 0
        /\ (IF m_client = cur THEN Len(buf) ELSE 0) = 0
    <3>1. Total(m_client) = 2 * Len(acks[m_client]) + Len(toClient[m_client])
                              + (IF m_client = cur THEN Len(buf) ELSE 0)
      BY <1>0, <2>1 DEF Total
    <3>2. \A a, b, c \in Nat : 2 * a + b + c <= 0 => a = 0 /\ b = 0 /\ c = 0
      OBVIOUS
    <3>3. (IF m_client = cur THEN Len(buf) ELSE 0) \in Nat
      BY <1>0, <2>1
    <3>4. Len(acks[m_client]) \in Nat /\ Len(toClient[m_client]) \in Nat
      BY <1>0, <2>1
    <3>5. 2 * Len(acks[m_client]) + Len(toClient[m_client])
            + (IF m_client = cur THEN Len(buf) ELSE 0) <= 0
      BY <2>3, <3>1
    <3> QED BY <3>2, <3>3, <3>4, <3>5, Zenon
  <2>5. \A r \in Requests : r = m_client => Total(r)' = 2 * n /\ produced'[r] = n
    <3>1. SUFFICES ASSUME NEW r \in Requests, r = m_client
                   PROVE  Total(r)' = 2 * n /\ produced'[r] = n
      OBVIOUS
    <3>2. /\ UNCHANGED <<acks, toClient, buf, cur, m_client>> /\ spc' = "send"
          /\ Len(lstPackets') = n /\ n \in Nat
      BY <1>2, <1>3 DEF clientVars, linkVars
    <3>3. Total(r)' = 2 * Len(acks'[r]) + Len(toClient'[r])
                        + (IF r = cur' THEN Len(buf') ELSE 0)
                        + (IF spc' = "send" /\ m_client' = r THEN 2 * Len(lstPackets') ELSE 0)
      BY DEF Total
    <3>4. /\ Len(acks'[r]) = 0 /\ Len(toClient'[r]) = 0
          /\ (IF r = cur' THEN Len(buf') ELSE 0) = 0
      BY <2>4, <3>1, <3>2
    <3>5. (IF spc' = "send" /\ m_client' = r THEN 2 * Len(lstPackets') ELSE 0) = 2 * n
      BY <3>1, <3>2
    <3>6. Total(r)' = 2 * 0 + 0 + 0 + 2 * n
      BY <3>3, <3>4, <3>5, Zenon
    <3>7. 2 * 0 + 0 + 0 + 2 * n = 2 * n
      BY <3>2
    <3> QED BY <1>5, <3>1, <3>6, <3>7
  <2>6. \A r \in Requests : link'[r] = link[r] /\ cOpen' = cOpen /\ spc # "down"
    BY <1>0, <1>2 DEF linkVars
  <2>7. \A r \in Requests \ {m_client} :
           /\ Total(r)' <= 2 * produced'[r]
           /\ link'[r] = "up" /\ r \in cOpen' => Total(r)' = 2 * produced'[r]
    BY <2>2, <2>6 DEF IInv2, Answers, Balance
  <2>8. \A r \in Requests : r = m_client => Total(r)' = 2 * produced'[r]
                                            /\ Total(r)' <= 2 * produced'[r]
    BY <1>3, <2>5
  <2> QED BY <2>7, <2>8 DEF Balance
<1>9. StillOpen'
  BY <1>0, <1>2 DEF IInv2, Answers, StillOpen, Service, linkVars
<1>10. Complete'
  <2>1. m_client \in sOpen
    BY <1>0 DEF IInv2, Answers, StillOpen, Service
  <2> QED BY <1>0, <1>2, <1>5, <2>1 DEF IInv2, Answers, Complete, clientVars, linkVars
<1> QED BY <1>4, <1>7, <1>8, <1>9, <1>10 DEF Answers

(* Sums of units: k packets were taken from the l units that were parsed.   *)
LEMMA UnitSums ==
  ASSUME NEW a \in Nat, NEW a2 \in Nat, NEW t \in Nat, NEW t2 \in Nat,
         NEW f \in Nat, NEW f2 \in Nat, NEW l \in Nat, l + t2 <= f + t,
         (a2 = a /\ f2 = l) \/ (a2 = a + 1 /\ f2 <= l - 2)
  PROVE  2 * a2 + t2 + f2 <= 2 * a + t + f
OBVIOUS

LEMMA UnitSumsNoLess ==
  ASSUME NEW a \in Nat, NEW a2 \in Nat, NEW t \in Nat, NEW t2 \in Nat,
         NEW f \in Nat, NEW f2 \in Nat, NEW l \in Nat, l + t2 = f + t,
         (a2 = a /\ f2 = l) \/ (a2 = a + 1 /\ f2 = l - 2)
  PROVE  2 * a + t + f <= 2 * a2 + t2 + f2
OBVIOUS

(* What recv changes: only about the request the client is at, and no unit  *)
(* more than before; as many, while the connection holds and is open.  When *)
(* the server's closing is noticed, nothing is left to be read.             *)
LEMMA RecvUnits ==
  ASSUME IInv2, RecvData \/ RecvEnd \/ RecvError
  PROVE  /\ cur \in Requests /\ cpc' \in {"get", "recv"}
         /\ UNCHANGED <<cur, backlog, link, sOpen, spc, m_client, lstPackets, executed, produced>>
         /\ \A r \in Requests \ {cur} :
               /\ acks'[r] = acks[r] /\ toClient'[r] = toClient[r]
               /\ (r \in cOpen' <=> r \in cOpen) /\ result'[r] = result[r]
         /\ acks'[cur] \in Seq({cur}) /\ toClient'[cur] \in Seq({cur}) /\ buf' \in Seq({cur})
         /\ 2 * Len(acks'[cur]) + Len(toClient'[cur]) + Len(buf')
               <= 2 * Len(acks[cur]) + Len(toClient[cur]) + Len(buf)
         /\ link[cur] = "up" /\ cur \in cOpen' =>
               2 * Len(acks[cur]) + Len(toClient[cur]) + Len(buf)
                  <= 2 * Len(acks'[cur]) + Len(toClient'[cur]) + Len(buf')
         /\ cpc' = "recv" => result' = result /\ cOpen' = cOpen
         /\ result'[cur] = "closed" /\ link[cur] = "up" =>
               cur \notin sOpen /\ acks' = acks /\ toClient[cur] = <<>> /\ buf = <<>>
<1>1. /\ cpc = "recv" /\ cur \in Requests /\ cpc' \in {"get", "recv"}
      /\ UNCHANGED <<cur, backlog, link, sOpen, spc, m_client, lstPackets, executed, produced>>
  BY RecvTypes DEF IInv2, IInv1, serverVars
<1>2. /\ buf \in Seq({cur}) /\ toClient[cur] \in Seq({cur}) /\ acks[cur] \in Seq({cur})
      /\ DOMAIN toClient = Requests /\ cur \in cOpen /\ result[cur] = "none"
  BY <1>1 DEF IInv2, IInv1, TypeOK, Answers, Owned, NotYet
<1>3. Len(buf) \in Nat /\ Len(toClient[cur]) \in Nat /\ Len(acks[cur]) \in Nat
  BY <1>2, LenProperties
<1>4. CASE TellClosed /\ toClient' = toClient
           /\ (link[cur] = "up" => cur \notin sOpen /\ toClient[cur] = <<>>)
  <2>1. /\ buf = <<>> /\ cpc' = "get" /\ result' = [result EXCEPT ![cur] = "closed"]
        /\ cOpen' = cOpen \ {cur} /\ buf' = buf /\ acks' = acks
    BY <1>4 DEF TellClosed, BufferEmpty, Ended, CloseMySocket
  <2>2. \A r \in Requests \ {cur} : /\ acks'[r] = acks[r] /\ toClient'[r] = toClient[r]
                                    /\ (r \in cOpen' <=> r \in cOpen) /\ result'[r] = result[r]
    BY <1>4, <2>1 DEF IInv2, IInv1, TypeOK
  <2>3. acks'[cur] = acks[cur] /\ toClient'[cur] = toClient[cur] /\ cur \notin cOpen'
    BY <1>4, <2>1
  <2>4. 2 * Len(acks'[cur]) + Len(toClient'[cur]) + Len(buf')
          <= 2 * Len(acks[cur]) + Len(toClient[cur]) + Len(buf)
    BY <1>3, <2>1, <2>3
  <2> QED BY <1>1, <1>2, <1>4, <2>1, <2>2, <2>3, <2>4
<1>5. ASSUME NEW b \in Seq({cur}), Parse(b),
             \A r \in Requests \ {cur} : toClient'[r] = toClient[r],
             toClient'[cur] \in Seq({cur}),
             Len(b) + Len(toClient'[cur]) <= Len(buf) + Len(toClient[cur]),
             link[cur] = "up" =>
                Len(b) + Len(toClient'[cur]) = Len(buf) + Len(toClient[cur])
      PROVE  /\ \A r \in Requests \ {cur} :
                   /\ acks'[r] = acks[r] /\ toClient'[r] = toClient[r]
                   /\ (r \in cOpen' <=> r \in cOpen) /\ result'[r] = result[r]
             /\ acks'[cur] \in Seq({cur}) /\ toClient'[cur] \in Seq({cur}) /\ buf' \in Seq({cur})
             /\ 2 * Len(acks'[cur]) + Len(toClient'[cur]) + Len(buf')
                   <= 2 * Len(acks[cur]) + Len(toClient[cur]) + Len(buf)
             /\ link[cur] = "up" /\ cur \in cOpen' =>
                   2 * Len(acks[cur]) + Len(toClient[cur]) + Len(buf)
                      <= 2 * Len(acks'[cur]) + Len(toClient'[cur]) + Len(buf')
             /\ cpc' = "recv" => result' = result /\ cOpen' = cOpen
             /\ result'[cur] # "closed"
  <2>0. Len(b) \in Nat /\ Len(toClient'[cur]) \in Nat
    BY <1>5, LenProperties
  <2>1. buf' \in Seq({cur}) /\ Len(buf') \in Nat
    BY <1>5, ParseDoes, LenProperties
  <2>2. CASE buf' = b /\ UNCHANGED <<acks, cpc, result, cOpen>>
    <3>0. /\ Len(acks'[cur]) = Len(acks[cur]) /\ Len(acks'[cur]) \in Nat
          /\ Len(buf') = Len(b)
      BY <1>3, <2>2
    <3>1. 2 * Len(acks'[cur]) + Len(toClient'[cur]) + Len(buf')
            <= 2 * Len(acks[cur]) + Len(toClient[cur]) + Len(buf)
      BY <1>3, <1>5, <2>0, <2>1, <3>0, UnitSums, Zenon
    <3>2. link[cur] = "up" => 2 * Len(acks[cur]) + Len(toClient[cur]) + Len(buf)
                                <= 2 * Len(acks'[cur]) + Len(toClient'[cur]) + Len(buf')
      <4>1. SUFFICES ASSUME link[cur] = "up"
                     PROVE  2 * Len(acks[cur]) + Len(toClient[cur]) + Len(buf)
                              <= 2 * Len(acks'[cur]) + Len(toClient'[cur]) + Len(buf')
        OBVIOUS
      <4>2. Len(b) + Len(toClient'[cur]) = Len(buf) + Len(toClient[cur])
        BY <1>5, <4>1
      <4> QED BY <1>3, <2>0, <2>1, <3>0, <4>2, UnitSumsNoLess, Zenon
    <3> QED BY <1>2, <1>5, <2>1, <2>2, <3>1, <3>2
  <2>3. CASE /\ Len(b) >= 2 /\ b[1] \in {cur}
             /\ acks' = [acks EXCEPT ![cur] = Append(@, b[1])]
             /\ \/ /\ buf' = <<>> /\ cpc' = "get" /\ cOpen' = cOpen \ {cur}
                   /\ result' = [result EXCEPT ![cur] = "acked"]
                \/ /\ Len(buf') = Len(b) - 2 /\ UNCHANGED <<cpc, result, cOpen>>
    <3>1. /\ acks'[cur] = Append(acks[cur], b[1])
          /\ \A r \in Requests \ {cur} : acks'[r] = acks[r]
      BY <1>1, <2>3 DEF IInv2, IInv1, TypeOK
    <3>2. /\ acks'[cur] \in Seq({cur}) /\ Len(acks'[cur]) = Len(acks[cur]) + 1
          /\ Len(acks'[cur]) \in Nat
      BY <1>2, <1>3, <2>3, <3>1, OneMore
    <3>3. Len(buf') <= Len(b) - 2 /\ (cur \in cOpen' => Len(buf') = Len(b) - 2)
      <4>1. Len(<<>>) = 0
        BY EmptySeq
      <4> QED BY <2>0, <2>3, <4>1
    <3>4. 2 * Len(acks'[cur]) + Len(toClient'[cur]) + Len(buf')
            <= 2 * Len(acks[cur]) + Len(toClient[cur]) + Len(buf)
      BY <1>3, <1>5, <2>0, <2>1, <3>2, <3>3, UnitSums, Zenon
    <3>5. link[cur] = "up" /\ cur \in cOpen' =>
             2 * Len(acks[cur]) + Len(toClient[cur]) + Len(buf)
               <= 2 * Len(acks'[cur]) + Len(toClient'[cur]) + Len(buf')
      <4>1. SUFFICES ASSUME link[cur] = "up", cur \in cOpen'
                     PROVE  2 * Len(acks[cur]) + Len(toClient[cur]) + Len(buf)
                              <= 2 * Len(acks'[cur]) + Len(toClient'[cur]) + Len(buf')
        OBVIOUS
      <4>2. /\ Len(b) + Len(toClient'[cur]) = Len(buf) + Len(toClient[cur])
            /\ Len(buf') = Len(b) - 2
        BY <1>5, <3>3, <4>1
      <4> QED BY <1>3, <2>0, <2>1, <3>2, <4>2, UnitSumsNoLess, Zenon
    <3>6. /\ \A r \in Requests \ {cur} : (r \in cOpen' <=> r \in cOpen) /\ result'[r] = result[r]
          /\ result'[cur] # "closed" /\ (cpc' = "recv" => result' = result /\ cOpen' = cOpen)
      BY <1>1, <1>2, <2>3 DEF IInv2, IInv1, TypeOK
    <3> QED BY <1>5, <2>1, <3>1, <3>2, <3>4, <3>5, <3>6
  <2> QED BY <1>5, <2>2, <2>3, ParseDoes
<1>6. \/ TellClosed /\ toClient' = toClient
         /\ (link[cur] = "up" => cur \notin sOpen /\ toClient[cur] = <<>>)
      \/ \E b \in Seq({cur}) :
            /\ Parse(b) /\ \A r \in Requests \ {cur} : toClient'[r] = toClient[r]
            /\ toClient'[cur] \in Seq({cur})
            /\ Len(b) + Len(toClient'[cur]) <= Len(buf) + Len(toClient[cur])
            /\ link[cur] = "up" =>
                  Len(b) + Len(toClient'[cur]) = Len(buf) + Len(toClient[cur])
  BY <1>1, <1>2, RecvDoes
<1> QED BY <1>1, <1>4, <1>5, <1>6

(* The part of Total(r) that is still with the server. *)
LEMMA LeftIsNat ==
  ASSUME IInv2, NEW r \in Requests
  PROVE  /\ (IF spc = "send" /\ m_client = r THEN 2 * Len(lstPackets) ELSE 0) \in Nat
         /\ (IF r = cur THEN Len(buf) ELSE 0) \in Nat
         /\ Len(acks[r]) \in Nat /\ Len(toClient[r]) \in Nat /\ produced[r] \in Nat
<1>1. Len(lstPackets) \in Nat /\ Len(buf) \in Nat /\ Len(acks[r]) \in Nat
      /\ Len(toClient[r]) \in Nat /\ produced[r] \in Nat
  BY LenProperties DEF IInv2, IInv1, TypeOK
<1> QED BY <1>1

LEMMA AnswersRecv ==
  ASSUME IInv2, RecvData \/ RecvEnd \/ RecvError
  PROVE  Answers'
<1>1. /\ cur \in Requests /\ cpc' \in {"get", "recv"} /\ cpc = "recv"
      /\ UNCHANGED <<cur, backlog, link, sOpen, spc, m_client, lstPackets, executed, produced>>
      /\ \A r \in Requests \ {cur} :
            /\ acks'[r] = acks[r] /\ toClient'[r] = toClient[r]
            /\ (r \in cOpen' <=> r \in cOpen) /\ result'[r] = result[r]
      /\ acks'[cur] \in Seq({cur}) /\ toClient'[cur] \in Seq({cur}) /\ buf' \in Seq({cur})
      /\ cpc' = "recv" => result' = result /\ cOpen' = cOpen
  BY RecvUnits DEF RecvData, RecvEnd, RecvError
<1>2. result'[cur] = "closed" /\ link[cur] = "up" =>
         cur \notin sOpen /\ acks' = acks /\ toClient[cur] = <<>> /\ buf = <<>>
  BY RecvUnits
<1> DEFINE Left == IF spc = "send" /\ m_client = cur THEN 2 * Len(lstPackets) ELSE 0
           Units == 2 * Len(acks[cur]) + Len(toClient[cur]) + Len(buf)
           UnitsAfter == 2 * Len(acks'[cur]) + Len(toClient'[cur]) + Len(buf')
<1>3. UnitsAfter <= Units /\ (link[cur] = "up" /\ cur \in cOpen' => Units <= UnitsAfter)
  BY RecvUnits
<1>4. Left \in Nat /\ Units \in Nat /\ UnitsAfter \in Nat
  <2>1. Len(acks[cur]) \in Nat /\ Len(toClient[cur]) \in Nat /\ Len(buf) \in Nat /\ Left \in Nat
    BY <1>1, LeftIsNat
  <2>2. Len(acks'[cur]) \in Nat /\ Len(toClient'[cur]) \in Nat /\ Len(buf') \in Nat
    <3>1. acks'[cur] \in Seq({cur}) /\ toClient'[cur] \in Seq({cur}) /\ buf' \in Seq({cur})
      BY <1>1
    <3> QED BY <3>1, LenProperties
  <2>3. \A a, b, c \in Nat : 2 * a + b + c \in Nat
    OBVIOUS
  <2> QED BY <2>1, <2>2, <2>3, Zenon
<1>5. Total(cur) = Units + Left /\ Total(cur)' = UnitsAfter + Left
  BY <1>1 DEF Total
<1>6. Owned'
  BY <1>1 DEF IInv2, Answers, Owned
<1>7. NotYet'
  <2>1. ToCome' \subseteq ToCome /\ cur \notin ToCome'
    BY <1>1 DEF ToCome, Requests, IInv2, IInv1, TypeOK
  <2>2. \A r \in ToCome' : r \in ToCome /\ r \in Requests \ {cur}
    BY <2>1 DEF ToCome
  <2>3. \A r \in ToCome' : acks'[r] = <<>> /\ toClient'[r] = <<>> /\ link'[r] = "none"
                           /\ r \notin cOpen' /\ result'[r] = "none"
    BY <1>1, <2>2 DEF IInv2, Answers, NotYet
  <2> QED BY <1>1, <2>3 DEF IInv2, Answers, NotYet
<1>8. Balance'
  <2>1. \A r \in Requests \ {cur} : Total(r)' = Total(r)
    BY <1>1 DEF Total
  <2>2. \A r \in Requests \ {cur} :
           /\ Total(r)' <= 2 * produced'[r]
           /\ link'[r] = "up" /\ r \in cOpen' /\ spc' # "down" => Total(r)' = 2 * produced'[r]
    BY <1>1, <2>1 DEF IInv2, Answers, Balance
  <2>3. /\ Total(cur) <= 2 * produced[cur] /\ produced[cur] \in Nat
        /\ link[cur] = "up" /\ cur \in cOpen /\ spc # "down" => Total(cur) = 2 * produced[cur]
    BY <1>1, LeftIsNat DEF IInv2, Answers, Balance
  <2>4. cur \in cOpen
    BY <1>1 DEF IInv2, Answers, NotYet
  <2> HIDE DEF Left, Units, UnitsAfter
  <2>5. Total(cur)' <= 2 * produced[cur]
    BY <1>3, <1>4, <1>5, <2>3
  <2>6. link[cur] = "up" /\ cur \in cOpen' /\ spc # "down" => Total(cur)' = 2 * produced[cur]
    BY <1>3, <1>4, <1>5, <2>3, <2>4
  <2>7. \A r \in Requests : r = cur =>
           /\ Total(r)' <= 2 * produced'[r]
           /\ link'[r] = "up" /\ r \in cOpen' /\ spc' # "down" => Total(r)' = 2 * produced'[r]
    BY <1>1, <2>5, <2>6
  <2> QED BY <2>2, <2>7 DEF Balance
<1>9. StillOpen'
  BY <1>1 DEF IInv2, Answers, StillOpen
<1>10. Complete'
  <2>1. ASSUME result'[cur] = "closed", link[cur] = "up", spc # "down"
        PROVE  cur \notin sOpen /\ Len(acks'[cur]) = produced[cur]
    <3>1. cur \notin sOpen /\ acks' = acks /\ toClient[cur] = <<>> /\ buf = <<>>
      BY <1>2, <2>1
    <3>2. ~(spc = "send" /\ m_client = cur)
      BY <2>1, <3>1 DEF IInv2, Answers, StillOpen, Service
    <3>3. Total(cur) = 2 * produced[cur]
      BY <1>1, <2>1 DEF IInv2, Answers, Balance, NotYet
    <3>4. Left = 0 /\ Units = 2 * Len(acks[cur]) + 0 + 0
      <4>1. Len(<<>>) = 0
        BY EmptySeq
      <4> QED BY <3>1, <3>2, <4>1
    <3>5. Len(acks[cur]) \in Nat /\ produced[cur] \in Nat
      BY <1>1, LeftIsNat
    <3>6. 2 * Len(acks[cur]) = 2 * produced[cur]
      <4>1. Units + Left = 2 * Len(acks[cur]) + 0 + 0 + 0
        BY <3>4, Zenon
      <4>2. 2 * Len(acks[cur]) + 0 + 0 + 0 = 2 * Len(acks[cur])
        BY <3>5
      <4> QED BY <1>5, <3>3, <4>1, <4>2, Zenon
    <3> QED BY <3>1, <3>5, <3>6
  <2> QED BY <1>1, <2>1 DEF IInv2, Answers, Complete
<1> QED BY <1>6, <1>7, <1>8, <1>9, <1>10 DEF Answers

(* A packet is sent: two units more for the client, two fewer to send.      *)
LEMMA AnswersSendFront ==
  ASSUME IInv2, SendFront
  PROVE  Answers'
<1>1. /\ spc = "send" /\ lstPackets # <<>> /\ lstPackets' = Tail(lstPackets)
      /\ Delivered(<<Head(lstPackets), Head(lstPackets)>>)
      /\ UNCHANGED <<clientVars, backlog, link, cOpen, sOpen, toServer, spc, m_client, got,
                     count, executed, produced, full>>
  BY DEF SendFront, SentAll
<1>2. m_client \in Requests
  BY <1>1, ServedIsRequest DEF Service, IInv2
<1>3. lstPackets \in Seq({m_client}) /\ toClient[m_client] \in Seq({m_client})
  BY <1>1, <1>2 DEF IInv2, Answers, Owned
<1>4. /\ lstPackets' \in Seq({m_client})
      /\ Len(lstPackets) \in Nat \ {0} /\ Len(lstPackets') = Len(lstPackets) - 1
      /\ <<Head(lstPackets), Head(lstPackets)>> \in Seq({m_client})
      /\ Len(<<Head(lstPackets), Head(lstPackets)>>) = 2
  BY <1>1, <1>3, OneLess, FrontUnits
<1>5. /\ \A r \in Requests \ {m_client} : toClient'[r] = toClient[r]
      /\ toClient'[m_client] \in Seq({m_client})
      /\ Len(toClient[m_client]) \in Nat
      /\ Len(toClient'[m_client]) <= Len(toClient[m_client]) + 2
      /\ m_client \in cOpen /\ link[m_client] = "up" =>
            Len(toClient'[m_client]) = Len(toClient[m_client]) + 2
  BY <1>1, <1>2, <1>3, <1>4, DeliveredDoes DEF IInv2, IInv1
<1>6. Owned'
  BY <1>1, <1>4, <1>5 DEF IInv2, Answers, Owned, clientVars
<1>7. NotYet'
  <2>1. ToCome' = ToCome /\ m_client \notin ToCome
    BY <1>1, BegunNotToCome DEF ToCome, clientVars, IInv2, IInv1, Order, Service
  <2>2. \A r \in ToCome : r \in Requests \ {m_client}
    BY <2>1 DEF ToCome
  <2> QED BY <1>1, <1>5, <2>1, <2>2 DEF IInv2, Answers, NotYet, clientVars
<1>8. Balance'
  <2>1. \A r \in Requests \ {m_client} : Total(r)' = Total(r)
    BY <1>1, <1>5 DEF Total, clientVars
  <2>2. \A r \in Requests \ {m_client} :
           /\ Total(r)' <= 2 * produced'[r]
           /\ link'[r] = "up" /\ r \in cOpen' /\ spc' # "down" => Total(r)' = 2 * produced'[r]
    BY <1>1, <2>1 DEF IInv2, Answers, Balance
  <2> DEFINE Had == 2 * Len(acks[m_client])
             In == IF m_client = cur THEN Len(buf) ELSE 0
  <2>3. Had \in Nat /\ In \in Nat /\ produced[m_client] \in Nat
    <3>1. Len(acks[m_client]) \in Nat /\ In \in Nat /\ produced[m_client] \in Nat
      BY <1>2, LeftIsNat
    <3> QED BY <3>1
  <2>4. /\ Total(m_client) = Had + Len(toClient[m_client]) + In + 2 * Len(lstPackets)
        /\ Total(m_client)' = Had + Len(toClient'[m_client]) + In + 2 * Len(lstPackets')
    BY <1>1 DEF Total, clientVars
  <2>5. Len(toClient'[m_client]) \in Nat
    BY <1>5, LenProperties
  <2> HIDE DEF Had, In
  <2>6. /\ Total(m_client)' <= Total(m_client)
        /\ m_client \in cOpen /\ link[m_client] = "up" => Total(m_client) <= Total(m_client)'
        /\ Total(m_client) \in Nat /\ Total(m_client)' \in Nat
    <3>1. \A h, i, t, t2, l, l2 \in Nat : l2 = l - 1 /\ t2 <= t + 2 =>
             h + t2 + i + 2 * l2 <= h + t + i + 2 * l
      OBVIOUS
    <3>2. \A h, i, t, t2, l, l2 \in Nat : l2 = l - 1 /\ t2 = t + 2 =>
             h + t + i + 2 * l <= h + t2 + i + 2 * l2
      OBVIOUS
    <3>3. \A h, i, t, l \in Nat : h + t + i + 2 * l \in Nat
      OBVIOUS
    <3>4. Len(lstPackets) \in Nat /\ Len(lstPackets') \in Nat
      BY <1>4, LenProperties
    <3> DEFINE Before == Had + Len(toClient[m_client]) + In + 2 * Len(lstPackets)
               After == Had + Len(toClient'[m_client]) + In + 2 * Len(lstPackets')
    <3>5. Before \in Nat /\ After \in Nat
      BY <1>5, <2>3, <2>5, <3>3, <3>4, Zenon
    <3>6. After <= Before
      BY <1>4, <1>5, <2>3, <2>5, <3>1, <3>4, Zenon
    <3>7. ASSUME m_client \in cOpen, link[m_client] = "up"
          PROVE  Before <= After
      BY <1>4, <1>5, <2>3, <2>5, <3>2, <3>4, <3>7, Zenon
    <3>8. Total(m_client) = Before /\ Total(m_client)' = After
      BY <2>4
    <3> HIDE DEF Before, After
    <3> QED BY <3>5, <3>6, <3>7, <3>8
  <2>7. /\ Total(m_client) <= 2 * produced[m_client]
        /\ link[m_client] = "up" /\ m_client \in cOpen => Total(m_client) = 2 * produced[m_client]
    BY <1>1, <1>2 DEF IInv2, Answers, Balance
  <2>8. \A r \in Requests : r = m_client =>
           /\ Total(r)' <= 2 * produced'[r]
           /\ link'[r] = "up" /\ r \in cOpen' /\ spc' # "down" => Total(r)' = 2 * produced'[r]
    BY <1>1, <2>3, <2>6, <2>7
  <2> QED BY <2>2, <2>8 DEF Balance
<1>9. StillOpen' /\ Complete'
  BY <1>1 DEF IInv2, Answers, StillOpen, Complete, clientVars
<1> QED BY <1>6, <1>7, <1>8, <1>9 DEF Answers

(* The connection that is closed is not one of those in the backlog.        *)
LEMMA AnswersClose ==
  ASSUME IInv2, CloseClient
  PROVE  Answers'
<1>1. /\ spc = "close" /\ spc' = "accept" /\ m_client' = 0 /\ sOpen' = sOpen \ {m_client}
      /\ UNCHANGED <<clientVars, backlog, link, cOpen, toServer, toClient, got, lstPackets,
                     count, executed, produced, full>>
  BY DEF CloseClient, CloseSocket
<1>2. Owned'
  BY <1>1 DEF IInv2, Answers, Owned, clientVars
<1>3. NotYet'
  <2>1. ToCome' = ToCome
    BY <1>1 DEF ToCome, clientVars
  <2> QED BY <1>1, <2>1 DEF IInv2, Answers, NotYet, clientVars
<1>4. Balance'
  <2>1. \A r \in Requests : Total(r)' = Total(r)
    BY <1>1 DEF Total, clientVars
  <2> QED BY <1>1, <2>1 DEF IInv2, Answers, Balance
<1>5. StillOpen'
  <2>1. m_client \in Requests
    BY <1>1, ServedIsRequest DEF Service, IInv2
  <2>2. \A j \in DOMAIN backlog : m_client < backlog[j] /\ backlog[j] \in sOpen
    BY <1>1 DEF IInv2, IInv1, Order, Answers, StillOpen, Service
  <2>3. \A j \in DOMAIN backlog : backlog[j] # m_client
    BY <2>1, <2>2 DEF Requests
  <2> QED BY <1>1, <2>2, <2>3 DEF StillOpen, Service
<1>6. Complete'
  BY <1>1 DEF IInv2, Answers, Complete, clientVars
<1> QED BY <1>2, <1>3, <1>4, <1>5, <1>6 DEF Answers

LEMMA AnswersBreak ==
  ASSUME IInv2, NEW b \in Requests, Break(b)
  PROVE  Answers'
<1>1. /\ link[b] = "up" /\ link' = [link EXCEPT ![b] = "broken"]
      /\ toClient' = [toClient EXCEPT ![b] = <<>>]
      /\ UNCHANGED <<clientVars, backlog, cOpen, sOpen, serverVars, full>>
  BY DEF Break
<1>2. /\ \A r \in Requests : toClient'[r] = IF r = b THEN <<>> ELSE toClient[r]
      /\ \A r \in Requests : link'[r] = IF r = b THEN "broken" ELSE link[r]
  BY <1>1 DEF IInv2, IInv1, TypeOK
<1>3. Owned'
  <2>1. <<>> \in Seq({b})
    BY EmptySeq
  <2> QED BY <1>1, <1>2, <2>1 DEF IInv2, Answers, Owned, clientVars, serverVars
<1>4. NotYet'
  <2>1. ToCome' = ToCome /\ b \notin ToCome
    BY <1>1 DEF ToCome, clientVars, IInv2, Answers, NotYet
  <2>2. \A r \in ToCome : r \in Requests \ {b}
    BY <2>1 DEF ToCome
  <2> QED BY <1>1, <1>2, <2>1, <2>2 DEF IInv2, Answers, NotYet, clientVars, serverVars
<1>5. Balance'
  <2>1. \A r \in Requests \ {b} : Total(r)' = Total(r)
    BY <1>1, <1>2 DEF Total, clientVars, serverVars
  <2>2. \A r \in Requests \ {b} :
           /\ Total(r)' <= 2 * produced'[r]
           /\ link'[r] = "up" /\ r \in cOpen' /\ spc' # "down" => Total(r)' = 2 * produced'[r]
    BY <1>1, <1>2, <2>1 DEF IInv2, Answers, Balance, serverVars
  <2> DEFINE Had == 2 * Len(acks[b])
             In == IF b = cur THEN Len(buf) ELSE 0
             Left == IF spc = "send" /\ m_client = b THEN 2 * Len(lstPackets) ELSE 0
  <2>3. Had \in Nat /\ In \in Nat /\ Left \in Nat /\ Len(toClient[b]) \in Nat
    <3>1. Len(acks[b]) \in Nat /\ In \in Nat /\ Left \in Nat /\ Len(toClient[b]) \in Nat
      BY LeftIsNat
    <3> QED BY <3>1
  <2>4. Total(b) = Had + Len(toClient[b]) + In + Left /\ Total(b)' = Had + 0 + In + Left
    <3>1. toClient'[b] = <<>> /\ Len(<<>>) = 0
      BY <1>2, EmptySeq
    <3>2. Len(toClient'[b]) = 0
      BY <3>1
    <3>3. Total(b)' = Had + Len(toClient'[b]) + In + Left
      BY <1>1 DEF Total, clientVars, serverVars
    <3>4. Total(b)' = Had + 0 + In + Left
      BY <3>2, <3>3, Zenon
    <3> QED BY <3>4 DEF Total
  <2> HIDE DEF Had, In, Left
  <2>5. Total(b) <= 2 * produced[b] /\ produced[b] \in Nat
    BY LeftIsNat DEF IInv2, Answers, Balance
  <2>6. Total(b)' <= 2 * produced[b]
    BY <2>3, <2>4, <2>5
  <2>7. \A r \in Requests : r = b => Total(r)' <= 2 * produced'[r] /\ link'[r] = "broken"
    BY <1>1, <1>2, <2>6 DEF serverVars
  <2> QED BY <2>2, <2>7 DEF Balance
<1>6. StillOpen'
  BY <1>1 DEF IInv2, Answers, StillOpen, serverVars
<1>7. Complete'
  BY <1>1, <1>2 DEF IInv2, Answers, Complete, clientVars, serverVars
<1> QED BY <1>3, <1>4, <1>5, <1>6, <1>7 DEF Answers

LEMMA HalfMore ==
  ASSUME NEW had \in Nat, NEW old \in Nat, NEW new \in Nat, NEW in \in Nat,
         NEW left \in Nat, NEW made \in Nat,
         had + old + in + left <= 2 * made, new <= old + 1, left >= 1
  PROVE  had + new + in <= 2 * made
OBVIOUS

(* The process ends, maybe in the middle of the packet it is sending.       *)
LEMMA AnswersEnds ==
  ASSUME IInv2, ProcessEnds, UNCHANGED <<clientVars, cOpen, lstPackets, executed, produced>>,
         \/ UNCHANGED toClient
         \/ spc = "send" /\ lstPackets # <<>> /\ Delivered(<<Head(lstPackets)>>)
  PROVE  Answers'
<1>1. /\ spc' = "down" /\ backlog' = <<>>
      /\ link' = [r \in Requests |-> IF r \in ToSet(backlog) THEN "broken" ELSE link[r]]
  BY DEF ProcessEnds
<1>2. \A r \in Requests : /\ toClient'[r] \in Seq({r})
                          /\ r \in ToCome => toClient'[r] = toClient[r]
                          /\ 2 * Len(acks[r]) + Len(toClient'[r])
                               + (IF r = cur THEN Len(buf) ELSE 0) <= 2 * produced[r]
  <2> SUFFICES ASSUME NEW r \in Requests
               PROVE  /\ toClient'[r] \in Seq({r})
                      /\ r \in ToCome => toClient'[r] = toClient[r]
                      /\ 2 * Len(acks[r]) + Len(toClient'[r])
                           + (IF r = cur THEN Len(buf) ELSE 0) <= 2 * produced[r]
    OBVIOUS
  <2> DEFINE Had == 2 * Len(acks[r])
             In == IF r = cur THEN Len(buf) ELSE 0
             Left == IF spc = "send" /\ m_client = r THEN 2 * Len(lstPackets) ELSE 0
  <2>1. /\ Had \in Nat /\ In \in Nat /\ Left \in Nat /\ Len(toClient[r]) \in Nat
        /\ produced[r] \in Nat
    <3>1. Len(acks[r]) \in Nat /\ In \in Nat /\ Left \in Nat /\ Len(toClient[r]) \in Nat
          /\ produced[r] \in Nat
      BY LeftIsNat
    <3> QED BY <3>1
  <2>2. Had + Len(toClient[r]) + In + Left <= 2 * produced[r]
    <3>1. Total(r) <= 2 * produced[r] /\ Total(r) = Had + Len(toClient[r]) + In + Left
      BY DEF Total, IInv2, Answers, Balance
    <3> QED BY <3>1
  <2>3. toClient[r] \in Seq({r})
    BY DEF IInv2, Answers, Owned
  <2>4. ASSUME toClient'[r] = toClient[r]
        PROVE  Had + Len(toClient'[r]) + In <= 2 * produced[r]
    <3> HIDE DEF Had, In, Left
    <3>1. Had + Len(toClient[r]) + In <= 2 * produced[r]
      BY <2>1, <2>2
    <3> QED BY <2>4, <3>1
  <2>5. CASE UNCHANGED toClient
    BY <2>3, <2>4, <2>5
  <2>6. CASE spc = "send" /\ lstPackets # <<>> /\ Delivered(<<Head(lstPackets)>>)
    <3>1. /\ m_client \in Requests /\ lstPackets \in Seq({m_client})
          /\ toClient[m_client] \in Seq({m_client})
      BY <2>6, ServedIsRequest DEF Service, IInv2, Answers, Owned
    <3>2. /\ <<Head(lstPackets)>> \in Seq({m_client}) /\ Len(<<Head(lstPackets)>>) = 1
          /\ Len(lstPackets) \in Nat \ {0}
      BY <2>6, <3>1, FrontUnits, OneLess
    <3>3. /\ r # m_client => toClient'[r] = toClient[r]
          /\ toClient'[m_client] \in Seq({m_client})
          /\ Len(toClient'[m_client]) <= Len(toClient[m_client]) + 1
      BY <2>6, <3>1, <3>2, DeliveredDoes DEF IInv2, IInv1
    <3>4. CASE r # m_client
      BY <2>3, <2>4, <3>3, <3>4
    <3>5. CASE r = m_client
      <4>1. r \notin ToCome
        BY <2>6, <3>5, BegunNotToCome DEF IInv2, IInv1, Order, Service
      <4>2. toClient'[r] \in Seq({r}) /\ Len(toClient'[r]) <= Len(toClient[r]) + 1
        BY <3>3, <3>5
      <4>3. Len(toClient'[r]) \in Nat
        BY <4>2, LenProperties
      <4>4. Left = 2 * Len(lstPackets)
        BY <2>6, <3>5
      <4>5. Had + Len(toClient'[r]) + In <= 2 * produced[r]
        <5>1. Left >= 1
          BY <3>2, <4>4
        <5> HIDE DEF Had, In, Left
        <5> QED BY <2>1, <2>2, <4>2, <4>3, <5>1, HalfMore
      <4> QED BY <4>1, <4>2, <4>5
    <3> QED BY <3>4, <3>5
  <2> QED BY <2>5, <2>6
<1>3. Owned'
  BY <1>1, <1>2 DEF IInv2, Answers, Owned, clientVars
<1>4. NotYet'
  <2>1. ToCome' = ToCome /\ ToCome \subseteq Requests
    BY DEF ToCome, clientVars
  <2>2. \A r \in ToSet(backlog) : r \in Begun
    BY DEF ToSet, IInv2, IInv1, Order
  <2>3. \A r \in ToCome : link'[r] = link[r]
    BY <1>1, <2>1, <2>2, BegunNotToCome DEF IInv2, IInv1
  <2> QED BY <1>2, <2>1, <2>3 DEF IInv2, Answers, NotYet, clientVars
<1>5. Balance'
  <2>1. \A r \in Requests : Total(r)' = 2 * Len(acks[r]) + Len(toClient'[r])
                                          + (IF r = cur THEN Len(buf) ELSE 0) + 0
    BY <1>1 DEF Total, clientVars
  <2>2. \A r \in Requests : Total(r)' <= 2 * produced'[r]
    <3> SUFFICES ASSUME NEW r \in Requests PROVE Total(r)' <= 2 * produced'[r]
      OBVIOUS
    <3> DEFINE Sum == 2 * Len(acks[r]) + Len(toClient'[r]) + (IF r = cur THEN Len(buf) ELSE 0)
    <3>1. Sum <= 2 * produced[r]
      BY <1>2
    <3>2. Sum \in Nat
      <4>1. Len(acks[r]) \in Nat /\ (IF r = cur THEN Len(buf) ELSE 0) \in Nat
        BY LeftIsNat
      <4>2. Len(toClient'[r]) \in Nat
        BY <1>2, LenProperties
      <4>3. \A i, j, k \in Nat : 2 * i + j + k \in Nat
        OBVIOUS
      <4> QED BY <4>1, <4>2, <4>3, Zenon
    <3>3. Total(r)' = Sum + 0
      BY <2>1
    <3> HIDE DEF Sum
    <3>4. Sum + 0 = Sum
      BY <3>2
    <3> QED BY <3>1, <3>3, <3>4
  <2> QED BY <1>1, <2>2 DEF Balance
<1>6. StillOpen' /\ Complete'
  BY <1>1 DEF StillOpen, Complete
<1> QED BY <1>3, <1>4, <1>5, <1>6 DEF Answers

LEMMA InitIInv2 == Init => IInv2
<1> SUFFICES ASSUME Init PROVE IInv2
  OBVIOUS
<1>1. \A r : <<>> \in Seq({r})
  BY EmptySeq
<1>2. Len(<<>>) = 0
  BY EmptySeq
<1>3. Owned
  BY <1>1 DEF Init, Owned
<1>4. NotYet
  BY DEF Init, NotYet, ToCome
<1>5. \A r \in Requests : Total(r) = 0
  <2>1. \A r \in Requests : /\ Len(acks[r]) = 0 /\ Len(toClient[r]) = 0 /\ Len(buf) = 0
                            /\ spc # "send"
    BY <1>2 DEF Init
  <2>2. \A r \in Requests : Total(r) = 2 * 0 + 0 + 0 + 0
    BY <2>1 DEF Total
  <2> QED BY <2>2
<1>6. Balance
  BY <1>5 DEF Init, Balance
<1>7. StillOpen /\ Complete
  BY DEF Init, StillOpen, Complete, Service
<1> QED BY <1>3, <1>4, <1>6, <1>7, InitIInv1 DEF IInv2, Answers

LEMMA NextIInv2 == IInv2 /\ [Next]_vars => IInv2'
<1> SUFFICES ASSUME IInv2, [Next]_vars PROVE IInv2'
  OBVIOUS
<1>1. IInv1'
  BY NextIInv1 DEF IInv2
<1>2. SUFFICES Answers'
  BY <1>1 DEF IInv2
<1>3. CASE UNCHANGED vars
  BY <1>3, AnswersKept DEF vars, clientVars, linkVars, serverVars
<1>4. CASE \/ \E a \in BOOLEAN : SendPacket(a)
           \/ ConnectFails \/ CloseBox \/ Send \/ SendFails \/ AcceptFails \/ DealRecv \/ DealEnd \/ SendEnd
  BY <1>4, AnswersQuiet
<1>5. CASE DealError
  <2>1. CASE ProcessEnds
    <3>1. UNCHANGED <<clientVars, cOpen, lstPackets, executed, produced, toClient>>
      BY <1>5 DEF DealError
    <3> QED BY <2>1, <3>1, AnswersEnds
  <2>2. CASE ~ProcessEnds
    BY <1>5, <2>2, AnswersQuiet
  <2> QED BY <2>1, <2>2
<1>6. CASE Die
  <2>1. /\ ProcessEnds /\ UNCHANGED <<clientVars, cOpen, lstPackets, executed, produced>>
        /\ \/ UNCHANGED toClient
           \/ spc = "send" /\ lstPackets # <<>> /\ Delivered(<<Head(lstPackets)>>)
    BY <1>6 DEF Die
  <2> QED BY <2>1, AnswersEnds
<1> QED BY <1>3, <1>4, <1>5, <1>6, AnswersGet, AnswersConnect, AnswersAccept, AnswersRun,
           AnswersRecv, AnswersSendFront, AnswersClose, AnswersBreak DEF Next, SendPack, Run

LEMMA Invariant2 == Spec => []IInv2
BY InitIInv2, NextIInv2, PTL DEF Spec

(* The window is given packets of the very command it asked for, no more    *)
(* than that made, and all of them where the server's closing of an         *)
(* unbroken connection ends the request; for any number of packets.         *)
THEOREM OwnAnswersHolds == Spec => []OwnAnswers
<1>1. IInv2 => OwnAnswers
  <2> SUFFICES ASSUME IInv2, NEW r \in Requests
               PROVE  /\ Len(acks[r]) <= produced[r] /\ ToSet(acks[r]) \subseteq {r}
                      /\ result[r] = "closed" /\ link[r] = "up" /\ spc # "down" =>
                             Len(acks[r]) = produced[r]
    BY DEF OwnAnswers
  <2>1. ToSet(acks[r]) \subseteq {r}
    <3>1. acks[r] \in Seq({r})
      BY DEF IInv2, Answers, Owned
    <3>2. DOMAIN acks[r] = 1..Len(acks[r]) /\ \A i \in 1..Len(acks[r]) : acks[r][i] \in {r}
      BY <3>1, LenProperties, ElementOfSeq
    <3> QED BY <3>2 DEF ToSet
  <2> DEFINE In == IF r = cur THEN Len(buf) ELSE 0
             Left == IF spc = "send" /\ m_client = r THEN 2 * Len(lstPackets) ELSE 0
  <2>2. Left \in Nat /\ In \in Nat /\ Len(acks[r]) \in Nat /\ Len(toClient[r]) \in Nat
        /\ produced[r] \in Nat
    BY LeftIsNat
  <2>3. 2 * Len(acks[r]) + Len(toClient[r]) + In + Left <= 2 * produced[r]
    <3>1. Total(r) <= 2 * produced[r]
      BY DEF IInv2, Answers, Balance
    <3> QED BY <3>1 DEF Total
  <2> HIDE DEF In, Left
  <2>4. Len(acks[r]) <= produced[r]
    <3>1. \A a, t, i, l, p \in Nat : 2 * a + t + i + l <= 2 * p => a <= p
      OBVIOUS
    <3> QED BY <2>2, <2>3, <3>1, Zenon
  <2> QED BY <2>1, <2>4 DEF IInv2, Answers, Complete
<1> QED BY <1>1, Invariant2, PTL

-----------------------------------------------------------------------------
(* The backlog.  While every connection holds and every request is sent,    *)
(* the client takes the next request only when the server has closed or     *)
(* answered the one before, so that nothing is in the backlog any more.     *)

Unconnected == {"refused", "failed", "lost"}

(* How the requests ended, and that the one in the way was given up.        *)
Outcomes ==
    /\ \A k \in Requests : k < cur \/ (k = cur /\ cpc \in {"get", "box"}) => result[k] # "none"
    /\ \A k \in Requests : result[k] \in Unconnected => link[k] = "none"
    /\ \A k \in Requests : result[k] = "acked" => acks[k] # <<>>
    /\ \A j \in DOMAIN backlog : link[backlog[j]] # "none"
    /\ BacklogSuffices

IInv3 == IInv2 /\ Outcomes

(* A step at which no connection is made and no request taken or refused.   *)
LEMMA OutcomesKept ==
  ASSUME IInv1, Outcomes, UNCHANGED <<full, cur>>,
         cpc' \in {"get", "box"} => cpc \in {"get", "box"} \/ result'[cur] # "none",
         \A k \in Requests :
            \/ result'[k] = result[k]
            \/ result[k] = "failed" /\ result'[k] = "refused"
            \/ /\ k = cur /\ result[k] = "none" /\ result'[k] \notin {"none"} \cup Unconnected
               /\ result'[k] = "acked" => acks'[k] # <<>>,
         \A k \in Requests : acks[k] # <<>> => acks'[k] # <<>>,
         \A k \in Requests : link'[k] = link[k] \/ (link[k] # "none" /\ link'[k] = "broken"),
         \A j \in DOMAIN backlog' : \E i \in DOMAIN backlog : backlog'[j] = backlog[i]
  PROVE  Outcomes'
<1>1. \A k \in Requests : k < cur \/ (k = cur /\ cpc' \in {"get", "box"}) => result'[k] # "none"
  BY DEF Outcomes
<1>2. \A k \in Requests : result'[k] \in Unconnected => link'[k] = "none"
  BY DEF Outcomes, Unconnected
<1>3. \A k \in Requests : result'[k] = "acked" => acks'[k] # <<>>
  BY DEF Outcomes
<1>4. \A j \in DOMAIN backlog' : link'[backlog'[j]] # "none"
  <2> SUFFICES ASSUME NEW j \in DOMAIN backlog' PROVE link'[backlog'[j]] # "none"
    OBVIOUS
  <2>1. PICK i \in DOMAIN backlog : backlog'[j] = backlog[i]
    OBVIOUS
  <2>2. backlog[i] \in Requests
    BY DEF IInv1, TypeOK
  <2> QED BY <2>1, <2>2 DEF Outcomes
<1>5. BacklogSuffices'
  <2> SUFFICES ASSUME NEW r \in full
               PROVE  \E k \in 1..(r - 1) : link'[k] = "broken" \/ result'[k] = "unsent"
    BY DEF BacklogSuffices
  <2>1. r \in Requests
    BY DEF IInv1, TypeOK
  <2>2. PICK k \in 1..(r - 1) : link[k] = "broken" \/ result[k] = "unsent"
    BY DEF Outcomes, BacklogSuffices
  <2>3. k \in Requests
    BY <2>1, <2>2, SessionAssumption DEF Requests
  <2> QED BY <2>2, <2>3 DEF Unconnected
<1> QED BY <1>1, <1>2, <1>3, <1>4, <1>5 DEF Outcomes

LEMMA OutcomesGet ==
  ASSUME IInv2, Outcomes, GetMessage \/ BoxTakes
  PROVE  Outcomes'
<1>1. /\ cpc \in {"get", "box"} /\ cur' = cur + 1 /\ cur \in Nat
      /\ \/ cpc' = "connect" /\ UNCHANGED result
         \/ cpc' = "box" /\ result' = [result EXCEPT ![cur'] = "lost"]
      /\ cur' \in Requests
      /\ UNCHANGED <<acks, link, backlog, full>>
  <2>1. cur \in Nat /\ posted \in 0..MaxRequests
    BY SessionAssumption DEF IInv2, IInv1, TypeOK
  <2>2. cur < posted /\ cur' = cur + 1
    BY DEF GetMessage, BoxTakes
  <2>3. cur' \in Requests
    BY <2>1, <2>2, SessionAssumption DEF Requests
  <2> QED BY <2>1, <2>2, <2>3 DEF GetMessage, BoxTakes, linkVars
<1>2. \A k \in Requests : k < cur' => k < cur \/ k = cur
  BY <1>1 DEF Requests
<1>3. cur' \in ToCome
  BY <1>1 DEF ToCome
<1>4. link[cur'] = "none" /\ result[cur'] = "none"
  BY <1>3 DEF IInv2, Answers, NotYet
<1>5. /\ cpc' = "box" => result'[cur'] = "lost"
      /\ \A k \in Requests : \/ result'[k] = result[k]
                             \/ k = cur' /\ result'[k] = "lost"
  BY <1>1 DEF IInv2, IInv1, TypeOK
<1>6. BacklogSuffices'
  <2> SUFFICES ASSUME NEW r \in full
               PROVE  \E k \in 1..(r - 1) : link[k] = "broken" \/ result'[k] = "unsent"
    BY <1>1 DEF BacklogSuffices
  <2>1. r \in Requests
    BY DEF IInv2, IInv1, TypeOK
  <2>2. PICK k \in 1..(r - 1) : link[k] = "broken" \/ result[k] = "unsent"
    BY DEF Outcomes, BacklogSuffices
  <2>3. k \in Requests /\ k # cur'
    BY <1>4, <2>1, <2>2, SessionAssumption DEF Requests
  <2> QED BY <1>5, <2>2, <2>3
<1>7. \A k \in Requests : k < cur' \/ (k = cur' /\ cpc' \in {"get", "box"}) => result'[k] # "none"
  <2>1. \A k \in Requests : k < cur' => result[k] # "none"
    BY <1>1, <1>2 DEF Outcomes
  <2> QED BY <1>1, <1>5, <2>1
<1>8. /\ \A k \in Requests : result'[k] \in Unconnected => link'[k] = "none"
      /\ \A k \in Requests : result'[k] = "acked" => acks'[k] # <<>>
      /\ \A j \in DOMAIN backlog' : link'[backlog'[j]] # "none"
  BY <1>1, <1>4, <1>5 DEF Outcomes
<1> QED BY <1>6, <1>7, <1>8 DEF Outcomes

LEMMA OutcomesConnect ==
  ASSUME IInv2, Outcomes, Connect
  PROVE  Outcomes'
<1>1. /\ cpc = "connect" /\ cpc' = "send" /\ cur \in Requests
      /\ backlog' = Append(backlog, cur) /\ link' = [link EXCEPT ![cur] = "up"]
      /\ UNCHANGED <<cur, acks, result, full>>
  BY SessionAssumption DEF Connect, IInv2, IInv1, TypeOK, Places, Requests
<1>2. link'[cur] = "up" /\ \A k \in Requests \ {cur} : link'[k] = link[k]
  BY <1>1 DEF IInv2, IInv1, TypeOK
<1>3. link[cur] = "none" /\ result[cur] = "none"
  BY <1>1 DEF IInv2, Answers, NotYet, ToCome
<1>4. \A j \in DOMAIN backlog' : link'[backlog'[j]] # "none"
  <2>1. \A j \in DOMAIN backlog' : \/ backlog'[j] = cur
                                   \/ j \in DOMAIN backlog /\ backlog'[j] = backlog[j]
    BY <1>1, OneMore DEF IInv2, IInv1, TypeOK
  <2>2. \A j \in DOMAIN backlog : backlog[j] \in Requests
    BY DEF IInv2, IInv1, TypeOK
  <2> QED BY <1>2, <2>1, <2>2 DEF Outcomes
<1>5. BacklogSuffices'
  <2> SUFFICES ASSUME NEW r \in full
               PROVE  \E k \in 1..(r - 1) : link'[k] = "broken" \/ result'[k] = "unsent"
    BY <1>1 DEF BacklogSuffices
  <2>1. r \in Requests
    BY DEF IInv2, IInv1, TypeOK
  <2>2. PICK k \in 1..(r - 1) : link[k] = "broken" \/ result[k] = "unsent"
    BY DEF Outcomes, BacklogSuffices
  <2>3. k \in Requests /\ k # cur
    BY <1>3, <2>1, <2>2, SessionAssumption DEF Requests
  <2> QED BY <1>1, <1>2, <2>2, <2>3
<1>6. /\ \A k \in Requests : k < cur' \/ (k = cur' /\ cpc' \in {"get", "box"}) => result'[k] # "none"
      /\ \A k \in Requests : result'[k] = "acked" => acks'[k] # <<>>
  BY <1>1 DEF Outcomes
<1>7. \A k \in Requests : result'[k] \in Unconnected => link'[k] = "none"
  BY <1>1, <1>2, <1>3 DEF Outcomes, Unconnected
<1> QED BY <1>4, <1>5, <1>6, <1>7 DEF Outcomes

(* The backlog is full: what is in it was connected and given up.           *)
LEMMA GivenUp ==
  ASSUME IInv2, Outcomes, cpc = "connect", spc # "down", Len(backlog) >= Listen
  PROVE  \E k \in 1..(cur - 1) : link[k] = "broken" \/ result[k] = "unsent"
<1> DEFINE k == backlog[1]
<1>1. 1 \in DOMAIN backlog /\ k \in Requests
  BY DEF Listen, IInv2, IInv1, TypeOK
<1>2. k \in Begun /\ \A i \in DOMAIN executed : executed[i] # k
  <2>1. \A i \in DOMAIN executed : executed[i] < k /\ executed[i] \in Requests
    BY <1>1 DEF IInv2, IInv1, Order, TypeOK
  <2> QED BY <1>1, <2>1 DEF IInv2, IInv1, Order, Requests
<1>3. k < cur /\ k \in 1..(cur - 1)
  BY <1>2 DEF Begun, Requests, IInv2, IInv1, TypeOK
<1>4. link[k] # "none" /\ result[k] \notin {"none"} \cup Unconnected
  BY <1>1, <1>3 DEF Outcomes
<1>5. k \in sOpen
  BY <1>1 DEF IInv2, Answers, StillOpen
<1>6. ASSUME link[k] = "up" PROVE result[k] # "closed"
  BY <1>1, <1>5, <1>6 DEF IInv2, Answers, Complete
<1>7. result[k] # "acked"
  <2>1. produced[k] = 0
    BY <1>1, <1>2 DEF IInv2, Answers, NotYet
  <2> DEFINE In == IF k = cur THEN Len(buf) ELSE 0
             Left == IF spc = "send" /\ m_client = k THEN 2 * Len(lstPackets) ELSE 0
  <2>2. Left \in Nat /\ In \in Nat /\ Len(acks[k]) \in Nat /\ Len(toClient[k]) \in Nat
    BY <1>1, LeftIsNat
  <2>3. 2 * Len(acks[k]) + Len(toClient[k]) + In + Left <= 2 * produced[k]
    <3>1. Total(k) <= 2 * produced[k]
      BY <1>1 DEF IInv2, Answers, Balance
    <3> QED BY <3>1 DEF Total
  <2> HIDE DEF In, Left
  <2>4. Len(acks[k]) = 0
    <3>1. \A a, t, i, l, p \in Nat : 2 * a + t + i + l <= 2 * p /\ p = 0 => a = 0
      OBVIOUS
    <3>2. produced[k] \in Nat
      BY <1>1, LeftIsNat
    <3> QED BY <2>1, <2>2, <2>3, <3>1, <3>2, Zenon
  <2>5. acks[k] \in Seq(Requests)
    BY <1>1 DEF IInv2, IInv1, TypeOK
  <2>6. acks[k] = <<>>
    BY <2>4, <2>5, EmptySeq
  <2> QED BY <1>1, <2>6 DEF Outcomes
<1>8. link[k] \in {"none", "up", "broken"} /\ result[k] \in Results
  BY <1>1 DEF IInv2, IInv1, TypeOK, Results
<1> QED BY <1>3, <1>4, <1>6, <1>7, <1>8 DEF Results, Unconnected

LEMMA OutcomesRefused ==
  ASSUME IInv2, Outcomes, ConnectFails
  PROVE  Outcomes'
<1>1. /\ cpc = "connect" /\ cpc' = "box" /\ cur \in Requests
      /\ result' = [result EXCEPT ![cur] = "failed"]
      /\ UNCHANGED <<cur, acks, link, backlog>>
  BY SessionAssumption
  DEF ConnectFails, linkVars, IInv2, IInv1, TypeOK, Places, Requests
<1>2. result'[cur] = "failed" /\ \A k \in Requests \ {cur} : result'[k] = result[k]
  BY <1>1 DEF IInv2, IInv1, TypeOK
<1>3. link[cur] = "none" /\ result[cur] = "none"
  BY <1>1 DEF IInv2, Answers, NotYet, ToCome
<1>4. \A r \in full' : r \in Requests /\ \E k \in 1..(r - 1) : link[k] = "broken" \/ result[k] = "unsent"
  <2>1. \A r \in full : r \in Requests /\ \E k \in 1..(r - 1) : link[k] = "broken" \/ result[k] = "unsent"
    BY DEF Outcomes, BacklogSuffices, IInv2, IInv1, TypeOK
  <2>2. CASE Listening /\ Len(backlog) >= Listen
    <3>1. \E k \in 1..(cur - 1) : link[k] = "broken" \/ result[k] = "unsent"
      BY <1>1, <2>2, GivenUp DEF Listening
    <3>2. full' = full \cup {cur}
      BY <2>2 DEF ConnectFails
    <3> QED BY <1>1, <2>1, <3>1, <3>2
  <2>3. CASE ~(Listening /\ Len(backlog) >= Listen)
    BY <2>1, <2>3 DEF ConnectFails
  <2> QED BY <2>2, <2>3
<1>5. BacklogSuffices'
  <2> SUFFICES ASSUME NEW r \in full'
               PROVE  \E k \in 1..(r - 1) : link'[k] = "broken" \/ result'[k] = "unsent"
    BY DEF BacklogSuffices
  <2>1. PICK k \in 1..(r - 1) : r \in Requests /\ (link[k] = "broken" \/ result[k] = "unsent")
    BY <1>4
  <2>2. k \in Requests /\ k # cur
    BY <1>3, <2>1, SessionAssumption DEF Requests
  <2> QED BY <1>1, <1>2, <2>1, <2>2
<1> QED BY <1>1, <1>2, <1>3, <1>5 DEF Outcomes, Unconnected

LEMMA OutcomesRecv ==
  ASSUME IInv2, Outcomes, RecvData \/ RecvEnd \/ RecvError
  PROVE  Outcomes'
<1>1. /\ cpc = "recv" /\ cur \in Requests /\ cpc' \in {"get", "recv"}
      /\ UNCHANGED <<cur, backlog, link, full>>
  BY RecvTypes DEF IInv2, IInv1
<1>2. result[cur] = "none"
  BY <1>1 DEF IInv2, Answers, NotYet
<1>3. DOMAIN toClient = Requests /\ buf \in Seq(Requests) /\ toClient[cur] \in Seq(Requests)
  BY <1>1 DEF IInv2, IInv1, TypeOK
<1>4. CASE TellClosed
  <2>1. result' = [result EXCEPT ![cur] = "closed"] /\ acks' = acks
    BY <1>4 DEF TellClosed, Ended
  <2>2. result'[cur] = "closed" /\ \A k \in Requests \ {cur} : result'[k] = result[k]
    BY <1>1, <2>1 DEF IInv2, IInv1, TypeOK
  <2> QED BY <1>1, <1>2, <2>1, <2>2, OutcomesKept DEF IInv2, Unconnected
<1>5. ASSUME NEW b \in Seq(Requests), Parse(b) PROVE Outcomes'
  <2>1. CASE UNCHANGED <<acks, cpc, result, cOpen>>
    BY <1>1, <2>1, OutcomesKept DEF IInv2, Unconnected
  <2>2. CASE /\ b[1] \in Requests /\ acks' = [acks EXCEPT ![cur] = Append(@, b[1])]
             /\ \/ cpc' = "get" /\ result' = [result EXCEPT ![cur] = "acked"]
                \/ UNCHANGED <<cpc, result>>
    <3>1. acks'[cur] # <<>> /\ \A k \in Requests \ {cur} : acks'[k] = acks[k]
      <4>1. acks[cur] \in Seq(Requests) /\ acks'[cur] = Append(acks[cur], b[1])
        BY <1>1, <2>2 DEF IInv2, IInv1, TypeOK
      <4>2. Append(acks[cur], b[1]) # <<>>
        BY <2>2, <4>1
      <4> QED BY <1>1, <2>2, <4>1, <4>2 DEF IInv2, IInv1, TypeOK
    <3>2. \/ result'[cur] = "acked"
          \/ result'[cur] = result[cur] /\ cpc' = cpc
      BY <1>1, <2>2 DEF IInv2, IInv1, TypeOK
    <3>3. \A k \in Requests \ {cur} : result'[k] = result[k]
      BY <2>2 DEF IInv2, IInv1, TypeOK
    <3> QED BY <1>1, <1>2, <3>1, <3>2, <3>3, OutcomesKept DEF IInv2, Unconnected
  <2> QED BY <1>5, <2>1, <2>2, ParseDoes
<1> QED BY <1>1, <1>3, <1>4, <1>5, RecvDoes

(* The server's steps, the faults, and the steps that only go on.           *)
LEMMA OutcomesOther ==
  ASSUME IInv2, Outcomes,
         \/ (\E a \in BOOLEAN : SendPacket(a)) \/ CloseBox \/ Send \/ SendFails
         \/ Run \/ AcceptFails \/ (\E r \in Requests : Break(r)) \/ Die
         \/ UNCHANGED vars
  PROVE  Outcomes'
<1>1. UNCHANGED <<full, cur, acks>>
  BY DEF SendPacket, CloseBox, Send, SendFails, Run, AcceptClient, DealRecv, DealEnd, DealError, RunCommand,
     SendFront, SendEnd, CloseClient, AcceptFails, Break, Die, vars, clientVars
<1>2. \/ cpc' = cpc /\ result' = result
      \/ cpc' = "recv" /\ result' = result
      \/ cpc = "send" /\ result' = [result EXCEPT ![cur] = "unsent"]
      \/ cpc = "box" /\ result' = [r \in Requests |-> Told(r)]
  BY DEF SendPacket, CloseBox, Send, SendFails, Ended, Run, AcceptClient, DealRecv, DealEnd, DealError, RunCommand,
     SendFront, SendEnd, CloseClient, AcceptFails, Break, Die, vars, clientVars
<1>3. \/ link' = link /\ backlog' = backlog
      \/ link' = link /\ backlog' = Tail(backlog) /\ backlog # <<>>
      \/ ProcessEnds
      \/ backlog' = backlog /\ \E r \in Requests : link[r] = "up" /\ link' = [link EXCEPT ![r] = "broken"]
  BY DEF SendPacket, CloseBox, Send, SendFails, Ended, Run, AcceptClient, DealRecv, DealEnd, DealError, RunCommand,
     SendFront, SendEnd, CloseClient, AcceptFails, Break, Die, vars, clientVars, linkVars
<1>4. \A k \in Requests : \/ result'[k] = result[k]
                          \/ result[k] = "failed" /\ result'[k] = "refused"
                          \/ k = cur /\ result[k] = "none" /\ result'[k] = "unsent"
  BY <1>2 DEF IInv2, IInv1, TypeOK, Answers, NotYet, Told
<1>5. cpc' \in {"get", "box"} => cpc \in {"get", "box"} \/ result'[cur] # "none"
  <2>1. cpc = "send" => cur \in Requests
    BY SessionAssumption DEF IInv2, IInv1, Places, TypeOK, Requests
  <2> QED BY <1>2, <2>1 DEF IInv2, IInv1, TypeOK
<1>6. \A k \in Requests : link'[k] = link[k] \/ (link[k] # "none" /\ link'[k] = "broken")
  <2>1. CASE ProcessEnds
    <3>1. \A k \in ToSet(backlog) : link[k] # "none"
      BY DEF ToSet, Outcomes
    <3> QED BY <2>1, <3>1 DEF ProcessEnds
  <2>2. CASE \E r \in Requests : link[r] = "up" /\ link' = [link EXCEPT ![r] = "broken"]
    BY <2>2 DEF IInv2, IInv1, TypeOK
  <2> QED BY <1>3, <2>1, <2>2
<1>7. \A j \in DOMAIN backlog' : \E i \in DOMAIN backlog : backlog'[j] = backlog[i]
  <2>1. CASE backlog' = backlog
    BY <2>1
  <2>2. CASE backlog' = Tail(backlog) /\ backlog # <<>>
    <3>1. /\ DOMAIN backlog = 1..Len(backlog) /\ DOMAIN backlog' = 1..(Len(backlog) - 1)
          /\ Len(backlog) \in Nat /\ \A i \in 1..(Len(backlog) - 1) : backlog'[i] = backlog[i + 1]
      BY <2>2, OneLess DEF IInv2, IInv1, TypeOK
    <3>2. \A i \in 1..(Len(backlog) - 1) : i + 1 \in 1..Len(backlog)
      BY <3>1
    <3> QED BY <3>1, <3>2
  <2>3. CASE ProcessEnds
    BY <2>3 DEF ProcessEnds
  <2> QED BY <1>3, <2>1, <2>2, <2>3
<1> QED BY <1>1, <1>4, <1>5, <1>6, <1>7, OutcomesKept DEF IInv2, Unconnected

LEMMA InitIInv3 == Init => IInv3
<1> SUFFICES ASSUME Init PROVE IInv3
  OBVIOUS
<1>1. Outcomes
  BY DEF Init, Outcomes, BacklogSuffices, Requests
<1> QED BY <1>1, InitIInv2 DEF IInv3

LEMMA NextIInv3 == IInv3 /\ [Next]_vars => IInv3'
<1> SUFFICES ASSUME IInv3, [Next]_vars PROVE IInv3'
  OBVIOUS
<1>1. IInv2'
  BY NextIInv2 DEF IInv3
<1>2. Outcomes'
  BY OutcomesGet, OutcomesConnect, OutcomesRefused, OutcomesRecv, OutcomesOther DEF IInv3, Next, SendPack
<1> QED BY <1>1, <1>2 DEF IInv3

(* A backlog of one is enough, for any number of requests: a connection is  *)
(* refused for a full one only after a request that the client gave up,     *)
(* because it could not send it or because its connection broke.            *)
THEOREM BacklogSufficesHolds == Spec => []BacklogSuffices
<1>1. IInv3 => BacklogSuffices
  BY DEF IInv3, Outcomes
<1> QED BY <1>1, InitIInv3, NextIInv3, PTL DEF Spec
=============================================================================
