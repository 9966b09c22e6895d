-------------------------- MODULE EdoyunServerProofs --------------------------
(***************************************************************************)
(* Proofs about EdoyunServer, for any number of clients and of threads:    *)
(* the types, the chain of AcceptEx that is in one place, the one reader   *)
(* of a connection, when the pool is full, and that no connection is       *)
(* forgotten.                                                              *)
(***************************************************************************)
EXTENDS EdoyunServer, SequenceTheorems, FiniteSetTheorems, WellFoundedInduction, TLAPS

Stopping == mpc \in {"stop", "gone"}

(* No more has arrived than was sent.                                       *)
AvailSent == \A c \in Clients : avail[c] <= sent[c]

LostFinite == IsFiniteSet(lost)

(* The port is made by Start; a thread ends only in ~EdoyunThreadPool. *)
MainInv ==
    /\ mpc = "start" => hIOCP = "invalid"
    /\ closing # {} => Stopping
    /\ \A i \in Threads : spc[i] \in {"ended", "joined"} => i \in closing

(* threadIocp has one slot, and what it has taken off the port it holds     *)
(* until it has handed it to DispatchWorker.                                *)
IocpInv ==
    /\ \A i, j \in Threads : slot[i] = Iocp /\ slot[j] = Iocp => i = j
    /\ mpc \in {"start", "dispatch", "failed"} => \A i \in Threads : slot[i] # Iocp
    /\ got # NoCompletion => \E i \in Threads : spc[i] = "dispatch"
    /\ \A i \in Threads : spc[i] = "dispatch" => slot[i] = Iocp /\ got # NoCompletion

SlotInv ==
    \A i \in Threads :
        /\ slot[i] = Free => spc[i] \in {"enter", "ended", "joined"}
        /\ spc[i] \in {"insert", "acceptex", "done"} => slot[i].kind = "accept"

(* The stages a client goes through until its connection is read, by where  *)
(* it is: before AcceptEx has completed, its WSARecv outstanding, at the    *)
(* port, with threadIocp, or with a worker that has yet to issue WSARecv or *)
(* that reads.                                                              *)
Early == {c \in Clients : conn[c] \in {"none", "made", "listening"}}
AtPort == {port[k].job.c : k \in DOMAIN port}
AtIocp == {got.job.c} \ {NoClient}
Serving == {i \in Threads : \/ slot[i].kind = "recv"
                            \/ slot[i].kind = "accept" /\ spc[i] \in {"enter", "call"}}
Served == {slot[i].c : i \in Serving}

(* A client is in one stage at most, and once in it.                        *)
OneStage ==
    /\ Early \cap armed = {} /\ Early \cap AtPort = {} /\ Early \cap AtIocp = {}
    /\ Early \cap Served = {}
    /\ armed \cap AtPort = {} /\ armed \cap AtIocp = {} /\ armed \cap Served = {}
    /\ AtPort \cap AtIocp = {} /\ AtPort \cap Served = {} /\ AtIocp \cap Served = {}

OncePort == \A j, k \in DOMAIN port : port[j].job.c = port[k].job.c => j = k
OnceServing == \A i, j \in Serving : slot[i].c = slot[j].c => i = j

IInv ==
    /\ TypeOK /\ AvailSent /\ MainInv /\ IocpInv /\ SlotInv
    /\ OneStage /\ OncePort /\ OnceServing /\ LostFinite /\ AcceptChain

-----------------------------------------------------------------------------
(* The types, and the parts of the invariant about one slot at a time. *)

(* Jobs and completions are what they are made of.                          *)
LEMMA JobTypes ==
    /\ Free \in Job /\ Iocp \in Job
    /\ \A c \in Clients : Accept(c) \in Job /\ Recv(c) \in Job
    /\ \A c \in Clients, b \in BOOLEAN :
           [job |-> Accept(c), ok |-> b] \in Completion /\ [job |-> Recv(c), ok |-> b] \in Completion
    /\ \A e \in Completion : e.job \in Job \ {Free, Iocp} /\ e.ok \in BOOLEAN
    /\ \A e \in Completion : e.job.c \in Clients /\ e.job.kind \in {"accept", "recv"}
    /\ \A e \in Completion : e.job.kind = "accept" => e.job = Accept(e.job.c)
    /\ \A e \in Completion : e.job.kind = "recv" => e.job = Recv(e.job.c)
    /\ \A j \in Job : j.kind = "accept" => j = Accept(j.c) /\ j.c \in Clients
    /\ \A j \in Job : j.kind = "recv" => j = Recv(j.c) /\ j.c \in Clients
    /\ \A j \in Job : j.kind \in {"free", "iocp", "accept", "recv"}
    /\ \A j \in Job : j.kind = "iocp" => j = Iocp
    /\ \A j \in Job : j.kind = "free" => j = Free
  BY DEF Job, Completion, Free, Iocp, Accept, Recv

(* The first completion and the rest of the port.                           *)
LEMMA PortHead ==
    ASSUME port \in Seq(Completion), port # <<>>
    PROVE  /\ Head(port) \in Completion /\ Tail(port) \in Seq(Completion)
           /\ Head(port).job \in Job \ {Free, Iocp}
  <1>1. Head(port) \in Completion /\ Tail(port) \in Seq(Completion)
    OBVIOUS
  <1> QED BY <1>1, JobTypes

LEMMA InitTypeOK == Init => TypeOK
  <1> SUFFICES ASSUME Init PROVE TypeOK
    OBVIOUS
  <1>1. 0 \in 0..MaxSent /\ 0 \in 0..BufSize
    BY ServerAssumption
  <1>2. <<>> \in Seq(Completion)
    OBVIOUS
  <1> QED BY <1>1, <1>2, JobTypes DEF Init, TypeOK

LEMMA MakeClientType ==
    ASSUME TypeOK, NEW c \in Clients, MakeClient(c)
    PROVE  /\ conn' \in [Clients -> {"none", "made", "listening", "open", "closed", "reset", "shut"}]
           /\ used' \in [Clients -> 0..BufSize \cup {Wild}]
           /\ avail' = avail /\ sent' = sent /\ armed' = armed /\ hIOCP' = hIOCP
  <1>1. 0 \in 0..BufSize
    BY ServerAssumption
  <1>2. PICK u \in Uninit : used' = [used EXCEPT ![c] = IF u = "zero" THEN 0 ELSE Wild]
    BY DEF MakeClient
  <1>3. (IF u = "zero" THEN 0 ELSE Wild) \in 0..BufSize \cup {Wild}
    BY <1>1
  <1> QED BY <1>2, <1>3 DEF MakeClient, TypeOK

LEMMA AcceptExType ==
    ASSUME TypeOK, AcceptEx
    PROVE  /\ conn' \in [Clients -> {"none", "made", "listening", "open", "closed", "reset", "shut"}]
           /\ hIOCP' \in {"invalid", "open"}
           /\ avail' = avail /\ sent' = sent /\ armed' = armed /\ used' = used
  BY DEF AcceptEx, AcceptExOK, AcceptExFails, sockVars, TypeOK

(* Lose adds a job that a worker does.                                      *)
LEMMA LoseType ==
    ASSUME TypeOK, NEW job \in Job \ {Free, Iocp}, NEW why \in {"full", "error"}, Lose(job, why)
    PROVE  lost' \subseteq [job : Job \ {Free, Iocp}, why : {"full", "error"}]
  BY DEF Lose, TypeOK

LEMMA MainType ==
    ASSUME TypeOK, StartService \/ Getchar \/ Destroy
    PROVE  TypeOK'
  <1> USE DEF TypeOK, vars, sockVars, poolVars
  <1>1. CASE StartFails \/ Start \/ Getchar \/ DeleteEnd \/ StopEnd
    BY <1>1 DEF StartFails, Start, Getchar, DeleteEnd, StopEnd
  <1>2. CASE StartIocp
    BY <1>2, JobTypes DEF StartIocp, Takers, FreeSlots
  <1>3. CASE FirstInsert
    BY <1>3, MakeClientType DEF FirstInsert
  <1>4. CASE FirstAccept
    BY <1>4, AcceptExType DEF FirstAccept
  <1>5. ASSUME NEW c \in Clients, DeleteClient(c) PROVE TypeOK'
    <2>1. \A e \in Completion : Append(port, e) \in Seq(Completion)
      OBVIOUS
    <2>2. port' \in Seq(Completion)
      BY <1>5, <2>1, JobTypes DEF DeleteClient
    <2> QED BY <1>5, <2>2 DEF DeleteClient
  <1>6. ASSUME NEW i \in Threads, StopThread(i) PROVE TypeOK'
    BY <1>6 DEF StopThread
  <1>7. ASSUME NEW i \in Threads, JoinThread(i) PROVE TypeOK'
    BY <1>7, JobTypes DEF JoinThread
  <1> QED BY <1>1, <1>2, <1>3, <1>4, <1>5, <1>6, <1>7 DEF StartService, Destroy

LEMMA NetworkType ==
    ASSUME TypeOK, AvailSent, Network
    PROVE  TypeOK'
  <1> USE DEF TypeOK, sockVars, poolVars
  <1>0. \A e \in Completion : Append(port, e) \in Seq(Completion)
    OBVIOUS
  <1>1. UNCHANGED <<mpc, hIOCP, used, deleted, poolVars, got, lost, process>>
    BY DEF Network
  <1>2. PICK c \in Clients : Peer(c) \/ RecvCompletes(c)
    BY DEF Network
  <1>3. CASE Connect(c)
    BY <1>0, <1>1, <1>3, JobTypes DEF Connect
  <1>4. CASE AbortConnect(c)
    BY <1>0, <1>1, <1>4, JobTypes DEF AbortConnect
  <1>5. CASE PeerSends(c)
    <2>1. avail[c] + 1 \in 0..MaxSent /\ sent[c] + 1 \in 0..MaxSent
      BY <1>5, ServerAssumption DEF PeerSends, AvailSent
    <2> QED BY <1>1, <1>5, <2>1 DEF PeerSends
  <1>6. CASE PeerCloses(c)
    BY <1>1, <1>6 DEF PeerCloses
  <1>7. CASE RecvCompletes(c)
    <2>1. (conn[c] # "reset") \in BOOLEAN
      OBVIOUS
    <2>2. port' \in Seq(Completion)
      BY <1>0, <1>7, <2>1, JobTypes DEF RecvCompletes
    <2> QED BY <1>1, <1>7, <2>2 DEF RecvCompletes
  <1> QED BY <1>2, <1>3, <1>4, <1>5, <1>6, <1>7 DEF Peer

LEMMA ThreadType ==
    ASSUME TypeOK, IocpInv, NEW i \in Threads, Thread(i) \/ TouchDeleted(i)
    PROVE  TypeOK'
  <1> USE DEF TypeOK, sockVars, poolVars, Goto
  <1>1. CASE Enter(i) \/ EndThread(i) \/ TouchDeleted(i)
    BY <1>1 DEF Enter, EndThread, TouchDeleted
  <1>2. CASE IocpGetFailed(i)
    <2>1. lost' \subseteq [job : Job \ {Free, Iocp}, why : {"full", "error"}]
      BY <1>2, PortHead, LoseType DEF IocpGetFailed
    <2> QED BY <1>2, <2>1, PortHead DEF IocpGetFailed
  <1>3. CASE IocpGet(i)
    BY <1>3, PortHead DEF IocpGet
  <1>4. CASE IocpDispatch(i)
    <2>1. got.job \in Job \ {Free, Iocp}
      BY <1>4, JobTypes DEF IocpDispatch, At, IocpInv
    <2>2. lost' \subseteq [job : Job \ {Free, Iocp}, why : {"full", "error"}]
      BY <1>4, <2>1, LoseType DEF IocpDispatch
    <2>3. slot' \in [Threads -> Job]
      BY <1>4, <2>1 DEF IocpDispatch, Takers, FreeSlots
    <2> QED BY <1>4, <2>2, <2>3 DEF IocpDispatch
  <1>5. CASE AcceptRecv(i)
    <2>1. slot[i].c \in Clients
      BY <1>5, JobTypes DEF AcceptRecv, At
    <2>2. armed' \subseteq Clients
      BY <1>5, <2>1 DEF AcceptRecv, Armed
    <2>3. lost' \in {lost, lost \cup {Unasked(slot[i].c)}}
      BY <1>5 DEF AcceptRecv, Armed
    <2>4. Recv(slot[i].c) \in Job \ {Free, Iocp}
      BY <2>1, JobTypes
    <2>5. lost' \subseteq [job : Job \ {Free, Iocp}, why : {"full", "error"}]
      BY <2>3, <2>4 DEF Unasked
    <2> QED BY <1>5, <2>2, <2>5 DEF AcceptRecv
  <1>6. CASE AcceptInsert(i)
    BY <1>6, MakeClientType DEF AcceptInsert
  <1>7. CASE AcceptNext(i)
    BY <1>7, AcceptExType DEF AcceptNext
  <1>8. CASE AcceptDone(i) \/ RecvEnds(i)
    BY <1>8, JobTypes DEF AcceptDone, RecvEnds, Done
  <1>9. CASE RecvData(i)
    <2> DEFINE c == slot[i].c
    <2>1. c \in Clients
      BY <1>9, JobTypes DEF RecvData, At
    <2>2. PICK n \in 1..Room(c) : n <= avail[c] /\ Read(c, n)
      BY <1>9 DEF RecvData
    <2>3. used[c] \in 0..BufSize /\ avail[c] \in 0..MaxSent
      BY <1>9, <2>1 DEF RecvData
    <2>4. avail[c] - n \in 0..MaxSent /\ used[c] + n \in 0..BufSize
      BY <2>2, <2>3, ServerAssumption DEF Room
    <2>5. avail' \in [Clients -> 0..MaxSent] /\ used' \in [Clients -> 0..BufSize \cup {Wild}]
      BY <2>1, <2>2, <2>4 DEF Read
    <2>6. armed' = armed
      BY <2>2 DEF Read
    <2> QED BY <1>9, <2>5, <2>6 DEF RecvData
  <1> QED BY <1>1, <1>2, <1>3, <1>4, <1>5, <1>6, <1>7, <1>8, <1>9 DEF Thread

LEMMA TypeStep == TypeOK /\ AvailSent /\ IocpInv /\ [Next]_vars => TypeOK'
  <1>1. ASSUME TypeOK, UNCHANGED vars PROVE TypeOK'
    BY <1>1 DEF TypeOK, vars, sockVars, poolVars
  <1> QED BY <1>1, MainType, NetworkType, ThreadType DEF Next

(* What is available was sent.                                              *)
LEMMA AvailSentStep == TypeOK /\ AvailSent /\ [Next]_vars => AvailSent'
  <1> SUFFICES ASSUME TypeOK, AvailSent, [Next]_vars PROVE AvailSent'
    OBVIOUS
  <1> USE DEF AvailSent, vars, sockVars, poolVars
  <1>0. \A d \in Clients : avail[d] \in Nat /\ sent[d] \in Nat /\ avail[d] <= sent[d]
    BY ServerAssumption DEF TypeOK
  <1>1. CASE Network
    <2>1. PICK c \in Clients : Peer(c) \/ RecvCompletes(c)
      BY <1>1 DEF Network
    <2>2. CASE PeerSends(c)
      <3>1. \A d \in Clients : \/ avail'[d] = avail[d] /\ sent'[d] = sent[d]
                               \/ avail'[d] = avail[d] + 1 /\ sent'[d] = sent[d] + 1
        BY <2>2 DEF PeerSends, TypeOK
      <3> QED BY <1>0, <3>1
    <2> QED BY <2>1, <2>2 DEF Peer, Connect, AbortConnect, PeerCloses, RecvCompletes
  <1>2. ASSUME NEW i \in Threads, RecvData(i) PROVE AvailSent'
    <2>1. slot[i].c \in Clients
      BY <1>2, JobTypes DEF RecvData, At, TypeOK
    <2>2. PICK n \in 1..Room(slot[i].c) : n <= avail[slot[i].c] /\ Read(slot[i].c, n)
      BY <1>2 DEF RecvData
    <2>3. sent' = sent
      BY <1>2 DEF RecvData
    <2>4. n \in Int /\ 1 <= n
      OBVIOUS
    <2>5. \A d \in Clients : avail'[d] = avail[d] \/ avail'[d] = avail[d] - n
      BY <2>1, <2>2 DEF Read, TypeOK
    <2> QED BY <1>0, <2>3, <2>4, <2>5
  <1>3. CASE ~Network /\ (\A i \in Threads : ~RecvData(i))
    <2>1. avail' = avail /\ sent' = sent
      BY <1>3 DEF Next, StartService, Destroy, Thread, StartFails, Start, StartIocp, FirstInsert,
         FirstAccept, Getchar, DeleteClient, DeleteEnd, StopThread, JoinThread, StopEnd,
         Enter, EndThread, TouchDeleted, IocpGetFailed, IocpGet, IocpDispatch, AcceptRecv,
         AcceptInsert, AcceptNext, AcceptDone, RecvEnds, MakeClient, AcceptEx, AcceptExOK,
         AcceptExFails
    <2> QED BY <2>1
  <1> QED BY <1>1, <1>2, <1>3

(* The slots of the pool and where their threads are. *)
LEMMA SlotsStep ==
    TypeOK /\ MainInv /\ IocpInv /\ SlotInv /\ [Next]_vars => MainInv' /\ IocpInv' /\ SlotInv'
  <1> SUFFICES ASSUME TypeOK, MainInv, IocpInv, SlotInv, [Next]_vars
               PROVE  MainInv' /\ IocpInv' /\ SlotInv'
    OBVIOUS
  <1> USE JobTypes DEF TypeOK, MainInv, IocpInv, SlotInv, Stopping, vars, sockVars, poolVars
  <1>1. CASE UNCHANGED vars \/ Network \/ StartFails \/ Start \/ FirstInsert \/ FirstAccept
             \/ Getchar \/ DeleteEnd \/ StopEnd \/ \E c \in Clients : DeleteClient(c)
    <2>1. slot' = slot /\ spc' = spc /\ closing' = closing /\ got' = got
      BY <1>1 DEF Network, StartFails, Start, FirstInsert, FirstAccept, Getchar, DeleteEnd, StopEnd,
         DeleteClient
    <2>2. /\ mpc' \in {"start", "dispatch", "failed"} => mpc \in {"start", "dispatch", "failed"}
          /\ mpc' = "start" => mpc = "start" /\ hIOCP' = hIOCP
          /\ mpc \in {"stop", "gone"} => mpc' \in {"stop", "gone"}
      BY <1>1 DEF Network, StartFails, Start, FirstInsert, FirstAccept, Getchar, DeleteEnd, StopEnd,
         DeleteClient
    <2> QED BY <2>1, <2>2
  <1>2. CASE StartIocp
    BY <1>2 DEF StartIocp, Takers, FreeSlots
  <1>3. ASSUME NEW i \in Threads, StopThread(i) PROVE MainInv' /\ IocpInv' /\ SlotInv'
    BY <1>3 DEF StopThread
  <1>4. ASSUME NEW i \in Threads, JoinThread(i) PROVE MainInv' /\ IocpInv' /\ SlotInv'
    <2>1. /\ slot' = [slot EXCEPT ![i] = Free] /\ spc' = [spc EXCEPT ![i] = "joined"]
          /\ mpc' = mpc /\ mpc = "stop" /\ closing' = closing /\ got' = got /\ spc[i] = "ended"
          /\ hIOCP' = hIOCP
      BY <1>4 DEF JoinThread
    <2>2. Free # Iocp
      BY DEF Free, Iocp
    <2>3. MainInv'
      BY <2>1
    <2>4. IocpInv'
      BY <2>1, <2>2
    <2>5. SlotInv'
      BY <2>1
    <2> QED BY <2>3, <2>4, <2>5
  <1>5. ASSUME NEW i \in Threads, Enter(i) \/ EndThread(i) \/ TouchDeleted(i)
        PROVE  MainInv' /\ IocpInv' /\ SlotInv'
    BY <1>5 DEF Enter, EndThread, TouchDeleted, Goto
  <1>6. ASSUME NEW i \in Threads, IocpGetFailed(i) \/ IocpGet(i)
        PROVE  MainInv' /\ IocpInv' /\ SlotInv'
    BY <1>6, PortHead DEF IocpGetFailed, IocpGet, At, Goto, NoCompletion
  <1>7. ASSUME NEW i \in Threads, IocpDispatch(i)
        PROVE  MainInv' /\ IocpInv' /\ SlotInv'
    BY <1>7 DEF IocpDispatch, At, Takers, FreeSlots
  <1>8. ASSUME NEW i \in Threads, AcceptRecv(i) \/ AcceptInsert(i) \/ AcceptNext(i)
        PROVE  MainInv' /\ IocpInv' /\ SlotInv'
    <2>1. \E p \in {"insert", "acceptex", "done"} : spc' = [spc EXCEPT ![i] = p]
      BY <1>8 DEF AcceptRecv, AcceptInsert, AcceptNext, Goto
    <2>2. /\ slot' = slot /\ closing' = closing /\ got' = got /\ mpc' = mpc
          /\ slot[i].kind = "accept" /\ spc[i] # "dispatch"
      BY <1>8 DEF AcceptRecv, AcceptInsert, AcceptNext, At, Goto
    <2>3. mpc = "start" => hIOCP' = "invalid"
      BY <1>8 DEF AcceptRecv, AcceptInsert, AcceptNext, AcceptEx, AcceptExOK, AcceptExFails, MakeClient
    <2>4. slot[i] # Free /\ slot[i] # Iocp
      BY <2>2 DEF Free, Iocp
    <2>5. MainInv'
      BY <2>1, <2>2, <2>3
    <2>6. IocpInv'
      BY <2>1, <2>2
    <2>7. SlotInv'
      BY <2>1, <2>2, <2>4
    <2> QED BY <2>5, <2>6, <2>7
  <1>9. ASSUME NEW i \in Threads, AcceptDone(i) \/ RecvEnds(i) \/ RecvData(i)
        PROVE  MainInv' /\ IocpInv' /\ SlotInv'
    <2>1. /\ spc' = [spc EXCEPT ![i] = "enter"]
          /\ slot' = [slot EXCEPT ![i] = Free] \/ slot' = slot
          /\ closing' = closing /\ got' = got /\ mpc' = mpc /\ hIOCP' = hIOCP
      BY <1>9 DEF AcceptDone, RecvEnds, RecvData, Done, Goto
    <2>2. spc[i] \in {"call", "done"} /\ slot[i].kind \in {"accept", "recv"}
      BY <1>9 DEF AcceptDone, RecvEnds, RecvData, At
    <2>4. Free # Iocp
      BY DEF Free, Iocp
    <2>5. MainInv'
      BY <2>1
    <2>6. IocpInv'
      BY <2>1, <2>2, <2>4
    <2>7. SlotInv'
      BY <2>1, <2>2
    <2> QED BY <2>5, <2>6, <2>7
  <1> QED BY <1>1, <1>2, <1>3, <1>4, <1>5, <1>6, <1>7, <1>8, <1>9
       DEF Next, StartService, Destroy, Thread

-----------------------------------------------------------------------------
(* The stages of a client. *)

(* A completion goes to the port.                                           *)
LEMMA PortAppend ==
    ASSUME port \in Seq(Completion), NEW e \in Completion, port' = Append(port, e),
           OncePort, e.job.c \notin AtPort
    PROVE  AtPort' = AtPort \cup {e.job.c} /\ OncePort'
  <1>1. /\ Len(port) \in Nat /\ DOMAIN port = 1..Len(port) /\ DOMAIN port' = 1..(Len(port) + 1)
        /\ \A k \in 1..Len(port) : port'[k] = port[k]
        /\ port'[Len(port) + 1] = e
    OBVIOUS
  <1>2. \A k \in 1..(Len(port) + 1) : k \in 1..Len(port) \/ k = Len(port) + 1
    BY <1>1
  <1>3. 1..Len(port) \subseteq 1..(Len(port) + 1) /\ Len(port) + 1 \in 1..(Len(port) + 1)
    BY <1>1
  <1>4. AtPort' = AtPort \cup {e.job.c}
    BY <1>1, <1>2, <1>3 DEF AtPort
  <1>5. OncePort'
    BY <1>1, <1>2 DEF OncePort, AtPort
  <1> QED BY <1>4, <1>5

(* threadIocp takes the first completion off the port. *)
LEMMA PortTail ==
    ASSUME port \in Seq(Completion), port # <<>>, port' = Tail(port), OncePort
    PROVE  /\ Head(port).job.c \in AtPort
           /\ AtPort' \subseteq AtPort \ {Head(port).job.c}
           /\ OncePort'
  <1>1. /\ Len(port) \in Nat /\ Len(port) >= 1 /\ DOMAIN port = 1..Len(port)
        /\ DOMAIN port' = 1..(Len(port) - 1)
        /\ \A k \in 1..(Len(port) - 1) : port'[k] = port[k + 1]
        /\ Head(port) = port[1]
    OBVIOUS
  <1>2. \A k \in 1..(Len(port) - 1) : k + 1 \in 1..Len(port) /\ k + 1 # 1 /\ k \in Int
    BY <1>1
  <1>3. 1 \in 1..Len(port)
    BY <1>1
  <1>4. Head(port).job.c \in AtPort
    BY <1>1, <1>3 DEF AtPort
  <1>5. AtPort' \subseteq AtPort \ {Head(port).job.c}
    BY <1>1, <1>2, <1>3 DEF AtPort, OncePort
  <1>6. OncePort'
    BY <1>1, <1>2 DEF OncePort
  <1> QED BY <1>4, <1>5, <1>6

(* A step after which every client is where it was, or nowhere. *)
LEMMA StagesShrink ==
    ASSUME OneStage, OncePort, OnceServing,
           Early' \subseteq Early, armed' \subseteq armed, port' = port, got' = got,
           Serving' \subseteq Serving, \A i \in Serving' : slot'[i].c = slot[i].c
    PROVE  OneStage' /\ OncePort' /\ OnceServing'
  <1>1. AtPort' = AtPort /\ AtIocp' = AtIocp /\ OncePort'
    BY DEF AtPort, AtIocp, OncePort
  <1>2. Served' \subseteq Served /\ OnceServing'
    BY DEF Served, OnceServing
  <1> QED BY <1>1, <1>2 DEF OneStage

(* What was outstanding on a client completes. *)
LEMMA StagesToPort ==
    ASSUME OneStage, OncePort, OnceServing, port \in Seq(Completion),
           NEW e \in Completion, port' = Append(port, e), e.job.c \in Early \cup armed,
           Early' \subseteq Early \ {e.job.c}, armed' \subseteq armed \ {e.job.c}, got' = got,
           slot' = slot, spc' = spc
    PROVE  OneStage' /\ OncePort' /\ OnceServing'
  <1>1. AtPort' = AtPort \cup {e.job.c} /\ OncePort'
    BY PortAppend DEF OneStage
  <1>2. AtIocp' = AtIocp /\ Served' = Served /\ OnceServing'
    BY DEF AtIocp, Serving, Served, OnceServing
  <1> QED BY <1>1, <1>2 DEF OneStage

(* The main thread and the peers. *)
LEMMA StagesMain ==
    ASSUME TypeOK, SlotInv, OneStage, OncePort, OnceServing,
           StartService \/ Getchar \/ Destroy \/ Network
    PROVE  OneStage' /\ OncePort' /\ OnceServing'
  <1> USE DEF vars, sockVars, poolVars
  <1>1. CASE StartFails \/ Start \/ StartIocp \/ FirstInsert \/ FirstAccept \/ Getchar \/ DeleteEnd
             \/ StopEnd
    <2>1. port' = port /\ got' = got /\ armed' = armed
      BY <1>1 DEF StartFails, Start, StartIocp, FirstInsert, FirstAccept, Getchar, DeleteEnd, StopEnd,
         MakeClient, AcceptEx, AcceptExOK, AcceptExFails
    <2>2. Early' \subseteq Early
      BY <1>1 DEF StartFails, Start, StartIocp, FirstInsert, FirstAccept, Getchar, DeleteEnd, StopEnd,
         MakeClient, AcceptEx, AcceptExOK, AcceptExFails, Early, TypeOK
    <2>3. spc' = spc /\ (slot' = slot \/ \E i \in Takers : slot' = [slot EXCEPT ![i] = Iocp])
      BY <1>1 DEF StartFails, Start, StartIocp, FirstInsert, FirstAccept, Getchar, DeleteEnd, StopEnd
    <2>4. Serving' \subseteq Serving /\ \A i \in Serving' : slot'[i].c = slot[i].c
      <3>1. CASE slot' = slot
        BY <2>3, <3>1 DEF Serving
      <3>2. ASSUME NEW i \in Takers, slot' = [slot EXCEPT ![i] = Iocp]
            PROVE  Serving' \subseteq Serving /\ \A k \in Serving' : slot'[k].c = slot[k].c
        <4>1. i \in Threads /\ slot'[i].kind = "iocp" /\ \A k \in Threads \ {i} : slot'[k] = slot[k]
          BY <3>2 DEF Takers, FreeSlots, Iocp, TypeOK
        <4> QED BY <2>3, <4>1 DEF Serving
      <3> QED BY <2>3, <3>1, <3>2
    <2> QED BY <2>1, <2>2, <2>4, StagesShrink
  <1>2. ASSUME NEW i \in Threads, StopThread(i) \/ JoinThread(i)
        PROVE  OneStage' /\ OncePort' /\ OnceServing'
    <2>1. port' = port /\ got' = got /\ armed' = armed /\ Early' = Early
      BY <1>2 DEF StopThread, JoinThread, Early
    <2>2. \/ slot' = slot /\ spc' = spc
          \/ slot' = [slot EXCEPT ![i] = Free] /\ spc' = [spc EXCEPT ![i] = "joined"]
      BY <1>2 DEF StopThread, JoinThread
    <2>3. Serving' \subseteq Serving /\ \A k \in Serving' : slot'[k].c = slot[k].c
      BY <2>2 DEF Serving, Free, TypeOK
    <2> QED BY <2>1, <2>3, StagesShrink
  <1>3. ASSUME NEW c \in Clients, DeleteClient(c)
        PROVE  OneStage' /\ OncePort' /\ OnceServing'
    <2>1. /\ got' = got /\ slot' = slot /\ spc' = spc
          /\ conn' = [conn EXCEPT ![c] = "shut"] /\ armed' = armed \ {c}
      BY <1>3 DEF DeleteClient
    <2>2. Early' \subseteq Early \ {c}
      BY <2>1 DEF Early, TypeOK
    <2>3. CASE conn[c] = "listening" \/ c \in armed
      <3>1. PICK e \in Completion : e.job.c = c /\ port' = Append(port, e)
        <4>1. CASE conn[c] = "listening"
          <5>1. port' = Append(port, [job |-> Accept(c), ok |-> FALSE])
            BY <1>3, <4>1 DEF DeleteClient, OneStage, Early
          <5> QED BY <5>1, JobTypes DEF Accept
        <4>2. CASE conn[c] # "listening" /\ c \in armed
          <5>1. port' = Append(port, [job |-> Recv(c), ok |-> FALSE])
            BY <1>3, <4>2 DEF DeleteClient
          <5> QED BY <5>1, JobTypes DEF Recv
        <4> QED BY <2>3, <4>1, <4>2
      <3>2. c \in Early \cup armed
        BY <2>3 DEF Early
      <3> QED BY <2>1, <2>2, <3>1, <3>2, StagesToPort DEF TypeOK
    <2>4. CASE ~(conn[c] = "listening" \/ c \in armed)
      <3>1. port' = port
        BY <1>3, <2>4 DEF DeleteClient
      <3>2. Serving' \subseteq Serving /\ \A k \in Serving' : slot'[k].c = slot[k].c
        BY <2>1 DEF Serving
      <3> QED BY <2>1, <2>2, <3>1, <3>2, StagesShrink
    <2> QED BY <2>3, <2>4
  <1>4. CASE Network
    <2>1. PICK c \in Clients : Peer(c) \/ RecvCompletes(c)
      BY <1>4 DEF Network
    <2>2. got' = got /\ slot' = slot /\ spc' = spc
      BY <1>4 DEF Network
    <2>3. CASE Connect(c) \/ AbortConnect(c)
      <3>1. PICK e \in Completion : e.job.c = c /\ port' = Append(port, e)
        BY <2>3, JobTypes DEF Connect, AbortConnect, Accept
      <3>2. Early' \subseteq Early \ {c} /\ c \in Early /\ armed' = armed
        BY <2>3 DEF Connect, AbortConnect, Early, TypeOK
      <3>3. c \notin armed
        BY <3>2 DEF OneStage
      <3> QED BY <2>2, <3>1, <3>2, <3>3, StagesToPort DEF TypeOK
    <2>4. CASE RecvCompletes(c)
      <3>1. (conn[c] # "reset") \in BOOLEAN
        OBVIOUS
      <3>2. PICK e \in Completion : e.job.c = c /\ port' = Append(port, e)
        BY <2>4, <3>1, JobTypes DEF RecvCompletes, Recv
      <3>3. Early' = Early /\ c \in armed /\ armed' = armed \ {c}
        BY <2>4 DEF RecvCompletes, Early
      <3>4. c \notin Early
        BY <3>3 DEF OneStage
      <3> QED BY <2>2, <3>2, <3>3, <3>4, StagesToPort DEF TypeOK
    <2>5. CASE PeerSends(c) \/ PeerCloses(c)
      <3>1. port' = port /\ armed' = armed /\ Early' \subseteq Early
        BY <2>5 DEF PeerSends, PeerCloses, Early, TypeOK
      <3>2. Serving' \subseteq Serving /\ \A k \in Serving' : slot'[k].c = slot[k].c
        BY <2>2 DEF Serving
      <3> QED BY <2>2, <3>1, <3>2, StagesShrink
    <2> QED BY <2>1, <2>3, <2>4, <2>5 DEF Peer
  <1> QED BY <1>1, <1>2, <1>3, <1>4 DEF StartService, Destroy

(* The threads of the pool. *)
LEMMA StagesThread ==
    ASSUME TypeOK, IocpInv, SlotInv, OneStage, OncePort, OnceServing,
           NEW i \in Threads, Thread(i) \/ TouchDeleted(i)
    PROVE  OneStage' /\ OncePort' /\ OnceServing'
  <1> USE DEF sockVars, poolVars
  <1>1. CASE Enter(i) \/ EndThread(i) \/ TouchDeleted(i) \/ AcceptInsert(i) \/ AcceptNext(i)
             \/ AcceptDone(i) \/ RecvData(i) \/ RecvEnds(i)
    <2>1. port' = port /\ got' = got /\ armed' = armed
      BY <1>1 DEF Enter, EndThread, TouchDeleted, AcceptInsert, AcceptNext, AcceptDone, RecvData,
         RecvEnds, MakeClient, AcceptEx, AcceptExOK, AcceptExFails, Read
    <2>2. Early' \subseteq Early
      BY <1>1 DEF Enter, EndThread, TouchDeleted, AcceptInsert, AcceptNext, AcceptDone, RecvData,
         RecvEnds, MakeClient, AcceptEx, AcceptExOK, AcceptExFails, Early, TypeOK
    <2>3. \/ spc' = [spc EXCEPT ![i] = "call"] /\ slot' = slot /\ spc[i] = "enter"
          \/ spc' = spc /\ slot' = slot
          \/ \E p \in {"ended", "acceptex", "done"} : spc' = [spc EXCEPT ![i] = p] /\ slot' = slot
          \/ spc' = [spc EXCEPT ![i] = "enter"] /\ slot' = [slot EXCEPT ![i] = Free]
          \/ spc' = [spc EXCEPT ![i] = "enter"] /\ slot' = slot /\ slot[i].kind = "recv"
      BY <1>1 DEF Enter, EndThread, TouchDeleted, AcceptInsert, AcceptNext, AcceptDone, RecvData,
         RecvEnds, Goto, Done, At
    <2>4. /\ \A k \in Threads \ {i} : slot'[k] = slot[k] /\ spc'[k] = spc[k]
          /\ \/ slot'[i] = slot[i] /\ \/ spc'[i] = spc[i]
                                      \/ spc[i] = "enter"
                                      \/ spc'[i] \in {"ended", "acceptex", "done"}
                                      \/ slot[i].kind = "recv"
             \/ slot'[i].kind = "free"
      BY <2>3 DEF Free, TypeOK
    <2>5. Serving' \subseteq Serving /\ \A k \in Serving' : slot'[k].c = slot[k].c
      BY <2>4 DEF Serving
    <2> QED BY <2>1, <2>2, <2>5, StagesShrink
  <1>2. CASE IocpGetFailed(i) \/ IocpGet(i)
    <2>1. /\ conn' = conn /\ armed' = armed /\ slot' = slot /\ slot[i].kind = "iocp"
          /\ \E p \in {"enter", "dispatch"} : spc' = [spc EXCEPT ![i] = p]
          /\ port # <<>> /\ port' = Tail(port)
          /\ got' = got \/ got' = Head(port)
      BY <1>2 DEF IocpGetFailed, IocpGet, At, Goto
    <2>2. Serving' = Serving
      BY <2>1 DEF Serving, TypeOK
    <2>3. Early' = Early /\ Served' = Served /\ OnceServing'
      BY <2>1, <2>2 DEF Early, Served, OnceServing
    <2>4. /\ AtPort' \subseteq AtPort \ {Head(port).job.c} /\ Head(port).job.c \in AtPort
          /\ OncePort'
      BY <2>1, PortTail DEF TypeOK
    <2>5. AtIocp' = AtIocp \/ AtIocp' \subseteq {Head(port).job.c}
      BY <2>1 DEF AtIocp
    <2> QED BY <2>1, <2>3, <2>4, <2>5 DEF OneStage
  <1>3. CASE IocpDispatch(i)
    <2>1. /\ conn' = conn /\ armed' = armed /\ port' = port /\ got' = NoCompletion
          /\ spc' = [spc EXCEPT ![i] = "enter"]
          /\ slot[i].kind = "iocp" /\ slot[i] # Free /\ got \in Completion
      BY <1>3 DEF IocpDispatch, At, IocpInv, TypeOK, Free
    <2>2. AtPort' = AtPort /\ OncePort' /\ AtIocp' = {} /\ Early' = Early
      BY <2>1 DEF AtPort, OncePort, AtIocp, Early, NoCompletion, Free
    <2>3. got.job.c \in AtIocp
      BY <2>1, JobTypes, ServerAssumption DEF AtIocp
    <2>4. CASE slot' = slot
      <3>1. Serving' = Serving
        BY <2>1, <2>4 DEF Serving, TypeOK
      <3>2. Served' = Served /\ OnceServing'
        BY <2>4, <3>1 DEF Served, OnceServing
      <3> QED BY <2>1, <2>2, <3>2 DEF OneStage
    <2>5. ASSUME NEW k \in Takers, slot' = [slot EXCEPT ![k] = got.job]
          PROVE  OneStage' /\ OncePort' /\ OnceServing'
      <3>1. k \in Threads /\ slot[k] = Free /\ k # i /\ k \notin Serving
        BY <2>1, <2>5 DEF Takers, FreeSlots, Serving, Free
      <3>2. Serving' \subseteq Serving \cup {k}
        BY <2>1, <2>5, <3>1 DEF Serving, TypeOK
      <3>3. slot'[k] = got.job /\ \A j \in Serving : slot'[j] = slot[j]
        BY <2>5, <3>1 DEF Serving, TypeOK
      <3>4. Served' \subseteq Served \cup {got.job.c}
        BY <3>2, <3>3 DEF Served
      <3>5. got.job.c \notin Served
        BY <2>3 DEF OneStage
      <3>6. OnceServing'
        BY <3>2, <3>3, <3>5 DEF OnceServing, Served
      <3> QED BY <2>1, <2>2, <2>3, <3>4, <3>6 DEF OneStage
    <2> QED BY <1>3, <2>4, <2>5 DEF IocpDispatch
  <1>4. CASE AcceptRecv(i)
    <2> DEFINE c == slot[i].c
    <2>1. /\ conn' = conn /\ port' = port /\ got' = got /\ slot' = slot
          /\ spc' = [spc EXCEPT ![i] = "insert"] /\ slot[i].kind = "accept" /\ spc[i] = "call"
          /\ armed' \subseteq armed \cup {c}
      BY <1>4 DEF AcceptRecv, Armed, Goto, At
    <2>2. AtPort' = AtPort /\ OncePort' /\ AtIocp' = AtIocp /\ Early' = Early
      BY <2>1 DEF AtPort, OncePort, AtIocp, Early
    <2>3. i \in Serving /\ Serving' = Serving \ {i}
      BY <2>1 DEF Serving, TypeOK
    <2>4. c \in Served /\ Served' \subseteq Served \ {c}
      BY <2>1, <2>3 DEF Served, OnceServing
    <2>5. OnceServing'
      BY <2>1, <2>3 DEF OnceServing
    <2> QED BY <2>1, <2>2, <2>4, <2>5 DEF OneStage
  <1> QED BY <1>1, <1>2, <1>3, <1>4 DEF Thread

LEMMA StagesStep ==
    TypeOK /\ IocpInv /\ SlotInv /\ OneStage /\ OncePort /\ OnceServing /\ [Next]_vars
        => OneStage' /\ OncePort' /\ OnceServing'
  <1>1. ASSUME OneStage, OncePort, OnceServing, UNCHANGED vars
        PROVE  OneStage' /\ OncePort' /\ OnceServing'
    <2>1. /\ conn' = conn /\ armed' = armed /\ port' = port /\ got' = got /\ slot' = slot /\ spc' = spc
      BY <1>1 DEF vars, sockVars, poolVars
    <2>2. Early' = Early /\ Serving' = Serving
      BY <2>1 DEF Early, Serving
    <2> QED BY <1>1, <2>1, <2>2, StagesShrink
  <1> QED BY <1>1, StagesMain, StagesThread DEF Next

-----------------------------------------------------------------------------
(* The places from which the next AcceptEx comes. *)

Listening == {c \in Clients : conn[c] = "listening"}
Accepts(s) == {k \in DOMAIN s : s[k].job.kind = "accept"}
Accepting == {i \in Threads : slot[i].kind = "accept" /\ spc[i] # "done"}
Unhandled == {r \in lost : r.job.kind = "accept"}

(* The terms of Links. *)
AtMain      == One(mpc \in {"dispatch", "insert", "acceptex"})
GivenUp     == One(hIOCP = "invalid")
Outstanding == Cardinality(Listening)
Waiting     == Cardinality(Accepts(port))
Taken       == One(got.job.kind = "accept")
Handled     == Cardinality(Accepting)
Dropped     == Cardinality(Unhandled)

(* A set with one element more, and one with one element less.              *)
LEMMA OneMore ==
    ASSUME NEW S, IsFiniteSet(S), NEW x, x \notin S
    PROVE  /\ IsFiniteSet(S \cup {x})
           /\ Cardinality(S) \in Nat /\ Cardinality(S \cup {x}) = Cardinality(S) + 1
  BY FS_AddElement, FS_CardinalityType

LEMMA OneLess ==
    ASSUME NEW S, IsFiniteSet(S), NEW x \in S
    PROVE  /\ IsFiniteSet(S \ {x})
           /\ Cardinality(S \ {x}) \in Nat /\ Cardinality(S) = Cardinality(S \ {x}) + 1
  <1>1. IsFiniteSet(S \ {x}) /\ x \notin S \ {x}
    BY FS_RemoveElement
  <1>2. (S \ {x}) \cup {x} = S
    OBVIOUS
  <1> QED BY <1>1, <1>2, OneMore

(* The positions of a sequence are finitely many.                           *)
LEMMA AcceptsFinite ==
    ASSUME NEW s \in Seq(Completion)
    PROVE  IsFiniteSet(Accepts(s)) /\ Cardinality(Accepts(s)) \in Nat
  <1>1. IsFiniteSet(1..Len(s)) /\ DOMAIN s = 1..Len(s)
    BY FS_Interval
  <1>2. Accepts(s) \subseteq 1..Len(s)
    BY <1>1 DEF Accepts
  <1> QED BY <1>1, <1>2, FS_Subset, FS_CardinalityType

(* A completion that goes to the port adds one accept, or none.             *)
LEMMA AcceptsAppend ==
    ASSUME NEW s \in Seq(Completion), NEW e \in Completion
    PROVE  Cardinality(Accepts(Append(s, e))) = Cardinality(Accepts(s)) + One(e.job.kind = "accept")
  <1> DEFINE t == Append(s, e)
             n == Len(s)
  <1>1. /\ n \in Nat /\ DOMAIN s = 1..n /\ DOMAIN t = 1..(n + 1)
        /\ \A k \in 1..n : t[k] = s[k]
        /\ t[n + 1] = e
    OBVIOUS
  <1> HIDE DEF t, n
  <1>2. \A k : k \in 1..(n + 1) <=> k \in 1..n \/ k = n + 1
    BY <1>1
  <1>3. n + 1 \notin 1..n
    BY <1>1
  <1>4. IsFiniteSet(Accepts(s)) /\ Cardinality(Accepts(s)) \in Nat
    BY AcceptsFinite
  <1>5. CASE e.job.kind = "accept"
    <2>1. Accepts(t) = Accepts(s) \cup {n + 1}
      BY <1>1, <1>2, <1>3, <1>5 DEF Accepts
    <2>2. n + 1 \notin Accepts(s)
      BY <1>1, <1>3 DEF Accepts
    <2>3. Cardinality(Accepts(t)) = Cardinality(Accepts(s)) + 1
      BY <1>4, <2>1, <2>2, OneMore
    <2> QED BY <1>5, <2>3 DEF t, One
  <1>6. CASE e.job.kind # "accept"
    <2>1. Accepts(t) = Accepts(s)
      BY <1>1, <1>2, <1>3, <1>6 DEF Accepts
    <2> QED BY <1>4, <1>6, <2>1 DEF t, One
  <1> QED BY <1>5, <1>6

(* The rest of the port has one accept less, if the first completion is one. *)
LEMMA AcceptsTail ==
    ASSUME NEW s \in Seq(Completion), s # <<>>
    PROVE  Cardinality(Accepts(s)) = Cardinality(Accepts(Tail(s))) + One(Head(s).job.kind = "accept")
  <1> DEFINE t == Tail(s)
             n == Len(s)
             A == Accepts(s) \ {1}
             f == [k \in Accepts(t) |-> k + 1]
  <1>1. /\ n \in Nat /\ n >= 1 /\ DOMAIN s = 1..n /\ DOMAIN t = 1..(n - 1) /\ Head(s) = s[1]
        /\ t \in Seq(Completion)
        /\ \A k \in 1..(n - 1) : t[k] = s[k + 1]
    OBVIOUS
  <1> HIDE DEF t, n
  <1>2. \A k : k \in 1..n /\ k # 1 <=> k \in Int /\ k - 1 \in 1..(n - 1)
    BY <1>1
  <1>3. \A k \in 1..(n - 1) : k \in Int /\ k + 1 \in 1..n /\ k + 1 # 1
    BY <1>1
  <1>4. f \in Bijection(Accepts(t), A)
    <2>1. \A k \in Accepts(t) : f[k] \in A
      BY <1>1, <1>3 DEF Accepts
    <2>2. \A j, k \in Accepts(t) : f[j] = f[k] => j = k
      BY <1>1, <1>3 DEF Accepts
    <2>3. \A k \in A : k - 1 \in Accepts(t) /\ f[k - 1] = k
      <3> SUFFICES ASSUME NEW k \in A PROVE k - 1 \in Accepts(t) /\ f[k - 1] = k
        OBVIOUS
      <3>1. k \in Int /\ k - 1 \in 1..(n - 1) /\ s[k].job.kind = "accept"
        BY <1>1, <1>2 DEF Accepts
      <3>2. (k - 1) + 1 = k
        BY <3>1
      <3>3. k - 1 \in Accepts(t)
        BY <1>1, <3>1, <3>2 DEF Accepts
      <3> QED BY <3>2, <3>3
    <2>4. f \in [Accepts(t) -> A]
      BY <2>1
    <2> QED BY <2>2, <2>3, <2>4 DEF Bijection, Injection, IsInjective, Surjection
  <1>5. IsFiniteSet(Accepts(t)) /\ Cardinality(Accepts(t)) \in Nat
    BY <1>1, AcceptsFinite
  <1>6. IsFiniteSet(A) /\ Cardinality(A) = Cardinality(Accepts(t))
    <2> HIDE DEF f, A
    <2> QED BY <1>4, <1>5, FS_Bijection DEF ExistsBijection
  <1>7. 1 \in 1..n
    BY <1>1
  <1>8. CASE Head(s).job.kind = "accept"
    <2>1. 1 \in Accepts(s)
      BY <1>1, <1>7, <1>8 DEF Accepts
    <2>2. IsFiniteSet(Accepts(s))
      BY AcceptsFinite
    <2>3. Cardinality(Accepts(s)) = Cardinality(A) + 1
      BY <2>1, <2>2, OneLess
    <2> QED BY <1>6, <1>8, <2>3 DEF t, One
  <1>9. CASE Head(s).job.kind # "accept"
    <2>1. A = Accepts(s)
      BY <1>1, <1>9 DEF Accepts
    <2>2. Cardinality(Accepts(s)) = Cardinality(Accepts(t))
      BY <1>6, <2>1
    <2>3. One(Head(s).job.kind = "accept") = 0
      BY <1>9 DEF One
    <2> HIDE DEF f, A
    <2> QED BY <1>5, <2>2, <2>3 DEF t
  <1> QED BY <1>8, <1>9

LEMMA LinksTerms ==
    Links = AtMain + GivenUp + Outstanding + Waiting + Taken + Handled + Dropped
  BY DEF Links, AtMain, GivenUp, Outstanding, Waiting, Taken, Handled, Dropped, Listening,
     Accepts, Accepting, Unhandled

LEMMA TermTypes ==
    ASSUME TypeOK, LostFinite
    PROVE  /\ AtMain \in {0, 1} /\ GivenUp \in {0, 1} /\ Taken \in {0, 1}
           /\ Outstanding \in Nat /\ Waiting \in Nat /\ Handled \in Nat /\ Dropped \in Nat
           /\ IsFiniteSet(Listening) /\ IsFiniteSet(Accepting) /\ IsFiniteSet(Unhandled)
           /\ Dropped = 0 => Unhandled = {}
  <1>1. IsFiniteSet(Listening)
    BY FS_Subset, ServerAssumption DEF Listening
  <1>2. IsFiniteSet(Accepting)
    <2>1. IsFiniteSet(Threads)
      BY FS_Interval, ServerAssumption DEF Threads
    <2>2. Accepting \subseteq Threads
      BY DEF Accepting
    <2> QED BY <2>1, <2>2, FS_Subset
  <1>3. IsFiniteSet(Unhandled)
    BY FS_Subset DEF Unhandled, LostFinite
  <1>4. Outstanding \in Nat /\ Handled \in Nat /\ Dropped \in Nat /\ Waiting \in Nat
    BY <1>1, <1>2, <1>3, FS_CardinalityType, AcceptsFinite
       DEF Outstanding, Handled, Dropped, Waiting, TypeOK
  <1>5. AtMain \in {0, 1} /\ GivenUp \in {0, 1} /\ Taken \in {0, 1}
    BY DEF AtMain, GivenUp, Taken, One
  <1>6. Dropped = 0 => Unhandled = {}
    BY <1>3, FS_EmptySet DEF Dropped
  <1> QED BY <1>1, <1>2, <1>3, <1>4, <1>5, <1>6

(* What one link says: the term that is 1 is the only one.                  *)
LEMMA OneLink ==
    ASSUME NEW a \in Nat, NEW b \in Nat, NEW c \in Nat, NEW d \in Nat, NEW e \in Nat, NEW f \in Nat,
           NEW g \in Nat, a + b + c + d + e + f + g = 1
    PROVE  /\ a = 1 => b = 0 /\ g = 0
           /\ (d >= 1 \/ e = 1) => b = 0 /\ g = 0
           /\ f >= 1 => b = 0 /\ g = 0
           /\ b = 1 => a = 0
  OBVIOUS

(* Where the chain is before a step that moves it.                          *)
LEMMA ChainAt ==
    ASSUME TypeOK, LostFinite, Links = 1
    PROVE  /\ AtMain = 1 => hIOCP = "open"
           /\ Handled >= 1 => hIOCP = "open"
           /\ Waiting >= 1 \/ Taken = 1 => Unhandled = {}
  <1>1. AtMain + GivenUp + Outstanding + Waiting + Taken + Handled + Dropped = 1
    BY LinksTerms
  <1>2. /\ AtMain = 1 => GivenUp = 0
        /\ Handled >= 1 => GivenUp = 0
        /\ (Waiting >= 1 \/ Taken = 1) => Dropped = 0
    <2>1. AtMain \in Nat /\ GivenUp \in Nat /\ Taken \in Nat
      BY TermTypes
    <2>2. Outstanding \in Nat /\ Waiting \in Nat /\ Handled \in Nat /\ Dropped \in Nat
      BY TermTypes
    <2> QED BY <1>1, <2>1, <2>2, OneLink
  <1>3. GivenUp = 0 => hIOCP = "open"
    BY DEF GivenUp, One, TypeOK
  <1> QED BY <1>2, <1>3, TermTypes

(* AcceptEx is one link: it is outstanding, or it has failed.               *)
LEMMA AcceptExLink ==
    ASSUME TypeOK, LostFinite, AcceptEx, hIOCP = "open"
    PROVE  \/ Outstanding' = Outstanding + 1 /\ GivenUp' = GivenUp
           \/ Outstanding' = Outstanding /\ GivenUp' = GivenUp + 1
  <1>1. Outstanding \in Nat /\ IsFiniteSet(Listening) /\ GivenUp = 0
    BY TermTypes DEF GivenUp, One
  <1>2. CASE AcceptExFails
    <2>1. Listening' = Listening /\ GivenUp' = 1
      BY <1>2 DEF AcceptExFails, sockVars, Listening, GivenUp, One
    <2> QED BY <1>1, <2>1 DEF Outstanding
  <1>3. CASE AcceptExOK
    <2>1. PICK c \in Clients : conn[c] = "made" /\ conn' = [conn EXCEPT ![c] = "listening"]
      BY <1>3 DEF AcceptExOK
    <2>2. Listening' = Listening \cup {c} /\ c \notin Listening
      BY <2>1 DEF Listening, TypeOK
    <2>3. Outstanding' = Outstanding + 1
      BY <1>1, <2>2, OneMore DEF Outstanding
    <2>4. GivenUp' = 0
      BY <1>3 DEF AcceptExOK, GivenUp, One
    <2> QED BY <1>1, <2>3, <2>4
  <1> QED BY <1>2, <1>3 DEF AcceptEx

(* A client that was listening no longer is.                                *)
LEMMA ListeningLess ==
    ASSUME TypeOK, LostFinite, NEW c \in Clients, NEW s, s # "listening",
           conn' = [conn EXCEPT ![c] = s]
    PROVE  Outstanding' = IF conn[c] = "listening" THEN Outstanding - 1 ELSE Outstanding
  <1>1. IsFiniteSet(Listening) /\ Outstanding \in Nat
    BY TermTypes
  <1>2. CASE conn[c] = "listening"
    <2>1. c \in Listening /\ Listening' = Listening \ {c}
      BY <1>2 DEF Listening, TypeOK
    <2> QED BY <1>1, <1>2, <2>1, OneLess DEF Outstanding
  <1>3. CASE conn[c] # "listening"
    <2>1. Listening' = Listening
      BY <1>3 DEF Listening, TypeOK
    <2> QED BY <1>1, <1>3, <2>1 DEF Outstanding
  <1> QED BY <1>2, <1>3

(* A job that is lost.                                                      *)
LEMMA LoseLink ==
    ASSUME TypeOK, LostFinite, NEW job \in Job \ {Free, Iocp}, NEW why, Lose(job, why),
           job.kind = "accept" => Unhandled = {}
    PROVE  /\ Dropped' = IF job.kind = "accept" THEN Dropped + 1 ELSE Dropped
           /\ LostFinite'
  <1>1. IsFiniteSet(Unhandled) /\ Dropped \in Nat
    BY TermTypes
  <1>2. lost' = lost \/ lost' = lost \cup {[job |-> job, why |-> why]}
    BY DEF Lose
  <1>3. LostFinite'
    BY <1>2, FS_AddElement DEF LostFinite
  <1>4. CASE job.kind = "accept"
    <2>1. lost' = lost \cup {[job |-> job, why |-> why]}
      BY <1>4 DEF Lose
    <2>2. Unhandled' = Unhandled \cup {[job |-> job, why |-> why]}
      BY <1>4, <2>1 DEF Unhandled
    <2>3. [job |-> job, why |-> why] \notin Unhandled
      BY <1>4
    <2>4. Dropped' = Dropped + 1
      BY <1>1, <2>2, <2>3, OneMore DEF Dropped
    <2> QED BY <1>3, <1>4, <2>4
  <1>5. CASE job.kind # "accept"
    <2>1. Unhandled' = Unhandled
      BY <1>2, <1>5 DEF Unhandled
    <2> QED BY <1>1, <1>3, <1>5, <2>1 DEF Dropped
  <1> QED BY <1>4, <1>5

LEMMA LinksTermsNext ==
    Links' = AtMain' + GivenUp' + Outstanding' + Waiting' + Taken' + Handled' + Dropped'
  BY DEF Links, AtMain, GivenUp, Outstanding, Waiting, Taken, Handled, Dropped, Listening,
     Accepts, Accepting, Unhandled

(* The terms a step leaves alone. *)
LEMMA TermsSame ==
    /\ mpc' = mpc => AtMain' = AtMain
    /\ hIOCP' = hIOCP => GivenUp' = GivenUp
    /\ Listening' = Listening => Outstanding' = Outstanding
    /\ conn' = conn => Outstanding' = Outstanding
    /\ port' = port => Waiting' = Waiting
    /\ got' = got => Taken' = Taken
    /\ Accepting' = Accepting => Handled' = Handled
    /\ slot' = slot /\ spc' = spc => Handled' = Handled
    /\ lost' = lost => Dropped' = Dropped
  BY DEF AtMain, GivenUp, Outstanding, Listening, Waiting, Taken, Handled, Accepting, Dropped, Unhandled

LEMMA WaitingAppend ==
    ASSUME TypeOK, NEW e \in Completion, port' = Append(port, e)
    PROVE  Waiting' = IF e.job.kind = "accept" THEN Waiting + 1 ELSE Waiting
  <1>1. Accepts(port)' = Accepts(Append(port, e))
    BY DEF Accepts
  <1>2. Waiting' = Cardinality(Accepts(Append(port, e)))
    BY <1>1 DEF Waiting
  <1>3. Waiting' = Waiting + One(e.job.kind = "accept")
    BY <1>2, AcceptsAppend DEF TypeOK, Waiting
  <1>4. Waiting \in Nat
    BY AcceptsFinite DEF TypeOK, Waiting
  <1> QED BY <1>3, <1>4 DEF One

LEMMA WaitingTail ==
    ASSUME TypeOK, port # <<>>, port' = Tail(port)
    PROVE  /\ Waiting' = IF Head(port).job.kind = "accept" THEN Waiting - 1 ELSE Waiting
           /\ Head(port).job.kind = "accept" => Waiting >= 1
  <1>1. Accepts(port)' = Accepts(Tail(port))
    BY DEF Accepts
  <1>2. Waiting' = Cardinality(Accepts(Tail(port)))
    BY <1>1 DEF Waiting
  <1>3. port \in Seq(Completion) /\ Tail(port) \in Seq(Completion)
    BY PortHead DEF TypeOK
  <1>4. Waiting = Cardinality(Accepts(Tail(port))) + One(Head(port).job.kind = "accept")
    BY <1>3, AcceptsTail DEF Waiting
  <1>5. Cardinality(Accepts(Tail(port))) \in Nat
    BY <1>3, AcceptsFinite
  <1> QED BY <1>2, <1>4, <1>5 DEF One

(* The chain in the steps of the main thread.                               *)
LEMMA ChainMain ==
    ASSUME TypeOK, MainInv, LostFinite, Links = 1, OneStage,
           StartService \/ Getchar \/ (\E c \in Clients : DeleteClient(c))
    PROVE  Links' = 1 /\ LostFinite'
  <1> USE DEF vars, sockVars, poolVars
  <1>0. /\ AtMain \in Int /\ GivenUp \in Int /\ Taken \in Int /\ Outstanding \in Int
        /\ Waiting \in Int /\ Handled \in Int /\ Dropped \in Int
        /\ AtMain + GivenUp + Outstanding + Waiting + Taken + Handled + Dropped = 1
    BY TermTypes, LinksTerms
  <1>1. CASE StartFails \/ Getchar
    <2>1. /\ UNCHANGED <<hIOCP, port, sockVars, deleted, poolVars, got, lost, process>>
          /\ AtMain' = AtMain
      BY <1>1 DEF StartFails, Getchar, AtMain
    <2>2. /\ GivenUp' = GivenUp /\ Outstanding' = Outstanding /\ Waiting' = Waiting /\ Taken' = Taken
          /\ Handled' = Handled /\ Dropped' = Dropped /\ LostFinite'
      BY <2>1, TermsSame DEF LostFinite
    <2> QED BY <1>0, <2>1, <2>2, LinksTermsNext
  <1>2. CASE Start
    <2>1. /\ AtMain = 0 /\ AtMain' = 1 /\ GivenUp = 1 /\ GivenUp' = 0
      BY <1>2 DEF Start, AtMain, GivenUp, One, MainInv
    <2>2. /\ Outstanding' = Outstanding /\ Waiting' = Waiting /\ Taken' = Taken
          /\ Handled' = Handled /\ Dropped' = Dropped /\ LostFinite'
      BY <1>2, TermsSame DEF Start, LostFinite
    <2> QED BY <1>0, <2>1, <2>2, LinksTermsNext
  <1>3. CASE StartIocp
    <2>1. PICK i \in Takers : slot' = [slot EXCEPT ![i] = Iocp]
      BY <1>3 DEF StartIocp
    <2>2. Accepting' = Accepting
      <3>1. spc' = spc /\ i \in Threads /\ slot[i].kind = "free"
        BY <1>3 DEF StartIocp, Takers, FreeSlots, Free
      <3>2. slot'[i].kind = "iocp" /\ \A k \in Threads \ {i} : slot'[k] = slot[k]
        BY <2>1, <3>1 DEF Iocp, TypeOK
      <3> QED BY <3>1, <3>2 DEF Accepting
    <2>3. AtMain' = AtMain
      BY <1>3 DEF StartIocp, AtMain
    <2>4. /\ GivenUp' = GivenUp /\ Outstanding' = Outstanding /\ Waiting' = Waiting /\ Taken' = Taken
          /\ Handled' = Handled /\ Dropped' = Dropped /\ LostFinite'
      BY <1>3, <2>2, TermsSame DEF StartIocp, LostFinite
    <2> QED BY <1>0, <2>3, <2>4, LinksTermsNext
  <1>4. CASE FirstInsert
    <2>1. AtMain' = AtMain /\ Listening' = Listening /\ hIOCP' = hIOCP
      BY <1>4 DEF FirstInsert, MakeClient, AtMain, Listening, TypeOK
    <2>2. /\ GivenUp' = GivenUp /\ Outstanding' = Outstanding /\ Waiting' = Waiting /\ Taken' = Taken
          /\ Handled' = Handled /\ Dropped' = Dropped /\ LostFinite'
      BY <1>4, <2>1, TermsSame DEF FirstInsert, LostFinite
    <2> QED BY <1>0, <2>1, <2>2, LinksTermsNext
  <1>5. CASE FirstAccept
    <2>1. AtMain = 1 /\ AtMain' = 0
      BY <1>5 DEF FirstAccept, AtMain, One
    <2>2. \/ Outstanding' = Outstanding + 1 /\ GivenUp' = GivenUp
          \/ Outstanding' = Outstanding /\ GivenUp' = GivenUp + 1
      BY <1>5, <2>1, ChainAt, AcceptExLink DEF FirstAccept
    <2>3. Waiting' = Waiting /\ Taken' = Taken /\ Handled' = Handled /\ Dropped' = Dropped /\ LostFinite'
      BY <1>5, TermsSame DEF FirstAccept, LostFinite
    <2> QED BY <1>0, <2>1, <2>2, <2>3, LinksTermsNext
  <1>6. ASSUME NEW c \in Clients, DeleteClient(c) PROVE Links' = 1 /\ LostFinite'
    <2>1. conn' = [conn EXCEPT ![c] = "shut"]
      BY <1>6 DEF DeleteClient
    <2>2. Outstanding' = IF conn[c] = "listening" THEN Outstanding - 1 ELSE Outstanding
      <3>1. "shut" # "listening"
        OBVIOUS
      <3> QED BY <2>1, <3>1, ListeningLess
    <2>3. Waiting' = IF conn[c] = "listening" THEN Waiting + 1 ELSE Waiting
      <3>1. CASE conn[c] = "listening"
        <4>1. port' = Append(port, [job |-> Accept(c), ok |-> FALSE])
          BY <1>6, <3>1 DEF DeleteClient, OneStage, Early
        <4> QED BY <3>1, <4>1, JobTypes, WaitingAppend DEF Accept
      <3>2. CASE conn[c] # "listening" /\ c \in armed
        <4>1. port' = Append(port, [job |-> Recv(c), ok |-> FALSE])
          BY <1>6, <3>2 DEF DeleteClient
        <4> QED BY <3>2, <4>1, JobTypes, WaitingAppend DEF Recv
      <3>3. CASE conn[c] # "listening" /\ c \notin armed
        <4>1. port' = port
          BY <1>6, <3>3 DEF DeleteClient
        <4> QED BY <3>3, <4>1, TermsSame
      <3> QED BY <3>1, <3>2, <3>3
    <2>4. /\ AtMain' = AtMain /\ GivenUp' = GivenUp /\ Taken' = Taken
          /\ Handled' = Handled /\ Dropped' = Dropped /\ LostFinite'
      BY <1>6, TermsSame DEF DeleteClient, LostFinite
    <2> QED BY <1>0, <2>2, <2>3, <2>4, LinksTermsNext
  <1> QED BY <1>1, <1>2, <1>3, <1>4, <1>5, <1>6 DEF StartService

(* The chain in the steps of the peers.                                     *)
LEMMA ChainNetwork ==
    ASSUME TypeOK, LostFinite, Links = 1, Network
    PROVE  Links' = 1 /\ LostFinite'
  <1> USE DEF sockVars, poolVars
  <1>0. /\ AtMain \in Int /\ GivenUp \in Int /\ Taken \in Int /\ Outstanding \in Int
        /\ Waiting \in Int /\ Handled \in Int /\ Dropped \in Int
        /\ AtMain + GivenUp + Outstanding + Waiting + Taken + Handled + Dropped = 1
    BY TermTypes, LinksTerms
  <1>1. /\ AtMain' = AtMain /\ GivenUp' = GivenUp /\ Taken' = Taken
        /\ Handled' = Handled /\ Dropped' = Dropped /\ LostFinite'
    BY TermsSame DEF Network, LostFinite
  <1>2. PICK c \in Clients : Peer(c) \/ RecvCompletes(c)
    BY DEF Network
  <1>3. CASE Connect(c) \/ AbortConnect(c)
    <2>1. PICK s \in {"open", "reset"}, b \in BOOLEAN :
             /\ conn[c] = "listening" /\ conn' = [conn EXCEPT ![c] = s]
             /\ port' = Append(port, [job |-> Accept(c), ok |-> b])
      BY <1>3 DEF Connect, AbortConnect
    <2>2. Outstanding' = Outstanding - 1
      <3>1. s # "listening"
        OBVIOUS
      <3> QED BY <2>1, <3>1, ListeningLess
    <2>3. Waiting' = Waiting + 1
      BY <2>1, JobTypes, WaitingAppend DEF Accept
    <2> QED BY <1>0, <1>1, <2>2, <2>3, LinksTermsNext
  <1>4. CASE PeerSends(c) \/ PeerCloses(c)
    <2>1. Listening' = Listening /\ port' = port
      BY <1>4 DEF PeerSends, PeerCloses, Listening, TypeOK
    <2> QED BY <1>0, <1>1, <2>1, TermsSame, LinksTermsNext
  <1>5. CASE RecvCompletes(c)
    <2>1. (conn[c] # "reset") \in BOOLEAN
      OBVIOUS
    <2>2. Waiting' = Waiting
      BY <1>5, <2>1, JobTypes, WaitingAppend DEF RecvCompletes, Recv
    <2>3. Outstanding' = Outstanding
      BY <1>5, TermsSame DEF RecvCompletes
    <2> QED BY <1>0, <1>1, <2>2, <2>3, LinksTermsNext
  <1> QED BY <1>2, <1>3, <1>4, <1>5 DEF Peer

(* The chain in the steps of the pool's threads.                            *)
LEMMA ChainThread ==
    ASSUME TypeOK, MainInv, IocpInv, SlotInv, LostFinite, Links = 1, mpc \notin {"stop", "gone"},
           NEW i \in Threads, Thread(i) \/ TouchDeleted(i)
    PROVE  Links' = 1 /\ LostFinite'
  <1> USE DEF sockVars, poolVars
  <1>0. /\ AtMain \in Int /\ GivenUp \in Int /\ Taken \in Int /\ Outstanding \in Int
        /\ Waiting \in Int /\ Handled \in Int /\ Dropped \in Int
        /\ AtMain + GivenUp + Outstanding + Waiting + Taken + Handled + Dropped = 1
    BY TermTypes, LinksTerms
  <1>1. CASE Enter(i) \/ EndThread(i) \/ TouchDeleted(i) \/ AcceptRecv(i) \/ RecvData(i)
             \/ AcceptDone(i) \/ RecvEnds(i)
    <2>1. /\ mpc' = mpc /\ hIOCP' = hIOCP /\ conn' = conn /\ port' = port /\ got' = got
          /\ lost' = lost \/ lost' = lost \cup {Unasked(slot[i].c)}
      BY <1>1 DEF Enter, EndThread, TouchDeleted, AcceptRecv, Armed, RecvData, AcceptDone, RecvEnds
    <2>2. \/ /\ slot' = slot
             /\ spc' = spc \/ \E p \in {"call", "ended", "insert", "enter"} : spc' = [spc EXCEPT ![i] = p]
             /\ spc[i] # "done" \/ spc' = spc
          \/ /\ slot' = [slot EXCEPT ![i] = Free] /\ spc' = [spc EXCEPT ![i] = "enter"]
             /\ slot[i].kind = "recv" \/ spc[i] = "done"
      BY <1>1 DEF Enter, EndThread, TouchDeleted, AcceptRecv, RecvData, AcceptDone, RecvEnds, Goto,
         Done, At
    <2>3. Accepting' = Accepting
      <3>1. \A k \in Threads \ {i} : slot'[k] = slot[k] /\ spc'[k] = spc[k]
        BY <2>2 DEF TypeOK
      <3>2. \/ slot'[i] = slot[i] /\ (spc[i] = "done" <=> spc'[i] = "done")
            \/ slot'[i].kind = "free" /\ (slot[i].kind = "recv" \/ spc[i] = "done")
        BY <2>2 DEF Free, TypeOK
      <3> QED BY <3>1, <3>2 DEF Accepting
    <2>4. Dropped' = Dropped /\ LostFinite'
      <3>1. Unhandled' = Unhandled
        BY <2>1 DEF Unhandled, Unasked, Recv
      <3>2. LostFinite'
        BY <2>1, FS_AddElement DEF LostFinite
      <3> QED BY <3>1, <3>2 DEF Dropped
    <2> QED BY <1>0, <2>1, <2>3, <2>4, TermsSame, LinksTermsNext
  <1>2. CASE IocpGetFailed(i) \/ IocpGet(i)
    <2>1. /\ mpc' = mpc /\ hIOCP' = hIOCP /\ conn' = conn /\ slot' = slot /\ slot[i].kind = "iocp"
          /\ \E p \in {"enter", "dispatch"} : spc' = [spc EXCEPT ![i] = p]
          /\ port # <<>> /\ port' = Tail(port) /\ spc[i] = "call"
      BY <1>2 DEF IocpGetFailed, IocpGet, At, Goto
    <2>2. Accepting' = Accepting
      BY <2>1 DEF Accepting, TypeOK
    <2>3. /\ AtMain' = AtMain /\ GivenUp' = GivenUp /\ Outstanding' = Outstanding /\ Handled' = Handled
      BY <2>1, <2>2, TermsSame
    <2>4. Waiting' = IF Head(port).job.kind = "accept" THEN Waiting - 1 ELSE Waiting
      BY <2>1, WaitingTail
    <2>5. Head(port) \in Completion /\ Head(port).job \in Job \ {Free, Iocp}
      BY <2>1, PortHead DEF TypeOK
    <2>6. CASE IocpGetFailed(i)
      <3>1. Lose(Head(port).job, "error") /\ got' = got
        BY <2>6 DEF IocpGetFailed
      <3>2. Head(port).job.kind = "accept" => Unhandled = {}
        BY <2>1, WaitingTail, ChainAt
      <3>3. /\ Dropped' = IF Head(port).job.kind = "accept" THEN Dropped + 1 ELSE Dropped
            /\ LostFinite'
        BY <2>5, <3>1, <3>2, LoseLink
      <3> QED BY <1>0, <2>3, <2>4, <3>1, <3>3, TermsSame, LinksTermsNext
    <2>7. CASE IocpGet(i)
      <3>1. got' = Head(port) /\ lost' = lost
        BY <2>7 DEF IocpGet
      <3>2. got = NoCompletion
        BY <2>1, JobTypes DEF IocpInv, TypeOK
      <3>3. Taken = 0 /\ Taken' = IF Head(port).job.kind = "accept" THEN 1 ELSE 0
        BY <3>1, <3>2 DEF Taken, One, NoCompletion, Free
      <3> QED BY <1>0, <2>3, <2>4, <3>1, <3>3, TermsSame, LinksTermsNext DEF LostFinite
    <2> QED BY <1>2, <2>6, <2>7
  <1>3. CASE IocpDispatch(i)
    <2>1. /\ mpc' = mpc /\ hIOCP' = hIOCP /\ conn' = conn /\ port' = port /\ got' = NoCompletion
          /\ spc' = [spc EXCEPT ![i] = "enter"] /\ slot[i].kind = "iocp" /\ got \in Completion
      BY <1>3 DEF IocpDispatch, At, IocpInv, TypeOK
    <2>2. got.job \in Job \ {Free, Iocp}
      BY <2>1, JobTypes
    <2>3. /\ AtMain' = AtMain /\ GivenUp' = GivenUp /\ Outstanding' = Outstanding /\ Waiting' = Waiting
      BY <2>1, TermsSame
    <2>4. /\ Taken' = 0
          /\ got.job.kind = "accept" => Taken = 1
          /\ got.job.kind # "accept" => Taken = 0
      BY <2>1 DEF Taken, One, NoCompletion, Free
    <2>5. CASE Takers = {}
      <3>1. Lose(got.job, "full") /\ slot' = slot
        BY <1>3, <2>5 DEF IocpDispatch
      <3>2. got.job.kind = "accept" => Unhandled = {}
        BY <2>4, ChainAt
      <3>3. Dropped' = (IF got.job.kind = "accept" THEN Dropped + 1 ELSE Dropped) /\ LostFinite'
        BY <2>2, <3>1, <3>2, LoseLink
      <3>4. Accepting' = Accepting
        BY <2>1, <3>1 DEF Accepting, TypeOK
      <3> QED BY <1>0, <2>3, <2>4, <3>3, <3>4, TermsSame, LinksTermsNext
    <2>6. ASSUME NEW k \in Takers, slot' = [slot EXCEPT ![k] = got.job], lost' = lost
          PROVE  Links' = 1 /\ LostFinite'
      <3>1. k \in Threads /\ slot[k].kind = "free" /\ k # i /\ spc[k] = "enter"
        BY <2>1, <2>6 DEF Takers, FreeSlots, Free, SlotInv, MainInv, Stopping
      <3>2. /\ slot'[k] = got.job /\ spc'[k] = "enter" /\ slot'[i] = slot[i]
            /\ \A j \in Threads \ {i, k} : slot'[j] = slot[j] /\ spc'[j] = spc[j]
        BY <2>1, <2>6, <3>1 DEF TypeOK
      <3>3. Handled' = IF got.job.kind = "accept" THEN Handled + 1 ELSE Handled
        <4>1. CASE got.job.kind = "accept"
          <5>1. Accepting' = Accepting \cup {k} /\ k \notin Accepting
            BY <2>1, <3>1, <3>2, <4>1 DEF Accepting
          <5> QED BY <4>1, <5>1, OneMore, TermTypes DEF Handled
        <4>2. CASE got.job.kind # "accept"
          <5>1. Accepting' = Accepting
            BY <2>1, <3>1, <3>2, <4>2 DEF Accepting
          <5> QED BY <4>2, <5>1, TermsSame
        <4> QED BY <4>1, <4>2
      <3> QED BY <1>0, <2>3, <2>4, <2>6, <3>3, TermsSame, LinksTermsNext DEF LostFinite
    <2> QED BY <1>3, <2>5, <2>6 DEF IocpDispatch
  <1>4. CASE AcceptInsert(i)
    <2>1. /\ mpc' = mpc /\ hIOCP' = hIOCP /\ port' = port /\ got' = got /\ lost' = lost
          /\ slot' = slot /\ spc' = [spc EXCEPT ![i] = "acceptex"] /\ spc[i] = "insert"
      BY <1>4 DEF AcceptInsert, MakeClient, Goto, At
    <2>2. Listening' = Listening
      BY <1>4 DEF AcceptInsert, MakeClient, Listening, TypeOK
    <2>3. Accepting' = Accepting
      BY <2>1 DEF Accepting, TypeOK
    <2> QED BY <1>0, <2>1, <2>2, <2>3, TermsSame, LinksTermsNext DEF LostFinite
  <1>5. CASE AcceptNext(i)
    <2>1. /\ mpc' = mpc /\ port' = port /\ got' = got /\ lost' = lost /\ slot' = slot
          /\ spc' = [spc EXCEPT ![i] = "done"] /\ spc[i] = "acceptex" /\ slot[i].kind = "accept"
          /\ AcceptEx
      BY <1>5 DEF AcceptNext, Goto, At
    <2>2. i \in Accepting /\ Accepting' = Accepting \ {i}
      BY <2>1 DEF Accepting, TypeOK
    <2>3. Handled' = Handled - 1 /\ Handled >= 1
      BY <2>2, OneLess, TermTypes DEF Handled
    <2>4. \/ Outstanding' = Outstanding + 1 /\ GivenUp' = GivenUp
          \/ Outstanding' = Outstanding /\ GivenUp' = GivenUp + 1
      BY <2>1, <2>3, ChainAt, AcceptExLink
    <2> QED BY <1>0, <2>1, <2>3, <2>4, TermsSame, LinksTermsNext DEF LostFinite
  <1> QED BY <1>1, <1>2, <1>3, <1>4, <1>5 DEF Thread

LEMMA ChainStep ==
    ASSUME TypeOK, MainInv, IocpInv, SlotInv, OneStage, LostFinite, AcceptChain, [Next]_vars
    PROVE  AcceptChain' /\ LostFinite'
  <1> USE DEF vars, sockVars, poolVars
  <1>1. CASE UNCHANGED vars
    <2>1. /\ AtMain' = AtMain /\ GivenUp' = GivenUp /\ Outstanding' = Outstanding
          /\ Waiting' = Waiting /\ Taken' = Taken /\ Handled' = Handled /\ Dropped' = Dropped
          /\ mpc' = mpc /\ LostFinite'
      BY <1>1, TermsSame DEF LostFinite
    <2>2. Links' = Links
      BY <2>1, LinksTerms, LinksTermsNext
    <2> QED BY <2>1, <2>2 DEF AcceptChain
  <1>2. CASE mpc \notin {"stop", "gone"} /\ Next
    <2>1. Links = 1
      BY <1>2 DEF AcceptChain
    <2>2. CASE StartService \/ Getchar \/ (\E c \in Clients : DeleteClient(c))
      BY <2>1, <2>2, ChainMain DEF AcceptChain
    <2>3. CASE DeleteEnd
      BY <2>3 DEF DeleteEnd, AcceptChain, LostFinite
    <2>4. CASE Network
      BY <2>1, <2>4, ChainNetwork DEF AcceptChain
    <2>5. ASSUME NEW i \in Threads, Thread(i) \/ TouchDeleted(i) PROVE AcceptChain' /\ LostFinite'
      BY <1>2, <2>1, <2>5, ChainThread DEF AcceptChain
    <2>6. ASSUME NEW i \in Threads PROVE ~StopThread(i) /\ ~JoinThread(i)
      BY <1>2 DEF StopThread, JoinThread
    <2>7. ~StopEnd
      BY <1>2 DEF StopEnd
    <2> QED BY <1>2, <2>2, <2>3, <2>4, <2>5, <2>6, <2>7 DEF Next, Destroy
  <1>3. CASE mpc \in {"stop", "gone"} /\ Next
    <2>1. mpc' \in {"stop", "gone"}
      BY <1>3 DEF Next, StartService, Destroy, Thread, StartFails, Start, StartIocp, FirstInsert,
         FirstAccept, Getchar, DeleteClient, DeleteEnd, StopThread, JoinThread, StopEnd, Network,
         Enter, EndThread, TouchDeleted, IocpGetFailed, IocpGet, IocpDispatch, AcceptRecv,
         AcceptInsert, AcceptNext, AcceptDone, RecvData, RecvEnds
    <2>2. lost' = lost \/ (\E job, why : Lose(job, why)) \/ \E c : lost' = lost \cup {Unasked(c)}
      BY <1>3 DEF Armed, Next, StartService, Destroy, Thread, StartFails, Start, StartIocp, FirstInsert,
         FirstAccept, Getchar, DeleteClient, DeleteEnd, StopThread, JoinThread, StopEnd, Network,
         Enter, EndThread, TouchDeleted, IocpGetFailed, IocpGet, IocpDispatch, AcceptRecv,
         AcceptInsert, AcceptNext, AcceptDone, RecvData, RecvEnds
    <2>3. LostFinite'
      BY <2>2, FS_AddElement DEF Lose, LostFinite
    <2> QED BY <2>1, <2>3 DEF AcceptChain
  <1> QED BY <1>1, <1>2, <1>3

-----------------------------------------------------------------------------
(* The invariant. *)

LEMMA InitIInv == Init => IInv
  <1> SUFFICES ASSUME Init PROVE IInv
    OBVIOUS
  <1>1. TypeOK
    BY InitTypeOK
  <1>2. AvailSent
    BY DEF Init, AvailSent
  <1>3. MainInv
    BY DEF Init, MainInv
  <1>4. IocpInv
    BY DEF Init, IocpInv, Free, Iocp
  <1>5. SlotInv
    BY DEF Init, SlotInv
  <1>6. AtPort = {} /\ AtIocp = {} /\ Serving = {} /\ Served = {} /\ armed = {} /\ OncePort
    BY DEF Init, AtPort, AtIocp, Serving, Served, NoCompletion, Free, OncePort
  <1>7. OneStage /\ OncePort /\ OnceServing
    BY <1>6 DEF OneStage, OnceServing
  <1>8. LostFinite
    BY FS_EmptySet DEF Init, LostFinite
  <1>9. AcceptChain
    <2>1. Listening = {} /\ Accepts(port) = {} /\ Accepting = {} /\ Unhandled = {}
      BY DEF Init, Listening, Accepts, Accepting, Unhandled, Free
    <2>2. Outstanding = 0 /\ Waiting = 0 /\ Handled = 0 /\ Dropped = 0
      BY <2>1, FS_EmptySet DEF Outstanding, Waiting, Handled, Dropped
    <2>3. AtMain = 0 /\ GivenUp = 1 /\ Taken = 0
      BY DEF Init, AtMain, GivenUp, Taken, One, NoCompletion, Free
    <2> QED BY <2>2, <2>3, LinksTerms DEF AcceptChain
  <1> QED BY <1>1, <1>2, <1>3, <1>4, <1>5, <1>7, <1>8, <1>9 DEF IInv

LEMMA IInvStep == IInv /\ [Next]_vars => IInv'
  BY TypeStep, AvailSentStep, SlotsStep, StagesStep, ChainStep DEF IInv

(* Where every operation of the server is, at all times.                    *)
THEOREM IInvHolds == Spec => []IInv
  BY InitIInv, IInvStep, PTL DEF Spec

(* Every variable keeps its type: what is read fits into m_buffer, and no   *)
(* more is read than has arrived.                                           *)
THEOREM TypeCorrect == Spec => []TypeOK
  <1>1. IInv => TypeOK
    BY DEF IInv
  <1> QED BY <1>1, IInvHolds, PTL

(* Until the pool is stopped the chain of AcceptEx is in exactly one place, *)
(* for any number of clients and of threads: no AcceptEx is issued twice,   *)
(* and it ends only where NewAccept or StartService fails or where a        *)
(* completion is not handled.                                               *)
THEOREM ChainUnbroken == Spec => []AcceptChain
  <1>1. IInv => AcceptChain
    BY DEF IInv
  <1> QED BY <1>1, IInvHolds, PTL

(* A set that has one element at most.                                      *)
LEMMA AtMostOne ==
    ASSUME NEW S, \A x, y \in S : x = y
    PROVE  /\ Cardinality(S) \in {0, 1}
           /\ Cardinality(S) = 1 => S # {}
  <1>1. CASE S = {}
    BY <1>1, FS_EmptySet
  <1>2. ASSUME NEW x \in S PROVE Cardinality(S) = 1
    <2>1. S = {x}
      OBVIOUS
    <2> QED BY <2>1, FS_Singleton
  <1> QED BY <1>1, <1>2

LEMMA OneReaderFromStages ==
    ASSUME TypeOK, OneStage, OncePort, OnceServing
    PROVE  OneReader
  <1> SUFFICES ASSUME NEW c \in Clients
               PROVE  One(c \in armed) + One(got.job = Recv(c))
                        + Cardinality({k \in DOMAIN port : port[k].job = Recv(c)})
                        + Cardinality({i \in Threads : slot[i] = Recv(c)}) <= 1
    BY DEF OneReader
  <1> DEFINE P == {k \in DOMAIN port : port[k].job = Recv(c)}
             S == {i \in Threads : slot[i] = Recv(c)}
             a == One(c \in armed)
             g == One(got.job = Recv(c))
  <1>1. Recv(c).c = c /\ Recv(c).kind = "recv" /\ c # NoClient
    BY ServerAssumption DEF Recv
  <1>2. \A j, k \in P : j = k
    BY DEF OncePort
  <1>3. \A i, j \in S : i = j
    BY <1>1 DEF OnceServing, Serving
  <1>4. P # {} => c \in AtPort
    BY <1>1 DEF AtPort
  <1>5. S # {} => c \in Served
    BY <1>1 DEF Served, Serving
  <1>6. a \in {0, 1} /\ g \in {0, 1} /\ (a = 1 => c \in armed) /\ (g = 1 => c \in AtIocp)
    BY <1>1 DEF One, AtIocp
  <1>7. /\ Cardinality(P) \in {0, 1} /\ Cardinality(S) \in {0, 1}
        /\ Cardinality(P) = 1 => P # {}
        /\ Cardinality(S) = 1 => S # {}
    BY <1>2, <1>3, AtMostOne
  <1> HIDE DEF P, S, a, g
  <1>8. /\ a = 1 => g # 1 /\ Cardinality(P) # 1 /\ Cardinality(S) # 1
        /\ g = 1 => Cardinality(P) # 1 /\ Cardinality(S) # 1
        /\ Cardinality(P) = 1 => Cardinality(S) # 1
    BY <1>4, <1>5, <1>6, <1>7 DEF OneStage
  <1>9. a + g + Cardinality(P) + Cardinality(S) <= 1
    BY <1>6, <1>7, <1>8
  <1> QED BY <1>9 DEF P, S, a, g

(* A connection has one reader at most, for any number of clients and of    *)
(* threads: one WSARecv outstanding, one completion of it on its way, or    *)
(* one RecvWorker.                                                          *)
THEOREM ReadByOne == Spec => []OneReader
  <1>1. IInv => OneReader
    BY OneReaderFromStages DEF IInv
  <1> QED BY <1>1, IInvHolds, PTL

-----------------------------------------------------------------------------
(* When the pool is full.  An accept keeps its slot until AcceptWorker is   *)
(* done, while its connection may be read by another thread already.        *)

AcceptSlots == {i \in Threads : slot[i].kind = "accept"}
RecvSlots   == {i \in Threads : slot[i].kind = "recv"}
Owners      == {slot[i].c : i \in AcceptSlots}
PortAccepts == {port[k].job.c : k \in Accepts(port)}
GotAccept   == IF got.job.kind = "accept" THEN {got.job.c} ELSE {}

(* A connection is accepted once: while a slot has its accept no other      *)
(* place has it.                                                            *)
OnceAccept ==
    /\ Owners \cap Early = {} /\ Owners \cap PortAccepts = {} /\ Owners \cap GotAccept = {}
    /\ \A i, j \in AcceptSlots : slot[i].c = slot[j].c => i = j

(* A step that gives no slot an accept. *)
LEMMA OwnersKept ==
    ASSUME OnceAccept, AcceptSlots' \subseteq AcceptSlots,
           \A i \in AcceptSlots' : slot'[i].c = slot[i].c,
           Early' \subseteq Early, PortAccepts' \subseteq PortAccepts \cup Early,
           GotAccept' \subseteq GotAccept \cup PortAccepts
    PROVE  OnceAccept'
  <1>1. Owners' \subseteq Owners
    BY DEF Owners
  <1>2. \A i, j \in AcceptSlots' : slot'[i].c = slot'[j].c => i = j
    BY DEF OnceAccept
  <1> QED BY <1>1, <1>2 DEF OnceAccept

(* A client that has been connected is never a new one again.               *)
LEMMA EarlyShrinks == TypeOK /\ [Next]_vars => Early' \subseteq Early
  <1> SUFFICES ASSUME TypeOK, [Next]_vars PROVE Early' \subseteq Early
    OBVIOUS
  <1> USE DEF TypeOK, Early, vars, sockVars, poolVars
  <1>1. CASE UNCHANGED vars \/ StartService \/ Getchar
    BY <1>1 DEF StartService, StartFails, Start, StartIocp, FirstInsert, FirstAccept, Getchar,
       MakeClient, AcceptEx, AcceptExOK, AcceptExFails
  <1>2. CASE Destroy
    BY <1>2 DEF Destroy, DeleteClient, DeleteEnd, StopThread, JoinThread, StopEnd
  <1>3. CASE Network
    BY <1>3 DEF Network, Peer, Connect, AbortConnect, PeerSends, PeerCloses, RecvCompletes
  <1>4. ASSUME NEW i \in Threads, Thread(i) \/ TouchDeleted(i)
        PROVE  Early' \subseteq Early
    BY <1>4 DEF Thread, Enter, EndThread, TouchDeleted, IocpGetFailed, IocpGet, IocpDispatch,
       AcceptRecv, AcceptInsert, AcceptNext, AcceptDone, RecvData, RecvEnds, MakeClient, AcceptEx,
       AcceptExOK, AcceptExFails
  <1> QED BY <1>1, <1>2, <1>3, <1>4 DEF Next

(* The accepts at the port, when a completion comes to it and when the      *)
(* first leaves it.                                                         *)
LEMMA PortAcceptsNext ==
    ASSUME port \in Seq(Completion)
    PROVE  /\ \A e \in Completion : port' = Append(port, e) =>
                  PortAccepts' \subseteq
                      PortAccepts \cup (IF e.job.kind = "accept" THEN {e.job.c} ELSE {})
           /\ port # <<>> /\ port' = Tail(port) =>
                  /\ PortAccepts' \subseteq PortAccepts
                  /\ Head(port).job.kind = "accept" => Head(port).job.c \in PortAccepts
  <1>1. ASSUME NEW e \in Completion, port' = Append(port, e)
        PROVE  PortAccepts' \subseteq
                   PortAccepts \cup (IF e.job.kind = "accept" THEN {e.job.c} ELSE {})
    <2>1. /\ DOMAIN port = 1..Len(port) /\ DOMAIN port' = 1..(Len(port) + 1) /\ Len(port) \in Nat
          /\ \A k \in 1..Len(port) : port'[k] = port[k]
          /\ port'[Len(port) + 1] = e
      BY <1>1
    <2>2. \A k \in 1..(Len(port) + 1) : k \in 1..Len(port) \/ k = Len(port) + 1
      BY <2>1
    <2> QED BY <2>1, <2>2 DEF PortAccepts, Accepts
  <1>2. ASSUME port # <<>>, port' = Tail(port)
        PROVE  /\ PortAccepts' \subseteq PortAccepts
               /\ Head(port).job.kind = "accept" => Head(port).job.c \in PortAccepts
    <2>1. /\ DOMAIN port = 1..Len(port) /\ DOMAIN port' = 1..(Len(port) - 1) /\ Len(port) \in Nat
          /\ \A k \in 1..(Len(port) - 1) : port'[k] = port[k + 1]
          /\ Head(port) = port[1] /\ Len(port) >= 1
      BY <1>2
    <2>2. 1 \in 1..Len(port) /\ \A k \in 1..(Len(port) - 1) : k + 1 \in 1..Len(port)
      BY <2>1
    <2> QED BY <2>1, <2>2 DEF PortAccepts, Accepts
  <1> QED BY <1>1, <1>2

(* The main thread and the peers. *)
LEMMA OwnersMain ==
    ASSUME TypeOK, OneStage, OnceAccept, Early' \subseteq Early,
           UNCHANGED vars \/ StartService \/ Getchar \/ Destroy \/ Network
    PROVE  OnceAccept'
  <1> USE DEF vars, sockVars, poolVars
  <1>1. GotAccept' = GotAccept
    BY DEF StartService, StartFails, Start, StartIocp, FirstInsert, FirstAccept, Getchar, Destroy,
       DeleteClient, DeleteEnd, StopThread, JoinThread, StopEnd, Network, GotAccept
  <1>2. \/ slot' = slot
        \/ \E i \in Threads : \E j \in {Free, Iocp} : slot' = [slot EXCEPT ![i] = j]
    BY DEF StartService, StartFails, Start, StartIocp, FirstInsert, FirstAccept, Getchar, Destroy,
       DeleteClient, DeleteEnd, StopThread, JoinThread, StopEnd, Network, Takers, FreeSlots
  <1>3. AcceptSlots' \subseteq AcceptSlots /\ \A i \in AcceptSlots' : slot'[i].c = slot[i].c
    <2>1. \A k \in Threads : slot'[k] = slot[k] \/ slot'[k].kind \in {"free", "iocp"}
      BY <1>2 DEF Free, Iocp, TypeOK
    <2> QED BY <2>1 DEF AcceptSlots
  <1>4. \/ port' = port
        \/ \E c \in Clients, b \in BOOLEAN :
              \/ conn[c] = "listening" /\ port' = Append(port, [job |-> Accept(c), ok |-> b])
              \/ port' = Append(port, [job |-> Recv(c), ok |-> b])
    <2>1. ASSUME NEW c \in Clients, RecvCompletes(c)
          PROVE  \E b \in BOOLEAN : port' = Append(port, [job |-> Recv(c), ok |-> b])
      BY <2>1 DEF RecvCompletes
    <2>2. CASE Network
      BY <2>1, <2>2 DEF Network, Peer, Connect, AbortConnect, PeerSends, PeerCloses
    <2>3. CASE ~Network
      BY <2>3 DEF StartService, StartFails, Start, StartIocp, FirstInsert, FirstAccept, Getchar,
         Destroy, DeleteClient, DeleteEnd, StopThread, JoinThread, StopEnd
    <2> QED BY <2>2, <2>3
  <1>5. PortAccepts' \subseteq PortAccepts \cup Early
    <2>1. CASE port' = port
      BY <2>1 DEF PortAccepts, Accepts
    <2>2. ASSUME NEW c \in Clients, NEW b \in BOOLEAN,
                 \/ conn[c] = "listening" /\ port' = Append(port, [job |-> Accept(c), ok |-> b])
                 \/ port' = Append(port, [job |-> Recv(c), ok |-> b])
          PROVE  PortAccepts' \subseteq PortAccepts \cup Early
      <3>1. PICK e \in Completion : /\ port' = Append(port, e)
                                    /\ e.job.kind = "accept" => e.job.c \in Early
        BY <2>2, JobTypes DEF Early, Accept, Recv
      <3>2. PortAccepts' \subseteq PortAccepts \cup (IF e.job.kind = "accept" THEN {e.job.c} ELSE {})
        BY <3>1, PortAcceptsNext DEF TypeOK
      <3> QED BY <3>1, <3>2
    <2> QED BY <1>4, <2>1, <2>2
  <1> QED BY <1>1, <1>3, <1>5, OwnersKept

(* The threads of the pool. *)
LEMMA OwnersThread ==
    ASSUME TypeOK, IocpInv, OneStage, OnceAccept, Early' \subseteq Early,
           NEW i \in Threads, Thread(i) \/ TouchDeleted(i)
    PROVE  OnceAccept'
  <1> USE DEF sockVars, poolVars
  <1>1. CASE IocpDispatch(i)
    <2>1. /\ port' = port /\ got' = NoCompletion /\ got \in Completion /\ conn' = conn
          /\ got.job.c \in Clients
      BY <1>1, JobTypes DEF IocpDispatch, At, IocpInv, TypeOK
    <2>2. PortAccepts' = PortAccepts /\ GotAccept' = {}
      BY <2>1 DEF PortAccepts, Accepts, GotAccept, NoCompletion, Free
    <2>3. CASE slot' = slot
      <3>1. AcceptSlots' = AcceptSlots
        BY <2>3 DEF AcceptSlots
      <3> QED BY <2>2, <2>3, <3>1, OwnersKept
    <2>4. ASSUME NEW k \in Takers, slot' = [slot EXCEPT ![k] = got.job], got.job.kind # "accept"
          PROVE  OnceAccept'
      <3>1. AcceptSlots' \subseteq AcceptSlots /\ \A j \in AcceptSlots' : slot'[j].c = slot[j].c
        BY <2>4 DEF AcceptSlots, Takers, FreeSlots, TypeOK
      <3> QED BY <2>2, <3>1, OwnersKept
    <2>5. ASSUME NEW k \in Takers, slot' = [slot EXCEPT ![k] = got.job], got.job.kind = "accept"
          PROVE  OnceAccept'
      <3>1. /\ k \in Threads /\ k \notin AcceptSlots /\ slot'[k] = got.job
            /\ AcceptSlots' = AcceptSlots \cup {k}
            /\ \A j \in AcceptSlots : slot'[j] = slot[j]
        BY <2>5 DEF AcceptSlots, Takers, FreeSlots, Free, TypeOK
      <3>2. GotAccept = {got.job.c} /\ Owners' = Owners \cup {got.job.c}
        BY <2>5, <3>1 DEF GotAccept, Owners
      <3>3. got.job.c \notin Owners
        BY <3>2 DEF OnceAccept
      <3>4. got.job.c \in AtIocp
        BY <2>1, ServerAssumption DEF AtIocp
      <3>5. PortAccepts \subseteq AtPort
        BY DEF PortAccepts, AtPort, Accepts
      <3>6. got.job.c \notin Early /\ got.job.c \notin PortAccepts
        BY <3>4, <3>5 DEF OneStage
      <3>7. \A j, l \in AcceptSlots' : slot'[j].c = slot'[l].c => j = l
        BY <3>1, <3>3 DEF OnceAccept, Owners
      <3> QED BY <2>2, <3>2, <3>6, <3>7 DEF OnceAccept
    <2> QED BY <1>1, <2>3, <2>4, <2>5 DEF IocpDispatch
  <1>2. CASE IocpGetFailed(i) \/ IocpGet(i)
    <2>1. /\ slot' = slot /\ port # <<>> /\ port' = Tail(port)
          /\ got' = got \/ got' = Head(port)
      BY <1>2 DEF IocpGetFailed, IocpGet, Goto
    <2>2. /\ PortAccepts' \subseteq PortAccepts
          /\ Head(port).job.kind = "accept" => Head(port).job.c \in PortAccepts
      BY <2>1, PortAcceptsNext DEF TypeOK
    <2>3. GotAccept' \subseteq GotAccept \cup PortAccepts
      BY <2>1, <2>2 DEF GotAccept
    <2>4. AcceptSlots' = AcceptSlots
      BY <2>1 DEF AcceptSlots
    <2> QED BY <2>1, <2>2, <2>3, <2>4, OwnersKept
  <1>3. CASE ~(IocpDispatch(i) \/ IocpGetFailed(i) \/ IocpGet(i))
    <2>1. /\ port' = port /\ got' = got
          /\ slot' = slot \/ slot' = [slot EXCEPT ![i] = Free]
      BY <1>3 DEF Thread, Enter, EndThread, TouchDeleted, AcceptRecv, AcceptInsert, AcceptNext,
         AcceptDone, RecvData, RecvEnds, Goto, Done
    <2>2. PortAccepts' = PortAccepts /\ GotAccept' = GotAccept
      BY <2>1 DEF PortAccepts, Accepts, GotAccept
    <2>3. \A j \in Threads : slot'[j] = slot[j] \/ slot'[j].kind = "free"
      BY <2>1 DEF Free, TypeOK
    <2>4. AcceptSlots' \subseteq AcceptSlots /\ \A j \in AcceptSlots' : slot'[j].c = slot[j].c
      BY <2>3 DEF AcceptSlots
    <2> QED BY <2>2, <2>4, OwnersKept
  <1> QED BY <1>1, <1>2, <1>3

LEMMA OwnersStep == IInv /\ OnceAccept /\ [Next]_vars => OnceAccept'
  BY EarlyShrinks, OwnersMain, OwnersThread DEF Next, IInv

(* DispatchWorker finds a slot when there is a free one.                    *)
LEMMA TakerExists == FreeSlots # {} => Takers # {}
  <1> SUFFICES ASSUME FreeSlots # {} PROVE Takers # {}
    OBVIOUS
  <1>1. FreeSlots \subseteq Nat
    BY ServerAssumption DEF FreeSlots, Threads
  <1>2. \A x, y \in Nat : y < x => <<y, x>> \in OpToRel(<, Nat)
    BY DEF OpToRel
  <1>3. PICK x \in FreeSlots : \A y \in FreeSlots : ~(<<y, x>> \in OpToRel(<, Nat))
    BY <1>1, WFMin, NatLessThanWellFounded
  <1>4. \A y \in FreeSlots : ~(y < x)
    BY <1>1, <1>2, <1>3
  <1>5. \A y \in FreeSlots : x <= y
    BY <1>1, <1>4
  <1> QED BY <1>5 DEF Takers

(* Slots that have jobs of different clients of the set C.                  *)
LEMMA OneEach ==
    ASSUME NEW S, NEW C, IsFiniteSet(C), \A i \in S : slot[i].c \in C,
           \A i, j \in S : slot[i].c = slot[j].c => i = j
    PROVE  IsFiniteSet(S) /\ Cardinality(S) \in Nat /\ Cardinality(S) <= Cardinality(C)
  <1> DEFINE f == [i \in S |-> slot[i].c]
  <1>1. f \in Injection(S, C)
    BY DEF Injection, IsInjective
  <1>2. IsFiniteSet(S) /\ Cardinality(S) <= Cardinality(C)
    BY <1>1, FS_Injection
  <1> QED BY <1>2, FS_CardinalityType

(* When threadIocp finds the pool full, two threads of every connection but *)
(* the one at hand, and one of it if it is being read, are all but its own. *)
LEMMA FullPool ==
    ASSUME IInv, OnceAccept, got \in Completion, Takers = {}
    PROVE  /\ got.job.kind = "accept" => 2 * Cardinality(Connected) > Size
           /\ got.job.kind = "recv" => 2 * Cardinality(Connected) >= Size
  <1> DEFINE c == got.job.c
             A == AcceptSlots
             R == RecvSlots
             I == {i \in Threads : slot[i] = Iocp}
             C == Connected
             D == C \ {c}
  <1>1. /\ TypeOK /\ IocpInv /\ OneStage /\ OnceServing /\ Size \in Nat /\ IsFiniteSet(Clients)
    BY ServerAssumption DEF IInv
  <1>2. C = Clients \ Early
    BY DEF Connected, Early
  <1>3. IsFiniteSet(C) /\ IsFiniteSet(D) /\ c \in C /\ Cardinality(C) \in Nat
        /\ Cardinality(D) = Cardinality(C) - 1
    <2>1. c \in Clients /\ c \in AtIocp
      BY JobTypes, ServerAssumption DEF AtIocp
    <2>2. c \in C
      BY <1>1, <1>2, <2>1 DEF OneStage
    <2>3. IsFiniteSet(C)
      BY <1>1, <1>2, FS_Subset
    <2> QED BY <2>2, <2>3, FS_RemoveElement, FS_CardinalityType
  <1>4. Threads = I \cup (A \cup R)
    <2>1. \A i \in Threads : slot[i] # Free
      BY TakerExists DEF FreeSlots
    <2>2. \A i \in Threads : slot[i] = Iocp \/ slot[i].kind \in {"accept", "recv"}
      BY <1>1, <2>1, JobTypes DEF TypeOK
    <2> QED BY <2>2 DEF AcceptSlots, RecvSlots
  <1>5. IsFiniteSet(I) /\ Cardinality(I) \in {0, 1}
    <2>1. \A i, j \in I : i = j
      BY <1>1 DEF IocpInv
    <2>2. Cardinality(I) \in {0, 1}
      BY <2>1, AtMostOne
    <2>3. IsFiniteSet(I)
      BY <1>1, FS_Interval, FS_Subset DEF Threads
    <2> QED BY <2>2, <2>3
  <1>6. /\ \A i \in A : slot[i].c \in C
        /\ got.job.kind = "accept" => \A i \in A : slot[i].c \in D
    <2>1. \A i \in A : slot[i].c \in Clients /\ slot[i].c \in Owners
      BY <1>1, JobTypes DEF AcceptSlots, Owners, TypeOK
    <2> QED BY <1>2, <2>1 DEF OnceAccept, GotAccept
  <1>7. \A i \in R : slot[i].c \in D
    <2>1. \A i \in R : slot[i].c \in Clients /\ slot[i].c \in Served
      BY <1>1, JobTypes DEF RecvSlots, Served, Serving, TypeOK
    <2>2. c \in AtIocp
      BY JobTypes, ServerAssumption DEF AtIocp
    <2> QED BY <1>1, <1>2, <2>1, <2>2 DEF OneStage
  <1>8. /\ IsFiniteSet(A) /\ Cardinality(A) \in Nat /\ Cardinality(A) <= Cardinality(C)
        /\ got.job.kind = "accept" => Cardinality(A) <= Cardinality(D)
    BY <1>3, <1>6, OneEach DEF OnceAccept
  <1>9. IsFiniteSet(R) /\ Cardinality(R) \in Nat /\ Cardinality(R) <= Cardinality(D)
    <2>1. \A i, j \in R : slot[i].c = slot[j].c => i = j
      BY <1>1 DEF RecvSlots, Serving, OnceServing
    <2> QED BY <1>3, <1>7, <2>1, OneEach
  <1>10. Size <= Cardinality(I) + Cardinality(A) + Cardinality(R)
    <2>1. IsFiniteSet(A \cup R) /\ Cardinality(A \cup R) <= Cardinality(A) + Cardinality(R)
          /\ Cardinality(A \cup R) \in Nat
      <3>1. IsFiniteSet(A \cup R)
            /\ Cardinality(A \cup R) = Cardinality(A) + Cardinality(R) - Cardinality(A \cap R)
        BY <1>8, <1>9, FS_Union
      <3>2. Cardinality(A \cap R) \in Nat
        BY <1>8, FS_Subset, FS_CardinalityType
      <3> QED BY <1>8, <1>9, <3>1, <3>2, FS_CardinalityType
    <2>2. Cardinality(Threads) = Cardinality(I) + Cardinality(A \cup R) - Cardinality(I \cap (A \cup R))
      BY <1>4, <1>5, <2>1, FS_Union
    <2>3. Cardinality(I \cap (A \cup R)) \in Nat
      BY <1>5, FS_Subset, FS_CardinalityType
    <2>4. Cardinality(Threads) = Size
      BY <1>1, FS_Interval DEF Threads
    <2> QED BY <1>5, <1>8, <1>9, <2>1, <2>2, <2>3, <2>4
  <1> HIDE DEF A, R, I, C, D
  <1>11. /\ got.job.kind = "accept" => 2 * Cardinality(C) > Size
         /\ got.job.kind = "recv" => 2 * Cardinality(C) >= Size
    BY <1>1, <1>3, <1>5, <1>8, <1>9, <1>10
  <1> QED BY <1>11 DEF C

RefusalInv == IInv /\ OnceAccept /\ RefusalNeedsConnections

LEMMA RefusalStep ==
    ASSUME IInv, OnceAccept, RefusalNeedsConnections, [Next]_vars
    PROVE  RefusalNeedsConnections'
  <1>1. Connected \subseteq Connected' /\ IsFiniteSet(Connected') /\ IsFiniteSet(Connected)
        /\ Connected = Clients \ Early
    BY EarlyShrinks, FS_Subset, ServerAssumption DEF Connected, Early, IInv
  <1>2. /\ Cardinality(Connected) \in Nat /\ Cardinality(Connected') \in Nat
        /\ Cardinality(Connected) <= Cardinality(Connected')
    BY <1>1, FS_Subset, FS_CardinalityType
  <1>3. Size \in Nat
    BY ServerAssumption
  <1>4. CASE \A r \in lost' : r \in lost \/ r.why # "full"
    <2>1. (Refused("accept")' => Refused("accept")) /\ (Refused("recv")' => Refused("recv"))
      BY <1>4 DEF Refused
    <2> QED BY <1>2, <1>3, <2>1 DEF RefusalNeedsConnections
  <1>5. ASSUME NEW i \in Threads, IocpDispatch(i), Takers = {}
        PROVE  RefusalNeedsConnections'
    <2>1. got \in Completion /\ lost' \subseteq lost \cup {[job |-> got.job, why |-> "full"]}
          /\ conn' = conn
      BY <1>5 DEF IocpDispatch, At, IocpInv, IInv, TypeOK, Lose, sockVars
    <2>2. /\ Refused("accept")' => Refused("accept") \/ got.job.kind = "accept"
          /\ Refused("recv")' => Refused("recv") \/ got.job.kind = "recv"
      BY <2>1 DEF Refused
    <2>3. Connected' = Connected
      BY <2>1 DEF Connected
    <2> QED BY <1>5, <2>1, <2>2, <2>3, FullPool DEF RefusalNeedsConnections
  <1>6. \/ \A r \in lost' : r \in lost \/ r.why # "full"
        \/ \E i \in Threads : IocpDispatch(i) /\ Takers = {}
    <2> USE DEF vars, sockVars, poolVars
    <2>1. CASE UNCHANGED vars \/ StartService \/ Getchar \/ Destroy \/ Network
      BY <2>1 DEF StartService, StartFails, Start, StartIocp, FirstInsert, FirstAccept, Getchar,
         Destroy, DeleteClient, DeleteEnd, StopThread, JoinThread, StopEnd, Network
    <2>2. ASSUME NEW i \in Threads, Thread(i) \/ TouchDeleted(i)
          PROVE  (\A r \in lost' : r \in lost \/ r.why # "full") \/ (IocpDispatch(i) /\ Takers = {})
      BY <2>2 DEF Thread, Enter, EndThread, TouchDeleted, IocpGetFailed, IocpGet, IocpDispatch,
         AcceptRecv, Armed, Unasked, AcceptInsert, AcceptNext, AcceptDone, RecvData, RecvEnds, Lose
    <2> QED BY <2>1, <2>2 DEF Next
  <1> QED BY <1>4, <1>5, <1>6

(* The part of AcceptsOn that is about every state, for any number of       *)
(* threads: DispatchWorker, whose -1 threadIocp ignores, refuses an accept  *)
(* only when more than half as many clients have connected as the pool has  *)
(* threads, and a read only when half as many have.                         *)
THEOREM RefusalNeedsConnectionsHolds == Spec => []RefusalNeedsConnections
  <1>1. Init => OnceAccept /\ RefusalNeedsConnections
    <2> SUFFICES ASSUME Init PROVE OnceAccept /\ RefusalNeedsConnections
      OBVIOUS
    <2>1. AcceptSlots = {} /\ Owners = {} /\ lost = {}
      BY DEF Init, AcceptSlots, Owners, Free
    <2> QED BY <2>1 DEF OnceAccept, RefusalNeedsConnections, Refused
  <1>2. RefusalInv /\ [Next]_vars => RefusalInv'
    BY IInvStep, OwnersStep, RefusalStep DEF RefusalInv
  <1>3. RefusalInv => RefusalNeedsConnections
    BY DEF RefusalInv
  <1> QED BY <1>1, <1>2, <1>3, InitIInv, PTL DEF Spec, RefusalInv

-----------------------------------------------------------------------------
(* The safety part of DataRead: no connection is forgotten.  Whoever is     *)
(* connected has its accept or its read at the port or with threadIocp,     *)
(* where it has not failed, an AcceptWorker that has yet to issue WSARecv,  *)
(* a WSARecv outstanding, or a RecvWorker; or the pool was full, or all of  *)
(* it has been read, or m_buffer is full, or memory nobody initialised kept *)
(* it from being read.                                                      *)
Of(job, c) == job \in {Accept(c), Recv(c)}

PortHas(c) == \E k \in DOMAIN port : Of(port[k].job, c) /\ port[k].ok
Worked(c)  == \E i \in Threads : \/ slot[i] = Accept(c) /\ spc[i] \in {"enter", "call"}
                                 \/ slot[i] = Recv(c)
Underway(c) == PortHas(c) \/ Of(got.job, c) \/ Worked(c) \/ c \in armed

GivenUpOn(c) ==
    \/ \E r \in lost : Of(r.job, c) /\ r.why = "full"
    \/ conn[c] = "closed" /\ avail[c] = 0
    \/ Unread(c)

Attended ==
    ~Stopping =>
        \A c \in Clients : conn[c] \in {"open", "closed"} => Underway(c) \/ GivenUpOn(c)

AttendedInv == IInv /\ Attended

LEMMA PortHasAppend ==
    ASSUME port \in Seq(Completion), NEW e \in Completion, port' = Append(port, e), NEW c
    PROVE  PortHas(c) \/ (Of(e.job, c) /\ e.ok) => PortHas(c)'
  <1>1. /\ Len(port) \in Nat /\ DOMAIN port = 1..Len(port) /\ DOMAIN port' = 1..(Len(port) + 1)
        /\ \A k \in 1..Len(port) : port'[k] = port[k]
        /\ port'[Len(port) + 1] = e
    OBVIOUS
  <1>2. 1..Len(port) \subseteq 1..(Len(port) + 1) /\ Len(port) + 1 \in 1..(Len(port) + 1)
    BY <1>1
  <1> QED BY <1>1, <1>2 DEF PortHas, Of

LEMMA PortHasTail ==
    ASSUME port \in Seq(Completion), port # <<>>, port' = Tail(port), NEW c, PortHas(c)
    PROVE  PortHas(c)' \/ (Of(Head(port).job, c) /\ Head(port).ok)
  <1>1. /\ Len(port) \in Nat /\ Len(port) >= 1 /\ DOMAIN port = 1..Len(port)
        /\ DOMAIN port' = 1..(Len(port) - 1)
        /\ \A k \in 1..(Len(port) - 1) : port'[k] = port[k + 1]
        /\ Head(port) = port[1]
    OBVIOUS
  <1>2. PICK k \in 1..Len(port) : Of(port[k].job, c) /\ port[k].ok
    BY <1>1 DEF PortHas
  <1>3. CASE k = 1
    BY <1>1, <1>2, <1>3
  <1>4. CASE k # 1
    <2>1. k - 1 \in 1..(Len(port) - 1) /\ (k - 1) + 1 = k
      BY <1>1, <1>4
    <2>2. port'[k - 1] = port[k]
      BY <1>1, <2>1
    <2> QED BY <1>1, <1>2, <2>1, <2>2 DEF PortHas, Of
  <1> QED BY <1>3, <1>4

(* What a step keeps: a connection that was given up stays so, and a worker *)
(* stays that is still there.                                               *)
LEMMA AttendedKept ==
    ASSUME NEW c \in Clients, Underway(c) \/ GivenUpOn(c),
           PortHas(c) => PortHas(c)', got' = got,
           \A i \in Threads : slot[i].c = c => slot'[i] = slot[i] /\ spc'[i] = spc[i],
           c \in armed => c \in armed', lost \subseteq lost',
           conn'[c] = conn[c] \/ conn[c] = "open", UNCHANGED <<used, avail>>
    PROVE  Underway(c)' \/ GivenUpOn(c)'
  <1>1. Worked(c) => Worked(c)'
    BY DEF Worked, Accept, Recv
  <1>2. GivenUpOn(c) => GivenUpOn(c)'
    BY DEF GivenUpOn, Unread
  <1> QED BY <1>1, <1>2 DEF Underway

LEMMA AttendedMain ==
    ASSUME AttendedInv, ~Stopping', UNCHANGED vars \/ StartService \/ Getchar \/ Destroy \/ Network,
           NEW c \in Clients, conn'[c] \in {"open", "closed"}
    PROVE  Underway(c)' \/ GivenUpOn(c)'
  <1> USE DEF AttendedInv, IInv, TypeOK, vars, sockVars, poolVars
  <1>1. ~Stopping
    BY DEF Stopping, StartService, StartFails, Start, StartIocp, FirstInsert, FirstAccept, Getchar,
       Destroy, DeleteClient, DeleteEnd, StopThread, JoinThread, StopEnd, Network
  <1>2. ASSUME conn[c] \in {"open", "closed"} PROVE Underway(c) \/ GivenUpOn(c)
    BY <1>1, <1>2 DEF Attended
  <1>3. CASE UNCHANGED vars \/ StartFails \/ Start \/ Getchar
    <2>1. /\ conn' = conn /\ port' = port /\ got' = got /\ slot' = slot /\ spc' = spc
          /\ armed' = armed /\ lost' = lost /\ used' = used /\ avail' = avail
      BY <1>3 DEF StartFails, Start, Getchar
    <2> QED BY <1>2, <2>1, AttendedKept DEF PortHas
  <1>4. CASE StartIocp
    <2>1. /\ conn' = conn /\ port' = port /\ got' = got /\ spc' = spc
          /\ armed' = armed /\ lost' = lost /\ used' = used /\ avail' = avail
          /\ \A i \in Threads : slot[i] # Free => slot'[i] = slot[i]
      BY <1>4 DEF StartIocp, Takers, FreeSlots
    <2>2. \A i \in Threads : slot[i].c = c => slot[i] # Free
      BY ServerAssumption DEF Free
    <2> QED BY <1>2, <2>1, <2>2, AttendedKept DEF PortHas
  <1>5. CASE FirstInsert \/ FirstAccept
    <2>1. /\ port' = port /\ got' = got /\ slot' = slot /\ spc' = spc
          /\ armed' = armed /\ lost' = lost /\ avail' = avail
          /\ conn'[c] = conn[c] /\ (used'[c] = used[c])
      BY <1>5 DEF FirstInsert, FirstAccept, MakeClient, AcceptEx, AcceptExOK, AcceptExFails
    <2>2. GivenUpOn(c) => GivenUpOn(c)'
      BY <2>1 DEF GivenUpOn, Unread
    <2>3. Underway(c) => Underway(c)'
      BY <2>1 DEF Underway, PortHas, Worked
    <2> QED BY <1>2, <2>1, <2>2, <2>3
  <1>6. ASSUME NEW d \in Clients, DeleteClient(d) PROVE Underway(c)' \/ GivenUpOn(c)'
    <2>1. /\ d # c /\ conn'[c] = conn[c] /\ got' = got /\ slot' = slot /\ spc' = spc
          /\ armed' = armed \ {d} /\ lost' = lost /\ used' = used /\ avail' = avail
      BY <1>6 DEF DeleteClient
    <2>2. \/ port' = port
          \/ port' = Append(port, [job |-> Accept(d), ok |-> FALSE])
          \/ port' = Append(port, [job |-> Recv(d), ok |-> FALSE])
      BY <1>6 DEF DeleteClient
    <2>3. PortHas(c) => PortHas(c)'
      BY <2>2, PortHasAppend, JobTypes DEF PortHas
    <2> QED BY <1>2, <2>1, <2>3, AttendedKept
  <1>7. CASE Network
    <2> USE DEF Network
    <2>1. /\ got' = got /\ slot' = slot /\ spc' = spc /\ lost' = lost /\ used' = used
      BY <1>7
    <2>2. ASSUME NEW d \in Clients, Connect(d) \/ AbortConnect(d)
          PROVE  Underway(c)' \/ GivenUpOn(c)'
      <3>1. PICK b \in BOOLEAN : port' = Append(port, [job |-> Accept(d), ok |-> b])
                                 /\ (Connect(d) => b)
        BY <2>2 DEF Connect, AbortConnect
      <3>2. CASE c = d
        <4>1. Connect(d)
          BY <2>2, <3>2 DEF AbortConnect
        <4>2. PortHas(c)'
          BY <3>1, <3>2, <4>1, PortHasAppend, JobTypes DEF Of
        <4> QED BY <4>2 DEF Underway
      <3>3. CASE c # d
        <4>1. conn'[c] = conn[c] /\ armed' = armed /\ avail' = avail
          BY <2>2, <3>3 DEF Connect, AbortConnect
        <4>2. PortHas(c) => PortHas(c)'
          BY <3>1, PortHasAppend, JobTypes
        <4> QED BY <1>2, <2>1, <4>1, <4>2, AttendedKept
      <3> QED BY <3>2, <3>3
    <2>3. ASSUME NEW d \in Clients, PeerSends(d) \/ PeerCloses(d)
          PROVE  Underway(c)' \/ GivenUpOn(c)'
      <3>1. /\ armed' = armed /\ port' = port /\ conn[c] \in {"open", "closed"}
            /\ conn'[c] = conn[c] \/ conn[c] = "open"
            /\ avail'[c] = avail[c] \/ conn[c] = "open"
        BY <2>3 DEF PeerSends, PeerCloses
      <3>2. GivenUpOn(c) => GivenUpOn(c)'
        BY <2>1, <3>1 DEF GivenUpOn, Unread
      <3>3. Underway(c) => Underway(c)'
        BY <2>1, <3>1 DEF Underway, PortHas, Worked
      <3> QED BY <1>2, <3>1, <3>2, <3>3
    <2>4. ASSUME NEW d \in Clients, RecvCompletes(d)
          PROVE  Underway(c)' \/ GivenUpOn(c)'
      <3>1. /\ armed' = armed \ {d} /\ conn' = conn /\ avail' = avail
            /\ \E b \in BOOLEAN : /\ port' = Append(port, [job |-> Recv(d), ok |-> b])
                                  /\ b = (conn[d] # "reset")
        BY <2>4 DEF RecvCompletes
      <3>2. PICK b \in BOOLEAN : /\ port' = Append(port, [job |-> Recv(d), ok |-> b])
                                 /\ b = (conn[d] # "reset")
        BY <3>1
      <3>3. CASE c = d
        <4>1. b
          BY <3>1, <3>2, <3>3
        <4>2. PortHas(c)'
          BY <3>2, <3>3, <4>1, PortHasAppend, JobTypes DEF Of
        <4> QED BY <4>2 DEF Underway
      <3>4. CASE c # d
        <4>1. PortHas(c) => PortHas(c)'
          BY <3>2, PortHasAppend, JobTypes
        <4> QED BY <1>2, <2>1, <3>1, <3>4, <4>1, AttendedKept
      <3> QED BY <3>3, <3>4
    <2> QED BY <1>7, <2>2, <2>3, <2>4 DEF Peer
  <1>8. ~(DeleteEnd \/ StopEnd \/ \E i \in Threads : StopThread(i) \/ JoinThread(i))
    BY <1>1 DEF DeleteEnd, StopEnd, StopThread, JoinThread, Stopping
  <1> QED BY <1>3, <1>4, <1>5, <1>6, <1>7, <1>8 DEF StartService, Destroy

LEMMA AttendedThread ==
    ASSUME AttendedInv, ~Stopping',
           NEW i \in Threads, Thread(i) \/ TouchDeleted(i),
           NEW c \in Clients, conn'[c] \in {"open", "closed"}
    PROVE  Underway(c)' \/ GivenUpOn(c)'
  <1> USE DEF AttendedInv, IInv, TypeOK, sockVars, poolVars
  <1>1. mpc' = mpc /\ conn'[c] = conn[c] /\ (used'[c] = used[c] \/ RecvData(i))
    BY DEF Thread, Enter, EndThread, TouchDeleted, IocpGetFailed, IocpGet, IocpDispatch,
       AcceptRecv, AcceptInsert, AcceptNext, AcceptDone, RecvData, RecvEnds, MakeClient, AcceptEx,
       AcceptExOK, AcceptExFails
  <1>2. Underway(c) \/ GivenUpOn(c)
    BY <1>1 DEF Attended, Stopping
  <1>3. CASE TouchDeleted(i)
    <2>1. UNCHANGED <<port, got, slot, spc, armed, lost, used, avail>>
      BY <1>3 DEF TouchDeleted
    <2> QED BY <1>1, <1>2, <2>1, AttendedKept DEF PortHas
  <1>4. CASE Enter(i)
    <2>1. /\ UNCHANGED <<port, got, slot, armed, lost, used, avail>>
          /\ spc[i] = "enter" /\ spc' = [spc EXCEPT ![i] = "call"]
      BY <1>4 DEF Enter, Goto
    <2>2. Worked(c) => Worked(c)'
      BY <2>1 DEF Worked
    <2> QED BY <1>1, <1>2, <2>1, <2>2 DEF Underway, PortHas, GivenUpOn, Unread
  <1>5. ~EndThread(i)
    BY <1>1 DEF EndThread, MainInv, Stopping
  <1>6. CASE IocpGetFailed(i) \/ IocpGet(i)
    <2>1. /\ UNCHANGED <<slot, armed, used, avail>> /\ lost \subseteq lost'
          /\ slot[i].kind = "iocp" /\ \A k \in Threads : k # i => spc'[k] = spc[k]
          /\ port # <<>> /\ port' = Tail(port)
          /\ Head(port).ok => got' = Head(port)
          /\ spc[i] # "dispatch"
      BY <1>6 DEF IocpGetFailed, IocpGet, Goto, At, Lose
    <2>2. PortHas(c) => Underway(c)'
      BY <2>1, PortHasTail DEF Underway
    <2>3. ~Of(got.job, c)
      <3>1. CASE got = NoCompletion
        BY <3>1 DEF NoCompletion, Free, Of, Accept, Recv
      <3>2. CASE got # NoCompletion
        <4>1. PICK k \in Threads : spc[k] = "dispatch"
          BY <3>2 DEF IocpInv
        <4>2. k = i
          <5>1. slot[i] = Iocp
            BY <2>1, JobTypes
          <5> QED BY <4>1, <5>1 DEF IocpInv
        <4> QED BY <2>1, <4>1, <4>2
      <3> QED BY <3>1, <3>2
    <2>4. Worked(c) => Worked(c)'
      <3>1. slot[i] # Accept(c) /\ slot[i] # Recv(c)
        BY <2>1 DEF Accept, Recv
      <3> QED BY <2>1, <3>1 DEF Worked
    <2>5. GivenUpOn(c) => GivenUpOn(c)'
      BY <1>1, <2>1 DEF GivenUpOn, Unread
    <2> QED BY <1>2, <2>1, <2>2, <2>3, <2>4, <2>5 DEF Underway
  <1>7. CASE IocpDispatch(i)
    <2>1. /\ UNCHANGED <<port, armed, used, avail>> /\ lost \subseteq lost'
          /\ slot[i] = Iocp /\ \A k \in Threads : k # i => spc'[k] = spc[k]
          /\ got \in Completion
          /\ \/ Takers # {} /\ \E k \in Takers : slot' = [slot EXCEPT ![k] = got.job]
             \/ slot' = slot /\ [job |-> got.job, why |-> "full"] \in lost'
      BY <1>7 DEF IocpDispatch, At, Lose, IocpInv
    <2>2. \A k \in Threads : slot[k] # Free => slot'[k] = slot[k]
      BY <2>1 DEF Takers, FreeSlots
    <2>3. Worked(c) => Worked(c)'
      BY <2>1, <2>2 DEF Worked, Accept, Recv, Free, Iocp
    <2>4. ASSUME Of(got.job, c) PROVE Worked(c)' \/ GivenUpOn(c)'
      <3>1. ASSUME NEW k \in Takers, slot' = [slot EXCEPT ![k] = got.job]
            PROVE  Worked(c)'
        <4>1. k \in Threads /\ slot[k] = Free /\ k # i
          BY <2>1, <3>1 DEF Takers, FreeSlots, Free, Iocp
        <4>2. spc[k] = "enter"
          BY <1>1, <4>1 DEF SlotInv, MainInv, Stopping
        <4>3. slot'[k] = got.job /\ spc'[k] = "enter"
          BY <2>1, <3>1, <4>1, <4>2
        <4> QED BY <2>4, <4>1, <4>3 DEF Worked, Of
      <3>2. ASSUME [job |-> got.job, why |-> "full"] \in lost' PROVE GivenUpOn(c)'
        <4> DEFINE r == [job |-> got.job, why |-> "full"]
        <4>1. r \in lost' /\ Of(r.job, c) /\ r.why = "full"
          BY <2>4, <3>2
        <4> QED BY <4>1 DEF GivenUpOn, Of
      <3> QED BY <2>1, <3>1, <3>2
    <2>5. GivenUpOn(c) => GivenUpOn(c)'
      BY <1>1, <2>1 DEF GivenUpOn, Unread
    <2>6. PortHas(c)' = PortHas(c)
      BY <2>1 DEF PortHas
    <2> QED BY <1>2, <2>1, <2>3, <2>4, <2>5, <2>6 DEF Underway
  <1>8. CASE AcceptRecv(i)
    <2>1. /\ UNCHANGED <<port, got, slot, used, avail>> /\ slot[i].kind = "accept"
          /\ \A k \in Threads : k # i => spc'[k] = spc[k]
          /\ Armed(slot[i].c)
      BY <1>8 DEF AcceptRecv, At, Goto
    <2>2. armed \subseteq armed' /\ lost \subseteq lost'
      BY <2>1 DEF Armed
    <2>3. CASE slot[i].c = c
      <3>1. c \in armed' \/ Unasked(c) \in lost'
        BY <1>1, <2>1, <2>3 DEF Armed
      <3> QED BY <3>1 DEF Underway, GivenUpOn, Unread, Unasked
    <2>4. CASE slot[i].c # c
      <3>1. PortHas(c)' = PortHas(c)
        BY <2>1 DEF PortHas
      <3>2. \A k \in Threads : slot[k].c = c => slot'[k] = slot[k] /\ spc'[k] = spc[k]
        BY <2>1, <2>4
      <3> QED BY <1>1, <1>2, <2>1, <2>2, <3>1, <3>2, AttendedKept
    <2> QED BY <2>3, <2>4
  <1>9. CASE AcceptInsert(i) \/ AcceptNext(i) \/ AcceptDone(i)
    <2>1. /\ UNCHANGED <<port, got, lost, armed, avail>>
          /\ spc[i] \in {"insert", "acceptex", "done"} /\ slot[i].kind = "accept"
          /\ \A k \in Threads : k # i => spc'[k] = spc[k] /\ slot'[k] = slot[k]
      BY <1>9 DEF AcceptInsert, AcceptNext, AcceptDone, At, Goto, Done, MakeClient, AcceptEx,
         AcceptExOK, AcceptExFails
    <2>2. used'[c] = used[c]
      BY <1>1, <1>9 DEF AcceptInsert, AcceptNext, AcceptDone, At, RecvData
    <2>3. Worked(c) => Worked(c)'
      BY <2>1 DEF Worked, Recv
    <2> QED BY <1>1, <1>2, <2>1, <2>2, <2>3 DEF Underway, PortHas, GivenUpOn, Unread
  <1>10. CASE RecvData(i)
    <2>1. /\ UNCHANGED <<port, got, slot, lost, armed>> /\ slot[i].kind = "recv"
          /\ \A k \in Threads : k # i => spc'[k] = spc[k]
          /\ \A d \in Clients : d # slot[i].c => used'[d] = used[d] /\ avail'[d] = avail[d]
      BY <1>10 DEF RecvData, At, Goto, Read
    <2>2. CASE slot[i].c = c
      <3>1. slot'[i] = Recv(c)
        BY <2>1, <2>2, JobTypes
      <3> QED BY <3>1 DEF Underway, Worked
    <2>3. CASE slot[i].c # c
      <3>1. Worked(c) => Worked(c)'
        <4>1. slot[i] # Accept(c) /\ slot[i] # Recv(c)
          BY <2>3 DEF Accept, Recv
        <4> QED BY <2>1, <4>1 DEF Worked
      <3> QED BY <1>1, <1>2, <2>1, <2>3, <3>1 DEF Underway, PortHas, GivenUpOn, Unread
    <2> QED BY <2>2, <2>3
  <1>11. CASE RecvEnds(i)
    <2>1. /\ UNCHANGED <<port, got, lost, armed, used, avail>> /\ RecvOver(slot[i].c)
          /\ \A k \in Threads : k # i => spc'[k] = spc[k] /\ slot'[k] = slot[k]
      BY <1>11 DEF RecvEnds, Done
    <2>2. CASE slot[i].c = c
      <3>1. used[c] \in Int /\ BufSize \in Int
        BY ServerAssumption DEF Wild
      <3>2. GivenUpOn(c)'
        BY <1>1, <2>1, <2>2, <3>1 DEF RecvOver, GivenUpOn, Unread, Room
      <3> QED BY <3>2
    <2>3. CASE slot[i].c # c
      <3>1. PortHas(c)' = PortHas(c)
        BY <2>1 DEF PortHas
      <3>2. \A k \in Threads : slot[k].c = c => slot'[k] = slot[k] /\ spc'[k] = spc[k]
        BY <2>1, <2>3
      <3> QED BY <1>1, <1>2, <2>1, <3>1, <3>2, AttendedKept
    <2> QED BY <2>2, <2>3
  <1> QED BY <1>3, <1>4, <1>5, <1>6, <1>7, <1>8, <1>9, <1>10, <1>11 DEF Thread

(* A connection is never forgotten before the server is stopped: its peer's *)
(* data has a reader, or somebody is on the way to being it, unless the     *)
(* pool was full, the buffer is, or m_used or m_wsabuffer, which nobody     *)
(* initialises, held something else than 0.                                 *)
THEOREM AttendedHolds == Spec => []Attended
  <1>1. Init => Attended
    BY DEF Init, Attended
  <1>2. AttendedInv /\ [Next]_vars => AttendedInv'
    BY IInvStep, AttendedMain, AttendedThread DEF AttendedInv, Attended, Next
  <1>3. AttendedInv => Attended
    BY DEF AttendedInv
  <1> QED BY <1>1, <1>2, <1>3, InitIInv, PTL DEF Spec, AttendedInv
=============================================================================
