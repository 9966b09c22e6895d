----------------------------- MODULE EdoyunServer -----------------------------
(***************************************************************************)
(* EdoyunServer (RemoteCtrl/EdoyunServer.h and .cpp), what main() runs: a  *)
(* listening socket on an I/O completion port, one pool thread that takes  *)
(* the completions off the port and hands each to DispatchWorker, and      *)
(* workers that run on the other threads of the pool.  AcceptWorker reads  *)
(* from its connection and issues the next AcceptEx: the server accepts as *)
(* long as this chain is not broken.  RecvWorker returns 0 as long as the  *)
(* peer is there, so that its thread stays with one connection.            *)
(*                                                                         *)
(* The pool is the one of ThreadPool, a slot is free or has a job; what    *)
(* that module establishes is used here: a job that is accepted goes into  *)
(* one free slot, and -1 is returned only when all slots were taken, so    *)
(* that DispatchWorker is one step of its only caller.  The crash in       *)
(* IsIdle, and a slot whose thread did not start, are left to that module. *)
(***************************************************************************)
EXTENDS Integers, Sequences, FiniteSets

CONSTANTS
    Clients,     \* the EdoyunClient objects there can be, numbered as they are made
    NoClient,    \* the client of the job threadIocp
    Size,        \* the threads of m_pool; 10 in the code
    BufSize,     \* the bytes of m_buffer; 1024 in the code
    MaxSent,     \* bound: the bytes a peer sends
    Uninit,      \* what a field nobody initialised may hold: "zero", "wild"
    Fails,       \* TRUE: bind, listen, AcceptEx may fail
    Resets,      \* TRUE: a peer may reset its connection
    Exits        \* TRUE: getchar() may return and the server be destroyed

ASSUME ServerAssumption ==
    /\ Size \in Nat \ {0} /\ IsFiniteSet(Clients) /\ Clients \subseteq Int
    /\ BufSize \in Nat \ {0} /\ MaxSent \in Nat
    /\ NoClient \notin Clients
    /\ Uninit \subseteq {"zero", "wild"} /\ Uninit # {}
    /\ {Fails, Resets, Exits} \subseteq BOOLEAN

VARIABLES
    mpc,      \* where the main thread is
    hIOCP,    \* m_hIOCP: "invalid" or "open"
    port,     \* the completions waiting at the port
    conn,     \* conn[c]: the socket of client c
    avail,    \* avail[c]: the bytes that have arrived and were not read
    sent,     \* sent[c]: the bytes the peer of c has sent
    armed,    \* the clients with a WSARecv outstanding
    used,     \* used[c]: m_used, -1 for a wild value
    deleted,  \* the clients ~EdoyunServer has deleted
    slot,     \* slot[i]: the job of slot i of the pool
    spc,      \* spc[i]: where the thread of slot i is in it
    closing,  \* the slots with m_bStatus = false after Stop
    got,      \* the completion threadIocp has taken
    lost,     \* history: the accepts nobody handles, the reads the pool refused
              \* and those that AcceptWorker could not ask for, and why
    process   \* "alive" or "crashed"

poolVars == <<slot, spc, closing>>
sockVars == <<conn, avail, sent, armed, used>>
vars == <<mpc, hIOCP, port, sockVars, deleted, poolVars, got, lost, process>>

Threads == 1..Size
Wild == -1
Free   == [kind |-> "free", c |-> NoClient]
Iocp   == [kind |-> "iocp", c |-> NoClient]
Accept(c) == [kind |-> "accept", c |-> c]
Recv(c)   == [kind |-> "recv", c |-> c]
Job == {Free, Iocp} \cup [kind : {"accept", "recv"}, c : Clients]
Completion == [job : [kind : {"accept", "recv"}, c : Clients], ok : BOOLEAN]
NoCompletion == [job |-> Free, ok |-> FALSE]

TypeOK ==
    /\ mpc \in {"start", "dispatch", "insert", "acceptex", "running", "failed",
                "delete", "stop", "gone"}
    /\ hIOCP \in {"invalid", "open"}
    /\ port \in Seq(Completion)
    /\ conn \in [Clients -> {"none", "made", "listening", "open", "closed", "reset", "shut"}]
    /\ avail \in [Clients -> 0..MaxSent] /\ sent \in [Clients -> 0..MaxSent]
    /\ armed \subseteq Clients /\ deleted \subseteq Clients
    /\ used \in [Clients -> 0..BufSize \cup {Wild}]
    /\ slot \in [Threads -> Job]
    /\ spc \in [Threads -> {"enter", "call", "dispatch", "insert", "acceptex",
                          "done", "ended", "joined"}]
    /\ closing \subseteq Threads
    /\ got \in Completion \cup {NoCompletion}
    /\ lost \subseteq [job : Job \ {Free, Iocp}, why : {"full", "error"}]
    /\ process \in {"alive", "crashed"}

Init ==
    /\ mpc = "start" /\ hIOCP = "invalid" /\ port = <<>>
    /\ conn = [c \in Clients |-> "none"]
    /\ avail = [c \in Clients |-> 0] /\ sent = [c \in Clients |-> 0]
    /\ armed = {} /\ used = [c \in Clients |-> 0] /\ deleted = {}
    /\ slot = [i \in Threads |-> Free] /\ spc = [i \in Threads |-> "enter"]
    /\ closing = {} /\ got = NoCompletion /\ lost = {} /\ process = "alive"

Alive == process = "alive"
FreeSlots == {i \in Threads : slot[i] = Free}

(* The slot DispatchWorker takes: the first that is free.                   *)
Takers == {i \in FreeSlots : \A k \in FreeSlots : i <= k}

-----------------------------------------------------------------------------
(* NewAccept, by the main thread and by AcceptWorker. *)

(* The EdoyunClient is made, m_used is left as it is, and the client goes   *)
(* into m_client.                                                           *)
MakeClient(c) ==
    /\ conn[c] = "none" /\ \A d \in Clients : conn[d] = "none" => c <= d
    /\ conn' = [conn EXCEPT ![c] = "made"]
    /\ \E u \in Uninit : used' = [used EXCEPT ![c] = IF u = "zero" THEN 0 ELSE Wild]
    /\ UNCHANGED <<avail, sent, armed, hIOCP>>

(* AcceptEx on the client made last.                                        *)
AcceptExOK ==
    /\ \E c \in Clients : conn[c] = "made" /\ conn' = [conn EXCEPT ![c] = "listening"]
    /\ UNCHANGED <<avail, sent, armed, used, hIOCP>>

(* It fails: NewAccept gives up the listening socket and m_hIOCP.           *)
AcceptExFails ==
    /\ Fails /\ hIOCP' = "invalid" /\ UNCHANGED sockVars

AcceptEx == AcceptExOK \/ AcceptExFails

-----------------------------------------------------------------------------
(* The main thread: StartService, then getchar(), then ~EdoyunServer. *)

StartFails ==
    /\ Alive /\ mpc = "start" /\ Fails
    /\ mpc' = "failed"
    /\ UNCHANGED <<hIOCP, port, sockVars, deleted, poolVars, got, lost, process>>

(* CreateSocket, bind, listen, the port, the socket bound to it, Invoke.    *)
Start ==
    /\ Alive /\ mpc = "start"
    /\ hIOCP' = "open" /\ mpc' = "dispatch"
    /\ UNCHANGED <<port, sockVars, deleted, poolVars, got, lost, process>>

StartIocp ==
    /\ Alive /\ mpc = "dispatch"
    /\ \E i \in Takers : slot' = [slot EXCEPT ![i] = Iocp]
    /\ mpc' = "insert"
    /\ UNCHANGED <<hIOCP, port, sockVars, deleted, spc, closing, got, lost, process>>

FirstInsert ==
    /\ Alive /\ mpc = "insert"
    /\ \E c \in Clients : MakeClient(c)
    /\ mpc' = "acceptex"
    /\ UNCHANGED <<port, deleted, poolVars, got, lost, process>>

FirstAccept ==
    /\ Alive /\ mpc = "acceptex"
    /\ AcceptEx
    /\ mpc' = "running"
    /\ UNCHANGED <<port, deleted, poolVars, got, lost, process>>

Getchar ==
    /\ Alive /\ mpc \in {"running", "failed"} /\ Exits
    /\ mpc' = "delete"
    /\ UNCHANGED <<hIOCP, port, sockVars, deleted, poolVars, got, lost, process>>

(* One client is deleted and its socket closed: what is outstanding on it   *)
(* completes with an error.                                                 *)
DeleteClient(c) ==
    /\ Alive /\ mpc = "delete" /\ c \notin deleted /\ conn[c] # "none"
    /\ deleted' = deleted \cup {c}
    /\ port' = CASE conn[c] = "listening" -> Append(port, [job |-> Accept(c), ok |-> FALSE])
                 [] c \in armed -> Append(port, [job |-> Recv(c), ok |-> FALSE])
                 [] OTHER -> port
    /\ conn' = [conn EXCEPT ![c] = "shut"]
    /\ armed' = armed \ {c}
    /\ UNCHANGED <<mpc, hIOCP, avail, sent, used, poolVars, got, lost, process>>

(* All are deleted; ~EdoyunThreadPool stops the threads one by one. *)
DeleteEnd ==
    /\ Alive /\ mpc = "delete" /\ \A c \in Clients : c \in deleted \/ conn[c] = "none"
    /\ mpc' = "stop"
    /\ UNCHANGED <<hIOCP, port, sockVars, deleted, poolVars, got, lost, process>>

(* EdoyunThread::Stop of slot i, after the threads before it have ended.    *)
StopThread(i) ==
    /\ Alive /\ mpc = "stop" /\ i \notin closing
    /\ \A k \in 1..(i - 1) : spc[k] = "joined"
    /\ closing' = closing \cup {i}
    /\ UNCHANGED <<mpc, hIOCP, port, sockVars, deleted, slot, spc, got, lost, process>>

(* The thread has ended; UpdateWorker() drops the job it had. *)
JoinThread(i) ==
    /\ Alive /\ mpc = "stop" /\ spc[i] = "ended"
    /\ slot' = [slot EXCEPT ![i] = Free] /\ spc' = [spc EXCEPT ![i] = "joined"]
    /\ UNCHANGED <<mpc, hIOCP, port, sockVars, deleted, closing, got, lost, process>>

StopEnd ==
    /\ Alive /\ mpc = "stop" /\ \A i \in Threads : spc[i] = "joined"
    /\ mpc' = "gone"
    /\ UNCHANGED <<hIOCP, port, sockVars, deleted, poolVars, got, lost, process>>

StartService == StartFails \/ Start \/ StartIocp \/ FirstInsert \/ FirstAccept
Destroy == (\E c \in Clients : DeleteClient(c)) \/ DeleteEnd
               \/ (\E i \in Threads : StopThread(i) \/ JoinThread(i)) \/ StopEnd

-----------------------------------------------------------------------------
(* The peers, and the system that completes what is outstanding. *)

(* One client is kept back: the bound on connections.                       *)
MayConnect == \E c \in Clients : conn[c] = "none"

Connect(c) ==
    /\ conn[c] = "listening" /\ MayConnect
    /\ conn' = [conn EXCEPT ![c] = "open"]
    /\ port' = Append(port, [job |-> Accept(c), ok |-> TRUE])
    /\ UNCHANGED <<avail, sent, armed>>

(* The peer resets the connection before it is accepted. *)
AbortConnect(c) ==
    /\ conn[c] = "listening" /\ Resets
    /\ conn' = [conn EXCEPT ![c] = "reset"]
    /\ port' = Append(port, [job |-> Accept(c), ok |-> FALSE])
    /\ UNCHANGED <<avail, sent, armed>>

PeerSends(c) ==
    /\ conn[c] = "open" /\ sent[c] < MaxSent
    /\ avail' = [avail EXCEPT ![c] = @ + 1]
    /\ sent' = [sent EXCEPT ![c] = @ + 1]
    /\ UNCHANGED <<conn, armed, port>>

PeerCloses(c) ==
    /\ conn[c] = "open"
    /\ \E s \in IF Resets THEN {"closed", "reset"} ELSE {"closed"} :
          conn' = [conn EXCEPT ![c] = s]
    /\ UNCHANGED <<avail, sent, armed, port>>

(* The outstanding WSARecv completes. *)
RecvCompletes(c) ==
    /\ c \in armed /\ (avail[c] > 0 \/ conn[c] # "open")
    /\ armed' = armed \ {c}
    /\ port' = Append(port, [job |-> Recv(c), ok |-> conn[c] # "reset"])
    /\ UNCHANGED <<conn, avail, sent>>

Peer(c) == Connect(c) \/ AbortConnect(c) \/ PeerSends(c) \/ PeerCloses(c)

Network ==
    /\ Alive
    /\ \E c \in Clients : Peer(c) \/ RecvCompletes(c)
    /\ UNCHANGED <<mpc, hIOCP, used, deleted, poolVars, got, lost, process>>

-----------------------------------------------------------------------------
(* The threads of the pool.  A job begins at "enter", where the thread has  *)
(* m_bStatus before it; Goto and Done end a step of slot i.                 *)

At(i, kind, pc) == Alive /\ slot[i].kind = kind /\ spc[i] = pc
Goto(i, pc) == spc' = [spc EXCEPT ![i] = pc] /\ UNCHANGED <<slot, closing>>
Done(i) ==
    /\ slot' = [slot EXCEPT ![i] = Free] /\ spc' = [spc EXCEPT ![i] = "enter"]
    /\ UNCHANGED closing

(* The loop of the thread goes on: the job is called.  threadIocp on an     *)
(* invalid m_hIOCP returns 0 at once and is called again, here: it is not.  *)
Enter(i) ==
    /\ Alive /\ slot[i] # Free /\ spc[i] = "enter" /\ i \notin closing
    /\ slot[i] = Iocp => hIOCP = "open"
    /\ Goto(i, "call")
    /\ UNCHANGED <<mpc, hIOCP, port, sockVars, deleted, got, lost, process>>

(* The loop ends. *)
EndThread(i) ==
    /\ Alive /\ spc[i] = "enter" /\ i \in closing
    /\ Goto(i, "ended")
    /\ UNCHANGED <<mpc, hIOCP, port, sockVars, deleted, got, lost, process>>

(* The client a job works with has been deleted: an access to it may crash. *)
TouchDeleted(i) ==
    /\ Alive /\ {slot[i].c, got.job.c} \cap deleted # {} /\ spc[i] \in {"call", "dispatch", "insert"}
    /\ process' = "crashed"
    /\ UNCHANGED <<mpc, hIOCP, port, sockVars, deleted, poolVars, got, lost>>

-----------------------------------------------------------------------------
(* threadIocp. *)

Lose(job, why) ==
    lost' = IF job.kind = "recv" /\ why = "error" THEN lost
            ELSE lost \cup {[job |-> job, why |-> why]}

(* An operation that failed: threadIocp returns 0 and does nothing. *)
IocpGetFailed(i) ==
    /\ At(i, "iocp", "call") /\ port # <<>> /\ ~Head(port).ok
    /\ port' = Tail(port) /\ Lose(Head(port).job, "error")
    /\ Goto(i, "enter")
    /\ UNCHANGED <<mpc, hIOCP, sockVars, deleted, got, process>>

IocpGet(i) ==
    /\ At(i, "iocp", "call") /\ port # <<>> /\ Head(port).ok
    /\ port' = Tail(port) /\ got' = Head(port)
    /\ Goto(i, "dispatch")
    /\ UNCHANGED <<mpc, hIOCP, sockVars, deleted, lost, process>>

(* DispatchWorker; what it returns is not looked at. *)
IocpDispatch(i) ==
    /\ At(i, "iocp", "dispatch")
    /\ IF Takers # {}
       THEN (\E k \in Takers : slot' = [slot EXCEPT ![k] = got.job]) /\ UNCHANGED lost
       ELSE Lose(got.job, "full") /\ UNCHANGED slot
    /\ spc' = [spc EXCEPT ![i] = "enter"] /\ got' = NoCompletion
    /\ UNCHANGED <<mpc, hIOCP, port, sockVars, deleted, closing, process>>

-----------------------------------------------------------------------------
(* AcceptWorker. *)

(* Slip: WSARecv is not issued. *)
ArmedNot(c) == UNCHANGED <<armed, lost>>

(* WSARecv with a WSABUF that nobody has filled: without a length it waits  *)
(* for data, with a wild address it fails, which AcceptWorker only traces.  *)
(* (A wild WSABUF that names memory of the process would have the data put  *)
(* there, and anything may follow: this is left out.)                       *)
Unasked(c) == [job |-> Recv(c), why |-> "error"]
Armed(c) ==
    \/ "zero" \in Uninit /\ conn[c] # "shut" /\ armed' = armed \cup {c} /\ UNCHANGED lost
    \/ /\ "wild" \in Uninit \/ conn[c] \in {"reset", "shut"}
       /\ lost' = lost \cup {Unasked(c)} /\ UNCHANGED armed

(* BindNewSocket and WSARecv. *)
AcceptRecv(i) ==
    /\ At(i, "accept", "call")
    /\ Armed(slot[i].c)
    /\ Goto(i, "insert")
    /\ UNCHANGED <<mpc, hIOCP, port, conn, avail, sent, used, deleted, got, process>>

AcceptInsert(i) ==
    /\ At(i, "accept", "insert")
    /\ \E c \in Clients : MakeClient(c)
    /\ Goto(i, "acceptex")
    /\ UNCHANGED <<mpc, port, deleted, got, lost, process>>

(* Slip: NewAccept is not called. *)
AcceptNextNot(i) ==
    /\ At(i, "accept", "acceptex")
    /\ Goto(i, "done")
    /\ UNCHANGED <<mpc, hIOCP, port, sockVars, deleted, got, lost, process>>

AcceptNext(i) ==
    /\ At(i, "accept", "acceptex")
    /\ AcceptEx
    /\ Goto(i, "done")
    /\ UNCHANGED <<mpc, port, deleted, got, lost, process>>

(* Slip: AcceptWorker returns 0. *)
AcceptAgain(i) ==
    /\ At(i, "accept", "done")
    /\ Goto(i, "enter")
    /\ UNCHANGED <<mpc, hIOCP, port, sockVars, deleted, got, lost, process>>

(* AcceptWorker returns -1 or -2. *)
AcceptDone(i) ==
    /\ At(i, "accept", "done")
    /\ Done(i)
    /\ UNCHANGED <<mpc, hIOCP, port, sockVars, deleted, got, lost, process>>

-----------------------------------------------------------------------------
(* RecvWorker: EdoyunClient::Recv. *)

(* Slip: WSARecv is issued again. *)
ReadAndArm(c, n) ==
    /\ avail' = [avail EXCEPT ![c] = @ - n] /\ used' = [used EXCEPT ![c] = @ + n]
    /\ armed' = armed \cup {c}

Read(c, n) ==
    /\ avail' = [avail EXCEPT ![c] = @ - n] /\ used' = [used EXCEPT ![c] = @ + n]
    /\ UNCHANGED armed

(* Slip: the room is taken for the whole of m_buffer.                       *)
RoomWhole(c) == BufSize

Room(c) == BufSize - used[c]

(* recv() gets some of the data, at most what m_buffer has room for, and    *)
(* RecvWorker returns 0.                                                    *)
RecvData(i) ==
    /\ At(i, "recv", "call")
    /\ LET c == slot[i].c IN
         /\ conn[c] \in {"open", "closed"} /\ used[c] # Wild
         /\ \E n \in 1..Room(c) : n <= avail[c] /\ Read(c, n)
    /\ Goto(i, "enter")
    /\ UNCHANGED <<mpc, hIOCP, port, conn, sent, deleted, got, lost, process>>

(* recv() fails, or returns 0 because the peer has closed or because there  *)
(* is no room left in m_buffer: RecvWorker returns -1.                      *)
RecvOver(c) ==
    \/ used[c] = Wild \/ Room(c) = 0
    \/ conn[c] \in {"reset", "shut"}
    \/ conn[c] = "closed" /\ avail[c] = 0

RecvEnds(i) ==
    /\ At(i, "recv", "call") /\ RecvOver(slot[i].c)
    /\ Done(i)
    /\ UNCHANGED <<mpc, hIOCP, port, sockVars, deleted, got, lost, process>>

Thread(i) ==
    \/ Enter(i) \/ EndThread(i)
    \/ IocpGetFailed(i) \/ IocpGet(i) \/ IocpDispatch(i)
    \/ AcceptRecv(i) \/ AcceptInsert(i) \/ AcceptNext(i) \/ AcceptDone(i)
    \/ RecvData(i) \/ RecvEnds(i)

-----------------------------------------------------------------------------
Next ==
    \/ StartService \/ Getchar \/ Destroy
    \/ Network
    \/ \E i \in Threads : Thread(i) \/ TouchDeleted(i)

Spec == Init /\ [][Next]_vars

(* Threads are scheduled and what is complete is reported; a peer need not  *)
(* do anything, and nobody needs to press a key.                            *)
Fairness ==
    /\ WF_vars(StartService) /\ WF_vars(Destroy)
    /\ \A i \in Threads : WF_vars(Thread(i))
    /\ \A c \in Clients : WF_vars(Network /\ RecvCompletes(c))

FairSpec == Spec /\ Fairness

-----------------------------------------------------------------------------
(* How many places there are from which the next AcceptEx will come, or in  *)
(* which it has come to an end: the main thread, an AcceptEx outstanding, a *)
(* completion at the port or with threadIocp, an AcceptWorker, a completion *)
(* nobody handles, and a NewAccept or a StartService that failed.           *)
One(b) == IF b THEN 1 ELSE 0
Links ==
    One(mpc \in {"dispatch", "insert", "acceptex"}) + One(hIOCP = "invalid")
    + Cardinality({c \in Clients : conn[c] = "listening"})
    + Cardinality({k \in DOMAIN port : port[k].job.kind = "accept"})
    + One(got.job.kind = "accept")
    + Cardinality({i \in Threads : slot[i].kind = "accept" /\ spc[i] # "done"})
    + Cardinality({r \in lost : r.job.kind = "accept"})

(* The chain of AcceptEx is in one place: no two are outstanding, and it    *)
(* ends only where NewAccept fails or a completion is not handled.  So no   *)
(* two threads insert into m_client, which has no lock, at the same time,   *)
(* and an AcceptWorker that binds its connection finds the completion port, *)
(* which NewAccept gives up when it fails.                                  *)
AcceptChain == mpc \notin {"stop", "gone"} => Links = 1

(* m_buffer and m_used have no lock: a connection is read by one thread, or *)
(* one is on its way to read it.                                            *)
OneReader ==
    \A c \in Clients :
        One(c \in armed) + One(got.job = Recv(c))
            + Cardinality({k \in DOMAIN port : port[k].job = Recv(c)})
            + Cardinality({i \in Threads : slot[i] = Recv(c)}) <= 1

(* A completion is refused by the pool only when there are about half as    *)
(* many connections as it has threads: a connection keeps at most two       *)
(* threads, its AcceptWorker and its RecvWorker, and threadIocp keeps one.  *)
Connected == {c \in Clients : conn[c] \notin {"none", "made", "listening"}}
Refused(kind) == \E r \in lost : r.why = "full" /\ r.job.kind = kind
RefusalNeedsConnections ==
    /\ Refused("accept") => 2 * Cardinality(Connected) > Size
    /\ Refused("recv") => 2 * Cardinality(Connected) >= Size

(* Every connection is followed by the next AcceptEx, unless the pool has   *)
(* refused one: nobody issues AcceptEx again then.  And it refuses one only *)
(* when there are that many connections.                                    *)
AcceptsOn ==
    /\ []RefusalNeedsConnections
    /\ \A c \in Clients :
           conn[c] = "open" ~> Refused("accept") \/ \E k \in Clients : conn[k] = "listening"

(* Nobody will read from c any more: m_used holds what was in memory, or    *)
(* WSARecv has failed, or m_buffer is full: recv() is given no room then,   *)
(* its 0 is taken for the end of the connection, and the rest stays.        *)
Unread(c) == used[c] \in {Wild, BufSize} \/ Unasked(c) \in lost

(* What a peer sends is read, up to what m_buffer holds, unless the pool    *)
(* was full when the server was told of the connection or of the data, or a *)
(* field nobody initialised (EdoyunServer.cpp:58) kept it from being read.  *)
DataRead ==
    \A c \in Clients :
        avail[c] > 0 ~> avail[c] = 0 \/ Unread(c) \/ Refused("accept") \/ Refused("recv")

(* A connection that its peer has closed gives its thread back for good.    *)
ThreadReturned ==
    \A c \in Clients : conn[c] = "closed" ~> [](\A i \in Threads : slot[i] # Recv(c))

(* A connection is served until its peer closes it or m_buffer is full, and *)
(* no longer.                                                               *)
ServedToTheEnd == DataRead /\ ThreadReturned
=============================================================================
