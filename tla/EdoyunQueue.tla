------------------------------ MODULE EdoyunQueue ------------------------------
(***************************************************************************)
(* CEdoyunQueue<T> (RemoteCtrl/CEdoyunQueue.h): a list owned by one worker *)
(* thread.  Callers never touch the list.  They build an IocpParam that    *)
(* names the operation, post its address to an I/O completion port, and    *)
(* the worker takes the addresses in the order they were posted and        *)
(* applies them.  PushBack and Clear put the IocpParam on the heap and     *)
(* return at once; the worker deletes it.  PopFront and Size put it in     *)
(* their own stack frame and block on an event that the worker sets.       *)
(*                                                                         *)
(* An address is the number of the call that first had an IocpParam there, *)
(* 1, 2, ...; 0 is the NULL key the destructor posts.  "live" is the       *)
(* memory that is still allocated, heap or frame alike.  The stack is used *)
(* again: a thread's call may put its IocpParam where an earlier one of    *)
(* that thread was, although the earlier one's packet is still to be dealt *)
(* with (Reusable).                                                        *)
(*                                                                         *)
(* Atomicity.  A step reads or writes one shared object.  Posting reads    *)
(* m_hCompeletionPort and calls the kernel in one step: the worker clears  *)
(* the member just before it closes the handle, so a stale handle fails as *)
(* a NULL one does, and "m_hCompeletionPort = NULL; CloseHandle" is one    *)
(* step too.  An IocpParam is built, read and written as one object.       *)
(***************************************************************************)
EXTENDS Integers, Sequences, FiniteSets

CONSTANTS
    Threads,      \* the threads that call the queue's methods
    Data,         \* the values of T
    NoData,       \* T(), and what a caller passes to PopFront to be filled in
    MaxCalls,     \* bound: the calls all threads make together
    HandleLimit,  \* the event handles the process can hold at once
    Faults,       \* what may fail: "ctor", the constructor's two system calls;
                  \* "post", PostQueuedCompletionStatus on an open port
    RacingDtor    \* TRUE: the destructor may start while calls are in progress

ASSUME QueueAssumption ==
    /\ NoData \in Data
    /\ MaxCalls \in Nat
    /\ HandleLimit \in Nat
    /\ Faults \subseteq {"ctor", "post"}
    /\ RacingDtor \in BOOLEAN

VARIABLES
    hPort,      \* m_hCompeletionPort: "open" or "NULL"
    port,       \* the packets in the completion port, oldest first
    lst,        \* m_lstData
    param,      \* param[a]: the IocpParam at address a
    live,       \* the addresses that hold an allocated IocpParam
    signalled,  \* the addresses whose hEvent has been set
    handles,    \* the addresses whose hEvent is an open handle
    ncalls,     \* how many calls have been made
    pc,         \* pc[t]: where thread t is in its call
    call,       \* call[t]: the address of the IocpParam of t's call, 0 if none
    reply,      \* reply[t]: what t's last call returned
    frames,     \* frames[t]: the stack addresses t's calls have been given
    wpc,        \* where the worker thread is
    loop,       \* which of its two loops the worker is in, 1 or 2
    cur,        \* the address the worker is dealing with, 0 if none
    dtor        \* where the destructor is

callerVars == <<pc, call, reply, frames>>
workerVars == <<wpc, loop, cur>>
vars == <<hPort, port, lst, param, live, signalled, handles, ncalls,
          callerVars, workerVars, dtor>>

-----------------------------------------------------------------------------
(* The enumeration of operators. *)
EQNone  == 0
EQPush  == 1
EQPop   == 2
EQSize  == 3
EQClear == 4

OnHeap  == {EQPush, EQClear}
OnStack == {EQPop, EQSize}

Addr == 1..MaxCalls

(* Where a thread is that has built its IocpParam and has yet to post it: in *)
(* PushBack or Clear, in PopFront, in Size.                                  *)
Posting == {"post", "postPop", "postSize"}

Entered(op) == CASE op = EQPop  -> "postPop"
                 [] op = EQSize -> "postSize"
                 [] OTHER       -> "post"

(* IocpParam.  EQSize writes its answer over nOperator, so nOperator is any *)
(* number.                                                                  *)
IocpParam == [nOperator : Nat, Data : Data, hEvent : {"event", "NULL"}]

(* What a method gives its caller: ret is "true" or "false" for the bool it *)
(* returns, or for whether Size could answer; data is PopFront's reference  *)
(* parameter; size is Size's value, -1 when it fails.                       *)
Reply == [ret : {"true", "false"}, data : Data, size : Nat \cup {-1}]
Failed == [ret |-> "false", data |-> NoData, size |-> -1]
Done   == [ret |-> "true",  data |-> NoData, size |-> -1]

(* The definitions headed "Slip" are errors the next definition could have  *)
(* had.  No behaviour of Spec uses them: they show what each property would *)
(* notice.                                                                  *)

(* Slip: the answer is not copied out of the frame. *)
AnswerLost(op, p) == Done

(* What the frame of a woken PopFront or Size holds. *)
Answer(op, p) ==
    IF op = EQPop THEN [Done EXCEPT !.data = p.Data]
                  ELSE [Done EXCEPT !.size = p.nOperator]

TypeOK ==
    /\ hPort \in {"open", "NULL"}
    /\ port \in Seq(Addr \cup {0})
    /\ lst \in Seq(Data)
    /\ param \in [Addr -> IocpParam]
    /\ live \subseteq Addr /\ signalled \subseteq Addr
    /\ handles \subseteq Addr /\ ncalls \in 0..MaxCalls
    /\ pc \in [Threads -> {"idle", "popping", "sizing"} \cup Posting]
    /\ call \in [Threads -> Addr \cup {0}]
    /\ reply \in [Threads -> Reply]
    /\ frames \in [Threads -> SUBSET Addr]
    /\ wpc \in {"none", "get", "deal", "signal", "crashed", "close", "ended"}
    /\ loop \in {1, 2}
    /\ cur \in IF wpc \in {"deal", "signal", "crashed"} THEN Addr ELSE {0}
    /\ dtor \in {"alive", "post", "join", "gone"}

(* The state the constructor leaves.  Neither CreateIoCompletionPort nor    *)
(* _beginthread is checked by the rest of the class.                        *)
Init ==
    /\ \/ hPort = "open" /\ wpc = "get"
       \/ "ctor" \in Faults /\ hPort \in {"open", "NULL"} /\ wpc = "none"
    /\ port = <<>> /\ lst = <<>>
    /\ param = [a \in Addr |-> [nOperator |-> 0, Data |-> NoData, hEvent |-> "NULL"]]
    /\ live = {} /\ signalled = {} /\ handles = {} /\ ncalls = 0
    /\ pc = [t \in Threads |-> "idle"]
    /\ call = [t \in Threads |-> 0]
    /\ reply = [t \in Threads |-> Done]
    /\ frames = [t \in Threads |-> {}]
    /\ loop = 1 /\ cur = 0
    /\ dtor = "alive"

-----------------------------------------------------------------------------
(* The callers. *)

(* Slip: no event to wait on. *)
NoEvent == "NULL"

(* CreateEvent gives NULL once the process holds all the handles it can.    *)
CreateEvent == IF Cardinality(handles) < HandleLimit THEN "event" ELSE "NULL"

(* Slip: the flag is set at the end of the destructor. *)
LockedLate == dtor = "gone"

(* m_lock: "the queue is being destructed".                                 *)
m_lock == dtor # "alive"

(* The packets that were posted and that the worker has not finished with.  *)
PacketsIn(q) == {q[i] : i \in DOMAIN q} \ {0}
InPort == PacketsIn(port)
Unfinished == (InPort \cup {cur}) \ {0}

(* Where a frame of t was that is gone while its packet is not.  The next   *)
(* PopFront or Size of t may build its IocpParam there.                     *)
Reusable(t) == (frames[t] \ live) \cap Unfinished

OfSomeFrame == UNION {frames[t] : t \in Threads}

(* A method leaves the frame at a.  If a packet with that address is still  *)
(* unfinished, the worker will read what the frame held, or what the        *)
(* thread's next calls put there: no operator it knows, or one that makes   *)
(* it delete the IocpParam.                                                 *)
FrameLeft(a) ==
    param' \in IF a \in Unfinished
               THEN {param} \cup {[param EXCEPT ![a].nOperator = op] : op \in {EQNone, EQClear}}
               ELSE {param}

(* The start of PushBack, PopFront, Size and Clear: build the IocpParam at  *)
(* a, with an event for the two that wait, and look at m_lock.              *)
CallAt(t, op, d, a) ==
    /\ ncalls' = ncalls + 1
    /\ IF m_lock
       THEN /\ reply' = [reply EXCEPT ![t] = Failed]
            /\ FrameLeft(a)
            /\ UNCHANGED <<live, signalled, handles, pc, call, frames>>
       ELSE LET ev == IF op \in OnStack THEN CreateEvent ELSE "NULL" IN
            /\ param' = [param EXCEPT ![a] = [nOperator |-> op, Data |-> d, hEvent |-> ev]]
            /\ live' = live \cup {a}
            /\ signalled' = signalled \ {a}
            /\ handles' = IF ev = "event" THEN handles \cup {a} ELSE handles
            /\ pc' = [pc EXCEPT ![t] = Entered(op)]
            /\ call' = [call EXCEPT ![t] = a]
            /\ frames' = [frames EXCEPT ![t] = IF op \in OnStack THEN @ \cup {a} ELSE @]
            /\ UNCHANGED reply
    /\ UNCHANGED <<hPort, port, lst, workerVars, dtor>>

Call(t, op, d) ==
    /\ pc[t] = "idle" /\ dtor # "gone" /\ ncalls < MaxCalls
    /\ \/ CallAt(t, op, d, ncalls + 1)
       \/ op \in OnStack /\ \E a \in Reusable(t) : CallAt(t, op, d, a)

PushBack(t, d) == Call(t, EQPush, d)
PopFront(t)    == Call(t, EQPop, NoData)
Size(t)        == Call(t, EQSize, NoData)
Clear(t)       == Call(t, EQClear, NoData)

(* PostQueuedCompletionStatus succeeds.  PushBack and Clear return; what    *)
(* they allocated now belongs to the worker.                                *)
PostOK(t) ==
    /\ pc[t] \in Posting /\ hPort = "open"
    /\ port' = Append(port, call[t])
    /\ IF pc[t] = "post"
       THEN /\ pc' = [pc EXCEPT ![t] = "idle"]
            /\ call' = [call EXCEPT ![t] = 0]
            /\ reply' = [reply EXCEPT ![t] = Done]
       ELSE /\ pc' = [pc EXCEPT ![t] = IF @ = "postPop" THEN "popping" ELSE "sizing"]
            /\ UNCHANGED <<call, reply>>
    /\ UNCHANGED <<hPort, lst, param, live, signalled, handles, ncalls, frames,
                   workerVars, dtor>>

(* The thread is inside WaitForSingleObject. *)
Waiting(t) == pc[t] \in {"popping", "sizing"}

(* PostQueuedCompletionStatus fails: the IocpParam and the event are released. *)
PostFail(t) ==
    /\ pc[t] \in Posting /\ (hPort = "NULL" \/ "post" \in Faults)
    /\ FrameLeft(call[t])
    /\ live' = live \ {call[t]}
    /\ handles' = handles \ {call[t]}
    /\ pc' = [pc EXCEPT ![t] = "idle"]
    /\ call' = [call EXCEPT ![t] = 0]
    /\ reply' = [reply EXCEPT ![t] = Failed]
    /\ UNCHANGED <<hPort, port, lst, signalled, ncalls, frames, workerVars, dtor>>

Post(t) == PostOK(t) \/ PostFail(t)

(* The event is set: WaitForSingleObject returns, the answer is copied and  *)
(* the method's frame is gone.  Its event handle is not closed.             *)
WakeAnswered(t) ==
    LET op == IF pc[t] = "popping" THEN EQPop ELSE EQSize IN
    /\ Waiting(t) /\ param[call[t]].hEvent = "event" /\ call[t] \in signalled
    /\ reply' = [reply EXCEPT ![t] = Answer(op, param[call[t]])]
    /\ FrameLeft(call[t])
    /\ live' = live \ {call[t]}
    /\ pc' = [pc EXCEPT ![t] = "idle"]
    /\ call' = [call EXCEPT ![t] = 0]
    /\ UNCHANGED <<hPort, port, lst, signalled, handles, ncalls, frames,
                   workerVars, dtor>>

(* The event is NULL: the wait fails at once and the frame is gone while    *)
(* its address may still be in the port.                                    *)
WakeFailed(t) ==
    /\ Waiting(t) /\ param[call[t]].hEvent = "NULL"
    /\ reply' = [reply EXCEPT ![t] = Failed]
    /\ FrameLeft(call[t])
    /\ live' = live \ {call[t]}
    /\ pc' = [pc EXCEPT ![t] = "idle"]
    /\ call' = [call EXCEPT ![t] = 0]
    /\ UNCHANGED <<hPort, port, lst, signalled, handles, ncalls, frames,
                   workerVars, dtor>>

Wake(t) == WakeAnswered(t) \/ WakeFailed(t)

-----------------------------------------------------------------------------
(* The worker: threadMain and DealParam. *)

(* GetQueuedCompletionStatus in either loop.  The NULL key ends the first   *)
(* loop; the second skips it.                                               *)
Get ==
    /\ wpc = "get" /\ port # <<>>
    /\ port' = Tail(port)
    /\ IF Head(port) = 0
       THEN loop' = 2 /\ UNCHANGED <<wpc, cur>>
       ELSE cur' = Head(port) /\ wpc' = "deal" /\ UNCHANGED loop
    /\ UNCHANGED <<hPort, lst, param, live, signalled, handles, ncalls,
                   callerVars, dtor>>

(* The second loop's GetQueuedCompletionStatus, with no time to wait, found *)
(* nothing.                                                                 *)
GetNothing ==
    /\ wpc = "get" /\ loop = 2 /\ port = <<>>
    /\ wpc' = "close"
    /\ UNCHANGED <<hPort, port, lst, param, live, signalled, handles,
                   ncalls, callerVars, loop, cur, dtor>>

DealPush ==
    /\ wpc = "deal" /\ param[cur].nOperator = EQPush /\ cur \notin OfSomeFrame
    /\ lst' = Append(lst, param[cur].Data)
    /\ live' = live \ {cur}
    /\ wpc' = "get" /\ cur' = 0
    /\ UNCHANGED <<hPort, port, param, signalled, handles, ncalls,
                   callerVars, loop, dtor>>

DealClear ==
    /\ wpc = "deal" /\ param[cur].nOperator = EQClear /\ cur \notin OfSomeFrame
    /\ lst' = <<>>
    /\ live' = live \ {cur}
    /\ wpc' = "get" /\ cur' = 0
    /\ UNCHANGED <<hPort, port, param, signalled, handles, ncalls,
                   callerVars, loop, dtor>>

(* A stack address that reads as EQPush or EQClear is deleted: the process  *)
(* does not survive it, and the worker does nothing more.                   *)
DeleteFrame ==
    /\ wpc = "deal" /\ param[cur].nOperator \in OnHeap /\ cur \in OfSomeFrame
    /\ wpc' = "crashed"
    /\ UNCHANGED <<hPort, port, lst, param, live, signalled, handles, ncalls,
                   callerVars, loop, cur, dtor>>

(* Slip: SetEvent is forgotten. *)
NotSignalled == wpc' = "get" /\ cur' = 0

(* Slip: the packet is let go of before its event is set. *)
SignalledLate == wpc' = "signal" /\ cur' = 0

(* After EQPop and EQSize: SetEvent is due if the caller has an event. *)
AnswerWritten ==
    IF param[cur].hEvent = "event" THEN wpc' = "signal" /\ UNCHANGED cur
                         ELSE wpc' = "get" /\ cur' = 0

DealPop ==
    /\ wpc = "deal" /\ param[cur].nOperator = EQPop
    /\ IF lst # <<>>
       THEN /\ param' = [param EXCEPT ![cur].Data = Head(lst)]
            /\ lst' = Tail(lst)
       ELSE UNCHANGED <<param, lst>>
    /\ AnswerWritten
    /\ UNCHANGED <<hPort, port, live, signalled, handles, ncalls,
                   callerVars, loop, dtor>>

DealSize ==
    /\ wpc = "deal" /\ param[cur].nOperator = EQSize
    /\ param' = [param EXCEPT ![cur].nOperator = Len(lst)]
    /\ AnswerWritten
    /\ UNCHANGED <<hPort, port, lst, live, signalled, handles, ncalls,
                   callerVars, loop, dtor>>

(* "unknown operator!" *)
DealUnknown ==
    /\ wpc = "deal" /\ param[cur].nOperator \notin OnHeap \cup OnStack
    /\ wpc' = "get" /\ cur' = 0
    /\ UNCHANGED <<hPort, port, lst, param, live, signalled, handles,
                   ncalls, callerVars, loop, dtor>>

DealParam ==
    DealPush \/ DealClear \/ DeleteFrame \/ DealPop \/ DealSize \/ DealUnknown

(* SetEvent(pParam->hEvent): the handle is read again. *)
Signal ==
    /\ wpc = "signal"
    /\ signalled' = IF param[cur].hEvent = "event" THEN signalled \cup {cur} ELSE signalled
    /\ wpc' = "get" /\ cur' = 0
    /\ UNCHANGED <<hPort, port, lst, param, live, handles, ncalls,
                   callerVars, loop, dtor>>

(* Closing the port discards whatever is still in it. *)
Close ==
    /\ wpc = "close"
    /\ hPort' = "NULL" /\ port' = <<>>
    /\ wpc' = "ended"
    /\ UNCHANGED <<lst, param, live, signalled, handles, ncalls,
                   callerVars, loop, cur, dtor>>

Worker == Get \/ GetNothing \/ DealParam \/ Signal \/ Close

-----------------------------------------------------------------------------
(* The destructor, called by the one thread that owns the queue. *)

DtorLock ==
    /\ dtor = "alive"
    /\ RacingDtor \/ \A t \in Threads : pc[t] = "idle"
    /\ dtor' = "post"
    /\ UNCHANGED <<hPort, port, lst, param, live, signalled, handles, ncalls,
                   callerVars, workerVars>>

(* The result of posting the NULL key is not looked at. *)
DtorPost ==
    /\ dtor = "post"
    /\ \/ hPort = "open" /\ port' = Append(port, 0)
       \/ (hPort = "NULL" \/ "post" \in Faults) /\ UNCHANGED port
    /\ dtor' = "join"
    /\ UNCHANGED <<hPort, lst, param, live, signalled, handles, ncalls,
                   callerVars, workerVars>>

(* WaitForSingleObject(m_hThread) returns when the worker has ended.  With  *)
(* no worker m_hThread is INVALID_HANDLE_VALUE, which names the current     *)
(* process, and the wait does not end.                                      *)
DtorJoin ==
    /\ dtor = "join" /\ wpc = "ended"
    /\ hPort' = "NULL" /\ dtor' = "gone"
    /\ UNCHANGED <<port, lst, param, live, signalled, handles, ncalls,
                   callerVars, workerVars>>

Destructor == DtorLock \/ DtorPost \/ DtorJoin

-----------------------------------------------------------------------------
Next ==
    \/ \E t \in Threads :
          \/ \E d \in Data : PushBack(t, d)
          \/ PopFront(t) \/ Size(t) \/ Clear(t)
          \/ Post(t) \/ Wake(t)
    \/ Worker
    \/ Destructor

Spec == Init /\ [][Next]_vars

(* Threads that have entered a method, the worker and a destructor that has *)
(* begun are scheduled; nobody has to make a call or destroy the queue.     *)
Fairness ==
    /\ \A t \in Threads : WF_vars(Post(t)) /\ WF_vars(Wake(t))
    /\ WF_vars(Worker)
    /\ WF_vars(DtorPost) /\ WF_vars(DtorJoin)

FairSpec == Spec /\ Fairness

-----------------------------------------------------------------------------
NoDup(q) == \A i, j \in DOMAIN q : q[i] = q[j] /\ q[i] # 0 => i = j

(* Every address the worker holds or will take from the port is allocated   *)
(* memory: no IocpParam is read, written or deleted after the PopFront or   *)
(* Size that owns the frame has returned, or after the worker deleted it.   *)
NoDanglingParam == Unfinished \subseteq live

(* No packet is posted twice or taken while a copy of it is still queued,   *)
(* so the worker deletes a heap IocpParam at most once and sets an event    *)
(* at most once.                                                            *)
DealtOnce ==
    /\ NoDup(port)
    /\ cur \notin InPort
    /\ (InPort \cup {cur}) \cap signalled = {}

(* Every IocpParam is dealt with once, and only while it is allocated.      *)
NoParamMisused == NoDanglingParam /\ DealtOnce

(* An IocpParam that is allocated is still known to somebody: to the method *)
(* that made it, to the port, or to the worker.  Anything else is a leak.   *)
NoParamLeak ==
    live \subseteq InPort \cup {cur} \cup {call[t] : t \in Threads}

(* A thread blocked in PopFront or Size has its request in the port or in   *)
(* the worker's hands, or its event is set: it cannot wait for an answer    *)
(* nobody will give.                                                        *)
NoStrandedCaller ==
    \A t \in Threads :
        Waiting(t) /\ param[call[t]].hEvent = "event" =>
            call[t] \in InPort \cup {cur} \cup signalled

(* No IocpParam is forgotten: none is leaked, and none that a caller waits  *)
(* for.                                                                     *)
NoParamForgotten == NoParamLeak /\ NoStrandedCaller

(* Once the destructor has returned, every push and clear that was accepted *)
(* has been applied and released: the second loop of threadMain leaves      *)
(* nothing behind.                                                          *)
NothingLeftBehind == dtor = "gone" => live = {} /\ port = <<>>

(* Every method that is entered returns, and a destructor that has begun    *)
(* completes.                                                               *)
CallsReturn ==
    /\ \A t \in Threads : pc[t] # "idle" ~> pc[t] = "idle"
    /\ dtor # "alive" ~> dtor = "gone"
=============================================================================
