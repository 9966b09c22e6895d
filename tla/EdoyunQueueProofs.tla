-------------------------- MODULE EdoyunQueueProofs --------------------------
(***************************************************************************)
(* Proofs about CEdoyunQueue, for every set of threads and values and any  *)
(* number of calls: who owns each IocpParam at each step, what the         *)
(* destructor has done, and, from these, that every call takes effect at   *)
(* one instant.                                                            *)
(*                                                                         *)
(* The refinement: a step that posts a packet appends it to the port, and  *)
(* so changes only the list at the port's end (ListsPosted); a step of the *)
(* worker takes the first packet and applies it, which leaves the list     *)
(* before every other packet as it was (ListsTaken).  Both follow the      *)
(* recursion over the port, by induction over a set of numbers.            *)
(***************************************************************************)
EXTENDS EdoyunQueueRefinement, SequenceTheorems, FiniteSetTheorems, WellFoundedInduction, TLAPS

-----------------------------------------------------------------------------
(* Type correctness. *)

LEMMA TypeInit == Init => TypeOK
BY QueueAssumption DEF Init, TypeOK, IocpParam, Reply, Done, Posting

(* What leaving a frame does to the memory it was in. *)
LEMMA LeftFrame ==
  ASSUME param \in [Addr -> IocpParam], NEW a, FrameLeft(a)
  PROVE  /\ param' \in [Addr -> IocpParam]
         /\ \A b \in Addr : b # a => param'[b] = param[b]
         /\ \A b \in Addr : param'[b].hEvent = param[b].hEvent
         /\ a \notin Unfinished => param' = param
<1>1. CASE param' = param
  BY <1>1
<1>2. CASE param' # param
  <2>1. PICK op \in {EQNone, EQClear} : param' = [param EXCEPT ![a].nOperator = op]
    BY <1>2 DEF FrameLeft
  <2>2. op \in Nat /\ a \in Unfinished
    BY <1>2 DEF FrameLeft, EQNone, EQClear
  <2>3. \A b \in Addr : param[b] \in IocpParam
    OBVIOUS
  <2> QED BY <2>1, <2>2, <2>3 DEF IocpParam
<1> QED BY <1>1, <1>2

(* Where the IocpParam of a call is: at a new address, or in a frame that   *)
(* the same thread has left.                                                *)
LEMMA CallsAt ==
  ASSUME TypeOK, NEW t \in Threads, NEW op \in OnHeap \cup OnStack, NEW d \in Data,
         Call(t, op, d)
  PROVE  /\ pc[t] = "idle" /\ ncalls + 1 \in Addr /\ ncalls \in Nat
         /\ \E a \in Addr : /\ CallAt(t, op, d, a)
                            /\ a = ncalls + 1 \/ (op \in OnStack /\ a \in Reusable(t))
<1>1. pc[t] = "idle" /\ ncalls + 1 \in Addr /\ ncalls \in Nat
  BY QueueAssumption DEF Call, TypeOK, Addr
<1>2. Reusable(t) \subseteq Addr
  BY DEF Reusable, TypeOK
<1> QED BY <1>1, <1>2 DEF Call

LEMMA TypeCall ==
  ASSUME TypeOK, NEW t \in Threads, NEW op \in OnHeap \cup OnStack, NEW d \in Data,
         Call(t, op, d)
  PROVE  TypeOK'
<1> USE DEF TypeOK
<1>1. PICK a \in Addr : CallAt(t, op, d, a)
  BY CallsAt
<1>2. op \in Nat /\ ncalls' \in 0..MaxCalls
  BY <1>1, CallsAt, QueueAssumption
  DEF CallAt, OnHeap, OnStack, EQPush, EQPop, EQSize, EQClear, Addr
<1>3. CASE m_lock
  <2>1. reply' \in [Threads -> Reply]
    <3>1. Failed \in Reply
      BY QueueAssumption DEF Reply, Failed
    <3>2. reply' = [reply EXCEPT ![t] = Failed]
      BY <1>1, <1>3 DEF CallAt
    <3> QED BY <3>1, <3>2
  <2>2. param' \in [Addr -> IocpParam]
    BY <1>1, <1>3, LeftFrame DEF CallAt
  <2> QED BY <1>1, <1>2, <1>3, <2>1, <2>2 DEF CallAt, workerVars
<1>4. CASE ~m_lock
  <2> DEFINE ev == IF op \in OnStack THEN CreateEvent ELSE "NULL"
             p  == [nOperator |-> op, Data |-> d, hEvent |-> ev]
  <2>1. param' = [param EXCEPT ![a] = p] /\ p \in IocpParam
    BY <1>1, <1>2, <1>4 DEF CallAt, IocpParam, CreateEvent
  <2>2. param' \in [Addr -> IocpParam]
    BY <2>1
  <2>3. live' \subseteq Addr /\ handles' \subseteq Addr /\ signalled' \subseteq Addr
    BY <1>1, <1>4 DEF CallAt
  <2>4. pc' \in [Threads -> {"idle", "popping", "sizing"} \cup Posting]
    BY <1>1, <1>4 DEF CallAt, Entered, Posting
  <2>5. call' \in [Threads -> Addr \cup {0}]
    BY <1>1, <1>4 DEF CallAt
  <2>6. frames' \in [Threads -> SUBSET Addr]
    BY <1>1, <1>4 DEF CallAt
  <2> QED BY <1>1, <1>2, <1>4, <2>2, <2>3, <2>4, <2>5, <2>6 DEF CallAt, workerVars
<1> QED BY <1>3, <1>4

LEMMA TypePost ==
  ASSUME TypeOK, NEW t \in Threads, Post(t)
  PROVE  TypeOK'
<1> USE DEF TypeOK
<1>1. CASE PostOK(t)
  <2> USE <1>1 DEF PostOK
  <2>1. port' \in Seq(Addr \cup {0})
    OBVIOUS
  <2>2. pc' \in [Threads -> {"idle", "popping", "sizing"} \cup Posting]
    OBVIOUS
  <2>3. call' \in [Threads -> Addr \cup {0}]
    OBVIOUS
  <2>4. reply' \in [Threads -> Reply]
    BY QueueAssumption DEF Reply, Done
  <2> QED BY <2>1, <2>2, <2>3, <2>4 DEF workerVars
<1>2. CASE PostFail(t)
  <2> USE <1>2 DEF PostFail
  <2>1. pc' \in [Threads -> {"idle", "popping", "sizing"} \cup Posting]
    OBVIOUS
  <2>2. call' \in [Threads -> Addr \cup {0}]
    OBVIOUS
  <2>3. reply' \in [Threads -> Reply]
    BY QueueAssumption DEF Reply, Failed
  <2>4. param' \in [Addr -> IocpParam]
    BY LeftFrame
  <2> QED BY <2>1, <2>2, <2>3, <2>4 DEF workerVars
<1> QED BY <1>1, <1>2 DEF Post

LEMMA TypeWake ==
  ASSUME TypeOK, NEW t \in Threads, Wake(t)
  PROVE  TypeOK'
<1> USE DEF TypeOK
<1>1. call' \in [Threads -> Addr \cup {0}]
  BY DEF Wake, WakeAnswered, WakeFailed
<1>2. pc' \in [Threads -> {"idle", "popping", "sizing"} \cup Posting]
  BY DEF Wake, WakeAnswered, WakeFailed
<1>3. param' \in [Addr -> IocpParam]
  BY LeftFrame DEF Wake, WakeAnswered, WakeFailed
<1>4. CASE WakeAnswered(t)
  <2> DEFINE op == IF pc[t] = "popping" THEN EQPop ELSE EQSize
             a  == Answer(op, param[call[t]])
  <2>1. param[call[t]].Data \in Data /\ param[call[t]].nOperator \in Nat
    <3>1. CASE call[t] \in Addr
      BY <3>1 DEF IocpParam
    <3>2. CASE call[t] = 0
      BY <1>4, <3>2 DEF WakeAnswered, Addr
    <3> QED BY <3>1, <3>2
  <2>2. a \in Reply
    BY <2>1, QueueAssumption DEF Answer, Reply, Done
  <2>3. reply' \in [Threads -> Reply]
    BY <1>4, <2>2 DEF WakeAnswered
  <2> QED BY <1>1, <1>2, <1>3, <1>4, <2>3 DEF WakeAnswered, workerVars
<1>5. CASE WakeFailed(t)
  <2>1. reply' \in [Threads -> Reply]
    BY <1>5, QueueAssumption DEF WakeFailed, Reply, Failed
  <2> QED BY <1>1, <1>2, <1>3, <1>5, <2>1 DEF WakeFailed, workerVars
<1> QED BY <1>4, <1>5 DEF Wake

LEMMA TypeDeal ==
  ASSUME TypeOK, DealParam
  PROVE  TypeOK'
<1> USE DEF TypeOK
<1>1. cur \in Addr /\ param[cur] \in IocpParam
  BY DEF DealParam, DealPush, DealPop, DealClear, DeleteFrame, DealSize, DealUnknown
<1>2. CASE DealPush
  <2>1. lst' \in Seq(Data)
    BY <1>1, <1>2 DEF DealPush, IocpParam
  <2> QED BY <1>2, <2>1 DEF DealPush, callerVars
<1>3. CASE DealPop
  <2>1. lst' \in Seq(Data)
    <3>1. lst' = IF lst # <<>> THEN Tail(lst) ELSE lst
      BY <1>3 DEF DealPop
    <3>2. lst # <<>> => Tail(lst) \in Seq(Data)
      BY HeadTailProperties
    <3> QED BY <3>1, <3>2
  <2>2. param' \in [Addr -> IocpParam]
    <3>1. CASE lst # <<>>
      <4> DEFINE p == [param[cur] EXCEPT !.Data = Head(lst)]
      <4>1. Head(lst) \in Data
        BY <3>1
      <4>2. p \in IocpParam
        BY <1>1, <4>1 DEF IocpParam
      <4>3. param' = [param EXCEPT ![cur] = p]
        BY <1>3, <3>1 DEF DealPop
      <4> QED BY <1>1, <4>2, <4>3
    <3>2. CASE lst = <<>>
      BY <1>3, <3>2 DEF DealPop
    <3> QED BY <3>1, <3>2
  <2>3. wpc' \in {"signal", "get"} /\ cur' = IF wpc' = "signal" THEN cur ELSE 0
    BY <1>3 DEF DealPop, AnswerWritten
  <2> QED BY <1>1, <1>3, <2>1, <2>2, <2>3 DEF DealPop, callerVars
<1>4. CASE DealSize
  <2>1. param' \in [Addr -> IocpParam]
    <3> DEFINE p == [param[cur] EXCEPT !.nOperator = Len(lst)]
    <3>1. Len(lst) \in Nat
      BY LenProperties
    <3>2. p \in IocpParam
      BY <1>1, <3>1 DEF IocpParam
    <3>3. param' = [param EXCEPT ![cur] = p]
      BY <1>4 DEF DealSize
    <3> QED BY <1>1, <3>2, <3>3
  <2>2. wpc' \in {"signal", "get"} /\ cur' = IF wpc' = "signal" THEN cur ELSE 0
    BY <1>4 DEF DealSize, AnswerWritten
  <2> QED BY <1>1, <1>4, <2>1, <2>2 DEF DealSize, callerVars
<1>5. CASE DealClear
  BY <1>5 DEF DealClear, callerVars
<1>6. CASE DealUnknown
  BY <1>6 DEF DealUnknown, callerVars
<1>7. CASE DeleteFrame
  BY <1>1, <1>7 DEF DeleteFrame, callerVars
<1> QED BY <1>2, <1>3, <1>4, <1>5, <1>6, <1>7 DEF DealParam

LEMMA TypeWorker ==
  ASSUME TypeOK, Worker
  PROVE  TypeOK'
<1>1. CASE Get
  <2> USE <1>1 DEF TypeOK, Get
  <2>1. port' \in Seq(Addr \cup {0}) /\ Head(port) \in Addr \cup {0}
    OBVIOUS
  <2>2. cur' \in IF wpc' \in {"deal", "signal", "crashed"} THEN Addr ELSE {0}
    BY <2>1
  <2>3. /\ wpc' \in {"none", "get", "deal", "signal", "crashed", "close", "ended"}
        /\ loop' \in {1, 2}
    OBVIOUS
  <2> QED BY <2>1, <2>2, <2>3 DEF callerVars
<1>2. CASE GetNothing
  BY <1>2 DEF TypeOK, GetNothing, callerVars
<1>3. CASE DealParam
  BY <1>3, TypeDeal
<1>4. CASE Signal
  <2>1. signalled' \subseteq Addr
    BY <1>4 DEF TypeOK, Signal
  <2> QED BY <1>4, <2>1 DEF TypeOK, Signal, callerVars
<1>5. CASE Close
  BY <1>5 DEF TypeOK, Close, callerVars
<1> QED BY <1>1, <1>2, <1>3, <1>4, <1>5 DEF Worker

LEMMA TypeDestructor ==
  ASSUME TypeOK, Destructor
  PROVE  TypeOK'
<1> USE DEF TypeOK
<1>1. CASE DtorLock
  BY <1>1 DEF DtorLock, callerVars, workerVars
<1>2. CASE DtorPost
  <2>1. port' \in Seq(Addr \cup {0})
    <3>1. port \in Seq(Addr \cup {0}) /\ port' \in {port, Append(port, 0)}
      BY <1>2 DEF DtorPost
    <3> HIDE DEF TypeOK
    <3> QED BY <3>1
  <2> QED BY <1>2, <2>1 DEF DtorPost, callerVars, workerVars
<1>3. CASE DtorJoin
  BY <1>3 DEF DtorJoin, callerVars, workerVars
<1> QED BY <1>1, <1>2, <1>3 DEF Destructor

(* What one call step is: Next's calls are Call with one of the operators. *)
LEMMA CallSteps ==
  ASSUME TypeOK, NEW t \in Threads,
         (\E d \in Data : PushBack(t, d)) \/ PopFront(t) \/ Size(t) \/ Clear(t)
  PROVE  \E op \in OnHeap \cup OnStack, d \in Data : Call(t, op, d)
BY QueueAssumption DEF PushBack, PopFront, Size, Clear, OnHeap, OnStack

LEMMA TypeStep == TypeOK /\ [Next]_vars => TypeOK'
<1> SUFFICES ASSUME TypeOK, [Next]_vars PROVE TypeOK'
  OBVIOUS
<1>1. ASSUME NEW t \in Threads,
             (\E d \in Data : PushBack(t, d)) \/ PopFront(t) \/ Size(t) \/ Clear(t)
      PROVE  TypeOK'
  BY <1>1, CallSteps, TypeCall
<1>2. ASSUME NEW t \in Threads, Post(t) \/ Wake(t) PROVE TypeOK'
  BY <1>2, TypePost, TypeWake
<1>3. CASE Worker
  BY <1>3, TypeWorker
<1>4. CASE Destructor
  BY <1>4, TypeDestructor
<1>5. CASE UNCHANGED vars
  BY <1>5 DEF TypeOK, vars, callerVars, workerVars
<1> QED BY <1>1, <1>2, <1>3, <1>4, <1>5 DEF Next

(* Every variable of the queue keeps its type, whatever the faults, the     *)
(* number of handles and the moment the destructor runs.                    *)
THEOREM TypeCorrect == Spec => []TypeOK
BY TypeInit, TypeStep, PTL DEF Spec

-----------------------------------------------------------------------------
(* Packets in a port: what posting and taking one do to them.               *)

LEMMA PostedPackets ==
  ASSUME NEW q \in Seq(Addr \cup {0}), NEW a \in Addr \cup {0}
  PROVE  /\ PacketsIn(Append(q, a)) = PacketsIn(q) \cup ({a} \ {0})
         /\ NoDup(q) /\ a \notin PacketsIn(q) => NoDup(Append(q, a))
<1> DEFINE r == Append(q, a)
<1>1. /\ DOMAIN r = 1..(Len(q) + 1) /\ DOMAIN q = 1..Len(q) /\ Len(q) \in Nat
      /\ \A i \in 1..Len(q) : r[i] = q[i]
      /\ r[Len(q) + 1] = a
  OBVIOUS
<1> HIDE DEF r
<1>2. PacketsIn(r) = PacketsIn(q) \cup ({a} \ {0})
  <2>1. \A x : x \in PacketsIn(r) => x \in PacketsIn(q) \cup ({a} \ {0})
    BY <1>1 DEF PacketsIn
  <2>2. \A x : x \in PacketsIn(q) => x \in PacketsIn(r)
    BY <1>1 DEF PacketsIn
  <2>3. a # 0 => a \in PacketsIn(r)
    BY <1>1 DEF PacketsIn
  <2> QED BY <2>1, <2>2, <2>3
<1>3. ASSUME NoDup(q), a \notin PacketsIn(q) PROVE NoDup(r)
  <2> SUFFICES ASSUME NEW i \in DOMAIN r, NEW j \in DOMAIN r, r[i] = r[j], r[i] # 0
               PROVE  i = j
    BY DEF NoDup
  <2> QED BY <1>1, <1>3 DEF NoDup, PacketsIn
<1> QED BY <1>2, <1>3 DEF r

LEMMA TakenPackets ==
  ASSUME NEW q \in Seq(Addr \cup {0}), q # <<>>, NoDup(q)
  PROVE  /\ PacketsIn(q) = PacketsIn(Tail(q)) \cup ({Head(q)} \ {0})
         /\ Head(q) \notin PacketsIn(Tail(q))
         /\ NoDup(Tail(q))
<1> DEFINE r == Tail(q)
<1>1. /\ DOMAIN q = 1..Len(q) /\ Len(q) \in Nat /\ Len(q) >= 1
      /\ DOMAIN r = 1..(Len(q) - 1)
      /\ \A i \in 1..(Len(q) - 1) : r[i] = q[i + 1]
      /\ Head(q) = q[1]
  OBVIOUS
<1> HIDE DEF r
<1>2. PacketsIn(q) = PacketsIn(r) \cup ({Head(q)} \ {0})
  <2>1. ASSUME NEW i \in DOMAIN q, q[i] # 0
        PROVE  q[i] \in PacketsIn(r) \cup ({Head(q)} \ {0})
    <3>1. CASE i = 1
      BY <1>1, <2>1, <3>1
    <3>2. CASE i # 1
      <4>1. i - 1 \in DOMAIN r /\ r[i - 1] = q[i]
        BY <1>1, <3>2
      <4> QED BY <2>1, <4>1 DEF PacketsIn
    <3> QED BY <3>1, <3>2
  <2>2. ASSUME NEW i \in DOMAIN r, r[i] # 0 PROVE r[i] \in PacketsIn(q)
    <3>1. i + 1 \in DOMAIN q /\ r[i] = q[i + 1]
      BY <1>1
    <3> QED BY <2>2, <3>1 DEF PacketsIn
  <2>3. Head(q) # 0 => Head(q) \in PacketsIn(q)
    BY <1>1 DEF PacketsIn
  <2> QED BY <2>1, <2>2, <2>3 DEF PacketsIn
<1>3. Head(q) \notin PacketsIn(r)
  <2> SUFFICES ASSUME NEW i \in DOMAIN r, r[i] = Head(q), r[i] # 0 PROVE FALSE
    BY DEF PacketsIn
  <2>1. 1 \in DOMAIN q /\ i + 1 \in DOMAIN q /\ q[i + 1] = q[1] /\ q[1] # 0 /\ i + 1 # 1
    BY <1>1
  <2> QED BY <2>1 DEF NoDup
<1>4. NoDup(r)
  <2> SUFFICES ASSUME NEW i \in DOMAIN r, NEW j \in DOMAIN r, r[i] = r[j], r[i] # 0
               PROVE  i = j
    BY DEF NoDup
  <2>1. /\ i + 1 \in DOMAIN q /\ j + 1 \in DOMAIN q
        /\ q[i + 1] = q[j + 1] /\ q[i + 1] # 0
    BY <1>1
  <2>2. i + 1 = j + 1
    BY <2>1 DEF NoDup
  <2> QED BY <1>1, <2>2
<1> QED BY <1>2, <1>3, <1>4 DEF r

-----------------------------------------------------------------------------
(* Whose an address is, however few event handles there are, whatever is    *)
(* left behind in the port, and wherever the next call builds its           *)
(* IocpParam.                                                               *)

Issued == 1..ncalls

Op(a) == param[a].nOperator

(* An IocpParam belongs to one call. *)
CallsInv ==
    /\ \A t \in Threads : pc[t] = "idle" <=> call[t] = 0
    /\ \A t \in Threads : call[t] # 0 => call[t] \in live
    /\ \A t, u \in Threads : call[t] # 0 /\ call[t] = call[u] => t = u

(* Addresses in use are addresses of calls that were made. *)
IssuedInv ==
    /\ live \subseteq Issued /\ signalled \subseteq Issued
    /\ handles \subseteq Issued /\ Unfinished \subseteq Issued
    /\ \A t \in Threads : frames[t] \subseteq Issued

(* A stack address is one thread's, and there is a frame there only while   *)
(* that thread is in PopFront or Size.  A push or clear that has not been   *)
(* posted is not in the port.                                               *)
FramesInv ==
    /\ \A t, u \in Threads : t # u => frames[t] \cap frames[u] = {}
    /\ \A t \in Threads : pc[t] = "post" => call[t] \notin OfSomeFrame \cup Unfinished
    /\ \A t \in Threads : pc[t] \notin {"idle", "post"} => call[t] \in frames[t]
    /\ \A t \in Threads : frames[t] \cap live \subseteq {call[t]}

(* On the heap are pushes and clears. *)
HeapInv == \A a \in live \ OfSomeFrame : Op(a) \in OnHeap

BaseInv == TypeOK /\ CallsInv /\ IssuedInv /\ FramesInv /\ HeapInv

LEMMA BaseInit == Init => BaseInv
<1> SUFFICES ASSUME Init PROVE BaseInv
  OBVIOUS
<1>1. TypeOK
  BY TypeInit
<1>2. Unfinished = {}
  BY DEF Init, Unfinished, InPort, PacketsIn
<1>3. CallsInv /\ FramesInv /\ HeapInv
  BY DEF Init, CallsInv, FramesInv, HeapInv, OfSomeFrame
<1>4. IssuedInv
  BY <1>2 DEF Init, IssuedInv
<1> QED BY <1>1, <1>3, <1>4 DEF BaseInv

(* The memory a call may build its IocpParam in is nobody's. *)
LEMMA NobodysMemory ==
  ASSUME BaseInv, NEW t \in Threads, NEW a, a = ncalls + 1 \/ a \in Reusable(t)
  PROVE  /\ a # 0 /\ a \notin live
         /\ \A u \in Threads : call[u] # a
         /\ \A u \in Threads : u # t => a \notin frames[u]
         /\ a = ncalls + 1 => a \notin Issued /\ a \notin OfSomeFrame /\ a \notin Unfinished
<1>1. ncalls \in Nat /\ \A u \in Threads : call[u] = 0 \/ call[u] \in live
  BY DEF BaseInv, TypeOK, CallsInv
<1>2. a # 0 /\ a \notin live
  BY <1>1 DEF BaseInv, IssuedInv, Issued, Reusable, Unfinished
<1>3. \A u \in Threads : u # t => a \notin frames[u]
  BY <1>1 DEF BaseInv, IssuedInv, Issued, Reusable, FramesInv
<1>4. a = ncalls + 1 => a \notin Issued /\ a \notin OfSomeFrame /\ a \notin Unfinished
  BY <1>1 DEF BaseInv, IssuedInv, Issued, OfSomeFrame
<1> QED BY <1>1, <1>2, <1>3, <1>4

LEMMA BaseCall ==
  ASSUME BaseInv, NEW t \in Threads, NEW op \in OnHeap \cup OnStack, NEW d \in Data,
         Call(t, op, d)
  PROVE  BaseInv'
<1> USE DEF BaseInv
<1>1. TypeOK' /\ Unfinished' = Unfinished
  BY TypeCall DEF Call, CallAt, Unfinished, InPort, PacketsIn, workerVars
<1>2. PICK a \in Addr : /\ CallAt(t, op, d, a)
                        /\ a = ncalls + 1 \/ (op \in OnStack /\ a \in Reusable(t))
  BY CallsAt
<1>3. /\ pc[t] = "idle" /\ call[t] = 0 /\ a # 0 /\ a \notin live
      /\ ncalls' = ncalls + 1 /\ ncalls \in Nat /\ Issued \subseteq Issued' /\ a \in Issued'
      /\ a = ncalls + 1 => a \notin OfSomeFrame /\ a \notin Unfinished
      /\ op \in OnHeap => a = ncalls + 1
      /\ \A u \in Threads : call[u] # a
      /\ \A u \in Threads : u # t => a \notin frames[u]
  <2>1. op \in OnHeap => op \notin OnStack
    BY DEF OnHeap, OnStack, EQPush, EQPop, EQSize, EQClear
  <2>2. a \in Issued'
    BY <1>2, CallsAt DEF CallAt, Issued, Reusable, IssuedInv
  <2> QED BY <1>2, <2>1, <2>2, CallsAt, NobodysMemory DEF CallAt, CallsInv, Issued
<1>4. CASE m_lock
  <2>1. /\ live' = live /\ pc' = pc /\ call' = call /\ frames' = frames
        /\ handles' = handles /\ signalled' = signalled /\ FrameLeft(a)
    BY <1>2, <1>4 DEF CallAt
  <2>2. HeapInv'
    <3>1. \A b \in live : param'[b] = param[b]
      BY <1>3, <2>1, LeftFrame DEF TypeOK
    <3> QED BY <2>1, <3>1 DEF HeapInv, OfSomeFrame, Op
  <2> QED BY <1>1, <1>3, <2>1, <2>2 DEF CallsInv, IssuedInv, FramesInv, OfSomeFrame
<1>5. CASE ~m_lock
  <2>1. /\ live' = live \cup {a} /\ signalled' = signalled \ {a}
        /\ handles' \subseteq handles \cup {a}
        /\ pc' = [pc EXCEPT ![t] = Entered(op)] /\ call' = [call EXCEPT ![t] = a]
        /\ frames' = [frames EXCEPT ![t] = IF op \in OnStack THEN @ \cup {a} ELSE @]
        /\ \E ev : param' = [param EXCEPT ![a] = [nOperator |-> op, Data |-> d, hEvent |-> ev]]
    BY <1>2, <1>5 DEF CallAt
  <2>2. /\ pc'[t] = Entered(op) /\ call'[t] = a
        /\ frames'[t] = IF op \in OnStack THEN frames[t] \cup {a} ELSE frames[t]
        /\ Op(a)' = op /\ \A b \in Addr : b # a => Op(b)' = Op(b)
        /\ \A u \in Threads : u # t => pc'[u] = pc[u] /\ call'[u] = call[u] /\ frames'[u] = frames[u]
    BY <2>1 DEF TypeOK, Op
  <2>3. /\ Entered(op) # "idle" /\ (Entered(op) = "post" <=> op \in OnHeap)
        /\ op \in OnHeap <=> op \notin OnStack
    BY DEF Entered, OnHeap, OnStack, EQPush, EQPop, EQSize, EQClear
  <2>4. CallsInv'
    BY <1>3, <2>1, <2>2, <2>3 DEF CallsInv
  <2>5. IssuedInv'
    BY <1>1, <1>3, <2>1, <2>2 DEF IssuedInv
  <2>6. OfSomeFrame' = IF op \in OnStack THEN OfSomeFrame \cup {a} ELSE OfSomeFrame
    <3>1. \A u \in Threads : frames'[u] = IF u = t /\ op \in OnStack THEN frames[u] \cup {a}
                                           ELSE frames[u]
      BY <2>2
    <3> QED BY <3>1 DEF OfSomeFrame
  <2>7. FramesInv'
    <3>1. \A u \in Threads : pc'[u] = "post" => call'[u] \notin OfSomeFrame' \cup Unfinished'
      <4>1. pc'[t] = "post" => call'[t] \notin OfSomeFrame' \cup Unfinished'
        BY <1>1, <1>3, <2>2, <2>3, <2>6
      <4>2. ASSUME NEW u \in Threads, u # t, pc'[u] = "post"
            PROVE  call'[u] \notin OfSomeFrame' \cup Unfinished'
        BY <1>1, <1>3, <2>2, <2>6, <4>2 DEF FramesInv
      <4> QED BY <4>1, <4>2
    <3>2. \A u \in Threads : pc'[u] \notin {"idle", "post"} => call'[u] \in frames'[u]
      BY <2>2, <2>3 DEF FramesInv
    <3>3. \A u, v \in Threads : u # v => frames'[u] \cap frames'[v] = {}
      BY <1>3, <2>2 DEF FramesInv
    <3>4. \A u \in Threads : frames'[u] \cap live' \subseteq {call'[u]}
      <4>1. frames[t] \cap live = {}
        BY <1>3 DEF FramesInv, TypeOK, Addr
      <4>2. a \in frames'[t] => op \in OnStack \/ a \in frames[t]
        BY <2>2
      <4> QED BY <1>3, <2>1, <2>2, <4>1 DEF FramesInv
    <3> QED BY <3>1, <3>2, <3>3, <3>4 DEF FramesInv
  <2>8. HeapInv'
    <3>1. live \subseteq Addr
      BY DEF TypeOK
    <3> QED BY <1>3, <2>1, <2>2, <2>3, <2>6, <3>1 DEF HeapInv
  <2> QED BY <1>1, <2>4, <2>5, <2>7, <2>8
<1> QED BY <1>4, <1>5

LEMMA BasePostOK ==
  ASSUME BaseInv, NEW t \in Threads, PostOK(t)
  PROVE  BaseInv'
<1> USE DEF BaseInv
<1>1. TypeOK'
  BY TypePost DEF Post
<1>2. call[t] # 0 /\ call[t] \in Addr /\ call[t] \in live /\ port \in Seq(Addr \cup {0})
  BY DEF PostOK, CallsInv, TypeOK, Posting
<1>3. Unfinished' = Unfinished \cup {call[t]}
  <2>1. InPort' = InPort \cup {call[t]}
    BY <1>2, PostedPackets DEF PostOK, InPort
  <2> QED BY <1>2, <2>1 DEF PostOK, Unfinished, workerVars
<1>4. /\ live' = live /\ signalled' = signalled /\ handles' = handles /\ ncalls' = ncalls
      /\ param' = param /\ frames' = frames
      /\ \A u \in Threads : u # t => pc'[u] = pc[u] /\ call'[u] = call[u]
      /\ \/ pc[t] = "post" /\ pc'[t] = "idle" /\ call'[t] = 0
         \/ pc[t] \notin {"idle", "post"} /\ pc'[t] \notin {"idle", "post"} /\ call'[t] = call[t]
  BY DEF PostOK, TypeOK, Posting
<1>5. CallsInv'
  BY <1>2, <1>4 DEF CallsInv
<1>6. IssuedInv'
  BY <1>2, <1>3, <1>4 DEF IssuedInv, Issued
<1>7. FramesInv'
  <2>1. OfSomeFrame' = OfSomeFrame
    BY <1>4 DEF OfSomeFrame
  <2>2. pc[t] = "post" => frames[t] \cap live = {}
    BY DEF FramesInv, OfSomeFrame
  <2>3. \A u \in Threads : u # t /\ pc[u] = "post" => call[u] # call[t]
    BY <1>2 DEF CallsInv
  <2> QED BY <1>3, <1>4, <2>1, <2>2, <2>3 DEF FramesInv
<1>8. HeapInv'
  BY <1>4 DEF HeapInv, OfSomeFrame, Op
<1> QED BY <1>1, <1>5, <1>6, <1>7, <1>8

LEMMA BaseReturn ==
  ASSUME BaseInv, NEW t \in Threads, PostFail(t) \/ Wake(t)
  PROVE  BaseInv'
<1> USE DEF BaseInv
<1>1. TypeOK'
  BY TypePost, TypeWake DEF Post
<1>2. /\ live' = live \ {call[t]} /\ signalled' = signalled /\ handles' \subseteq handles
      /\ ncalls' = ncalls /\ frames' = frames /\ port' = port /\ cur' = cur
      /\ FrameLeft(call[t]) /\ pc'[t] = "idle" /\ call'[t] = 0
      /\ \A u \in Threads : u # t => pc'[u] = pc[u] /\ call'[u] = call[u]
  BY DEF PostFail, Wake, WakeAnswered, WakeFailed, TypeOK, workerVars
<1>3. call[t] # 0
  BY DEF PostFail, Wake, WakeAnswered, WakeFailed, Waiting, Posting, CallsInv
<1>4. CallsInv'
  BY <1>2, <1>3 DEF CallsInv
<1>5. IssuedInv'
  BY <1>2 DEF IssuedInv, Issued, Unfinished, InPort, PacketsIn
<1>6. FramesInv'
  <2>1. OfSomeFrame' = OfSomeFrame /\ Unfinished' = Unfinished
    BY <1>2 DEF OfSomeFrame, Unfinished, InPort, PacketsIn
  <2> QED BY <1>2, <2>1 DEF FramesInv
<1>7. HeapInv'
  <2>1. \A b \in live' : param'[b] = param[b]
    BY <1>2, LeftFrame DEF TypeOK
  <2> QED BY <1>2, <2>1 DEF HeapInv, OfSomeFrame, Op
<1> QED BY <1>1, <1>4, <1>5, <1>6, <1>7

(* The steps of the worker and of the destructor leave the callers alone.   *)
(* They free only what the worker holds, and only if it is on the heap.     *)
LEMMA BaseQuiet ==
  ASSUME BaseInv, TypeOK', pc' = pc, call' = call, frames' = frames, ncalls' = ncalls,
         handles' = handles, Unfinished' \subseteq Unfinished,
         signalled' \subseteq signalled \cup Unfinished,
         live' = live \/ (live' = live \ {cur} /\ cur \notin OfSomeFrame
                          /\ \A t \in Threads : call[t] # cur),
         \A a \in live' \ OfSomeFrame : param'[a].nOperator = param[a].nOperator
  PROVE  BaseInv'
<1> USE DEF BaseInv
<1>1. CallsInv'
  BY DEF CallsInv
<1>2. IssuedInv'
  BY DEF IssuedInv, Issued
<1>3. FramesInv' /\ HeapInv'
  BY DEF FramesInv, HeapInv, OfSomeFrame, Op
<1> QED BY <1>1, <1>2, <1>3

LEMMA BaseDeal ==
  ASSUME BaseInv, DealParam
  PROVE  BaseInv'
<1> USE DEF BaseInv
<1>1. TypeOK' /\ cur \in Addr /\ cur \in Unfinished
  BY TypeDeal
  DEF DealParam, DealPush, DealPop, DealClear, DeleteFrame, DealSize, DealUnknown, TypeOK,
      Unfinished, Addr
<1>2. /\ pc' = pc /\ call' = call /\ frames' = frames /\ ncalls' = ncalls
      /\ handles' = handles /\ signalled' = signalled /\ port' = port /\ cur' \in {cur, 0}
  BY DEF DealParam, DealPush, DealPop, DealClear, DeleteFrame, DealSize, DealUnknown,
     AnswerWritten, callerVars
<1>3. Unfinished' \subseteq Unfinished
  BY <1>1, <1>2 DEF Unfinished, InPort, PacketsIn
<1>4. CASE DealPush \/ DealClear
  <2>1. cur \notin OfSomeFrame /\ live' = live \ {cur} /\ param' = param
    BY <1>4 DEF DealPush, DealClear
  <2>2. \A t \in Threads : call[t] # cur
    <3>1. ASSUME NEW t \in Threads, call[t] = cur PROVE FALSE
      <4>1. pc[t] # "idle" /\ cur # 0
        BY <1>1, <3>1 DEF CallsInv, Addr
      <4>2. pc[t] # "post"
        BY <1>1, <3>1 DEF FramesInv
      <4> QED BY <2>1, <3>1, <4>1, <4>2 DEF FramesInv, OfSomeFrame
    <3> QED BY <3>1
  <2> QED BY <1>1, <1>2, <1>3, <2>1, <2>2, BaseQuiet
<1>5. CASE DealPop \/ DealSize \/ DealUnknown \/ DeleteFrame
  <2>1. live' = live
    BY <1>5 DEF DealPop, DealSize, DealUnknown, DeleteFrame
  <2>2. \A a \in Addr : a # cur \/ ~DealSize => param'[a].nOperator = param[a].nOperator
    BY <1>5 DEF DealPop, DealSize, DealUnknown, DeleteFrame, TypeOK, IocpParam
  <2>3. DealSize => cur \notin live \ OfSomeFrame
    BY DEF DealSize, HeapInv, Op, OnHeap, EQSize, EQPush, EQClear
  <2>4. live \subseteq Addr
    BY DEF TypeOK
  <2> QED BY <1>1, <1>2, <1>3, <2>1, <2>2, <2>3, <2>4, BaseQuiet
<1> QED BY <1>4, <1>5 DEF DealParam

(* A packet the worker takes becomes the one it deals with. *)
LEMMA GetKeeps ==
  ASSUME TypeOK, Get
  PROVE  Unfinished' = Unfinished
<1>1. /\ port \in Seq(Addr \cup {0}) /\ port # <<>> /\ port' = Tail(port) /\ cur = 0
      /\ cur' = Head(port)
  BY DEF Get, TypeOK
<1>2. /\ DOMAIN port = 1..Len(port) /\ Len(port) \in Nat /\ Len(port) >= 1
      /\ DOMAIN port' = 1..(Len(port) - 1)
      /\ \A i \in 1..(Len(port) - 1) : port'[i] = port[i + 1]
      /\ Head(port) = port[1]
  BY <1>1
<1>3. \A i \in DOMAIN port : port[i] = cur' \/ port[i] \in {port'[k] : k \in DOMAIN port'}
  <2> SUFFICES ASSUME NEW i \in DOMAIN port, i # 1
               PROVE  port[i] \in {port'[k] : k \in DOMAIN port'}
    BY <1>1, <1>2
  <2>1. i - 1 \in DOMAIN port' /\ port'[i - 1] = port[i]
    BY <1>2
  <2> QED BY <2>1
<1>4. \A i \in DOMAIN port' : i + 1 \in DOMAIN port /\ port'[i] = port[i + 1]
  BY <1>2
<1>5. 1 \in DOMAIN port /\ port[1] = cur'
  BY <1>1, <1>2
<1> QED BY <1>1, <1>3, <1>4, <1>5 DEF Unfinished, InPort, PacketsIn

(* Closing the port, the destructor's steps and stuttering. *)
LEMMA OtherSteps ==
  ASSUME TypeOK, GetNothing \/ Close \/ Destructor \/ UNCHANGED vars
  PROVE  /\ port' = port \/ port' = Append(port, 0) \/ port' = <<>>
         /\ cur' = cur /\ Unfinished' \subseteq Unfinished
         /\ wpc \in {"deal", "signal"} \/ wpc' \in {"deal", "signal"} => wpc' = wpc
         /\ param' = param /\ live' = live /\ signalled' = signalled /\ frames' = frames
         /\ handles' = handles /\ ncalls' = ncalls /\ pc' = pc /\ call' = call
<1>1. /\ port' = port \/ port' = Append(port, 0) \/ port' = <<>>
      /\ cur' = cur
      /\ wpc \in {"deal", "signal"} \/ wpc' \in {"deal", "signal"} => wpc' = wpc
      /\ param' = param /\ live' = live /\ signalled' = signalled /\ frames' = frames
      /\ handles' = handles /\ ncalls' = ncalls /\ pc' = pc /\ call' = call
  <2>1. CASE GetNothing \/ Close
    BY <2>1 DEF GetNothing, Close, callerVars
  <2>2. CASE Destructor
    BY <2>2 DEF Destructor, DtorLock, DtorPost, DtorJoin, callerVars, workerVars
  <2>3. CASE UNCHANGED vars
    BY <2>3 DEF vars, callerVars, workerVars
  <2> QED BY <2>1, <2>2, <2>3
<1>2. InPort' \subseteq InPort
  <2>1. port \in Seq(Addr \cup {0})
    BY DEF TypeOK
  <2>2. CASE port' = Append(port, 0)
    BY <2>1, <2>2, PostedPackets DEF InPort
  <2>3. CASE port' # Append(port, 0)
    BY <1>1, <2>3 DEF InPort, PacketsIn
  <2> QED BY <2>2, <2>3
<1> QED BY <1>1, <1>2 DEF Unfinished

LEMMA BaseStep == BaseInv /\ [Next]_vars => BaseInv'
<1> SUFFICES ASSUME BaseInv, [Next]_vars PROVE BaseInv'
  OBVIOUS
<1>1. TypeOK /\ TypeOK'
  BY TypeStep DEF BaseInv
<1>2. ASSUME NEW t \in Threads,
             (\E d \in Data : PushBack(t, d)) \/ PopFront(t) \/ Size(t) \/ Clear(t)
      PROVE  BaseInv'
  BY <1>1, <1>2, CallSteps, BaseCall
<1>3. ASSUME NEW t \in Threads, Post(t) \/ Wake(t) PROVE BaseInv'
  BY <1>3, BasePostOK, BaseReturn DEF Post
<1>4. CASE Get
  <2>1. /\ pc' = pc /\ call' = call /\ frames' = frames /\ ncalls' = ncalls /\ live' = live
        /\ handles' = handles /\ signalled' = signalled /\ param' = param
    BY <1>4 DEF Get, callerVars
  <2> QED BY <1>1, <1>4, <2>1, GetKeeps, BaseQuiet
<1>5. CASE DealParam
  BY <1>5, BaseDeal
<1>6. CASE Signal
  <2>1. /\ pc' = pc /\ call' = call /\ frames' = frames /\ ncalls' = ncalls /\ live' = live
        /\ handles' = handles /\ param' = param /\ port' = port /\ cur' = 0
        /\ signalled' \subseteq signalled \cup {cur} /\ cur # 0
    BY <1>1, <1>6 DEF Signal, callerVars, TypeOK, Addr
  <2>2. cur \in Unfinished /\ Unfinished' \subseteq Unfinished
    BY <2>1 DEF Unfinished, InPort, PacketsIn
  <2> QED BY <1>1, <2>1, <2>2, BaseQuiet
<1>7. CASE GetNothing \/ Close \/ Destructor \/ UNCHANGED vars
  BY <1>1, <1>7, OtherSteps, BaseQuiet
<1> QED BY <1>2, <1>3, <1>4, <1>5, <1>6, <1>7 DEF Next, Worker

-----------------------------------------------------------------------------
(* With a destructor that starts when nobody is in a call: what is not      *)
(* forgotten, however few event handles there are.                          *)

DtorInv ==
    /\ m_lock => \A t \in Threads : pc[t] = "idle"
    /\ loop = 2 => dtor \in {"join", "gone"}
    /\ (\E i \in DOMAIN port : port[i] = 0) => dtor \in {"join", "gone"}
    /\ wpc \in {"close", "ended"} => loop = 2 /\ port = <<>>
    /\ dtor = "gone" => wpc = "ended"

(* Events are in frames. *)
SignalsFrame == wpc = "signal" /\ cur \in live => cur \in OfSomeFrame

(* The IocpParam of a PopFront or Size that has an event asks for an answer *)
(* until it has one, even if a packet left behind by an earlier call was    *)
(* dealt with in its place.                                                 *)
AnswerDue ==
    \A t \in Threads : pc[t] \notin {"idle", "post"} /\ param[call[t]].hEvent = "event" =>
        \/ call[t] \in signalled
        \/ wpc = "signal" /\ cur = call[t]
        \/ Op(call[t]) \in OnStack

QuietInv ==
    /\ BaseInv /\ DtorInv /\ SignalsFrame /\ NoParamLeak
    /\ AnswerDue /\ NoStrandedCaller

LEMMA DtorInit == Init => DtorInv
BY DEF Init, DtorInv, m_lock

HasZero(q) == \E i \in DOMAIN q : q[i] = 0

LEMMA ZeroPosted ==
  ASSUME NEW q \in Seq(Addr \cup {0}), NEW a \in Addr, a # 0, HasZero(Append(q, a))
  PROVE  HasZero(q)
<1>1. PICK i \in DOMAIN Append(q, a) : Append(q, a)[i] = 0
  BY DEF HasZero
<1>2. i \in 1..(Len(q) + 1) /\ i # Len(q) + 1 /\ DOMAIN q = 1..Len(q) /\ Len(q) \in Nat
  BY <1>1
<1>3. i \in DOMAIN q /\ q[i] = 0
  BY <1>1, <1>2
<1> QED BY <1>3 DEF HasZero

LEMMA ZeroTaken ==
  ASSUME NEW q \in Seq(Addr \cup {0}), q # <<>>, Head(q) = 0 \/ HasZero(Tail(q))
  PROVE  HasZero(q)
<1>1. CASE Head(q) = 0
  <2>1. 1 \in DOMAIN q /\ q[1] = 0
    BY <1>1
  <2> QED BY <2>1 DEF HasZero
<1>2. CASE HasZero(Tail(q))
  <2>1. PICK i \in DOMAIN Tail(q) : Tail(q)[i] = 0
    BY <1>2 DEF HasZero
  <2>2. i + 1 \in DOMAIN q /\ q[i + 1] = 0
    BY <2>1
  <2> QED BY <2>2 DEF HasZero
<1> QED BY <1>1, <1>2

LEMMA DtorStep ==
  ASSUME RacingDtor = FALSE, BaseInv, DtorInv, [Next]_vars
  PROVE  DtorInv'
<1> USE DEF DtorInv
<1>1. TypeOK /\ 0 \notin Addr
  BY DEF BaseInv, Addr
<1>2. ASSUME NEW t \in Threads, NEW op \in OnHeap \cup OnStack, NEW d \in Data,
             Call(t, op, d)
      PROVE  DtorInv'
  <2>1. \E a : CallAt(t, op, d, a)
    BY <1>2 DEF Call
  <2>2. m_lock => pc' = pc
    BY <2>1 DEF CallAt
  <2> QED BY <2>1, <2>2 DEF CallAt, m_lock, workerVars
<1>3. ASSUME NEW t \in Threads, PostOK(t) PROVE DtorInv'
  <2>1. ~m_lock /\ call[t] \in Addr
    BY <1>3 DEF PostOK, BaseInv, CallsInv, TypeOK, Posting
  <2>2. HasZero(port)' => HasZero(port)
    BY <1>1, <1>3, <2>1, ZeroPosted DEF PostOK, TypeOK, HasZero
  <2> QED BY <1>3, <2>1, <2>2 DEF PostOK, m_lock, workerVars, HasZero
<1>4. ASSUME NEW t \in Threads, PostFail(t) \/ Wake(t) PROVE DtorInv'
  <2>1. ~m_lock
    BY <1>4 DEF PostFail, Wake, WakeAnswered, WakeFailed, Waiting, Posting
  <2> QED BY <1>4, <2>1 DEF PostFail, Wake, WakeAnswered, WakeFailed, m_lock, workerVars
<1>5. CASE Get
  <2>1. port \in Seq(Addr \cup {0}) /\ port # <<>> /\ port' = Tail(port) /\ wpc = "get"
    BY <1>1, <1>5 DEF Get, TypeOK
  <2>2. Head(port) = 0 \/ HasZero(port)' => HasZero(port)
    BY <2>1, ZeroTaken DEF HasZero
  <2>3. wpc' \in {"get", "deal"} /\ (loop' = loop \/ Head(port) = 0) /\ dtor' = dtor /\ pc' = pc
    BY <1>5 DEF Get, callerVars
  <2> QED BY <2>1, <2>2, <2>3 DEF m_lock, HasZero
<1>6. CASE GetNothing
  BY <1>6 DEF GetNothing, callerVars, m_lock
<1>7. CASE DealParam \/ Signal
  <2>1. /\ wpc' \in {"get", "signal", "crashed"} /\ wpc \in {"deal", "signal"}
        /\ loop' = loop /\ port' = port /\ dtor' = dtor /\ pc' = pc
    BY <1>7 DEF DealParam, DealPush, DealPop, DealClear, DeleteFrame, DealSize, DealUnknown,
       AnswerWritten, Signal, callerVars
  <2> QED BY <2>1 DEF m_lock
<1>8. CASE Close
  BY <1>8 DEF Close, callerVars, m_lock
<1>9. CASE Destructor
  <2>1. CASE DtorLock
    BY <2>1 DEF DtorLock, callerVars, workerVars, m_lock
  <2>2. CASE DtorPost
    BY <2>2 DEF DtorPost, callerVars, workerVars, m_lock
  <2>3. CASE DtorJoin
    BY <2>3 DEF DtorJoin, callerVars, workerVars, m_lock
  <2> QED BY <1>9, <2>1, <2>2, <2>3 DEF Destructor
<1>10. CASE UNCHANGED vars
  BY <1>10 DEF vars, callerVars, workerVars, m_lock
<1> QED
  BY <1>1, <1>2, <1>3, <1>4, <1>5, <1>6, <1>7, <1>8, <1>9, <1>10, CallSteps
  DEF Next, Post, Worker

(* What is in the port when it is closed is nothing. *)
LEMMA DtorKeepsPort ==
  ASSUME TypeOK, DtorInv, GetNothing \/ Close \/ Destructor \/ UNCHANGED vars
  PROVE  InPort \subseteq InPort'
<1>1. CASE GetNothing \/ Close \/ DtorLock \/ DtorJoin \/ UNCHANGED vars
  <2>1. port' = port \/ port = <<>>
    BY <1>1 DEF GetNothing, Close, DtorLock, DtorJoin, DtorInv, vars
  <2> QED BY <2>1 DEF InPort, PacketsIn
<1>2. CASE DtorPost
  <2>1. port \in Seq(Addr \cup {0}) /\ (port' = port \/ port' = Append(port, 0))
    BY <1>2 DEF DtorPost, TypeOK
  <2> QED BY <2>1, PostedPackets DEF InPort
<1> QED BY <1>1, <1>2 DEF Destructor

LEMMA LeakStep ==
  ASSUME BaseInv, DtorInv, SignalsFrame, NoParamLeak, [Next]_vars
  PROVE  SignalsFrame' /\ NoParamLeak'
<1> USE DEF SignalsFrame, NoParamLeak
<1>1. TypeOK /\ 0 \notin live
  BY DEF BaseInv, TypeOK, Addr
<1>2. ASSUME NEW t \in Threads, NEW op \in OnHeap \cup OnStack, NEW d \in Data,
             Call(t, op, d)
      PROVE  SignalsFrame' /\ NoParamLeak'
  <2>1. PICK a \in Addr : /\ CallAt(t, op, d, a)
                          /\ a = ncalls + 1 \/ (op \in OnStack /\ a \in Reusable(t))
    BY <1>1, <1>2, CallsAt
  <2>2. InPort' = InPort /\ cur' = cur /\ wpc' = wpc
    BY <2>1 DEF CallAt, InPort, PacketsIn, workerVars
  <2>3. CASE m_lock
    BY <2>1, <2>2, <2>3 DEF CallAt, OfSomeFrame
  <2>4. CASE ~m_lock
    <3>1. /\ live' = live \cup {a} /\ call' = [call EXCEPT ![t] = a] /\ pc[t] = "idle"
          /\ frames' = [frames EXCEPT ![t] = IF op \in OnStack THEN @ \cup {a} ELSE @]
      BY <1>2, <2>1, <2>4 DEF CallAt, Call
    <3>2. call[t] = 0
      BY <1>1, <3>1 DEF BaseInv, CallsInv
    <3>3. call'[t] = a /\ \A u \in Threads : call[u] # 0 => call'[u] = call[u]
      BY <1>1, <3>1, <3>2 DEF TypeOK
    <3>4. SignalsFrame'
      <4>1. OfSomeFrame \subseteq OfSomeFrame'
        BY <1>1, <3>1 DEF OfSomeFrame, TypeOK
      <4>2. wpc = "signal" => cur \in Unfinished
        BY <1>1 DEF TypeOK, Unfinished, Addr
      <4>3. a = ncalls + 1 => a \notin Unfinished
        BY NobodysMemory
      <4>4. a \in Reusable(t) => a \in OfSomeFrame
        BY DEF Reusable, OfSomeFrame
      <4> QED BY <2>1, <2>2, <3>1, <4>1, <4>2, <4>3, <4>4
    <3> QED BY <1>1, <2>2, <3>1, <3>3, <3>4
  <2> QED BY <2>3, <2>4
<1>3. ASSUME NEW t \in Threads, PostOK(t) PROVE SignalsFrame' /\ NoParamLeak'
  <2>1. port \in Seq(Addr \cup {0}) /\ call[t] \in Addr /\ call[t] # 0
    BY <1>1, <1>3 DEF PostOK, BaseInv, CallsInv, TypeOK, Posting
  <2>2. InPort' = InPort \cup {call[t]}
    BY <1>3, <2>1, PostedPackets DEF PostOK, InPort
  <2>3. /\ live' = live /\ cur' = cur /\ wpc' = wpc /\ frames' = frames
        /\ \A u \in Threads : u # t => call'[u] = call[u]
    BY <1>1, <1>3 DEF PostOK, TypeOK, workerVars
  <2> QED BY <1>1, <2>1, <2>2, <2>3 DEF OfSomeFrame
<1>4. ASSUME NEW t \in Threads, PostFail(t) \/ Wake(t) PROVE SignalsFrame' /\ NoParamLeak'
  <2>1. /\ live' = live \ {call[t]} /\ call' = [call EXCEPT ![t] = 0]
        /\ cur' = cur /\ port' = port /\ wpc' = wpc /\ frames' = frames
    BY <1>4 DEF PostFail, Wake, WakeAnswered, WakeFailed, workerVars
  <2>2. InPort' = InPort /\ \A u \in Threads : u # t => call'[u] = call[u]
    BY <1>1, <2>1 DEF InPort, PacketsIn, TypeOK
  <2> QED BY <2>1, <2>2 DEF OfSomeFrame
<1>5. CASE Get
  <2>1. /\ live' = live /\ call' = call /\ wpc' # "signal" /\ Unfinished' = Unfinished
    BY <1>1, <1>5, GetKeeps DEF Get, TypeOK, callerVars
  <2> QED BY <1>1, <2>1 DEF Unfinished
<1>6. CASE DealParam
  <2>1. InPort' = InPort /\ call' = call /\ frames' = frames /\ cur \in Addr
    BY <1>1, <1>6 DEF DealParam, DealPush, DealPop, DealClear, DeleteFrame, DealSize, DealUnknown,
       InPort, PacketsIn, callerVars, TypeOK
  <2>2. cur \in live /\ Op(cur) \notin OnHeap => cur \in OfSomeFrame
    BY DEF BaseInv, HeapInv
  <2>3. cur \in live /\ cur \in OfSomeFrame => cur \in {call[t] : t \in Threads}
    BY DEF BaseInv, FramesInv, OfSomeFrame
  <2>4. CASE DealPush \/ DealClear
    BY <2>1, <2>4 DEF DealPush, DealClear
  <2>5. CASE DeleteFrame
    BY <2>1, <2>5 DEF DeleteFrame
  <2>6. CASE DealPop \/ DealSize \/ DealUnknown
    <3>1. Op(cur) \notin OnHeap
      BY <2>6 DEF DealPop, DealSize, DealUnknown, Op, OnHeap, EQPush, EQPop, EQSize, EQClear
    <3>2. /\ live' = live /\ cur' \in {cur, 0} /\ (wpc' = "signal" => cur' = cur)
      BY <2>6 DEF DealPop, DealSize, DealUnknown, AnswerWritten
    <3> QED BY <1>1, <2>1, <2>2, <2>3, <3>1, <3>2 DEF OfSomeFrame
  <2> QED BY <1>6, <2>4, <2>5, <2>6 DEF DealParam
<1>7. CASE Signal
  <2>1. live' = live /\ call' = call /\ port' = port /\ wpc = "signal" /\ wpc' = "get"
    BY <1>7 DEF Signal, callerVars
  <2>2. cur \in live => cur \in {call[t] : t \in Threads}
    BY <2>1 DEF BaseInv, FramesInv, OfSomeFrame
  <2> QED BY <1>1, <2>1, <2>2 DEF InPort, PacketsIn
<1>8. CASE GetNothing \/ Close \/ Destructor \/ UNCHANGED vars
  <2>1. InPort \subseteq InPort'
    BY <1>1, <1>8, DtorKeepsPort
  <2> QED BY <1>1, <1>8, <2>1, OtherSteps DEF OfSomeFrame
<1> QED
  BY <1>1, <1>2, <1>3, <1>4, <1>5, <1>6, <1>7, <1>8, CallSteps
  DEF Next, Post, Worker

(* Nobody who has an event is forgotten. *)
LEMMA StrandedStep ==
  ASSUME BaseInv, BaseInv', DtorInv, AnswerDue, NoStrandedCaller, [Next]_vars
  PROVE  AnswerDue' /\ NoStrandedCaller'
<1> DEFINE Asks(u)  == pc[u] \notin {"idle", "post"} /\ param[call[u]].hEvent = "event"
           Owed(u)  == \/ call[u] \in signalled
                       \/ wpc = "signal" /\ cur = call[u]
                       \/ Op(call[u]) \in OnStack
           Cared(u) == call[u] \in Unfinished \cup signalled
<1>1. TypeOK /\ TypeOK'
  BY DEF BaseInv
<1>2. \A u \in Threads : pc[u] # "idle" => call[u] \in Addr /\ call[u] # 0
  BY DEF BaseInv, TypeOK, CallsInv
<1>3. \A u \in Threads : /\ Asks(u) => Owed(u)
                         /\ Asks(u) /\ Waiting(u) => Cared(u)
  BY <1>2 DEF AnswerDue, NoStrandedCaller, Waiting, Unfinished
<1>4. SUFFICES ASSUME NEW u \in Threads, Asks(u)'
               PROVE  Owed(u)' /\ (Waiting(u)' => Cared(u)')
  <2>1. \A v \in Threads : pc'[v] # "idle" => call'[v] # 0
    BY DEF BaseInv, CallsInv
  <2> QED BY <2>1 DEF AnswerDue, NoStrandedCaller, Waiting, Unfinished
<1> HIDE DEF Asks, Owed, Cared
<1>5. ASSUME Waiting(u)' => Waiting(u), pc'[u] = pc[u], call'[u] = call[u],
             param'[call[u]] = param[call[u]],
             call[u] \in signalled => call[u] \in signalled',
             wpc = "signal" => call[u] # cur \/ call[u] \in signalled' \/ (wpc' = "signal" /\ cur' = cur),
             call[u] \in Unfinished => call[u] \in Unfinished' \cup signalled'
      PROVE  Owed(u)' /\ (Waiting(u)' => Cared(u)')
  BY <1>3, <1>4, <1>5 DEF Asks, Owed, Cared, Op
<1>6. ASSUME NEW t \in Threads, NEW op \in OnHeap \cup OnStack, NEW d \in Data,
             Call(t, op, d)
      PROVE  Owed(u)' /\ (Waiting(u)' => Cared(u)')
  <2>1. PICK a \in Addr : /\ CallAt(t, op, d, a)
                          /\ a = ncalls + 1 \/ (op \in OnStack /\ a \in Reusable(t))
    BY <1>1, <1>6, CallsAt
  <2>2. /\ Unfinished' = Unfinished /\ cur' = cur /\ wpc' = wpc
        /\ signalled \ {a} \subseteq signalled' /\ pc[t] = "idle"
    BY <1>6, <2>1 DEF Call, CallAt, Unfinished, InPort, PacketsIn, workerVars
  <2>3. \A v \in Threads : call[v] # a
    BY <2>1, NobodysMemory
  <2>4. \A b \in Addr : b # a => param'[b] = param[b]
    BY <1>1, <2>1, LeftFrame DEF CallAt, TypeOK
  <2>5. CASE u # t
    <3>1. pc'[u] = pc[u] /\ call'[u] = call[u] /\ pc'[u] # "idle"
      BY <1>1, <1>4, <2>1, <2>5 DEF CallAt, TypeOK, Asks
    <3>2. call[u] \in Addr /\ call[u] # a
      BY <1>2, <2>3, <3>1
    <3> QED BY <1>5, <2>2, <2>4, <3>1, <3>2 DEF Waiting
  <2>6. CASE u = t
    <3>1. CASE m_lock
      BY <1>4, <2>1, <2>2, <2>6, <3>1 DEF CallAt, Asks
    <3>2. CASE ~m_lock
      <4>1. /\ pc'[t] = Entered(op) /\ call'[t] = a /\ param'[a].nOperator = op
        BY <1>1, <2>1, <3>2 DEF CallAt, TypeOK
      <4>2. Entered(op) # "post" => op \in OnStack
        BY DEF Entered, OnStack
      <4> QED BY <1>4, <2>6, <4>1, <4>2 DEF Asks, Owed, Op, Waiting, Entered
    <3> QED BY <3>1, <3>2
  <2> QED BY <2>5, <2>6
<1>7. ASSUME NEW t \in Threads, PostOK(t) PROVE Owed(u)' /\ (Waiting(u)' => Cared(u)')
  <2>1. port \in Seq(Addr \cup {0}) /\ call[t] \in Addr /\ call[t] # 0
    BY <1>1, <1>2, <1>7 DEF PostOK, TypeOK, Posting
  <2>2. /\ Unfinished' = Unfinished \cup {call[t]} /\ signalled' = signalled
        /\ param' = param /\ cur' = cur /\ wpc' = wpc
    <3>1. InPort' = InPort \cup {call[t]}
      BY <1>7, <2>1, PostedPackets DEF PostOK, InPort
    <3> QED BY <1>7, <2>1, <3>1 DEF PostOK, Unfinished, workerVars
  <2>3. CASE u # t
    <3>1. pc'[u] = pc[u] /\ call'[u] = call[u]
      BY <1>1, <1>7, <2>3 DEF PostOK, TypeOK
    <3> QED BY <1>5, <2>2, <3>1 DEF Waiting
  <2>4. CASE u = t
    <3>1. pc[t] \notin {"idle", "post"} /\ call'[t] = call[t]
      BY <1>1, <1>4, <1>7, <2>4 DEF PostOK, TypeOK, Posting, Asks
    <3> QED BY <1>3, <1>4, <2>2, <2>4, <3>1 DEF Asks, Owed, Cared, Op
  <2> QED BY <2>3, <2>4
<1>8. ASSUME NEW t \in Threads, PostFail(t) \/ Wake(t)
      PROVE  Owed(u)' /\ (Waiting(u)' => Cared(u)')
  <2>1. /\ signalled' = signalled /\ Unfinished' = Unfinished /\ cur' = cur /\ wpc' = wpc
        /\ FrameLeft(call[t]) /\ pc' = [pc EXCEPT ![t] = "idle"] /\ call' = [call EXCEPT ![t] = 0]
    BY <1>8 DEF PostFail, Wake, WakeAnswered, WakeFailed, Unfinished, InPort, PacketsIn,
       workerVars
  <2>2. u # t /\ pc'[u] = pc[u] /\ call'[u] = call[u] /\ pc[u] # "idle"
    BY <1>1, <1>4, <2>1 DEF TypeOK, Asks
  <2>3. call[u] \in Addr /\ call[u] # call[t]
    BY <1>2, <2>2 DEF BaseInv, CallsInv
  <2>4. param'[call[u]] = param[call[u]]
    BY <1>1, <2>1, <2>3, LeftFrame DEF TypeOK
  <2> QED BY <1>5, <2>1, <2>2, <2>4 DEF Waiting
<1>9. CASE Get
  BY <1>1, <1>5, <1>9, GetKeeps DEF Get, Waiting, callerVars
<1>10. CASE DealParam
  <2>1. /\ pc' = pc /\ call' = call /\ signalled' = signalled /\ InPort' = InPort
        /\ wpc = "deal" /\ cur \in Addr /\ cur # 0
    BY <1>1, <1>10
    DEF DealParam, DealPush, DealPop, DealClear, DeleteFrame, DealSize, DealUnknown,
        InPort, PacketsIn, callerVars, TypeOK, Addr
  <2>2. /\ \A b \in Addr : b # cur => param'[b] = param[b]
        /\ param'[cur].hEvent = param[cur].hEvent
    BY <1>1, <1>10, <2>1
    DEF DealParam, DealPush, DealPop, DealClear, DeleteFrame, DealSize, DealUnknown, TypeOK,
        IocpParam
  <2>3. pc[u] \notin {"idle", "post"} /\ call[u] \in Addr
    BY <1>2, <1>4, <2>1 DEF Asks
  <2>4. CASE call[u] # cur
    BY <1>5, <2>1, <2>2, <2>3, <2>4 DEF Unfinished, Waiting
  <2>5. CASE call[u] = cur
    <3>1. cur \in OfSomeFrame /\ param[cur].hEvent = "event" /\ Asks(u)
      BY <1>4, <2>1, <2>2, <2>3, <2>5 DEF Asks, BaseInv, FramesInv, OfSomeFrame
    <3>2. CASE DeleteFrame
      BY <1>5, <2>1, <3>2 DEF DeleteFrame, Waiting, Unfinished
    <3>3. CASE DealUnknown
      <4>1. Op(cur) \notin OnStack /\ wpc # "signal"
        BY <2>1, <3>3 DEF DealUnknown, Op
      <4>2. cur \in signalled
        BY <1>3, <2>5, <3>1, <4>1 DEF Owed
      <4> QED BY <2>1, <2>5, <4>2 DEF Owed, Cared
    <3>4. CASE DealPop \/ DealSize
      <4>1. wpc' = "signal" /\ cur' = cur
        BY <3>1, <3>4 DEF DealPop, DealSize, AnswerWritten
      <4> QED BY <2>1, <2>5, <4>1 DEF Owed, Cared, Unfinished
    <3> QED BY <1>10, <3>1, <3>2, <3>3, <3>4 DEF DealParam, DealPush, DealClear
  <2> QED BY <2>4, <2>5
<1>11. CASE Signal
  <2>1. /\ pc' = pc /\ call' = call /\ param' = param /\ InPort' = InPort /\ cur # 0
        /\ signalled' = IF param[cur].hEvent = "event" THEN signalled \cup {cur} ELSE signalled
    BY <1>1, <1>11 DEF Signal, InPort, PacketsIn, callerVars, TypeOK, Addr
  <2>2. call[u] = cur => cur \in signalled'
    BY <1>4, <2>1 DEF Asks
  <2> QED BY <1>5, <2>1, <2>2 DEF Waiting, Unfinished
<1>12. CASE GetNothing \/ Close \/ Destructor \/ UNCHANGED vars
  <2>1. InPort \subseteq InPort'
    BY <1>1, <1>12, DtorKeepsPort
  <2> QED BY <1>1, <1>5, <1>12, <2>1, OtherSteps DEF Unfinished, Waiting
<1> QED
  BY <1>1, <1>6, <1>7, <1>8, <1>9, <1>10, <1>11, <1>12, CallSteps
  DEF Next, Post, Worker

LEMMA QuietInit == Init => QuietInv
BY BaseInit, DtorInit
DEF Init, QuietInv, SignalsFrame, NoParamLeak, AnswerDue, NoStrandedCaller, Waiting

LEMMA QuietStep ==
  ASSUME RacingDtor = FALSE
  PROVE  QuietInv /\ [Next]_vars => QuietInv'
BY BaseStep, DtorStep, LeakStep, StrandedStep DEF QuietInv

(* When the destructor waits for the calls in progress, a thread blocked in *)
(* PopFront or Size on an event always has somebody who will set it: its    *)
(* packet is in the port or in the worker's hands, or the event is set.     *)
(* Threads that got no event may have left packets behind whose frames are  *)
(* gone, and may have built the frame of a later call in the same place.    *)
THEOREM NoStrandedCallerHolds ==
  ASSUME RacingDtor = FALSE
  PROVE  Spec => []NoStrandedCaller
<1>1. QuietInv => NoStrandedCaller
  BY DEF QuietInv
<1> QED BY <1>1, QuietInit, QuietStep, PTL DEF Spec

(* Under the same condition no IocpParam is leaked, and when the            *)
(* destructor has returned none is left.                                    *)
THEOREM NoParamLeakHolds ==
  ASSUME RacingDtor = FALSE
  PROVE  Spec => [](NoParamLeak /\ NothingLeftBehind)
<1>1. QuietInv => NoParamLeak /\ NothingLeftBehind
  <2> SUFFICES ASSUME QuietInv, dtor = "gone" PROVE live = {} /\ port = <<>>
    BY DEF QuietInv, NothingLeftBehind
  <2>1. port = <<>> /\ wpc = "ended" /\ \A t \in Threads : pc[t] = "idle"
    BY DEF QuietInv, DtorInv, m_lock
  <2>2. cur = 0 /\ (\A t \in Threads : call[t] = 0) /\ InPort = {} /\ 0 \notin live
    BY <2>1 DEF QuietInv, BaseInv, TypeOK, CallsInv, InPort, PacketsIn, Addr
  <2> QED BY <2>1, <2>2 DEF QuietInv, NoParamLeak
<1> QED BY <1>1, QuietInit, QuietStep, PTL DEF Spec

(* Under this condition nothing is forgotten: neither memory nor a caller   *)
(* that waits.                                                              *)
THEOREM NoParamForgottenHolds ==
  ASSUME RacingDtor = FALSE
  PROVE  Spec => []NoParamForgotten
<1>1. NoParamLeak /\ NoStrandedCaller => NoParamForgotten
  BY DEF NoParamForgotten
<1> QED BY <1>1, NoParamLeakHolds, NoStrandedCallerHolds, PTL

-----------------------------------------------------------------------------
(* With an event handle for every call no frame is left behind in the port: *)
(* who holds each IocpParam at each step.                                   *)

(* A call that has not posted yet. *)
PostInv ==
    \A t \in Threads : pc[t] \in Posting =>
        /\ call[t] \notin Unfinished \cup signalled
        /\ Op(call[t]) \in OnHeap \cup OnStack
        /\ pc[t] = Entered(Op(call[t]))

(* A packet that is to be dealt with: nobody waits for a push or a clear,   *)
(* somebody waits for a pop and a size.                                     *)
DueInv ==
    \A a \in Unfinished \cap live : a # cur \/ wpc = "deal" =>
        /\ Op(a) \in OnHeap \cup OnStack
        /\ Op(a) \in OnHeap => \A t \in Threads : call[t] # a
        /\ Op(a) \in OnStack => \E t \in Threads : Waiting(t) /\ call[t] = a

(* A packet whose event the worker is about to set. *)
SignalInv ==
    wpc = "signal" =>
        /\ param[cur].hEvent = "event"
        /\ \E t \in Threads : Waiting(t) /\ call[t] = cur

OwnerInv == BaseInv /\ PostInv /\ DueInv /\ SignalInv /\ DealtOnce

(* With handles for all, a call that waits has an event, and so does one    *)
(* that is going to wait.                                                   *)
EventInv ==
    \A t \in Threads : pc[t] \notin {"idle", "post"} => param[call[t]].hEvent = "event"

FrameInv == EventInv /\ NoDanglingParam

-----------------------------------------------------------------------------
(* Each step preserves OwnerInv. *)

LEMMA OwnerInit == Init => OwnerInv
<1> SUFFICES ASSUME Init PROVE OwnerInv
  OBVIOUS
<1>1. Unfinished = {} /\ InPort = {} /\ NoDup(port)
  BY DEF Init, Unfinished, InPort, PacketsIn, NoDup
<1>2. PostInv /\ DueInv /\ SignalInv
  BY <1>1 DEF Init, PostInv, DueInv, SignalInv, Posting
<1>3. DealtOnce
  BY <1>1 DEF Init, DealtOnce
<1> QED BY <1>2, <1>3, BaseInit DEF OwnerInv

LEMMA FrameInit == Init => FrameInv
BY DEF Init, FrameInv, EventInv, Waiting, NoDanglingParam, Unfinished, InPort, PacketsIn

(* No frame is left behind, so a call builds its IocpParam where none is.   *)
LEMMA FreshCall ==
  ASSUME BaseInv, NoDanglingParam, NEW t \in Threads,
         NEW op \in OnHeap \cup OnStack, NEW d \in Data, Call(t, op, d)
  PROVE  /\ pc[t] = "idle" /\ ncalls < MaxCalls /\ CallAt(t, op, d, ncalls + 1)
         /\ ncalls + 1 \in Addr /\ ncalls + 1 \notin Issued
         /\ signalled' = signalled
         /\ m_lock => param' = param
<1>1. Reusable(t) = {} /\ ncalls < MaxCalls /\ TypeOK
  BY DEF Reusable, NoDanglingParam, Call, BaseInv
<1>2. pc[t] = "idle" /\ CallAt(t, op, d, ncalls + 1) /\ ncalls + 1 \in Addr
  BY <1>1, CallsAt
<1>3. ncalls + 1 \notin Issued /\ ncalls + 1 \notin Unfinished
  BY NobodysMemory
<1>4. m_lock => param' = param
  BY <1>1, <1>2, <1>3, LeftFrame DEF CallAt, TypeOK
<1>5. signalled' = signalled
  BY <1>2, <1>3 DEF CallAt, BaseInv, IssuedInv
<1> QED BY <1>1, <1>2, <1>3, <1>4, <1>5

(* A method that returns leaves nothing that is still to be read. *)
LEMMA CleanReturn ==
  ASSUME OwnerInv, FrameInv, NEW t \in Threads, PostFail(t) \/ Wake(t)
  PROVE  /\ call[t] # 0 /\ call[t] \in Addr /\ call[t] \notin Unfinished
         /\ param' = param /\ ~WakeFailed(t)
<1>1. call[t] # 0 /\ call[t] \in Addr /\ TypeOK
  BY DEF PostFail, Wake, WakeAnswered, WakeFailed, Waiting, Posting, OwnerInv, BaseInv, CallsInv,
     TypeOK
<1>2. ~WakeFailed(t)
  BY DEF WakeFailed, FrameInv, EventInv, Waiting
<1>3. call[t] \notin Unfinished
  BY <1>2 DEF PostFail, Wake, WakeAnswered, OwnerInv, PostInv, DealtOnce, Unfinished
<1>4. FrameLeft(call[t])
  BY DEF PostFail, Wake, WakeAnswered, WakeFailed
<1>5. param' = param
  BY <1>1, <1>3, <1>4, LeftFrame DEF TypeOK
<1> QED BY <1>1, <1>2, <1>3, <1>5

(* What the worker deletes is on the heap. *)
LEMMA NoFrameDeleted ==
  ASSUME OwnerInv, NoDanglingParam
  PROVE  ~DeleteFrame
<1> SUFFICES ASSUME DeleteFrame PROVE FALSE
  OBVIOUS
<1>1. cur \in live /\ cur \in Unfinished /\ wpc = "deal" /\ Op(cur) \in OnHeap
  BY DEF DeleteFrame, OwnerInv, BaseInv, TypeOK, NoDanglingParam, Unfinished, Addr, Op
<1>2. PICK t \in Threads : cur \in frames[t]
  BY DEF DeleteFrame, OfSomeFrame
<1> QED BY <1>1, <1>2 DEF OwnerInv, BaseInv, FramesInv, DueInv

LEMMA OwnerCall ==
  ASSUME OwnerInv, FrameInv, BaseInv', NEW t \in Threads,
         NEW op \in OnHeap \cup OnStack, NEW d \in Data, Call(t, op, d)
  PROVE  OwnerInv'
<1> DEFINE a == ncalls + 1
<1>1. /\ pc[t] = "idle" /\ CallAt(t, op, d, a) /\ a \in Addr /\ a \notin Issued
      /\ signalled' = signalled /\ (m_lock => param' = param)
  BY FreshCall DEF OwnerInv, FrameInv
<1>2. /\ InPort' = InPort /\ Unfinished' = Unfinished /\ NoDup(port)' = NoDup(port)
      /\ wpc' = wpc /\ cur' = cur
  BY <1>1 DEF CallAt, InPort, PacketsIn, NoDup, Unfinished, workerVars
<1>4. Unfinished \subseteq Issued /\ live \subseteq Issued /\ signalled \subseteq Issued
  BY DEF OwnerInv, BaseInv, IssuedInv
<1>5. DealtOnce'
  BY <1>1, <1>2 DEF OwnerInv, DealtOnce
<1>7. CASE m_lock
  <2>1. param' = param /\ live' = live /\ pc' = pc /\ call' = call
    BY <1>1, <1>7 DEF CallAt
  <2>2. PostInv'
    BY <1>1, <1>2, <2>1 DEF OwnerInv, PostInv, Op
  <2>3. DueInv' /\ SignalInv'
    BY <1>2, <2>1 DEF OwnerInv, DueInv, SignalInv, Waiting, Op
  <2> QED BY <1>5, <2>2, <2>3 DEF OwnerInv
<1>8. CASE ~m_lock
  <2>1. PICK ev \in {"event", "NULL"} :
            /\ param' = [param EXCEPT ![a] =
                            [nOperator |-> op, Data |-> d, hEvent |-> ev]]
            /\ live' = live \cup {a}
            /\ pc' = [pc EXCEPT ![t] = Entered(op)] /\ call' = [call EXCEPT ![t] = a]
    BY <1>1, <1>8 DEF CallAt, CreateEvent
  <2>2. param'[a].nOperator = op /\ \A b \in Issued : param'[b] = param[b]
    BY <1>1, <2>1, QueueAssumption DEF OwnerInv, BaseInv, TypeOK, Issued, Addr
  <2>3. /\ call'[t] = a /\ pc'[t] = Entered(op)
        /\ \A u \in Threads : u # t => call'[u] = call[u] /\ pc'[u] = pc[u]
    BY <2>1 DEF OwnerInv, BaseInv, TypeOK
  <2>4. Entered(op) \in Posting /\ Entered(op) \notin {"idle", "popping", "sizing"} /\ call[t] = 0
    BY <1>1 DEF OwnerInv, BaseInv, TypeOK, CallsInv, Entered, Posting
  <2>5. \A u \in Threads : call[u] # 0 => call[u] \in Issued
    BY <1>4 DEF OwnerInv, BaseInv, CallsInv
  <2>6. a # 0 /\ 0 \notin Issued
    BY <1>1 DEF Addr, Issued
  <2>8. PostInv'
    <3> SUFFICES ASSUME NEW u \in Threads, pc'[u] \in Posting
                 PROVE  /\ call'[u] \notin Unfinished' \cup signalled'
                        /\ Op(call[u])' \in OnHeap \cup OnStack
                        /\ pc'[u] = Entered(Op(call[u])')
      BY DEF PostInv
    <3>1. CASE u = t
      BY <1>1, <1>2, <1>4, <2>2, <2>3, <3>1 DEF Op
    <3>2. CASE u # t
      <4>1. pc[u] \in Posting /\ call'[u] = call[u] /\ call[u] # 0 /\ pc'[u] = pc[u]
        BY <2>3, <3>2 DEF OwnerInv, BaseInv, CallsInv, Posting
      <4>2. param'[call[u]] = param[call[u]]
        BY <2>2, <2>5, <4>1
      <4> QED BY <1>1, <1>2, <4>1, <4>2 DEF OwnerInv, PostInv, Op
    <3> QED BY <3>1, <3>2
  <2>9. \A u \in Threads : Waiting(u) => u # t /\ Waiting(u)' /\ call'[u] = call[u]
    BY <1>1, <2>3 DEF Waiting
  <2>10. DueInv'
    <3> SUFFICES ASSUME NEW b \in Unfinished, b \in live', b # cur \/ wpc = "deal"
                 PROVE  /\ Op(b)' \in OnHeap \cup OnStack
                        /\ Op(b)' \in OnHeap => \A u \in Threads : call'[u] # b
                        /\ Op(b)' \in OnStack =>
                              \E u \in Threads : Waiting(u)' /\ call'[u] = b
      BY <1>2, <2>1 DEF DueInv, Op
    <3>1. b # a /\ Op(b)' = Op(b) /\ b # 0 /\ b \in live
      BY <1>1, <1>4, <2>1, <2>2 DEF Op, Unfinished
    <3> QED BY <2>3, <2>9, <3>1 DEF OwnerInv, DueInv
  <2>12. SignalInv'
    <3> SUFFICES ASSUME wpc = "signal"
                 PROVE  /\ param'[cur].hEvent = "event"
                        /\ \E u \in Threads : Waiting(u)' /\ call'[u] = cur
      BY <1>2 DEF SignalInv
    <3>1. cur \in Issued
      BY <1>4 DEF OwnerInv, BaseInv, TypeOK, Unfinished, Addr
    <3> QED BY <2>2, <2>9, <3>1 DEF OwnerInv, SignalInv
  <2> QED BY <1>5, <2>8, <2>10, <2>12 DEF OwnerInv
<1> QED BY <1>7, <1>8

LEMMA OwnerPostOK ==
  ASSUME OwnerInv, BaseInv', NEW t \in Threads, PostOK(t)
  PROVE  OwnerInv'
<1> DEFINE a == call[t]
<1>2. /\ a # 0 /\ a \in Addr /\ a \in live /\ a \notin Unfinished /\ a \notin signalled
      /\ pc[t] \in Posting /\ Op(a) \in OnHeap \cup OnStack /\ pc[t] = Entered(Op(a))
  BY DEF PostOK, OwnerInv, BaseInv, CallsInv, PostInv, TypeOK, Posting
<1>3. InPort' = InPort \cup {a} /\ NoDup(port)' /\ a \notin InPort
  <2>1. port \in Seq(Addr \cup {0}) /\ port' = Append(port, a) /\ NoDup(port)
    BY DEF OwnerInv, BaseInv, TypeOK, DealtOnce, PostOK
  <2>2. a \notin InPort
    BY <1>2 DEF Unfinished
  <2> QED BY <1>2, <2>1, <2>2, PostedPackets DEF InPort
<1>4. /\ param' = param /\ live' = live /\ signalled' = signalled /\ cur' = cur
      /\ wpc' = wpc /\ handles' = handles /\ ncalls' = ncalls
  BY DEF PostOK, workerVars
<1>5. Unfinished' = Unfinished \cup {a}
  BY <1>2, <1>3, <1>4 DEF Unfinished
<1>6. \A u \in Threads : u # t => pc'[u] = pc[u] /\ call'[u] = call[u] /\ call[u] # a
  BY <1>2 DEF PostOK, OwnerInv, BaseInv, TypeOK, CallsInv
<1>7. \/ Op(a) \in OnHeap /\ pc'[t] = "idle" /\ call'[t] = 0
      \/ Op(a) \in OnStack /\ Waiting(t)' /\ pc'[t] # "idle" /\ pc'[t] \notin Posting
            /\ call'[t] = a
  BY <1>2 DEF PostOK, OwnerInv, BaseInv, TypeOK, Op, OnHeap, OnStack, EQPush, EQPop, EQSize,
     EQClear, Waiting, Entered, Posting
<1>10. PostInv'
  <2> SUFFICES ASSUME NEW u \in Threads, pc'[u] \in Posting
               PROVE  /\ call'[u] \notin Unfinished' \cup signalled'
                      /\ Op(call[u])' \in OnHeap \cup OnStack
                      /\ pc'[u] = Entered(Op(call[u])')
    BY DEF PostInv
  <2>1. u # t
    BY <1>7 DEF Posting
  <2> QED BY <1>4, <1>5, <1>6, <2>1 DEF OwnerInv, PostInv, Op
<1>11. \A u \in Threads : Waiting(u) => u # t /\ Waiting(u)' /\ call'[u] = call[u]
  BY <1>2, <1>6 DEF Waiting, Posting
<1>12. a # cur
  BY <1>2 DEF Unfinished
<1>13. DueInv'
  <2> SUFFICES ASSUME NEW b \in Unfinished', b \in live, b # cur \/ wpc = "deal"
               PROVE  /\ Op(b) \in OnHeap \cup OnStack
                      /\ Op(b) \in OnHeap => \A u \in Threads : call'[u] # b
                      /\ Op(b) \in OnStack =>
                            \E u \in Threads : Waiting(u)' /\ call'[u] = b
    BY <1>4 DEF DueInv, Op
  <2>1. CASE b = a
    BY <1>2, <1>6, <1>7, <2>1 DEF Op, OnHeap, OnStack, EQPush, EQPop, EQSize, EQClear
  <2>2. CASE b # a
    <3>1. b \in Unfinished /\ b # 0
      BY <1>5, <2>2 DEF Unfinished
    <3>2. \A u \in Threads : call'[u] = call[u] \/ call'[u] = 0
      BY <1>6, <1>7
    <3> QED BY <1>11, <3>1, <3>2 DEF OwnerInv, DueInv
  <2> QED BY <2>1, <2>2
<1>14. SignalInv'
  BY <1>4, <1>11 DEF OwnerInv, SignalInv
<1>15. DealtOnce'
  BY <1>2, <1>3, <1>4, <1>12 DEF OwnerInv, DealtOnce
<1> QED BY <1>10, <1>13, <1>14, <1>15 DEF OwnerInv

(* A call returns, by a failed post or by waking up. *)
LEMMA OwnerReturn ==
  ASSUME OwnerInv, FrameInv, BaseInv', NEW t \in Threads, PostFail(t) \/ Wake(t)
  PROVE  OwnerInv'
<1>1. /\ live' = live \ {call[t]} /\ param' = param /\ signalled' = signalled
      /\ port' = port /\ cur' = cur /\ wpc' = wpc
      /\ call[t] # 0 /\ call[t] \notin Unfinished /\ TypeOK
  BY CleanReturn
  DEF PostFail, Wake, WakeAnswered, WakeFailed, workerVars, OwnerInv, BaseInv
<1>2. InPort' = InPort /\ Unfinished' = Unfinished /\ NoDup(port)' = NoDup(port)
  BY <1>1 DEF InPort, PacketsIn, NoDup, Unfinished
<1>3. /\ pc'[t] = "idle" /\ call'[t] = 0
      /\ \A u \in Threads : u # t => pc'[u] = pc[u] /\ call'[u] = call[u] /\ call[u] # call[t]
  BY <1>1 DEF PostFail, Wake, WakeAnswered, WakeFailed, TypeOK, OwnerInv, BaseInv, CallsInv
<1>4. PostInv'
  BY <1>1, <1>2, <1>3 DEF OwnerInv, PostInv, Op, Posting
<1>5. \A u \in Threads : Waiting(u) /\ call[u] # call[t] => Waiting(u)' /\ call'[u] = call[u]
  BY <1>3 DEF Waiting
<1>6. DueInv'
  <2> SUFFICES ASSUME NEW b \in Unfinished, b \in live', b # cur \/ wpc = "deal"
               PROVE  /\ Op(b) \in OnHeap \cup OnStack
                      /\ Op(b) \in OnHeap => \A u \in Threads : call'[u] # b
                      /\ Op(b) \in OnStack =>
                            \E u \in Threads : Waiting(u)' /\ call'[u] = b
    BY <1>1, <1>2 DEF DueInv, Op
  <2>1. b # 0 /\ b # call[t] /\ b \in live
    BY <1>1 DEF Unfinished
  <2>2. \A u \in Threads : call'[u] = call[u] \/ call'[u] = 0
    BY <1>3
  <2> QED BY <1>5, <2>1, <2>2 DEF OwnerInv, DueInv
<1>7. SignalInv'
  <2>1. wpc = "signal" => cur \in Unfinished
    BY <1>1 DEF TypeOK, Unfinished, Addr
  <2> QED BY <1>1, <1>5, <2>1 DEF OwnerInv, SignalInv
<1>8. DealtOnce'
  BY <1>1, <1>2 DEF OwnerInv, DealtOnce
<1> QED BY <1>4, <1>6, <1>7, <1>8 DEF OwnerInv

(* The worker has finished with the packet it held: the address it deletes, *)
(* if it deletes one, is that packet's and nobody waits for it; what it may *)
(* have written, it has written to that packet.                             *)
LEMMA OwnerFinish ==
  ASSUME OwnerInv, BaseInv', wpc = "deal", cur' = 0, wpc' = "get",
         live' = live \/ (live' = live \ {cur} /\ \A t \in Threads : call[t] # cur),
         \A a \in Addr : a # cur => param'[a] = param[a],
         signalled' = signalled, handles' = handles, ncalls' = ncalls,
         port' = port, pc' = pc, call' = call
  PROVE  OwnerInv'
<1>1. /\ InPort' = InPort /\ NoDup(port)' = NoDup(port) /\ cur # 0 /\ cur \notin InPort
      /\ 0 \notin InPort
  BY DEF InPort, PacketsIn, NoDup, OwnerInv, BaseInv, TypeOK, Addr, DealtOnce
<1>2. Unfinished' = InPort /\ Unfinished = InPort \cup {cur}
  BY <1>1 DEF Unfinished
<1>3. Unfinished \subseteq Addr
  BY QueueAssumption DEF OwnerInv, BaseInv, IssuedInv, Issued, TypeOK, Addr
<1>6. PostInv'
  <2> SUFFICES ASSUME NEW u \in Threads, pc[u] \in Posting
               PROVE  /\ call[u] \notin InPort \cup signalled
                      /\ Op(call[u])' \in OnHeap \cup OnStack
                      /\ pc[u] = Entered(Op(call[u])')
    BY <1>2 DEF PostInv
  <2>1. call[u] \in Addr /\ call[u] # cur
    BY <1>2 DEF OwnerInv, BaseInv, TypeOK, CallsInv, PostInv, Posting
  <2> QED BY <1>2, <2>1 DEF OwnerInv, PostInv, Op
<1>7. \A a \in InPort : a # cur /\ a \in Addr /\ Op(a)' = Op(a) /\ param'[a] = param[a]
  BY <1>1, <1>2, <1>3 DEF Op
<1>8. DueInv'
  BY <1>2, <1>7 DEF OwnerInv, DueInv, Waiting
<1>9. SignalInv'
  BY DEF SignalInv
<1>10. DealtOnce'
  <2>1. 0 \notin signalled
    BY DEF OwnerInv, BaseInv, TypeOK, Addr
  <2> QED BY <1>1, <2>1 DEF OwnerInv, DealtOnce
<1> QED BY <1>6, <1>8, <1>9, <1>10 DEF OwnerInv

(* The worker has written an answer into a frame and sets the event next.   *)
LEMMA OwnerAnswer ==
  ASSUME OwnerInv, NoDanglingParam, BaseInv', wpc = "deal", Op(cur) \in OnStack,
         param[cur].hEvent = "event", param'[cur].hEvent = "event",
         \A a \in Addr : a # cur => param'[a] = param[a],
         cur' = cur, wpc' = "signal",
         live' = live, signalled' = signalled, handles' = handles, ncalls' = ncalls,
         port' = port, pc' = pc, call' = call
  PROVE  OwnerInv'
<1>1. InPort' = InPort /\ NoDup(port)' = NoDup(port) /\ Unfinished' = Unfinished
  BY DEF InPort, PacketsIn, NoDup, Unfinished
<1>2. cur # 0 /\ cur \in Unfinished /\ cur \in live /\ Unfinished \subseteq Addr
  <2>1. cur # 0 /\ cur \in Unfinished
    BY DEF OwnerInv, BaseInv, TypeOK, Unfinished, Addr
  <2>2. Unfinished \subseteq Addr
    BY QueueAssumption DEF OwnerInv, BaseInv, IssuedInv, Issued, TypeOK, Addr
  <2> QED BY <2>1, <2>2 DEF NoDanglingParam
<1>3. PICK t \in Threads : Waiting(t) /\ call[t] = cur
  BY <1>2 DEF OwnerInv, DueInv
<1>5. \A u \in Threads : u # t /\ call[u] # 0 => param'[call[u]] = param[call[u]]
  BY <1>2, <1>3 DEF OwnerInv, BaseInv, CallsInv, TypeOK
<1>6. PostInv'
  <2> SUFFICES ASSUME NEW u \in Threads, pc[u] \in Posting
               PROVE  /\ call[u] \notin Unfinished \cup signalled
                      /\ Op(call[u])' \in OnHeap \cup OnStack
                      /\ pc[u] = Entered(Op(call[u])')
    BY <1>1 DEF PostInv
  <2>1. u # t /\ call[u] # 0
    BY <1>3 DEF Waiting, OwnerInv, BaseInv, CallsInv, Posting
  <2> QED BY <1>5, <2>1 DEF OwnerInv, PostInv, Op
<1>7. \A a \in Unfinished : a # cur => Op(a)' = Op(a) /\ param'[a] = param[a]
  BY <1>2 DEF Op
<1>8. DueInv'
  BY <1>1, <1>2, <1>7 DEF OwnerInv, DueInv, Waiting
<1>9. SignalInv'
  BY <1>3 DEF SignalInv, Waiting
<1>10. DealtOnce'
  BY <1>1 DEF OwnerInv, DealtOnce
<1> QED BY <1>6, <1>8, <1>9, <1>10 DEF OwnerInv

(* What the worker does to the packet it holds: it is deleted if it came    *)
(* from the heap; otherwise somebody waits for it.                          *)
LEMMA DealCases ==
  ASSUME OwnerInv, NoDanglingParam, DealParam
  PROVE  /\ wpc = "deal" /\ cur \in Addr /\ cur # 0 /\ cur \in Unfinished
         /\ \A a \in Addr : a # cur => param'[a] = param[a]
         /\ param'[cur].hEvent = param[cur].hEvent
         /\ signalled' = signalled /\ handles' = handles /\ ncalls' = ncalls
         /\ port' = port /\ pc' = pc /\ call' = call
         /\ \/ /\ live' = live \ {cur} /\ cur' = 0 /\ wpc' = "get"
               /\ \A t \in Threads : call[t] # cur
            \/ /\ live' = live /\ cur' = 0 /\ wpc' = "get"
               /\ param[cur].hEvent = "NULL"
               /\ \E t \in Threads : Waiting(t) /\ call[t] = cur
            \/ /\ live' = live /\ cur' = cur /\ wpc' = "signal"
               /\ param[cur].hEvent = "event" /\ Op(cur) \in OnStack
<1>1. wpc = "deal"
  BY DEF DealParam, DealPush, DealPop, DealClear, DeleteFrame, DealSize, DealUnknown
<1>2. cur \in Addr /\ cur # 0 /\ cur \in Unfinished
  BY <1>1 DEF OwnerInv, BaseInv, TypeOK, Unfinished, Addr
<1>3. /\ param[cur].hEvent \in {"event", "NULL"}
      /\ Op(cur) \in OnHeap \cup OnStack
      /\ Op(cur) \in OnHeap => \A t \in Threads : call[t] # cur
      /\ Op(cur) \in OnStack => \E t \in Threads : Waiting(t) /\ call[t] = cur
  BY <1>1, <1>2 DEF OwnerInv, BaseInv, TypeOK, IocpParam, DueInv, NoDanglingParam
<1>4. CASE DealPush \/ DealClear
  <2>1. Op(cur) \in OnHeap
    BY <1>4 DEF DealPush, DealClear, Op, OnHeap
  <2> QED BY <1>1, <1>2, <1>3, <1>4, <2>1 DEF DealPush, DealClear, callerVars
<1>5. CASE DealPop \/ DealSize
  <2>1. Op(cur) \in OnStack /\ Op(cur) \notin OnHeap
    BY <1>5 DEF DealPop, DealSize, Op, OnStack, OnHeap, EQPush, EQPop, EQSize, EQClear
  <2>2. /\ \A a \in Addr : a # cur => param'[a] = param[a]
        /\ param'[cur].hEvent = param[cur].hEvent
    BY <1>2, <1>5 DEF DealPop, DealSize, OwnerInv, BaseInv, TypeOK, IocpParam
  <2>3. \/ param[cur].hEvent = "event" /\ wpc' = "signal" /\ cur' = cur
        \/ param[cur].hEvent = "NULL" /\ wpc' = "get" /\ cur' = 0
    BY <1>3, <1>5 DEF DealPop, DealSize, AnswerWritten
  <2> QED BY <1>1, <1>2, <1>3, <1>5, <2>1, <2>2, <2>3 DEF DealPop, DealSize, callerVars
<1>6. ~DealUnknown
  BY <1>3 DEF DealUnknown, Op
<1> QED BY <1>4, <1>5, <1>6, NoFrameDeleted DEF DealParam

LEMMA OwnerDeal ==
  ASSUME OwnerInv, NoDanglingParam, BaseInv', DealParam
  PROVE  OwnerInv'
<1>1. CASE wpc' = "get"
  BY <1>1, DealCases, OwnerFinish
<1>2. CASE wpc' = "signal"
  BY <1>2, DealCases, OwnerAnswer
<1> QED BY <1>1, <1>2, DealCases

LEMMA OwnerGet ==
  ASSUME OwnerInv, BaseInv', Get
  PROVE  OwnerInv'
<1> DEFINE a == Head(port)
<1>2. /\ port \in Seq(Addr \cup {0}) /\ port # <<>> /\ NoDup(port)
      /\ port' = Tail(port) /\ wpc = "get" /\ cur = 0
  BY DEF Get, OwnerInv, BaseInv, TypeOK, DealtOnce
<1>3. InPort = InPort' \cup ({a} \ {0}) /\ a \notin InPort' /\ NoDup(port)'
  BY <1>2, TakenPackets DEF InPort
<1>4. \/ a = 0 /\ cur' = 0 /\ wpc' = "get"
      \/ a # 0 /\ cur' = a /\ wpc' = "deal"
  BY <1>2 DEF Get
<1>5. /\ param' = param /\ live' = live /\ signalled' = signalled /\ handles' = handles
      /\ ncalls' = ncalls /\ pc' = pc /\ call' = call
  BY DEF Get, callerVars
<1>6. Unfinished' = Unfinished
  BY <1>2, <1>3, <1>4 DEF Unfinished
<1>8. PostInv'
  BY <1>5, <1>6 DEF OwnerInv, PostInv, Op
<1>9. DueInv' /\ SignalInv'
  <2>1. \A b \in Unfinished : b # cur
    BY <1>2 DEF Unfinished
  <2> QED BY <1>4, <1>5, <1>6, <2>1 DEF OwnerInv, DueInv, SignalInv, Op, Waiting
<1>10. DealtOnce'
  <2>1. 0 \notin signalled /\ 0 \notin InPort'
    BY DEF OwnerInv, BaseInv, TypeOK, Addr, InPort, PacketsIn
  <2> QED BY <1>2, <1>3, <1>4, <1>5, <2>1 DEF OwnerInv, DealtOnce
<1> QED BY <1>8, <1>9, <1>10 DEF OwnerInv

LEMMA OwnerSignal ==
  ASSUME OwnerInv, BaseInv', Signal
  PROVE  OwnerInv'
<1>2. InPort' = InPort /\ NoDup(port)' = NoDup(port) /\ cur \notin InPort /\ cur # 0
  BY DEF Signal, InPort, PacketsIn, NoDup, OwnerInv, BaseInv, DealtOnce, TypeOK, Addr
<1>3. /\ Unfinished' = InPort /\ Unfinished = InPort \cup {cur} /\ 0 \notin InPort
      /\ signalled' = signalled \cup {cur}
  BY <1>2 DEF Signal, OwnerInv, SignalInv, Unfinished, InPort, PacketsIn
<1>4. /\ param' = param /\ live' = live /\ handles' = handles /\ ncalls' = ncalls
      /\ pc' = pc /\ call' = call /\ cur' = 0 /\ wpc' = "get" /\ wpc = "signal"
  BY DEF Signal, callerVars
<1>6. PostInv'
  <2>1. \A u \in Threads : pc[u] \in Posting => call[u] # cur
    BY <1>3 DEF OwnerInv, PostInv
  <2> QED BY <1>3, <1>4, <2>1 DEF OwnerInv, PostInv, Op
<1>7. DueInv' /\ SignalInv'
  BY <1>2, <1>3, <1>4 DEF OwnerInv, DueInv, SignalInv, Op, Waiting
<1>8. DealtOnce'
  <2>1. 0 \notin signalled
    BY DEF OwnerInv, BaseInv, TypeOK, Addr
  <2> QED BY <1>2, <1>3, <1>4, <2>1 DEF OwnerInv, DealtOnce
<1> QED BY <1>6, <1>7, <1>8 DEF OwnerInv

(* The remaining steps do not touch a packet, except to drop them all.      *)
LEMMA OwnerOther ==
  ASSUME OwnerInv, BaseInv', GetNothing \/ Close \/ Destructor \/ UNCHANGED vars
  PROVE  OwnerInv'
<1>1. TypeOK
  BY DEF OwnerInv, BaseInv
<1>2. /\ port' = port \/ port' = Append(port, 0) \/ port' = <<>>
      /\ cur' = cur /\ Unfinished' \subseteq Unfinished
      /\ wpc \in {"deal", "signal"} \/ wpc' \in {"deal", "signal"} => wpc' = wpc
      /\ param' = param /\ live' = live /\ signalled' = signalled
      /\ pc' = pc /\ call' = call
  BY <1>1, OtherSteps
<1>3. InPort' \subseteq InPort /\ NoDup(port)'
  <2>1. port \in Seq(Addr \cup {0}) /\ NoDup(port) /\ 0 \notin InPort
    BY <1>1 DEF OwnerInv, TypeOK, DealtOnce, InPort, PacketsIn
  <2>2. CASE port' = port
    BY <2>1, <2>2 DEF InPort, PacketsIn, NoDup
  <2>3. CASE port' = Append(port, 0)
    BY <2>1, <2>3, PostedPackets DEF InPort
  <2>4. CASE port' = <<>>
    BY <2>4 DEF InPort, PacketsIn, NoDup
  <2> QED BY <1>2, <2>2, <2>3, <2>4
<1>4. PostInv'
  BY <1>2 DEF OwnerInv, PostInv, Op
<1>5. DueInv' /\ SignalInv'
  BY <1>2 DEF OwnerInv, DueInv, SignalInv, Op, Waiting
<1>6. DealtOnce'
  BY <1>2, <1>3 DEF OwnerInv, DealtOnce
<1> QED BY <1>4, <1>5, <1>6 DEF OwnerInv

LEMMA OwnerStep ==
  ASSUME OwnerInv, FrameInv, [Next]_vars
  PROVE  OwnerInv'
<1>1. TypeOK /\ BaseInv' /\ NoDanglingParam
  BY BaseStep DEF OwnerInv, BaseInv, FrameInv
<1>2. ASSUME NEW t \in Threads,
             (\E d \in Data : PushBack(t, d)) \/ PopFront(t) \/ Size(t) \/ Clear(t)
      PROVE  OwnerInv'
  BY <1>1, <1>2, CallSteps, OwnerCall
<1>3. ASSUME NEW t \in Threads, Post(t) \/ Wake(t) PROVE OwnerInv'
  BY <1>1, <1>3, OwnerPostOK, OwnerReturn DEF Post
<1>4. CASE Get \/ DealParam \/ Signal
  BY <1>1, <1>4, OwnerGet, OwnerDeal, OwnerSignal
<1>5. CASE GetNothing \/ Close \/ Destructor \/ UNCHANGED vars
  BY <1>1, <1>5, OwnerOther
<1> QED BY <1>2, <1>3, <1>4, <1>5 DEF Next, Worker

(* With a handle for every call, CreateEvent does not fail. *)
LEMMA EventsSuffice ==
  ASSUME HandleLimit >= MaxCalls, TypeOK, IssuedInv, ncalls < MaxCalls
  PROVE  CreateEvent = "event"
<1>1. IsFiniteSet(1..ncalls) /\ Cardinality(1..ncalls) = ncalls
  BY FS_Interval DEF TypeOK
<1>2. IsFiniteSet(handles) /\ Cardinality(handles) <= ncalls
  BY <1>1, FS_Subset DEF IssuedInv, Issued
<1>3. Cardinality(handles) \in Nat
  BY <1>2, FS_CardinalityType
<1> QED BY <1>2, <1>3, QueueAssumption DEF CreateEvent, TypeOK

LEMMA FrameStep ==
  ASSUME HandleLimit >= MaxCalls, OwnerInv, FrameInv, [Next]_vars
  PROVE  FrameInv'
<1> USE DEF FrameInv
<1>1. TypeOK /\ BaseInv
  BY DEF OwnerInv, BaseInv
<1>2. Unfinished \subseteq live /\ \A u \in Threads : pc[u] # "idle" => call[u] \in Addr /\ call[u] # 0
  BY <1>1 DEF NoDanglingParam, BaseInv, CallsInv, TypeOK
<1>3. ASSUME Unfinished' \subseteq live' PROVE NoDanglingParam'
  BY <1>3 DEF NoDanglingParam
<1>4. ASSUME NEW t \in Threads, NEW op \in OnHeap \cup OnStack, NEW d \in Data,
             Call(t, op, d)
      PROVE  FrameInv'
  <2> DEFINE a == ncalls + 1
  <2>1. /\ pc[t] = "idle" /\ ncalls < MaxCalls /\ CallAt(t, op, d, a)
        /\ a \in Addr /\ a \notin Issued /\ (m_lock => param' = param)
    BY <1>1, <1>4, FreshCall
  <2>2. Unfinished' = Unfinished /\ live \subseteq live'
    BY <2>1 DEF CallAt, Unfinished, InPort, PacketsIn, workerVars
  <2>3. CASE m_lock
    BY <1>2, <1>3, <2>1, <2>2, <2>3 DEF CallAt, EventInv
  <2>4. CASE ~m_lock
    <3>1. CreateEvent = "event"
      BY <1>1, <2>1, EventsSuffice DEF BaseInv
    <3>2. PICK ev \in {"event", "NULL"} :
              /\ op \in OnStack => ev = "event"
              /\ param' = [param EXCEPT ![a] = [nOperator |-> op, Data |-> d, hEvent |-> ev]]
              /\ pc' = [pc EXCEPT ![t] = Entered(op)]
              /\ call' = [call EXCEPT ![t] = a]
      BY <2>1, <2>4, <3>1 DEF CallAt
    <3>3. EventInv'
      <4> SUFFICES ASSUME NEW u \in Threads, pc'[u] \notin {"idle", "post"}
                   PROVE  param'[call'[u]].hEvent = "event"
        BY DEF EventInv
      <4>1. CASE u = t
        <5>1. op \in OnStack
          BY <1>1, <3>2, <4>1 DEF TypeOK, Entered, OnStack
        <5> QED BY <1>1, <2>1, <3>2, <4>1, <5>1 DEF TypeOK
      <4>2. CASE u # t
        <5>1. pc'[u] = pc[u] /\ call'[u] = call[u]
          BY <1>1, <3>2, <4>2 DEF TypeOK
        <5>2. call[u] \in Issued
          BY <1>1, <1>2, <5>1 DEF BaseInv, CallsInv, IssuedInv
        <5>3. param'[call[u]] = param[call[u]]
          BY <1>1, <1>2, <2>1, <3>2, <5>1, <5>2 DEF TypeOK
        <5> QED BY <5>1, <5>3 DEF EventInv
      <4> QED BY <4>1, <4>2
    <3> QED BY <1>2, <1>3, <2>2, <3>3
  <2> QED BY <2>3, <2>4
<1>5. ASSUME NEW t \in Threads, PostOK(t) PROVE FrameInv'
  <2>1. port \in Seq(Addr \cup {0}) /\ call[t] \in Addr /\ call[t] \in live /\ call[t] # 0
    BY <1>1, <1>2, <1>5 DEF PostOK, BaseInv, CallsInv, TypeOK, Posting
  <2>2. Unfinished' = Unfinished \cup {call[t]}
    <3>1. InPort' = InPort \cup {call[t]}
      BY <1>5, <2>1, PostedPackets DEF PostOK, InPort
    <3> QED BY <1>5, <2>1, <3>1 DEF PostOK, Unfinished, workerVars
  <2>3. /\ param' = param /\ live' = live
        /\ \A u \in Threads : u # t => pc'[u] = pc[u] /\ call'[u] = call[u]
        /\ pc'[t] = "idle" \/ (pc[t] \notin {"idle", "post"} /\ call'[t] = call[t])
    BY <1>1, <1>5 DEF PostOK, TypeOK, Posting
  <2>4. EventInv'
    BY <2>3 DEF EventInv
  <2> QED BY <1>2, <1>3, <2>1, <2>2, <2>3, <2>4
<1>6. ASSUME NEW t \in Threads, PostFail(t) \/ Wake(t) PROVE FrameInv'
  <2>1. /\ param' = param /\ live' = live \ {call[t]} /\ cur' = cur /\ port' = port
        /\ pc' = [pc EXCEPT ![t] = "idle"] /\ call' = [call EXCEPT ![t] = 0]
        /\ call[t] \notin Unfinished
    BY <1>6, CleanReturn DEF PostFail, Wake, WakeAnswered, WakeFailed, workerVars
  <2>2. Unfinished' = Unfinished
    BY <2>1 DEF Unfinished, InPort, PacketsIn
  <2>3. EventInv'
    BY <1>1, <2>1 DEF EventInv, TypeOK
  <2> QED BY <1>2, <1>3, <2>1, <2>2, <2>3
<1>7. ASSUME param' = param, live' = live, pc' = pc, call' = call,
             Unfinished' \subseteq Unfinished
      PROVE  FrameInv'
  BY <1>2, <1>3, <1>7 DEF EventInv
<1>8. CASE Get \/ Signal
  <2>1. Signal => Unfinished' \subseteq Unfinished
    BY DEF Signal, Unfinished, InPort, PacketsIn
  <2> QED BY <1>1, <1>7, <1>8, <2>1, GetKeeps DEF Get, Signal, callerVars
<1>9. CASE DealParam
  <2>1. /\ InPort' = InPort /\ cur \notin InPort
        /\ cur' = cur \/ cur' = 0
        /\ live' = live \/ (live' = live \ {cur} /\ cur' = 0)
    BY <1>9, DealCases DEF InPort, PacketsIn, OwnerInv, DealtOnce
  <2>2. Unfinished' \subseteq live'
    BY <1>2, <2>1 DEF Unfinished
  <2>3. EventInv'
    BY <1>2, <1>9, DealCases DEF EventInv
  <2> QED BY <1>3, <2>2, <2>3
<1>10. CASE GetNothing \/ Close \/ Destructor \/ UNCHANGED vars
  BY <1>1, <1>7, <1>10, OtherSteps
<1> QED
  BY <1>1, <1>4, <1>5, <1>6, <1>8, <1>9, <1>10, CallSteps DEF Next, Post, Worker

LEMMA OwnerAlways ==
  ASSUME HandleLimit >= MaxCalls
  PROVE  Spec => [](OwnerInv /\ FrameInv)
<1>1. OwnerInv /\ FrameInv /\ [Next]_vars => OwnerInv' /\ FrameInv'
  BY OwnerStep, FrameStep
<1> QED BY <1>1, OwnerInit, FrameInit, PTL DEF Spec

(* When event handles do not run out no packet is dealt with twice,         *)
(* whatever else fails, and even if the destructor starts while calls are   *)
(* in progress.                                                             *)
THEOREM DealtOnceHolds ==
  ASSUME HandleLimit >= MaxCalls
  PROVE  Spec => []DealtOnce
<1>1. OwnerInv => DealtOnce
  BY DEF OwnerInv
<1> QED BY <1>1, OwnerAlways, PTL

(* Nor is an IocpParam touched after its owner's frame is gone or after it  *)
(* was deleted, although PopFront and Size hand the address of a local      *)
(* variable to another thread.                                              *)
THEOREM NoDanglingParamHolds ==
  ASSUME HandleLimit >= MaxCalls
  PROVE  Spec => []NoDanglingParam
<1>1. FrameInv => NoDanglingParam
  BY DEF FrameInv
<1> QED BY <1>1, OwnerAlways, PTL

(* Both: every packet is dealt with once, while it is allocated.            *)
THEOREM NoParamMisusedHolds ==
  ASSUME HandleLimit >= MaxCalls
  PROVE  Spec => []NoParamMisused
<1>1. NoDanglingParam /\ DealtOnce => NoParamMisused
  BY DEF NoParamMisused
<1> QED BY <1>1, NoDanglingParamHolds, DealtOnceHolds, PTL

-----------------------------------------------------------------------------
(* The lists a port stands for.  What ListsAfter computes is defined by     *)
(* recursion; a set of numbers that is closed under + 1 is what the         *)
(* arguments by induction go over.                                          *)

LEMMA SetInduction ==
  ASSUME NEW S, 0 \in S, \A n \in Nat : n \in S => n + 1 \in S
  PROVE  Nat \subseteq S
<1> DEFINE T == Nat \ S
<1> SUFFICES ASSUME T # {} PROVE FALSE
  OBVIOUS
<1>1. \A x, y \in Nat : y < x => <<y, x>> \in OpToRel(<, Nat)
  BY DEF OpToRel
<1>2. PICK x \in T : \A y \in T : ~(<<y, x>> \in OpToRel(<, Nat))
  <2> HIDE DEF T
  <2>1. T \subseteq Nat
    BY DEF T
  <2> QED BY <2>1, WFMin, NatLessThanWellFounded
<1>3. x \in Nat /\ x # 0
  OBVIOUS
<1>4. x - 1 \in Nat /\ x - 1 < x /\ (x - 1) + 1 = x
  BY <1>3
<1>5. x - 1 \notin T
  BY <1>1, <1>2, <1>3, <1>4
<1>6. x \in S
  BY <1>4, <1>5
<1> QED BY <1>6

(* The list after one packet, 0 being the NULL key. *)
Through(ps, a, q) == IF a = 0 THEN q ELSE Applied(ps[a], q)

LEMMA ThroughType ==
  ASSUME NEW ps \in [Addr -> IocpParam], NEW a \in Addr \cup {0}, NEW q \in Seq(Data)
  PROVE  Through(ps, a, q) \in Seq(Data)
<1>1. CASE a = 0
  BY <1>1 DEF Through
<1>2. CASE a # 0
  <2> DEFINE p == ps[a]
  <2>1. p.Data \in Data
    BY <1>2 DEF IocpParam
  <2>2. Append(q, p.Data) \in Seq(Data) /\ <<>> \in Seq(Data)
    BY <2>1
  <2>3. q # <<>> => Tail(q) \in Seq(Data)
    BY HeadTailProperties
  <2>4. Applied(p, q) \in Seq(Data)
    BY <2>2, <2>3 DEF Applied, EQPush, EQPop, EQClear
  <2> QED BY <1>2, <2>4 DEF Through
<1> QED BY <1>1, <1>2

(* f gives the list after each of the first n packets. *)
ListsUpTo(f, n, ps, prt, q) ==
    f = [i \in 0..n |-> IF i = 0 THEN q ELSE Through(ps, prt[i], f[i - 1])]

LEMMA ListsExist ==
  ASSUME NEW ps, NEW prt \in Seq(Addr \cup {0}), NEW q
  PROVE  \E f : ListsUpTo(f, Len(prt), ps, prt, q)
<1> DEFINE S == {n \in Nat : \E f : ListsUpTo(f, n, ps, prt, q)}
<1>1. 0 \in S
  <2>1. ListsUpTo([i \in 0..0 |-> q], 0, ps, prt, q)
    BY DEF ListsUpTo
  <2> QED BY <2>1
<1>2. ASSUME NEW n \in Nat, n \in S PROVE n + 1 \in S
  <2>1. PICK f : ListsUpTo(f, n, ps, prt, q)
    BY <1>2
  <2> DEFINE g == [i \in 0..(n + 1) |-> IF i = n + 1 THEN Through(ps, prt[n + 1], f[n]) ELSE f[i]]
  <2>2. \A i \in 0..(n + 1) : i \in 0..n \/ i = n + 1
    OBVIOUS
  <2>3. g[0] = q
    BY <2>1 DEF ListsUpTo
  <2>4. ASSUME NEW i \in 0..(n + 1), i # 0 PROVE g[i] = Through(ps, prt[i], g[i - 1])
    <3>1. i - 1 \in 0..n /\ i - 1 \in 0..(n + 1) /\ i - 1 # n + 1
      BY <2>4
    <3>2. g[i - 1] = f[i - 1]
      BY <3>1
    <3>3. CASE i = n + 1
      BY <3>2, <3>3
    <3>4. CASE i \in 0..n
      <4>1. f[i] = Through(ps, prt[i], f[i - 1])
        BY <2>1, <2>4, <3>4 DEF ListsUpTo
      <4>2. g[i] = f[i]
        BY <3>4
      <4> QED BY <3>2, <4>1, <4>2
    <3> QED BY <2>2, <3>3, <3>4
  <2>5. g = [i \in 0..(n + 1) |-> g[i]]
    OBVIOUS
  <2> HIDE DEF g
  <2>6. g = [i \in 0..(n + 1) |-> IF i = 0 THEN q ELSE Through(ps, prt[i], g[i - 1])]
    BY <2>3, <2>4, <2>5
  <2>7. ListsUpTo(g, n + 1, ps, prt, q)
    BY <2>6 DEF ListsUpTo
  <2> QED BY <2>7
<1>3. Nat \subseteq S
  <2> HIDE DEF S
  <2> QED BY <1>1, <1>2, SetInduction
<1> QED BY <1>3

(* What the definition of ListsAfter says. *)
LEMMA ListsDef ==
  ASSUME NEW ps, NEW prt \in Seq(Addr \cup {0}), NEW q
  PROVE  ListsUpTo(ListsAfter(ps, prt, q), Len(prt), ps, prt, q)
<1> DEFINE L == ListsAfter(ps, prt, q)
<1>1. L = CHOOSE f : f = [i \in 0..Len(prt) |->
                            IF i = 0 THEN q
                            ELSE IF prt[i] = 0 THEN f[i - 1] ELSE Applied(ps[prt[i]], f[i - 1])]
  BY DEF ListsAfter
<1>2. \E f : f = [i \in 0..Len(prt) |->
                    IF i = 0 THEN q
                    ELSE IF prt[i] = 0 THEN f[i - 1] ELSE Applied(ps[prt[i]], f[i - 1])]
  BY ListsExist DEF ListsUpTo, Through
<1> QED BY <1>1, <1>2 DEF ListsUpTo, Through

LEMMA ListsSteps ==
  ASSUME NEW n \in Nat, NEW ps, NEW prt, NEW q, NEW f, ListsUpTo(f, n, ps, prt, q)
  PROVE  /\ DOMAIN f = 0..n /\ f = [i \in 0..n |-> f[i]]
         /\ f[0] = q
         /\ \A i \in 1..n : f[i] = Through(ps, prt[i], f[i - 1])
<1>1. 0 \in 0..n /\ \A i \in 1..n : i \in 0..n /\ i # 0
  OBVIOUS
<1> QED BY <1>1 DEF ListsUpTo

LEMMA ListsType ==
  ASSUME NEW ps \in [Addr -> IocpParam], NEW prt \in Seq(Addr \cup {0}), NEW q \in Seq(Data)
  PROVE  \A i \in 0..Len(prt) : ListsAfter(ps, prt, q)[i] \in Seq(Data)
<1> DEFINE L == ListsAfter(ps, prt, q)
           S == {n \in Nat : n \in 0..Len(prt) => L[n] \in Seq(Data)}
<1>1. ListsUpTo(L, Len(prt), ps, prt, q) /\ Len(prt) \in Nat
  BY ListsDef
<1> HIDE DEF L
<1>2. L[0] = q /\ \A i \in 1..Len(prt) : L[i] = Through(ps, prt[i], L[i - 1])
  BY <1>1, ListsSteps
<1>3. 0 \in S
  BY <1>2
<1>4. ASSUME NEW n \in Nat, n \in S PROVE n + 1 \in S
  <2> SUFFICES ASSUME n + 1 \in 0..Len(prt) PROVE L[n + 1] \in Seq(Data)
    OBVIOUS
  <2>1. n \in 0..Len(prt) /\ n + 1 \in 1..Len(prt) /\ (n + 1) - 1 = n
    OBVIOUS
  <2>2. L[n] \in Seq(Data) /\ prt[n + 1] \in Addr \cup {0}
    BY <1>4, <2>1
  <2>3. L[n + 1] = Through(ps, prt[n + 1], L[n])
    BY <1>2, <2>1
  <2> QED BY <2>2, <2>3, ThroughType
<1>5. Nat \subseteq S
  <2> HIDE DEF S
  <2> QED BY <1>3, <1>4, SetInduction
<1> QED BY <1>5 DEF L

(* Two lists of lists that begin alike and go on alike are alike.           *)
LEMMA AlikeUpTo ==
  ASSUME NEW n \in Nat, NEW f, NEW g, f[0] = g[0],
         \A i \in 1..n : f[i - 1] = g[i - 1] => f[i] = g[i]
  PROVE  \A i \in 0..n : f[i] = g[i]
<1> DEFINE S == {k \in Nat : k \in 0..n => f[k] = g[k]}
<1>1. 0 \in S
  OBVIOUS
<1>2. ASSUME NEW k \in Nat, k \in S PROVE k + 1 \in S
  <2> SUFFICES ASSUME k + 1 \in 0..n PROVE f[k + 1] = g[k + 1]
    OBVIOUS
  <2>1. k \in 0..n /\ k + 1 \in 1..n /\ (k + 1) - 1 = k
    OBVIOUS
  <2> QED BY <1>2, <2>1
<1>3. Nat \subseteq S
  <2> HIDE DEF S
  <2> QED BY <1>1, <1>2, SetInduction
<1> QED BY <1>3

(* Only the IocpParams of packets in the port matter. *)
LEMMA ListsSame ==
  ASSUME NEW ps, NEW pt, NEW prt \in Seq(Addr \cup {0}), NEW q,
         \A a \in PacketsIn(prt) : ps[a] = pt[a]
  PROVE  ListsAfter(ps, prt, q) = ListsAfter(pt, prt, q)
<1> DEFINE L == ListsAfter(ps, prt, q)
           M == ListsAfter(pt, prt, q)
<1>1. /\ ListsUpTo(L, Len(prt), ps, prt, q) /\ Len(prt) \in Nat
      /\ ListsUpTo(M, Len(prt), pt, prt, q)
  BY ListsDef
<1> HIDE DEF L, M
<1>2. /\ L = [i \in 0..Len(prt) |-> L[i]] /\ L[0] = q
      /\ \A i \in 1..Len(prt) : L[i] = Through(ps, prt[i], L[i - 1])
  BY <1>1, ListsSteps
<1>3. /\ M = [i \in 0..Len(prt) |-> M[i]] /\ M[0] = q
      /\ \A i \in 1..Len(prt) : M[i] = Through(pt, prt[i], M[i - 1])
  BY <1>1, ListsSteps
<1>4. \A i \in 1..Len(prt) : \A r : Through(ps, prt[i], r) = Through(pt, prt[i], r)
  BY DEF Through, PacketsIn
<1>5. Len(prt) \in Nat
  OBVIOUS
<1>6. \A i \in 0..Len(prt) : L[i] = M[i]
  <2>1. L[0] = M[0]
    BY <1>2, <1>3
  <2>2. ASSUME NEW i \in 1..Len(prt), L[i - 1] = M[i - 1] PROVE L[i] = M[i]
    BY <1>2, <1>3, <1>4, <2>2
  <2> QED BY <1>5, <2>1, <2>2, AlikeUpTo
<1>7. L = M
  BY <1>2, <1>3, <1>6
<1> QED BY <1>7 DEF L, M

(* A packet that is posted comes after the others. *)
LEMMA ListsPosted ==
  ASSUME NEW ps, NEW prt \in Seq(Addr \cup {0}), NEW q, NEW a \in Addr \cup {0}
  PROVE  /\ \A i \in 0..Len(prt) :
               ListsAfter(ps, Append(prt, a), q)[i] = ListsAfter(ps, prt, q)[i]
         /\ ListsAfter(ps, Append(prt, a), q)[Len(prt) + 1]
              = Through(ps, a, ListsAfter(ps, prt, q)[Len(prt)])
<1> DEFINE r == Append(prt, a)
           L == ListsAfter(ps, prt, q)
           M == ListsAfter(ps, r, q)
<1>1. /\ Len(prt) \in Nat /\ Len(r) = Len(prt) + 1 /\ r \in Seq(Addr \cup {0})
      /\ \A i \in 1..Len(prt) : r[i] = prt[i]
      /\ r[Len(prt) + 1] = a
  OBVIOUS
<1> HIDE DEF r
<1>2. ListsUpTo(L, Len(prt), ps, prt, q) /\ ListsUpTo(M, Len(r), ps, r, q) /\ Len(r) \in Nat
  BY <1>1, ListsDef
<1> HIDE DEF L, M
<1>3. L[0] = q /\ \A i \in 1..Len(prt) : L[i] = Through(ps, prt[i], L[i - 1])
  BY <1>1, <1>2, ListsSteps
<1>4. M[0] = q /\ \A i \in 1..Len(r) : M[i] = Through(ps, r[i], M[i - 1])
  BY <1>2, ListsSteps
<1>5. \A i \in 1..Len(prt) : i \in 1..Len(r)
  BY <1>1
<1>6. \A i \in 0..Len(prt) : L[i] = M[i]
  <2>1. L[0] = M[0]
    BY <1>3, <1>4
  <2>2. ASSUME NEW i \in 1..Len(prt), L[i - 1] = M[i - 1] PROVE L[i] = M[i]
    BY <1>1, <1>3, <1>4, <1>5, <2>2
  <2>3. Len(prt) \in Nat
    BY <1>1
  <2> QED BY <2>1, <2>2, <2>3, AlikeUpTo
<1>7. M[Len(prt) + 1] = Through(ps, a, M[Len(prt)])
  <2>1. Len(prt) + 1 \in 1..Len(r) /\ (Len(prt) + 1) - 1 = Len(prt)
    BY <1>1
  <2> QED BY <1>1, <1>4, <2>1
<1>8. Len(prt) \in 0..Len(prt)
  BY <1>1
<1> QED BY <1>6, <1>7, <1>8 DEF r, L, M

(* When the worker takes the first packet it has that one to deal with, and *)
(* the others find what they would have found.                              *)
LEMMA ListsTaken ==
  ASSUME NEW ps, NEW prt \in Seq(Addr \cup {0}), NEW q, prt # <<>>
  PROVE  \A i \in 0..(Len(prt) - 1) :
            ListsAfter(ps, Tail(prt), Through(ps, Head(prt), q))[i] = ListsAfter(ps, prt, q)[i + 1]
<1> DEFINE r == Tail(prt)
           b == Through(ps, Head(prt), q)
           L == ListsAfter(ps, prt, q)
           M == ListsAfter(ps, r, b)
           N == [i \in 0..(Len(prt) - 1) |-> L[i + 1]]
<1>1. /\ Len(prt) \in Nat /\ Len(prt) >= 1 /\ Len(r) = Len(prt) - 1 /\ r \in Seq(Addr \cup {0})
      /\ \A i \in 1..(Len(prt) - 1) : r[i] = prt[i + 1]
      /\ Head(prt) = prt[1]
  OBVIOUS
<1> HIDE DEF r
<1>2. ListsUpTo(L, Len(prt), ps, prt, q) /\ ListsUpTo(M, Len(r), ps, r, b) /\ Len(r) \in Nat
  BY <1>1, ListsDef
<1> HIDE DEF L, M
<1>3. L[0] = q /\ \A i \in 1..Len(prt) : L[i] = Through(ps, prt[i], L[i - 1])
  BY <1>1, <1>2, ListsSteps
<1>4. M[0] = b /\ \A i \in 1..Len(r) : M[i] = Through(ps, r[i], M[i - 1])
  BY <1>2, ListsSteps
<1>5. M[0] = N[0]
  <2>1. 1 \in 1..Len(prt) /\ 1 - 1 = 0 /\ 0 \in 0..(Len(prt) - 1) /\ 0 + 1 = 1
    BY <1>1
  <2>2. L[1] = Through(ps, prt[1], L[0])
    BY <1>3, <2>1
  <2> QED BY <1>1, <1>3, <1>4, <2>1, <2>2
<1>6. ASSUME NEW i \in 1..(Len(prt) - 1), M[i - 1] = N[i - 1] PROVE M[i] = N[i]
  <2>1. /\ i \in 1..Len(r) /\ i + 1 \in 1..Len(prt) /\ (i + 1) - 1 = i /\ (i - 1) + 1 = i
        /\ i \in 0..(Len(prt) - 1) /\ i - 1 \in 0..(Len(prt) - 1)
    BY <1>1
  <2>2. N[i] = L[i + 1] /\ N[i - 1] = L[i]
    BY <2>1
  <2>3. L[i + 1] = Through(ps, prt[i + 1], L[i])
    BY <1>3, <2>1
  <2>4. M[i] = Through(ps, r[i], M[i - 1])
    BY <1>4, <2>1
  <2> QED BY <1>1, <1>6, <2>2, <2>3, <2>4
<1>7. \A i \in 0..(Len(prt) - 1) : M[i] = N[i]
  <2>1. Len(prt) - 1 \in Nat
    BY <1>1
  <2> HIDE DEF N
  <2> QED BY <1>5, <1>6, <2>1, AlikeUpTo
<1> QED BY <1>7 DEF r, L, M

-----------------------------------------------------------------------------
(* What the packets that are still to be dealt with ask for. *)

Due == {a \in Unfinished : a # cur \/ wpc = "deal"}

Wanted(p) == IF p = "popping" THEN EQPop ELSE EQSize

(* Nothing but a push carries a value, and PopFront's parameter holds T()   *)
(* until the worker has written the answer.                                 *)
RequestInv ==
    /\ \A t \in Threads : pc[t] \in Posting /\ Op(call[t]) # EQPush => param[call[t]].Data = NoData
    /\ \A t \in Threads : Waiting(t) /\ call[t] \in Due =>
          Op(call[t]) = Wanted(pc[t]) /\ param[call[t]].Data = NoData

FifoInv == OwnerInv /\ DtorInv /\ FrameInv /\ RequestInv

LEMMA RequestInit == Init => RequestInv
BY DEF Init, RequestInv, Waiting, Posting

(* A step after which no more is due and the calls are what they were.      *)
LEMMA RequestKept ==
  ASSUME RequestInv, Due' \subseteq Due,
         \A t \in Threads : \/ pc'[t] = pc[t] /\ call'[t] = call[t]
                            \/ pc'[t] = "idle",
         \A t \in Threads : pc[t] \in Posting \/ (Waiting(t) /\ call[t] \in Due') =>
                               param'[call[t]] = param[call[t]]
  PROVE  RequestInv'
<1>1. ASSUME NEW t \in Threads, pc'[t] \in Posting, param'[call'[t]].nOperator # EQPush
      PROVE  param'[call'[t]].Data = NoData
  <2>1. pc[t] \in Posting /\ call'[t] = call[t]
    BY <1>1 DEF Posting
  <2>2. param'[call[t]] = param[call[t]]
    BY <2>1
  <2> QED BY <1>1, <2>1, <2>2 DEF RequestInv, Op
<1>2. ASSUME NEW t \in Threads, pc'[t] \in {"popping", "sizing"}, call'[t] \in Due'
      PROVE  param'[call'[t]].nOperator = Wanted(pc'[t]) /\ param'[call'[t]].Data = NoData
  <2>1. pc'[t] = pc[t] /\ call'[t] = call[t]
    BY <1>2
  <2>2. Waiting(t) /\ call[t] \in Due' /\ param'[call[t]] = param[call[t]]
    BY <1>2, <2>1 DEF Waiting
  <2> QED BY <2>1, <2>2 DEF RequestInv, Op
<1> QED BY <1>1, <1>2 DEF RequestInv, Waiting, Op

(* Calls, by what they may do. *)
LEMMA CallKinds ==
  ASSUME NEW t \in Threads,
         (\E d \in Data : PushBack(t, d)) \/ PopFront(t) \/ Size(t) \/ Clear(t)
  PROVE  \E op \in OnHeap \cup OnStack, d \in Data : Call(t, op, d) /\ (op # EQPush => d = NoData)
BY QueueAssumption DEF PushBack, PopFront, Size, Clear, OnHeap, OnStack

LEMMA RequestStep ==
  ASSUME OwnerInv, FrameInv, RequestInv, [Next]_vars
  PROVE  RequestInv'
<1> USE DEF OwnerInv, BaseInv, FrameInv
<1>1. ASSUME NEW t \in Threads, NEW op \in OnHeap \cup OnStack, NEW d \in Data,
             Call(t, op, d), op # EQPush => d = NoData
      PROVE  RequestInv'
  <2> DEFINE a == ncalls + 1
  <2>4. /\ CallAt(t, op, d, a) /\ a \in Addr /\ a \notin Issued
        /\ m_lock => param' = param
    BY <1>1, FreshCall
  <2>1. Due' = Due /\ cur' = cur
    BY <2>4 DEF CallAt, Due, Unfinished, InPort, PacketsIn, workerVars
  <2>2. CASE m_lock
    BY <2>1, <2>2, <2>4, RequestKept DEF CallAt
  <2>3. CASE ~m_lock
    <3>1. /\ pc' = [pc EXCEPT ![t] = Entered(op)] /\ call' = [call EXCEPT ![t] = a] /\ a \in Addr
          /\ a \notin Issued
      BY <2>3, <2>4 DEF CallAt
    <3>2. PICK ev : param' = [param EXCEPT ![a] = [nOperator |-> op, Data |-> d, hEvent |-> ev]]
      BY <2>3, <2>4 DEF CallAt
    <3>3. param'[a].nOperator = op /\ param'[a].Data = d /\ \A b \in Addr \ {a} : param'[b] = param[b]
      BY <3>1, <3>2 DEF TypeOK
    <3>4. \A u \in Threads \ {t} : pc'[u] = pc[u] /\ call'[u] = call[u]
      BY <3>1 DEF TypeOK
    <3>5. pc'[t] \in Posting /\ pc'[t] \notin {"popping", "sizing"} /\ call'[t] = a
      BY <3>1 DEF TypeOK, Entered, Posting
    <3>6. \A u \in Threads : pc[u] # "idle" => call[u] \in Addr \ {a}
      BY <3>1 DEF CallsInv, IssuedInv, TypeOK
    <3>7. \A u \in Threads \ {t} : pc[u] \in Posting \/ Waiting(u) =>
                                      param'[call[u]] = param[call[u]]
      BY <3>3, <3>6 DEF Posting, Waiting
    <3> QED BY <1>1, <2>1, <3>3, <3>4, <3>5, <3>7 DEF RequestInv, Waiting, Op
  <2> QED BY <2>2, <2>3
<1>2. ASSUME NEW t \in Threads, PostOK(t) PROVE RequestInv'
  <2> DEFINE a == call[t]
  <2>1. /\ pc[t] \in Posting /\ a \in Addr /\ param' = param /\ cur' = cur /\ wpc' = wpc
        /\ port' = Append(port, a)
    BY <1>2 DEF PostOK, workerVars, CallsInv, TypeOK, Posting
  <2>2. InPort' = InPort \cup {a} /\ a # 0
    <3>1. PacketsIn(Append(port, a)) = PacketsIn(port) \cup ({a} \ {0})
      BY <2>1, PostedPackets DEF TypeOK
    <3> QED BY <2>1, <3>1 DEF InPort, Addr
  <2>3. Due' \subseteq Due \cup {a}
    BY <2>1, <2>2 DEF Due, Unfinished
  <2>4. \A u \in Threads \ {t} : pc'[u] = pc[u] /\ call'[u] = call[u] /\ (pc[u] # "idle" => call[u] # a)
    BY <1>2, <2>2 DEF PostOK, TypeOK, CallsInv
  <2>5. Op(a) \in OnHeap => pc'[t] = "idle"
    BY <1>2, <2>1 DEF PostOK, TypeOK, PostInv, Entered, OnHeap, EQPush, EQPop, EQSize, EQClear
  <2>6. Op(a) \in OnStack => Op(a) = Wanted(pc'[t]) /\ call'[t] = a /\ param[a].Data = NoData
    <3> SUFFICES ASSUME Op(a) \in OnStack
                 PROVE  Op(a) = Wanted(pc'[t]) /\ call'[t] = a /\ param[a].Data = NoData
      OBVIOUS
    <3>1. Op(a) \in {EQPop, EQSize} /\ Op(a) \notin OnHeap /\ Op(a) # EQPush
      BY DEF OnStack, OnHeap, EQPush, EQPop, EQSize, EQClear
    <3>2. pc'[t] = (IF Op(a) = EQPop THEN "popping" ELSE "sizing") /\ call'[t] = a
      BY <1>2, <2>1, <3>1 DEF PostOK, TypeOK, PostInv, Entered, EQPop, EQSize
    <3>3. param[a].Data = NoData
      BY <2>1, <3>1 DEF RequestInv
    <3> QED BY <3>1, <3>2, <3>3 DEF Wanted
  <2>7. Op(a) \in OnHeap \cup OnStack
    BY <2>1 DEF PostInv
  <2>8. pc'[t] \notin Posting
    BY <1>2 DEF PostOK, TypeOK, Posting
  <2> QED BY <2>1, <2>3, <2>4, <2>5, <2>6, <2>7, <2>8 DEF RequestInv, Waiting, Op
<1>3. ASSUME NEW t \in Threads, PostFail(t) \/ Wake(t) PROVE RequestInv'
  <2>1. ~WakeFailed(t) /\ param' = param
    BY <1>3, CleanReturn
  <2>2. /\ param' = param /\ port' = port /\ cur' = cur /\ wpc' = wpc
        /\ pc' = [pc EXCEPT ![t] = "idle"] /\ call' = [call EXCEPT ![t] = 0]
    BY <1>3, <2>1 DEF PostFail, Wake, WakeAnswered, workerVars
  <2>3. Due' = Due
    BY <2>2 DEF Due, Unfinished, InPort, PacketsIn
  <2> QED BY <2>2, <2>3, RequestKept DEF TypeOK
<1>4. CASE Get
  <2>1. /\ param' = param /\ pc' = pc /\ call' = call /\ port' = Tail(port) /\ port # <<>>
        /\ \/ cur' = 0 /\ cur = 0
           \/ cur' = Head(port)
    BY <1>4 DEF Get, callerVars, TypeOK
  <2>2. InPort' \subseteq InPort /\ (Head(port) # 0 => Head(port) \in InPort)
    BY <2>1, TakenPackets DEF InPort, TypeOK, DealtOnce
  <2>3. cur = 0
    BY <1>4 DEF Get, TypeOK
  <2>4. Due' \subseteq Due
    BY <2>1, <2>2, <2>3 DEF Due, Unfinished
  <2> QED BY <2>1, <2>4, RequestKept
<1>5. CASE DealPush \/ DealClear \/ DeleteFrame \/ DealUnknown \/ Signal \/ GetNothing \/ Close \/ Destructor
           \/ UNCHANGED vars
  <2>1. param' = param /\ pc' = pc /\ call' = call
    BY <1>5 DEF DealPush, DealClear, DeleteFrame, DealUnknown, Signal, GetNothing, Close, Destructor, DtorLock,
       DtorPost, DtorJoin, callerVars, workerVars, vars
  <2>2. InPort' \subseteq InPort
    <3>1. CASE port' = port
      BY <3>1 DEF InPort, PacketsIn
    <3>2. CASE port' = <<>>
      BY <3>2 DEF InPort, PacketsIn
    <3>3. CASE port' = Append(port, 0)
      BY <3>3, PostedPackets DEF InPort, TypeOK
    <3> QED BY <1>5, <3>1, <3>2, <3>3 DEF DealPush, DealClear, DeleteFrame, DealUnknown, Signal, GetNothing, Close,
            Destructor, DtorLock, DtorPost, DtorJoin, vars
  <2>3. \/ cur' = cur /\ (wpc' = wpc \/ wpc' # "deal")
        \/ cur' = 0
    BY <1>5 DEF DealPush, DealClear, DeleteFrame, DealUnknown, Signal, GetNothing, Close, Destructor, DtorLock,
       DtorPost, DtorJoin, callerVars, workerVars, vars
  <2>4. Due' \subseteq Due
    BY <2>2, <2>3 DEF Due, Unfinished, DealtOnce
  <2> QED BY <2>1, <2>4, RequestKept
<1>6. CASE DealPop \/ DealSize
  <2>1. /\ pc' = pc /\ call' = call /\ port' = port /\ wpc' # "deal" /\ (cur' = cur \/ cur' = 0)
        /\ wpc = "deal"
    BY <1>6 DEF DealPop, DealSize, AnswerWritten, callerVars
  <2>2. \A a \in Addr \ {cur} : param'[a] = param[a]
    BY <1>6 DEF DealPop, DealSize, TypeOK
  <2>3. Due' \subseteq Due \ {cur}
    BY <2>1 DEF Due, Unfinished, InPort, PacketsIn, DealtOnce
  <2>4. cur \in Unfinished
    BY <2>1 DEF Unfinished, TypeOK, Addr
  <2>5. \A t \in Threads : pc[t] \in Posting => call[t] \in Addr \ {cur}
    BY <2>4 DEF PostInv, CallsInv, TypeOK, Posting
  <2>6. \A t \in Threads : Waiting(t) => call[t] \in Addr
    BY DEF Waiting, CallsInv, TypeOK
  <2> QED BY <2>1, <2>2, <2>3, <2>5, <2>6, RequestKept
<1> QED BY <1>1, <1>2, <1>3, <1>4, <1>5, <1>6, CallKinds DEF Next, Post, Worker, DealParam

-----------------------------------------------------------------------------
(* The refinement.  Items, Asked and Answers, a step at a time. *)

LEMMA ListsNext ==
  /\ Lists' = ListsAfter(param', port', Dealt')
  /\ Dealt' = IF wpc' = "deal" THEN Applied(param'[cur'], lst') ELSE lst'
  /\ Items' = Lists'[Len(port')]
<1>1. Lists' = ListsAfter(param', port', Dealt')
  BY DEF Lists, ListsAfter, Applied
<1>2. Dealt' = IF wpc' = "deal" THEN Applied(param'[cur'], lst') ELSE lst'
  BY DEF Dealt, Applied
<1> QED BY <1>1, <1>2 DEF Items

LEMMA PositionOf ==
  ASSUME NEW prt, NoDup(prt), NEW i \in DOMAIN prt, prt[i] # 0
  PROVE  (CHOOSE j \in DOMAIN prt : prt[j] = prt[i]) = i
<1> DEFINE j == CHOOSE j \in DOMAIN prt : prt[j] = prt[i]
<1>1. j \in DOMAIN prt /\ prt[j] = prt[i]
  OBVIOUS
<1> QED BY <1>1 DEF NoDup

(* The answer each caller will get, by where its packet is. *)
AnswersAre ==
    \A t \in Threads :
        /\ ~Waiting(t) => Answers[t] = Failed
        /\ Waiting(t) /\ wpc = "deal" /\ cur = call[t] =>
              Answers[t] = AnswerOn(Wanted(pc[t]), lst)
        /\ \A i \in DOMAIN port : Waiting(t) /\ port[i] = call[t] =>
              Answers[t] = AnswerOn(Wanted(pc[t]), Lists[i - 1])
        /\ Waiting(t) /\ call[t] \notin Due =>
              Answers[t] = Answer(Wanted(pc[t]), param[call[t]])

LEMMA AnswersNow == FifoInv => AnswersAre
<1> SUFFICES ASSUME FifoInv, NEW t \in Threads
             PROVE  /\ ~Waiting(t) => Answers[t] = Failed
                    /\ Waiting(t) /\ wpc = "deal" /\ cur = call[t] =>
                          Answers[t] = AnswerOn(Wanted(pc[t]), lst)
                    /\ \A i \in DOMAIN port : Waiting(t) /\ port[i] = call[t] =>
                          Answers[t] = AnswerOn(Wanted(pc[t]), Lists[i - 1])
                    /\ Waiting(t) /\ call[t] \notin Due =>
                          Answers[t] = Answer(Wanted(pc[t]), param[call[t]])
  BY DEF AnswersAre
<1>1. Answers[t] = AnswerFor(t)
  BY DEF Answers
<1>2. Waiting(t) => call[t] # 0
  BY DEF FifoInv, OwnerInv, BaseInv, CallsInv, Waiting
<1>3. NoDup(port) /\ cur \notin InPort
  BY DEF FifoInv, OwnerInv, BaseInv, DealtOnce
<1>4. ~Waiting(t) => Answers[t] = Failed
  BY <1>1 DEF AnswerFor
<1>5. Waiting(t) /\ wpc = "deal" /\ cur = call[t] => Answers[t] = AnswerOn(Wanted(pc[t]), lst)
  BY <1>1 DEF AnswerFor, Wanted
<1>6. ASSUME NEW i \in DOMAIN port, Waiting(t), port[i] = call[t]
      PROVE  Answers[t] = AnswerOn(Wanted(pc[t]), Lists[i - 1])
  <2>1. call[t] \in InPort /\ cur # call[t]
    BY <1>2, <1>3, <1>6 DEF InPort, PacketsIn
  <2>2. (CHOOSE j \in DOMAIN port : port[j] = call[t]) = i
    BY <1>2, <1>3, <1>6, PositionOf
  <2> QED BY <1>1, <1>6, <2>1, <2>2 DEF AnswerFor, Wanted
<1>7. Waiting(t) /\ call[t] \notin Due => Answers[t] = Answer(Wanted(pc[t]), param[call[t]])
  <2> SUFFICES ASSUME Waiting(t), call[t] \notin Due
               PROVE  Answers[t] = Answer(Wanted(pc[t]), param[call[t]])
    OBVIOUS
  <2>1. ~(wpc = "deal" /\ cur = call[t])
    BY <1>2 DEF Due, Unfinished
  <2>2. call[t] \notin InPort
    BY <1>2, <1>3 DEF Due, Unfinished
  <2> QED BY <1>1, <2>1, <2>2 DEF AnswerFor, Wanted
<1> QED BY <1>4, <1>5, <1>6, <1>7

LEMMA AnswersThen == FifoInv' => AnswersAre'
BY AnswersNow, PTL

LEMMA AnswersNext ==
  ASSUME FifoInv', NEW t \in Threads
  PROVE  /\ pc'[t] \notin {"popping", "sizing"} => Answers'[t] = Failed
         /\ pc'[t] \in {"popping", "sizing"} /\ wpc' = "deal" /\ cur' = call'[t] =>
               Answers'[t] = AnswerOn(Wanted(pc'[t]), lst')
         /\ \A i \in DOMAIN port' : pc'[t] \in {"popping", "sizing"} /\ port'[i] = call'[t] =>
               Answers'[t] = AnswerOn(Wanted(pc'[t]), Lists'[i - 1])
         /\ pc'[t] \in {"popping", "sizing"} /\ call'[t] \notin Due' =>
               Answers'[t] = Answer(Wanted(pc'[t]), param'[call'[t]])
<1>1. AnswersAre'
  BY AnswersThen
<1> QED BY <1>1 DEF AnswersAre, Waiting, AnswerOn, Answer, Wanted

(* A caller whose packet stays where it is keeps its answer. *)
LEMMA AnswerKept ==
  ASSUME FifoInv, FifoInv', NEW t \in Threads,
         \/ pc'[t] = pc[t] /\ call'[t] = call[t]
         \/ pc'[t] \notin {"popping", "sizing"} /\ ~Waiting(t),
         Waiting(t) =>
            /\ \A i \in DOMAIN port : port[i] = call[t] =>
                  i \in DOMAIN port' /\ port'[i] = call[t] /\ Lists'[i - 1] = Lists[i - 1]
            /\ wpc = "deal" /\ cur = call[t] => wpc' = "deal" /\ cur' = cur /\ lst' = lst
            /\ call[t] \notin Due => call[t] \notin Due' /\ param'[call[t]] = param[call[t]]
  PROVE  Answers'[t] = Answers[t]
<1>1. CASE ~Waiting(t)
  <2>1. pc'[t] \notin {"popping", "sizing"}
    BY <1>1 DEF Waiting
  <2> QED BY <1>1, <2>1, AnswersNow, AnswersNext DEF AnswersAre
<1>2. CASE Waiting(t)
  <2>1. pc'[t] = pc[t] /\ call'[t] = call[t] /\ pc'[t] \in {"popping", "sizing"}
    BY <1>2 DEF Waiting
  <2>2. CASE wpc = "deal" /\ cur = call[t]
    <3>1. Answers[t] = AnswerOn(Wanted(pc[t]), lst)
      BY <1>2, <2>2, AnswersNow DEF AnswersAre
    <3>2. Answers'[t] = AnswerOn(Wanted(pc'[t]), lst')
      BY <1>2, <2>1, <2>2, AnswersNext
    <3> QED BY <1>2, <2>1, <2>2, <3>1, <3>2
  <2>3. CASE \E i \in DOMAIN port : port[i] = call[t]
    <3>1. PICK i \in DOMAIN port : port[i] = call[t]
      BY <2>3
    <3>2. Answers[t] = AnswerOn(Wanted(pc[t]), Lists[i - 1])
      BY <1>2, <3>1, AnswersNow DEF AnswersAre
    <3>3. i \in DOMAIN port' /\ port'[i] = call'[t] /\ Lists'[i - 1] = Lists[i - 1]
      BY <1>2, <2>1, <3>1
    <3>4. Answers'[t] = AnswerOn(Wanted(pc'[t]), Lists'[i - 1])
      BY <2>1, <3>3, AnswersNext
    <3> QED BY <2>1, <3>2, <3>3, <3>4
  <2>4. CASE call[t] \notin Due
    <3>1. Answers[t] = Answer(Wanted(pc[t]), param[call[t]])
      BY <1>2, <2>4, AnswersNow DEF AnswersAre
    <3>2. call'[t] \notin Due' /\ param'[call'[t]] = param[call[t]]
      BY <1>2, <2>1, <2>4
    <3>3. Answers'[t] = Answer(Wanted(pc'[t]), param'[call'[t]])
      BY <2>1, <3>2, AnswersNext
    <3> QED BY <2>1, <3>1, <3>2, <3>3
  <2>5. call[t] \in Due => (wpc = "deal" /\ cur = call[t]) \/ \E i \in DOMAIN port : port[i] = call[t]
    BY DEF Due, Unfinished, InPort, PacketsIn
  <2> QED BY <2>2, <2>3, <2>4, <2>5
<1> QED BY <1>1, <1>2

LEMMA AnswersKept ==
  ASSUME \A t \in Threads : Answers'[t] = Answers[t]
  PROVE  Answers' = Answers
BY DEF Answers

LEMMA AskedKept ==
  ASSUME pc' = pc, call' = call,
         \A t \in Threads : pc[t] \in Posting => param'[call[t]] = param[call[t]]
  PROVE  Asked' = Asked
<1>1. ASSUME NEW t \in Threads PROVE Asked'[t] = Asked[t]
  BY DEF Asked, RequestOf
<1> QED BY <1>1 DEF Asked

(* The worker's step on one packet, and on an event, when the port is not   *)
(* touched: the lists the other packets will find are what they were.       *)
LEMMA ListsKept ==
  ASSUME FifoInv, port' = port, Dealt' = Dealt,
         \A a \in InPort : param'[a] = param[a]
  PROVE  Lists' = Lists /\ Items' = Items
<1>1. Lists = ListsAfter(param, port, Dealt) /\ Items = Lists[Len(port)]
  BY DEF Lists, Items
<1>2. Lists' = ListsAfter(param', port, Dealt) /\ Items' = Lists'[Len(port)]
  BY ListsNext
<1>3. ListsAfter(param, port, Dealt) = ListsAfter(param', port, Dealt)
  <2>1. port \in Seq(Addr \cup {0})
    BY DEF FifoInv, OwnerInv, BaseInv, TypeOK
  <2>2. \A a \in PacketsIn(port) : param[a] = param'[a]
    BY DEF InPort
  <2> QED BY <2>1, <2>2, ListsSame
<1> QED BY <1>1, <1>2, <1>3

LEMMA FifoDeal ==
  ASSUME FifoInv, FifoInv', DealParam
  PROVE  UNCHANGED <<Items, Asked, Answers, reply>>
<1> USE DEF FifoInv, OwnerInv, BaseInv, FrameInv
<1>1. wpc = "deal" /\ cur \in Addr /\ cur \notin InPort /\ cur \in Unfinished /\ cur \in Due
  BY DEF DealParam, DealPush, DealClear, DeleteFrame, DealPop, DealSize, DealUnknown, TypeOK, DealtOnce,
     Unfinished, Addr, Due
<1>2. Op(cur) \in OnHeap \cup OnStack
  BY <1>1 DEF DueInv, NoDanglingParam, Unfinished
<1>3. ~DealUnknown /\ ~DeleteFrame
  BY <1>2, NoFrameDeleted DEF DealUnknown, Op
<1>4. /\ port' = port /\ pc' = pc /\ call' = call /\ reply' = reply /\ wpc' # "deal"
      /\ cur' \in {cur, 0}
  BY <1>3 DEF DealParam, DealPush, DealClear, DealPop, DealSize, AnswerWritten, callerVars
<1>5. \A a \in Addr \ {cur} : param'[a] = param[a]
  BY <1>3 DEF DealParam, DealPush, DealClear, DealPop, DealSize, TypeOK
<1>6. lst' = Applied(param[cur], lst)
  BY <1>3 DEF DealParam, DealPush, DealClear, DealPop, DealSize, Applied, EQPush, EQPop, EQSize, EQClear
<1>7. InPort \subseteq Addr
  <2>1. \A i \in DOMAIN port : port[i] \in Addr \cup {0}
    BY DEF TypeOK
  <2> QED BY <2>1 DEF InPort, PacketsIn
<1>8. Lists' = Lists /\ Items' = Items
  <2>1. Dealt' = Dealt
    BY <1>1, <1>4, <1>6, ListsNext DEF Dealt
  <2>2. \A a \in InPort : param'[a] = param[a]
    BY <1>1, <1>5, <1>7
  <2> QED BY <1>4, <2>1, <2>2, ListsKept
<1>9. Asked' = Asked
  <2>1. \A t \in Threads : pc[t] \in Posting => call[t] \in Addr \ {cur}
    BY <1>1 DEF PostInv, CallsInv, TypeOK, Posting
  <2> QED BY <1>4, <1>5, <2>1, AskedKept
<1>10. Due' = Due \ {cur}
  BY <1>1, <1>4 DEF Due, Unfinished, InPort, PacketsIn
<1>11. ASSUME NEW t \in Threads PROVE Answers'[t] = Answers[t]
  <2>1. CASE call[t] # cur
    <3>1. Waiting(t) => call[t] \in Addr
      BY DEF Waiting, CallsInv, TypeOK
    <3> QED BY <1>4, <1>5, <1>8, <1>10, <2>1, <3>1, AnswerKept
  <2>2. CASE call[t] = cur
    <3>1. Waiting(t)
      <4>1. cur # 0
        BY <1>1 DEF Addr
      <4>2. pc[t] # "idle" /\ pc[t] \notin Posting
        BY <1>1, <2>2, <4>1 DEF CallsInv, PostInv
      <4> QED BY <4>2 DEF Waiting, TypeOK, Posting
    <3>2. Op(cur) = Wanted(pc[t]) /\ param[cur].Data = NoData /\ Op(cur) \in {EQPop, EQSize}
      BY <1>1, <2>2, <3>1 DEF RequestInv, Wanted
    <3>3. Answers[t] = AnswerOn(Op(cur), lst)
      BY <1>1, <2>2, <3>1, <3>2, AnswersNow DEF AnswersAre
    <3>4. pc'[t] \in {"popping", "sizing"} /\ call'[t] \notin Due' /\ Wanted(pc'[t]) = Op(cur)
      BY <1>4, <1>10, <2>2, <3>1, <3>2 DEF Waiting
    <3>5. Answers'[t] = Answer(Op(cur), param'[cur])
      BY <1>4, <2>2, <3>4, AnswersNext
    <3>6. CASE DealPop
      <4>1. Op(cur) = EQPop
        BY <3>6 DEF DealPop, Op
      <4>2. param[cur] \in IocpParam /\ param' \in [Addr -> IocpParam]
        BY <1>1 DEF TypeOK
      <4>3. param'[cur].Data = IF lst = <<>> THEN NoData ELSE Head(lst)
        BY <1>1, <3>2, <3>6, <4>2 DEF DealPop, TypeOK, IocpParam
      <4> QED BY <3>3, <3>5, <4>1, <4>3 DEF Answer, AnswerOn, EQPop, EQSize
    <3>7. CASE DealSize
      <4>1. Op(cur) = EQSize
        BY <3>7 DEF DealSize, Op
      <4>2. param[cur] \in IocpParam
        BY <1>1 DEF TypeOK
      <4>3. param'[cur].nOperator = Len(lst)
        BY <1>1, <3>7, <4>2 DEF DealSize, TypeOK, IocpParam
      <4> QED BY <3>3, <3>5, <4>1, <4>3 DEF Answer, AnswerOn, EQPop, EQSize
    <3> QED BY <1>3, <3>2, <3>6, <3>7 DEF DealParam, DealPush, DealClear, Op, EQPush, EQPop, EQSize, EQClear
  <2> QED BY <2>1, <2>2
<1> QED BY <1>4, <1>8, <1>9, <1>11, AnswersKept

LEMMA FifoGet ==
  ASSUME FifoInv, FifoInv', Get
  PROVE  UNCHANGED <<Items, Asked, Answers, reply>>
<1> USE DEF FifoInv, OwnerInv, BaseInv, FrameInv
<1>1. /\ wpc = "get" /\ cur = 0 /\ port # <<>> /\ port' = Tail(port) /\ lst' = lst /\ param' = param
      /\ pc' = pc /\ call' = call /\ reply' = reply
      /\ IF Head(port) = 0 THEN wpc' = "get" /\ cur' = 0 ELSE wpc' = "deal" /\ cur' = Head(port)
  BY DEF Get, callerVars, TypeOK
<1>2. /\ port \in Seq(Addr \cup {0}) /\ Len(port) \in Nat /\ Len(port) >= 1
      /\ Len(port') = Len(port) - 1 /\ Head(port) = port[1]
      /\ \A i \in 1..(Len(port) - 1) : port'[i] = port[i + 1]
  BY <1>1 DEF TypeOK
<1>3. Dealt = lst /\ Dealt' = Through(param, Head(port), lst)
  BY <1>1, ListsNext DEF Dealt, Through
<1>4. \A i \in 0..(Len(port) - 1) : Lists'[i] = Lists[i + 1]
  <2>1. Lists = ListsAfter(param, port, lst)
    BY <1>3 DEF Lists
  <2>2. Lists' = ListsAfter(param, Tail(port), Through(param, Head(port), lst))
    BY <1>1, <1>3, ListsNext
  <2> QED BY <1>1, <1>2, <2>1, <2>2, ListsTaken
<1>5. Items' = Items
  <2>1. Len(port) - 1 \in 0..(Len(port) - 1) /\ (Len(port) - 1) + 1 = Len(port)
    BY <1>2
  <2> QED BY <1>2, <1>4, <2>1, ListsNext DEF Items
<1>6. Lists[0] = lst
  <2>1. ListsUpTo(Lists, Len(port), param, port, lst)
    BY <1>2, <1>3, ListsDef DEF Lists
  <2> HIDE DEF FifoInv
  <2> QED BY <1>2, <2>1, ListsSteps
<1>7. Asked' = Asked
  BY <1>1, AskedKept
<1>8. Due = InPort /\ Due' \subseteq Due
  <2>1. PacketsIn(Tail(port)) \subseteq PacketsIn(port) /\ (Head(port) # 0 => Head(port) \in PacketsIn(port))
    BY <1>1, <1>2, TakenPackets DEF DealtOnce
  <2> QED BY <1>1, <2>1 DEF Due, Unfinished, InPort, PacketsIn
<1>9. ASSUME NEW t \in Threads PROVE Answers'[t] = Answers[t]
  <2>1. CASE ~Waiting(t)
    BY <1>1, <2>1, AnswerKept
  <2>2. CASE Waiting(t) /\ call[t] \notin Due
    <3>1. \A i \in DOMAIN port : port[i] # call[t]
      BY <1>8, <2>2 DEF InPort, PacketsIn, CallsInv, Waiting
    <3> QED BY <1>1, <1>8, <2>2, <3>1, AnswerKept
  <2>3. CASE Waiting(t) /\ call[t] \in Due
    <3>1. PICK i \in DOMAIN port : port[i] = call[t] /\ call[t] # 0
      BY <1>8, <2>3 DEF InPort, PacketsIn
    <3>2. Answers[t] = AnswerOn(Wanted(pc[t]), Lists[i - 1])
      BY <2>3, <3>1, AnswersNow DEF AnswersAre
    <3>3. pc'[t] \in {"popping", "sizing"} /\ pc'[t] = pc[t] /\ call'[t] = call[t]
      BY <1>1, <2>3 DEF Waiting
    <3>4. i \in 1..Len(port)
      BY <1>2, <3>1
    <3>5. CASE i = 1
      <4>1. wpc' = "deal" /\ cur' = call'[t]
        BY <1>1, <1>2, <3>1, <3>3, <3>5
      <4>2. Answers'[t] = AnswerOn(Wanted(pc'[t]), lst')
        BY <3>3, <4>1, AnswersNext
      <4> QED BY <1>1, <1>6, <3>2, <3>3, <3>5, <4>2
    <3>6. CASE i # 1
      <4>1. /\ i - 1 \in 1..(Len(port) - 1) /\ (i - 1) + 1 = i /\ i - 1 \in 1..Len(port')
            /\ (i - 1) - 1 \in 0..(Len(port) - 1) /\ ((i - 1) - 1) + 1 = i - 1
        BY <1>2, <3>4, <3>6
      <4>2. port'[i - 1] = call'[t] /\ Lists'[(i - 1) - 1] = Lists[i - 1]
        BY <1>2, <1>4, <3>1, <3>3, <4>1
      <4>3. i - 1 \in DOMAIN port'
        BY <1>1, <1>2, <4>1
      <4>4. Answers'[t] = AnswerOn(Wanted(pc'[t]), Lists'[(i - 1) - 1])
        BY <3>3, <4>2, <4>3, AnswersNext
      <4> QED BY <3>2, <3>3, <4>2, <4>4
    <3> QED BY <3>5, <3>6
  <2> QED BY <2>1, <2>2, <2>3
<1> QED BY <1>1, <1>5, <1>7, <1>9, AnswersKept

(* The other steps that nobody outside sees. *)
LEMMA FifoOther ==
  ASSUME FifoInv, FifoInv', GetNothing \/ Signal \/ Close \/ Destructor \/ UNCHANGED vars
  PROVE  UNCHANGED <<Items, Asked, Answers, reply>>
<1> USE DEF FifoInv, OwnerInv, BaseInv, FrameInv
<1>1. /\ pc' = pc /\ call' = call /\ reply' = reply /\ param' = param /\ lst' = lst
      /\ Asked' = Asked
  <2>1. pc' = pc /\ call' = call /\ reply' = reply /\ param' = param /\ lst' = lst
    BY DEF GetNothing, Signal, Close, Destructor, DtorLock, DtorPost, DtorJoin, vars, callerVars
  <2> QED BY <2>1, AskedKept
<1>2. Dealt' = Dealt
  <2>1. \/ wpc' = wpc /\ cur' = cur
        \/ wpc' # "deal" /\ wpc # "deal"
    BY DEF GetNothing, Signal, Close, Destructor, DtorLock, DtorPost, DtorJoin, vars, workerVars
  <2> QED BY <1>1, <2>1, ListsNext DEF Dealt
<1>3. CASE port' = port
  <2>1. Lists' = Lists /\ Items' = Items
    BY <1>1, <1>2, <1>3, ListsKept
  <2>2. Due' \subseteq Due /\ (wpc = "deal" => wpc' = "deal" /\ cur' = cur)
    <3>1. \/ wpc' = wpc /\ cur' = cur
          \/ wpc' # "deal" /\ wpc # "deal" /\ cur' \in {cur, 0}
      BY DEF GetNothing, Signal, Close, Destructor, DtorLock, DtorPost, DtorJoin, vars, workerVars
    <3>2. InPort' = InPort
      BY <1>3 DEF InPort, PacketsIn
    <3> QED BY <3>1, <3>2 DEF Due, Unfinished, DealtOnce
  <2>3. ASSUME NEW t \in Threads PROVE Answers'[t] = Answers[t]
    BY <1>1, <1>3, <2>1, <2>2, AnswerKept
  <2> QED BY <1>1, <2>1, <2>3, AnswersKept
<1>4. CASE port' # port
  <2>1. DtorPost /\ port' = Append(port, 0)
    BY <1>4 DEF GetNothing, Signal, Close, Destructor, DtorLock, DtorPost, DtorJoin, vars, DtorInv
  <2>2. \A t \in Threads : pc[t] = "idle"
    BY <2>1 DEF DtorPost, DtorInv, m_lock
  <2>3. port \in Seq(Addr \cup {0}) /\ Len(port) \in Nat /\ Len(port') = Len(port) + 1
    BY <2>1 DEF TypeOK
  <2>4. Lists'[Len(port) + 1] = Lists[Len(port)]
    <3>1. Lists' = ListsAfter(param, Append(port, 0), Dealt) /\ Lists = ListsAfter(param, port, Dealt)
      BY <1>1, <1>2, <2>1, ListsNext DEF Lists
    <3> QED BY <2>3, <3>1, ListsPosted DEF Through
  <2>5. Items' = Items
    BY <2>3, <2>4, ListsNext DEF Items
  <2>6. ASSUME NEW t \in Threads PROVE Answers'[t] = Answers[t]
    BY <1>1, <2>2, AnswerKept DEF Waiting
  <2> QED BY <1>1, <2>5, <2>6, AnswersKept
<1> QED BY <1>3, <1>4

LEMMA FifoCall ==
  ASSUME FifoInv, FifoInv', NEW t \in Threads, NEW op \in OnHeap \cup OnStack, NEW d \in Data,
         Call(t, op, d), op # EQPush => d = NoData
  PROVE  Fifo!Next
<1> USE DEF FifoInv, OwnerInv, BaseInv, FrameInv
<1> DEFINE a == ncalls + 1
<1>6. /\ pc[t] = "idle" /\ CallAt(t, op, d, a) /\ a \in Addr /\ a \notin Issued
      /\ m_lock => param' = param
  BY FreshCall
<1>1. /\ pc[t] = "idle" /\ port' = port /\ lst' = lst /\ wpc' = wpc /\ cur' = cur /\ ncalls' = ncalls + 1
  BY <1>6 DEF CallAt, workerVars
<1>2. Due' = Due
  BY <1>1 DEF Due, Unfinished, InPort, PacketsIn
<1>3. Asked[t] = [op |-> "none", data |-> NoData] /\ Answers[t] = Failed
  BY <1>1, AnswersNow DEF AnswersAre, Asked, Waiting, Posting
<1>4. CASE m_lock
  <2>1. /\ param' = param /\ pc' = pc /\ call' = call /\ reply' = [reply EXCEPT ![t] = Failed]
    BY <1>4, <1>6 DEF CallAt
  <2>2. Lists' = Lists /\ Items' = Items
    BY <1>1, <2>1, ListsKept, ListsNext DEF Dealt
  <2>3. ASSUME NEW u \in Threads PROVE Answers'[u] = Answers[u]
    BY <1>1, <1>2, <2>1, <2>2, AnswerKept
  <2>4. Asked' = Asked /\ Answers' = Answers
    BY <2>1, <2>3, AskedKept, AnswersKept
  <2>5. Asked = [Asked EXCEPT ![t] = [op |-> "none", data |-> NoData]]
    BY <1>3 DEF Asked
  <2>6. Fifo!Refuse(t)
    BY <1>3, <2>1, <2>2, <2>4, <2>5 DEF Fifo!Refuse, Fifo!None, Fifo!Failed, Failed
  <2> QED BY <2>6 DEF Fifo!Next
<1>5. CASE ~m_lock
  <2>1. PICK ev : param' = [param EXCEPT ![a] = [nOperator |-> op, Data |-> d, hEvent |-> ev]]
    BY <1>5, <1>6 DEF CallAt
  <2>2. /\ pc' = [pc EXCEPT ![t] = Entered(op)] /\ call' = [call EXCEPT ![t] = a] /\ reply' = reply
        /\ a \in Addr /\ a \notin Issued
    BY <1>5, <1>6 DEF CallAt
  <2>3. param'[a].nOperator = op /\ param'[a].Data = d /\ \A b \in Addr \ {a} : param'[b] = param[b]
    BY <2>1, <2>2 DEF TypeOK
  <2>4. InPort \subseteq Addr \ {a} /\ (wpc = "deal" => cur \in Addr \ {a})
    <3>1. Unfinished \subseteq Issued /\ Issued \subseteq Addr /\ 0 \notin Addr
      BY QueueAssumption DEF IssuedInv, TypeOK, Issued, Addr
    <3>2. wpc = "deal" => cur \in Addr
      BY DEF TypeOK
    <3>3. InPort \subseteq Unfinished /\ (cur \in Addr => cur \in Unfinished)
      BY <3>1 DEF InPort, PacketsIn, Unfinished
    <3> QED BY <2>2, <3>1, <3>2, <3>3
  <2>5. \A u \in Threads : pc[u] # "idle" => call[u] \in Addr \ {a}
    BY <2>2 DEF CallsInv, IssuedInv, TypeOK
  <2>6. Lists' = Lists /\ Items' = Items
    <3>1. Dealt' = Dealt
      BY <1>1, <2>3, <2>4, ListsNext DEF Dealt
    <3> QED BY <1>1, <2>3, <2>4, <3>1, ListsKept
  <2>7. ASSUME NEW u \in Threads PROVE Answers'[u] = Answers[u]
    <3>1. CASE u = t
      <4>1. pc'[u] \notin {"popping", "sizing"} /\ ~Waiting(u)
        BY <1>1, <2>2, <3>1 DEF TypeOK, Waiting, Entered
      <4> QED BY <4>1, AnswerKept
    <3>2. CASE u # t
      <4>1. pc'[u] = pc[u] /\ call'[u] = call[u]
        BY <2>2, <3>2 DEF TypeOK
      <4>2. Waiting(u) => param'[call[u]] = param[call[u]]
        BY <2>3, <2>5 DEF Waiting
      <4> QED BY <1>1, <1>2, <2>6, <4>1, <4>2, AnswerKept
    <3> QED BY <3>1, <3>2
  <2>8. Answers' = Answers
    BY <2>7, AnswersKept
  <2> DEFINE r == RequestOf(param'[a])
  <2>9. Asked' = [Asked EXCEPT ![t] = r]
    <3>1. \A u \in Threads : Asked'[u] = IF pc'[u] \in Posting THEN RequestOf(param'[call'[u]])
                                         ELSE [op |-> "none", data |-> NoData]
      BY DEF Asked, RequestOf
    <3>2. Asked'[t] = r
      BY <2>2, <3>1 DEF TypeOK, Entered, Posting
    <3>3. ASSUME NEW u \in Threads \ {t} PROVE Asked'[u] = Asked[u]
      <4>1. pc'[u] = pc[u] /\ call'[u] = call[u]
        BY <2>2 DEF TypeOK
      <4>2. pc[u] \in Posting => param'[call[u]] = param[call[u]]
        BY <2>3, <2>5 DEF Posting
      <4> QED BY <3>1, <4>1, <4>2 DEF Asked
    <3>4. DOMAIN Asked' = Threads /\ Asked' = [u \in Threads |-> Asked'[u]]
      BY DEF Asked
    <3>5. DOMAIN Asked = Threads
      BY DEF Asked
    <3> HIDE DEF r
    <3> QED BY <3>2, <3>3, <3>4, <3>5
  <2>10. r \in Fifo!Requests
    BY <2>3 DEF RequestOf, Fifo!Requests, OnHeap, OnStack, EQPush, EQPop, EQSize, EQClear
  <2> HIDE DEF r
  <2>11. Fifo!Invoke(t, r)
    BY <1>3, <2>2, <2>6, <2>8, <2>9 DEF Fifo!Invoke, Fifo!Free, Fifo!None, Fifo!Failed, Failed
  <2> QED BY <2>10, <2>11 DEF Fifo!Next
<1> QED BY <1>4, <1>5

(* The request of a thread that has posted, or failed to. *)
LEMMA AskedTaken ==
  ASSUME FifoInv, NEW t \in Threads, pc'[t] \notin Posting, param' = param,
         \A u \in Threads \ {t} : pc'[u] = pc[u] /\ call'[u] = call[u]
  PROVE  Asked' = [Asked EXCEPT ![t] = [op |-> "none", data |-> NoData]]
<1>1. Asked'[t] = [op |-> "none", data |-> NoData]
  BY DEF Asked
<1>2. ASSUME NEW u \in Threads \ {t} PROVE Asked'[u] = Asked[u]
  BY <1>2 DEF Asked, RequestOf
<1>3. DOMAIN Asked = Threads /\ Asked' = [u \in Threads |-> Asked'[u]]
  BY DEF Asked
<1> QED BY <1>1, <1>2, <1>3

LEMMA FifoPostOK ==
  ASSUME FifoInv, FifoInv', NEW t \in Threads, PostOK(t)
  PROVE  Fifo!Next
<1> USE DEF FifoInv, OwnerInv, BaseInv, FrameInv
<1> DEFINE a == call[t]
           p == param[call[t]]
<1>1. /\ pc[t] \in Posting /\ a \in Addr /\ a # 0 /\ param' = param /\ lst' = lst /\ cur' = cur /\ wpc' = wpc
      /\ port' = Append(port, a) /\ Op(a) \in OnHeap \cup OnStack /\ a \notin Unfinished
      /\ \A u \in Threads \ {t} : pc'[u] = pc[u] /\ call'[u] = call[u] /\ (pc[u] # "idle" => call[u] # a)
  BY DEF PostOK, workerVars, CallsInv, TypeOK, PostInv, Addr, Posting
<1>2. /\ port \in Seq(Addr \cup {0}) /\ Len(port) \in Nat /\ Len(port') = Len(port) + 1
      /\ \A i \in 1..Len(port) : port'[i] = port[i]
      /\ port'[Len(port) + 1] = a
  BY <1>1 DEF TypeOK
<1>3. /\ \A i \in 0..Len(port) : Lists'[i] = Lists[i]
      /\ Lists'[Len(port) + 1] = Applied(p, Items)
  <2>1. Lists' = ListsAfter(param, Append(port, a), Dealt) /\ Lists = ListsAfter(param, port, Dealt)
    BY <1>1, ListsNext DEF Lists, Dealt
  <2> QED BY <1>1, <1>2, <2>1, ListsPosted DEF Through, Items
<1>4. Items' = Applied(p, Items)
  BY <1>2, <1>3, ListsNext
<1>5. Asked[t] = RequestOf(p) /\ Answers[t] = Failed /\ RequestOf(p).op # "none"
  BY <1>1, AnswersNow DEF AnswersAre, Asked, Waiting, RequestOf, Op, OnHeap, OnStack,
     EQPush, EQPop, EQSize, EQClear, Posting
<1>6. pc'[t] \notin Posting
  BY DEF PostOK, TypeOK, Posting
<1>7. Asked' = [Asked EXCEPT ![t] = [op |-> "none", data |-> NoData]]
  BY <1>1, <1>6, AskedTaken
<1>8. Items' = Fifo!After(Asked[t], Items)
  BY <1>1, <1>4, <1>5 DEF Applied, RequestOf, Fifo!After, Op, OnHeap, OnStack, EQPush, EQPop, EQSize, EQClear
<1>9. ASSUME NEW u \in Threads \ {t} PROVE Answers'[u] = Answers[u]
  <2>1. InPort' = InPort \cup {a}
    <3>1. PacketsIn(Append(port, a)) = PacketsIn(port) \cup ({a} \ {0})
      BY <1>1, <1>2, PostedPackets
    <3> QED BY <1>1, <3>1 DEF InPort
  <2>2. Waiting(u) /\ call[u] \notin Due => call[u] \notin Due'
    BY <1>1, <2>1 DEF Due, Unfinished, Waiting
  <2>3. \A i \in DOMAIN port : i \in DOMAIN port' /\ port'[i] = port[i] /\ Lists'[i - 1] = Lists[i - 1]
    <3>1. \A i \in 1..Len(port) : i - 1 \in 0..Len(port) /\ i \in 1..Len(port')
      BY <1>2
    <3>2. DOMAIN port = 1..Len(port) /\ DOMAIN port' = 1..Len(port')
      BY <1>1, <1>2
    <3> QED BY <1>2, <1>3, <3>1, <3>2
  <2> QED BY <1>1, <2>2, <2>3, AnswerKept
<1>10. CASE Op(a) \in OnHeap
  <2>1. pc'[t] = "idle" /\ reply' = [reply EXCEPT ![t] = Done]
    BY <1>1, <1>10 DEF PostOK, TypeOK, PostInv, Entered, OnHeap, EQPush, EQPop, EQSize, EQClear
  <2>2. Answers'[t] = Answers[t]
    BY <1>1, <2>1, AnswerKept DEF Waiting, Posting
  <2>3. Answers' = Answers
    BY <1>9, <2>2, AnswersKept
  <2>4. Asked[t].op \in {"push", "clear"}
    BY <1>5, <1>10 DEF RequestOf, Op, OnHeap, EQPush, EQPop, EQSize, EQClear
  <2>5. Fifo!Effect(t)
    BY <1>5, <1>7, <1>8, <2>1, <2>3, <2>4 DEF Fifo!Effect, Fifo!None, Fifo!Done, Done
  <2> QED BY <2>5 DEF Fifo!Next
<1>11. CASE Op(a) \in OnStack
  <2>1. Op(a) \in {EQPop, EQSize} /\ Op(a) \notin OnHeap
    BY <1>11 DEF OnHeap, OnStack, EQPush, EQPop, EQSize, EQClear
  <2>2. pc'[t] = (IF Op(a) = EQPop THEN "popping" ELSE "sizing") /\ call'[t] = a /\ reply' = reply
    BY <1>1, <2>1 DEF PostOK, TypeOK, PostInv, Entered, EQPop, EQSize
  <2>3. Answers'[t] = AnswerOn(Op(a), Items)
    <3>1. /\ Len(port) + 1 \in DOMAIN port' /\ port'[Len(port) + 1] = call'[t]
          /\ (Len(port) + 1) - 1 = Len(port) /\ Len(port) \in 0..Len(port)
      BY <1>1, <1>2, <2>2
    <3>2. pc'[t] \in {"popping", "sizing"} /\ Wanted(pc'[t]) = Op(a)
      BY <2>1, <2>2 DEF Wanted
    <3>3. Answers'[t] = AnswerOn(Wanted(pc'[t]), Lists'[(Len(port) + 1) - 1])
      BY <3>1, <3>2, AnswersNext
    <3> QED BY <1>3, <3>1, <3>2, <3>3 DEF Items
  <2>4. AnswerOn(Op(a), Items) = Fifo!AnswerTo(Asked[t], Items)
    BY <1>5, <2>1 DEF AnswerOn, Fifo!AnswerTo, RequestOf, Op, Done, Fifo!Done, EQPush, EQPop, EQSize, EQClear
  <2>5. Answers' = [Answers EXCEPT ![t] = Fifo!AnswerTo(Asked[t], Items)]
    <3>1. DOMAIN Answers = Threads /\ Answers' = [u \in Threads |-> Answers'[u]]
      BY DEF Answers
    <3> QED BY <1>9, <2>3, <2>4, <3>1
  <2>6. Asked[t].op \notin {"push", "clear"}
    BY <1>5, <2>1 DEF RequestOf, Op, EQPush, EQPop, EQSize, EQClear
  <2>7. Fifo!Effect(t)
    BY <1>5, <1>7, <1>8, <2>2, <2>5, <2>6 DEF Fifo!Effect, Fifo!None
  <2> QED BY <2>7 DEF Fifo!Next
<1> QED BY <1>1, <1>10, <1>11

(* The steps that return from a call and touch nothing the others see.      *)
LEMMA FifoBack ==
  ASSUME FifoInv, FifoInv', NEW t \in Threads, PostFail(t) \/ WakeAnswered(t)
  PROVE  /\ Items' = Items
         /\ \A u \in Threads \ {t} : Answers'[u] = Answers[u]
         /\ Answers'[t] = Failed
         /\ Asked' = [Asked EXCEPT ![t] = [op |-> "none", data |-> NoData]]
<1> USE DEF FifoInv, OwnerInv, BaseInv, FrameInv
<1>1. /\ port' = port /\ param' = param /\ lst' = lst /\ cur' = cur /\ wpc' = wpc
      /\ pc' = [pc EXCEPT ![t] = "idle"] /\ call' = [call EXCEPT ![t] = 0]
  BY CleanReturn DEF PostFail, Wake, WakeAnswered, workerVars
<1>2. pc'[t] = "idle" /\ pc'[t] \notin Posting /\ \A u \in Threads \ {t} : pc'[u] = pc[u] /\ call'[u] = call[u]
  BY <1>1 DEF TypeOK, Posting
<1>3. Lists' = Lists /\ Items' = Items
  BY <1>1, ListsKept, ListsNext DEF Dealt
<1>4. Due' = Due
  BY <1>1 DEF Due, Unfinished, InPort, PacketsIn
<1>5. ASSUME NEW u \in Threads \ {t} PROVE Answers'[u] = Answers[u]
  BY <1>1, <1>2, <1>3, <1>4, AnswerKept
<1>6. Answers'[t] = Failed
  BY <1>2, AnswersNext
<1>7. Asked' = [Asked EXCEPT ![t] = [op |-> "none", data |-> NoData]]
  BY <1>1, <1>2, AskedTaken
<1> QED BY <1>3, <1>5, <1>6, <1>7

LEMMA FifoPostFail ==
  ASSUME FifoInv, FifoInv', NEW t \in Threads, PostFail(t)
  PROVE  Fifo!Next
<1>1. Answers[t] = Failed
  BY AnswersNow DEF AnswersAre, PostFail, Waiting, Posting
<1>2. reply' = [reply EXCEPT ![t] = Failed]
  BY DEF PostFail
<1>3. /\ Items' = Items
      /\ \A u \in Threads \ {t} : Answers'[u] = Answers[u]
      /\ Answers'[t] = Failed
      /\ Asked' = [Asked EXCEPT ![t] = [op |-> "none", data |-> NoData]]
  BY FifoBack
<1>4. Answers' = Answers
  BY <1>1, <1>3, AnswersKept
<1>5. Fifo!Refuse(t)
  BY <1>1, <1>2, <1>3, <1>4 DEF Fifo!Refuse, Fifo!None, Fifo!Failed, Failed
<1> QED BY <1>5 DEF Fifo!Next

LEMMA FifoWake ==
  ASSUME FifoInv, FifoInv', NEW t \in Threads, Wake(t)
  PROVE  Fifo!Next
<1> USE DEF FifoInv, OwnerInv, BaseInv, FrameInv
<1>1. WakeAnswered(t)
  BY CleanReturn DEF Wake
<1>2. Waiting(t) /\ call[t] \notin Due
  BY <1>1 DEF WakeAnswered, Due, Unfinished, DealtOnce
<1>3. Answers[t] = Answer(Wanted(pc[t]), param[call[t]])
  BY <1>2, AnswersNow DEF AnswersAre
<1>4. reply' = [reply EXCEPT ![t] = Answers[t]]
  BY <1>1, <1>3 DEF WakeAnswered, Wanted
<1>5. Answers[t] # Failed
  BY <1>3 DEF Answer, Done, Failed
<1>6. /\ Items' = Items
      /\ \A u \in Threads \ {t} : Answers'[u] = Answers[u]
      /\ Answers'[t] = Failed
      /\ Asked' = [Asked EXCEPT ![t] = [op |-> "none", data |-> NoData]]
  BY <1>1, FifoBack
<1>7. Answers' = [Answers EXCEPT ![t] = Failed]
  <2>1. DOMAIN Answers = Threads /\ Answers' = [u \in Threads |-> Answers'[u]]
    BY DEF Answers
  <2> QED BY <1>6, <2>1
<1>8. Asked' = Asked
  <2>1. Asked[t] = [op |-> "none", data |-> NoData] /\ DOMAIN Asked = Threads
        /\ Asked = [u \in Threads |-> Asked[u]]
    BY <1>2 DEF Asked, Waiting, Posting
  <2> QED BY <1>6, <2>1
<1>9. Fifo!Return(t)
  BY <1>4, <1>5, <1>6, <1>7, <1>8 DEF Fifo!Return, Fifo!Failed, Failed
<1> QED BY <1>9 DEF Fifo!Next

LEMMA FifoInit == Init => Fifo!Init
<1> SUFFICES ASSUME Init PROVE Fifo!Init
  OBVIOUS
<1>1. Items = <<>>
  <2>1. Lists = ListsAfter(param, <<>>, <<>>) /\ Items = Lists[0]
    BY DEF Init, Lists, Dealt, Items
  <2>2. <<>> \in Seq(Addr \cup {0}) /\ Len(<<>>) = 0
    OBVIOUS
  <2>3. ListsUpTo(Lists, 0, param, <<>>, <<>>)
    <3>1. ListsUpTo(ListsAfter(param, <<>>, <<>>), Len(<<>>), param, <<>>, <<>>)
      BY <2>2, ListsDef
    <3> QED BY <2>1, <2>2, <3>1
  <2>4. 0 \in Nat
    OBVIOUS
  <2> QED BY <2>1, <2>3, <2>4, ListsSteps
<1>2. Asked = [t \in Threads |-> [op |-> "none", data |-> NoData]]
  BY DEF Init, Asked, Posting
<1>3. Answers = [t \in Threads |-> Failed]
  BY DEF Init, Answers, AnswerFor, Waiting
<1> QED BY <1>1, <1>2, <1>3 DEF Init, Fifo!Init, Fifo!None, Fifo!Failed, Fifo!Done, Failed, Done

LEMMA FifoStep ==
  ASSUME FifoInv, FifoInv', [Next]_vars
  PROVE  [Fifo!Next]_(Fifo!vars)
<1>1. ASSUME NEW t \in Threads, PostOK(t) PROVE Fifo!Next
  BY <1>1, FifoPostOK
<1>2. ASSUME NEW t \in Threads, PostFail(t) PROVE Fifo!Next
  BY <1>2, FifoPostFail
<1>3. ASSUME NEW t \in Threads, Wake(t) PROVE Fifo!Next
  BY <1>3, FifoWake
<1>4. ASSUME NEW t \in Threads,
             (\E d \in Data : PushBack(t, d)) \/ PopFront(t) \/ Size(t) \/ Clear(t)
      PROVE  Fifo!Next
  BY <1>4, CallKinds, FifoCall
<1>5. CASE Worker
  BY <1>5, FifoDeal, FifoGet, FifoOther DEF Worker, Fifo!vars
<1>6. CASE Destructor \/ UNCHANGED vars
  BY <1>6, FifoOther DEF Fifo!vars
<1> QED BY <1>1, <1>2, <1>3, <1>4, <1>5, <1>6 DEF Next, Post

(* CEdoyunQueue keeps what its comment promises, "a thread-safe queue"      *)
(* (CEdoyunQueue.h:9): with an event for every call and a destructor that   *)
(* waits for the callers, every behaviour of the callers, the worker and    *)
(* the destructor is one of an atomic first-in first-out list, each call    *)
(* taking effect at the instant its packet is posted.                       *)
THEOREM ImplementsFifoHolds ==
  ASSUME HandleLimit >= MaxCalls, RacingDtor = FALSE
  PROVE  Spec => ImplementsFifo
<1>1. Init => FifoInv
  BY OwnerInit, DtorInit, FrameInit, RequestInit DEF FifoInv
<1>2. FifoInv /\ [Next]_vars => FifoInv'
  BY OwnerStep, DtorStep, FrameStep, RequestStep DEF FifoInv, OwnerInv
<1>3. Init => Fifo!Init
  BY FifoInit
<1>4. FifoInv /\ FifoInv' /\ [Next]_vars => [Fifo!Next]_(Fifo!vars)
  BY FifoStep
<1> QED BY <1>1, <1>2, <1>3, <1>4, PTL DEF Spec, ImplementsFifo, Fifo!Spec
=============================================================================
