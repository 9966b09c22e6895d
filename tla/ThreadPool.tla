------------------------------ MODULE ThreadPool ------------------------------
(***************************************************************************)
(* EdoyunThreadPool and EdoyunThread (RemoteCtrl/EdoyunThread.h).  A slot  *)
(* is an EdoyunThread: a thread that polls the pointer m_worker and calls  *)
(* the job it finds there again and again until the job returns a negative *)
(* number.  DispatchWorker looks for a slot whose m_worker is NULL and     *)
(* stores the job there; -1 says that it found none.  The slots are        *)
(* assigned under m_lock, but a slot's own thread clears m_worker without  *)
(* it, and Stop works without it too.                                      *)
(*                                                                         *)
(* A job is the number of the DispatchWorker call that brought it; 0 is    *)
(* the NULL pointer.  A step loads or stores one of m_bStatus and m_worker *)
(* of one slot, or follows a pointer it has loaded.  DispatchWorker's      *)
(* UpdateWorker is one step: m_worker is NULL then, and only Stop, which   *)
(* stores NULL, may come in between.                                       *)
(***************************************************************************)
EXTENDS Integers, FiniteSets

CONSTANTS
    Size,          \* how many threads the pool has
    Dispatchers,   \* the threads that call DispatchWorker
    NoOne,         \* not a dispatcher: m_lock is free
    MaxJobs,       \* bound: the calls of DispatchWorker
    StartMayFail   \* TRUE: _beginthread may fail

ASSUME PoolAssumption ==
    /\ Size \in Nat \ {0}
    /\ MaxJobs \in Nat
    /\ NoOne \notin Dispatchers
    /\ StartMayFail \in BOOLEAN

VARIABLES
    status,    \* status[i]: m_bStatus of slot i, "running" or "closing"
    worker,    \* worker[i]: the job m_worker of slot i points to
    tpc,       \* tpc[i]: where the thread of slot i is
    running,   \* running[i]: the job it has copied
    lock,      \* who holds m_lock
    dpc,       \* dpc[d]: where dispatcher d is in DispatchWorker
    at,        \* at[d]: its loop index
    held,      \* held[d]: the pointer IsIdle has loaded and not yet followed
    job,       \* job[d]: its argument
    njobs,     \* how many calls of DispatchWorker there have been
    accepted,  \* the jobs for which it returned an index
    refused,   \* the jobs for which it returned -1
    begun,     \* the jobs that have been called at least once
    finished,  \* the jobs that have returned a negative number
    fullAtLock,\* history: the jobs whose dispatcher got m_lock with no slot free
    opc, oi,   \* where the pool's owner is, and the slot it is at
    stage,     \* how far EdoyunThread::Stop of that slot has come
    pWorker,   \* what UpdateWorker there is about to delete
    deleted,   \* the jobs whose ThreadWorker has been deleted
    process    \* "alive" or "crashed"

threadVars == <<tpc, running, begun, finished>>
callVars   == <<lock, dpc, at, held, job, njobs, accepted, refused, fullAtLock>>
ownerVars  == <<opc, oi, stage, pWorker, deleted>>
vars == <<status, worker, threadVars, callVars, ownerVars, process>>

Slots == 1..Size
Jobs  == 1..MaxJobs

TypeOK ==
    /\ status \in [Slots -> {"running", "closing"}]
    /\ worker \in [Slots -> Jobs \cup {0}]
    /\ tpc \in [Slots -> {"none", "test", "look", "copy", "call", "clear", "ended"}]
    /\ running \in [Slots -> Jobs \cup {0}]
    /\ lock \in Dispatchers \cup {NoOne}
    /\ dpc \in [Dispatchers -> {"idle", "scan", "load", "follow", "update"}]
    /\ at \in [Dispatchers -> 1..(Size + 1)]
    /\ held \in [Dispatchers -> Jobs \cup {0}]
    /\ job \in [Dispatchers -> Jobs \cup {0}]
    /\ njobs \in 0..MaxJobs
    /\ accepted \subseteq Jobs /\ refused \subseteq Jobs
    /\ begun \subseteq Jobs /\ finished \subseteq Jobs /\ fullAtLock \subseteq Jobs
    /\ opc \in {"start", "undo", "up", "failed", "stop", "gone"}
    /\ oi \in 1..(Size + 1)
    /\ stage \in {"begin", "join", "delete", "store"}
    /\ pWorker \in Jobs \cup {0} /\ deleted \subseteq Jobs
    /\ process \in {"alive", "crashed"}

Init ==
    /\ status = [i \in Slots |-> "closing"]
    /\ worker = [i \in Slots |-> 0]
    /\ tpc = [i \in Slots |-> "none"]
    /\ running = [i \in Slots |-> 0]
    /\ lock = NoOne
    /\ dpc = [d \in Dispatchers |-> "idle"]
    /\ at = [d \in Dispatchers |-> 1]
    /\ held = [d \in Dispatchers |-> 0]
    /\ job = [d \in Dispatchers |-> 0]
    /\ njobs = 0
    /\ accepted = {} /\ refused = {} /\ begun = {} /\ finished = {} /\ fullAtLock = {}
    /\ opc = "start" /\ oi = 1
    /\ stage = "begin" /\ pWorker = 0 /\ deleted = {}
    /\ process = "alive"

(* After an access violation there is no process to take a step.            *)
Alive == process = "alive"

-----------------------------------------------------------------------------
(* The thread of slot i: EdoyunThread::ThreadWorker. *)

Test(i) ==
    /\ Alive /\ tpc[i] = "test"
    /\ tpc' = [tpc EXCEPT ![i] = IF status[i] = "running" THEN "look" ELSE "ended"]
    /\ UNCHANGED <<status, worker, running, begun, finished, callVars, ownerVars, process>>

(* Slip: the pointer is not tested. *)
LookNot(i) ==
    /\ Alive /\ tpc[i] = "look"
    /\ tpc' = [tpc EXCEPT ![i] = "copy"]
    /\ UNCHANGED <<status, worker, running, begun, finished, callVars, ownerVars, process>>

Look(i) ==
    /\ Alive /\ tpc[i] = "look"
    /\ tpc' = [tpc EXCEPT ![i] = IF worker[i] = 0 THEN "test" ELSE "copy"]
    /\ UNCHANGED <<status, worker, running, begun, finished, callVars, ownerVars, process>>

(* "worker = *m_worker.load()", a second load, and the call begins.         *)
(* CopyFindsWorker says that the pointer is not NULL by now.                *)
Copy(i) ==
    /\ Alive /\ tpc[i] = "copy"
    /\ running' = [running EXCEPT ![i] = worker[i]]
    /\ begun' = begun \cup {worker[i]}
    /\ tpc' = [tpc EXCEPT ![i] = "call"]
    /\ UNCHANGED <<status, worker, finished, callVars, ownerVars, process>>

(* The job returns, a number that is not negative or one that is. *)
CallAgain(i) ==
    /\ Alive /\ tpc[i] = "call"
    /\ tpc' = [tpc EXCEPT ![i] = "test"]
    /\ UNCHANGED <<status, worker, running, begun, finished, callVars, ownerVars, process>>

CallDone(i) ==
    /\ Alive /\ tpc[i] = "call"
    /\ finished' = finished \cup {running[i]}
    /\ tpc' = [tpc EXCEPT ![i] = "clear"]
    /\ UNCHANGED <<status, worker, running, begun, callVars, ownerVars, process>>

(* "m_worker.store(NULL)".  The ThreadWorker it pointed to is not deleted. *)
Clear(i) ==
    /\ Alive /\ tpc[i] = "clear"
    /\ worker' = [worker EXCEPT ![i] = 0]
    /\ tpc' = [tpc EXCEPT ![i] = "test"]
    /\ UNCHANGED <<status, running, begun, finished, callVars, ownerVars, process>>

Return(i) == CallAgain(i) \/ CallDone(i)
Thread(i) == Test(i) \/ Look(i) \/ Copy(i) \/ Clear(i)

-----------------------------------------------------------------------------
(* DispatchWorker. *)

Full == \A i \in Slots : worker[i] # 0

(* Slip: no mutex.  *)
LockNothing(d) == UNCHANGED lock

Lock(d) == lock = NoOne /\ lock' = d

Dispatch(d) ==
    /\ Alive /\ opc \in {"up", "failed", "stop"}
    /\ dpc[d] = "idle" /\ njobs < MaxJobs
    /\ Lock(d)
    /\ njobs' = njobs + 1
    /\ job' = [job EXCEPT ![d] = njobs + 1]
    /\ at' = [at EXCEPT ![d] = 1]
    /\ dpc' = [dpc EXCEPT ![d] = "scan"]
    /\ fullAtLock' = IF Full THEN fullAtLock \cup {njobs + 1} ELSE fullAtLock
    /\ UNCHANGED <<status, worker, threadVars, held, accepted, refused, ownerVars,
                   process>>

(* Slip: the last slot is not looked at. *)
ScanEndEarly(d) == at[d] >= Size

ScanEnd(d) == at[d] > Size

(* IsIdle's first load: NULL means idle. *)
Scan(d) ==
    /\ Alive /\ dpc[d] = "scan" /\ ~ScanEnd(d)
    /\ dpc' = [dpc EXCEPT ![d] = IF worker[at[d]] = 0 THEN "update" ELSE "load"]
    /\ UNCHANGED <<status, worker, threadVars, lock, at, held, job, njobs, accepted,
                   refused, fullAtLock, ownerVars, process>>

(* IsIdle's second load, of "m_worker.load()->IsValid()". *)
Load(d) ==
    /\ Alive /\ dpc[d] = "load"
    /\ IF worker[at[d]] = 0
       THEN process' = "crashed" /\ UNCHANGED <<dpc, held>>
       ELSE /\ dpc' = [dpc EXCEPT ![d] = "follow"]
            /\ held' = [held EXCEPT ![d] = worker[at[d]]]
            /\ UNCHANGED process
    /\ UNCHANGED <<status, worker, threadVars, lock, at, job, njobs, accepted, refused,
                   fullAtLock, ownerVars>>

(* The ThreadWorker that pointer leads to is valid: the slot is taken.  If  *)
(* Stop has deleted it meanwhile the memory may say anything, or be gone.   *)
Follow(d) ==
    /\ Alive /\ dpc[d] = "follow"
    /\ held' = [held EXCEPT ![d] = 0]
    /\ \/ /\ dpc' = [dpc EXCEPT ![d] = "scan"]
          /\ at' = [at EXCEPT ![d] = @ + 1]
          /\ UNCHANGED process
       \/ /\ held[d] \in deleted
          /\ dpc' = [dpc EXCEPT ![d] = "update"]
          /\ UNCHANGED <<at, process>>
       \/ /\ held[d] \in deleted
          /\ process' = "crashed"
          /\ UNCHANGED <<dpc, at>>
    /\ UNCHANGED <<status, worker, threadVars, lock, job, njobs, accepted, refused,
                   fullAtLock, ownerVars>>

(* Slip: no break after UpdateWorker. *)
UpdateNoBreak(d) ==
    /\ Alive /\ dpc[d] = "update"
    /\ worker' = [worker EXCEPT ![at[d]] = job[d]]
    /\ accepted' = accepted \cup {job[d]}
    /\ dpc' = [dpc EXCEPT ![d] = "scan"]
    /\ at' = [at EXCEPT ![d] = @ + 1]
    /\ UNCHANGED <<status, threadVars, lock, held, job, njobs, refused, fullAtLock,
                   ownerVars, process>>

(* UpdateWorker, unlock and return the index.  The slot's thread is not     *)
(* looked at.                                                               *)
Update(d) ==
    /\ Alive /\ dpc[d] = "update"
    /\ worker' = [worker EXCEPT ![at[d]] = job[d]]
    /\ accepted' = accepted \cup {job[d]}
    /\ dpc' = [dpc EXCEPT ![d] = "idle"]
    /\ lock' = NoOne
    /\ UNCHANGED <<status, threadVars, at, held, job, njobs, refused, fullAtLock,
                   ownerVars, process>>

(* Unlock and return -1. *)
Refuse(d) ==
    /\ Alive /\ dpc[d] = "scan" /\ ScanEnd(d)
    /\ refused' = refused \cup {job[d]}
    /\ dpc' = [dpc EXCEPT ![d] = "idle"]
    /\ lock' = NoOne
    /\ UNCHANGED <<status, worker, threadVars, at, held, job, njobs, accepted, fullAtLock,
                   ownerVars, process>>

Dispatching(d) == Scan(d) \/ Load(d) \/ Follow(d) \/ Update(d) \/ Refuse(d)

-----------------------------------------------------------------------------
(* The owner: Invoke, and Stop from the destructor. *)

(* Start of the next slot; the last one ends Invoke. *)
StartOK ==
    /\ Alive /\ opc = "start"
    /\ status' = [status EXCEPT ![oi] = "running"]
    /\ tpc' = [tpc EXCEPT ![oi] = "test"]
    /\ IF oi = Size THEN opc' = "up" /\ oi' = 1 ELSE oi' = oi + 1 /\ UNCHANGED opc
    /\ UNCHANGED <<worker, running, begun, finished, callVars, stage, pWorker, deleted,
                   process>>

(* One thread cannot be started: all are stopped. *)
StartFail ==
    /\ Alive /\ opc = "start" /\ StartMayFail
    /\ opc' = "undo" /\ oi' = 1
    /\ UNCHANGED <<status, worker, threadVars, callVars, stage, pWorker, deleted, process>>

StopAll ==
    /\ Alive /\ opc \in {"up", "failed"}
    /\ opc' = "stop" /\ oi' = 1
    /\ UNCHANGED <<status, worker, threadVars, callVars, stage, pWorker, deleted, process>>

(* Slip: m_bStatus is left alone. *)
StillRunning == status

Closed == [status EXCEPT ![oi] = "closing"]

(* EdoyunThread::Stop of slot oi: nothing to do, or m_bStatus = false. *)
StopSlot ==
    /\ Alive /\ opc \in {"undo", "stop"} /\ stage = "begin" /\ oi <= Size
    /\ IF status[oi] = "closing"
       THEN oi' = oi + 1 /\ UNCHANGED <<status, stage>>
       ELSE /\ status' = Closed
            /\ stage' = "join" /\ UNCHANGED oi
    /\ UNCHANGED <<worker, threadVars, callVars, opc, pWorker, deleted, process>>

(* The thread has ended; UpdateWorker() stores NULL over a job it finds.    *)
(* Nobody else changes a slot that is taken and has no thread.              *)
Join ==
    /\ Alive /\ stage = "join" /\ tpc[oi] = "ended"
    /\ pWorker' = worker[oi]
    /\ worker' = [worker EXCEPT ![oi] = 0]
    /\ stage' = IF worker[oi] = 0 THEN "store" ELSE "delete"
    /\ UNCHANGED <<status, threadVars, callVars, opc, oi, deleted, process>>

(* "delete pWorker", whoever has loaded that pointer. *)
Delete ==
    /\ Alive /\ stage = "delete"
    /\ deleted' = deleted \cup {pWorker}
    /\ pWorker' = 0 /\ stage' = "store"
    /\ UNCHANGED <<status, worker, threadVars, callVars, opc, oi, process>>

(* NULL once more, whatever a dispatcher has put there by now. *)
Store ==
    /\ Alive /\ stage = "store"
    /\ worker' = [worker EXCEPT ![oi] = 0]
    /\ stage' = "begin" /\ oi' = oi + 1
    /\ UNCHANGED <<status, threadVars, callVars, opc, pWorker, deleted, process>>

(* Invoke returns false, or the destructor goes on to delete the slots; the *)
(* owner does not delete them under a caller of DispatchWorker.             *)
StopEnd ==
    /\ Alive /\ opc \in {"undo", "stop"} /\ stage = "begin" /\ oi > Size
    /\ opc = "stop" => \A d \in Dispatchers : dpc[d] = "idle"
    /\ opc' = IF opc = "undo" THEN "failed" ELSE "gone"
    /\ UNCHANGED <<status, worker, threadVars, callVars, oi, stage, pWorker, deleted,
                   process>>

StopSteps == StopSlot \/ Join \/ Delete \/ Store \/ StopEnd

Owner == StartOK \/ StartFail \/ StopAll \/ StopSteps

-----------------------------------------------------------------------------
Next ==
    \/ \E i \in Slots : Thread(i) \/ Return(i)
    \/ \E d \in Dispatchers : Dispatch(d) \/ Dispatching(d)
    \/ Owner

Spec == Init /\ [][Next]_vars

(* Threads are scheduled, and the owner once it has begun; nobody has to    *)
(* call DispatchWorker or destroy the pool, and a job may run for ever.     *)
Fairness ==
    /\ \A i \in Slots : WF_vars(Thread(i))
    /\ \A d \in Dispatchers : WF_vars(Dispatching(d))
    /\ WF_vars(StartOK \/ StopSteps)

FairSpec == Spec /\ Fairness

-----------------------------------------------------------------------------
Stopping == opc \in {"stop", "gone"}

(* A job that was accepted and has not begun is in a slot: no second        *)
(* dispatcher, and no thread that clears its slot, has overwritten it.      *)
NoJobLost ==
    \A j \in accepted \ begun : Stopping \/ \E i \in Slots : worker[i] = j

(* The thread of a slot tests m_worker and then loads it again: nobody but  *)
(* this thread sets it to NULL in between.                                  *)
CopyFindsWorker == \A i \in Slots : tpc[i] = "copy" => worker[i] # 0

(* A job is in one slot at most and called by one thread at most, which     *)
(* finds it when it loads m_worker again.                                   *)
OneThreadPerJob ==
    /\ CopyFindsWorker
    /\ \A i, k \in Slots : i # k =>
           /\ worker[i] = worker[k] => worker[i] = 0
           /\ tpc[i] = "call" /\ tpc[k] = "call" => running[i] # running[k]

(* A job that has returned a negative number is not called again.           *)
FinishedNotCalled ==
    [][\A i \in Slots : Copy(i) => worker[i] \notin finished]_vars

(* -1 means that every slot was taken at one and the same time, when the    *)
(* dispatcher got m_lock, although the slots are looked at one by one while *)
(* their threads go on.                                                     *)
RefusedMeansFull == refused \subseteq fullAtLock

(* IsIdle answers: it does not follow a NULL pointer.                       *)
IsIdleAnswers ==
    \A d \in Dispatchers : dpc[d] = "load" => worker[at[d]] # 0

(* A job for which DispatchWorker returned the index of a thread is called  *)
(* by that thread, unless the pool is stopped first or Invoke has failed:   *)
(* StartService does not look at Invoke's result, and DispatchWorker then   *)
(* returns indices of slots that have no thread.                            *)
AcceptedJobRuns ==
    \A j \in Jobs :
        j \in accepted ~> (j \in begun \/ Stopping \/ opc = "failed" \/ ~Alive)

(* No job runs for ever. *)
JobsReturn == \A i \in Slots : []<>(tpc[i] # "call")

(* If every job returns, stopping the pool comes to an end.                 *)
StopReturns == JobsReturn => (opc = "stop" ~> (opc = "gone" \/ ~Alive))

(* The pool gets on: with the jobs it has accepted, and with being stopped. *)
PoolProceeds == AcceptedJobRuns /\ StopReturns
=============================================================================
