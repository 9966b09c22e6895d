--------------------------- MODULE ThreadPoolProofs ---------------------------
EXTENDS ThreadPool, TLAPS

-----------------------------------------------------------------------------
(* The inductive invariant.  Its parts say: m_lock is held by the one       *)
(* dispatcher that is in DispatchWorker; the job that dispatcher brings is  *)
(* new; it stores only into a slot that is free; and a slot's thread and    *)
(* the slot's m_worker agree while the thread is at work.  What Stop has    *)
(* deleted, or is about to, is in no slot, so that a dispatcher that        *)
(* follows a pointer to it is at a slot that is free by now.                *)

Active(d) == dpc[d] # "idle"
Issued == 1..njobs

LockInv == \A d \in Dispatchers : Active(d) <=> lock = d

IssuedInv ==
    /\ accepted \subseteq Issued /\ begun \subseteq Issued /\ finished \subseteq Issued
    /\ refused \subseteq Issued /\ fullAtLock \subseteq Issued
    /\ \A i \in Slots : worker[i] \in accepted \cup {0}

FreshInv ==
    \A d \in Dispatchers : Active(d) =>
        /\ job[d] \in Issued
        /\ job[d] \notin accepted \cup begun \cup finished \cup refused

ScanInv ==
    \A d \in Dispatchers :
        /\ dpc[d] \in {"load", "follow", "update"} => at[d] \in Slots
        /\ dpc[d] = "update" => worker[at[d]] = 0
        /\ dpc[d] = "follow" => worker[at[d]] \in {0, held[d]}
        /\ Active(d) /\ dpc[d] # "update" /\ job[d] \notin fullAtLock =>
              \E k \in Slots : /\ k >= at[d] /\ worker[k] = 0
                               /\ dpc[d] # "scan" => k # at[d]

SlotInv ==
    \A i \in Slots :
        /\ tpc[i] \in {"call", "clear"} =>
              worker[i] = running[i] /\ running[i] # 0 /\ running[i] \in begun
        /\ tpc[i] # "clear" => worker[i] \notin finished

DistinctInv == \A i, k \in Slots : worker[i] = worker[k] /\ worker[i] # 0 => i = k

EarlyInv ==
    opc \in {"start", "undo"} =>
        accepted = {} /\ \A d \in Dispatchers : ~Active(d)

OwnerInv ==
    /\ opc = "start" \/ stage # "begin" => oi \in Slots
    /\ stage # "begin" => opc \in {"undo", "stop"}
    /\ stage \in {"delete", "store"} => tpc[oi] = "ended"
    /\ stage = "delete" => pWorker # 0

DeletedInv == \A i \in Slots : worker[i] # 0 => worker[i] \notin deleted \cup {pWorker}
DropInv == deleted \cup {pWorker} \subseteq accepted \cup {0}

IInv ==
    /\ TypeOK /\ LockInv /\ IssuedInv /\ FreshInv /\ ScanInv /\ SlotInv
    /\ DistinctInv /\ EarlyInv /\ OwnerInv /\ DeletedInv /\ DropInv
    /\ CopyFindsWorker /\ NoJobLost /\ RefusedMeansFull

LEMMA Constants == Size \in Nat /\ Size >= 1 /\ MaxJobs \in Nat /\ NoOne \notin Dispatchers
BY PoolAssumption

LEMMA PoolInit == Init => IInv
<1> SUFFICES ASSUME Init PROVE IInv
  OBVIOUS
<1>1. TypeOK
  BY Constants DEF Init, TypeOK, Slots
<1>2. LockInv /\ FreshInv /\ ScanInv /\ EarlyInv
  BY Constants DEF Init, LockInv, FreshInv, ScanInv, EarlyInv, Active
<1>3. IssuedInv /\ SlotInv /\ DistinctInv /\ CopyFindsWorker /\ NoJobLost /\ RefusedMeansFull
  BY DEF Init, IssuedInv, SlotInv, DistinctInv, CopyFindsWorker, NoJobLost, RefusedMeansFull
<1>4. OwnerInv /\ DeletedInv /\ DropInv
  BY Constants DEF Init, OwnerInv, DeletedInv, DropInv, Slots
<1> QED BY <1>1, <1>2, <1>3, <1>4 DEF IInv

-----------------------------------------------------------------------------
(* The steps of a slot's thread. *)

(* Only the thread's place changes. *)
LEMMA PoolThreadMoves ==
  ASSUME IInv, NEW i \in Slots, Test(i) \/ Look(i) \/ CallAgain(i)
  PROVE  IInv'
<1>1. TypeOK'
  <2>1. tpc' \in [Slots -> {"none", "test", "look", "copy", "call", "clear", "ended"}]
    BY DEF IInv, TypeOK, Test, Look, CallAgain
  <2> QED BY <2>1 DEF IInv, TypeOK, Test, Look, CallAgain, callVars, ownerVars
<1>2. LockInv' /\ FreshInv' /\ EarlyInv' /\ IssuedInv' /\ DistinctInv'
  BY DEF IInv, LockInv, FreshInv, EarlyInv, IssuedInv, DistinctInv, Active,
     Issued, Test, Look, CallAgain, callVars, ownerVars
<1>6. ScanInv'
  BY DEF IInv, ScanInv, Active, Test, Look, CallAgain, callVars
<1>5. OwnerInv' /\ DeletedInv' /\ DropInv'
  BY DEF IInv, TypeOK, OwnerInv, DeletedInv, DropInv, Test, Look, CallAgain, callVars, ownerVars
<1>3. SlotInv' /\ CopyFindsWorker'
  BY DEF IInv, TypeOK, SlotInv, CopyFindsWorker, Test, Look, CallAgain
<1>4. NoJobLost' /\ RefusedMeansFull'
  BY DEF IInv, NoJobLost, RefusedMeansFull, Stopping, Test, Look, CallAgain, callVars, ownerVars
<1> QED BY <1>1, <1>2, <1>3, <1>4, <1>5, <1>6 DEF IInv

LEMMA PoolCopy ==
  ASSUME IInv, NEW i \in Slots, Copy(i)
  PROVE  IInv'
<1> DEFINE j == worker[i]
<1>1. j # 0 /\ j \in accepted /\ j \in Jobs /\ j \in Issued /\ j \notin finished
  BY DEF IInv, TypeOK, CopyFindsWorker, IssuedInv, SlotInv, Copy
<1>2. /\ worker' = worker /\ begun' = begun \cup {j} /\ finished' = finished
      /\ running' = [running EXCEPT ![i] = j] /\ tpc' = [tpc EXCEPT ![i] = "call"]
  BY DEF Copy
<1>3. TypeOK'
  <2>1. tpc' \in [Slots -> {"none", "test", "look", "copy", "call", "clear", "ended"}]
    BY <1>2 DEF IInv, TypeOK
  <2>2. running' \in [Slots -> Jobs \cup {0}]
    BY <1>1, <1>2 DEF IInv, TypeOK
  <2> QED BY <1>1, <1>2, <2>1, <2>2 DEF IInv, TypeOK, Copy, callVars, ownerVars
<1>4. LockInv' /\ FreshInv' /\ EarlyInv' /\ IssuedInv' /\ DistinctInv'
  BY <1>1, <1>2 DEF IInv, LockInv, FreshInv, EarlyInv, IssuedInv, DistinctInv,
     Active, Issued, Copy, callVars, ownerVars
<1>8. ScanInv'
  BY DEF IInv, ScanInv, Active, Copy, callVars
<1>7. OwnerInv' /\ DeletedInv' /\ DropInv'
  BY <1>2 DEF IInv, TypeOK, OwnerInv, DeletedInv, DropInv, Copy, callVars, ownerVars
<1>5. SlotInv' /\ CopyFindsWorker'
  BY <1>1, <1>2 DEF IInv, TypeOK, SlotInv, CopyFindsWorker
<1>6. NoJobLost' /\ RefusedMeansFull'
  BY <1>2 DEF IInv, NoJobLost, RefusedMeansFull, Stopping, Copy, callVars, ownerVars
<1> QED BY <1>3, <1>4, <1>5, <1>6, <1>7, <1>8 DEF IInv

LEMMA PoolCallDone ==
  ASSUME IInv, NEW i \in Slots, CallDone(i)
  PROVE  IInv'
<1> DEFINE j == running[i]
<1>1. j # 0 /\ j = worker[i] /\ j \in accepted /\ j \in Jobs /\ j \in Issued
  BY DEF IInv, TypeOK, IssuedInv, SlotInv, CallDone
<1>2. /\ worker' = worker /\ begun' = begun /\ finished' = finished \cup {j}
      /\ running' = running /\ tpc' = [tpc EXCEPT ![i] = "clear"]
  BY DEF CallDone
<1>3. TypeOK'
  <2>1. tpc' \in [Slots -> {"none", "test", "look", "copy", "call", "clear", "ended"}]
    BY <1>2 DEF IInv, TypeOK
  <2> QED BY <1>1, <1>2, <2>1 DEF IInv, TypeOK, CallDone, callVars, ownerVars
<1>4. LockInv' /\ FreshInv' /\ EarlyInv' /\ IssuedInv' /\ DistinctInv'
  BY <1>1, <1>2 DEF IInv, LockInv, FreshInv, EarlyInv, IssuedInv, DistinctInv,
     Active, Issued, CallDone, callVars, ownerVars
<1>9. ScanInv'
  BY DEF IInv, ScanInv, Active, CallDone, callVars
<1>8. OwnerInv' /\ DeletedInv' /\ DropInv'
  BY <1>2 DEF IInv, TypeOK, OwnerInv, DeletedInv, DropInv, CallDone, callVars, ownerVars
<1>5. SlotInv'
  <2> SUFFICES ASSUME NEW k \in Slots
               PROVE  /\ tpc'[k] \in {"call", "clear"} =>
                            worker[k] = running[k] /\ running[k] # 0 /\ running[k] \in begun
                      /\ tpc'[k] # "clear" => worker[k] \notin finished \cup {j}
    BY <1>2 DEF SlotInv
  <2>1. CASE k = i
    BY <1>2, <2>1 DEF IInv, TypeOK, SlotInv, CallDone
  <2>2. CASE k # i
    BY <1>1, <1>2, <2>2 DEF IInv, TypeOK, SlotInv, DistinctInv
  <2> QED BY <2>1, <2>2
<1>6. CopyFindsWorker'
  BY <1>2 DEF IInv, TypeOK, CopyFindsWorker
<1>7. NoJobLost' /\ RefusedMeansFull'
  BY <1>2 DEF IInv, NoJobLost, RefusedMeansFull, Stopping, CallDone, callVars, ownerVars
<1> QED BY <1>3, <1>4, <1>5, <1>6, <1>7, <1>8, <1>9 DEF IInv

(* A slot is set to NULL, by its thread or after its thread has ended.      *)
Frees(i) ==
    /\ tpc[i] # "copy" /\ tpc[i] # "call"
    /\ worker' = [worker EXCEPT ![i] = 0]
    /\ \/ tpc[i] = "clear" /\ tpc' = [tpc EXCEPT ![i] = "test"]
       \/ tpc[i] # "clear" /\ tpc' = tpc
    /\ UNCHANGED <<running, begun, finished, callVars>>

LEMMA PoolFrees ==
  ASSUME IInv, NEW i \in Slots, Frees(i)
  PROVE  /\ LockInv' /\ FreshInv' /\ ScanInv' /\ IssuedInv' /\ DistinctInv'
         /\ SlotInv' /\ CopyFindsWorker' /\ RefusedMeansFull'
         /\ \A j \in accepted \ begun :
               (\E k \in Slots : worker[k] = j) /\ (worker[i] = 0 \/ worker[i] \in begun) =>
                  \E k \in Slots : worker'[k] = j
<1>1. worker'[i] = 0 /\ \A k \in Slots : k # i => worker'[k] = worker[k]
  BY DEF IInv, TypeOK, Frees
<1>2. tpc'[i] \notin {"copy", "call", "clear"} /\ \A k \in Slots : k # i => tpc'[k] = tpc[k]
  BY DEF IInv, TypeOK, Frees
<1>3. LockInv' /\ FreshInv' /\ RefusedMeansFull'
  BY DEF IInv, LockInv, FreshInv, RefusedMeansFull, Active, Issued, callVars, Frees
<1>4. ScanInv'
  <2>1. \A k \in Slots : worker[k] = 0 => worker'[k] = 0
    BY <1>1
  <2> QED BY <2>1 DEF IInv, ScanInv, Active, callVars, Frees
<1>5. IssuedInv' /\ DistinctInv'
  BY <1>1 DEF IInv, IssuedInv, DistinctInv, Issued, callVars, Frees
<1>6. SlotInv' /\ CopyFindsWorker'
  <2>1. 0 \notin finished
    BY DEF IInv, TypeOK, Jobs
  <2> QED BY <1>1, <1>2, <2>1 DEF IInv, SlotInv, CopyFindsWorker, Frees
<1>7. ASSUME NEW j \in accepted \ begun, NEW k \in Slots, worker[k] = j,
             worker[i] = 0 \/ worker[i] \in begun
      PROVE  \E m \in Slots : worker'[m] = j
  <2>1. j # 0
    BY DEF IInv, TypeOK, Jobs
  <2>2. k # i
    BY <1>7, <2>1
  <2> QED BY <1>1, <1>7, <2>2
<1> QED BY <1>3, <1>4, <1>5, <1>6, <1>7

LEMMA PoolClear ==
  ASSUME IInv, NEW i \in Slots, Clear(i)
  PROVE  IInv'
<1>1. /\ tpc[i] = "clear" /\ worker' = [worker EXCEPT ![i] = 0]
      /\ tpc' = [tpc EXCEPT ![i] = "test"]
      /\ UNCHANGED <<running, begun, finished, callVars>> /\ worker[i] \in begun
  BY DEF Clear, IInv, SlotInv
<1>2. TypeOK'
  <2>1. tpc' \in [Slots -> {"none", "test", "look", "copy", "call", "clear", "ended"}]
    BY <1>1 DEF IInv, TypeOK
  <2>2. worker' \in [Slots -> Jobs \cup {0}]
    BY <1>1 DEF IInv, TypeOK
  <2> QED BY <2>1, <2>2 DEF IInv, TypeOK, Clear, callVars, ownerVars
<1>3. EarlyInv' /\ OwnerInv' /\ DeletedInv' /\ DropInv'
  BY DEF IInv, TypeOK, EarlyInv, OwnerInv, DeletedInv, DropInv, Active, Clear, callVars, ownerVars
<1>4. /\ LockInv' /\ FreshInv' /\ ScanInv' /\ IssuedInv' /\ DistinctInv'
      /\ SlotInv' /\ CopyFindsWorker' /\ RefusedMeansFull'
      /\ \A j \in accepted \ begun : (\E k \in Slots : worker[k] = j) =>
                                     \E k \in Slots : worker'[k] = j
  <2>1. Frees(i)
    BY <1>1 DEF Frees
  <2> QED BY <1>1, <2>1, PoolFrees
<1>5. NoJobLost'
  BY <1>1, <1>4 DEF IInv, NoJobLost, Stopping, Clear, callVars, ownerVars
<1> QED BY <1>2, <1>3, <1>4, <1>5 DEF IInv

-----------------------------------------------------------------------------
(* The steps of DispatchWorker. *)

LEMMA PoolDispatch ==
  ASSUME IInv, NEW d \in Dispatchers, Dispatch(d)
  PROVE  IInv'
<1> DEFINE j == njobs + 1
<1>1. /\ j \in Jobs /\ j \notin Issued /\ njobs' = j /\ Issued' = Issued \cup {j} /\ j # 0
      /\ njobs' \in 0..MaxJobs
  BY Constants DEF IInv, TypeOK, Dispatch, Jobs, Issued
<1>2. /\ job' = [job EXCEPT ![d] = j] /\ at' = [at EXCEPT ![d] = 1]
      /\ dpc' = [dpc EXCEPT ![d] = "scan"] /\ lock = NoOne /\ lock' = d
      /\ dpc[d] = "idle" /\ opc \notin {"start", "undo"}
      /\ UNCHANGED <<status, worker, threadVars, held, accepted, refused, ownerVars, process>>
  BY DEF Dispatch, Lock
<1>3. fullAtLock' = IF Full THEN fullAtLock \cup {j} ELSE fullAtLock
  BY DEF Dispatch
<1>4. \A e \in Dispatchers : dpc[e] = "idle"
  BY <1>2, Constants DEF IInv, LockInv, Active
<1>5. /\ job'[d] = j /\ at'[d] = 1 /\ dpc'[d] = "scan"
      /\ \A e \in Dispatchers : e # d => dpc'[e] = "idle"
  BY <1>2, <1>4 DEF IInv, TypeOK
<1>6. TypeOK'
  <2>1. dpc' \in [Dispatchers -> {"idle", "scan", "load", "follow", "update"}]
    BY <1>2 DEF IInv, TypeOK
  <2>2. at' \in [Dispatchers -> 1..(Size + 1)]
    BY <1>2, Constants DEF IInv, TypeOK
  <2>3. job' \in [Dispatchers -> Jobs \cup {0}]
    BY <1>1, <1>2 DEF IInv, TypeOK
  <2>4. fullAtLock' \subseteq Jobs
    BY <1>1, <1>3 DEF IInv, TypeOK
  <2> QED BY <1>1, <1>2, <2>1, <2>2, <2>3, <2>4 DEF IInv, TypeOK, threadVars, ownerVars
<1>7. LockInv'
  BY <1>2, <1>5 DEF LockInv, Active
<1>8. IssuedInv'
  BY <1>1, <1>2, <1>3 DEF IInv, IssuedInv, threadVars
<1>9. FreshInv'
  BY <1>1, <1>2, <1>5 DEF IInv, FreshInv, IssuedInv, Active, threadVars
<1>10. ScanInv'
  <2>1. j \notin fullAtLock' => \E k \in Slots : k >= 1 /\ worker[k] = 0
    BY <1>3 DEF Full, Slots
  <2> QED BY <1>2, <1>5, <2>1 DEF ScanInv, Active
<1>11. SlotInv' /\ DistinctInv' /\ CopyFindsWorker'
  BY <1>2 DEF IInv, SlotInv, DistinctInv, CopyFindsWorker, threadVars
<1>12. EarlyInv' /\ OwnerInv' /\ DeletedInv' /\ DropInv' /\ NoJobLost' /\ RefusedMeansFull'
  BY <1>2, <1>3 DEF IInv, EarlyInv, OwnerInv, DeletedInv, DropInv, NoJobLost, Stopping,
     RefusedMeansFull, threadVars, ownerVars
<1> QED BY <1>6, <1>7, <1>8, <1>9, <1>10, <1>11, <1>12 DEF IInv

(* While d is in DispatchWorker nobody else is. *)
LEMMA OneDispatcher ==
  ASSUME IInv, NEW d \in Dispatchers, Active(d)
  PROVE  /\ lock = d /\ \A e \in Dispatchers : e # d => dpc[e] = "idle"
         /\ opc \notin {"start", "undo"}
BY DEF IInv, LockInv, EarlyInv, Active

(* What IsIdle does only moves the dispatcher, or crashes the process.      *)
LEMMA PoolScans ==
  ASSUME IInv, NEW d \in Dispatchers, Scan(d) \/ Load(d) \/ Follow(d)
  PROVE  IInv'
<1>1. Active(d) /\ at[d] \in Slots
  BY Constants DEF IInv, TypeOK, Scan, Load, Follow, ScanEnd, Active, ScanInv, Slots
<1>2. /\ lock = d /\ \A e \in Dispatchers : e # d => dpc[e] = "idle"
      /\ opc \notin {"start", "undo"}
  BY <1>1, OneDispatcher
<1>3. UNCHANGED <<status, worker, threadVars, lock, job, njobs, accepted, refused,
                  fullAtLock, ownerVars>>
  BY DEF Scan, Load, Follow
<1>4. /\ dpc' \in [Dispatchers -> {"idle", "scan", "load", "follow", "update"}]
      /\ at' \in [Dispatchers -> 1..(Size + 1)] /\ held' \in [Dispatchers -> Jobs \cup {0}]
      /\ dpc'[d] # "idle" /\ \A e \in Dispatchers : e # d => dpc'[e] = "idle"
      /\ dpc'[d] \in {"load", "follow", "update"} => at'[d] \in Slots
      /\ dpc'[d] = "update" => worker[at'[d]] = 0
      /\ dpc'[d] = "follow" => worker[at'[d]] \in {0, held'[d]}
  <2>1. CASE Scan(d)
    BY <1>1, <1>2, <2>1 DEF IInv, TypeOK, Scan
  <2>2. CASE Load(d)
    BY <1>1, <1>2, <2>2 DEF IInv, TypeOK, Load
  <2>3. CASE Follow(d)
    <3>1. at[d] + 1 \in 1..(Size + 1)
      BY <1>1, Constants DEF Slots
    <3>2. held[d] \in deleted => worker[at[d]] = 0
      BY <1>1, <2>3 DEF IInv, ScanInv, DeletedInv, Follow
    <3>3. held' \in [Dispatchers -> Jobs \cup {0}]
      BY <2>3 DEF IInv, TypeOK, Follow
    <3>4. CASE dpc' = [dpc EXCEPT ![d] = "scan"] /\ at' = [at EXCEPT ![d] = @ + 1]
      BY <1>2, <3>1, <3>3, <3>4 DEF IInv, TypeOK
    <3>5. CASE held[d] \in deleted /\ dpc' = [dpc EXCEPT ![d] = "update"] /\ at' = at
      BY <1>1, <1>2, <3>2, <3>3, <3>5 DEF IInv, TypeOK
    <3>6. CASE dpc' = dpc /\ at' = at
      <4>1. dpc[d] = "follow" /\ held[d] \in deleted
        BY <2>3, <3>6 DEF Follow, IInv, TypeOK
      <4> QED BY <1>1, <1>2, <3>2, <3>3, <3>6, <4>1 DEF IInv, TypeOK
    <3> QED BY <2>3, <3>4, <3>5, <3>6 DEF Follow
  <2> QED BY <2>1, <2>2, <2>3
<1>5. dpc'[d] # "update" /\ job[d] \notin fullAtLock =>
         \E k \in Slots : /\ k >= at'[d] /\ worker[k] = 0
                          /\ dpc'[d] # "scan" => k # at'[d]
  <2> SUFFICES ASSUME dpc'[d] # "update", job[d] \notin fullAtLock
               PROVE  \E k \in Slots : /\ k >= at'[d] /\ worker[k] = 0
                                       /\ dpc'[d] # "scan" => k # at'[d]
    OBVIOUS
  <2>1. dpc[d] # "update"
    BY DEF Scan, Load, Follow
  <2>2. PICK k \in Slots : k >= at[d] /\ worker[k] = 0 /\ (dpc[d] # "scan" => k # at[d])
    BY <1>1, <2>1 DEF IInv, ScanInv
  <2>3. \/ dpc[d] = "scan" /\ at'[d] = at[d] /\ worker[at[d]] # 0
        \/ dpc[d] # "scan" /\ at'[d] = at[d]
        \/ dpc[d] # "scan" /\ at'[d] = at[d] + 1 /\ dpc'[d] = "scan"
    BY <1>1, <1>2 DEF Scan, Load, Follow, IInv, TypeOK
  <2> QED BY <1>1, <2>2, <2>3, Constants DEF Slots
<1>6. TypeOK'
  <2>1. process' \in {"alive", "crashed"}
    BY DEF IInv, TypeOK, Scan, Load, Follow
  <2> QED BY <1>3, <1>4, <2>1 DEF IInv, TypeOK, threadVars, ownerVars
<1>7. LockInv' /\ FreshInv'
  BY <1>1, <1>2, <1>3, <1>4 DEF IInv, LockInv, FreshInv, Active, Issued, threadVars
<1>8. ScanInv'
  BY <1>3, <1>4, <1>5 DEF ScanInv, Active, threadVars
<1>9. IssuedInv' /\ SlotInv' /\ DistinctInv' /\ CopyFindsWorker'
  BY <1>3 DEF IInv, IssuedInv, Issued, SlotInv, DistinctInv, CopyFindsWorker, threadVars
<1>10. EarlyInv' /\ OwnerInv' /\ DeletedInv' /\ DropInv' /\ NoJobLost' /\ RefusedMeansFull'
  BY <1>2, <1>3 DEF IInv, EarlyInv, OwnerInv, DeletedInv, DropInv, NoJobLost, Stopping,
     RefusedMeansFull, threadVars, ownerVars
<1> QED BY <1>6, <1>7, <1>8, <1>9, <1>10 DEF IInv

LEMMA PoolUpdate ==
  ASSUME IInv, NEW d \in Dispatchers, Update(d)
  PROVE  IInv'
<1> DEFINE i == at[d]
           j == job[d]
<1>1. /\ Active(d) /\ i \in Slots /\ worker[i] = 0 /\ j \in Issued /\ j \in Jobs /\ j # 0
      /\ j \notin accepted \cup begun \cup finished \cup refused
  BY DEF IInv, TypeOK, ScanInv, FreshInv, Update, Active, Issued, Jobs
<1>2. /\ lock = d /\ \A e \in Dispatchers : e # d => dpc[e] = "idle"
      /\ opc \notin {"start", "undo"}
  BY <1>1, OneDispatcher
<1>3. /\ worker' = [worker EXCEPT ![i] = j] /\ accepted' = accepted \cup {j}
      /\ dpc' = [dpc EXCEPT ![d] = "idle"] /\ lock' = NoOne
      /\ UNCHANGED <<status, threadVars, at, held, job, njobs, refused, fullAtLock, ownerVars,
                     process>>
  BY DEF Update
<1>4. /\ worker'[i] = j /\ \A k \in Slots : k # i => worker'[k] = worker[k]
      /\ \A e \in Dispatchers : dpc'[e] = "idle"
  BY <1>1, <1>2, <1>3 DEF IInv, TypeOK
<1>5. \A k \in Slots : worker[k] # j
  BY <1>1 DEF IInv, IssuedInv
<1>6. TypeOK'
  <2>1. dpc' \in [Dispatchers -> {"idle", "scan", "load", "follow", "update"}]
    BY <1>3 DEF IInv, TypeOK
  <2>2. worker' \in [Slots -> Jobs \cup {0}]
    BY <1>1, <1>3 DEF IInv, TypeOK
  <2> QED BY <1>1, <1>3, <2>1, <2>2 DEF IInv, TypeOK, threadVars, ownerVars
<1>7. LockInv' /\ FreshInv' /\ ScanInv' /\ EarlyInv'
  BY <1>2, <1>3, <1>4, Constants DEF LockInv, FreshInv, ScanInv, EarlyInv, Active, ownerVars
<1>8. IssuedInv'
  <2>1. ASSUME NEW k \in Slots PROVE worker'[k] \in accepted' \cup {0}
    <3>1. CASE k = i
      BY <1>3, <1>4, <3>1
    <3>2. CASE k # i
      BY <1>3, <1>4, <3>2 DEF IInv, IssuedInv
    <3> QED BY <3>1, <3>2
  <2>2. accepted' \subseteq Issued' /\ Issued' = Issued
    BY <1>1, <1>3 DEF IInv, IssuedInv, Issued
  <2>3. UNCHANGED <<begun, finished, refused, fullAtLock>>
    BY <1>3 DEF threadVars
  <2> QED BY <2>1, <2>2, <2>3 DEF IInv, IssuedInv
<1>9. SlotInv'
  <2>1. tpc[i] \notin {"call", "clear"}
    BY <1>1 DEF IInv, SlotInv
  <2> QED BY <1>1, <1>3, <1>4, <2>1 DEF IInv, SlotInv, threadVars
<1>10. DistinctInv' /\ CopyFindsWorker'
  BY <1>1, <1>3, <1>4, <1>5 DEF IInv, DistinctInv, CopyFindsWorker, threadVars
<1>11. NoJobLost'
  <2> SUFFICES ASSUME NEW a \in accepted' \ begun, ~Stopping
               PROVE  \E k \in Slots : worker'[k] = a
    BY <1>3 DEF NoJobLost, Stopping, threadVars, ownerVars
  <2>1. CASE a = j
    BY <1>1, <1>4, <2>1
  <2>2. CASE a # j
    <3>1. PICK k \in Slots : worker[k] = a
      BY <1>3, <2>2 DEF IInv, NoJobLost
    <3>2. k # i
      BY <1>1, <1>3, <2>2, <3>1 DEF IInv, TypeOK, Jobs
    <3> QED BY <1>4, <3>1, <3>2
  <2> QED BY <2>1, <2>2
<1>12. OwnerInv' /\ RefusedMeansFull' /\ DropInv'
  BY <1>3 DEF IInv, OwnerInv, RefusedMeansFull, DropInv, threadVars, ownerVars
<1>13. DeletedInv'
  BY <1>1, <1>3, <1>4 DEF IInv, DeletedInv, DropInv, ownerVars
<1> QED BY <1>6, <1>7, <1>8, <1>9, <1>10, <1>11, <1>12, <1>13 DEF IInv

LEMMA PoolRefuse ==
  ASSUME IInv, NEW d \in Dispatchers, Refuse(d)
  PROVE  IInv'
<1>1. /\ Active(d) /\ dpc[d] = "scan" /\ at[d] > Size
      /\ job[d] \in Issued /\ job[d] \in Jobs
  BY DEF IInv, TypeOK, FreshInv, Refuse, ScanEnd, Active, Issued, Jobs
<1>2. job[d] \in fullAtLock
  <2>1. at[d] \in Int /\ \A k \in Slots : ~(k >= at[d])
    BY <1>1, Constants DEF IInv, TypeOK, Slots
  <2> QED BY <1>1, <2>1 DEF IInv, ScanInv
<1>3. /\ lock = d /\ \A e \in Dispatchers : e # d => dpc[e] = "idle"
      /\ opc \notin {"start", "undo"}
  BY <1>1, OneDispatcher
<1>4. /\ refused' = refused \cup {job[d]} /\ dpc' = [dpc EXCEPT ![d] = "idle"] /\ lock' = NoOne
      /\ UNCHANGED <<status, worker, threadVars, at, held, job, njobs, accepted, fullAtLock,
                     ownerVars, process>>
  BY DEF Refuse
<1>5. \A e \in Dispatchers : dpc'[e] = "idle"
  BY <1>3, <1>4 DEF IInv, TypeOK
<1>6. TypeOK'
  <2>1. dpc' \in [Dispatchers -> {"idle", "scan", "load", "follow", "update"}]
    BY <1>4 DEF IInv, TypeOK
  <2> QED BY <1>1, <1>4, <2>1 DEF IInv, TypeOK, threadVars, ownerVars
<1>7. LockInv' /\ FreshInv' /\ ScanInv' /\ EarlyInv'
  BY <1>3, <1>4, <1>5, Constants DEF LockInv, FreshInv, ScanInv, EarlyInv, Active, ownerVars
<1>8. IssuedInv' /\ SlotInv' /\ DistinctInv' /\ CopyFindsWorker'
  BY <1>1, <1>4 DEF IInv, IssuedInv, Issued, SlotInv, DistinctInv, CopyFindsWorker, threadVars
<1>9. OwnerInv' /\ DeletedInv' /\ DropInv' /\ NoJobLost' /\ RefusedMeansFull'
  BY <1>2, <1>4 DEF IInv, OwnerInv, DeletedInv, DropInv, NoJobLost, Stopping, RefusedMeansFull,
     threadVars, ownerVars
<1> QED BY <1>6, <1>7, <1>8, <1>9 DEF IInv

-----------------------------------------------------------------------------
(* The steps of the pool's owner. *)

LEMMA PoolStartOK ==
  ASSUME IInv, StartOK
  PROVE  IInv'
<1>1. /\ opc = "start" /\ stage = "begin" /\ oi \in Slots /\ accepted = {}
      /\ \A d \in Dispatchers : ~Active(d)
  BY DEF IInv, StartOK, OwnerInv, EarlyInv
<1>2. /\ status' = [status EXCEPT ![oi] = "running"] /\ tpc' = [tpc EXCEPT ![oi] = "test"]
      /\ opc' \in {"start", "up"} /\ (opc' = "start" => oi # Size /\ oi' = oi + 1)
      /\ (oi' = oi + 1 /\ oi # Size) \/ oi' = 1
      /\ UNCHANGED <<worker, running, begun, finished, callVars, stage, pWorker, deleted, process>>
  BY <1>1 DEF StartOK
<1>3. oi' \in 1..(Size + 1) /\ (opc' = "start" => oi' \in Slots)
  BY <1>1, <1>2, Constants DEF Slots
<1>4. TypeOK'
  <2>1. status' \in [Slots -> {"running", "closing"}]
    BY <1>2 DEF IInv, TypeOK
  <2>2. tpc' \in [Slots -> {"none", "test", "look", "copy", "call", "clear", "ended"}]
    BY <1>2 DEF IInv, TypeOK
  <2> QED BY <1>2, <1>3, <2>1, <2>2 DEF IInv, TypeOK, callVars
<1>5. \A k \in Slots : worker[k] = 0
  BY <1>1 DEF IInv, IssuedInv
<1>6. 0 \notin finished
  BY DEF IInv, TypeOK, Jobs
<1>7. SlotInv' /\ CopyFindsWorker'
  <2> SUFFICES ASSUME NEW k \in Slots
               PROVE  /\ tpc'[k] \notin {"call", "clear", "copy"}
                      /\ worker'[k] \notin finished'
    BY DEF SlotInv, CopyFindsWorker
  <2>1. tpc[k] \notin {"call", "clear", "copy"}
    BY <1>5 DEF IInv, SlotInv, CopyFindsWorker
  <2> QED BY <1>2, <1>5, <1>6, <2>1 DEF IInv, TypeOK
<1>8. /\ LockInv' /\ FreshInv' /\ ScanInv' /\ IssuedInv' /\ DistinctInv' /\ RefusedMeansFull'
      /\ EarlyInv'
  BY <1>1, <1>2 DEF IInv, LockInv, FreshInv, ScanInv, IssuedInv, Issued, DistinctInv,
     RefusedMeansFull, EarlyInv, Active, callVars
<1>9. OwnerInv' /\ NoJobLost' /\ DeletedInv' /\ DropInv'
  BY <1>1, <1>2, <1>3 DEF IInv, OwnerInv, NoJobLost, DeletedInv, DropInv, callVars
<1> QED BY <1>4, <1>7, <1>8, <1>9 DEF IInv

(* Only the owner's place changes, m_bStatus of a slot, and what is deleted. *)
LEMMA PoolOwnerMoves ==
  ASSUME IInv, StartFail \/ StopAll \/ StopEnd \/ StopSlot \/ Delete
  PROVE  IInv'
<1>1. /\ UNCHANGED <<worker, threadVars, callVars, process>>
      /\ status' \in [Slots -> {"running", "closing"}]
  BY DEF IInv, TypeOK, StartFail, StopAll, StopEnd, StopSlot, Delete, Closed
<1>2. /\ opc' \in {"start", "undo", "up", "failed", "stop", "gone"}
      /\ Stopping => Stopping'
      /\ opc' \in {"start", "undo"} => opc \in {"start", "undo"}
      /\ opc' # "start"
      /\ \/ stage = "begin" /\ stage' \in {"begin", "join"} /\ pWorker' = pWorker /\ deleted' = deleted
         \/ /\ stage = "delete" /\ stage' = "store" /\ oi' = oi /\ pWorker' = 0
            /\ deleted' = deleted \cup {pWorker} /\ opc' = opc
      /\ stage' = "join" => oi' = oi /\ oi <= Size /\ opc' = opc /\ opc \in {"undo", "stop"}
  BY DEF IInv, TypeOK, OwnerInv, StartFail, StopAll, StopEnd, StopSlot, Delete, Stopping
<1>3. oi' \in 1..(Size + 1)
  BY Constants DEF IInv, TypeOK, StartFail, StopAll, StopEnd, StopSlot, Delete
<1>8. stage = "delete" => pWorker # 0
  BY DEF IInv, OwnerInv
<1>4. TypeOK'
  BY <1>1, <1>2, <1>3, <1>8 DEF IInv, TypeOK, threadVars, callVars
<1>5. /\ LockInv' /\ FreshInv' /\ ScanInv' /\ IssuedInv' /\ DistinctInv' /\ RefusedMeansFull'
      /\ SlotInv' /\ CopyFindsWorker'
  BY <1>1 DEF IInv, LockInv, FreshInv, ScanInv, IssuedInv, Issued, DistinctInv,
     RefusedMeansFull, SlotInv, CopyFindsWorker, Active, threadVars, callVars
<1>6. EarlyInv' /\ NoJobLost' /\ DropInv'
  BY <1>1, <1>2 DEF IInv, EarlyInv, NoJobLost, DropInv, Active, threadVars, callVars
<1>7. OwnerInv' /\ DeletedInv'
  BY <1>1, <1>2, <1>3, Constants DEF IInv, TypeOK, OwnerInv, DeletedInv, Slots, threadVars
<1> QED BY <1>4, <1>5, <1>6, <1>7 DEF IInv

(* The two stores of UpdateWorker, when the thread of the slot has ended. *)
LEMMA PoolJoin ==
  ASSUME IInv, Join \/ Store
  PROVE  IInv'
<1> DEFINE i == oi
<1>1. /\ opc \in {"undo", "stop"} /\ i \in Slots /\ tpc[i] = "ended"
      /\ worker' = [worker EXCEPT ![i] = 0] /\ tpc' = tpc /\ opc' = opc /\ deleted' = deleted
      /\ UNCHANGED <<running, begun, finished, callVars>> /\ UNCHANGED <<status, process>>
  BY DEF IInv, OwnerInv, Join, Store, threadVars
<1>2. /\ \/ /\ stage' \in {"delete", "store"} /\ oi' = oi /\ pWorker' = worker[i]
            /\ stage' = "delete" => worker[i] # 0
         \/ stage' = "begin" /\ oi' = oi + 1 /\ pWorker' = pWorker
      /\ oi' \in 1..(Size + 1) /\ worker[i] \in Jobs \cup {0}
  BY <1>1, Constants DEF IInv, TypeOK, Join, Store, Slots
<1>3. /\ worker'[i] = 0 /\ \A k \in Slots : k # i => worker'[k] = worker[k]
      /\ worker' \in [Slots -> Jobs \cup {0}]
  BY <1>1 DEF IInv, TypeOK
<1>4. TypeOK'
  BY <1>1, <1>2, <1>3 DEF IInv, TypeOK, callVars
<1>5. EarlyInv' /\ OwnerInv'
  BY <1>1, <1>2 DEF IInv, EarlyInv, OwnerInv, Active, callVars
<1>6. DeletedInv' /\ DropInv'
  BY <1>1, <1>2, <1>3 DEF IInv, DeletedInv, DropInv, DistinctInv, IssuedInv, callVars
<1>7. /\ LockInv' /\ FreshInv' /\ ScanInv' /\ IssuedInv' /\ DistinctInv'
      /\ SlotInv' /\ CopyFindsWorker' /\ RefusedMeansFull'
  <2>1. i \in Slots /\ Frees(i)
    BY <1>1 DEF Frees
  <2> QED BY <2>1, PoolFrees
<1>8. NoJobLost'
  BY <1>1 DEF IInv, EarlyInv, NoJobLost, Stopping, callVars
<1> QED BY <1>4, <1>5, <1>6, <1>7, <1>8 DEF IInv

-----------------------------------------------------------------------------
LEMMA PoolStep == IInv /\ [Next]_vars => IInv'
<1> SUFFICES ASSUME IInv, [Next]_vars PROVE IInv'
  OBVIOUS
<1>1. ASSUME NEW i \in Slots, Thread(i) \/ Return(i) PROVE IInv'
  BY <1>1, PoolThreadMoves, PoolCopy, PoolCallDone, PoolClear DEF Thread, Return
<1>2. ASSUME NEW d \in Dispatchers, Dispatch(d) \/ Dispatching(d) PROVE IInv'
  BY <1>2, PoolDispatch, PoolScans, PoolUpdate, PoolRefuse DEF Dispatching
<1>3. CASE Owner
  BY <1>3, PoolStartOK, PoolOwnerMoves, PoolJoin DEF Owner, StopSteps
<1>4. CASE UNCHANGED vars
  BY <1>4 DEF vars, threadVars, callVars, ownerVars, IInv, TypeOK, LockInv, IssuedInv, Issued,
     FreshInv, ScanInv, SlotInv, DistinctInv, EarlyInv, OwnerInv, DeletedInv, DropInv, CopyFindsWorker,
     NoJobLost, RefusedMeansFull, Active, Stopping
<1> QED BY <1>1, <1>2, <1>3, <1>4 DEF Next

THEOREM PoolInvariant == Spec => []IInv
BY PoolInit, PoolStep, PTL DEF Spec

(* Every variable of the pool keeps its type. *)
THEOREM PoolTypeCorrect == Spec => []TypeOK
<1>1. IInv => TypeOK
  BY DEF IInv
<1> QED BY <1>1, PoolInvariant, PTL

(* A job that DispatchWorker accepted stays in its slot until it begins:    *)
(* no dispatcher and no thread overwrites it.                               *)
THEOREM NoJobLostHolds == Spec => []NoJobLost
<1>1. IInv => NoJobLost
  BY DEF IInv
<1> QED BY <1>1, PoolInvariant, PTL

(* When a slot's thread loads m_worker the second time it is not NULL.      *)
THEOREM CopyFindsWorkerHolds == Spec => []CopyFindsWorker
<1>1. IInv => CopyFindsWorker
  BY DEF IInv
<1> QED BY <1>1, PoolInvariant, PTL

(* No job is in two slots or called by two threads, and its thread finds   *)
(* it.                                                                      *)
THEOREM OneThreadPerJobHolds == Spec => []OneThreadPerJob
<1>1. IInv => OneThreadPerJob
  <2> SUFFICES ASSUME IInv PROVE OneThreadPerJob
    OBVIOUS
  <2>1. CopyFindsWorker
    BY DEF IInv
  <2>2. ASSUME NEW i \in Slots, NEW k \in Slots, i # k
        PROVE  worker[i] = worker[k] => worker[i] = 0
    BY <2>2 DEF IInv, DistinctInv
  <2>3. ASSUME NEW i \in Slots, NEW k \in Slots, i # k
        PROVE  tpc[i] = "call" /\ tpc[k] = "call" => running[i] # running[k]
    BY <2>2, <2>3 DEF IInv, SlotInv
  <2> QED BY <2>1, <2>2, <2>3 DEF OneThreadPerJob
<1> QED BY <1>1, PoolInvariant, PTL

(* DispatchWorker returns -1 only if there was a moment with no free slot.  *)
THEOREM RefusedMeansFullHolds == Spec => []RefusedMeansFull
<1>1. IInv => RefusedMeansFull
  BY DEF IInv
<1> QED BY <1>1, PoolInvariant, PTL

(* A thread never begins a call of a job that has finished.                 *)
THEOREM FinishedNotCalledHolds == Spec => FinishedNotCalled
<1>1. IInv /\ [Next]_vars => [\A i \in Slots : Copy(i) => worker[i] \notin finished]_vars
  BY DEF IInv, SlotInv, Copy
<1> QED BY <1>1, PoolInvariant, PTL DEF Spec, FinishedNotCalled
=============================================================================
