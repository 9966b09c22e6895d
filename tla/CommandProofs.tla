----------------------------- MODULE CommandProofs -----------------------------
(***************************************************************************)
(* Proofs about two of the commands: downloading a file (Download) and     *)
(* locking the machine (LockMachine), for every number of downloads, chunk *)
(* size, set of file sizes, garbage and faults, and for any number of lock *)
(* and unlock commands and keys.  The two have nothing in common.          *)
(*                                                                         *)
(* Download: downloads are served in order, so that everything before      *)
(* an odd download is over.  While none is odd, length and index are those *)
(* of the download being served: index is what has been received of it and *)
(* what has been written, and after its last chunk both are 0 again.  What *)
(* has to be excluded is an empty last chunk that has been sent and not    *)
(* counted as odd; server and client cut the file at the same multiples of *)
(* Chunk.  A message box takes downloads away behind the one that failed,  *)
(* but no later one is served before it is closed.                         *)
(*                                                                         *)
(* LockMachine: several threads may lock the machine at one time, in any   *)
(* order, and nothing is locked among them.  What saves the machine is     *)
(* that each of them undoes what it did: whatever is not as it was has     *)
(* been left so by a thread that is still to restore it.                   *)
(***************************************************************************)
EXTENDS Download, LockMachine, TLAPS

Multiples == {m \in Nat : \E k \in Nat : m = k * Chunk}

(* What no packet has touched.                                              *)
Untouched(i) == written[i] = 0 /\ i \notin closed /\ ends[i] = 0 /\ errors[i] = 0

(* A file that has arrived as WholeFile says. *)
Whole(i) == i \in closed /\ written[i] = size[i] /\ ends[i] = 1 /\ errors[i] = 0

(* Downloads are served one at a time and in order. *)
InOrder ==
    /\ \A i \in Ids : st[i] = "none" <=> i > made
    /\ \A i \in Ids : st[i] = "served" \/ i \in odd =>
          \A k \in 1..(i - 1) : st[k] = "over"
    /\ \A i \in odd : st[i] \in {"served", "over"}
    /\ \A i \in Ids : st[i] \in {"none", "queued", "box"} => Untouched(i) /\ size[i] = 0

(* The chunks between client and server are full ones, but for the last. *)
Aligned(i) ==
    /\ srv = "size" => net = "size" /\ sent = 0
    /\ net = "size" => taken = 0
    /\ net # "end" /\ srv \in {"size", "chunk"} => sent - taken \in Multiples
    /\ net # "end" /\ srv = "done" =>
          \E r \in 1..(Chunk - 1) : sent = bytes[i] /\ sent - taken - r \in Multiples

(* The chunks of a file that has some. *)
Chunks(i) ==
    IF taken = size[i]
    THEN srv = "chunk" /\ length = 0 /\ (size[i] > 0 => Whole(i))
    ELSE length = size[i] /\ index = taken /\ written[i] = taken
            /\ i \notin closed /\ ends[i] = 0 /\ errors[i] = 0

Served(i) ==
    /\ IF srv = "refused" THEN size[i] = 0 /\ net # "chunk" /\ length = 0
                          ELSE bytes[i] = size[i] /\ Aligned(i)
    /\ net = "size" => length = 0 /\ Untouched(i)
    /\ net = "chunk" => Chunks(i)
    /\ net = "end" => length = 0 /\ (size[i] > 0 => Whole(i))

AsExpected ==
    odd = {} =>
        /\ process = "fine"
        /\ (\A i \in Ids : st[i] # "served") => length = 0
        /\ \A i \in Ids : st[i] = "served" => Served(i)

IInv == TypeOK /\ CountersAgree /\ InOrder /\ WholeFile /\ AsExpected

-----------------------------------------------------------------------------
(* Multiples of Chunk. *)

LEMMA ZeroIsMultiple == 0 \in Multiples
<1>1. 0 = 0 * Chunk
  BY DownloadAssumption
<1> QED BY <1>1 DEF Multiples

LEMMA NextMultiple == ASSUME NEW m \in Multiples PROVE m + Chunk \in Multiples
<1>1. PICK k \in Nat : m = k * Chunk
  BY DEF Multiples
<1>2. m + Chunk = (k + 1) * Chunk
  BY <1>1, DownloadAssumption
<1>3. m + Chunk \in Nat /\ k + 1 \in Nat
  BY DownloadAssumption DEF Multiples
<1> QED BY <1>2, <1>3 DEF Multiples

LEMMA PreviousMultiple ==
    ASSUME NEW m \in Multiples, m # 0
    PROVE  m >= Chunk /\ m - Chunk \in Multiples
<1>1. PICK k \in Nat : m = k * Chunk
  BY DEF Multiples
<1>2. k # 0
  BY <1>1, DownloadAssumption
<1>3. k - 1 \in Nat
  BY <1>2
<1>4. m - Chunk = (k - 1) * Chunk
  BY <1>1, DownloadAssumption
<1>5. (k - 1) * Chunk \in Nat
  BY <1>3, DownloadAssumption
<1>6. m - Chunk \in Multiples
  BY <1>3, <1>4, <1>5 DEF Multiples
<1>7. m >= Chunk
  BY <1>4, <1>5, DownloadAssumption DEF Multiples
<1> QED BY <1>6, <1>7

-----------------------------------------------------------------------------
(* Types, and what the counters say. *)

LEMMA ChunkIsNat ==
    ASSUME TypeOK, NEW i \in Ids, NEW n \in Nat, n <= bytes[i]
    PROVE  /\ ChunkAfter(i, n) \in 0..Chunk
           /\ n + ChunkAfter(i, n) <= bytes[i]
           /\ ChunkAfter(i, n) < Chunk => n + ChunkAfter(i, n) = bytes[i]
BY DownloadAssumption DEF TypeOK, ChunkAfter

LEMMA OneServed ==
    ASSUME TypeOK, InOrder, NEW i \in Ids, NEW j \in Ids, st[i] = "served", st[j] = "served"
    PROVE  i = j
<1>1. i \in Nat /\ j \in Nat /\ i >= 1 /\ j >= 1
  BY DownloadAssumption DEF Ids
<1>2. ~(i < j)
  BY <1>1 DEF InOrder, TypeOK
<1>3. ~(j < i)
  BY <1>1 DEF InOrder, TypeOK
<1> QED BY <1>1, <1>2, <1>3

(* The steps at which a request, or the box it opened, is given up. *)
GivenUp(i) == NotReached(i) \/ ConnectFails(i) \/ BoxTakes(i) \/ CloseBox(i)

LEMMA GivenUpFrame ==
    ASSUME TypeOK, NEW i \in Ids, GivenUp(i)
    PROVE  /\ st[i] \in {"queued", "box"} /\ st'[i] \in {"box", "over"}
           /\ st' \in [Ids -> {"none", "queued", "served", "box", "over"}]
           /\ \A j \in Ids \ {i} : st'[j] = st[j]
           /\ UNCHANGED <<made, size, bytes, netVars, length, index, fileVars, status, odd,
                          process>>
<1>1. PICK s \in {"box", "over"} : Request(i, s)
  BY DEF GivenUp, NotReached, ConnectFails, BoxTakes, CloseBox
<1>2. st[i] \in {"queued", "box"}
  BY DEF GivenUp, NotReached, ConnectFails, BoxTakes, CloseBox, NextRequest
<1> QED BY <1>1, <1>2 DEF Request, TypeOK

LEMMA UpdateType ==
    ASSUME TypeOK, CountersAgree, NEW i \in Ids, NEW n \in Nat, NEW v \in Int,
           UpdateDownloadFile(i, n, v)
    PROVE  /\ length' \in Int /\ index' \in Nat /\ odd' \in {odd, odd \cup {i}}
           /\ written' \in [Ids -> Nat] /\ closed' \subseteq Ids
           /\ ends' \in [Ids -> Nat] /\ errors' \in [Ids -> Nat]
           /\ status' \in {"shown", "hidden"} /\ process' \in {"fine", "undefined"}
           /\ CountersAgree'
<1> USE DEF TypeOK, CountersAgree, DownloadEnd, ResetIndex
<1>1. CASE TakeLength(i, v)
  BY <1>1 DEF TakeLength
<1>2. CASE WriteData(i, n)
  <2>1. PICK m \in {n} \cup {k \in Short : k < n} :
            /\ written' = [written EXCEPT ![i] = @ + m]
            /\ odd' = IF m = n THEN odd ELSE odd \cup {i}
    BY <1>2 DEF WriteData
  <2>2. m \in Nat
    BY <2>1, DownloadAssumption
  <2> QED BY <1>2, <2>1, <2>2 DEF WriteData, Finish
<1>3. CASE AfterAll(i)
  BY <1>3 DEF AfterAll, Finish
<1> QED BY <1>1, <1>2, <1>3 DEF UpdateDownloadFile

LEMMA TypeStep ==
    ASSUME TypeOK, CountersAgree, InOrder, [Next]_vars
    PROVE  TypeOK' /\ CountersAgree'
<1>1. CASE DownFile
  <2>1. PICK s \in {"queued", "over"} : st' = [st EXCEPT ![made + 1] = s]
    BY <1>1 DEF DownFile
  <2>2. made + 1 \in Ids /\ made' = made + 1 /\ made' \in 0..Downloads
    BY <1>1, DownloadAssumption DEF DownFile, TypeOK, Ids
  <2>3. \A j \in Ids : st'[j] = "served" => st[j] = "served"
    BY <2>1, <2>2 DEF TypeOK
  <2>4. st' \in [Ids -> {"none", "queued", "served", "box", "over"}]
    BY <2>1, <2>2 DEF TypeOK
  <2> QED BY <1>1, <2>2, <2>3, <2>4 DEF DownFile, TypeOK, CountersAgree, netVars, fileVars
<1>2. ASSUME NEW i \in Ids, GivenUp(i) PROVE TypeOK' /\ CountersAgree'
  <2>1. \A j \in Ids : st'[j] = "served" => st[j] = "served"
    BY <1>2, GivenUpFrame
  <2> QED BY <1>2, <2>1, GivenUpFrame DEF TypeOK, CountersAgree, netVars, fileVars
<1>3. ASSUME NEW i \in Ids, Opened(i) PROVE TypeOK' /\ CountersAgree'
  BY <1>3, DownloadAssumption DEF Opened, NextRequest, TypeOK, CountersAgree, fileVars
<1>4. ASSUME NEW i \in Ids, NotOpened(i) PROVE TypeOK' /\ CountersAgree'
  BY <1>4 DEF NotOpened, NextRequest, TypeOK, CountersAgree, fileVars
<1>5. ASSUME NEW i \in Ids, SendSize(i) PROVE TypeOK' /\ CountersAgree'
  BY <1>5 DEF SendSize, TypeOK, CountersAgree, fileVars
<1>6. ASSUME NEW i \in Ids, SendChunk(i) PROVE TypeOK' /\ CountersAgree'
  <2>1. sent <= bytes[i] /\ \A j \in Ids : st[j] = "served" => j = i
    BY <1>6, OneServed DEF SendChunk, TypeOK
  <2>2. ChunkAfter(i, sent) \in Nat /\ sent + ChunkAfter(i, sent) <= bytes[i]
    BY <2>1, ChunkIsNat, DownloadAssumption DEF TypeOK
  <2> QED BY <1>6, <2>1, <2>2 DEF SendChunk, Last, TypeOK, CountersAgree, fileVars
<1>7. ASSUME NEW i \in Ids, ReceiveSize(i) PROVE TypeOK' /\ CountersAgree'
  <2>1. size[i] \in Int /\ 8 \in Nat
    BY DEF TypeOK
  <2>2. UpdateDownloadFile(i, 8, size[i])
    BY <1>7 DEF ReceiveSize
  <2> QED BY <1>7, <2>1, <2>2, UpdateType DEF ReceiveSize, TypeOK
<1>8. ASSUME NEW i \in Ids, ReceiveChunk(i) PROVE TypeOK' /\ CountersAgree'
  <2> DEFINE n == ChunkAfter(i, taken)
  <2>1. PICK v \in Garbage : UpdateDownloadFile(i, n, v)
    BY <1>8 DEF ReceiveChunk
  <2>2. v \in Int /\ taken \in Nat /\ taken <= bytes[i] /\ sent <= bytes[i] /\ sent \in Nat
    BY <1>8, DownloadAssumption DEF ReceiveChunk, TypeOK
  <2>3. n \in Nat /\ taken + n <= bytes[i]
    BY <2>2, ChunkIsNat, DownloadAssumption
  <2>4. taken' = taken + n /\ \A j \in Ids : st[j] = "served" => j = i
    BY <1>8, OneServed DEF ReceiveChunk
  <2>5. net' \in {"size", "chunk", "end"} /\ UNCHANGED <<made, st, size, bytes, srv, sent>>
    BY <1>8 DEF ReceiveChunk, TypeOK
  <2> HIDE DEF n
  <2>6. /\ length' \in Int /\ index' \in Nat /\ odd' \subseteq Ids
        /\ written' \in [Ids -> Nat] /\ closed' \subseteq Ids
        /\ ends' \in [Ids -> Nat] /\ errors' \in [Ids -> Nat]
        /\ status' \in {"shown", "hidden"} /\ process' \in {"fine", "undefined"}
        /\ CountersAgree'
    BY <2>1, <2>2, <2>3, UpdateType DEF TypeOK
  <2> QED BY <2>2, <2>3, <2>4, <2>5, <2>6 DEF TypeOK
<1>9. ASSUME NEW i \in Ids, PeerClosed(i) PROVE TypeOK' /\ CountersAgree'
  BY <1>9 DEF PeerClosed, TypeOK, CountersAgree, netVars, fileVars
<1>10. ASSUME NEW i \in Ids, Broken(i) PROVE TypeOK' /\ CountersAgree'
  BY <1>10 DEF Broken, TypeOK, CountersAgree, netVars, fileVars
<1>11. CASE UNCHANGED vars
  BY <1>11 DEF vars, TypeOK, CountersAgree, netVars, fileVars
<1> QED
  BY <1>1, <1>2, <1>3, <1>4, <1>5, <1>6, <1>7, <1>8, <1>9, <1>10, <1>11
  DEF Next, Server, Network, GivenUp

-----------------------------------------------------------------------------
(* The order of the downloads. *)

LEMMA UpdateFrame ==
    ASSUME TypeOK, NEW i \in Ids, NEW n \in Nat, NEW v \in Int,
           UpdateDownloadFile(i, n, v), NEW j \in Ids, j # i
    PROVE  /\ written'[j] = written[j] /\ (j \in closed' <=> j \in closed)
           /\ ends'[j] = ends[j] /\ errors'[j] = errors[j]
<1> USE DEF TypeOK, DownloadEnd
<1>1. CASE TakeLength(i, v)
  BY <1>1 DEF TakeLength
<1>2. CASE WriteData(i, n)
  BY <1>2 DEF WriteData, Finish
<1>3. CASE AfterAll(i)
  BY <1>3 DEF AfterAll, Finish
<1> QED BY <1>1, <1>2, <1>3 DEF UpdateDownloadFile

(* What a packet of i leaves alone. *)
LEMMA ReceiveFrame ==
    ASSUME TypeOK, NEW i \in Ids, ReceiveSize(i) \/ ReceiveChunk(i)
    PROVE  /\ UNCHANGED <<made, st, size, bytes>> /\ odd' \in {odd, odd \cup {i}}
           /\ \A j \in Ids \ {i} : UNCHANGED <<written[j], ends[j], errors[j]>>
                                     /\ (j \in closed' <=> j \in closed)
<1>1. CASE ReceiveSize(i)
  <2>1. UpdateDownloadFile(i, 8, size[i]) /\ size[i] \in Int /\ 8 \in Nat
    BY <1>1 DEF ReceiveSize, TypeOK
  <2>2. odd' \in {odd, odd \cup {i}}
    BY <2>1 DEF UpdateDownloadFile, TakeLength, WriteData, AfterAll
  <2> QED BY <1>1, <2>1, <2>2, UpdateFrame DEF ReceiveSize
<1>2. CASE ReceiveChunk(i)
  <2> DEFINE n == ChunkAfter(i, taken)
  <2>1. PICK v \in Garbage : UpdateDownloadFile(i, n, v)
    BY <1>2 DEF ReceiveChunk
  <2>2. v \in Int /\ n \in Nat
    BY <1>2, ChunkIsNat, DownloadAssumption DEF ReceiveChunk, TypeOK
  <2> HIDE DEF n
  <2>3. odd' \in {odd, odd \cup {i}}
    BY <2>1 DEF UpdateDownloadFile, TakeLength, WriteData, AfterAll
  <2> QED BY <1>2, <2>1, <2>2, <2>3, UpdateFrame DEF ReceiveChunk
<1> QED BY <1>1, <1>2

LEMMA OrderStep ==
    ASSUME TypeOK, InOrder, [Next]_vars
    PROVE  InOrder'
<1> USE DEF InOrder
<1>0. Ids \subseteq Nat
  BY DownloadAssumption DEF Ids
<1>1. CASE DownFile
  <2>1. PICK s \in {"queued", "over"} : st' = [st EXCEPT ![made + 1] = s]
    BY <1>1 DEF DownFile
  <2>2. made \in Nat /\ made + 1 \in Ids /\ made' = made + 1
    BY <1>1, DownloadAssumption DEF DownFile, TypeOK, Ids
  <2>3. st[made + 1] = "none" /\ made + 1 \notin odd
    BY <2>2
  <2>4. \A j \in Ids : st'[j] = IF j = made + 1 THEN s ELSE st[j]
    BY <2>1, <2>2 DEF TypeOK
  <2>5. UNCHANGED <<size, odd, written, closed, ends, errors>>
    BY <1>1 DEF DownFile, fileVars
  <2>6. \A i \in Ids : st'[i] = "none" <=> i > made'
    BY <2>2, <2>4, <1>0
  <2>7. \A i \in Ids : st'[i] = "served" \/ i \in odd' =>
            \A k \in 1..(i - 1) : st'[k] = "over"
    <3> SUFFICES ASSUME NEW i \in Ids, st'[i] = "served" \/ i \in odd',
                        NEW k \in 1..(i - 1)
                 PROVE  st'[k] = "over"
      OBVIOUS
    <3>1. k \in Ids /\ k < i
      BY DownloadAssumption DEF Ids
    <3>2. i # made + 1 /\ (st[i] = "served" \/ i \in odd)
      BY <2>3, <2>4, <2>5
    <3>3. st[k] = "over"
      BY <3>2
    <3> QED BY <3>1, <3>3, <2>3, <2>4
  <2>8. \A i \in odd' : st'[i] \in {"served", "over"}
    BY <2>3, <2>4, <2>5 DEF TypeOK
  <2>9. \A i \in Ids : st'[i] \in {"none", "queued", "box"} => Untouched(i)' /\ size'[i] = 0
    BY <2>3, <2>4, <2>5 DEF Untouched
  <2> QED BY <2>6, <2>7, <2>8, <2>9
<1>2. ASSUME NEW i \in Ids, GivenUp(i) PROVE InOrder'
  <2>1. /\ st[i] \in {"queued", "box"} /\ st'[i] \in {"box", "over"} /\ i \notin odd
        /\ \A j \in Ids : j # i => st'[j] = st[j]
    BY <1>2, GivenUpFrame
  <2>2. UNCHANGED <<made, size, odd, written, closed, ends, errors>>
    BY <1>2, GivenUpFrame DEF fileVars
  <2>3. ASSUME NEW j \in Ids, st'[j] = "served" \/ j \in odd', NEW k \in 1..(j - 1)
        PROVE  st'[k] = "over"
    <3>1. k \in Ids
      BY DownloadAssumption DEF Ids
    <3>2. st[k] = "over"
      BY <2>1, <2>2, <2>3
    <3> QED BY <3>1, <3>2, <2>1
  <2>4. \A j \in Ids : st'[j] \in {"none", "queued", "box"} => Untouched(j)' /\ size'[j] = 0
    BY <2>1, <2>2 DEF Untouched
  <2>5. \A j \in Ids : st'[j] = "none" <=> j > made'
    BY <2>1, <2>2
  <2>6. \A j \in odd' : st'[j] \in {"served", "over"}
    BY <2>1, <2>2 DEF TypeOK
  <2> QED BY <2>3, <2>4, <2>5, <2>6
<1>3. ASSUME NEW i \in Ids, Opened(i) \/ NotOpened(i) PROVE InOrder'
  <2>1. /\ st' = [st EXCEPT ![i] = "served"] /\ st[i] = "queued" /\ i \notin odd
        /\ \A j \in 1..(i - 1) : st[j] = "over"
    <3>1. NextRequest(i) /\ st' = [st EXCEPT ![i] = "served"]
      BY <1>3 DEF Opened, NotOpened
    <3>2. ASSUME NEW j \in 1..(i - 1) PROVE st[j] = "over"
      <4>1. j \in Ids /\ j < i
        BY DownloadAssumption DEF Ids
      <4>2. st[j] \notin {"served", "queued", "box"}
        BY <3>1, <4>1 DEF NextRequest
      <4>3. st[j] # "none"
        BY <3>1, <4>1, <1>0 DEF NextRequest, TypeOK
      <4> QED BY <4>1, <4>2, <4>3 DEF TypeOK
    <3> QED BY <3>1, <3>2 DEF NextRequest
  <2>2. UNCHANGED <<made, written, closed, ends, errors>>
    BY <1>3 DEF Opened, NotOpened, fileVars
  <2>3. \A j \in Ids : st'[j] = IF j = i THEN "served" ELSE st[j]
    BY <2>1 DEF TypeOK
  <2>4. odd' \in {odd, odd \cup {i}} /\ \A j \in Ids : j # i => size'[j] = size[j]
    <3>1. CASE Opened(i)
      BY <3>1 DEF Opened, TypeOK
    <3>2. CASE NotOpened(i)
      BY <3>2 DEF NotOpened, TypeOK
    <3> QED BY <1>3, <3>1, <3>2
  <2>5. \A j \in Ids : st'[j] = "none" <=> j > made'
    BY <2>1, <2>2, <2>3
  <2>6. ASSUME NEW j \in Ids, st'[j] = "served" \/ j \in odd', NEW k \in 1..(j - 1)
        PROVE  st'[k] = "over"
    <3>1. k \in Ids /\ k < j
      BY DownloadAssumption DEF Ids
    <3>2. CASE j = i
      BY <3>1, <3>2, <2>1, <2>3
    <3>3. CASE j # i
      BY <3>1, <3>3, <2>1, <2>3, <2>4, <2>6
    <3> QED BY <3>2, <3>3
  <2>7. \A j \in odd' : st'[j] \in {"served", "over"}
    BY <2>1, <2>3, <2>4 DEF TypeOK
  <2>8. \A j \in Ids : st'[j] \in {"none", "queued", "box"} => Untouched(j)' /\ size'[j] = 0
    BY <2>2, <2>3, <2>4 DEF Untouched
  <2> QED BY <2>5, <2>6, <2>7, <2>8
<1>4. ASSUME NEW i \in Ids, SendSize(i) PROVE InOrder'
  BY <1>4 DEF SendSize, fileVars, Untouched
<1>5. ASSUME NEW i \in Ids, SendChunk(i) PROVE InOrder'
  <2>1. st[i] = "served" /\ odd' \in {odd, odd \cup {i}}
    BY <1>5 DEF SendChunk
  <2>2. UNCHANGED <<made, st, size, written, closed, ends, errors>>
    BY <1>5 DEF SendChunk, fileVars
  <2> QED BY <2>1, <2>2 DEF Untouched
<1>6. ASSUME NEW i \in Ids, ReceiveSize(i) \/ ReceiveChunk(i) PROVE InOrder'
  <2>1. st[i] = "served"
    BY <1>6 DEF ReceiveSize, ReceiveChunk
  <2> QED BY <1>6, <2>1, ReceiveFrame DEF Untouched
<1>7. ASSUME NEW i \in Ids, PeerClosed(i) \/ Broken(i) PROVE InOrder'
  <2>1. /\ st[i] = "served" /\ st' = [st EXCEPT ![i] = "over"]
        /\ odd' \in {odd, odd \cup {i}}
    BY <1>7 DEF PeerClosed, Broken
  <2>2. UNCHANGED <<made, size, written, closed, ends, errors>>
    BY <1>7 DEF PeerClosed, Broken, fileVars
  <2>3. \A j \in Ids : st'[j] = IF j = i THEN "over" ELSE st[j]
    BY <2>1 DEF TypeOK
  <2>4. \A j \in Ids : st'[j] = "none" <=> j > made'
    BY <2>1, <2>2, <2>3
  <2>5. ASSUME NEW j \in Ids, st'[j] = "served" \/ j \in odd', NEW k \in 1..(j - 1)
        PROVE  st'[k] = "over"
    <3>1. k \in Ids
      BY DownloadAssumption DEF Ids
    <3>2. st[j] = "served" \/ j \in odd
      BY <2>1, <2>3, <2>5
    <3> QED BY <3>1, <3>2, <2>3
  <2>6. \A j \in odd' : st'[j] \in {"served", "over"}
    BY <2>1, <2>3 DEF TypeOK
  <2>7. \A j \in Ids : st'[j] \in {"none", "queued", "box"} => Untouched(j)' /\ size'[j] = 0
    BY <2>2, <2>3 DEF Untouched
  <2> QED BY <2>4, <2>5, <2>6, <2>7
<1>8. CASE UNCHANGED vars
  BY <1>8 DEF vars, fileVars, Untouched
<1> QED
  BY <1>1, <1>2, <1>3, <1>4, <1>5, <1>6, <1>7, <1>8 DEF Next, Server, Network, GivenUp

-----------------------------------------------------------------------------
(* The download that is served, as long as none is odd. *)

LEMMA ChunkCases ==
    ASSUME TypeOK, NEW i \in Ids, NEW n \in Nat, n <= bytes[i]
    PROVE  \/ ChunkAfter(i, n) = Chunk /\ bytes[i] - n >= Chunk
           \/ ChunkAfter(i, n) = bytes[i] - n /\ bytes[i] - n < Chunk
BY DownloadAssumption DEF TypeOK, ChunkAfter

LEMMA OpenedServed ==
    ASSUME TypeOK, InOrder, AsExpected, NEW i \in Ids, Opened(i) \/ NotOpened(i), odd' = {}
    PROVE  Served(i)' /\ process' = "fine"
<1>0. odd = {} /\ length = 0 /\ length' = 0 /\ process' = "fine"
  BY DEF Opened, NotOpened, NextRequest, AsExpected
<1>1. Untouched(i)'
  BY DEF Opened, NotOpened, NextRequest, InOrder, Untouched, fileVars
<1>2. CASE Opened(i)
  <2>1. /\ srv' = "size" /\ net' = "size" /\ sent' = 0 /\ taken' = 0
        /\ bytes'[i] = size'[i]
    <3>1. PICK s \in Sizes, b \in Sizes :
              /\ size' = [size EXCEPT ![i] = s] /\ bytes' = [bytes EXCEPT ![i] = b]
              /\ odd' = IF b = s THEN odd ELSE odd \cup {i}
      BY <1>2 DEF Opened
    <3>2. b = s
      BY <3>1
    <3> QED BY <1>2, <3>1, <3>2 DEF Opened, TypeOK
  <2>2. Aligned(i)'
    BY <2>1, ZeroIsMultiple DEF Aligned
  <2> QED BY <1>0, <1>1, <2>1, <2>2 DEF Served
<1>3. CASE NotOpened(i)
  BY <1>0, <1>1, <1>3 DEF NotOpened, Served, TypeOK
<1> QED BY <1>2, <1>3

LEMMA SendServed ==
    ASSUME TypeOK, NEW i \in Ids, Server(i), Served(i), odd' = {}
    PROVE  Served(i)'
<1>1. CASE SendSize(i)
  <2>1. Aligned(i) /\ net = "size" /\ sent = 0 /\ taken = 0 /\ bytes[i] = size[i]
    BY <1>1 DEF SendSize, Served, Aligned
  <2>2. Aligned(i)'
    BY <1>1, <2>1, ZeroIsMultiple DEF SendSize, Aligned
  <2> QED BY <1>1, <2>1, <2>2 DEF SendSize, Served, Untouched, fileVars
<1>2. CASE SendChunk(i)
  <2> DEFINE n == ChunkAfter(i, sent)
  <2>1. /\ srv = "chunk" /\ sent' = sent + n /\ srv' = IF Last(n) THEN "done" ELSE srv
        /\ n # 0 /\ st[i] = "served"
        /\ UNCHANGED <<size, bytes, net, taken, length, index, written, closed, ends, errors>>
    BY <1>2 DEF SendChunk, fileVars
  <2>2. Aligned(i) /\ bytes[i] = size[i] /\ bytes[i] \in Nat /\ sent \in Nat /\ taken \in Nat
    BY <2>1 DEF Served, TypeOK
  <2>3. sent <= bytes[i] /\ taken <= bytes[i]
    BY <2>1 DEF TypeOK
  <2>4. \/ n = Chunk /\ bytes[i] - sent >= Chunk
        \/ n = bytes[i] - sent /\ bytes[i] - sent < Chunk
    BY <2>2, <2>3, ChunkCases
  <2> HIDE DEF n
  <2>5. Aligned(i)'
    <3>1. CASE net = "end"
      BY <2>1, <2>2, <3>1 DEF Aligned
    <3>2. CASE net # "end"
      <4>1. sent - taken \in Multiples /\ sent - taken \in Nat
        BY <2>1, <2>2, <3>2 DEF Aligned, Multiples
      <4>2. CASE n = Chunk
        <5>1. sent' - taken \in Multiples
          <6>1. sent' - taken = (sent - taken) + Chunk
            BY <2>1, <2>2, <4>2, DownloadAssumption
          <6> QED BY <4>1, <6>1, NextMultiple
        <5> QED BY <2>1, <2>2, <4>2, <5>1, DownloadAssumption DEF Aligned, Last
      <4>3. CASE n # Chunk
        <5>1. n = bytes[i] - sent /\ n \in 1..(Chunk - 1)
          BY <2>1, <2>2, <2>3, <2>4, <4>3, DownloadAssumption
        <5>2. sent' = bytes[i] /\ sent' - taken - n = sent - taken
          BY <2>1, <2>2, <5>1
        <5>3. srv' = "done"
          BY <2>1, <5>1, DownloadAssumption DEF Last
        <5> QED BY <2>1, <2>2, <4>1, <5>1, <5>2, <5>3 DEF Aligned
      <4> QED BY <4>2, <4>3
    <3> QED BY <3>1, <3>2
  <2>6. net = "chunk" => taken # size[i]
    <3>1. SUFFICES ASSUME net = "chunk", taken = size[i] PROVE FALSE
      OBVIOUS
    <3>2. sent - taken \in Nat
      BY <2>1, <2>2, <3>1 DEF Aligned, Multiples
    <3>3. sent = bytes[i]
      BY <2>2, <2>3, <3>1, <3>2
    <3> QED BY <2>1, <2>2, <2>4, <3>3, DownloadAssumption
  <2>7. srv' # "refused"
    BY <2>1
  <2> QED BY <2>1, <2>2, <2>5, <2>6, <2>7 DEF Served, Chunks, Whole, Untouched
<1> QED BY <1>1, <1>2 DEF Server

LEMMA ReceiveSizeServed ==
    ASSUME TypeOK, CountersAgree, NEW i \in Ids, ReceiveSize(i), Served(i)
    PROVE  Served(i)' /\ process' = "fine"
<1>1. /\ net = "size" /\ srv # "size" /\ process = "fine"
      /\ net' = IF srv = "refused" THEN "end" ELSE "chunk"
      /\ UNCHANGED <<size, bytes, srv, sent, taken>>
  BY DEF ReceiveSize
<1>2. length = 0 /\ index = 0 /\ Untouched(i) /\ size[i] \in Nat
  BY <1>1 DEF Served, CountersAgree, TypeOK
<1>3. TakeLength(i, size[i])
  BY <1>2 DEF ReceiveSize, UpdateDownloadFile, WriteData, AfterAll
<1>4. /\ length' = size[i] /\ index' = 0 /\ process' = "fine"
      /\ UNCHANGED <<written, closed>>
      /\ size[i] # 0 => ends'[i] = 0 /\ errors'[i] = 0
  BY <1>1, <1>2, <1>3 DEF TakeLength, Untouched
<1>5. CASE srv = "refused"
  BY <1>1, <1>4, <1>5 DEF Served
<1>6. CASE srv # "refused"
  <2>1. bytes[i] = size[i] /\ Aligned(i) /\ taken = 0
    BY <1>1, <1>6 DEF Served, Aligned
  <2>2. Aligned(i)'
    BY <1>1, <1>6, <2>1 DEF Aligned
  <2>3. size[i] # 0 => Chunks(i)'
    BY <1>1, <1>2, <1>4, <2>1 DEF Chunks, Untouched
  <2>4. size[i] = 0 => Chunks(i)'
    <3>1. SUFFICES ASSUME size[i] = 0 PROVE Chunks(i)'
      OBVIOUS
    <3>2. srv = "chunk"
      <4>1. SUFFICES ASSUME srv = "done" PROVE FALSE
        BY <1>1, <1>6 DEF TypeOK
      <4>2. PICK r \in 1..(Chunk - 1) : sent = bytes[i] /\ sent - taken - r \in Multiples
        BY <1>1, <2>1, <4>1 DEF Aligned
      <4>3. sent = 0 /\ sent - taken - r \in Nat
        BY <2>1, <3>1, <4>2 DEF Multiples
      <4> QED BY <2>1, <4>3, DownloadAssumption
    <3> QED BY <1>1, <1>4, <2>1, <3>1, <3>2 DEF Chunks
  <2> QED BY <1>1, <1>4, <1>6, <2>1, <2>2, <2>3, <2>4 DEF Served
<1> QED BY <1>5, <1>6

LEMMA ReceiveChunkServed ==
    ASSUME TypeOK, CountersAgree, NEW i \in Ids, ReceiveChunk(i), Served(i), odd' = {}
    PROVE  Served(i)' /\ process' = "fine"
<1> DEFINE n == ChunkAfter(i, taken)
<1>1. /\ net = "chunk" /\ (taken < sent \/ srv = "done") /\ st[i] = "served" /\ process = "fine"
      /\ taken' = taken + n /\ net' = IF Last(n) THEN "end" ELSE net
      /\ UNCHANGED <<size, bytes, srv, sent>>
  BY DEF ReceiveChunk
<1>2. /\ srv # "refused" /\ bytes[i] = size[i] /\ Aligned(i) /\ Chunks(i)
      /\ size[i] \in Nat /\ taken \in Nat /\ sent \in Nat
      /\ sent <= size[i] /\ taken <= size[i]
  BY <1>1 DEF Served, TypeOK
<1>3. taken < size[i] /\ taken < sent
  <2>1. CASE srv = "done"
    <3>1. PICK r \in 1..(Chunk - 1) : sent = bytes[i] /\ sent - taken - r \in Multiples
      BY <1>1, <1>2, <2>1 DEF Aligned
    <3>2. sent - taken - r \in Nat
      BY <3>1 DEF Multiples
    <3> QED BY <1>2, <3>1, <3>2, DownloadAssumption
  <2>2. CASE srv # "done"
    BY <1>1, <1>2, <2>2
  <2> QED BY <2>1, <2>2
<1>4. /\ length = size[i] /\ index = taken /\ written[i] = taken
      /\ i \notin closed /\ ends[i] = 0 /\ errors[i] = 0
  BY <1>2, <1>3 DEF Chunks
<1>5. \/ n = Chunk /\ size[i] - taken >= Chunk
      \/ n = size[i] - taken /\ size[i] - taken < Chunk
  BY <1>2, ChunkCases
<1>6. WriteData(i, n)
  BY <1>2, <1>3, <1>4 DEF ReceiveChunk, UpdateDownloadFile, TakeLength, AfterAll
<1> HIDE DEF n
<1>7. /\ process' = "fine" /\ written'[i] = taken + n /\ errors'[i] = 0
      /\ IF taken + n >= size[i]
         THEN i \in closed' /\ length' = 0 /\ ends'[i] = 1
         ELSE /\ index' = taken + n /\ length' = size[i]
              /\ i \notin closed' /\ ends'[i] = 0
  <2>1. written' = [written EXCEPT ![i] = @ + n]
    BY <1>6 DEF WriteData
  <2> QED BY <1>4, <1>6, <2>1 DEF WriteData, Finish, DownloadEnd, TypeOK
<1>8. CASE n = Chunk /\ size[i] - taken >= Chunk
  <2>1. net' = "chunk"
    BY <1>1, <1>8, DownloadAssumption DEF Last
  <2>2. /\ srv = "size" => FALSE
        /\ srv = "chunk" => sent - taken' \in Multiples
        /\ srv = "done" => \E r \in 1..(Chunk - 1) :
                              sent = bytes[i] /\ sent - taken' - r \in Multiples
    <3>1. CASE srv = "chunk"
      <4>1. sent - taken \in Multiples /\ sent - taken # 0
        BY <1>1, <1>2, <1>3, <3>1 DEF Aligned
      <4>2. sent - taken' = (sent - taken) - Chunk
        BY <1>1, <1>2, <1>8, DownloadAssumption
      <4> QED BY <3>1, <4>1, <4>2, PreviousMultiple
    <3>2. CASE srv = "done"
      <4>1. PICK r \in 1..(Chunk - 1) : sent = bytes[i] /\ sent - taken - r \in Multiples
        BY <1>1, <1>2, <3>2 DEF Aligned
      <4>2. sent - taken - r # 0
        BY <1>2, <1>8, <4>1, DownloadAssumption
      <4>3. sent - taken' - r = (sent - taken - r) - Chunk
        BY <1>1, <1>2, <1>8, <4>1, DownloadAssumption
      <4>4. sent - taken' - r \in Multiples
        BY <4>1, <4>2, <4>3, PreviousMultiple
      <4> QED BY <3>2, <4>1, <4>4
    <3>3. srv # "size"
      BY <1>1, <1>2 DEF Aligned
    <3> QED BY <3>1, <3>2, <3>3
  <2>3. Aligned(i)'
    BY <1>1, <2>1, <2>2 DEF Aligned, TypeOK
  <2>4. Chunks(i)'
    <3>1. CASE taken' = size[i]
      <4>1. srv = "chunk"
        <5>1. SUFFICES ASSUME srv = "done" PROVE FALSE
          BY <1>2, <2>2 DEF TypeOK
        <5>2. PICK r \in 1..(Chunk - 1) : sent = bytes[i] /\ sent - taken' - r \in Multiples
          BY <2>2, <5>1
        <5>3. sent - taken' - r \in Nat
          BY <5>2 DEF Multiples
        <5> QED BY <1>2, <3>1, <5>2, <5>3, DownloadAssumption
      <4> QED BY <1>1, <1>2, <1>7, <3>1, <4>1 DEF Chunks, Whole
    <3>2. CASE taken' # size[i]
      <4>1. taken + n < size[i]
        BY <1>1, <1>2, <1>8, <3>2, DownloadAssumption
      <4>2. ~(taken + n >= size[i])
        BY <1>2, <1>8, <4>1, DownloadAssumption
      <4>3. /\ index' = taken + n /\ length' = size[i]
            /\ i \notin closed' /\ ends'[i] = 0
        BY <1>7, <4>2
      <4> QED BY <1>1, <1>2, <1>7, <3>2, <4>3 DEF Chunks
    <3> QED BY <3>1, <3>2
  <2> QED BY <1>1, <1>2, <1>7, <2>1, <2>3, <2>4 DEF Served
<1>9. CASE n = size[i] - taken /\ size[i] - taken < Chunk
  <2>1. net' = "end" /\ taken + n = size[i]
    BY <1>1, <1>2, <1>9 DEF Last
  <2>2. Whole(i)' /\ length' = 0
    BY <1>1, <1>2, <1>7, <2>1 DEF Whole
  <2>3. Aligned(i)'
    BY <1>1, <1>2, <2>1 DEF Aligned
  <2> QED BY <1>1, <1>2, <1>7, <2>1, <2>2, <2>3 DEF Served
<1> QED BY <1>5, <1>8, <1>9

-----------------------------------------------------------------------------
(* The step of each action. *)

LEMMA OthersServed ==
    ASSUME TypeOK, InOrder, NEW i \in Ids, st[i] = "served", st' = st
    PROVE  \A j \in Ids : st'[j] = "served" => j = i
BY OneServed

LEMMA ExpectedStep ==
    ASSUME TypeOK, CountersAgree, InOrder, AsExpected, [Next]_vars
    PROVE  AsExpected'
<1> SUFFICES ASSUME odd' = {}
             PROVE  /\ process' = "fine"
                    /\ (\A i \in Ids : st'[i] # "served") => length' = 0
                    /\ \A i \in Ids : st'[i] = "served" => Served(i)'
  BY DEF AsExpected
<1>1. CASE DownFile
  <2>1. PICK s \in {"queued", "over"} : st' = [st EXCEPT ![made + 1] = s]
    BY <1>1 DEF DownFile
  <2>2. /\ UNCHANGED <<size, bytes, odd, process, netVars, length, index, fileVars>>
        /\ made + 1 \in Ids /\ made + 1 > made
    BY <1>1, DownloadAssumption DEF DownFile, TypeOK, Ids
  <2>3. \A j \in Ids : st'[j] = "served" <=> st[j] = "served"
    BY <2>1, <2>2 DEF TypeOK, InOrder
  <2> QED
    BY <2>2, <2>3 DEF AsExpected, Served, Aligned, Chunks, Whole, Untouched, netVars, fileVars
<1>2. ASSUME NEW i \in Ids, GivenUp(i)
      PROVE  /\ process' = "fine"
             /\ (\A j \in Ids : st'[j] # "served") => length' = 0
             /\ \A j \in Ids : st'[j] = "served" => Served(j)'
  <2>1. UNCHANGED <<size, bytes, odd, process, netVars, length, index, fileVars>>
    BY <1>2, GivenUpFrame
  <2>2. \A j \in Ids : st'[j] = "served" <=> st[j] = "served"
    BY <1>2, GivenUpFrame
  <2> QED
    BY <2>1, <2>2 DEF AsExpected, Served, Aligned, Chunks, Whole, Untouched, netVars, fileVars
<1>3. ASSUME NEW i \in Ids, Opened(i) \/ NotOpened(i)
      PROVE  /\ process' = "fine" /\ st'[i] = "served"
             /\ \A j \in Ids : st'[j] = "served" => Served(j)'
  <2>1. Served(i)' /\ process' = "fine"
    BY <1>3, OpenedServed
  <2>2. /\ st' = [st EXCEPT ![i] = "served"]
        /\ \A j \in Ids : st[j] # "served"
    BY <1>3 DEF Opened, NotOpened, NextRequest
  <2> QED BY <2>1, <2>2 DEF TypeOK
<1>4. ASSUME NEW i \in Ids, Server(i)
      PROVE  /\ process' = "fine" /\ st'[i] = "served"
             /\ \A j \in Ids : st'[j] = "served" => Served(j)'
  <2>1. st[i] = "served" /\ st' = st /\ process' = process
    BY <1>4 DEF Server, SendSize, SendChunk
  <2>2. odd = {}
    BY <1>4 DEF Server, SendSize, SendChunk
  <2>3. Served(i) /\ process = "fine"
    BY <2>1, <2>2 DEF AsExpected
  <2> QED BY <1>4, <2>1, <2>3, SendServed, OthersServed
<1>5. ASSUME NEW i \in Ids, ReceiveSize(i) \/ ReceiveChunk(i)
      PROVE  /\ process' = "fine" /\ st'[i] = "served"
             /\ \A j \in Ids : st'[j] = "served" => Served(j)'
  <2>1. st[i] = "served" /\ st' = st /\ odd = {}
    BY <1>5, ReceiveFrame DEF ReceiveSize, ReceiveChunk
  <2>2. Served(i)
    BY <2>1 DEF AsExpected
  <2> QED
    BY <1>5, <2>1, <2>2, ReceiveSizeServed, ReceiveChunkServed, OthersServed
<1>6. ASSUME NEW i \in Ids, PeerClosed(i) \/ Broken(i)
      PROVE  /\ process' = "fine" /\ length' = 0
             /\ \A j \in Ids : st'[j] # "served"
  <2>1. /\ st[i] = "served" /\ st' = [st EXCEPT ![i] = "over"] /\ net = "end"
        /\ odd = {} /\ length' = length /\ process' = process
    BY <1>6 DEF PeerClosed, Broken
  <2>2. Served(i) /\ process = "fine"
    BY <2>1 DEF AsExpected
  <2>3. length = 0
    BY <2>1, <2>2 DEF Served
  <2>4. \A j \in Ids : st[j] = "served" => j = i
    BY <2>1, OneServed
  <2> QED BY <2>1, <2>2, <2>3, <2>4 DEF TypeOK
<1>7. CASE UNCHANGED vars
  BY <1>7
  DEF vars, netVars, fileVars, AsExpected, Served, Aligned, Chunks, Whole, Untouched
<1> QED BY <1>1, <1>2, <1>3, <1>4, <1>5, <1>6, <1>7 DEF Next, Network, GivenUp

LEMMA WholeStep ==
    ASSUME TypeOK, InOrder, AsExpected, WholeFile, [Next]_vars
    PROVE  WholeFile'
<1> SUFFICES ASSUME NEW j \in Ids, \A k \in 1..j : k \notin odd',
                    st'[j] = "over", size'[j] > 0
             PROVE  Whole(j)'
  BY DEF WholeFile, CleanUntil, Whole
<1>0. ASSUME st[j] = "over", size[j] > 0, odd \subseteq odd' PROVE Whole(j)
  BY <1>0 DEF WholeFile, CleanUntil, Whole
<1>1. CASE DownFile
  <2>1. PICK s \in {"queued", "over"} : st' = [st EXCEPT ![made + 1] = s]
    BY <1>1 DEF DownFile
  <2>2. UNCHANGED <<size, odd, fileVars>> /\ made + 1 > made
    BY <1>1, DownloadAssumption DEF DownFile, TypeOK
  <2>3. st[j] = "over"
    BY <2>1, <2>2 DEF InOrder, TypeOK
  <2> QED BY <1>0, <2>2, <2>3 DEF Whole, fileVars
<1>2. ASSUME NEW i \in Ids, Opened(i) \/ NotOpened(i) PROVE Whole(j)'
  <2>1. st' = [st EXCEPT ![i] = "served"] /\ UNCHANGED fileVars /\ odd \subseteq odd'
    BY <1>2 DEF Opened, NotOpened
  <2>2. i # j /\ st[j] = "over"
    BY <2>1 DEF TypeOK
  <2>3. size'[j] = size[j]
    <3>1. CASE Opened(i)
      BY <3>1, <2>2 DEF Opened, TypeOK
    <3>2. CASE NotOpened(i)
      BY <3>2, <2>2 DEF NotOpened, TypeOK
    <3> QED BY <1>2, <3>1, <3>2
  <2> QED BY <1>0, <2>1, <2>2, <2>3 DEF Whole, fileVars
<1>7. ASSUME NEW i \in Ids, GivenUp(i) PROVE Whole(j)'
  <2>1. UNCHANGED <<size, odd, fileVars>>
    BY <1>7, GivenUpFrame
  <2>2. i # j
    BY <1>7, <2>1, GivenUpFrame DEF InOrder
  <2>3. st[j] = "over"
    BY <1>7, <2>2, GivenUpFrame
  <2> QED BY <1>0, <2>1, <2>3 DEF Whole, fileVars
<1>3. ASSUME NEW i \in Ids, Server(i) PROVE Whole(j)'
  <2>1. UNCHANGED <<st, size, fileVars>> /\ odd \subseteq odd'
    BY <1>3 DEF Server, SendSize, SendChunk
  <2> QED BY <1>0, <2>1 DEF Whole, fileVars
<1>4. ASSUME NEW i \in Ids, ReceiveSize(i) \/ ReceiveChunk(i) PROVE Whole(j)'
  <2>1. st[i] = "served"
    BY <1>4 DEF ReceiveSize, ReceiveChunk
  <2>2. UNCHANGED <<st, size>> /\ odd \subseteq odd'
    BY <1>4, ReceiveFrame
  <2>3. i # j /\ st[j] = "over" /\ size[j] > 0
    BY <2>1, <2>2
  <2> QED BY <1>0, <1>4, <2>2, <2>3, ReceiveFrame DEF Whole
<1>5. ASSUME NEW i \in Ids, PeerClosed(i) \/ Broken(i) PROVE Whole(j)'
  <2>1. /\ st[i] = "served" /\ st' = [st EXCEPT ![i] = "over"]
        /\ odd \subseteq odd' /\ (net = "end" \/ i \in odd')
        /\ UNCHANGED <<size, fileVars>>
    BY <1>5 DEF PeerClosed, Broken
  <2>2. CASE i # j
    BY <1>0, <2>1, <2>2 DEF Whole, TypeOK, fileVars
  <2>3. CASE i = j
    <3>1. net = "end"
      BY <2>1, <2>3, DownloadAssumption DEF Ids
    <3>2. odd = {}
      <4>1. SUFFICES ASSUME NEW k \in odd PROVE FALSE
        OBVIOUS
      <4>2. k \in Ids /\ k > j
        BY <2>1, <4>1, DownloadAssumption DEF Ids, TypeOK
      <4>3. j \in 1..(k - 1)
        BY <4>2, DownloadAssumption DEF Ids
      <4> QED BY <2>1, <2>3, <4>2, <4>3 DEF InOrder
    <3>3. Whole(j)
      BY <2>1, <2>3, <3>1, <3>2 DEF AsExpected, Served
    <3> QED BY <2>1, <3>3 DEF Whole, fileVars
  <2> QED BY <2>2, <2>3
<1>6. CASE UNCHANGED vars
  BY <1>0, <1>6 DEF vars, fileVars, Whole
<1> QED BY <1>1, <1>2, <1>3, <1>4, <1>5, <1>6, <1>7 DEF Next, Network, GivenUp

-----------------------------------------------------------------------------
LEMMA InitIInv == Init => IInv
<1> SUFFICES ASSUME Init PROVE IInv
  OBVIOUS
<1>1. TypeOK /\ CountersAgree
  BY DownloadAssumption DEF Init, TypeOK, CountersAgree
<1>2. InOrder
  BY DownloadAssumption DEF Init, InOrder, Untouched, Ids
<1>3. WholeFile /\ AsExpected
  BY DEF Init, WholeFile, AsExpected
<1> QED BY <1>1, <1>2, <1>3 DEF IInv

LEMMA NextIInv == IInv /\ [Next]_vars => IInv'
BY TypeStep, OrderStep, ExpectedStep, WholeStep DEF IInv

LEMMA DownloadInvariant == Spec => []IInv
BY InitIInv, NextIInv, PTL DEF Spec

(* The types of the variables, and that no more is sent or received than    *)
(* there is to read.                                                        *)
THEOREM DownloadTypeCorrect == Spec => []TypeOK
<1>1. IInv => TypeOK
  BY DEF IInv
<1> QED BY <1>1, DownloadInvariant, PTL

(* length and index belong together, whatever has happened before: the      *)
(* second branch of UpdateDownloadFile is never taken.                      *)
THEOREM CountersAgreeHolds == Spec => []CountersAgree
<1>1. IInv => CountersAgree
  BY DEF IInv
<1> QED BY <1>1, DownloadInvariant, PTL

(* A download before which and in which nothing odd has happened gives its  *)
(* file the bytes that were announced, closes it and says so once.          *)
THEOREM WholeFileHolds == Spec => []WholeFile
<1>1. IInv => WholeFile
  BY DEF IInv
<1> QED BY <1>1, DownloadInvariant, PTL

(* Without an odd download no FILE is used after fclose. *)
THEOREM NoUseAfterCloseHolds == Spec => []NoUseAfterClose
<1>1. IInv => NoUseAfterClose
  BY DEF IInv, AsExpected, NoUseAfterClose, TypeOK
<1> QED BY <1>1, DownloadInvariant, PTL

-----------------------------------------------------------------------------
(* The safety part of StatusHides: when every download is over, or its      *)
(* message box open, the status window is hidden, unless one was odd or did *)
(* not reach the server.                                                    *)
StatusAtRest ==
    status = "shown" /\ (\A i \in Ids : st[i] \in {"none", "box", "over"}) =>
        odd # {} \/ \E i \in Ids : Unserved(i)

(* A download whose packets are still to hide the window. *)
Hiding(i) == st[i] = "queued" \/ (st[i] = "served" /\ ends[i] = 0 /\ errors[i] = 0)

StatusSound == status = "shown" => odd # {} \/ \E i \in Ids : Hiding(i) \/ Unserved(i)

LEMMA UpdateHides ==
    ASSUME TypeOK, NEW i \in Ids, NEW n, NEW value, UpdateDownloadFile(i, n, value)
    PROVE  status' = "hidden" \/ UNCHANGED <<ends, errors, status>>
BY DEF UpdateDownloadFile, TakeLength, WriteData, AfterAll, Finish, DownloadEnd

LEMMA StatusStep ==
    ASSUME IInv, StatusSound, [Next]_vars
    PROVE  StatusSound'
<1> SUFFICES ASSUME status' = "shown", odd' = {}
             PROVE  \E j \in Ids : Hiding(j)' \/ Unserved(j)'
  BY DEF StatusSound
<1> USE DEF IInv
<1>1. CASE DownFile
  <2>1. made + 1 \in Ids /\ UNCHANGED <<size, fileVars>>
        /\ st'[made + 1] \in {"queued", "over"}
    BY <1>1, DownloadAssumption DEF DownFile, TypeOK, Ids
  <2>2. size[made + 1] = 0 /\ errors[made + 1] = 0
    BY <2>1 DEF InOrder, Untouched, TypeOK
  <2> QED BY <2>1, <2>2 DEF Hiding, Unserved, fileVars
<1>2. ASSUME NEW i \in Ids, GivenUp(i) PROVE \E j \in Ids : Hiding(j)' \/ Unserved(j)'
  <2>1. size[i] = 0 /\ errors[i] = 0
    BY <1>2, GivenUpFrame DEF InOrder, Untouched
  <2>2. Unserved(i)'
    BY <1>2, <2>1, GivenUpFrame DEF Unserved, fileVars
  <2> QED BY <2>2
<1>3. ASSUME NEW i \in Ids, Opened(i) \/ NotOpened(i)
      PROVE  \E j \in Ids : Hiding(j)' \/ Unserved(j)'
  <2>1. ends[i] = 0 /\ errors[i] = 0
    BY <1>3 DEF Opened, NotOpened, NextRequest, InOrder, Untouched
  <2>2. Hiding(i)'
    BY <1>3, <2>1 DEF Opened, NotOpened, Hiding, fileVars, TypeOK
  <2> QED BY <2>2
<1>4. ASSUME NEW i \in Ids, ReceiveSize(i) \/ ReceiveChunk(i)
      PROVE  \E j \in Ids : Hiding(j)' \/ Unserved(j)'
  <2>1. \E n, value : UpdateDownloadFile(i, n, value)
    BY <1>4 DEF ReceiveSize, ReceiveChunk
  <2>2. UNCHANGED <<ends, errors, status>>
    BY <2>1, UpdateHides
  <2>3. UNCHANGED <<st, size>> /\ odd = {}
    BY <1>4, ReceiveFrame
  <2> QED BY <2>2, <2>3 DEF StatusSound, Hiding, Unserved
<1>5. ASSUME NEW i \in Ids, PeerClosed(i) \/ Broken(i)
      PROVE  \E j \in Ids : Hiding(j)' \/ Unserved(j)'
  <2>1. /\ st[i] = "served" /\ st' = [st EXCEPT ![i] = "over"] /\ net = "end" /\ odd = {}
        /\ UNCHANGED <<size, ends, errors, status>>
    BY <1>5 DEF PeerClosed, Broken, fileVars, TypeOK
  <2>2. size[i] > 0 => ends[i] = 1
    BY <2>1 DEF AsExpected, Served, Whole
  <2>3. Hiding(i) => Unserved(i)'
    BY <2>1, <2>2 DEF Hiding, Unserved, TypeOK
  <2>4. \A j \in Ids : j # i => Hiding(j)' = Hiding(j) /\ Unserved(j)' = Unserved(j)
    BY <2>1 DEF Hiding, Unserved, TypeOK
  <2>5. ~Unserved(i)
    BY <2>1 DEF Unserved
  <2> QED BY <2>1, <2>3, <2>4, <2>5 DEF StatusSound
<1>6. ASSUME NEW i \in Ids, Server(i) PROVE \E j \in Ids : Hiding(j)' \/ Unserved(j)'
  BY <1>6 DEF Server, SendSize, SendChunk, fileVars, StatusSound, Hiding, Unserved
<1>7. CASE UNCHANGED vars
  BY <1>7 DEF vars, fileVars, StatusSound, Hiding, Unserved
<1> QED BY <1>1, <1>2, <1>3, <1>4, <1>5, <1>6, <1>7 DEF Next, Network, GivenUp

(* With no download under way and the window still shown, one of them was odd  *)
(* or its request did not reach the server.                                 *)
THEOREM StatusAtRestHolds == Spec => []StatusAtRest
<1>1. Init => StatusSound
  BY DEF Init, StatusSound
<1>2. IInv /\ StatusSound => StatusAtRest
  BY DEF StatusSound, StatusAtRest, Hiding
<1> QED BY <1>1, <1>2, InitIInv, NextIInv, StatusStep, PTL DEF Spec

-----------------------------------------------------------------------------
(* LockMachine. *)

(* The bounds on the counters, and that threads are started in order.       *)
LockCounted ==
    /\ started + (IF cmd = "begin" THEN 1 ELSE 0) <= ncmds
    /\ threadid = started
    /\ \A k \in LockIds : k > started => tpc[k] = "none"
    /\ \A k \in LockIds : keys[k] <= ncmds + nkeys

(* Whoever changed a thing last is on its way to restoring it.              *)
LockPending ==
    /\ taskbar = "hidden" => \E k \in LockIds : tpc[k] \in {"clip", "loop", "unclip", "show"}
    /\ cursor = "clipped" => \E k \in LockIds : tpc[k] \in {"loop", "unclip"}
    /\ m_hWnd # 0 =>
          tpc[m_hWnd] \in {"hide", "clip", "loop", "unclip", "show", "destroy"}

LockInv == LockTypeOK /\ LockCounted /\ LockPending

-----------------------------------------------------------------------------
(* The commands, and the key at the machine. *)

LEMMA LockCommandStep ==
  ASSUME LockAssumption, LockInv, LockTest \/ Unlock
  PROVE  LockInv'
<1> USE LockAssumption DEF LockInv, LockTypeOK, LockCounted, LockPending, Command,
        threadVars, LockIds
<1>1. CASE LockTest
  BY <1>1 DEF LockTest
<1>2. CASE Unlock
  <2>1. /\ ncmds' = ncmds + 1 /\ ncmds' \in 0..MaxCommands
        /\ UNCHANGED <<m_hWnd, threadid, cmd, started, tpc, taskbar, cursor, nkeys>>
        /\ wanted' = "unlocked" /\ hasty' \in {"yes", "no"} /\ cmd = "idle"
    BY <1>2 DEF Unlock
  <2>2. \A k \in LockIds : keys'[k] \in {keys[k], keys[k] + 1}
    BY <1>2 DEF Unlock
  <2>3. keys' \in [LockIds -> 0..(MaxCommands + MaxKeys)]
        /\ \A k \in LockIds : keys'[k] <= ncmds' + nkeys
    <3>1. DOMAIN keys' = LockIds /\ keys' = [k \in LockIds |-> keys'[k]]
      BY <1>2 DEF Unlock
    <3>2. \A k \in LockIds : keys'[k] \in 0..(MaxCommands + MaxKeys) /\ keys'[k] <= ncmds' + nkeys
      BY <2>1, <2>2, SMTT(30)
    <3> QED BY <3>1, <3>2
  <2> QED BY <2>1, <2>3
<1> QED BY <1>1, <1>2

LEMMA LockBeginStep ==
  ASSUME LockAssumption, LockInv, LockBegin
  PROVE  LockInv'
<1>1. /\ started + 1 \in LockIds /\ tpc[started + 1] = "none"
      /\ tpc' = [tpc EXCEPT ![started + 1] = "create"]
      /\ UNCHANGED <<m_hWnd, keys, taskbar, cursor, ncmds, nkeys, wanted, hasty>>
  BY LockAssumption DEF LockInv, LockTypeOK, LockCounted, LockBegin, LockIds
<1>2. LockTypeOK' /\ LockCounted'
  BY <1>1, LockAssumption DEF LockInv, LockTypeOK, LockCounted, LockBegin, LockIds
<1>3. \A k \in LockIds : tpc[k] # "none" => tpc'[k] = tpc[k]
  BY <1>1 DEF LockInv, LockTypeOK
<1>4. m_hWnd # 0 => m_hWnd \in LockIds
  BY LockAssumption DEF LockInv, LockTypeOK, LockIds
<1>5. LockPending'
  BY <1>1, <1>3, <1>4 DEF LockInv, LockPending
<1> QED BY <1>2, <1>5 DEF LockInv

LEMMA LockPressStep ==
  ASSUME LockAssumption, LockInv, NEW k \in LockIds, PressKey(k)
  PROVE  LockInv'
<1>1. /\ nkeys' = nkeys + 1 /\ nkeys' \in 0..MaxKeys /\ wanted' = "unlocked"
      /\ UNCHANGED <<m_hWnd, threadid, cmd, started, tpc, taskbar, cursor, ncmds, hasty>>
      /\ keys' = [keys EXCEPT ![k] = @ + 1]
  BY LockAssumption DEF LockInv, LockTypeOK, PressKey
<1>2. \A j \in LockIds : keys'[j] \in {keys[j], keys[j] + 1}
  BY <1>1 DEF LockInv, LockTypeOK
<1>3. /\ keys' \in [LockIds -> 0..(MaxCommands + MaxKeys)]
      /\ \A j \in LockIds : keys'[j] <= ncmds + nkeys'
  <2>1. \A j \in LockIds : keys'[j] \in 0..(MaxCommands + MaxKeys) /\ keys'[j] <= ncmds + nkeys'
    BY <1>1, <1>2, LockAssumption DEF LockInv, LockTypeOK, LockCounted
  <2>2. keys' = [j \in LockIds |-> keys'[j]]
    BY <1>1 DEF LockInv, LockTypeOK
  <2> QED BY <2>1, <2>2
<1> QED BY <1>1, <1>3 DEF LockInv, LockTypeOK, LockCounted, LockPending

-----------------------------------------------------------------------------
(* A step of the thread k: what it does to the others' state.               *)

LockStates ==
    {"none", "create", "hide", "clip", "loop", "unclip", "show", "destroy", "end", "ended"}

LEMMA LockThreadTypes ==
  ASSUME LockAssumption, LockInv, NEW k \in LockIds, Thread(k)
  PROVE  LockTypeOK' /\ LockCounted'
<1>1. /\ UNCHANGED <<threadid, cmd, started, ncmds, nkeys, wanted, hasty>>
      /\ taskbar' \in {"shown", "hidden"} /\ cursor' \in {"free", "clipped"}
      /\ m_hWnd' \in {0, k, m_hWnd}
  BY DEF Thread, Create, HideTaskbar, Clip, GetKey, Unclip,
         ShowTaskbar, DestroyWindow, EndThread,
         Rest, Goto, LockInv, LockTypeOK
<1>2. \E to \in LockStates : tpc[k] # "none" /\ tpc' = [tpc EXCEPT ![k] = to]
  BY DEF Thread, Create, HideTaskbar, Clip, GetKey, Unclip,
         ShowTaskbar, DestroyWindow, EndThread,
         Goto, LockStates
<1>3. \/ keys' \in {keys, [keys EXCEPT ![k] = 0]}
      \/ (keys[k] > 0 /\ keys' = [keys EXCEPT ![k] = @ - 1])
  BY DEF Thread, Create, HideTaskbar, Clip, GetKey, Unclip,
         ShowTaskbar, DestroyWindow, EndThread
<1>4. /\ keys' \in [LockIds -> 0..(MaxCommands + MaxKeys)]
      /\ \A j \in LockIds : keys'[j] <= keys[j]
  BY <1>3, LockAssumption DEF LockInv, LockTypeOK
<1>5. tpc' \in [LockIds -> LockStates] /\ \A j \in LockIds : tpc[j] = "none" => tpc'[j] = "none"
  BY <1>2 DEF LockInv, LockTypeOK, LockStates
<1>6. m_hWnd' \in 0..MaxCommands
  BY <1>1, LockAssumption DEF LockInv, LockTypeOK, LockIds
<1>7. LockTypeOK'
  BY <1>1, <1>4, <1>5, <1>6 DEF LockInv, LockTypeOK, LockStates
<1>8. LockCounted'
  <2>1. \A j \in LockIds : keys'[j] <= ncmds + nkeys
    BY <1>4, LockAssumption DEF LockInv, LockTypeOK, LockCounted
  <2> QED BY <1>1, <1>5, <2>1 DEF LockInv, LockCounted
<1> QED BY <1>7, <1>8

LEMMA LockThreadPending ==
  ASSUME LockAssumption, LockInv, NEW k \in LockIds, Thread(k)
  PROVE  LockPending'
<1>1. m_hWnd # 0 => m_hWnd \in LockIds
  BY LockAssumption DEF LockInv, LockTypeOK, LockIds
<1> USE DEF LockInv, LockTypeOK, LockPending, Goto
<1>2. CASE Create(k)
  BY <1>1, <1>2, LockAssumption DEF Create, LockIds
<1>3. CASE HideTaskbar(k)
  BY <1>1, <1>3 DEF HideTaskbar
<1>4. CASE Clip(k)
  BY <1>1, <1>4 DEF Clip
<1>5. CASE GetKey(k)
  BY <1>1, <1>5 DEF GetKey
<1>6. CASE Unclip(k)
  BY <1>1, <1>6 DEF Unclip
<1>7. CASE ShowTaskbar(k)
  BY <1>1, <1>7 DEF ShowTaskbar
<1>8. CASE DestroyWindow(k)
  BY <1>1, <1>8 DEF DestroyWindow
<1>9. CASE EndThread(k)
  BY <1>1, <1>9 DEF EndThread
<1> QED BY <1>2, <1>3, <1>4, <1>5, <1>6, <1>7, <1>8, <1>9 DEF Thread

-----------------------------------------------------------------------------
LEMMA LockInitInv == ASSUME LockAssumption PROVE LockInit => LockInv
BY LockAssumption DEF LockInit, LockInv, LockTypeOK, LockCounted, LockPending, LockIds

LEMMA LockNextInv == ASSUME LockAssumption PROVE LockInv /\ [LockNext]_lockVars => LockInv'
<1> SUFFICES ASSUME LockInv, [LockNext]_lockVars PROVE LockInv'
  OBVIOUS
<1>1. CASE LockTest \/ Unlock
  BY <1>1, LockCommandStep
<1>2. CASE LockBegin
  BY <1>2, LockBeginStep
<1>3. ASSUME NEW k \in LockIds, PressKey(k) PROVE LockInv'
  BY <1>3, LockPressStep
<1>4. ASSUME NEW k \in LockIds, Thread(k) PROVE LockInv'
  BY <1>4, LockThreadTypes, LockThreadPending DEF LockInv
<1>5. CASE UNCHANGED lockVars
  BY <1>5 DEF lockVars, threadVars, LockInv, LockTypeOK, LockCounted, LockPending
<1> QED BY <1>1, <1>2, <1>3, <1>4, <1>5 DEF LockNext

LEMMA LockInvariant == ASSUME LockAssumption PROVE LockSpec => []LockInv
BY LockInitInv, LockNextInv, PTL DEF LockSpec

(* The variables keep their types: no more threads are started than         *)
(* commands are run, and no queue gets more keys than were sent or pressed. *)
THEOREM LockTypeCorrect == ASSUME LockAssumption PROVE LockSpec => []LockTypeOK
<1>1. LockInv => LockTypeOK
  BY DEF LockInv
<1> QED BY <1>1, LockInvariant, PTL

(* When no lock thread is left the task bar, the cursor and m_hWnd are as   *)
(* they were, however many threads had locked the machine together.         *)
THEOREM RestoredHolds == ASSUME LockAssumption PROVE LockSpec => []Restored
<1>1. LockInv => Restored
  <2> SUFFICES ASSUME LockInv, \A k \in LockIds : tpc[k] \in {"none", "ended"}
               PROVE  taskbar = "shown" /\ cursor = "free" /\ m_hWnd = 0
    BY DEF Restored
  <2>1. m_hWnd # 0 => m_hWnd \in LockIds
    BY LockAssumption DEF LockInv, LockTypeOK, LockIds
  <2> QED BY <2>1 DEF LockInv, LockTypeOK, LockPending
<1> QED BY <1>1, LockInvariant, PTL
-----------------------------------------------------------------------------
(* The safety part of FollowsLast: where no thread can go on and no command *)
(* was run while the lock was coming or going, the machine is as it was     *)
(* told last, both the task bar and the cursor.                             *)
Settled ==
    /\ cmd = "idle"
    /\ \A k \in LockIds : tpc[k] \in {"none", "ended"} \/ (tpc[k] = "loop" /\ keys[k] = 0)

AsToldLast ==
    Settled /\ hasty = "no" =>
        /\ taskbar = IF wanted = "locked" THEN "hidden" ELSE "shown"
        /\ cursor = IF wanted = "locked" THEN "clipped" ELSE "free"

(* A thread that holds the lock, or is about to take it or to give it back. *)
Active(k) == tpc[k] \notin {"none", "end", "ended"}

(* Only a thread with a queue has keys. *)
KeysHeard == \A k \in LockIds : keys[k] > 0 => HasQueue(k)

(* What the one thread that is active has done, and what it has been told.  *)
Holds(k) ==
    /\ k = threadid /\ cmd = "idle"
    /\ m_hWnd = IF tpc[k] = "create" THEN 0 ELSE k
    /\ wanted = "unlocked" <=> tpc[k] \in {"unclip", "show", "destroy"} \/ keys[k] > 0
    /\ taskbar = "hidden" <=> tpc[k] \in {"clip", "loop", "unclip", "show"}
    /\ cursor = "clipped" <=> tpc[k] \in {"loop", "unclip"}

(* Nothing is locked, but for what LockMachine is about to do.              *)
Free ==
    /\ m_hWnd = 0 /\ taskbar = "shown" /\ cursor = "free"
    /\ wanted = "locked" <=> cmd = "begin"

(* Unless a command came in a wrong moment there is one lock at most. *)
OneLock ==
    hasty = "no" =>
        /\ \A k \in LockIds : Active(k) => Holds(k)
        /\ (\A k \in LockIds : ~Active(k)) => Free

OneInv == LockInv /\ KeysHeard /\ OneLock

LEMMA OneCommand ==
    ASSUME LockAssumption, OneInv, LockTest \/ Unlock
    PROVE  KeysHeard' /\ OneLock'
<1>1. \A k \in LockIds : HasQueue(k)' = HasQueue(k) /\ Active(k)' = Active(k)
  BY DEF LockTest, Unlock, HasQueue, Active, threadVars
<1>2. KeysHeard'
  <2>1. CASE LockTest
    BY <1>1, <2>1 DEF LockTest, KeysHeard, OneInv, threadVars
  <2>2. CASE Unlock
    BY <1>1, <2>2 DEF Unlock, KeysHeard, OneInv, LockInv, LockTypeOK
  <2> QED BY <2>1, <2>2
<1>3. SUFFICES ASSUME hasty' = "no"
               PROVE  /\ \A k \in LockIds : Active(k) => Holds(k)'
                      /\ (\A k \in LockIds : ~Active(k)) => Free'
  BY <1>1, <1>2 DEF OneLock
<1>4. hasty = "no" /\ ~Coming /\ ~Going /\ cmd = "idle"
  BY <1>3 DEF LockTest, Unlock, Command
<1>5. ASSUME NEW k \in LockIds, Active(k)
      PROVE  Holds(k) /\ tpc[k] \in {"hide", "clip", "loop"} /\ keys[k] = 0 /\ HasQueue(k)
  <2>1. Holds(k) /\ tpc[k] \in {"hide", "clip", "loop"} /\ HasQueue(k)
    BY <1>4, <1>5 DEF OneInv, OneLock, LockInv, LockTypeOK, Active, Coming, Going, HasQueue
  <2>2. ~(keys[k] > 0)
    BY <1>4, <1>5, <2>1 DEF Going
  <2> QED BY <2>1, <2>2, LockAssumption DEF OneInv, LockInv, LockTypeOK
<1>6. (\A k \in LockIds : ~Active(k)) => Free
  BY <1>4 DEF OneInv, OneLock
<1>7. CASE LockTest
  <2>1. /\ wanted' = "locked" /\ cmd' = IF m_hWnd = 0 THEN "begin" ELSE "idle"
        /\ UNCHANGED <<m_hWnd, threadid, tpc, keys, taskbar, cursor>>
    BY <1>7 DEF LockTest, threadVars
  <2>2. ASSUME NEW k \in LockIds, Active(k) PROVE Holds(k)'
    <3>1. m_hWnd = k /\ k # 0
      BY <1>5, <2>2 DEF Holds, LockIds
    <3> QED BY <1>5, <2>1, <2>2, <3>1 DEF Holds
  <2> QED BY <1>6, <2>1, <2>2 DEF Free
<1>8. CASE Unlock
  <2>1. /\ wanted' = "unlocked" /\ UNCHANGED <<m_hWnd, threadid, cmd, tpc, taskbar, cursor>>
        /\ keys' = IF threadid # 0 /\ HasQueue(threadid)
                   THEN [keys EXCEPT ![threadid] = @ + 1] ELSE keys
    BY <1>8 DEF Unlock
  <2>2. ASSUME NEW k \in LockIds, Active(k) PROVE Holds(k)'
    <3>1. k = threadid /\ k # 0
      BY <1>5, <2>2 DEF Holds, LockIds
    <3>2. keys'[k] = 1
      BY <1>5, <2>1, <2>2, <3>1 DEF OneInv, LockInv, LockTypeOK
    <3> QED BY <1>5, <2>1, <2>2, <3>2 DEF Holds
  <2> QED BY <1>4, <1>6, <2>1, <2>2 DEF Free
<1> QED BY <1>7, <1>8

LEMMA OneBegin ==
    ASSUME LockAssumption, OneInv, LockBegin
    PROVE  KeysHeard' /\ OneLock'
<1>1. /\ started + 1 \in LockIds /\ tpc[started + 1] = "none"
      /\ cmd = "begin" /\ cmd' = "idle" /\ threadid' = started + 1
      /\ tpc' = [tpc EXCEPT ![started + 1] = "create"]
      /\ UNCHANGED <<m_hWnd, keys, taskbar, cursor, wanted, hasty>>
  BY LockAssumption DEF OneInv, LockInv, LockTypeOK, LockCounted, LockBegin, LockIds
<1>2. ~(keys[started + 1] > 0)
  BY <1>1 DEF OneInv, KeysHeard, HasQueue
<1>3. KeysHeard'
  BY <1>1, <1>2 DEF OneInv, LockInv, LockTypeOK, KeysHeard, HasQueue
<1>4. SUFFICES ASSUME hasty = "no"
               PROVE  \A k \in LockIds : (k = started + 1 /\ Holds(k)') \/ ~Active(k)'
  BY <1>1, <1>3 DEF OneLock, OneInv, LockInv, LockTypeOK, Active
<1>5. \A k \in LockIds : ~Active(k)
  BY <1>1, <1>4 DEF OneInv, OneLock, Holds
<1>6. Free
  BY <1>4, <1>5 DEF OneInv, OneLock
<1>7. \A k \in LockIds : k # started + 1 => tpc'[k] = tpc[k]
  BY <1>1 DEF OneInv, LockInv, LockTypeOK
<1>8. tpc'[started + 1] = "create"
  BY <1>1 DEF OneInv, LockInv, LockTypeOK
<1> QED BY <1>1, <1>2, <1>5, <1>6, <1>7, <1>8 DEF Holds, Free, Active

LEMMA OnePress ==
    ASSUME LockAssumption, OneInv, NEW k \in LockIds, PressKey(k)
    PROVE  KeysHeard' /\ OneLock'
<1>1. /\ tpc[k] = "loop" /\ keys' = [keys EXCEPT ![k] = @ + 1] /\ wanted' = "unlocked"
      /\ UNCHANGED <<m_hWnd, threadid, cmd, tpc, taskbar, cursor, hasty>>
  BY DEF PressKey
<1>2. keys'[k] > 0 /\ \A j \in LockIds : j # k => keys'[j] = keys[j]
  BY <1>1 DEF OneInv, LockInv, LockTypeOK
<1>3. KeysHeard'
  BY <1>1, <1>2 DEF OneInv, KeysHeard, HasQueue
<1>4. Active(k)
  BY <1>1 DEF Active
<1>5. SUFFICES ASSUME hasty = "no", NEW j \in LockIds, Active(j)
               PROVE  Holds(j)'
  BY <1>1, <1>3, <1>4 DEF OneLock, Active
<1>6. Holds(j) /\ Holds(k)
  BY <1>4, <1>5 DEF OneInv, OneLock
<1> QED BY <1>1, <1>2, <1>6 DEF Holds

LEMMA OneThread ==
    ASSUME LockAssumption, OneInv, NEW k \in LockIds, Thread(k)
    PROVE  KeysHeard' /\ OneLock'
<1>1. UNCHANGED <<threadid, cmd, wanted, hasty>>
  BY DEF Thread, Create, HideTaskbar, Clip, GetKey, Unclip, ShowTaskbar, DestroyWindow, EndThread,
         Rest
<1>2. \A j \in LockIds : j # k => tpc'[j] = tpc[j] /\ keys'[j] = keys[j]
  BY DEF Thread, Create, HideTaskbar, Clip, GetKey, Unclip, ShowTaskbar, DestroyWindow, EndThread,
         Goto, OneInv, LockInv, LockTypeOK
<1>3. /\ tpc[k] # "none" /\ keys'[k] \in {keys[k], keys[k] - 1, 0}
      /\ tpc'[k] \in {"none", "create", "ended"} => keys'[k] = 0
  BY DEF Thread, Create, HideTaskbar, Clip, GetKey, Unclip, ShowTaskbar, DestroyWindow, EndThread,
         Goto, OneInv, LockInv, LockTypeOK
<1>4. KeysHeard'
  BY <1>2, <1>3 DEF OneInv, KeysHeard, HasQueue
<1>5. SUFFICES ASSUME hasty = "no" PROVE OneLock'
  BY <1>1, <1>4 DEF OneLock
<1>6. CASE EndThread(k)
  <2>1. /\ tpc[k] = "end" /\ tpc'[k] = "ended"
        /\ UNCHANGED <<m_hWnd, taskbar, cursor>>
    BY <1>6 DEF EndThread, Goto, OneInv, LockInv, LockTypeOK
  <2>2. \A j \in LockIds : Active(j)' = Active(j)
    BY <1>2, <2>1 DEF Active
  <2>3. \A j \in LockIds : Active(j) => Holds(j)'
    BY <1>1, <1>2, <1>5, <2>1 DEF OneInv, OneLock, Holds, Active
  <2> QED BY <1>1, <1>5, <2>1, <2>2, <2>3 DEF OneInv, OneLock, Free
<1>7. ASSUME tpc[k] # "end", ~EndThread(k) PROVE OneLock'
  <2>1. Active(k)
    BY <1>7 DEF Thread, Create, HideTaskbar, Clip, GetKey, Unclip, ShowTaskbar, DestroyWindow,
         Goto, Active
  <2>2. Holds(k)
    BY <1>5, <2>1 DEF OneInv, OneLock
  <2>3. \A j \in LockIds : j # k => ~Active(j)'
    BY <1>2, <1>5, <2>2 DEF OneInv, OneLock, Holds, Active
  <2>4. CASE DestroyWindow(k)
    <3>1. tpc[k] = "destroy" /\ tpc'[k] = "end" /\ m_hWnd' = 0
          /\ UNCHANGED <<taskbar, cursor>>
      BY <2>2, <2>4 DEF DestroyWindow, Goto, Holds, OneInv, LockInv, LockTypeOK
    <3>2. ~Active(k)'
      BY <3>1 DEF Active
    <3>3. Free'
      BY <1>1, <2>2, <3>1 DEF Holds, Free, OneInv, LockInv, LockTypeOK
    <3> QED BY <2>3, <3>2, <3>3 DEF OneLock
  <2>5. ASSUME ~DestroyWindow(k) PROVE Active(k)' /\ Holds(k)'
    <3>1. CASE Create(k)
      BY <1>1, <2>2, <3>1 DEF Create, Goto, Holds, Active, OneInv, LockInv, LockTypeOK
    <3>2. CASE HideTaskbar(k)
      BY <1>1, <2>2, <3>2 DEF HideTaskbar, Goto, Holds, Active, OneInv, LockInv, LockTypeOK
    <3>3. CASE Clip(k)
      BY <1>1, <2>2, <3>3 DEF Clip, Goto, Holds, Active, OneInv, LockInv, LockTypeOK
    <3>4. CASE GetKey(k)
      BY <1>1, <2>2, <3>4 DEF GetKey, Goto, Holds, Active, OneInv, LockInv, LockTypeOK
    <3>5. CASE Unclip(k)
      BY <1>1, <2>2, <3>5 DEF Unclip, Goto, Holds, Active, OneInv, LockInv, LockTypeOK
    <3>6. CASE ShowTaskbar(k)
      BY <1>1, <2>2, <3>6 DEF ShowTaskbar, Goto, Holds, Active, OneInv, LockInv, LockTypeOK
    <3> QED BY <1>7, <2>5, <3>1, <3>2, <3>3, <3>4, <3>5, <3>6 DEF Thread
  <2> QED BY <2>3, <2>4, <2>5 DEF OneLock
<1>8. tpc[k] = "end" => EndThread(k)
  BY DEF Thread, Create, HideTaskbar, Clip, GetKey, Unclip, ShowTaskbar, DestroyWindow, Goto
<1> QED BY <1>6, <1>7, <1>8

LEMMA OneNext == ASSUME LockAssumption PROVE OneInv /\ [LockNext]_lockVars => OneInv'
<1> SUFFICES ASSUME OneInv, [LockNext]_lockVars PROVE KeysHeard' /\ OneLock'
  BY LockNextInv DEF OneInv
<1>1. CASE UNCHANGED lockVars
  BY <1>1 DEF lockVars, threadVars, OneInv, KeysHeard, OneLock, HasQueue, Active, Holds, Free
<1> QED BY <1>1, OneCommand, OneBegin, OnePress, OneThread DEF LockNext

(* A machine that nobody hurried, and whose threads have come to rest, is   *)
(* locked if it was told so last and is not if it was unlocked last.        *)
THEOREM AsToldLastHolds == ASSUME LockAssumption PROVE LockSpec => []AsToldLast
<1>1. LockInit => OneInv
  BY LockInitInv DEF LockInit, OneInv, KeysHeard, OneLock, Active, Holds, Free
<1>2. OneInv => AsToldLast
  <2> SUFFICES ASSUME OneInv, Settled, hasty = "no"
               PROVE  /\ taskbar = IF wanted = "locked" THEN "hidden" ELSE "shown"
                      /\ cursor = IF wanted = "locked" THEN "clipped" ELSE "free"
    BY DEF AsToldLast
  <2>1. /\ taskbar \in {"shown", "hidden"} /\ cursor \in {"free", "clipped"}
        /\ wanted \in {"locked", "unlocked"}
    BY DEF OneInv, LockInv, LockTypeOK
  <2>2. CASE \A k \in LockIds : ~Active(k)
    BY <2>1, <2>2 DEF OneInv, OneLock, Free, Settled
  <2>3. ASSUME NEW k \in LockIds, Active(k)
        PROVE  /\ taskbar = IF wanted = "locked" THEN "hidden" ELSE "shown"
               /\ cursor = IF wanted = "locked" THEN "clipped" ELSE "free"
    <3>1. tpc[k] = "loop" /\ keys[k] = 0
      BY <2>3 DEF Settled, Active
    <3> QED BY <2>1, <2>3, <3>1 DEF OneInv, OneLock, Holds
  <2> QED BY <2>2, <2>3
<1> QED BY <1>1, <1>2, OneNext, PTL DEF LockSpec
=============================================================================
