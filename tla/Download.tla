------------------------------- MODULE Download -------------------------------
(***************************************************************************)
(* Downloading files: DownFile and UpdateDownloadFile of the client        *)
(* (RemoteClient/ClientController.cpp, RemoteClientDlg.cpp), SendPack      *)
(* between them (ClientSocket.cpp), DownloadFile of the server             *)
(* (RemoteCtrl/Command.h).                                                 *)
(*                                                                         *)
(* The user starts downloads on the window's thread; each becomes a        *)
(* message to the network thread, which serves them one after another on   *)
(* connections of their own.  The server answers with a packet that holds  *)
(* the size and then with chunks, until one is shorter than Chunk; the     *)
(* last may be empty.  Every packet that arrives is shown to the window's  *)
(* thread by SendMessage, which waits for UpdateDownloadFile.  There two   *)
(* static variables, length and index, tell the packets apart: they belong *)
(* to no download in particular.                                           *)
(*                                                                         *)
(* TCP keeps the packets in order, so they are counted: the next chunk is  *)
(* what the sizes read so far leave of the file.  A download is the number *)
(* of the DownFile call that made its FILE.                                *)
(*                                                                         *)
(* Deleting a file makes the window's thread read from the network         *)
(* thread's socket as well (LoadFileCurrent, see FileTree); it is taken    *)
(* to stay away from the connection of a download.                         *)
(***************************************************************************)
EXTENDS Integers

CONSTANTS
    Downloads,   \* how many downloads there are; the bound on DownFile calls
    Chunk,       \* the bytes fread is asked for; 1024 in the code
    Sizes,       \* the sizes of files
    Garbage,     \* what the first eight bytes of a chunk may read as, and those
                 \* of the string of an empty one, which nobody has written
    Short,       \* what an fwrite that falls short may put in; {} when none does
    Faults       \* what may happen: "post", PostThreadMessage fails; "connect",
                 \* the server is not reached; "reset", a connection breaks;
                 \* "change", a file grows or shrinks while it is read

ASSUME DownloadAssumption ==
    /\ Downloads \in Nat
    /\ Chunk \in Nat \ {0}
    /\ Sizes \subseteq Nat
    /\ Garbage \subseteq Int
    /\ Short \subseteq Nat
    /\ Faults \subseteq {"post", "connect", "reset", "change"}

VARIABLES
    made,      \* the DownFile calls that opened their FILE
    st,        \* st[i]: "none", "queued", "served", "over", or "box" while the
               \* message box that says it failed is open
    size,      \* size[i]: what the server announced
    bytes,     \* bytes[i]: what fread gives in all
    srv,       \* what the server sends next: "size" or "chunk"; "done" after the
               \* last chunk, "refused" after the size 0 of no file
    sent,      \* the bytes in the chunks it has sent
    net,       \* what the network thread receives next: "size", "chunk" or "end"
    taken,     \* the bytes in the chunks it has received
    length, index,  \* the static variables of UpdateDownloadFile
    written,   \* written[i]: the bytes fwrite put into the FILE of i
    closed,    \* the downloads whose FILE has been closed
    ends,      \* ends[i]: how often DownloadEnd ran for a packet of i
    errors,    \* errors[i]: how often the message of length zero was shown
    status,    \* the status window: "shown" or "hidden"
    odd,       \* history: the downloads that were not as UpdateDownloadFile expects
    process    \* "fine", or "undefined" once a closed FILE has been used: from
               \* there anything may happen

netVars  == <<srv, sent, net, taken>>
fileVars == <<written, closed, ends, errors>>
vars == <<made, st, size, bytes, netVars, length, index, fileVars, status, odd, process>>

Ids == 1..Downloads

TypeOK ==
    /\ made \in 0..Downloads
    /\ st \in [Ids -> {"none", "queued", "served", "box", "over"}]
    /\ size \in [Ids -> Nat] /\ bytes \in [Ids -> Nat]
    /\ srv \in {"size", "chunk", "done", "refused"} /\ net \in {"size", "chunk", "end"}
    /\ sent \in Nat /\ taken \in Nat
    /\ \A i \in Ids : st[i] = "served" => sent <= bytes[i] /\ taken <= bytes[i]
    /\ length \in Int /\ index \in Nat
    /\ written \in [Ids -> Nat] /\ closed \subseteq Ids
    /\ ends \in [Ids -> Nat] /\ errors \in [Ids -> Nat]
    /\ status \in {"shown", "hidden"} /\ odd \subseteq Ids /\ process \in {"fine", "undefined"}

Init ==
    /\ made = 0 /\ st = [i \in Ids |-> "none"]
    /\ size = [i \in Ids |-> 0] /\ bytes = [i \in Ids |-> 0]
    /\ srv = "size" /\ sent = 0 /\ net = "size" /\ taken = 0
    /\ length = 0 /\ index = 0
    /\ written = [i \in Ids |-> 0] /\ closed = {}
    /\ ends = [i \in Ids |-> 0] /\ errors = [i \in Ids |-> 0]
    /\ status = "hidden" /\ odd = {} /\ process = "fine"

-----------------------------------------------------------------------------
(* The window's thread: DownFile.  Without a FILE it gives up and nothing   *)
(* changes; whether the request could be posted is not looked at.           *)

DownFile ==
    /\ process = "fine" /\ made < Downloads
    /\ made' = made + 1
    /\ \E s \in IF "post" \in Faults THEN {"queued", "over"} ELSE {"queued"} :
          st' = [st EXCEPT ![made + 1] = s]
    /\ status' = "shown"
    /\ UNCHANGED <<size, bytes, netVars, length, index, fileVars, odd, process>>

-----------------------------------------------------------------------------
(* The network thread begins with the next request. *)

NextRequest(i) ==
    /\ process = "fine" /\ st[i] = "queued"
    /\ \A j \in Ids : st[j] \notin {"served", "box"} /\ (j < i => st[j] # "queued")

(* What becomes of requests alone. *)
Request(i, s) ==
    /\ st' = [st EXCEPT ![i] = s]
    /\ UNCHANGED <<made, size, bytes, netVars, length, index, fileVars, status, odd, process>>

(* send fails: the window gets NULL and ignores it.  Or the box of a        *)
(* request of another kind is open, and takes this one away (BoxTakes).     *)
NotReached(i) ==
    /\ NextRequest(i) /\ "connect" \in Faults
    /\ Request(i, "over")

(* connect fails: InitSocket opens a message box on the network thread,     *)
(* whose loop takes every message of the thread and throws it away, the     *)
(* requests among them.  It closes when the user clicks and the queue is    *)
(* empty; then the window gets NULL for the request that failed.            *)
ConnectFails(i) ==
    /\ NextRequest(i) /\ "connect" \in Faults
    /\ Request(i, "box")

BoxTakes(i) ==
    /\ process = "fine" /\ st[i] = "queued" /\ \E j \in Ids : st[j] = "box"
    /\ Request(i, "over")

CloseBox(i) ==
    /\ process = "fine" /\ st[i] = "box" /\ \A j \in Ids : st[j] # "queued"
    /\ Request(i, "over")

(* The request arrives.  DownloadFile opens the file and measures it, and   *)
(* then reads it to the end, before a packet is sent.                       *)
Opened(i) ==
    /\ NextRequest(i)
    /\ \E s \in Sizes, b \in Sizes :
          /\ b # s => "change" \in Faults
          /\ size' = [size EXCEPT ![i] = s]
          /\ bytes' = [bytes EXCEPT ![i] = b]
          /\ odd' = IF b = s THEN odd ELSE odd \cup {i}
    /\ st' = [st EXCEPT ![i] = "served"]
    /\ srv' = "size" /\ net' = "size" /\ sent' = 0 /\ taken' = 0
    /\ UNCHANGED <<made, length, index, fileVars, status, process>>

(* It cannot be opened: a size of 0 and no chunk.  (bytes says nothing.)    *)
NotOpened(i) ==
    /\ NextRequest(i)
    /\ size' = [size EXCEPT ![i] = 0]
    /\ st' = [st EXCEPT ![i] = "served"]
    /\ srv' = "refused" /\ net' = "size" /\ sent' = 0 /\ taken' = 0
    /\ UNCHANGED <<made, bytes, length, index, fileVars, status, odd, process>>

-----------------------------------------------------------------------------
(* The server: the packets of DownloadFile, which Run sends one by one. *)

SendSize(i) ==
    /\ process = "fine" /\ st[i] = "served" /\ srv = "size"
    /\ srv' = "chunk"
    /\ UNCHANGED <<made, st, size, bytes, sent, net, taken, length, index, fileVars,
                   status, odd, process>>

(* Slip: the whole buffer, whatever fread gives. *)
BufferAfter(i, n) == Chunk

(* What fread gives after n bytes. *)
ChunkAfter(i, n) == IF bytes[i] - n < Chunk THEN bytes[i] - n ELSE Chunk

(* Slip: the loop ends with the file, not with a short chunk. *)
LastEarly(n) == n <= Chunk

(* The chunk that is not full is the last one. *)
Last(n) == n < Chunk

SendChunk(i) ==
    /\ process = "fine" /\ st[i] = "served" /\ srv = "chunk"
    /\ LET n == ChunkAfter(i, sent) IN
         /\ sent' = sent + n
         /\ srv' = IF Last(n) THEN "done" ELSE srv
         /\ odd' = IF n = 0 THEN odd \cup {i} ELSE odd
    /\ UNCHANGED <<made, st, size, bytes, net, taken, length, index, fileVars, status, process>>

-----------------------------------------------------------------------------
(* The client: a packet arrives and UpdateDownloadFile handles it. *)

(* Slip: index is not set back. *)
KeepIndex == index

ResetIndex == 0

DownloadEnd(i) == ends' = [ends EXCEPT ![i] = @ + 1] /\ status' = "hidden"

(* fclose, the static variables set back, DownloadEnd. *)
Finish(i) ==
    /\ closed' = closed \cup {i}
    /\ length' = 0 /\ index' = ResetIndex
    /\ DownloadEnd(i)

(* length is 0: this packet is taken for the one that holds the size.       *)
TakeLength(i, value) ==
    /\ length = 0
    /\ length' = value
    /\ IF value = 0
       THEN errors' = [errors EXCEPT ![i] = @ + 1] /\ DownloadEnd(i)
       ELSE UNCHANGED <<errors, ends, status>>
    /\ UNCHANGED <<index, written, closed, odd, process>>

(* The data is written, and what fwrite returns is not looked at; the file  *)
(* is complete when index reaches length.                                   *)
(* (The branch for index >= length before the packet: see CountersAgree.)   *)
WriteData(i, n) ==
    /\ length # 0 /\ ~(length > 0 /\ index >= length)
    /\ process' = IF i \in closed THEN "undefined" ELSE "fine"
    /\ \E m \in {n} \cup {k \in Short : k < n} :
          /\ written' = [written EXCEPT ![i] = @ + m]
          /\ odd' = IF m = n THEN odd ELSE odd \cup {i}
    /\ IF index + n >= length
       THEN Finish(i)
       ELSE index' = index + n /\ UNCHANGED <<length, closed, ends, status>>
    /\ UNCHANGED errors

AfterAll(i) ==
    /\ length > 0 /\ index >= length
    /\ process' = IF i \in closed THEN "undefined" ELSE "fine"
    /\ Finish(i)
    /\ UNCHANGED <<written, errors, odd>>

(* strData has n bytes, and its first eight read as value.                  *)
UpdateDownloadFile(i, n, value) ==
    TakeLength(i, value) \/ WriteData(i, n) \/ AfterAll(i)

ReceiveSize(i) ==
    /\ process = "fine" /\ st[i] = "served" /\ net = "size" /\ srv # "size"
    /\ UpdateDownloadFile(i, 8, size[i])
    /\ net' = IF srv = "refused" THEN "end" ELSE "chunk"
    /\ UNCHANGED <<made, st, size, bytes, srv, sent, taken>>

ReceiveChunk(i) ==
    /\ process = "fine" /\ st[i] = "served" /\ net = "chunk" /\ (taken < sent \/ srv = "done")
    /\ LET n == ChunkAfter(i, taken) IN
         /\ \E v \in Garbage : UpdateDownloadFile(i, n, v)
         /\ taken' = taken + n
         /\ net' = IF Last(n) THEN "end" ELSE net
    /\ UNCHANGED <<made, st, size, bytes, srv, sent>>

(* The server has closed the connection.  The window is told with lParam 1  *)
(* and does nothing.                                                        *)
PeerClosed(i) ==
    /\ process = "fine" /\ st[i] = "served" /\ net = "end"
    /\ st' = [st EXCEPT ![i] = "over"]
    /\ UNCHANGED <<made, size, bytes, netVars, length, index, fileVars, status, odd, process>>

(* The connection breaks: what has not been received is lost.  The same     *)
(* message, and nothing is done.                                            *)
Broken(i) ==
    /\ process = "fine" /\ st[i] = "served" /\ "reset" \in Faults
    /\ st' = [st EXCEPT ![i] = "over"]
    /\ odd' = IF net = "end" THEN odd ELSE odd \cup {i}
    /\ UNCHANGED <<made, size, bytes, netVars, length, index, fileVars, status, process>>

-----------------------------------------------------------------------------
Server(i) == SendSize(i) \/ SendChunk(i)
Network(i) ==
    \/ NotReached(i) \/ ConnectFails(i) \/ BoxTakes(i) \/ Opened(i) \/ NotOpened(i)
    \/ ReceiveSize(i) \/ ReceiveChunk(i) \/ PeerClosed(i)

Next == DownFile \/ \E i \in Ids : Server(i) \/ Network(i) \/ Broken(i) \/ CloseBox(i)

Spec == Init /\ [][Next]_vars

(* The network thread and the server go on; the user need not click, not    *)
(* even in the message box.                                                 *)
Fairness == WF_vars(\E i \in Ids : Server(i) \/ Network(i))

FairSpec == Spec /\ Fairness

-----------------------------------------------------------------------------
(* A download is as UpdateDownloadFile expects when its connection holds,   *)
(* its file does not change, no chunk is empty and fwrite puts in all it is *)
(* given; odd has the others.                                               *)
CleanUntil(i) == \A j \in 1..i : j \notin odd

(* length and index belong together, whatever has happened: index has not   *)
(* reached length, and without a length it is 0.  So the second branch of   *)
(* UpdateDownloadFile is never taken, and index alone never makes a file    *)
(* end early.                                                               *)
CountersAgree == IF length > 0 THEN index \in 0..(length - 1) ELSE index = 0

(* If no download up to i was odd, then i, once it is over, has put into    *)
(* its FILE exactly the bytes the server announced, has closed it, and has  *)
(* told the user once that it is done and never that it failed.             *)
WholeFile ==
    \A i \in Ids :
        CleanUntil(i) /\ st[i] = "over" /\ size[i] > 0 =>
            i \in closed /\ written[i] = size[i] /\ ends[i] = 1 /\ errors[i] = 0

(* A FILE that has been closed is used again only after an odd download.    *)
NoUseAfterClose == process = "undefined" => odd # {}

(* The request of i did not reach the server.                               *)
Unserved(i) == st[i] \in {"box", "over"} /\ size[i] = 0 /\ errors[i] = 0

(* The status window, "the command is being executed!"                      *)
(* (ClientController.cpp:73), does not stay unless a download was odd or    *)
(* its request did not reach the server.  Then the window is told           *)
(* (OnSendPackAck with lParam 1, or NULL) and does nothing, or is not told, *)
(* for a request that was not posted or that a message box took.            *)
StatusHides ==
    status = "shown" ~>
        (status = "hidden" \/ odd # {} \/ \E i \in Ids : Unserved(i))
=============================================================================
