------------------------------- MODULE FileTree -------------------------------
(***************************************************************************)
(* Looking at the other machine's files: the tree of folders and the list  *)
(* of files in the client's window (RemoteClient/RemoteClientDlg.cpp), the *)
(* network thread that brings the answers (SendPack in ClientSocket.cpp),  *)
(* and MakeDriverInfo, MakeDirectoryInfo and DeleteLocalFile on the server *)
(* (RemoteCtrl/Command.h).                                                 *)
(*                                                                         *)
(* A click empties an item of the tree and posts a request; the answers    *)
(* come one by one, with the item's HTREEITEM, while the user goes on      *)
(* clicking.  After a deletion the window also reads from the network      *)
(* thread's socket itself (LoadFileCurrent with CClientSocket::DealCommand *)
(* of ClientSocket.h), in a loop that is entered if what is left in        *)
(* m_packet has HasNext set.                                               *)
(*                                                                         *)
(* Requests are numbers, served in the order they were posted (see         *)
(* RemoteSession); the server answers, and closes, in the step in which it *)
(* is sent the request.  A packet travels as two halves, since either of   *)
(* the two readers may get a part of it.  A half without the other is not  *)
(* parsed; behind the second half of one packet the next packet is found.  *)
(* A failed connect shows a box on the network thread, whose message loop  *)
(* throws away what is posted to that thread.                              *)
(***************************************************************************)
EXTENDS Integers, Sequences, SequencesExt

CONSTANTS
    Name,        \* the names of drives, folders and files
    Drives,      \* the server's drives, in order
    Listing,     \* Listing[f]: what _findfirst and _findnext give in the folder f;
                 \* a folder is the sequence of names that leads to it
    MaxItems,    \* bound: the items that are in the tree at one time
    MaxRequests, \* bound: the requests that are posted
    Faulty       \* bound: the requests that may not be sent, or whose answer may end
                 \* before it is complete

(* No name: the empty string. *)
NoName == ""

Entries == [kind : {"dir", "file", "dots"}, name : Name]

(* No two drives have the same letter, each has a root, and no two entries  *)
(* of a folder are the same.                                                *)
ASSUME TreeAssumption ==
    /\ NoName \notin Name
    /\ Drives \in Seq(Name) /\ Drives # <<>> /\ IsInjective(Drives)
    /\ \A d \in ToSet(Drives) : <<d>> \in DOMAIN Listing
    /\ \A f \in DOMAIN Listing :
          /\ f \in Seq(Name) /\ f # <<>> /\ Head(f) \in ToSet(Drives)
          /\ Listing[f] \in Seq(Entries) /\ IsInjective(Listing[f])
    /\ MaxItems \in Nat /\ MaxRequests \in Nat
    /\ Faulty \subseteq 1..MaxRequests

VARIABLES
    tree,      \* m_Tree: for each of its items the text, and the item it is under
    sel,       \* the selected item, 0 for NULL
    list,      \* m_List: each file with the request whose answer it was in
    asked,     \* the requests posted so far
    wpc,       \* the window's thread: "idle" (in its message loop), "test" or "recv"
               \* (in LoadFileCurrent)
    wbuf,      \* the first index units of m_buffer, which DealCommand uses
    m_packet,  \* what DealCommand parsed last
    cur,       \* the last request taken from the network thread's message queue:
               \* the one it is at, or the last that a box has thrown away
    cpc,       \* the network thread: "get", "connect", "box" (connect has failed, and
               \* AfxMessageBox waits for the user), "recv", "show", "told"
    nbuf,      \* the first index units of its strBuffer
    pack,      \* the packet it shows to the window
    sock,      \* m_sock: "none", "made" but not connected, or "open"
    stream,    \* the units under way on it
    drive,     \* the server's current drive
    cwd,       \* cwd[d]: the current folder on the drive d
    gone,      \* the files that were deleted, each with its folder
    answer,    \* history: answer[r], the packets the command of r made
    where,     \* history: where[r], the folder that r is about
    shown,     \* history: shown[r], how many packets of r the window was given
    read,      \* history: read[r], how many it read itself
    clicked,   \* history: the item that was clicked last
    loaded,    \* history: loaded[h], the last request for the item h, 0 for none
    spoilt,    \* history: the items that had a listing on its way when they were
               \* clicked last, or when they came to be
    filling,   \* history: the request the list was last cleared for
    mixed,     \* history: "yes" if another listing was on its way then
    stray      \* history: "yes" once an item went that had a listing on its way

windowVars == <<tree, sel, list, asked, wpc, wbuf, m_packet>>
netVars    == <<cur, cpc, nbuf, pack, sock, stream>>
serverVars == <<drive, cwd, gone, answer, where>>
history    == <<shown, read, clicked, loaded, spoilt, filling, mixed, stray>>
vars == <<windowVars, netVars, serverVars, history>>

Items == 1..MaxItems
Requests == 1..MaxRequests

(* The packets: the entries of a folder; the last one, whose HasNext is     *)
(* FALSE; the drives; the answer to a deletion.                             *)
End       == [kind |-> "end", name |-> NoName]
DriveList == [kind |-> "drives", name |-> NoName]
Deleted   == [kind |-> "deleted", name |-> NoName]
Packets == Entries \cup {End, DriveList, Deleted}

(* What may stand where a name does: nothing, and what is in the string of  *)
(* a packet that was never assigned.                                        *)
Text == Name \cup {NoName, "?"}

(* A unit is one half of the packet k in the answer to r.                   *)
Units == [of : Requests, k : Nat, half : 1..2]

(* m_packet has not been assigned. *)
Unread == [of |-> 0, pkt |-> [kind |-> "dots", name |-> NoName]]

(* What is in memory behind the empty string of a new m_packet, where the   *)
(* loop looks for HasNext and IsDirectory: anything.                        *)
Garbage == {[of |-> 0, pkt |-> p] :
               p \in {End, [kind |-> "dir", name |-> "?"], [kind |-> "file", name |-> "?"]}}

TypeOK ==
    /\ DOMAIN tree \subseteq Items
    /\ \A h \in DOMAIN tree :
          tree[h] \in [text : Text, up : (DOMAIN tree \cup {0}) \ {h}]
    /\ sel \in DOMAIN tree \cup {0}
    /\ list \in Seq([of : 0..MaxRequests, name : Text])
    /\ asked \in Seq([cmd : {"drives", "list", "delete"}, path : Seq(Text),
                      item : 0..MaxItems, of : 0..MaxRequests, plain : {"yes", "no"}])
    /\ Len(asked) <= MaxRequests
    /\ wpc \in {"idle", "test", "recv"} /\ wbuf \in Seq(Units)
    /\ m_packet \in [of : 0..MaxRequests, pkt : Entries \cup {End}] \cup Garbage \cup {Unread}
    /\ cur \in 0..Len(asked) /\ cpc \in {"get", "connect", "box", "recv", "show", "told"}
    /\ nbuf \in Seq(Units) /\ pack \in Packets
    /\ sock \in {"none", "made", "open"} /\ stream \in Seq(Units)
    /\ drive \in ToSet(Drives) /\ DOMAIN cwd = ToSet(Drives)
    /\ \A d \in ToSet(Drives) : cwd[d] \in DOMAIN Listing
    /\ gone \subseteq {<<f, e>> : f \in DOMAIN Listing, e \in UNION {ToSet(Listing[g]) : g \in DOMAIN Listing}}
    /\ answer \in Seq(Seq(Packets)) /\ Len(answer) <= cur /\ Len(where) = Len(answer)
    /\ shown \in [Requests -> Nat] /\ read \in [Requests -> Nat]
    /\ clicked \in 0..MaxItems /\ loaded \in [Items -> 0..MaxRequests]
    /\ spoilt \subseteq Items /\ filling \in 0..MaxRequests
    /\ mixed \in {"yes", "no"} /\ stray \in {"yes", "no"}

Init ==
    /\ tree = <<>> /\ sel = 0 /\ list = <<>> /\ asked = <<>>
    /\ wpc = "idle" /\ wbuf = <<>> /\ m_packet = Unread
    /\ cur = 0 /\ cpc = "get" /\ nbuf = <<>> /\ pack = End
    /\ sock = "none" /\ stream = <<>>
    /\ drive = Drives[1] /\ cwd = [d \in ToSet(Drives) |-> <<d>>] /\ gone = {}
    /\ answer = <<>> /\ where = <<>>
    /\ shown = [r \in Requests |-> 0] /\ read = [r \in Requests |-> 0]
    /\ clicked = 0 /\ loaded = [h \in Items |-> 0] /\ spoilt = {}
    /\ filling = 0 /\ mixed = "no" /\ stray = "no"

-----------------------------------------------------------------------------
(* The tree control. *)

Item(text, up) == [text |-> text, up |-> up]

(* The items from the root down to h. *)
Chain == LET c[h \in DOMAIN tree] ==
             IF tree[h].up = 0 THEN <<h>> ELSE Append(c[tree[h].up], h)
         IN c

Children(h) == {k \in DOMAIN tree : tree[k].up = h}

(* Slip: what is under the items under h stays. *)
JustChildren(h) == Children(h)

(* What DeleteTreeChildrenItem(h) deletes: an item goes with all below it.   *)
Below(h) == LET c == Chain IN {k \in DOMAIN tree \ {h} : h \in ToSet(c[k])}

(* The texts from the root down to h, as in GetPath, which does its loop    *)
(* once if h is NULL.                                                       *)
GetPath(h) ==
    LET c == Chain[h]
    IN IF h = 0 THEN <<NoName>> ELSE [i \in DOMAIN c |-> tree[c[i]].text]

(* The listings that have not ended, and the items they are for.            *)
Unfinished == {r \in DOMAIN asked :
                  asked[r].cmd = "list" /\ (r > cur \/ (r = cur /\ cpc # "get"))}
Awaited == {asked[r].item : r \in Unfinished} \ {0}

(* What n new items are: a number that a request still has, or the least    *)
(* free one of those that nobody has (all of them are alike).               *)
NewItems(n, used) ==
    LET awaited == Awaited
        alike   == Items \ (used \cup awaited)
    IN {s \in [1..n -> Items \ used] : \A i \in 1..n :
           LET before == {s[j] : j \in 1..(i - 1)}
           IN /\ s[i] \notin before
              /\ s[i] \in awaited \/ \A h \in alike : h < s[i] => h \in before}

(* The items hs have been inserted, in place of what had their numbers.     *)
Inserted(hs) ==
    /\ loaded' = [h \in Items |-> IF h \in hs THEN 0 ELSE loaded[h]]
    /\ spoilt' = (spoilt \ hs) \cup (hs \cap Awaited)

(* The items hs have been deleted. *)
Gone(hs) == stray' = IF hs \cap Awaited # {} THEN "yes" ELSE stray

-----------------------------------------------------------------------------
(* The window: what the user does. *)

Request(cmd, path, item) ==
    [cmd |-> cmd, path |-> path, item |-> item, of |-> 0, plain |-> "yes"]

(* OnBnClickedBtnFileinfo *)
AskDrives ==
    /\ wpc = "idle" /\ Len(asked) < MaxRequests
    /\ asked' = Append(asked, Request("drives", <<>>, 0))
    /\ UNCHANGED <<tree, sel, list, wpc, wbuf, m_packet, netVars, serverVars, history>>

(* Slip: the list is not cleared. *)
ClearNot(r) ==
    /\ UNCHANGED list /\ filling' = r
    /\ mixed' = IF Unfinished # {} THEN "yes" ELSE "no"

(* The list is cleared for the request r. *)
Clear(r) ==
    /\ list' = <<>> /\ filling' = r
    /\ mixed' = IF Unfinished # {} THEN "yes" ELSE "no"

(* LoadFileInfo, for a click or for the second half of a double click.  A   *)
(* click beside the text, or on the button, does not select the item.       *)
LoadFileInfo(h) ==
    /\ wpc = "idle" /\ Len(asked) < MaxRequests /\ h \in DOMAIN tree
    /\ tree' = [k \in DOMAIN tree \ Below(h) |-> tree[k]] /\ Gone(Below(h))
    /\ sel' \in {h} \cup ({sel} \ Below(h))
    /\ Clear(Len(asked) + 1)
    /\ asked' = Append(asked, Request("list", GetPath(h), h))
    /\ clicked' = h /\ loaded' = [loaded EXCEPT ![h] = Len(asked) + 1]
    /\ spoilt' = IF h \in Awaited THEN spoilt \cup {h} ELSE spoilt \ {h}
    /\ UNCHANGED <<wpc, wbuf, m_packet, netVars, serverVars, shown, read>>

(* The list was cleared for a click, while no listing was on its way. *)
Unmixed == filling # 0 /\ mixed = "no" /\ asked[filling].item # 0

(* OnDeleteFile, for a file in the list, and the beginning of               *)
(* LoadFileCurrent.  The file's path is made from the selected item.        *)
OnDeleteFile(e) ==
    /\ wpc = "idle" /\ Len(asked) + 1 < MaxRequests
    /\ asked' = asked \o
          << [cmd |-> "delete", path |-> Append(GetPath(sel), e.name), item |-> 0, of |-> e.of,
              plain |-> IF sel = clicked /\ (e.of = filling \/ Unmixed) THEN "yes" ELSE "no"],
             Request("list", GetPath(sel), 0) >>
    /\ Clear(Len(asked) + 2)
    /\ wpc' = "test"
    /\ UNCHANGED <<tree, sel, wbuf, m_packet, netVars, serverVars, shown, read, clicked,
                   loaded, spoilt, stray>>

-----------------------------------------------------------------------------
(* The window: what the network thread gives it (OnSendPackAck).  It is in  *)
(* SendMessage until the window's thread is back in its message loop.       *)

(* Str2Tree: in place of all items every drive, with an item without text   *)
(* under it.                                                                *)
Str2Tree ==
    \E hs \in NewItems(2 * Len(Drives), {}) :
        /\ tree' = [h \in ToSet(hs) |->
                       LET i == CHOOSE i \in DOMAIN hs : hs[i] = h
                       IN IF i % 2 = 1 THEN Item(Drives[(i + 1) \div 2], 0)
                                       ELSE Item(NoName, hs[i - 1])]
        /\ Inserted(ToSet(hs)) /\ Gone(DOMAIN tree)
        /\ sel' = 0 /\ UNCHANGED list

(* Slip: the folders . and .. are items, too. *)
IsFolderOrDots(p) == p.kind \in {"dir", "dots"}

IsFolder(p) == p.kind = "dir"

(* A folder: an item for it under hParent, and one without text under that. *)
(* Where hParent is an item that has been deleted InsertItem gives NULL,    *)
(* and the second item is put under that, which is the root.                *)
InsertFolder(name, hParent) ==
    \E hs \in NewItems(IF hParent \in DOMAIN tree \cup {0} THEN 2 ELSE 1, DOMAIN tree) :
        /\ tree' = [h \in DOMAIN tree \cup ToSet(hs) |->
                       IF h \in DOMAIN tree THEN tree[h]
                       ELSE IF Len(hs) = 1 THEN Item(NoName, 0)
                       ELSE IF h = hs[1] THEN Item(name, hParent) ELSE Item(NoName, hs[1])]
        /\ Inserted(ToSet(hs))

UpdateFileInfo(p, hParent) ==
    /\ IF IsFolder(p) THEN InsertFolder(p.name, hParent) ELSE UNCHANGED <<tree, loaded, spoilt>>
    /\ list' = IF p.kind = "file" THEN <<[of |-> cur, name |-> p.name]>> \o list ELSE list
    /\ UNCHANGED <<sel, stray>>

(* CSM_AUTOCLOSE *)
AutoClose == asked[cur].cmd # "list"

OnSendPackAck ==
    /\ wpc = "idle" /\ cpc = "show"
    /\ CASE pack.kind = "drives"  -> Str2Tree
         [] pack.kind = "deleted" -> UNCHANGED <<tree, sel, list, loaded, spoilt, stray>>
         [] OTHER                 -> UpdateFileInfo(pack, asked[cur].item)
    /\ shown' = [shown EXCEPT ![cur] = @ + 1]
    /\ IF AutoClose THEN cpc' = "get" /\ sock' = "none" /\ stream' = <<>> /\ nbuf' = <<>>
                    ELSE cpc' = "recv" /\ UNCHANGED <<sock, stream, nbuf>>
    /\ UNCHANGED <<asked, wpc, wbuf, m_packet, cur, pack, serverVars, read, clicked,
                   filling, mixed>>

(* The connection failed, or the server closed it: the window only notes it.*)
OnSocketClosed ==
    /\ wpc = "idle" /\ cpc = "told" /\ cpc' = "get"
    /\ UNCHANGED <<windowVars, cur, nbuf, pack, sock, stream, serverVars, history>>

-----------------------------------------------------------------------------
(* The server. *)

(* The sequence s without the elements in out. *)
Without(s, out) ==
    LET f[i \in 0..Len(s)] == IF i = 0 THEN <<>>
                              ELSE IF s[i] \in out THEN f[i - 1] ELSE Append(f[i - 1], s[i])
    IN f[Len(s)]

(* The folder that the path leads to, with the current drive d and the      *)
(* current folders c: an empty first name is the root of the drive, other   *)
(* empty names are none.                                                    *)
Resolve(path, d, c) ==
    LET names == Without(path, {NoName})
    IN IF path[1] \in ToSet(Drives) THEN names
       ELSE IF path[1] = NoName THEN <<d>> \o names
       ELSE c[d] \o names

(* MakeDirectoryInfo after _chdir. *)
ListingNow(f) == Append(Without(Listing[f], {e \in ToSet(Listing[f]) : <<f, e>> \in gone}), End)

(* MakeDriverInfo: _chdrive leaves the last drive the current one. *)
MakeDriverInfo ==
    /\ answer' = Append(answer, <<DriveList>>) /\ where' = Append(where, <<>>)
    /\ drive' = Last(Drives) /\ UNCHANGED <<cwd, gone>>

MakeDirectoryInfo(f) ==
    /\ where' = Append(where, f)
    /\ IF f \in DOMAIN Listing
       THEN /\ answer' = Append(answer, ListingNow(f))
            /\ drive' = f[1] /\ cwd' = [cwd EXCEPT ![f[1]] = f]
       ELSE /\ answer' = Append(answer, <<End>>)
            /\ UNCHANGED <<drive, cwd>>
    /\ UNCHANGED gone

DeleteLocalFile(path) ==
    LET f == Front(path)
        e == [kind |-> "file", name |-> Last(path)]
    IN /\ answer' = Append(answer, <<Deleted>>) /\ where' = Append(where, f)
       /\ gone' = IF f \in DOMAIN Listing /\ e \in ToSet(Listing[f])
                  THEN gone \cup {<<f, e>>} ELSE gone
       /\ UNCHANGED <<drive, cwd>>

RunCommand(q) ==
    CASE q.cmd = "drives" -> MakeDriverInfo
      [] q.cmd = "list"   -> MakeDirectoryInfo(Resolve(q.path, drive, cwd))
      [] q.cmd = "delete" -> DeleteLocalFile(Resolve(q.path, drive, cwd))

-----------------------------------------------------------------------------
(* The network thread. *)

UnitsOf(r, n) == [i \in 1..(2 * n) |-> [of |-> r, k |-> (i + 1) \div 2, half |-> 2 - (i % 2)]]

OtherHalf(u) == [u EXCEPT !.half = 3 - @]

(* The first packet of which b has both halves one behind the other, with   *)
(* nothing but second halves before it, ends there; 0 if there is none.     *)
PacketEnd(b) ==
    LET ends == {i \in 2..Len(b) :
                    /\ b[i - 1].half = 1 /\ b[i] = OtherHalf(b[i - 1])
                    /\ \A j \in 1..(i - 2) : b[j].half = 2}
    IN IF ends = {} THEN 0 ELSE CHOOSE i \in ends : TRUE

(* GetMessage, and InitSocket up to connect. *)
MakeSocket ==
    /\ cpc = "get" /\ cur < Len(asked)
    /\ cur' = cur + 1 /\ cpc' = "connect" /\ sock' = "made" /\ nbuf' = <<>>
    /\ UNCHANGED <<windowVars, pack, stream, serverVars, history>>

(* The request is sent, and the server answers it. *)
Send ==
    /\ cpc = "connect"
    /\ RunCommand(asked[cur])
    /\ \E n \in IF cur \in Faulty THEN 0..Len(answer'[cur]) ELSE {Len(answer'[cur])} :
          stream' = UnitsOf(cur, n)
    /\ sock' = "open" /\ cpc' = "recv"
    /\ UNCHANGED <<windowVars, cur, nbuf, pack, history>>

(* The request cur has no answer. *)
NoAnswer == answer' = Append(answer, <<>>) /\ where' = Append(where, <<>>)

(* connect fails, and AfxMessageBox is called on the network thread.        *)
ConnectFails ==
    /\ cur \in Faulty /\ cpc = "connect"
    /\ NoAnswer /\ cpc' = "box"
    /\ UNCHANGED <<windowVars, cur, nbuf, pack, sock, stream, drive, cwd, gone, history>>

(* The message loop of the box takes a request, and it is gone.             *)
BoxTakes ==
    /\ cpc = "box" /\ cur < Len(asked)
    /\ cur' = cur + 1 /\ NoAnswer
    /\ UNCHANGED <<windowVars, cpc, nbuf, pack, sock, stream, drive, cwd, gone, history>>

(* The user closes the box, which is seen once no message is left.          *)
CloseBox ==
    /\ cpc = "box" /\ cur = Len(asked) /\ cpc' = "told"
    /\ UNCHANGED <<windowVars, cur, nbuf, pack, sock, stream, serverVars, history>>

(* send fails. *)
SendFails ==
    /\ cur \in Faulty /\ cpc = "connect"
    /\ NoAnswer /\ cpc' = "told" /\ sock' = "none"
    /\ UNCHANGED <<windowVars, cur, nbuf, pack, stream, drive, cwd, gone, history>>

(* The packet that ends at b[i] is shown, by SendMessage. *)
Show(b, i) ==
    /\ pack' = answer[b[i].of][b[i].k]
    /\ nbuf' = SubSeq(b, i + 1, Len(b)) /\ cpc' = "show" /\ UNCHANGED sock

Parse(b) ==
    IF PacketEnd(b) # 0 THEN Show(b, PacketEnd(b))
                        ELSE nbuf' = b /\ UNCHANGED <<pack, cpc, sock>>

Recv ==
    /\ cpc = "recv"
    /\ \E n \in 1..Len(stream) :
          /\ Parse(nbuf \o SubSeq(stream, 1, n))
          /\ stream' = SubSeq(stream, n + 1, Len(stream))
    /\ UNCHANGED <<windowVars, cur, serverVars, history>>

(* recv gives 0.  With something in the buffer it is called again.          *)
RecvEnd ==
    /\ cpc = "recv" /\ stream = <<>>
    /\ IF nbuf = <<>> THEN cpc' = "told" /\ sock' = "none" /\ UNCHANGED <<nbuf, pack>>
                      ELSE Parse(nbuf)
    /\ UNCHANGED <<windowVars, cur, stream, serverVars, history>>

-----------------------------------------------------------------------------
(* The window's thread in LoadFileCurrent. *)

(* The loop looks at what is in m_packet; and, the first time, before       *)
(* anything was received.                                                   *)
LoopTest ==
    /\ wpc = "test"
    /\ m_packet' \in IF m_packet = Unread THEN Garbage ELSE {m_packet}
    /\ list' = IF m_packet'.pkt.kind = "file"
               THEN <<[of |-> m_packet'.of, name |-> m_packet'.pkt.name]>> \o list ELSE list
    /\ wpc' = IF m_packet'.pkt = End \/ sock = "none" THEN "idle" ELSE "recv"
    /\ UNCHANGED <<tree, sel, asked, wbuf, netVars, serverVars, history>>

(* The drives' letters and commas are copied over the first bytes of the    *)
(* string only: with three drives they reach IsDirectory, with five HasNext.*)
DrivesOver(m) ==
    IF Len(Drives) >= (IF m.pkt = End THEN 5 ELSE 3)
    THEN [of |-> 0, pkt |-> [kind |-> "dir", name |-> "?"]] ELSE m

(* The packet that ends at b[i] is assigned to m_packet.  An empty string   *)
(* leaves what is behind its first byte.                                    *)
Assign(b, i) ==
    LET p == answer[b[i].of][b[i].k]
    IN /\ m_packet' = CASE p.kind = "drives"  -> DrivesOver(m_packet)
                         [] p.kind = "deleted" -> m_packet
                         [] OTHER              -> [of |-> b[i].of, pkt |-> p]
       /\ read' = [read EXCEPT ![b[i].of] = @ + 1]
       /\ wbuf' = SubSeq(b, i + 1, Len(b)) /\ wpc' = "test"

ParseMine(b) ==
    IF PacketEnd(b) # 0 THEN Assign(b, PacketEnd(b))
                        ELSE wbuf' = b /\ UNCHANGED <<m_packet, read, wpc>>

(* Slip: recv is called again when it gave nothing. *)
RecvAgain == UNCHANGED <<wpc, wbuf, m_packet, read>>

(* DealCommand gives -1. *)
BreakLoop == wpc' = "idle" /\ UNCHANGED <<wbuf, m_packet, read>>

(* recv fails, or gives 0, and nothing is in the buffer: -1.  Otherwise it  *)
(* is tried again; the -1 of a failure is added to index.                   *)
DealCommand ==
    /\ wpc = "recv"
    /\ \/ /\ sock = "open"
          /\ \E n \in 1..Len(stream) :
                /\ ParseMine(wbuf \o SubSeq(stream, 1, n))
                /\ stream' = SubSeq(stream, n + 1, Len(stream))
       \/ /\ sock = "open" /\ stream = <<>> /\ UNCHANGED stream
          /\ IF wbuf = <<>> THEN BreakLoop ELSE ParseMine(wbuf)
       \/ /\ sock # "open" /\ UNCHANGED stream
          /\ IF wbuf = <<>> THEN BreakLoop ELSE ParseMine(Front(wbuf))
    /\ UNCHANGED <<tree, sel, list, asked, cur, cpc, nbuf, pack, sock, serverVars, shown,
                   clicked, loaded, spoilt, filling, mixed, stray>>

-----------------------------------------------------------------------------
Network == MakeSocket \/ Send \/ SendFails \/ ConnectFails \/ BoxTakes \/ Recv \/ RecvEnd
Answered == OnSendPackAck \/ OnSocketClosed
LoadFileCurrent == LoopTest \/ DealCommand

Next ==
    \/ AskDrives
    \/ \E h \in Items : LoadFileInfo(h)
    \/ \E e \in ToSet(list) : OnDeleteFile(e)
    \/ Network \/ Answered \/ LoadFileCurrent \/ CloseBox

Spec == Init /\ [][Next]_vars

(* The program goes on as long as one of the threads can; the user need do  *)
(* nothing, not even close a box.                                           *)
Fairness == WF_vars(Network \/ Answered \/ LoadFileCurrent)

FairSpec == Spec /\ Fairness

-----------------------------------------------------------------------------
Names(kind, ps) == {p.name : p \in {q \in ToSet(ps) : q.kind = kind}}

(* All packets of r's answer have been given to the window. *)
AllShown(r) == r <= Len(answer) /\ answer[r] # <<>> /\ shown[r] = Len(answer[r])

(* Once the listing for an item has come, the item has the folders that are *)
(* there, each once, whatever other items were clicked meanwhile; unless    *)
(* the item was clicked again while a listing for it was on its way (as a   *)
(* double click does), or got the number of an item that one was for.       *)
FolderShown ==
    \A h \in DOMAIN tree \ spoilt :
        LET path  == GetPath(h)
            f     == Resolve(path, drive, cwd)
            there == IF f \in DOMAIN Listing THEN Names("dir", Listing[f]) ELSE {}
        IN loaded[h] # 0 /\ AllShown(loaded[h]) /\ path[1] \in ToSet(Drives) =>
               /\ {tree[k].text : k \in Children(h)} = there
               /\ \A k, l \in Children(h) : tree[k].text = tree[l].text => k = l

(* The tree shows what is there.  Besides the folders under an item that is *)
(* about the root: its items are the drives, each once, unless a file was   *)
(* deleted, whose listing is inserted at the root, or an answer came for an *)
(* item that was gone, which a click on an item above it, or asking for the *)
(* drives again, has deleted while its listing was on its way.              *)
TreeShown ==
    /\ FolderShown
    /\ stray = "no" /\ (\A r \in DOMAIN asked : asked[r].cmd # "delete") =>
           /\ {tree[h].text : h \in Children(0)} \subseteq ToSet(Drives)
           /\ \A k, l \in Children(0) : tree[k].text = tree[l].text => k = l

(* When all packets of the listing that fills the list have come the list   *)
(* has each file of the folder once, whatever else is in it, and nothing    *)
(* else after a click, unless another listing was on its way when the list  *)
(* was cleared.  LoadFileCurrent never gets to read the listing that it     *)
(* asks for, nor any that was asked for after the last deletion: until it   *)
(* is back, the network thread is held up in showing how the deletion       *)
(* before it ended.                                                         *)
FilesShown ==
    LET mine   == {e \in ToSet(list) : e.of = filling}
        others == ToSet(list) \ mine
    IN /\ \A r \in DOMAIN asked :
             asked[r].cmd = "list" /\ (\A s \in DOMAIN asked : asked[s].cmd = "delete" => s < r)
                 => read[r] = 0
       /\ filling \in DOMAIN answer /\ AllShown(filling) =>
             /\ {e.name : e \in mine} = Names("file", answer[filling])
             /\ \A i, j \in DOMAIN list : list[i].of = filling /\ list[i] = list[j] => i = j
       /\ Unmixed => others = {}

(* A file is deleted from the folder in which the list shows it, provided   *)
(* that the item clicked last is the selected one (a click beside its text  *)
(* lists it without selecting it) and that the file was in the answer for   *)
(* which the list was cleared, or the list has no other files.              *)
DeletesShown ==
    \A r \in DOMAIN answer :
        LET q == asked[r]
        IN q.cmd = "delete" /\ q.plain = "yes" /\ q.path[1] \in ToSet(Drives) /\ answer[r] # <<>>
              => where[r] = where[q.of]

(* A packet is torn: one reader has a half whose other half it cannot get.  *)
Torn ==
    \E b \in {nbuf, wbuf} : \E u \in ToSet(b) :
        OtherHalf(u) \notin ToSet(b) /\ (stream = <<>> \/ OtherHalf(u) # Head(stream))

(* Nothing is left to do. *)
Rest == cpc = "get" /\ cur = Len(asked) /\ wpc = "idle"

BoxesAreClosed == []<>(cpc # "box")

(* If the user closes every box about a failed connect (ClientSocket.cpp,   *)
(* line 98), no request stays in the network thread's queue and the window  *)
(* comes back from LoadFileCurrent, although each of the two threads may    *)
(* wait for the other and both read from the one socket; unless a packet is *)
(* torn between them.  Not every request is served: those behind one whose  *)
(* connect failed go with the box, and the window is told nothing of them.  *)
ComesToRest == BoxesAreClosed => (TRUE ~> (Rest \/ Torn))
=============================================================================
