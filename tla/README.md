# Verification of the remote control program

TLA+ modules, TLC runs and TLAPS proofs for the program in
`src/RemoteCtrl/`: a server that runs on the controlled machine
(`src/RemoteCtrl/RemoteCtrl/`) and an MFC client that controls it
(`src/RemoteCtrl/RemoteClient/`). The abbreviations used below: the *server
process* is RemoteCtrl, the *client* is RemoteClient, the *window* is
`CRemoteClientDlg`, the *network thread* is the one that runs
`CClientSocket::threadFunc2`.

The server's `main()` runs `iocp()` (RemoteCtrl.cpp), that is `EdoyunServer`
over a completion port and a thread pool. The older path, `CServerSocket::Run`
with `CCommand::RunCommand`, is compiled, is the one the client's protocol
belongs to, and its call in `main` is commented out. Both are modelled.

## 1. Inventory

| Component | State it keeps | Operations | Talks to |
|---|---|---|---|
| `CEdoyunQueue<T>` (CEdoyunQueue.h) | a list, a completion port used as a mailbox, a worker thread, `m_lock`; one `IocpParam` per call, on the heap or in the caller's frame | `PushBack`, `PopFront`, `Size`, `Clear`, destructor; `threadMain`, `DealParam` on the worker | callers by the port and by one event per waiting call |
| `EdoyunSendQueue<T>` (same file) | the same, and a ticking thread | overrides `PopFront` and `DealParam`, calls back `SendData` | `EdoyunClient`; nothing calls `Send` yet |
| `EdoyunThread`, `EdoyunThreadPool` (EdoyunThread.h) | per slot `m_bStatus` and the atomic `m_worker`; `m_lock` | `Start`, `Stop`, `Invoke`, `UpdateWorker`, `IsIdle`, `DispatchWorker`; the polling loop | whoever dispatches: `EdoyunServer` |
| `EdoyunServer`, `EdoyunClient`, overlapped operations (EdoyunServer.h/.cpp) | `m_hIOCP`, `m_sock`, `m_client`, per client the socket, `m_buffer`, `m_used` | `StartService`, `NewAccept`, `AcceptWorker`, `RecvWorker`, `threadIocp`, destructor | Winsock, the port, the pool |
| `CServerSocket` with `CCommand::RunCommand` (ServerSocket.h, Command.h) | `m_sock`, `m_client`, `lstPackets`, the count of failed accepts | `Run`, `AcceptClient`, `DealCommand`, `Send`, `CloseClient` | one TCP connection per request |
| `CClientSocket` (ClientSocket.h/.cpp) | the message queue of the network thread, `m_sock`, the receive buffer | `SendPacket`, `threadFunc2`, `InitSocket`, `SendPack`, `CloseSocket` | the server by TCP, the window by `SendMessage` |
| Downloading (Command.h, ClientController.cpp, RemoteClientDlg.cpp) | a `FILE`, two static variables `length` and `index`, the status window | `DownFile`, `DownloadFile`, `UpdateDownloadFile`, `DownloadEnd` | window, network thread, server |
| `CPacket` (Packet.h, ClientSocket.h) | head, length, command, data, sum | constructor, `Data`, the parsing constructor | the receiving loops |
| Locking the machine (Command.h) | `dlg.m_hWnd`, `threadid`, task bar, cursor | `LockMachine`, `UnlockMachine`, the dialog's thread | `PostThreadMessage` |
| Listing, tree and list of files (RemoteClientDlg.cpp, Command.h) | `m_Tree`, `m_List`; `m_packet`; the server's current drive and folders | `LoadFileInfo`, `Str2Tree`, `UpdateFileInfo`, `OnDeleteFile`, `LoadFileCurrent` with `CClientSocket::DealCommand`; `MakeDriverInfo`, `MakeDirectoryInfo`, `DeleteLocalFile` | network thread by `SendMessage`, and window's thread over the same `m_sock` |
| Watching and moving the mouse (CWatchDialog.cpp, ClientController.cpp, Command.h) | `m_isClosed`, the watch thread, `m_nObjWidth`, the buttons that are down on either machine | `StartWatchScreen`, `threadWatchScreen`, the dialog's handlers, `OnSendPackAck`; `SendScreen`, `MouseEvent` | the queue of the network thread |
| `CClientController` thread, `CEdoyunTool`, dialogs, resources | none that matters | messages nobody sends; calls to Windows | - |

What is hard in it, and what makes each part correct:

* **Queue.** Packets live in callers' frames while another thread writes to
  them; a caller must stay until it is answered, and an answer must come. All
  callers must see one list in one order although two of the four methods
  return before they take effect. The destructor must not lose, leak or use
  twice what is under way.
* **Pool.** Slots are assigned under a lock and cleared without it. No accepted
  job may be lost, doubled or called again after it said that it is done; -1
  must mean that the pool was full.
* **Server.** It accepts as long as a chain of `AcceptEx` calls, each issued by
  the handler of the one before on another thread, is unbroken and unforked.
  Handlers share `m_client`, `m_buffer` and `m_hIOCP` without a lock. Dispatch
  failures are ignored.
* **Session.** The client can go on to the next connection while the server is
  busy with the last; commands must run in order, answers must not be mixed or
  cut short, every request must end. When a connect fails the network thread opens
  a message box, whose message loop discards the requests that are queued.
* **Download.** Two static variables tell a length from data, for all downloads
  together; connections break, files change, a file may end at a chunk boundary.
* **Packets.** TCP cuts and joins; the data may look like a packet.
* **File tree.** Answers carry the `HTREEITEM` of the click they belong to, and
  the item may be clicked again, deleted, or its number given to another before
  they come. The window's thread reads the socket of the network thread.
* **Watching.** The dialog's thread is told to end by a flag that the next
  dialog resets; pictures come for windows that are gone; a press and its
  release are two requests, and either may be lost.
* **Lock.** A thread is found by a window handle that it sets and clears itself;
  the unlock is a message to a thread that may not be able to receive it.

The full list of hazards, each at its line with the properties that watch it,
is in `PROJECT.json` under `hazards`.

## 2. Modules

| Module | Models | State and actions |
|---|---|---|
| `EdoyunQueue` | `CEdoyunQueue<T>` | `port` is the completion port, `lst` is `m_lstData`, `param` and `live` the memory of the `IocpParam`s, `pc[t]` a caller between the statements that others can see; a call is one step up to `PostQueuedCompletionStatus`, one for it, one for the return. `frames` are the stack addresses a thread's calls had: a later call may have its `IocpParam` at one whose packet is still in the port. The worker takes (`Get`), deals (`DealPush`, ...), and signals in steps of its own. |
| `AtomicFifo` | what the queue promises | a list; invoke, take effect at one instant, reply |
| `EdoyunQueueRefinement` | - | the refinement mapping from the first to the second |
| `ThreadPool` | `EdoyunThread`, `EdoyunThreadPool` | one step per load or store of `m_bStatus` or `m_worker`, and one for following the pointer that `IsIdle` has loaded, which `Stop` may have deleted (`deleted`); `tpc` the polling loop, `dpc` `DispatchWorker` with its loop over `IsIdle`, `opc` the owner's `Invoke` and `Stop`, with `stage` in `EdoyunThread::Stop` and its `UpdateWorker` |
| `EdoyunServer` | `EdoyunServer` and its parts, over the promise of `ThreadPool` | `slot` the pool, `port` the completions, `conn`/`avail`/`armed` the sockets as Winsock keeps them, `mpc` the main thread |
| `RemoteSession` | `CServerSocket::Run` with `CClientSocket`'s network thread | requests are numbers; a connection has a stream of packet halves in each direction, so that `recv` can end in the middle of one; `cpc = "box"` is `AfxMessageBox` after a failed connect (`ConnectFails`, `BoxTakes`, `CloseBox`) |
| `Download` | a download from `DownFile` to `DownloadEnd` | packets as counts of bytes, the static variables, the `FILE`s; the box as in `RemoteSession` |
| `PacketStream` | `CPacket` byte for byte in the loops of `SendPack` and `DealCommand` | `flow` the bytes under way, `buf` and `index` the receiver's buffer with the stale bytes behind `index` |
| `LockMachine` | `LockMachine`, `UnlockMachine`, `threadLockDlgMain` | `tpc[k]` and `keys[k]`: the thread the k-th lock started and its message queue |
| `FileTree` | the client's tree and list of files, `LoadFileCurrent`, the network thread, the server's listing and deleting | `tree`, `sel`, `list` the controls; `wpc`, `wbuf`, `m_packet` the window's thread in `LoadFileCurrent`; `cpc`, `nbuf`, `sock`, `stream` the network thread, with its box, and its connection; `drive`, `cwd`, `gone` the server |
| `WatchDialog` | `CWatchDialog`, `StartWatchScreen`, `threadWatchScreen`, `MouseEvent` | `mpc`, `m_isClosed`, `dlg` the window's thread, `tpc[k]` the k-th watch thread, `queue` and `reply` the network thread, with its box, `button` and `mouse` the user's hand, `held` and `screen` the other machine |
| `MC...` | - | symmetry and the values of constants for TLC, where a `.cfg` cannot state them |
| `EdoyunQueueProofs`, `ThreadPoolProofs`, `EdoyunServerProofs`, `RemoteSessionProofs`, `PacketStreamProofs`, `CommandProofs` (of `Download` and `LockMachine`), `FileTreeProofs`, `WatchDialogProofs` | - | theorems |

Composition: `EdoyunServer` relies on what `ThreadPool` establishes (a
dispatched job is one step: it goes into one free slot, or all slots were taken)
and so does not repeat the pool's loops. `Download` relies on `RemoteSession`
for the order of requests and on `PacketStream` for whole packets in order;
`RemoteSession` relies on `PacketStream` for the parser. `FileTree` and
`WatchDialog` rely on `RemoteSession` for the order in which requests are
served; `FileTree` cuts packets in halves as that module does, because two
threads may each receive a part of one. `EdoyunQueue` is composed with
`AtomicFifo` by the refinement. Operators commented
`Slip` are plausible mistakes in the line of code below them; they are used by
no specification, and each is what one of the properties rules out.

## 3. Runs

Every run also looks for deadlocks in the sense of its liveness properties;
TLC's own deadlock check is off because every instance is bounded (a caller
stops after `MaxCalls`, a user need not click) and the server may be shut down.

| Run | Question | Bounds, and why they are enough |
|---|---|---|
| `EdoyunQueue` | Does every call take effect at one instant on one list (`ImplementsFifo`), is every packet dealt with once and never used after release (`NoParamMisused`), does every call and the destructor return (`CallsReturn`)? | Two threads, two values, three calls, the destructor at any time no call is in progress. Two callers give every overlap of two packets in the port; the third call sees the list the first two made. |
| `EdoyunQueueFewHandles` | The same code when posting, the constructor and `CreateEvent` fail: are callers stranded, does memory leak (`NoParamForgotten`)? | One event handle for four calls, so that later calls have none, and a thread can have a call whose frame is where a dead packet still points. |
| `ThreadPool` | No job is lost (`NoJobLost`), run by two threads or called through an empty slot (`OneThreadPerJob`); -1 means that the pool was full (`RefusedMeansFull`); jobs run, and `Stop` returns (`PoolProceeds`). | Two slots, two dispatchers, three jobs: more jobs than slots, so that a slot is used twice and the pool is full. |
| `ThreadPoolIsIdle` | `IsIdle` answers. **Violated**, see 6. | as above |
| `EdoyunServer` | The chain of `AcceptEx` is whole and single (`AcceptChain`, from which exclusive use of `m_client` follows, and that an accepted socket finds the port); one reader per connection (`OneReader`). | Three clients and three threads: one for `threadIocp`, two for workers, with a refused completion; a buffer of one byte and peers that send two, so that it is full with data left; `AcceptEx`, `bind` and `listen` fail, peers reset, the key may be pressed at any moment, uninitialised fields hold anything. |
| `EdoyunServerLive` | Every connection is followed by the next `AcceptEx`, and a completion is refused only to connections that fill the pool (`AcceptsOn`); data is read up to what `m_buffer` holds, and threads come back (`ServedToTheEnd`). | The same clients, threads and bytes: two connections fill the pool, and a peer can send more than `m_buffer` has room for. `m_used` and `m_wsabuffer`, which nobody initialises, hold 0 or anything. No failures: those end the chain for good, which the run before says. |
| `Download` | What is written is the file (`WholeFile`); no closed `FILE` is used after downloads as expected (`NoUseAfterClose`); the status window goes (`StatusHides`). | Three downloads, so that one disturbs the next and that one a third; chunks of 2 and sizes 0, 2, 5: empty, one full chunk (followed by an empty one), three chunks with a short last. Failing post, connection (with the box that discards queued downloads), reset, changing files, an `fwrite` that puts in nothing; eight bytes of data that read as no, a negative or a plausible length. |
| `RemoteSession` | Order (`InPostedOrder`), ownership and completeness of answers (`OwnAnswers`), the backlog of one (`BacklogSuffices`), every request ends and the server comes back (`EveryRequestEnds`). | Three requests: one being sent, one being run, one in the backlog. No answer or two packets; connect, send, accept fail, connections reset, the server's process ends; with the first connect failing two requests can be queued for the box to discard. Four accepts may fail, as many as `Run` counts. |
| `PacketStream` | Exactly the packets sent, in order, none missing at the end (`InOrder`), and a terminating receiver (`StreamEnds`). | Two packets of three kinds (empty, data like the beginning of a head, data that is a whole packet), cut at every byte, a buffer of 21 bytes that holds either but not both, a sender that dies at any byte, a reset. |
| `LockMachine` | The machine is restored (`Restored`), and does what it was told last (`FollowsLast`). | Four commands: lock, unlock and lock again with one to spare for a lock in the wrong moment; one key pressed by hand. |
| `FileTree` | The tree has the folders that are there, each once (`TreeShown`); the list has the folder's files (`FilesShown`); a file is deleted where the list shows it (`DeletesShown`); the two threads do not wait for each other for ever (`ComesToRest`). | One drive with a folder and a file, and in the folder a file of the same name, which a deletion in the wrong folder would hit. Five requests: the drives, two listings that overlap, and the two of a deletion. The third may fail to connect, with up to two behind it for the box to discard, or to be sent, or have its answer cut short: it is the first that can be about the folder. Ten items hold two of every item that these can make. |
| `WatchDialog` | The other mouse does what the user's does (`MouseFollows`); one thread asks for pictures (`OneWatcher`) and it ends (`WatcherEnds`); the width comes to be that of the screen (`WidthFollows`). | Two openings, so that a thread that is late meets the next dialog; one picture and one other request in the queue, a bound on each so that the user's events cannot keep the thread from posting; one failed request (with the box that discards the rest of the queue, or without), picture or change of width; a point on the picture and one beside it, on its right; two widths, one smaller and one larger than the control, neither a multiple of the other. |

Fairness, and why the code justifies it:

* weak fairness of every thread of the program, because Windows schedules them
  and none waits for a lock that another keeps (in `EdoyunQueue` callers wait
  for events, in `ThreadPool` the threads poll);
* weak fairness of the completion of an operation whose data has arrived, which
  is what a completion port promises;
* none of the environment: callers need not call, peers need not send or close,
  the user need not click, faults need not happen, and jobs need not return
  (`PoolProceeds` assumes `JobsReturn` explicitly, since `Stop` waits for them);
* in `FileTree` one weak fairness of all threads together is enough: the program
  goes on as long as any of its threads can, and the user need not click;
* in `WatchDialog` of each watch thread, of the network thread, and of
  `StartWatchScreen` once the user has closed the dialog;
* none of `CloseBox`, the user's click on the box that the network thread shows
  when a connect fails (ClientSocket.cpp:98). `EveryRequestEnds`, `ComesToRest`
  and `WidthFollows` have the assumption in them, `BoxesAreClosed`: no box is
  open for ever. `WatcherEnds`, `StatusHides` and the second part of
  `EveryRequestEnds`, that the server comes back for the next client, do not need
  it.

The properties themselves, and the code each is about, are commented in the
modules. What the runs taught about the limits of the program has gone into
their premises, and each of these exceptions is a behaviour of the code
(section 6): `PoolProceeds` excepts a pool whose `Invoke` failed, `AcceptsOn` and
`ServedToTheEnd` a refused completion, `ServedToTheEnd` a full `m_buffer` and a
field that nobody initialised, `WholeFile` and `StatusHides` an odd
download, `EveryRequestEnds` the death of the server and the requests that a box
discards, `FollowsLast` a command
that comes while the lock is coming or going, `TreeShown` an item that was
clicked, deleted or made while a listing for it or its number was on its way,
`FilesShown` a list that was cleared while another listing was on its way (its
files may be there too) and a listing of which a part was lost, `DeletesShown` a
click beside the text and a file from another listing than the one that the list
was cleared for,
`ComesToRest` a packet torn between two readers, `MouseFollows` a transition
that was not sent or that a box discarded and the right double click, `OneWatcher` a wait that timed out.

## 4. Proofs

TLAPS proves the following for every value of the constants; all modules are
without RECURSIVE operators on the way there.

**`EdoyunQueueProofs`.** `TypeCorrect` needs no assumption. `DealtOnceHolds` (no
packet is in the port twice or dealt with twice), `NoDanglingParamHolds`, and with
them `NoParamMisusedHolds`, assume `HandleLimit >= MaxCalls`, that no call lacks an
event, and hold for a destructor that races with calls and whatever else fails.
The assumption is needed: a caller without an event comes back at once and leaves
the address of its frame in the port; the frame is gone, and the thread's next call
may build its `IocpParam` at the same address and post it a second time.
`NoStrandedCallerHolds` and
`NoParamLeakHolds` (with `NothingLeftBehind`), together `NoParamForgottenHolds`,
assume `RacingDtor = FALSE` (the destructor starts when no call is in progress)
and hold for any number of handles, frames used again, and any faults: a dead or
doubled packet strands nobody who waits, unless the worker deletes a frame that
reads as the heap's, with which the process ends (`DeleteFrame`).
The invariants wanted are not inductive: they need to know whose an address is.
`BaseInv` says so for any number of handles: a stack address is one thread's for
good, and allocated only while that thread is in the call that has it. `QuietInv`
adds what the destructor has done at each of its steps (`DtorInv`), and that a
caller with an event still has its question in its frame until it has the answer,
even when an older packet with that address is dealt with in its place
(`AnswerDue`). Where handles do not run out, `OwnerInv` and `FrameInv` say that
no frame is left behind: a packet in the port or with the worker is allocated, on
the heap or in the frame of one caller, who waits for it.

`ImplementsFifoHolds` is the refinement: every behaviour of the queue is one of
`AtomicFifo` under the mapping of `EdoyunQueueRefinement`, in which a call takes
effect at the instant its packet is posted. It has two premises,
`HandleLimit >= MaxCalls` and `RacingDtor = FALSE`: a caller without an event
returns before the worker has dealt with its packet, and a destructor that
races with a call may stop the worker before it comes to that packet, which the
abstract list has by then. Beyond the invariants above the proof needs that a
packet in the port still asks what its caller wants and holds no answer yet
(`RequestInv`), and it says which answer each caller will get by where its
packet is (`AnswersAre`). A post changes only the list at the port's end
(`ListsPosted`); taking a packet leaves the list before every other packet as it
was (`ListsTaken`). Both are inductions over the port, by `SetInduction`, an
induction over a *set* of numbers that follows from the well-foundedness of `<`.
Then each kind of step has a lemma that maps it to a step of the abstract queue
or to a stutter.

**`ThreadPoolProofs`.** `PoolTypeCorrect`, `NoJobLostHolds`,
`OneThreadPerJobHolds` (in which `CopyFindsWorkerHolds`), `RefusedMeansFullHolds`,
and the action property `FinishedNotCalledHolds`, which no run repeats, for any size, dispatchers and number
of jobs, with threads that fail to start. The inductive invariant `IInv` ties
each dispatcher's program counter to `m_lock` and to the slots it has passed,
each thread's to its copy of the job, and keeps a job in one place. The point of
`RefusedMeansFull`: while a dispatcher holds the lock slots only become free, so
a slot it saw taken was taken when it got the lock. What
`Stop` has deleted is in no slot any more (`DeletedInv`); a dispatcher that follows
such a pointer loaded it while the slot was taken, and whatever it reads there
breaks none of these.

**`EdoyunServerProofs`.** `TypeCorrect`, `ChainUnbroken` (`AcceptChain`) and
`ReadByOne` (`OneReader`), for any number of clients and threads, any buffer and
any set of faults. For `OneReader`: a client is in one of five stages at most,
and once in it (`OneStage`, `OncePort`, `OnceServing`): its accept has not
completed, its read is outstanding, its completion is at the port, or with
`threadIocp`, or with a worker that has yet to issue the read or that reads.
For `AcceptChain`: each step of a thread takes a link from one of the seven
places that `Links` counts and puts one into another, so that the proof is about
cardinalities, of the listening clients, of the accepts in the port, of the
workers and of the completions that were dropped, of which exactly one changes up
and one down (`OneMore`, `OneLess`, `AcceptsAppend`, `AcceptsTail`).
`RefusalNeedsConnectionsHolds` is the safety part of `AcceptsOn`: when `threadIocp`
finds no free slot, its own thread, at most one `AcceptWorker` of each connection
(`OnceAccept`) and at most one `RecvWorker` of each are all there are, and of the
connection at hand there is one less (`FullPool`).
`AttendedHolds` is the safety part of `DataRead`, with every fault and any contents
of the fields that nobody initialises: until the server
is stopped, the accept or the read of a connection is at the port, with
`threadIocp`, with a worker or outstanding, unless the pool was full, the peer has
closed and all is read, `m_buffer` is full, or `m_used` or `m_wsabuffer` held
something else than 0.

**`CommandProofs`, on `Download`.** `DownloadTypeCorrect`, `CountersAgreeHolds`
(the branch of `UpdateDownloadFile` for a complete file is never taken),
`WholeFileHolds`, `NoUseAfterCloseHolds`, for any chunk size, sizes and number
of downloads. `WholeFile` needs to know what the static variables and the file
hold in the middle of a download that is as expected (`AsExpected`), that
downloads are served in order (`InOrder`), and, so that the last packet is the
one that completes the file, that what was sent before the last chunk is a
multiple of the chunk size (lemma `Multiples`).
`StatusAtRestHolds` is the safety part of `StatusHides`: with every download over
the status window is hidden, unless one was odd or did not reach the server
(`StatusSound`: while it is shown there is a download whose packets are still to
hide it).

**`RemoteSessionProofs`.** `SessionTypeCorrect`, `InPostedOrderHolds`,
`OwnAnswersHolds` and `BacklogSufficesHolds`, for any number of requests, any numbers of packets in an
answer and any set of faults. Order: the requests executed, the one served,
those in the backlog and the one being connected are, in this order, growing
numbers (`Order`), whichever side is ahead. Answers: `Balance` counts the packet
halves of a request that the window was given, that are in the buffer or under
way, and that are still in `lstPackets`; they are never more than its command
made, and exactly as many while the connection holds and the client has it open.
The server holds a connection open until `lstPackets` is empty (`StillOpen`), so
that at the end of the stream of a connection that held nothing is missing
(`Complete`). The backlog of one suffices for the same reasons: when a connect
finds it full, the connection at its head was broken or its request not sent
(`Outcomes`), because otherwise the client has that request's answer or the end
of its stream, and the server has not yet accepted it.

**`PacketStreamProofs`.** `ParsesPacket`, about the operators alone: the parser
finds a packet at the beginning of the buffer exactly when all of it is there,
and then that packet, whatever is behind it. `StreamTypeCorrect` and
`InOrderHolds`, for any set of packets whose data may hold heads and whole
packets, any buffer that holds the largest and has less than 2^30 bytes, any cut
of the stream and any faults. The invariant is one on the layout: what the
buffer holds up to `index`, followed by the bytes under way, are the bytes of
the packets that have not been delivered, laid one behind the other, up to a
last one that may be cut short (`Fits`). Each action does one thing to that layout
(`Parsed`, `SendFits`, `CutFits`, ...), and `AllTaken` says what the end of
`SendPack` has left of it. The parser reads the length of a packet as a DWORD:
the model has DWORDs below 2^30 exactly and all larger ones as 2^30, which the
comparison with the bytes received cannot tell apart in such a buffer.

**`CommandProofs`, on `LockMachine`.** `LockTypeCorrect` and `RestoredHolds`, for
any number of commands: whatever a lock thread has changed will be restored by a
thread that has not yet ended, also when several of them share the dialog. (The
module extends both `Download` and `LockMachine`; what they would both call
`Init`, `Next`, `TypeOK` ... begins with Lock in the latter.)
`AsToldLastHolds` is the safety part of `FollowsLast`: unless a command came while
the lock was coming or going, a machine whose lock threads can do nothing more has
the task bar and the cursor as the last command or key asked. It rests on
`OneLock`: without such a command at most one thread holds the lock, it is the one
in `threadid` whose window is in `dlg`, and it has an unread key or is on its way
out exactly if the machine was told to unlock.

**`WatchDialogProofs`.** `WatchTypeCorrect`, `OneWatcherHolds` and
`MouseFollowsHolds`, for any number of openings and events, any widths and any
points. For `OneWatcher`: as long as every wait of `StartWatchScreen` ended with
its thread, all threads before the last have ended (`Predecessors`). For
`MouseFollows`: the last request about the button that is in the queue is the
user's last transition unless one was missed (`ButtonInv`), and with none in the
queue the other machine holds what the user
holds; what a box discards may be that last request, and then it was missed. The cursor's part rests on a request's point being that of its event,
scaled once with the width of that moment (`Placed`), on a bound of what the
division loses (`Division`, `OnScreen`), and, for a point beside the picture, on
`SetCursorPos` keeping the cursor on the screen.

**`FileTreeProofs`.** `TypeCorrect`, `DeletesShownHolds`, `FilesShownHolds` and
`TreeShownHolds`, for any names, drives, folders, bounds and faults. The only
assumptions (`TreeAssumption`) are that there is a drive, that drives and the
entries of a folder are different from each other, that every drive has a root,
that the path of every folder begins with a drive, and that the empty string is
no name. None of the four is inductive. The invariant has three layers:

1. `AInv`: the halves in the three buffers are of packets that were made; an
   answer is one that its command makes, and where a path begins with a drive it
   is about the folder of that path (`AnswerRight`); the path of a deletion is
   that of a listing with a name behind it (`PlainDelete`); a listing for no item
   follows a deletion; every item is under one that is there, without a circle.
   From this follow `TypeOK` and `DeletesShown`: an item keeps its path as long
   as it is in the tree (`CutTree`, `ExtendTree`).
2. `Counted`: two times the packets shown of the present answer, and the halves
   still ahead of the network thread, are never more than there were. If they are
   all (`Whole`) the rest is ahead in its order, so the next packet shown is the
   next of the answer. What is not whole never becomes so again (`CountStep`), and
   an answer that was shown completely was whole all the time (`ShownWhole`). So
   the claim about complete listings is one about parts: as long as the listing
   is whole, the list has the files of the packets shown so far (`FilesSoFar`).
   `FilesShown` follows; its part on `LoadFileCurrent` is `NoneRead`.
3. `TreeRight`: the same for the folders under each item (`FoldersSoFar`), with
   what makes an answer come to the right item (`LoadedRight`): the last request
   for an item has its path and its number, and no other one for it is unfinished
   unless it is spoilt. `RootRight` adds that without deletions every awaited item
   is still in the tree, so that no folder is inserted at the root.

`Chain`, from which paths come, and `Without`, which leaves out names, are
recursive functions. That they exist and what they give (`ChainStep`,
`WithoutAppend`, `WithoutType`) is proved first, by `SetInduction` as above, for
trees by the depth of their items (`TreeInduction`).

With these every invariant and the refinement that the runs check are theorems.
Only model-checked: the liveness properties (`CallsReturn`, `PoolProceeds`,
`ServedToTheEnd`, `StatusHides`, `EveryRequestEnds`, `StreamEnds`, `FollowsLast`,
`ComesToRest`, `WatcherEnds`, `WidthFollows`) and the part of `AcceptsOn` that
says that the next `AcceptEx` comes. They are out of the prover's reach, as is
ENABLED. Of some of them the safety part is proved, which no run repeats: that
nobody waits for what nothing will bring (`NoStrandedCallerHolds` for
`CallsReturn`, `AttendedHolds` for `ServedToTheEnd`) and that a system at rest is
in the state it should come to (`StatusAtRestHolds`, `AsToldLastHolds`). That the
steps which remain are taken is the part left to TLC.

## 5. What is not modelled

* `EdoyunSendQueue`, `EdoyunClient::Send` and `SendWorker`: nothing calls them.
* `RunFile` and its answer: the server starts a program and sends an empty
  packet, which `RemoteSession` has as a request with one.
* `CWatchDialog::OnStnClickedWatch`: the picture control has no `SS_NOTIFY`, so
  it is never called. `isFull` is always FALSE, since nothing calls
  `SetImageStatus`. The dialog never sends the middle button.
* A `PostThreadMessage` of the watch thread that fails (the network thread exists
  before the first dialog), drawing, and the image in the packet.
* `CClientController::threadFunc`, which waits for messages nobody sends.
* `CEdoyunTool`, dialogs, resources, painting, image encoding.
* Memory allocation that fails, and what a write through a wild pointer does:
  a crash in the model is the end of the process. In particular, a `m_wsabuffer`
  or `m_used` that happens to name memory of the process.
* What else garbage may be parsed as after a failed `recv` of the server
  (ServerSocket.h:89): it ends the process there, or the command is what came.
* `MSGINFO`, `m_mapAck` and other members that only commented code uses.

## 6. Findings

Checked by a run that shows the violation:

* `ThreadPoolIsIdle`: `IsIdle` loads `m_worker` twice (EdoyunThread.h:94-95),
  the slot's thread may set it to NULL in between, without the lock, and the
  second load is followed.

Behaviours the models have which no run is kept for, since no line of the
repository claims the contrary; each is the reason for a premise or a constant:

* A destructor of `CEdoyunQueue` that runs while a call is between the test of
  `m_lock` and its post strands the caller (`RacingDtor = TRUE`).
* `PopFront` and `Size` do not close the event they create (only when they fail
  early); when handles run out the wait fails at once and the worker keeps the
  address of a dead frame (`NoParamMisused` with `HandleLimit < MaxCalls`).
* After a failed `Invoke` all threads are stopped, `StartService` goes on, and
  `DispatchWorker` returns indices of slots that have no thread.
* A completion for which the pool has no thread is dropped; if it is an accept,
  nobody is accepted any more. A connected peer keeps a thread, so that a pool
  of ten is full with five connections at the earliest.
* `~EdoyunServer` deletes clients whose operations are outstanding, and then
  waits for `threadIocp`, which nothing wakes once those have been reported.
* `m_used` and `m_wsabuffer` are never initialised (EdoyunServer.cpp:58).
  `AcceptWorker`'s `WSARecv` may fail for it, or `recv` be given a wild address:
  nobody reads from such a connection.
* Nothing takes data out of `m_buffer`. When 1024 bytes have come `recv`
  (EdoyunServer.cpp:107) has no room and returns 0, which is taken for the end of
  the connection: the thread is given back, and what the peer sends afterwards is
  never read. `ServedToTheEnd` claims no more than the first 1024 bytes.
* A failed connect opens `AfxMessageBox` on the network thread
  (ClientSocket.cpp:98; line 92 for an address that is none). The box's message
  loop takes the thread's messages, and since a `WM_SEND_PACK` is for no window it
  is thrown away, its `PACKET_DATA` with it: every request in the queue, and every
  one that is posted until the user clicks, is lost without a word to its window.
  In `RemoteSession` such a request is `lost`; in `Download` its status window stays;
  in `WatchDialog` a release among them leaves the other machine's button down.
  Until the click the thread serves nothing.
* What `fwrite` returns is not looked at: a short write makes a file with a hole
  that the user is told is complete.
* `Stop` deletes a slot's `ThreadWorker` (EdoyunThread.h:83) that a dispatcher may
  have loaded in `IsIdle` and not yet followed.
* A broken download leaves its `FILE` open and its size in the static variables;
  the next download is then written with a wrong end, and a late packet may
  reach a closed `FILE`. The status window stays.
* A file whose size is a non-zero multiple of 1024 ends in an empty packet that
  arrives when `UpdateDownloadFile` has finished with the file; it is taken for a
  length, and the user is told that the file is empty or cannot be read after it
  has been downloaded whole (RemoteClientDlg.cpp:295-297).
* After an end of stream inside a packet `recv` returns 0 for ever, and
  `length > 0 || index > 0` (ClientSocket.cpp:259) keeps the network thread in
  its loop.
* Two `LockMachine` in a row may start two threads over one dialog, the first of
  which only the key at the machine can end; an unlock that comes before the
  thread has a message queue is lost; a lock that comes while an unlock is under
  way is ignored.
* A double click lists a folder twice, and its tree item gets every folder twice;
  two quick clicks mix their files in the list.
* A listing that comes for an item that has been deleted is inserted at the root.
  So are the folders of every listing after a deletion (its `wParam` is 0), if
  the network thread is the one that gets it. Such items have relative paths, and
  what they show depends on the server's current folder.
* `LoadFileCurrent` never reads the listing it asks for: the network thread is in
  `SendMessage` with the answer to the deletion until `LoadFileCurrent` is back.
  Its loop looks at a `m_packet` that is uninitialised or left from before, and
  enters a file from it in the list.
* What is left in `m_packet` is entered in the list that the next deletion fills,
  as a file of a folder that it need not be in; a second deletion reads what is
  still coming of the listing that the first one asked for, and the packets left
  in `m_buffer` from it.
* A listing that is still coming when a file is deleted is read by both threads
  from one socket. A packet torn between them leaves the rest of it in each
  buffer, and the window's and the network thread in their loops.
* A click beside an item's text lists the item without selecting it; `Delete` on
  a file of that list removes the file of that name in the selected folder.
* A right double click is sent as one and done as two clicks (the case falls
  through, and each ends in a release) while the user still holds the button.
* A button released outside of the dialog, in a request that fails or in one that a
  box discards, stays down on the other machine until the next transition of it.
* A watch thread that does not end within half a second lives on beside that of
  the next dialog, which has reset `m_isClosed`. Pictures for a window that is
  gone are packets nobody deletes.

## 7. Plan

Order: the parts on which others rest first, then the program's two servers,
then the features.

1. `EdoyunQueue`, `AtomicFifo`, refinement, proofs - done
2. `ThreadPool`, proofs - done
3. `EdoyunServer` over the pool's promise, proofs - done
4. `RemoteSession`, `PacketStream`, proofs - done
5. `Download`, proofs - done
6. `LockMachine`, proofs - done
7. `FileTree`, proofs - done
8. `WatchDialog`, with the tables of the mouse, proofs - done

Left out for now: `EdoyunSendQueue`, as a variant of the queue with `SendData`
asking its own worker for `Size()`. It would be worth its module once something
calls `EdoyunClient::Send`. Worth proving next, if the code around them changes:
that nothing of a deleted item's listing reaches another item when items have
handles that are never used again (then `TreeShown` would lose its exception for
numbers), and the safety parts of the liveness properties, as
`RefusalNeedsConnectionsHolds` is of `AcceptsOn`.
