------------------------------ MODULE LockMachine ------------------------------
(***************************************************************************)
(* Locking and unlocking the machine (CCommand, RemoteCtrl/Command.h).     *)
(* LockMachine starts a thread that shows the dialog dlg over the screen,  *)
(* hides the task bar, clips the cursor and loops over its messages until  *)
(* it gets the key "a"; UnlockMachine posts that key to the thread whose   *)
(* number is in threadid.  Whether there is such a thread is read from     *)
(* dlg.m_hWnd, which the thread sets when it creates the window and which  *)
(* is NULL again when it has destroyed it; nothing is locked.              *)
(*                                                                         *)
(* Commands are run one after another, by CServerSocket::Run.  A thread is *)
(* the number of the LockMachine that started it.  A step touches one of   *)
(* the things that two threads share.  A window belongs to the thread that *)
(* created it: another one cannot destroy it, and it goes with its thread. *)
(* (A debug build of MFC may stop at an assertion when two threads use the *)
(* one dlg; here they go on, as in a release build.)                       *)
(* A thread has a message queue from its first call of the window system,  *)
(* dlg.Create, on; PostThreadMessage fails before that and after its end.  *)
(*                                                                         *)
(* ShowCursor is left out: the pointer is shown or not by a counter of its *)
(* own, which every thread lowers before it hides the task bar and raises  *)
(* after it has freed the cursor; nothing here reads it.                   *)
(*                                                                         *)
(* (Names that Download also uses begin with Lock: CommandProofs extends   *)
(* both.)                                                                  *)
(***************************************************************************)
EXTENDS Integers, FiniteSets

CONSTANTS
    MaxCommands,  \* bound: the commands that are run
    MaxKeys       \* bound: how often "a" is pressed at the machine

ASSUME LockAssumption == MaxCommands \in Nat /\ MaxKeys \in Nat

VARIABLES
    m_hWnd,    \* of dlg: the thread whose window it is, 0 for NULL
    threadid,  \* the thread started last, 0 at first
    cmd,       \* "idle", or "begin" between the test of m_hWnd and _beginthreadex
    started,   \* how many threads have been started
    tpc,       \* tpc[k]: where thread k is
    keys,      \* keys[k]: the key messages in the queue of thread k
    taskbar,   \* "shown" or "hidden"
    cursor,    \* "free" or "clipped"
    ncmds, nkeys,  \* how many commands were run, how many keys pressed
    wanted,    \* what the last command, or the user at the machine, asked for:
               \* "locked", "unlocked"
    hasty      \* history: "yes" once a command was run while the lock was coming
               \* or going

threadVars == <<tpc, keys, taskbar, cursor>>
lockVars == <<m_hWnd, threadid, cmd, started, threadVars, ncmds, nkeys, wanted, hasty>>

LockIds == 1..MaxCommands

LockTypeOK ==
    /\ m_hWnd \in 0..MaxCommands /\ threadid \in 0..MaxCommands
    /\ started \in 0..MaxCommands
    /\ cmd \in {"idle", "begin"}
    /\ tpc \in [LockIds -> {"none", "create", "hide", "clip", "loop", "unclip", "show",
                            "destroy", "end", "ended"}]
    /\ keys \in [LockIds -> 0..(MaxCommands + MaxKeys)]
    /\ taskbar \in {"shown", "hidden"} /\ cursor \in {"free", "clipped"}
    /\ ncmds \in 0..MaxCommands /\ nkeys \in 0..MaxKeys
    /\ wanted \in {"locked", "unlocked"} /\ hasty \in {"yes", "no"}

LockInit ==
    /\ m_hWnd = 0 /\ threadid = 0 /\ cmd = "idle" /\ started = 0
    /\ tpc = [k \in LockIds |-> "none"] /\ keys = [k \in LockIds |-> 0]
    /\ taskbar = "shown" /\ cursor = "free"
    /\ ncmds = 0 /\ nkeys = 0 /\ wanted = "unlocked" /\ hasty = "no"

-----------------------------------------------------------------------------
(* A thread that can be given messages. *)
HasQueue(k) == tpc[k] \notin {"none", "create", "ended"}

(* The lock is coming: the thread has no window yet.                        *)
Coming == \E k \in LockIds : tpc[k] = "create"

(* The lock is going: the key has been posted, and the window is still      *)
(* there.                                                                   *)
Going ==
    \E k \in LockIds : \/ tpc[k] \in {"unclip", "show", "destroy"}
                       \/ HasQueue(k) /\ tpc[k] # "end" /\ keys[k] > 0

Command ==
    /\ cmd = "idle" /\ ncmds < MaxCommands
    /\ ncmds' = ncmds + 1
    /\ hasty' = IF Coming \/ Going THEN "yes" ELSE hasty
    /\ UNCHANGED nkeys

(* LockMachine: dlg.m_hWnd is looked at.  (It is never -1.)                 *)
LockTest ==
    /\ Command /\ wanted' = "locked"
    /\ cmd' = IF m_hWnd = 0 THEN "begin" ELSE "idle"
    /\ UNCHANGED <<m_hWnd, threadid, started, threadVars>>

(* _beginthreadex *)
LockBegin ==
    /\ cmd = "begin" /\ cmd' = "idle"
    /\ started' = started + 1 /\ threadid' = started + 1
    /\ tpc' = [tpc EXCEPT ![started + 1] = "create"]
    /\ UNCHANGED <<m_hWnd, keys, taskbar, cursor, ncmds, nkeys, wanted, hasty>>

(* UnlockMachine: the result of PostThreadMessage is not looked at.         *)
Unlock ==
    /\ Command /\ wanted' = "unlocked"
    /\ keys' = IF threadid # 0 /\ HasQueue(threadid)
               THEN [keys EXCEPT ![threadid] = @ + 1] ELSE keys
    /\ UNCHANGED <<m_hWnd, threadid, cmd, started, tpc, taskbar, cursor>>

(* Somebody at the machine presses "a"; the window in front gets it. *)
PressKey(k) ==
    /\ tpc[k] = "loop" /\ nkeys < MaxKeys
    /\ keys' = [keys EXCEPT ![k] = @ + 1]
    /\ nkeys' = nkeys + 1 /\ wanted' = "unlocked"
    /\ UNCHANGED <<m_hWnd, threadid, cmd, started, tpc, taskbar, cursor, ncmds, hasty>>

-----------------------------------------------------------------------------
(* threadLockDlgMain, thread k. *)

Goto(k, from, to) == tpc[k] = from /\ tpc' = [tpc EXCEPT ![k] = to]
Rest == UNCHANGED <<threadid, cmd, started, ncmds, nkeys, wanted, hasty>>

Create(k) ==
    /\ Goto(k, "create", "hide") /\ m_hWnd' = k
    /\ Rest /\ UNCHANGED <<keys, taskbar, cursor>>

HideTaskbar(k) ==
    /\ Goto(k, "hide", "clip") /\ taskbar' = "hidden"
    /\ Rest /\ UNCHANGED <<m_hWnd, keys, cursor>>

Clip(k) ==
    /\ Goto(k, "clip", "loop") /\ cursor' = "clipped"
    /\ Rest /\ UNCHANGED <<m_hWnd, keys, taskbar>>

(* Slip: any message ends the loop. *)
GetAny(k) ==
    /\ Goto(k, "loop", "unclip") /\ keys' = [keys EXCEPT ![k] = @ - 1]
    /\ Rest /\ UNCHANGED <<m_hWnd, taskbar, cursor>>

(* GetMessage gives the key. *)
GetKey(k) ==
    /\ keys[k] > 0 /\ Goto(k, "loop", "unclip")
    /\ keys' = [keys EXCEPT ![k] = @ - 1]
    /\ Rest /\ UNCHANGED <<m_hWnd, taskbar, cursor>>

Unclip(k) ==
    /\ Goto(k, "unclip", "show") /\ cursor' = "free"
    /\ Rest /\ UNCHANGED <<m_hWnd, keys, taskbar>>

(* Slip: SW_HIDE once more. *)
HideAgain(k) ==
    /\ Goto(k, "show", "destroy") /\ taskbar' = "hidden"
    /\ Rest /\ UNCHANGED <<m_hWnd, keys, cursor>>

ShowTaskbar(k) ==
    /\ Goto(k, "show", "destroy") /\ taskbar' = "shown"
    /\ Rest /\ UNCHANGED <<m_hWnd, keys, cursor>>

(* Slip: the window is not destroyed by its thread. *)
DestroyNot(k) ==
    /\ Goto(k, "destroy", "end")
    /\ Rest /\ UNCHANGED <<m_hWnd, keys, taskbar, cursor>>

(* dlg.DestroyWindow: NULL again.  If the window is another thread's it is  *)
(* not destroyed, and m_hWnd may be left or be set to NULL all the same.    *)
DestroyWindow(k) ==
    /\ Goto(k, "destroy", "end")
    /\ m_hWnd' \in IF m_hWnd = k THEN {0} ELSE {0, m_hWnd}
    /\ Rest /\ UNCHANGED <<keys, taskbar, cursor>>

(* _endthreadex: what is in the queue goes with it. *)
EndThread(k) ==
    /\ Goto(k, "end", "ended") /\ keys' = [keys EXCEPT ![k] = 0]
    /\ Rest /\ UNCHANGED <<m_hWnd, taskbar, cursor>>

Thread(k) ==
    \/ Create(k) \/ HideTaskbar(k) \/ Clip(k) \/ GetKey(k)
    \/ Unclip(k) \/ ShowTaskbar(k) \/ DestroyWindow(k) \/ EndThread(k)

-----------------------------------------------------------------------------
LockNext ==
    \/ LockTest \/ LockBegin \/ Unlock
    \/ \E k \in LockIds : Thread(k) \/ PressKey(k)

LockSpec == LockInit /\ [][LockNext]_lockVars

(* Threads are scheduled and a command that has begun ends; nobody has to   *)
(* send a command or to press a key.                                        *)
LockFairness == WF_lockVars(LockBegin) /\ \A k \in LockIds : WF_lockVars(Thread(k))

LockFairSpec == LockSpec /\ LockFairness

-----------------------------------------------------------------------------
(* When no lock thread is left the machine is as it was: the task bar, the  *)
(* cursor, and m_hWnd, so that the next LockMachine is not ignored.  This   *)
(* is so even if several threads have locked the machine at the same time   *)
(* over the one dlg.                                                        *)
Restored ==
    (\A k \in LockIds : tpc[k] \in {"none", "ended"}) =>
        taskbar = "shown" /\ cursor = "free" /\ m_hWnd = 0

(* The machine comes to do what it was told last, unless a command was run  *)
(* while the lock was coming or going.  (Two LockMachine in a row may start *)
(* two threads, and only the second can be unlocked from afar.)             *)
FollowsLast ==
    /\ (wanted = "locked" /\ hasty = "no") ~>
           (wanted # "locked" \/ hasty = "yes" \/ (taskbar = "hidden" /\ cursor = "clipped"))
    /\ (wanted = "unlocked" /\ hasty = "no") ~>
           (wanted # "unlocked" \/ hasty = "yes" \/ (taskbar = "shown" /\ cursor = "free"))
=============================================================================
