----------------------------- MODULE WatchDialog -----------------------------
(***************************************************************************)
(* Watching the other machine's screen and moving its mouse: the dialog    *)
(* CWatchDialog (RemoteClient/CWatchDialog.cpp), the thread that asks for  *)
(* pictures while the dialog is open (StartWatchScreen, threadWatchScreen  *)
(* in ClientController.cpp), the network thread, and MouseEvent and        *)
(* SendScreen on the server (RemoteCtrl/Command.h).                        *)
(*                                                                         *)
(* A dialog and its thread have the number of the StartWatchScreen that    *)
(* made them.  All requests go through the network thread's one queue, in  *)
(* the order in which they are posted (see RemoteSession).  When it cannot *)
(* connect it shows a box, whose message loop throws away what is posted.  *)
(* A point is one coordinate; the dialog has points left of 0 and from     *)
(* PictureWidth on, which are not on the picture.                          *)
(* The picture control has no SS_NOTIFY: it gives the mouse to the dialog, *)
(* and OnStnClickedWatch is not called.                                    *)
(***************************************************************************)
EXTENDS Integers, Sequences, SequencesExt, FiniteSets

CONSTANTS
    PictureWidth,  \* the width of the control the picture is shown in
    Widths,        \* the widths the other machine's screen may have
    Points,        \* where the user's mouse may be
    MaxOpens,      \* bound: how often the dialog is opened
    MaxPictures,   \* bound: the requests for a picture in the queue
    MaxEvents,     \* bound: the other requests in the queue
    MaxFaults      \* bound: how many requests fail or get no picture, and how often
                   \* the other screen's width changes

ASSUME WatchAssumption ==
    /\ PictureWidth \in Nat \ {0}
    /\ Widths \subseteq Nat \ {0} /\ Widths # {}
    /\ Points \subseteq Int
    /\ MaxOpens \in Nat /\ MaxPictures \in Nat \ {0} /\ MaxEvents \in Nat
    /\ MaxFaults \in Nat

VARIABLES
    mpc,          \* the window's thread: "idle", or in StartWatchScreen: "create",
                  \* "open" (in the dialog's message loop), "close", "wait"
    m_isClosed,   \* "yes" or "no"
    opened,       \* how often StartWatchScreen was called
    dlg,          \* the window of m_watchDlg: its number, 0 for NULL
    tpc,          \* tpc[k]: the thread k: "none", "test", "post" or "ended"
    m_nObjWidth,  \* the width of the last picture, -1 before the first
    queue,        \* the requests posted to the network thread
    reply,        \* what it has got and is about to show, or the box that it shows
    screen,       \* the width of the other machine's screen
    held,         \* the buttons of its mouse that are down
    button,       \* the button that the user uses (it never changes: no step has to do
                  \* with both),
    mouse,        \* which is "up" (or "clicked", if a double click may follow), "down"
                  \* or, down in a double click, "double"
    missed,       \* history: "yes" if its last transition was not sent
    faults,       \* how often a request failed, or the width changed
    late          \* history: "yes" once the wait for a thread timed out

mainVars   == <<mpc, m_isClosed, opened, dlg>>
serverVars == <<screen, held>>
userVars   == <<button, mouse, missed>>
vars == <<mainVars, tpc, m_nObjWidth, queue, reply, serverVars, userVars, faults, late>>

Opens == 1..MaxOpens
Buttons == {"left", "right"}

(* What the user does to a button: a press soon after a press and release   *)
(* is a double click.                                                       *)
Transitions == {"down", "double", "up"}

(* An event's place, with the width that was known then. *)
Places == [at : Points, width : Widths]

Requests ==
    [cmd : {"screen"}, to : 0..MaxOpens] \cup [cmd : {"lock"}] \cup
    [cmd : {"mouse"}, nButton : {0, 1, 8}, nAction : 0..3, ptXY : Int, for : Places]

NoReply == [kind |-> "none"]
Other   == [kind |-> "other"]
Box     == [kind |-> "box"]

TypeOK ==
    /\ mpc \in {"idle", "create", "open", "close", "wait"} /\ m_isClosed \in {"yes", "no"}
    /\ opened \in 0..MaxOpens /\ dlg \in 0..opened /\ (dlg # 0 <=> mpc = "open")
    /\ tpc \in [Opens -> {"none", "test", "post", "ended"}]
    /\ m_nObjWidth \in Widths \cup {-1} /\ screen \in Widths
    /\ queue \in Seq(Requests)
    /\ reply \in {NoReply, Other, Box}
               \cup [kind : {"picture"}, to : 0..MaxOpens, width : Widths]
    /\ held \subseteq Buttons \cup {"middle"}
    /\ button \in Buttons /\ mouse \in {"up", "clicked", "down", "double"} /\ missed \in {"yes", "no"}
    /\ faults \in 0..MaxFaults /\ late \in {"yes", "no"}

Init ==
    /\ mpc = "idle" /\ m_isClosed = "yes" /\ opened = 0 /\ dlg = 0
    /\ tpc = [k \in Opens |-> "none"] /\ m_nObjWidth = -1
    /\ queue = <<>> /\ reply = NoReply
    /\ screen \in Widths /\ held = {}
    /\ button \in Buttons /\ mouse = "up" /\ missed = "no"
    /\ faults = 0 /\ late = "no"

-----------------------------------------------------------------------------
(* StartWatchScreen, on the window's thread. *)

Rest == UNCHANGED <<m_nObjWidth, queue, reply, serverVars, userVars, faults>>

(* m_isClosed is reset, and the thread is started. *)
StartWatchScreen ==
    /\ mpc = "idle" /\ opened < MaxOpens
    /\ mpc' = "create" /\ m_isClosed' = "no" /\ opened' = opened + 1
    /\ tpc' = [tpc EXCEPT ![opened + 1] = "test"]
    /\ Rest /\ UNCHANGED <<dlg, late>>

(* DoModal creates the window; *)
CreateDialog ==
    /\ mpc = "create" /\ mpc' = "open" /\ dlg' = opened
    /\ Rest /\ UNCHANGED <<m_isClosed, opened, tpc, late>>

(* and destroys it when the user closes it (the key Enter does not: OnOK).  *)
CloseDialog ==
    /\ mpc = "open" /\ mpc' = "close" /\ dlg' = 0
    /\ Rest /\ UNCHANGED <<m_isClosed, opened, tpc, late>>

(* Slip: the thread is not told. *)
StillOpen == "no"

(* m_isClosed = true; *)
Closed == "yes"

SetClosed ==
    /\ mpc = "close" /\ mpc' = "wait" /\ m_isClosed' = Closed
    /\ Rest /\ UNCHANGED <<opened, dlg, tpc, late>>

(* Slip: the thread is not waited for. *)
WaitNot == mpc = "wait" /\ UNCHANGED late

(* WaitForSingleObject for half a second: the thread has ended (its handle  *)
(* may then be closed, and the wait fail), or the time is up.               *)
Wait ==
    /\ mpc = "wait"
    /\ \/ tpc[opened] = "ended" /\ UNCHANGED late
       \/ tpc[opened] # "ended" /\ late' = "yes"

WaitReturns ==
    /\ Wait /\ mpc' = "idle"
    /\ Rest /\ UNCHANGED <<m_isClosed, opened, dlg, tpc>>

-----------------------------------------------------------------------------
(* threadWatchScreen, thread k.  (isFull is always FALSE: nothing calls     *)
(* SetImageStatus, so that a request does not wait for the one before.)     *)

WatchTest(k) ==
    /\ tpc[k] = "test"
    /\ tpc' = [tpc EXCEPT ![k] = IF m_isClosed = "yes" THEN "ended" ELSE "post"]
    /\ Rest /\ UNCHANGED <<mainVars, late>>

(* How many requests of the kinds cmds are in the queue. *)
InQueue(cmds) == Len(SelectSeq(queue, LAMBDA q : q.cmd \in cmds))

(* Slip: the thread asked for the window when it was started. *)
FirstWindow == 0

(* m_watchDlg.GetSafeHwnd() *)
Window == dlg

WatchPost(k) ==
    /\ tpc[k] = "post" /\ InQueue({"screen"}) < MaxPictures
    /\ queue' = Append(queue, [cmd |-> "screen", to |-> Window])
    /\ tpc' = [tpc EXCEPT ![k] = "test"]
    /\ UNCHANGED <<mainVars, m_nObjWidth, reply, serverVars, userVars, faults, late>>

Watch(k) == WatchTest(k) \/ WatchPost(k)

-----------------------------------------------------------------------------
(* The dialog's handlers. *)

(* Integer division of the code, which rounds towards 0. *)
Div(a, b) == IF a < 0 THEN -((-a) \div b) ELSE a \div b

UserPoint2RemoteScreenPoint(p) == Div(p * m_nObjWidth, PictureWidth)

(* Slip: a double click is sent as one, as for the right button. *)
EventDouble(kind) ==
    CASE kind = <<"left", "double">>  -> <<0, 1>>
      [] kind = <<"left", "down">>    -> <<0, 2>>
      [] kind = <<"left", "up">>      -> <<0, 3>>
      [] kind = <<"right", "double">> -> <<1, 1>>
      [] kind = <<"right", "down">>   -> <<1, 2>>
      [] kind = <<"right", "up">>     -> <<1, 3>>
      [] kind = <<"none", "move">>    -> <<8, 0>>

(* nButton and nAction, as set by OnLButtonDblClk ... OnMouseMove. *)
Event(kind) ==
    CASE kind \in {<<"left", "down">>, <<"left", "double">>} -> <<0, 2>>
      [] kind = <<"left", "up">>      -> <<0, 3>>
      [] kind = <<"right", "double">> -> <<1, 1>>
      [] kind = <<"right", "down">>   -> <<1, 2>>
      [] kind = <<"right", "up">>     -> <<1, 3>>
      [] kind = <<"none", "move">>    -> <<8, 0>>

(* Slip: events are sent before the width is known. *)
SizeKnownAlways == TRUE

SizeKnown == m_nObjWidth # -1

Post(q) == InQueue({"mouse", "lock"}) < MaxEvents /\ queue' = Append(queue, q)

(* The handler of an event at the point p. *)
OnMouse(kind, p) ==
    IF SizeKnown
    THEN Post([cmd |-> "mouse", nButton |-> Event(kind)[1], nAction |-> Event(kind)[2],
               ptXY |-> UserPoint2RemoteScreenPoint(p),
               for |-> [at |-> p, width |-> m_nObjWidth]])
    ELSE UNCHANGED queue

-----------------------------------------------------------------------------
(* The user. *)

Unseen == <<mainVars, tpc, m_nObjWidth, reply, serverVars, faults, late>>

Held == mouse \in {"down", "double"}

(* The user's button is pressed, or released. *)
Transition(what) ==
    /\ CASE what = "down"   -> ~Held
         [] what = "double" -> mouse = "clicked"
         [] what = "up"     -> Held
    /\ mouse' = IF what # "up" THEN what ELSE IF mouse = "down" THEN "clicked" ELSE "up"
    /\ UNCHANGED button

(* The dialog gets it, and posts it if it knows the width; *)
PressInDialog(what, p) ==
    /\ mpc = "open" /\ Transition(what) /\ OnMouse(<<button, what>>, p)
    /\ missed' = IF SizeKnown THEN "no" ELSE "yes"
    /\ UNCHANGED Unseen

(* or it is outside of the dialog, or there is none. *)
PressOutside(what) ==
    /\ Transition(what) /\ missed' = "yes"
    /\ UNCHANGED <<queue, Unseen>>

OnMouseMove(p) ==
    /\ mpc = "open" /\ OnMouse(<<"none", "move">>, p)
    /\ UNCHANGED <<userVars, Unseen>>

(* OnBnClickedBtnLock and OnBnClickedBtnUnlock: see LockMachine. *)
OnBnClicked ==
    /\ mpc = "open" /\ Post([cmd |-> "lock"])
    /\ UNCHANGED <<userVars, Unseen>>

-----------------------------------------------------------------------------
(* The server. *)

(* Where the cursor is put for the request q: SetCursorPos keeps it on the  *)
(* screen.                                                                  *)
Cursor(q) ==
    IF q.ptXY < 0 THEN 0 ELSE IF q.ptXY >= screen THEN screen - 1 ELSE q.ptXY

(* The calls of mouse_event for a button: the case of the double click      *)
(* falls through into that of the click.                                    *)
Injected(nAction) ==
    CASE nAction = 0 -> <<"down", "up">>
      [] nAction = 1 -> <<"down", "up", "down", "up">>
      [] nAction = 2 -> <<"down">>
      [] nAction = 3 -> <<"up">>

(* MouseEvent.  The 8 that the dialog sends for no button is none of the    *)
(* cases: the cursor is set, as for every button, and that is all.          *)
MouseEvent(q) ==
    /\ held' = IF q.nButton \notin 0..2 THEN held
               ELSE LET b == <<"left", "right", "middle">>[q.nButton + 1]
                    IN IF Last(Injected(q.nAction)) = "down" THEN held \cup {b} ELSE held \ {b}
    /\ UNCHANGED screen

RunCommand(q) == IF q.cmd = "mouse" THEN MouseEvent(q) ELSE UNCHANGED serverVars

ChangeScreen ==
    /\ faults < MaxFaults /\ faults' = faults + 1 /\ screen' \in Widths \ {screen}
    /\ UNCHANGED <<mainVars, tpc, m_nObjWidth, queue, reply, held, userVars, late>>

-----------------------------------------------------------------------------
(* The network thread, with the server's part. *)

Take ==
    /\ reply = NoReply /\ queue # <<>> /\ queue' = Tail(queue)
    /\ UNCHANGED <<mainVars, tpc, m_nObjWidth, button, mouse, late>>

Serve ==
    /\ Take
    /\ LET q == Head(queue)
       IN /\ RunCommand(q)
          /\ reply' = IF q.cmd = "screen" THEN [kind |-> "picture", to |-> q.to, width |-> screen]
                                          ELSE Other
    /\ UNCHANGED <<missed, faults>>

(* There is a request about the button in the sequence s. *)
About(s) == \E i \in DOMAIN s : s[i].cmd = "mouse" /\ s[i].nButton \in 0..2

(* The request at the head of the queue is lost. *)
HeadLost == missed' = IF About(<<Head(queue)>>) /\ ~About(Tail(queue)) THEN "yes" ELSE missed

(* The request is not sent, or SendScreen does not make a picture; or there *)
(* is no connection, and AfxMessageBox is called on the network thread.     *)
ServeFails ==
    /\ Take /\ HeadLost /\ faults < MaxFaults /\ faults' = faults + 1
    /\ reply' \in {Other, Box}
    /\ UNCHANGED serverVars

(* The message loop of the box takes a request, and it is gone.             *)
BoxTakes ==
    /\ reply = Box /\ queue # <<>> /\ queue' = Tail(queue) /\ HeadLost
    /\ UNCHANGED <<mainVars, tpc, m_nObjWidth, reply, serverVars, button, mouse, faults, late>>

(* The user closes the box, which is seen once no message is left.          *)
CloseBox ==
    /\ reply = Box /\ queue = <<>> /\ reply' = Other
    /\ UNCHANGED <<mainVars, tpc, m_nObjWidth, queue, serverVars, userVars, faults, late>>

(* OnSendPackAck, if the window to be told is still there; otherwise        *)
(* SendMessage fails, and the packet is nobody's.                           *)
OnSendPackAck ==
    /\ reply \notin {NoReply, Box} /\ reply' = NoReply
    /\ m_nObjWidth' = IF reply.kind = "picture" /\ reply.to = dlg /\ dlg # 0
                      THEN reply.width ELSE m_nObjWidth
    /\ UNCHANGED <<mainVars, tpc, queue, serverVars, userVars, faults, late>>

Network == Serve \/ ServeFails \/ BoxTakes \/ OnSendPackAck

-----------------------------------------------------------------------------
Next ==
    \/ StartWatchScreen \/ CreateDialog \/ CloseDialog \/ SetClosed \/ WaitReturns
    \/ \E k \in Opens : Watch(k)
    \/ \E what \in Transitions, p \in Points : PressInDialog(what, p)
    \/ \E what \in Transitions : PressOutside(what)
    \/ \E p \in Points : OnMouseMove(p)
    \/ OnBnClicked \/ ChangeScreen \/ Network \/ CloseBox

Spec == Init /\ [][Next]_vars

(* The threads are scheduled; the user need do nothing, not even close a    *)
(* box.                                                                     *)
Fairness ==
    /\ WF_vars(CreateDialog \/ SetClosed \/ WaitReturns) /\ WF_vars(Network)
    /\ \A k \in Opens : WF_vars(Watch(k))

FairSpec == Spec /\ Fairness

-----------------------------------------------------------------------------
(* Once what is in the queue has been done the other machine's button is    *)
(* held down exactly while the user holds it, whatever was missed before;   *)
(* unless its last transition was missed (it was outside of the dialog or   *)
(* before the first picture, it could not be sent, or it was thrown away    *)
(* while a box was up, with whatever else was in the queue), or is the      *)
(* right button's double click (after which it is released).                *)
ButtonsFollow ==
    missed = "no" /\ ~About(queue) =>
        held = IF Held /\ <<button, mouse>> # <<"right", "double">> THEN {button} ELSE {}

(* The cursor will be put where on the other machine's screen the user saw  *)
(* the mouse, if the screen still is as wide as the picture was; beside the *)
(* picture, where the screen ends.                                          *)
CursorFollows ==
    \A i \in DOMAIN queue :
        LET q == queue[i]
            x == q.for.at * screen
        IN q.cmd = "mouse" /\ q.for.width = screen =>
               IF x < 0 THEN Cursor(q) = 0
               ELSE IF q.for.at >= PictureWidth THEN Cursor(q) = screen - 1
               ELSE Cursor(q) * PictureWidth <= x /\ x < (Cursor(q) + 1) * PictureWidth

(* The other machine's mouse does what the user's does. *)
MouseFollows == ButtonsFollow /\ CursorFollows

(* One thread asks for pictures, unless the half second was not enough for  *)
(* a thread to end: the next StartWatchScreen resets m_isClosed, and the    *)
(* thread may never have seen it set.                                       *)
OneWatcher ==
    late = "no" => Cardinality({k \in Opens : tpc[k] \in {"test", "post"}}) <= 1

(* All threads end once the dialog is closed, or else it is opened once     *)
(* more.                                                                    *)
WatcherEnds ==
    mpc \in {"close", "wait"} ~> (mpc = "create" \/ \A k \in Opens : tpc[k] \in {"none", "ended"})

BoxesAreClosed == []<>(reply # Box)

(* While the dialog is open the width comes to be that of the screen,       *)
(* after it has been opened and after the screen has changed; if the user   *)
(* closes the box about a failed connect (ClientSocket.cpp, line 98), until *)
(* when no request for a picture is sent.                                   *)
WidthFollows == BoxesAreClosed => (mpc = "open" ~> (mpc # "open" \/ m_nObjWidth = screen))
=============================================================================
