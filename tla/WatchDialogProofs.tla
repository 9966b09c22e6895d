-------------------------- MODULE WatchDialogProofs --------------------------
(***************************************************************************)
(* Proofs about WatchDialog, for every number of dialogs, every picture    *)
(* and screen width, every point, and any number of faults.                *)
(*                                                                         *)
(* The argument about threads: while no wait has timed out, the threads of *)
(* all dialogs before the present one have ended.  The argument about the  *)
(* buttons: what is still to be done to a button is in the queue in order, *)
(* so that only the last request about it matters, and that one is what    *)
(* the user did last, unless this was missed; a request that is lost while *)
(* another about the button is behind it does no harm.                     *)
(***************************************************************************)
EXTENDS WatchDialog, SequenceTheorems, FiniteSetTheorems, TLAPS

(* Threads are started in order; those of the dialogs before have ended.    *)
Predecessors ==
    /\ \A k \in Opens : k > opened => tpc[k] = "none"
    /\ mpc # "idle" => opened > 0
    /\ late = "no" => \A k \in Opens :
          k < opened \/ (k = opened /\ mpc = "idle") => tpc[k] = "ended"

OnButton(q) == q.cmd = "mouse" /\ q.nButton \in 0..2

(* The other machine's button should be down. *)
ShouldBeDown == Held /\ <<button, mouse>> # <<"right", "double">>

(* The last request about a button. *)
LastOne(i) ==
    /\ OnButton(queue[i])
    /\ \A j \in DOMAIN queue : j > i => ~OnButton(queue[j])

ButtonInv ==
    /\ held \subseteq {button}
    /\ \A i \in DOMAIN queue : OnButton(queue[i]) =>
          queue[i].nButton = (IF button = "left" THEN 0 ELSE 1)
    /\ missed = "no" => \A i \in DOMAIN queue : LastOne(i) =>
          (ShouldBeDown <=> queue[i].nAction = 2)
    /\ \A i \in DOMAIN queue : OnButton(queue[i]) => queue[i].nAction \in 1..3

(* A request's point is the one its event was at, scaled once. *)
Placed ==
    \A i \in DOMAIN queue : queue[i].cmd = "mouse" =>
        queue[i].ptXY = Div(queue[i].for.at * queue[i].for.width, PictureWidth)

IInv == TypeOK /\ Predecessors /\ ButtonInv /\ ButtonsFollow /\ Placed

-----------------------------------------------------------------------------
(* Every step leaves the queue alone, appends a request, or takes one.      *)

LEMMA AppendIndex ==
  ASSUME NEW S, NEW s \in Seq(S), NEW e \in S
  PROVE  /\ Append(s, e) \in Seq(S)
         /\ DOMAIN Append(s, e) = 1..(Len(s) + 1)
         /\ DOMAIN s = 1..Len(s)
         /\ \A i \in DOMAIN s : Append(s, e)[i] = s[i]
         /\ Append(s, e)[Len(s) + 1] = e
         /\ Len(s) \in Nat
BY AppendProperties, LenProperties

LEMMA TailIndex ==
  ASSUME NEW S, NEW s \in Seq(S), s # <<>>
  PROVE  /\ Tail(s) \in Seq(S)
         /\ Head(s) = s[1] /\ Head(s) \in S
         /\ DOMAIN s = 1..Len(s) /\ Len(s) \in Nat \ {0}
         /\ DOMAIN Tail(s) = 1..(Len(s) - 1)
         /\ \A i \in 1..(Len(s) - 1) : Tail(s)[i] = s[i + 1]
BY HeadTailProperties, LenProperties, EmptySeq

LEMMA DivIsInt ==
  ASSUME NEW a \in Int, NEW b \in Nat \ {0}
  PROVE  Div(a, b) \in Int
BY DEF Div

LEMMA MouseRequest ==
  ASSUME TypeOK, SizeKnown, NEW kind, NEW p \in Points,
         Event(kind) \in {0, 1, 8} \X (0..3)
  PROVE  [cmd |-> "mouse", nButton |-> Event(kind)[1], nAction |-> Event(kind)[2],
          ptXY |-> UserPoint2RemoteScreenPoint(p),
          for |-> [at |-> p, width |-> m_nObjWidth]] \in Requests
<1>1. m_nObjWidth \in Widths /\ m_nObjWidth \in Int /\ p \in Int
  BY WatchAssumption DEF TypeOK, SizeKnown
<1>2. UserPoint2RemoteScreenPoint(p) \in Int
  <2>1. p * m_nObjWidth \in Int
    BY <1>1
  <2> QED BY <2>1, DivIsInt, WatchAssumption DEF UserPoint2RemoteScreenPoint
<1>3. [at |-> p, width |-> m_nObjWidth] \in Places
  BY <1>1 DEF Places
<1> QED BY <1>2, <1>3 DEF Requests

LEMMA EventsOfButtons ==
  ASSUME NEW b \in Buttons, NEW what \in Transitions
  PROVE  /\ Event(<<b, what>>) \in {0, 1, 8} \X (0..3)
         /\ Event(<<b, what>>)[1] = (IF b = "left" THEN 0 ELSE 1)
         /\ Event(<<b, what>>)[2] \in 1..3
         /\ Event(<<b, what>>)[2] = 2 <=> what # "up" /\ <<b, what>> # <<"right", "double">>
<1>1. CASE b = "left" /\ what \in {"down", "double"}
  BY <1>1 DEF Event
<1>2. CASE b = "left" /\ what = "up"
  BY <1>2 DEF Event
<1>3. CASE b = "right" /\ what = "down"
  BY <1>3 DEF Event
<1>4. CASE b = "right" /\ what = "double"
  BY <1>4 DEF Event
<1>5. CASE b = "right" /\ what = "up"
  BY <1>5 DEF Event
<1> QED BY <1>1, <1>2, <1>3, <1>4, <1>5 DEF Buttons, Transitions

LEMMA EventOfMove == Event(<<"none", "move">>) = <<8, 0>>
BY DEF Event

(* mouse_event is called last with "down" for the action 2 alone, of those  *)
(* that the dialog sends.                                                   *)
LEMMA InjectedEnds ==
  ASSUME NEW a \in 1..3
  PROVE  Last(Injected(a)) = "down" <=> a = 2
BY DEF Last, Injected

LEMMA TransitionDoes ==
  ASSUME TypeOK, NEW what \in Transitions, Transition(what)
  PROVE  /\ button' = button /\ button \in Buttons
         /\ mouse' \in {"up", "clicked", "down", "double"}
         /\ Held' <=> what # "up"
         /\ what # "up" => mouse' = what
<1>1. mouse' = (IF what # "up" THEN what ELSE IF mouse = "down" THEN "clicked" ELSE "up")
  BY DEF Transition
<1>2. button' = button /\ button \in Buttons
  BY DEF Transition, TypeOK
<1> QED BY <1>1, <1>2 DEF Held, Transitions

(* What a handler of the dialog posts for an event. *)
LEMMA OnMousePosts ==
  ASSUME TypeOK, NEW kind, NEW p \in Points, OnMouse(kind, p),
         Event(kind) \in {0, 1, 8} \X (0..3)
  PROVE  \/ ~SizeKnown /\ queue' = queue
         \/ /\ SizeKnown
            /\ \E q \in Requests :
                  /\ queue' = Append(queue, q)
                  /\ q.cmd = "mouse"
                  /\ q.nButton = Event(kind)[1] /\ q.nAction = Event(kind)[2]
                  /\ q.ptXY = Div(q.for.at * q.for.width, PictureWidth)
<1>1. CASE ~SizeKnown
  BY <1>1 DEF OnMouse
<1>2. CASE SizeKnown
  <2> DEFINE q == [cmd |-> "mouse", nButton |-> Event(kind)[1], nAction |-> Event(kind)[2],
                   ptXY |-> UserPoint2RemoteScreenPoint(p),
                   for |-> [at |-> p, width |-> m_nObjWidth]]
  <2>1. q \in Requests
    BY <1>2, MouseRequest
  <2>2. queue' = Append(queue, q)
    BY <1>2 DEF OnMouse, Post
  <2>3. q.ptXY = Div(q.for.at * q.for.width, PictureWidth)
    BY DEF UserPoint2RemoteScreenPoint
  <2>4. q.cmd = "mouse" /\ q.nButton = Event(kind)[1] /\ q.nAction = Event(kind)[2]
    OBVIOUS
  <2> HIDE DEF q
  <2> QED BY <1>2, <2>1, <2>2, <2>3, <2>4
<1> QED BY <1>1, <1>2

(* The five ways in which the queue changes, and with it what is done to    *)
(* the other machine's buttons.                                             *)
Keeps   == queue' = queue
Posts   == \E q \in Requests : queue' = Append(queue, q) /\ ~OnButton(q)
              /\ (q.cmd = "mouse" => q.ptXY = Div(q.for.at * q.for.width, PictureWidth))

LEMMA MoveStep ==
  ASSUME TypeOK, NEW p \in Points, OnMouseMove(p)
  PROVE  /\ Keeps \/ Posts
         /\ UNCHANGED <<userVars, Unseen>>
<1>1. OnMouse(<<"none", "move">>, p) /\ UNCHANGED <<userVars, Unseen>>
  BY DEF OnMouseMove
<1>2. Event(<<"none", "move">>) = <<8, 0>>
  BY EventOfMove
<1>3. Event(<<"none", "move">>) \in {0, 1, 8} \X (0..3)
  BY <1>2
<1>4. CASE ~SizeKnown /\ queue' = queue
  BY <1>1, <1>4 DEF Keeps
<1>5. CASE \E q \in Requests :
              /\ queue' = Append(queue, q)
              /\ q.cmd = "mouse"
              /\ q.nButton = Event(<<"none", "move">>)[1]
              /\ q.nAction = Event(<<"none", "move">>)[2]
              /\ q.ptXY = Div(q.for.at * q.for.width, PictureWidth)
  BY <1>1, <1>2, <1>5 DEF Posts, OnButton
<1> QED BY <1>1, <1>3, <1>4, <1>5, OnMousePosts

LEMMA PostsIsSeq ==
  ASSUME TypeOK, Posts
  PROVE  queue' \in Seq(Requests)
BY AppendIndex DEF Posts, TypeOK

-----------------------------------------------------------------------------
(* The types. *)

LEMMA TypeInit == Init => TypeOK
BY WatchAssumption DEF Init, TypeOK, Opens, NoReply, Buttons

LEMMA TypeMain ==
  ASSUME TypeOK, Predecessors,
         StartWatchScreen \/ CreateDialog \/ CloseDialog \/ SetClosed \/ WaitReturns
  PROVE  TypeOK'
<1> USE WatchAssumption DEF TypeOK, Rest, serverVars, userVars
<1>1. UNCHANGED <<m_nObjWidth, queue, reply, screen, held, button, mouse, missed, faults>>
  BY DEF StartWatchScreen, CreateDialog, CloseDialog, SetClosed, WaitReturns
<1>2. /\ mpc' \in {"idle", "create", "open", "close", "wait"} /\ m_isClosed' \in {"yes", "no"}
      /\ opened' \in 0..MaxOpens /\ dlg' \in 0..opened' /\ (dlg' # 0 <=> mpc' = "open")
      /\ late' \in {"yes", "no"}
  <2>1. CASE StartWatchScreen
    BY <2>1 DEF StartWatchScreen
  <2>2. CASE CreateDialog
    BY <2>2 DEF CreateDialog, Predecessors
  <2>3. CASE CloseDialog
    BY <2>3 DEF CloseDialog
  <2>4. CASE SetClosed
    BY <2>4 DEF SetClosed, Closed
  <2>5. CASE WaitReturns
    BY <2>5 DEF WaitReturns, Wait
  <2> QED BY <2>1, <2>2, <2>3, <2>4, <2>5
<1>3. tpc' \in [Opens -> {"none", "test", "post", "ended"}]
  BY DEF StartWatchScreen, CreateDialog, CloseDialog, SetClosed, WaitReturns
<1> QED BY <1>1, <1>2, <1>3

LEMMA TypeWatch ==
  ASSUME TypeOK, NEW k \in Opens, Watch(k)
  PROVE  TypeOK'
<1>1. CASE WatchTest(k)
  <2>1. tpc' \in [Opens -> {"none", "test", "post", "ended"}]
    BY <1>1 DEF WatchTest, TypeOK
  <2> QED BY <1>1, <2>1 DEF WatchTest, TypeOK, Rest, mainVars, serverVars, userVars
<1>2. CASE WatchPost(k)
  <2>1. tpc' \in [Opens -> {"none", "test", "post", "ended"}]
    BY <1>2 DEF WatchPost, TypeOK
  <2>2. [cmd |-> "screen", to |-> Window] \in Requests
    BY WatchAssumption DEF Requests, Window, TypeOK
  <2>3. queue' = Append(queue, [cmd |-> "screen", to |-> Window])
    BY <1>2 DEF WatchPost
  <2>4. queue' \in Seq(Requests)
    BY <2>2, <2>3, AppendIndex DEF TypeOK
  <2> QED BY <1>2, <2>1, <2>4 DEF WatchPost, TypeOK, mainVars, serverVars, userVars
<1> QED BY <1>1, <1>2 DEF Watch

(* What the user's actions leave alone keeps its type. *)
LEMMA TypeUnseen ==
  ASSUME TypeOK, UNCHANGED Unseen, queue' \in Seq(Requests),
         button' \in Buttons, mouse' \in {"up", "clicked", "down", "double"},
         missed' \in {"yes", "no"}
  PROVE  TypeOK'
BY DEF TypeOK, Unseen, mainVars, serverVars

LEMMA TypePress ==
  ASSUME TypeOK, NEW what \in Transitions, NEW p \in Points, PressInDialog(what, p)
  PROVE  TypeOK'
<1>1. /\ Transition(what) /\ OnMouse(<<button, what>>, p) /\ UNCHANGED Unseen
      /\ missed' = IF SizeKnown THEN "no" ELSE "yes"
  BY DEF PressInDialog
<1>2. Event(<<button, what>>) \in {0, 1, 8} \X (0..3)
  BY EventsOfButtons DEF TypeOK
<1>3. queue' = queue \/ \E q \in Requests : queue' = Append(queue, q)
  BY <1>1, <1>2, OnMousePosts
<1>4. queue' \in Seq(Requests)
  BY <1>3, AppendIndex DEF TypeOK
<1> QED BY <1>1, <1>4, TransitionDoes, TypeUnseen

LEMMA TypeOutside ==
  ASSUME TypeOK, NEW what \in Transitions, PressOutside(what)
  PROVE  TypeOK'
<1>1. Transition(what) /\ missed' = "yes" /\ queue' = queue /\ UNCHANGED Unseen
  BY DEF PressOutside
<1>2. queue' \in Seq(Requests)
  BY <1>1 DEF TypeOK
<1> QED BY <1>1, <1>2, TransitionDoes, TypeUnseen

LEMMA TypeMoveOrClick ==
  ASSUME TypeOK, (\E p \in Points : OnMouseMove(p)) \/ OnBnClicked
  PROVE  TypeOK'
<1>1. ASSUME NEW p \in Points, OnMouseMove(p) PROVE TypeOK'
  <2>1. (Keeps \/ Posts) /\ UNCHANGED <<userVars, Unseen>>
    BY <1>1, MoveStep
  <2>2. queue' \in Seq(Requests)
    BY <2>1, PostsIsSeq DEF Keeps, TypeOK
  <2> QED BY <2>1, <2>2, TypeUnseen DEF userVars, TypeOK
<1>2. CASE OnBnClicked
  <2>1. queue' = Append(queue, [cmd |-> "lock"]) /\ UNCHANGED <<userVars, Unseen>>
    BY <1>2 DEF OnBnClicked, Post
  <2>2. [cmd |-> "lock"] \in Requests
    BY DEF Requests
  <2>3. queue' \in Seq(Requests)
    BY <2>1, <2>2, AppendIndex DEF TypeOK
  <2> QED BY <2>1, <2>3, TypeUnseen DEF userVars, TypeOK
<1> QED BY <1>1, <1>2

(* A request for a picture says for which window. *)
LEMMA PictureRequest ==
  ASSUME NEW q \in Requests, q.cmd = "screen"
  PROVE  q.to \in 0..MaxOpens
BY DEF Requests

(* What Serve does to the other machine's buttons. *)
LEMMA MouseEventDoes ==
  ASSUME TypeOK, NEW q \in Requests, RunCommand(q)
  PROVE  /\ held' \subseteq Buttons \cup {"middle"} /\ screen' = screen
         /\ ~OnButton(q) => held' = held
         /\ OnButton(q) => \E b \in Buttons \cup {"middle"} :
               /\ b = <<"left", "right", "middle">>[q.nButton + 1]
               /\ held' = IF Last(Injected(q.nAction)) = "down" THEN held \cup {b}
                                                                ELSE held \ {b}
<1>1. CASE q.cmd # "mouse"
  BY <1>1 DEF RunCommand, serverVars, OnButton, TypeOK
<1>2. CASE q.cmd = "mouse" /\ q.nButton \notin 0..2
  BY <1>2 DEF RunCommand, MouseEvent, OnButton, TypeOK
<1>3. CASE q.cmd = "mouse" /\ q.nButton \in 0..2
  <2> DEFINE b == <<"left", "right", "middle">>[q.nButton + 1]
  <2>1. b \in Buttons \cup {"middle"}
    BY <1>3 DEF Buttons
  <2>2. /\ screen' = screen
        /\ held' = IF Last(Injected(q.nAction)) = "down" THEN held \cup {b} ELSE held \ {b}
    BY <1>3 DEF RunCommand, MouseEvent
  <2> HIDE DEF b
  <2>3. held' \subseteq Buttons \cup {"middle"}
    BY <2>1, <2>2 DEF TypeOK
  <2> QED BY <1>3, <2>1, <2>2, <2>3 DEF OnButton, b
<1> QED BY <1>1, <1>2, <1>3

LEMMA TypeServe ==
  ASSUME TypeOK, Serve \/ ServeFails \/ BoxTakes
  PROVE  TypeOK'
<1>1. /\ queue # <<>> /\ queue' = Tail(queue)
      /\ UNCHANGED <<mainVars, tpc, m_nObjWidth, button, mouse, late>>
  BY DEF Serve, ServeFails, BoxTakes, Take
<1>2. queue' \in Seq(Requests) /\ Head(queue) \in Requests
  BY <1>1, TailIndex DEF TypeOK
<1>3. CASE Serve
  <2>1. RunCommand(Head(queue)) /\ UNCHANGED <<missed, faults>>
        /\ reply' = IF Head(queue).cmd = "screen"
                    THEN [kind |-> "picture", to |-> Head(queue).to, width |-> screen]
                    ELSE Other
    BY <1>3 DEF Serve
  <2>2. held' \subseteq Buttons \cup {"middle"} /\ screen' = screen
    BY <1>2, <2>1, MouseEventDoes
  <2>3. reply' \in {NoReply, Other, Box}
                 \cup [kind : {"picture"}, to : 0..MaxOpens, width : Widths]
    BY <1>2, <2>1, PictureRequest DEF TypeOK
  <2> QED BY <1>1, <1>2, <2>1, <2>2, <2>3 DEF TypeOK, mainVars
<1>4. CASE ServeFails
  <2>1. /\ faults < MaxFaults /\ faults' = faults + 1 /\ reply' \in {Other, Box}
        /\ UNCHANGED <<screen, held>> /\ missed' \in {"yes", missed}
    BY <1>4 DEF ServeFails, HeadLost, serverVars
  <2> QED BY <1>1, <1>2, <2>1, WatchAssumption DEF TypeOK, mainVars
<1>5. CASE BoxTakes
  <2>1. UNCHANGED <<faults, reply, screen, held>> /\ missed' \in {"yes", missed}
    BY <1>5 DEF BoxTakes, HeadLost, serverVars
  <2> QED BY <1>1, <1>2, <2>1 DEF TypeOK, mainVars
<1> QED BY <1>3, <1>4, <1>5

LEMMA TypeAck ==
  ASSUME TypeOK, OnSendPackAck \/ ChangeScreen \/ CloseBox
  PROVE  TypeOK'
<1>1. CASE OnSendPackAck
  <2>1. m_nObjWidth' \in Widths \cup {-1}
    <3>1. CASE reply.kind = "picture"
      <4>1. reply \in [kind : {"picture"}, to : 0..MaxOpens, width : Widths]
        BY <3>1 DEF TypeOK, NoReply, Other, Box
      <4> QED BY <1>1, <4>1 DEF OnSendPackAck, TypeOK
    <3>2. CASE reply.kind # "picture"
      BY <1>1, <3>2 DEF OnSendPackAck, TypeOK
    <3> QED BY <3>1, <3>2
  <2> QED BY <1>1, <2>1 DEF OnSendPackAck, TypeOK, mainVars, serverVars, userVars
<1>2. CASE ChangeScreen
  BY <1>2, WatchAssumption DEF ChangeScreen, TypeOK, mainVars, userVars
<1>3. CASE CloseBox
  BY <1>3 DEF CloseBox, TypeOK, mainVars, serverVars, userVars
<1> QED BY <1>1, <1>2, <1>3

LEMMA TypeStep == TypeOK /\ Predecessors /\ [Next]_vars => TypeOK'
<1> SUFFICES ASSUME TypeOK, Predecessors, [Next]_vars PROVE TypeOK'
  OBVIOUS
<1>1. CASE StartWatchScreen \/ CreateDialog \/ CloseDialog \/ SetClosed \/ WaitReturns
  BY <1>1, TypeMain
<1>2. ASSUME NEW k \in Opens, Watch(k) PROVE TypeOK'
  BY <1>2, TypeWatch
<1>3. ASSUME NEW what \in Transitions, NEW p \in Points, PressInDialog(what, p) PROVE TypeOK'
  BY <1>3, TypePress
<1>4. ASSUME NEW what \in Transitions, PressOutside(what) PROVE TypeOK'
  BY <1>4, TypeOutside
<1>5. CASE (\E p \in Points : OnMouseMove(p)) \/ OnBnClicked
  BY <1>5, TypeMoveOrClick
<1>6. CASE Network \/ ChangeScreen \/ CloseBox
  BY <1>6, TypeServe, TypeAck DEF Network
<1>7. CASE UNCHANGED vars
  BY <1>7 DEF vars, mainVars, serverVars, userVars, TypeOK
<1> QED BY <1>1, <1>2, <1>3, <1>4, <1>5, <1>6, <1>7 DEF Next

-----------------------------------------------------------------------------
(* The threads. *)

LEMMA PredecessorsStep == TypeOK /\ Predecessors /\ [Next]_vars => Predecessors'
<1> SUFFICES ASSUME TypeOK, Predecessors, [Next]_vars PROVE Predecessors'
  OBVIOUS
<1> USE WatchAssumption DEF Opens
<1>1. CASE StartWatchScreen
  BY <1>1 DEF StartWatchScreen, Predecessors, TypeOK
<1>2. CASE CreateDialog \/ CloseDialog \/ SetClosed
  BY <1>2 DEF CreateDialog, CloseDialog, SetClosed, Predecessors, TypeOK
<1>3. CASE WaitReturns
  BY <1>3 DEF WaitReturns, Wait, Predecessors, TypeOK
<1>4. ASSUME NEW k \in Opens, Watch(k) PROVE Predecessors'
  BY <1>4 DEF Watch, WatchTest, WatchPost, mainVars, Predecessors, TypeOK
<1>5. ASSUME UNCHANGED <<mainVars, tpc, late>> PROVE Predecessors'
  BY <1>5 DEF mainVars, Predecessors
<1>6. ASSUME NEW what \in Transitions, PressOutside(what) PROVE Predecessors'
  BY <1>5, <1>6 DEF PressOutside, Unseen
<1>7. ASSUME NEW what \in Transitions, NEW p \in Points, PressInDialog(what, p)
      PROVE  Predecessors'
  BY <1>5, <1>7 DEF PressInDialog, Unseen
<1>8. CASE (\E p \in Points : OnMouseMove(p)) \/ OnBnClicked
  BY <1>5, <1>8 DEF OnMouseMove, OnBnClicked, Unseen
<1>9. CASE Network \/ ChangeScreen \/ CloseBox \/ UNCHANGED vars
  BY <1>5, <1>9 DEF Network, Serve, ServeFails, Take, BoxTakes, OnSendPackAck, ChangeScreen,
                    CloseBox, vars
<1> QED BY <1>1, <1>2, <1>3, <1>4, <1>6, <1>7, <1>8, <1>9 DEF Next

LEMMA OneAtMost == TypeOK /\ Predecessors => OneWatcher
<1> SUFFICES ASSUME TypeOK, Predecessors, late = "no"
             PROVE  Cardinality({k \in Opens : tpc[k] \in {"test", "post"}}) <= 1
  BY DEF OneWatcher
<1>1. {k \in Opens : tpc[k] \in {"test", "post"}} \in SUBSET {opened}
  BY WatchAssumption DEF Predecessors, TypeOK, Opens
<1>2. IsFiniteSet({opened}) /\ Cardinality({opened}) = 1
  BY FS_Singleton
<1>3. \A T \in SUBSET {opened} : Cardinality(T) <= Cardinality({opened})
  BY <1>2, FS_Subset
<1> QED BY <1>1, <1>2, <1>3

-----------------------------------------------------------------------------
(* The buttons and the places. *)

ButtonsAndPlaces == ButtonInv /\ ButtonsFollow /\ Placed

(* Nothing about a button is done or posted. *)
LEMMA PostsOther ==
  ASSUME TypeOK, ButtonsAndPlaces, Keeps \/ Posts, UNCHANGED <<held, button, mouse, missed>>
  PROVE  ButtonsAndPlaces'
<1>1. CASE Keeps
  BY <1>1 DEF Keeps, ButtonsAndPlaces, ButtonInv, ButtonsFollow, Placed, LastOne, ShouldBeDown,
              Held, About
<1>2. CASE Posts
  <2>1. PICK q \in Requests :
           /\ queue' = Append(queue, q) /\ ~OnButton(q)
           /\ q.cmd = "mouse" => q.ptXY = Div(q.for.at * q.for.width, PictureWidth)
    BY <1>2 DEF Posts
  <2>2. /\ DOMAIN queue = 1..Len(queue) /\ Len(queue) \in Nat
        /\ DOMAIN queue' = 1..(Len(queue) + 1)
        /\ \A i \in DOMAIN queue : queue'[i] = queue[i]
        /\ queue'[Len(queue) + 1] = q
    BY <2>1, AppendIndex DEF TypeOK
  <2>3. \A i \in DOMAIN queue' : OnButton(queue'[i]) => i \in DOMAIN queue /\ queue'[i] = queue[i]
    BY <2>1, <2>2
  <2>4. \A i \in DOMAIN queue' : LastOne(i)' => i \in DOMAIN queue /\ LastOne(i)
    BY <2>2, <2>3 DEF LastOne
  <2>5. ShouldBeDown' <=> ShouldBeDown
    BY DEF ShouldBeDown, Held
  <2>6. ButtonInv'
    <3>1. held' \subseteq {button'}
      BY DEF ButtonsAndPlaces, ButtonInv
    <3>2. \A i \in DOMAIN queue' : OnButton(queue'[i]) =>
             /\ queue'[i].nButton = (IF button' = "left" THEN 0 ELSE 1)
             /\ queue'[i].nAction \in 1..3
      BY <2>3 DEF ButtonsAndPlaces, ButtonInv
    <3>3. ASSUME missed' = "no", NEW i \in DOMAIN queue', LastOne(i)'
          PROVE  ShouldBeDown' <=> queue'[i].nAction = 2
      BY <2>2, <2>4, <2>5, <3>3 DEF ButtonsAndPlaces, ButtonInv
    <3> QED BY <3>1, <3>2, <3>3 DEF ButtonInv
  <2>7. About(queue)' <=> About(queue)
    BY <2>2, <2>3 DEF About, OnButton
  <2>8. ButtonsFollow'
    BY <2>7 DEF ButtonsAndPlaces, ButtonsFollow, Held
  <2>9. Placed'
    BY <2>1, <2>2 DEF ButtonsAndPlaces, Placed
  <2> QED BY <2>6, <2>8, <2>9 DEF ButtonsAndPlaces
<1> QED BY <1>1, <1>2

(* A transition that is not sent. *)
LEMMA Misses ==
  ASSUME ButtonsAndPlaces, queue' = queue, missed' = "yes", UNCHANGED <<held, button>>
  PROVE  ButtonsAndPlaces'
BY DEF ButtonsAndPlaces, ButtonInv, ButtonsFollow, Placed

(* A transition that is sent is the last request about the button. *)
LEMMA Sends ==
  ASSUME TypeOK, ButtonsAndPlaces, missed' = "no", UNCHANGED <<held, button>>,
         NEW q \in Requests, queue' = Append(queue, q), q.cmd = "mouse",
         q.nButton = (IF button = "left" THEN 0 ELSE 1), q.nAction \in 1..3,
         q.nAction = 2 <=> ShouldBeDown',
         q.ptXY = Div(q.for.at * q.for.width, PictureWidth)
  PROVE  ButtonsAndPlaces'
<1>1. /\ DOMAIN queue = 1..Len(queue) /\ Len(queue) \in Nat
      /\ DOMAIN queue' = 1..(Len(queue) + 1)
      /\ \A i \in DOMAIN queue : queue'[i] = queue[i]
      /\ queue'[Len(queue) + 1] = q
  BY AppendIndex DEF TypeOK
<1>2. OnButton(q)
  BY DEF OnButton
<1>3. \A i \in DOMAIN queue' : LastOne(i)' => queue'[i] = q
  BY <1>1, <1>2 DEF LastOne
<1>4. ButtonInv'
  BY <1>1, <1>3 DEF ButtonsAndPlaces, ButtonInv
<1>5. About(queue)'
  BY <1>1, <1>2 DEF About, OnButton
<1>6. Placed'
  BY <1>1 DEF ButtonsAndPlaces, Placed
<1> QED BY <1>4, <1>5, <1>6 DEF ButtonsAndPlaces, ButtonsFollow

LEMMA PressStep ==
  ASSUME TypeOK, ButtonsAndPlaces, NEW what \in Transitions, NEW p \in Points,
         PressInDialog(what, p)
  PROVE  ButtonsAndPlaces'
<1>1. /\ Transition(what) /\ OnMouse(<<button, what>>, p) /\ UNCHANGED Unseen
      /\ missed' = IF SizeKnown THEN "no" ELSE "yes"
  BY DEF PressInDialog
<1>2. /\ button' = button /\ button \in Buttons
      /\ Held' <=> what # "up"
      /\ what # "up" => mouse' = what
  BY <1>1, TransitionDoes
<1>3. held' = held
  BY <1>1 DEF Unseen, serverVars
<1>4. /\ Event(<<button, what>>) \in {0, 1, 8} \X (0..3)
      /\ Event(<<button, what>>)[1] = (IF button = "left" THEN 0 ELSE 1)
      /\ Event(<<button, what>>)[2] \in 1..3
      /\ Event(<<button, what>>)[2] = 2 <=> what # "up" /\ <<button, what>> # <<"right", "double">>
  BY <1>2, EventsOfButtons
<1>5. CASE ~SizeKnown /\ queue' = queue
  BY <1>1, <1>2, <1>3, <1>5, Misses
<1>6. ASSUME SizeKnown, NEW q \in Requests, queue' = Append(queue, q), q.cmd = "mouse",
             q.nButton = Event(<<button, what>>)[1], q.nAction = Event(<<button, what>>)[2],
             q.ptXY = Div(q.for.at * q.for.width, PictureWidth)
      PROVE  ButtonsAndPlaces'
  <2>1. q.nAction = 2 <=> ShouldBeDown'
    BY <1>2, <1>4, <1>6 DEF ShouldBeDown
  <2> QED BY <1>1, <1>2, <1>3, <1>4, <1>6, <2>1, Sends
<1> QED BY <1>1, <1>4, <1>5, <1>6, OnMousePosts

(* A request is taken from the queue and done, or lost. *)
LEMMA ServeStep ==
  ASSUME TypeOK, ButtonsAndPlaces, Serve \/ ServeFails \/ BoxTakes
  PROVE  ButtonsAndPlaces'
<1> DEFINE q == Head(queue)
<1>1. /\ queue # <<>> /\ queue' = Tail(queue) /\ UNCHANGED <<button, mouse>>
      /\ missed' \in {"yes", missed}
  BY DEF Serve, ServeFails, BoxTakes, HeadLost, Take
<1>2. /\ q = queue[1] /\ q \in Requests
      /\ DOMAIN queue = 1..Len(queue) /\ Len(queue) \in Nat \ {0}
      /\ DOMAIN queue' = 1..(Len(queue) - 1)
      /\ \A i \in DOMAIN queue' : queue'[i] = queue[i + 1] /\ i + 1 \in DOMAIN queue
  <2>1. queue \in Seq(Requests)
    BY DEF TypeOK
  <2> QED BY <1>1, <2>1, TailIndex
<1> HIDE DEF q
<1>3. \A i \in DOMAIN queue' : LastOne(i)' => LastOne(i + 1)
  <2> SUFFICES ASSUME NEW i \in DOMAIN queue', LastOne(i)',
                      NEW j \in DOMAIN queue, j > i + 1
               PROVE  OnButton(queue[i + 1]) /\ ~OnButton(queue[j])
    BY <1>2 DEF LastOne
  <2>1. j - 1 \in DOMAIN queue' /\ j - 1 > i /\ queue'[j - 1] = queue[j]
    BY <1>2
  <2> QED BY <1>2, <2>1 DEF LastOne
<1>4. ShouldBeDown' <=> ShouldBeDown
  BY <1>1 DEF ShouldBeDown, Held
<1>5. About(queue') => About(queue)
  BY <1>2 DEF About
<1>6. About(queue) <=> OnButton(q) \/ About(queue')
  <2>1. ASSUME NEW i \in DOMAIN queue, OnButton(queue[i]) PROVE OnButton(q) \/ About(queue')
    <3>1. CASE i = 1
      BY <1>2, <2>1, <3>1
    <3>2. CASE i # 1
      <4>1. i - 1 \in DOMAIN queue' /\ queue'[i - 1] = queue[i]
        BY <1>2, <3>2
      <4> QED BY <2>1, <4>1 DEF About, OnButton
    <3> QED BY <3>1, <3>2
  <2> QED BY <1>2, <1>5, <2>1 DEF About, OnButton
<1>7. OnButton(q) /\ ~About(queue') => LastOne(1)
  <2> SUFFICES ASSUME OnButton(q), ~About(queue'), NEW j \in DOMAIN queue, j > 1
               PROVE  ~OnButton(queue[j])
    BY <1>2 DEF LastOne
  <2>1. j - 1 \in DOMAIN queue' /\ queue'[j - 1] = queue[j]
    BY <1>2
  <2> QED BY <2>1 DEF About, OnButton
<1>8. Placed'
  BY <1>2 DEF ButtonsAndPlaces, Placed
<1>9. ASSUME held' \subseteq {button} PROVE ButtonInv'
  <2>1. \A i \in DOMAIN queue' : OnButton(queue'[i]) =>
             /\ queue'[i].nButton = (IF button' = "left" THEN 0 ELSE 1)
             /\ queue'[i].nAction \in 1..3
    BY <1>1, <1>2 DEF ButtonsAndPlaces, ButtonInv
  <2>2. ASSUME missed' = "no", NEW i \in DOMAIN queue', LastOne(i)'
        PROVE  ShouldBeDown' <=> queue'[i].nAction = 2
    <3>1. missed = "no" /\ i + 1 \in DOMAIN queue /\ LastOne(i + 1) /\ queue'[i] = queue[i + 1]
      BY <1>1, <1>2, <1>3, <2>2
    <3> QED BY <1>4, <3>1 DEF ButtonsAndPlaces, ButtonInv
  <2> QED BY <1>1, <1>9, <2>1, <2>2 DEF ButtonInv
<1>10. CASE Serve
  <2>1. RunCommand(q) /\ missed' = missed
    BY <1>10 DEF Serve, q
  <2>2. CASE ~OnButton(q)
    <3>1. held' = held
      BY <1>2, <2>1, <2>2, MouseEventDoes
    <3>2. ButtonInv'
      BY <1>9, <3>1 DEF ButtonsAndPlaces, ButtonInv
    <3>3. About(queue)' <=> About(queue)
      BY <1>6, <2>2
    <3>4. ButtonsFollow'
      BY <1>1, <2>1, <3>1, <3>3 DEF ButtonsAndPlaces, ButtonsFollow, Held
    <3> QED BY <1>8, <3>2, <3>4 DEF ButtonsAndPlaces
  <2>3. CASE OnButton(q)
    <3>1. /\ q.nButton = (IF button = "left" THEN 0 ELSE 1) /\ q.nAction \in 1..3
          /\ held \subseteq {button} /\ button \in Buttons
      BY <1>2, <2>3 DEF ButtonsAndPlaces, ButtonInv, TypeOK
    <3>2. <<"left", "right", "middle">>[q.nButton + 1] = button
      BY <3>1 DEF Buttons
    <3>3. held' = IF q.nAction = 2 THEN held \cup {button} ELSE held \ {button}
      BY <1>2, <2>1, <2>3, <3>1, <3>2, MouseEventDoes, InjectedEnds
    <3>4. held' = IF q.nAction = 2 THEN {button} ELSE {}
      BY <3>1, <3>3
    <3>5. ButtonInv'
      BY <1>9, <3>4
    <3>6. ASSUME missed' = "no", ~About(queue)'
          PROVE  ShouldBeDown <=> q.nAction = 2
      BY <1>2, <1>7, <2>1, <2>3, <3>6 DEF ButtonsAndPlaces, ButtonInv
    <3>7. ButtonsFollow'
      BY <1>1, <1>4, <3>4, <3>6 DEF ButtonsFollow, ShouldBeDown
    <3> QED BY <1>8, <3>5, <3>7 DEF ButtonsAndPlaces
  <2> QED BY <2>2, <2>3
<1>11. CASE ServeFails \/ BoxTakes
  <2>1. /\ held' = held
        /\ missed' = IF About(<<q>>) /\ ~About(queue') THEN "yes" ELSE missed
    BY <1>1, <1>11 DEF ServeFails, BoxTakes, HeadLost, serverVars, q
  <2>2. About(<<q>>) <=> OnButton(q)
    BY DEF About, OnButton
  <2>3. ButtonInv'
    BY <1>9, <2>1 DEF ButtonsAndPlaces, ButtonInv
  <2>4. missed' = "no" /\ ~About(queue)' => missed = "no" /\ ~About(queue)
    BY <1>6, <2>1, <2>2
  <2>5. ButtonsFollow'
    BY <1>1, <2>1, <2>4 DEF ButtonsAndPlaces, ButtonsFollow, Held
  <2> QED BY <1>8, <2>3, <2>5 DEF ButtonsAndPlaces
<1> QED BY <1>10, <1>11

LEMMA ButtonsStep == TypeOK /\ ButtonsAndPlaces /\ [Next]_vars => ButtonsAndPlaces'
<1> SUFFICES ASSUME TypeOK, ButtonsAndPlaces, [Next]_vars PROVE ButtonsAndPlaces'
  OBVIOUS
<1>1. ASSUME UNCHANGED <<queue, held, button, mouse, missed>> PROVE ButtonsAndPlaces'
  BY <1>1, PostsOther DEF Keeps
<1>2. CASE StartWatchScreen \/ CreateDialog \/ CloseDialog \/ SetClosed \/ WaitReturns
  BY <1>1, <1>2 DEF StartWatchScreen, CreateDialog, CloseDialog, SetClosed, WaitReturns, Rest,
                    serverVars, userVars
<1>3. ASSUME NEW k \in Opens, Watch(k) PROVE ButtonsAndPlaces'
  <2>1. CASE WatchTest(k)
    BY <1>1, <2>1 DEF WatchTest, Rest, serverVars, userVars
  <2>2. CASE WatchPost(k)
    <3>1. [cmd |-> "screen", to |-> Window] \in Requests
      BY WatchAssumption DEF Requests, Window, TypeOK
    <3>2. /\ queue' = Append(queue, [cmd |-> "screen", to |-> Window])
          /\ UNCHANGED <<held, button, mouse, missed>>
      BY <2>2 DEF WatchPost, serverVars, userVars
    <3>3. Posts
      BY <3>1, <3>2 DEF Posts, OnButton
    <3> QED BY <3>2, <3>3, PostsOther
  <2> QED BY <1>3, <2>1, <2>2 DEF Watch
<1>4. ASSUME NEW what \in Transitions, NEW p \in Points, PressInDialog(what, p)
      PROVE  ButtonsAndPlaces'
  BY <1>4, PressStep
<1>5. ASSUME NEW what \in Transitions, PressOutside(what) PROVE ButtonsAndPlaces'
  <2>1. Transition(what) /\ missed' = "yes" /\ queue' = queue /\ held' = held
    BY <1>5 DEF PressOutside, Unseen, serverVars
  <2> QED BY <2>1, TransitionDoes, Misses
<1>6. ASSUME NEW p \in Points, OnMouseMove(p) PROVE ButtonsAndPlaces'
  <2>1. (Keeps \/ Posts) /\ UNCHANGED <<userVars, Unseen>>
    BY <1>6, MoveStep
  <2> QED BY <2>1, PostsOther DEF userVars, Unseen, serverVars
<1>7. CASE OnBnClicked
  <2>1. queue' = Append(queue, [cmd |-> "lock"]) /\ UNCHANGED <<userVars, Unseen>>
    BY <1>7 DEF OnBnClicked, Post
  <2>2. [cmd |-> "lock"] \in Requests
    BY DEF Requests
  <2>3. Posts
    BY <2>1, <2>2 DEF Posts, OnButton
  <2> QED BY <2>1, <2>3, PostsOther DEF userVars, Unseen, serverVars
<1>8. CASE Serve \/ ServeFails \/ BoxTakes
  BY <1>8, ServeStep
<1>9. CASE OnSendPackAck \/ ChangeScreen \/ CloseBox \/ UNCHANGED vars
  BY <1>1, <1>9 DEF OnSendPackAck, ChangeScreen, CloseBox, vars, serverVars, userVars
<1> QED BY <1>2, <1>3, <1>4, <1>5, <1>6, <1>7, <1>8, <1>9 DEF Next, Network

-----------------------------------------------------------------------------
(* Scaling a point and putting the cursor there. *)

LEMMA Division ==
  ASSUME NEW a \in Nat, NEW b \in Nat \ {0}
  PROVE  /\ a \div b \in Nat
         /\ (a \div b) * b <= a /\ a < (a \div b + 1) * b
OBVIOUS

(* A point on the picture lands on the screen. *)
LEMMA OnScreen ==
  ASSUME NEW at \in Nat, NEW w \in Nat \ {0}, NEW b \in Nat \ {0}, at < b
  PROVE  (at * w) \div b < w
<1> DEFINE d == (at * w) \div b
<1>1. at * w \in Nat /\ b * w = w * b
  OBVIOUS
<1>2. d \in Nat /\ d * b <= at * w
  BY <1>1, Division
<1>3. at * w < b * w
  OBVIOUS
<1> HIDE DEF d
<1>4. ASSUME w <= d PROVE FALSE
  <2>1. w * b <= d * b
    BY <1>2, <1>4
  <2>2. w * b \in Int /\ d * b \in Int
    BY <1>2
  <2> QED BY <1>1, <1>2, <1>3, <2>1, <2>2
<1> QED BY <1>2, <1>4 DEF d

(* A point from the picture's end on lands where the screen ends, or beyond.*)
LEMMA BeyondScreen ==
  ASSUME NEW at \in Nat, NEW w \in Nat \ {0}, NEW b \in Nat \ {0}, b <= at
  PROVE  w <= (at * w) \div b
<1> DEFINE d == (at * w) \div b
<1>1. at * w \in Nat /\ b * w = w * b
  OBVIOUS
<1>2. d \in Nat /\ at * w < (d + 1) * b
  BY <1>1, Division
<1>3. b * w <= at * w
  OBVIOUS
<1> HIDE DEF d
<1>4. ASSUME d + 1 <= w PROVE FALSE
  <2>1. (d + 1) * b <= w * b
    BY <1>2, <1>4
  <2>2. w * b \in Int /\ (d + 1) * b \in Int
    BY <1>2
  <2> QED BY <1>1, <1>2, <1>3, <2>1, <2>2
<1> QED BY <1>2, <1>4 DEF d

LEMMA CursorPlaced == TypeOK /\ Placed => CursorFollows
<1> SUFFICES ASSUME TypeOK, Placed, NEW i \in DOMAIN queue, queue[i].cmd = "mouse",
                    queue[i].for.width = screen
             PROVE  LET q == queue[i]
                        x == q.for.at * screen
                    IN IF x < 0 THEN Cursor(q) = 0
                       ELSE IF q.for.at >= PictureWidth THEN Cursor(q) = screen - 1
                       ELSE Cursor(q) * PictureWidth <= x /\ x < (Cursor(q) + 1) * PictureWidth
  BY DEF CursorFollows
<1> DEFINE q == queue[i]
           p == q.for.at
<1>1. q \in Requests
  BY LenProperties, ElementOfSeq DEF TypeOK
<1>2. p \in Points /\ p \in Int
  <2>1. q.for \in Places
    BY <1>1 DEF Requests
  <2> QED BY <2>1, WatchAssumption DEF Places
<1>3. screen \in Nat \ {0} /\ PictureWidth \in Nat \ {0}
  BY WatchAssumption DEF TypeOK
<1>4. q.ptXY = Div(p * screen, PictureWidth)
  BY DEF Placed
<1> HIDE DEF q, p
<1>5. CASE p < 0
  <2>1. p * screen \in Int /\ p * screen < 0
    BY <1>2, <1>3, <1>5
  <2>2. (-(p * screen)) \div PictureWidth \in Nat
    BY <1>3, <2>1, Division
  <2>3. q.ptXY \in Int /\ q.ptXY <= 0
    BY <1>4, <2>1, <2>2 DEF Div
  <2>4. Cursor(q) = 0
    BY <1>3, <2>3 DEF Cursor
  <2> QED BY <2>1, <2>4 DEF q, p
<1>6. CASE p >= PictureWidth
  <2>1. p \in Nat /\ p * screen \in Nat
    BY <1>2, <1>3, <1>6
  <2> DEFINE d == (p * screen) \div PictureWidth
  <2>2. d \in Nat /\ screen <= d
    BY <1>3, <1>6, <2>1, BeyondScreen, Division
  <2>3. q.ptXY = d
    BY <1>4, <2>1 DEF Div
  <2> HIDE DEF d
  <2>4. Cursor(q) = screen - 1
    BY <1>3, <2>2, <2>3 DEF Cursor
  <2> QED BY <1>6, <2>1, <2>4 DEF q, p
<1>7. CASE p >= 0 /\ p < PictureWidth
  <2>1. p \in Nat /\ p * screen \in Nat
    BY <1>2, <1>3, <1>7
  <2> DEFINE x == p * screen
             d == x \div PictureWidth
  <2>2. d < screen
    BY <1>2, <1>3, <1>7, <2>1, OnScreen
  <2> HIDE DEF x
  <2>3. d \in Nat /\ d * PictureWidth <= x /\ x < (d + 1) * PictureWidth
    BY <1>3, <2>1, Division DEF x
  <2>4. q.ptXY = d
    BY <1>4, <2>1 DEF Div, x
  <2> HIDE DEF d
  <2>5. Cursor(q) = d
    BY <1>3, <2>2, <2>3, <2>4 DEF Cursor
  <2>6. x \in Nat
    BY <2>1 DEF x
  <2>7. ~(x < 0) /\ ~(p >= PictureWidth)
    BY <1>2, <1>3, <1>7, <2>6
  <2> QED BY <2>3, <2>5, <2>7 DEF q, p, x
<1> QED BY <1>2, <1>3, <1>5, <1>6, <1>7

-----------------------------------------------------------------------------
LEMMA InitIInv == Init => IInv
<1> SUFFICES ASSUME Init PROVE IInv
  OBVIOUS
<1>1. TypeOK
  BY TypeInit
<1>2. Predecessors
  BY DEF Init, Predecessors, Opens
<1>3. DOMAIN queue = {}
  BY DEF Init
<1>4. ButtonInv /\ ButtonsFollow /\ Placed
  BY <1>3 DEF Init, ButtonInv, ButtonsFollow, Placed, Held
<1> QED BY <1>1, <1>2, <1>4 DEF IInv, ButtonsAndPlaces

LEMMA NextIInv == IInv /\ [Next]_vars => IInv'
BY TypeStep, PredecessorsStep, ButtonsStep DEF IInv, ButtonsAndPlaces

LEMMA WatchInvariant == Spec => []IInv
BY InitIInv, NextIInv, PTL DEF Spec

(* The variables keep their types; above all, the dialog has a window       *)
(* exactly while it is open, and no event is posted without a width.        *)
THEOREM WatchTypeCorrect == Spec => []TypeOK
<1>1. IInv => TypeOK
  BY DEF IInv
<1> QED BY <1>1, WatchInvariant, PTL

(* One thread asks for pictures as long as every thread ended within the    *)
(* half second that StartWatchScreen waits for it.                          *)
THEOREM OneWatcherHolds == Spec => []OneWatcher
<1>1. IInv => OneWatcher
  BY OneAtMost DEF IInv
<1> QED BY <1>1, WatchInvariant, PTL

(* The other machine's button is down exactly while the user's is, once the *)
(* queue holds nothing about it, and the cursor is put where the user saw   *)
(* the mouse, or where the screen ends if that was beside the picture; for  *)
(* all widths and points, and any requests that are lost, in boxes or       *)
(* otherwise, before the last about the button.                             *)
THEOREM MouseFollowsHolds == Spec => []MouseFollows
<1>1. IInv => MouseFollows
  BY CursorPlaced DEF IInv, MouseFollows
<1> QED BY <1>1, WatchInvariant, PTL
=============================================================================
