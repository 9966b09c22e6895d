------------------------------ MODULE AtomicFifo ------------------------------
(***************************************************************************)
(* What "thread-safe queue" promises (RemoteCtrl/CEdoyunQueue.h:9): each   *)
(* method takes effect at one instant between its call and its return, on  *)
(* one first-in first-out list, and a method that fails has no effect.     *)
(* This is the abstract specification that EdoyunQueue is shown to         *)
(* implement; it has no counterpart in the code.                           *)
(***************************************************************************)
EXTENDS Integers, Sequences

CONSTANTS
    Threads,  \* the callers
    Data,     \* what the queue holds
    NoData    \* what PopFront answers when the queue is empty

VARIABLES
    items,    \* the list
    asked,    \* asked[t]: the request t has made and that has not taken effect
    answer,   \* answer[t]: the reply that is waiting for t to take it
    reply     \* reply[t]: the reply to t's last call

vars == <<items, asked, answer, reply>>

None == [op |-> "none", data |-> NoData]

Requests == [op : {"push"}, data : Data] \cup [op : {"pop", "size", "clear"}, data : {NoData}]

Reply  == [ret : {"true", "false"}, data : Data, size : Nat \cup {-1}]
Done   == [ret |-> "true",  data |-> NoData, size |-> -1]
Failed == [ret |-> "false", data |-> NoData, size |-> -1]

Init ==
    /\ items = <<>>
    /\ asked = [t \in Threads |-> None]
    /\ answer = [t \in Threads |-> Failed]
    /\ reply = [t \in Threads |-> Done]

(* The list after a request, and the reply to it. *)
After(r, q) ==
    CASE r.op = "push"  -> Append(q, r.data)
      [] r.op = "pop"   -> IF q = <<>> THEN q ELSE Tail(q)
      [] r.op = "clear" -> <<>>
      [] OTHER          -> q

AnswerTo(r, q) ==
    CASE r.op = "pop"  -> [Done EXCEPT !.data = IF q = <<>> THEN NoData ELSE Head(q)]
      [] r.op = "size" -> [Done EXCEPT !.size = Len(q)]
      [] OTHER         -> Done

Free(t) == asked[t] = None /\ answer[t] = Failed

Invoke(t, r) ==
    /\ Free(t)
    /\ asked' = [asked EXCEPT ![t] = r]
    /\ UNCHANGED <<items, answer, reply>>

(* The instant at which a request takes effect.  Nobody waits for the       *)
(* answer to push and clear.                                                *)
Effect(t) ==
    /\ asked[t] # None
    /\ items' = After(asked[t], items)
    /\ asked' = [asked EXCEPT ![t] = None]
    /\ IF asked[t].op \in {"push", "clear"}
       THEN reply' = [reply EXCEPT ![t] = Done] /\ UNCHANGED answer
       ELSE answer' = [answer EXCEPT ![t] = AnswerTo(asked[t], items)] /\ UNCHANGED reply

Return(t) ==
    /\ answer[t] # Failed
    /\ reply' = [reply EXCEPT ![t] = answer[t]]
    /\ answer' = [answer EXCEPT ![t] = Failed]
    /\ UNCHANGED <<items, asked>>

(* The queue may refuse at the call or later, before the effect. *)
Refuse(t) ==
    /\ answer[t] = Failed
    /\ asked' = [asked EXCEPT ![t] = None]
    /\ reply' = [reply EXCEPT ![t] = Failed]
    /\ UNCHANGED <<items, answer>>

Next ==
    \E t \in Threads :
        \/ \E r \in Requests : Invoke(t, r)
        \/ Effect(t) \/ Return(t) \/ Refuse(t)

Spec == Init /\ [][Next]_vars
=============================================================================
