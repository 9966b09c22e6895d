------------------------ MODULE EdoyunQueueRefinement ------------------------
(***************************************************************************)
(* EdoyunQueue implements AtomicFifo.  A call takes effect when its packet *)
(* is posted.  The abstract list is therefore m_lstData after everything   *)
(* that is still pending (the packet the worker is dealing with, then the  *)
(* port) has been applied to it, and the answer a blocked caller will get  *)
(* is already determined while its packet is in the port.                  *)
(***************************************************************************)
EXTENDS EdoyunQueue

(* What the IocpParam p asks for, in AtomicFifo's words. *)
RequestOf(p) ==
    [op   |-> CASE p.nOperator = EQPush  -> "push"
                [] p.nOperator = EQPop   -> "pop"
                [] p.nOperator = EQSize  -> "size"
                [] p.nOperator = EQClear -> "clear",
     data |-> p.Data]

(* The list q after p has been dealt with. *)
Applied(p, q) ==
    CASE p.nOperator = EQPush  -> Append(q, p.Data)
      [] p.nOperator = EQPop   -> IF q = <<>> THEN q ELSE Tail(q)
      [] p.nOperator = EQClear -> <<>>
      [] OTHER                 -> q

(* The list after each packet of a port, ps being the IocpParams and q the  *)
(* list before the first.  The NULL key changes nothing.                    *)
ListsAfter(ps, prt, q) ==
    LET after[i \in 0..Len(prt)] ==
            IF i = 0 THEN q
            ELSE IF prt[i] = 0 THEN after[i - 1]
            ELSE Applied(ps[prt[i]], after[i - 1])
    IN after

(* The list the first packet in the port will find, and the others. *)
Dealt == IF wpc = "deal" THEN Applied(param[cur], lst) ELSE lst
Lists == ListsAfter(param, port, Dealt)

(* The answer to a pop or a size that finds the list q. *)
AnswerOn(op, q) ==
    IF op = EQSize THEN [Done EXCEPT !.size = Len(q)]
    ELSE [Done EXCEPT !.data = IF q = <<>> THEN NoData ELSE Head(q)]

(* The answer thread t will get: on the list its packet will find, or what  *)
(* the worker has written.                                                  *)
AnswerFor(t) ==
    LET op == IF pc[t] = "popping" THEN EQPop ELSE EQSize IN
    IF ~Waiting(t) THEN Failed
    ELSE IF wpc = "deal" /\ cur = call[t] THEN AnswerOn(op, lst)
    ELSE IF call[t] \in InPort
    THEN AnswerOn(op, Lists[(CHOOSE i \in DOMAIN port : port[i] = call[t]) - 1])
    ELSE Answer(op, param[call[t]])

Items == Lists[Len(port)]
Asked == [t \in Threads |-> IF pc[t] \in Posting THEN RequestOf(param[call[t]])
                            ELSE [op |-> "none", data |-> NoData]]
Answers == [t \in Threads |-> AnswerFor(t)]

Fifo == INSTANCE AtomicFifo WITH items <- Items, asked <- Asked, answer <- Answers

(* Every method of CEdoyunQueue is atomic and the queue is first-in         *)
(* first-out in the order in which the calls were posted, whatever the      *)
(* interleaving of callers, worker and destructor (CEdoyunQueue.h:54-144).  *)
ImplementsFifo == Fifo!Spec
=============================================================================
