---------------------------- MODULE FutureBridge ----------------------------
(***************************************************************************)
(* Waiting for a future: FutureAspect::require_node                        *)
(* (head/async_extension/folly_future.h) on the stand-in for folly         *)
(* (head/cpp3rd/folly_future.h).                                           *)
(*                                                                         *)
(* The requirer, a task on a worker or a thread outside the pool, leaves   *)
(* callbacks that write to variables of its own stack frame.  A task also  *)
(* has a graph g in that frame: when the value has come, ensure's callback *)
(* puts end_node into g, and the task waits for end_node; the wait itself  *)
(* is Coroutine's subject.  The promise's thread calls setValue once.      *)
(* Nothing orders that call after then and onError: the answering thread   *)
(* may be there first (test/demo.cpp:57-66, 88).                           *)
(* Callbacks are counted by what they do: an earlier one of the client's   *)
(* may throw, which makes setValue call the error callbacks instead.       *)
(***************************************************************************)
EXTENDS Integers

VARIABLES
    fut,     \* InnerFuture: the requirer's callbacks it holds, finish, sema, mutex_
    req,     \* requirer: is it a task, its place, f_value, its graph g is alive
    prom,    \* setValue: its place, an earlier callback throws, it saw the
             \* requirer's callback, its last loop came too early for it (history)
    edge,    \* place of g.create_edges(end_node, {}), run by who holds mutex_
    end      \* end_node: status, shared pointers, place of the worker that runs it

vars == <<fut, req, prom, edge, end>>

Init ==
    /\ fut = [then |-> FALSE, onError |-> FALSE, ensure |-> FALSE, finish |-> FALSE,
              sema |-> 0, mutex |-> "free"]
    /\ req \in [task : BOOLEAN, pc : {"then"}, f_value : {"unset"}, g : {"Initing"}]
    /\ prom \in [pc : {"idle"}, throws : BOOLEAN, saw : {FALSE}, early : {FALSE}]
    /\ edge = "none"
    /\ end = [status |-> "Initing", refs |-> 0, pc |-> "idle"]

Creating == edge \in {"register", "ready", "drop"}

(***************************************************************************)
(* The requirer                                                            *)
(***************************************************************************)
then ==
    /\ req.pc = "then" /\ req' = [req EXCEPT !.pc = "onError"]
    /\ fut' = [fut EXCEPT !.then = TRUE]
    /\ UNCHANGED <<prom, edge, end>>

onError ==
    /\ req.pc = "onError"
    /\ req' = [req EXCEPT !.pc = IF req.task THEN "ensure" ELSE "get"]
    /\ fut' = [fut EXCEPT !.onError = TRUE]
    /\ UNCHANGED <<prom, edge, end>>

\* Mutant: ensure does not look whether the value has come.
Come_Unasked == FALSE

Come == fut.finish

\* Under the future's lock: call func now, or leave it to setValue.
ensure ==
    /\ req.pc = "ensure" /\ fut.mutex = "free"
    /\ req' = [req EXCEPT !.pc = "unlock"]
    /\ fut' = [fut EXCEPT !.mutex = "requirer", !.ensure = ~Come]
    /\ edge' = IF Come THEN "register" ELSE edge
    /\ UNCHANGED <<prom, end>>

EnsureUnlock ==
    /\ req.pc = "unlock" /\ ~Creating
    /\ req' = [req EXCEPT !.pc = "require"]
    /\ fut' = [fut EXCEPT !.mutex = "free"]
    /\ UNCHANGED <<prom, edge, end>>

\* require_node({end_node}): goes on when end_node has finished.
require_node ==
    /\ req.pc = "require" /\ end.status \in {"Finish", "Recoverable"}
    /\ req' = [req EXCEPT !.pc = "clear"]
    /\ UNCHANGED <<fut, prom, edge, end>>

\* Mutant: clear_graph does not wait for the worker to be done.
Cleared_Early == end.status \in {"Finish", "Recoverable"}

Cleared == end.status = "Recoverable"

\* ~Graph calls clear_graph; then the frame is gone.
EndOfScope ==
    /\ req.pc = "clear" /\ Cleared
    /\ req' = [req EXCEPT !.pc = "returned", !.g = "Destroy"]
    /\ end' = [end EXCEPT !.refs = @ - 1]
    /\ UNCHANGED <<fut, prom, edge>>

get ==
    /\ req.pc = "get" /\ fut.sema > 0
    /\ fut' = [fut EXCEPT !.sema = @ - 1]
    /\ req' = [req EXCEPT !.pc = "returned"]
    /\ UNCHANGED <<prom, edge, end>>

Requirer == then \/ onError \/ ensure \/ EnsureUnlock \/ require_node \/ EndOfScope \/ get

(***************************************************************************)
(* g.create_edges(end_node, {}), called by ensure or setValue: register,   *)
(* make ready, drop the pointer that is returned.                          *)
(***************************************************************************)
RegisterEnd ==
    /\ edge = "register" /\ edge' = "ready"
    /\ req' = [req EXCEPT !.g = "Running"]
    /\ end' = [end EXCEPT !.refs = @ + 2]
    /\ UNCHANGED <<fut, prom>>

ReadyEnd ==
    /\ edge = "ready" /\ edge' = "drop"
    /\ end' = [end EXCEPT !.pc = "queued"]
    /\ UNCHANGED <<fut, req, prom>>

\* Mutant: the returned pointer is dropped twice.
Dropped_Twice == 2

Dropped == 1

DropEnd ==
    /\ edge = "drop" /\ edge' = "done"
    /\ end' = [end EXCEPT !.refs = @ - Dropped]
    /\ UNCHANGED <<fut, req, prom>>

create_edges == RegisterEnd \/ ReadyEnd \/ DropEnd

(***************************************************************************)
(* Promise::setValue                                                       *)
(***************************************************************************)
\* The loop over call_backs takes its bounds here, without the lock.
setValue ==
    /\ prom.pc = "idle"
    /\ prom' = [prom EXCEPT !.pc = "call_backs", !.saw = fut.then, !.early = ~fut.then]
    /\ UNCHANGED <<fut, req, edge, end>>

\* The exception of an earlier callback ends the loop before the requirer's.
CallBacks ==
    /\ prom.pc = "call_backs"
    /\ IF prom.throws
       THEN /\ prom' = [prom EXCEPT !.pc = "errors", !.saw = fut.onError,
                                    !.early = ~fut.onError]
            /\ UNCHANGED req
       ELSE /\ prom' = [prom EXCEPT !.pc = "lock", !.saw = FALSE]
            /\ req' = [req EXCEPT !.f_value = IF prom.saw THEN "value" ELSE @]
    /\ UNCHANGED <<fut, edge, end>>

\* Mutant: the exception is swallowed.
ErrorValue_Swallowed == req.f_value

ErrorValue == IF prom.saw THEN "error_value" ELSE req.f_value

ErrorCallBacks ==
    /\ prom.pc = "errors" /\ prom' = [prom EXCEPT !.pc = "lock", !.saw = FALSE]
    /\ req' = [req EXCEPT !.f_value = ErrorValue]
    /\ UNCHANGED <<fut, edge, end>>

SetFinish ==
    /\ prom.pc = "lock" /\ fut.mutex = "free"
    /\ prom' = [prom EXCEPT !.pc = "signal"]
    /\ fut' = [fut EXCEPT !.mutex = "promise", !.finish = TRUE]
    /\ edge' = IF fut.ensure THEN "register" ELSE edge
    /\ UNCHANGED <<req, end>>

Signal ==
    /\ prom.pc = "signal" /\ ~Creating
    /\ prom' = [prom EXCEPT !.pc = "unlock"]
    /\ fut' = [fut EXCEPT !.sema = @ + 1]
    /\ UNCHANGED <<req, edge, end>>

SetUnlock ==
    /\ prom.pc = "unlock" /\ prom' = [prom EXCEPT !.pc = "done"]
    /\ fut' = [fut EXCEPT !.mutex = "free"]
    /\ UNCHANGED <<req, edge, end>>

Promise == CallBacks \/ ErrorCallBacks \/ SetFinish \/ Signal \/ SetUnlock

(***************************************************************************)
(* The worker that runs end_node: from Finish on the requirer may go on,   *)
(* but Graph::finish has yet to count end_node out of g.                   *)
(***************************************************************************)
EndStep(from, to, s) ==
    /\ end.pc = from /\ end' = [end EXCEPT !.pc = to, !.status = s]
    /\ UNCHANGED <<fut, req, prom, edge>>

Worker ==
    \/ EndStep("queued", "finish", "Running") \/ EndStep("finish", "graph", "Finish")
    \/ EndStep("graph", "recover", "Finish") \/ EndStep("recover", "done", "Recoverable")

Next == Requirer \/ create_edges \/ setValue \/ Promise \/ Worker

Spec == Init /\ [][Next]_vars

\* All threads are scheduled; nobody is obliged to call setValue.
FairSpec ==
    Spec /\ WF_vars(Requirer) /\ WF_vars(create_edges) /\ WF_vars(Promise) /\ WF_vars(Worker)

(***************************************************************************)
(* Properties                                                              *)
(***************************************************************************)
\* Types; end_node has at most two owners and is never released twice.
TypeOK ==
    /\ fut \in [then : BOOLEAN, onError : BOOLEAN, ensure : BOOLEAN, finish : BOOLEAN,
                sema : 0 .. 1, mutex : {"free", "requirer", "promise"}]
    /\ req.f_value \in {"unset", "value", "error_value"}
    /\ req.g \in {"Initing", "Running", "Destroy"}
    /\ edge \in {"none", "register", "ready", "drop", "done"}
    /\ end.refs \in 0 .. 2

\* The call returns without value and without error value if, and only if,
\* setValue began the loop that should have delivered it before the requirer
\* had registered (then and onError take no lock and do not look at finish,
\* cpp3rd/folly_future.h:29-36).  There is no other gap: not between ensure's
\* test under the lock (38-44) and setValue's order of callbacks, finish and
\* signal (64-79), not when an earlier callback throws, not for get.
ValueDelivered == req.pc = "returned" => (req.f_value = "unset" <=> prom.early)

\* Nobody touches the requirer's frame after it returned, nor an end_node
\* that was released: not setValue's callbacks through their references,
\* not create_edges, not the worker that still has to count end_node out
\* of g (async_extension/folly_future.h:62-71).
FrameAlive ==
    /\ req.pc = "returned" =>
          ~prom.saw /\ edge \notin {"register", "ready"} /\ end.pc # "graph"
    /\ end.pc \notin {"idle", "done"} => end.refs > 0

\* Once setValue has been called the requirer returns, whichever of ensure
\* and setValue comes first to the lock.
RequirerReturns == (prom.pc # "idle") ~> (req.pc = "returned")
=============================================================================
