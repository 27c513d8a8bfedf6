------------------------- MODULE FutureBridgeProofs -------------------------
(***************************************************************************)
(* What FutureBridge promises holds in every reachable state, not only in  *)
(* those TLC has listed: the inductive invariant BridgeInv says, for every *)
(* place of the requirer, of setValue, of create_edges and of the worker,  *)
(* what the future, the frame and end_node look like.                      *)
(***************************************************************************)
EXTENDS FutureBridge, TLAPS

\* The records, of which TypeOK states some fields only.
Fut == [then : BOOLEAN, onError : BOOLEAN, ensure : BOOLEAN, finish : BOOLEAN,
        sema : 0 .. 1, mutex : {"free", "requirer", "promise"}]
Req == [task : BOOLEAN, f_value : {"unset", "value", "error_value"},
        pc : {"then", "onError", "ensure", "unlock", "require", "clear", "get", "returned"},
        g : {"Initing", "Running", "Destroy"}]
Prom == [pc : {"idle", "call_backs", "errors", "lock", "signal", "unlock", "done"},
         throws : BOOLEAN, saw : BOOLEAN, early : BOOLEAN]
End == [status : {"Initing", "Running", "Finish", "Recoverable"}, refs : 0 .. 2,
        pc : {"idle", "queued", "finish", "graph", "recover", "done"}]

Shape ==
    /\ fut \in Fut /\ req \in Req /\ prom \in Prom /\ end \in End
    /\ edge \in {"none", "register", "ready", "drop", "done"}

\* A task and a thread outside the pool take different ways to "returned".
Ways ==
    /\ req.task => req.pc # "get"
    /\ ~req.task => req.pc \in {"then", "onError", "get", "returned"}

\* Which callbacks are registered, and for a task whether it was ensure that
\* found the value or setValue that finds the callback.
Registered ==
    /\ fut.then <=> req.pc # "then"
    /\ fut.onError <=> req.pc \notin {"then", "onError"}
    /\ fut.ensure => req.task /\ req.pc \in {"unlock", "require", "clear", "returned"}
    /\ (req.task /\ req.pc \in {"unlock", "require", "clear", "returned"} /\ ~fut.ensure)
          => fut.finish

\* Who holds the future's mutex_, and what has happened under it.
Locked ==
    /\ fut.mutex = "requirer" <=> req.pc = "unlock"
    /\ fut.mutex = "promise" <=> prom.pc \in {"signal", "unlock"}
    /\ fut.finish <=> prom.pc \in {"signal", "unlock", "done"}
    /\ fut.sema = IF prom.pc \in {"unlock", "done"} /\ (req.task \/ req.pc # "returned")
                  THEN 1 ELSE 0
    /\ ~req.task /\ req.pc = "returned" => prom.pc \in {"unlock", "done"}

\* create_edges runs once, under the mutex_ of the one that came second.
OneEdge ==
    /\ edge # "none" <=> (/\ req.task
                          /\ req.pc \in {"unlock", "require", "clear", "returned"}
                          /\ fut.finish)
    /\ Creating => IF fut.ensure THEN prom.pc = "signal" ELSE req.pc = "unlock"

\* end_node: who owns it, how far its worker is, and how far that lets the
\* requirer go.
EndNode ==
    /\ end.refs = (CASE edge \in {"none", "register"} -> 0
                     [] edge \in {"ready", "drop"} -> 2
                     [] edge = "done" -> 1)
                  - (IF req.task /\ req.pc = "returned" THEN 1 ELSE 0)
    /\ end.pc = "idle" <=> edge \in {"none", "register", "ready"}
    /\ end.status = CASE end.pc \in {"idle", "queued"} -> "Initing"
                      [] end.pc = "finish" -> "Running"
                      [] end.pc \in {"graph", "recover"} -> "Finish"
                      [] end.pc = "done" -> "Recoverable"
    /\ req.pc = "clear" => end.status \in {"Finish", "Recoverable"}
    /\ req.task /\ req.pc = "returned" => end.status = "Recoverable"

\* The value is written before finish is set, if the last loop over the
\* callbacks was not too early for the requirer's; nobody else writes it.
Valued ==
    /\ prom.saw => prom.pc \in {"call_backs", "errors"}
    /\ prom.pc = "idle" => ~prom.early /\ req.f_value = "unset"
    /\ prom.pc \in {"call_backs", "errors"} =>
          req.f_value = "unset" /\ (prom.saw <=> ~prom.early)
    /\ prom.pc \in {"lock", "signal", "unlock", "done"} =>
          (req.f_value = "unset" <=> prom.early)

\* The inductive invariant.
BridgeInv ==
    Shape /\ Ways /\ Registered /\ Locked /\ OneEdge /\ EndNode /\ Valued

(***************************************************************************)
(* Proofs                                                                  *)
(***************************************************************************)
\* Every thread starts where BridgeInv says.
LEMMA InitBridge == Init => BridgeInv
<1> SUFFICES ASSUME Init PROVE BridgeInv
    OBVIOUS
<1> USE DEF Init
<1>1. Shape
  <2>1. fut \in Fut
    BY DEF Fut
  <2>2. req \in Req
    BY DEF Req
  <2>3. prom \in Prom
    BY DEF Prom
  <2>4. end \in End
    BY DEF End
  <2> QED
    BY <2>1, <2>2, <2>3, <2>4 DEF Shape
<1>2. Ways
  BY DEF Ways
<1>3. Registered
  BY DEF Registered
<1>4. Locked
  BY DEF Locked
<1>5. OneEdge
  BY DEF OneEdge, Creating
<1>6. EndNode
  BY DEF EndNode
<1>7. Valued
  BY DEF Valued
<1> QED
  BY <1>1, <1>2, <1>3, <1>4, <1>5, <1>6, <1>7 DEF BridgeInv

\* No step of the requirer, of create_edges, of setValue or of the worker
\* leaves BridgeInv.
LEMMA NextBridge == BridgeInv /\ [Next]_vars => BridgeInv'
<1> SUFFICES ASSUME BridgeInv, [Next]_vars PROVE BridgeInv'
    OBVIOUS
<1> USE DEF BridgeInv, Shape, Fut, Req, Prom, End, Ways, Registered, Locked, OneEdge,
        EndNode, Valued, Creating
<1>1. CASE then
  <2>1. Shape'
    BY <1>1 DEF then
  <2>2. Ways'
    BY <1>1 DEF then
  <2>3. Registered'
    BY <1>1 DEF then
  <2>4. Locked'
    BY <1>1 DEF then
  <2>5. OneEdge'
    BY <1>1 DEF then
  <2>6. EndNode'
    BY <1>1 DEF then
  <2>7. Valued'
    BY <1>1 DEF then
  <2> QED
    BY <2>1, <2>2, <2>3, <2>4, <2>5, <2>6, <2>7
<1>2. CASE onError
  <2>1. Shape'
    <3>1. fut' \in Fut
      BY <1>2 DEF onError
    <3>2. req' \in Req
      BY <1>2 DEF onError
    <3> HIDE DEF Fut, Req, Prom, End
    <3> QED
      BY <1>2, <3>1, <3>2 DEF onError
  <2>2. Ways'
    BY <1>2 DEF onError
  <2>3. Registered'
    BY <1>2 DEF onError
  <2>4. Locked'
    BY <1>2 DEF onError
  <2>5. OneEdge'
    BY <1>2 DEF onError
  <2>6. EndNode'
    BY <1>2 DEF onError
  <2>7. Valued'
    BY <1>2 DEF onError
  <2> QED
    BY <2>1, <2>2, <2>3, <2>4, <2>5, <2>6, <2>7
<1>3. CASE ensure
  <2> HIDE DEF BridgeInv, Shape, Fut, Req, Prom, End, Ways, Registered, Locked, OneEdge,
                EndNode, Valued, Creating
  <2>0. /\ fut \in Fut /\ req \in Req /\ prom \in Prom /\ end \in End
        /\ fut.finish \in BOOLEAN /\ fut.ensure \in BOOLEAN /\ req.task \in BOOLEAN
    BY DEF BridgeInv, Shape, Fut, Req
  <2>1. edge = "none" /\ req.task
    BY <1>3, <2>0 DEF ensure, BridgeInv, OneEdge, Ways
  <2>p. /\ req' = [req EXCEPT !.pc = "unlock"] /\ req.pc = "ensure" /\ fut.mutex = "free"
        /\ fut' = [fut EXCEPT !.mutex = "requirer", !.ensure = ~fut.finish]
        /\ edge' = IF fut.finish THEN "register" ELSE edge
        /\ UNCHANGED <<prom, end>>
    BY <1>3 DEF ensure, Come
  <2>2. /\ req' \in Req /\ req'.pc = "unlock" /\ req'.task = req.task
        /\ req'.f_value = req.f_value
    BY <2>0, <2>p DEF Req
  <2>3. /\ fut' \in Fut /\ fut'.mutex = "requirer" /\ fut'.ensure = ~fut.finish
        /\ fut'.then = fut.then /\ fut'.onError = fut.onError
        /\ fut'.finish = fut.finish /\ fut'.sema = fut.sema
    BY <2>0, <2>p DEF Fut
  <2>4. Shape'
    BY <2>0, <2>1, <2>p, <2>2, <2>3 DEF BridgeInv, Shape
  <2>5. Ways'
    BY <2>0, <2>1, <2>p, <2>2, <2>3 DEF BridgeInv, Ways
  <2>6. Registered'
    BY <2>0, <2>1, <2>p, <2>2, <2>3 DEF BridgeInv, Registered
  <2>7. Locked'
    BY <2>0, <2>1, <2>p, <2>2, <2>3 DEF BridgeInv, Locked
  <2>8. OneEdge'
    BY <2>0, <2>1, <2>p, <2>2, <2>3 DEF BridgeInv, OneEdge, Creating
  <2>9. EndNode'
    BY <2>0, <2>1, <2>p, <2>2, <2>3 DEF BridgeInv, EndNode
  <2>10. Valued'
    BY <2>0, <2>1, <2>p, <2>2, <2>3 DEF BridgeInv, Valued
  <2> QED
    BY <2>4, <2>5, <2>6, <2>7, <2>8, <2>9, <2>10 DEF BridgeInv
<1>4. CASE EnsureUnlock
  BY <1>4 DEF EnsureUnlock
<1>5. CASE require_node
  BY <1>5 DEF require_node
<1>6. CASE EndOfScope
  <2>1. Shape'
    <3>1. end.pc = "done" /\ edge \in {"drop", "done"} /\ req.pc # "returned"
      BY <1>6 DEF EndOfScope, Cleared
    <3>2. end.refs - 1 \in 0 .. 2
      BY <3>1
    <3> QED
      BY <1>6, <3>2 DEF EndOfScope
  <2>2. Ways'
    BY <1>6 DEF EndOfScope, Cleared
  <2>3. Registered'
    BY <1>6 DEF EndOfScope, Cleared
  <2>4. Locked'
    BY <1>6 DEF EndOfScope, Cleared
  <2>5. OneEdge'
    BY <1>6 DEF EndOfScope, Cleared
  <2>6. EndNode'
    BY <1>6 DEF EndOfScope, Cleared
  <2>7. Valued'
    BY <1>6 DEF EndOfScope, Cleared
  <2> QED
    BY <2>1, <2>2, <2>3, <2>4, <2>5, <2>6, <2>7
<1>7. CASE get
  BY <1>7 DEF get
<1>8. CASE RegisterEnd
  BY <1>8 DEF RegisterEnd
<1>9. CASE ReadyEnd
  BY <1>9 DEF ReadyEnd
<1>10. CASE DropEnd
  BY <1>10 DEF DropEnd, Dropped
<1>11. CASE setValue
  <2> HIDE DEF BridgeInv, Shape, Fut, Req, Prom, End, Ways, Registered, Locked, OneEdge,
                EndNode, Valued, Creating
  <2>0. /\ fut \in Fut /\ req \in Req /\ prom \in Prom /\ end \in End
        /\ fut.finish \in BOOLEAN /\ fut.ensure \in BOOLEAN /\ req.task \in BOOLEAN
    BY DEF BridgeInv, Shape, Fut, Req
  <2>1. /\ prom.pc = "idle" /\ prom' = [prom EXCEPT !.pc = "call_backs", !.saw = fut.then, !.early = ~fut.then]
        /\ UNCHANGED <<fut, req, edge, end>>
    BY <1>11 DEF setValue
  <2>2. fut.then \in BOOLEAN
    BY <2>0 DEF Fut
  <2>3. prom' \in Prom /\ prom'.pc = "call_backs" /\ prom'.saw = fut.then
        /\ prom'.early = ~fut.then
    BY <2>0, <2>1, <2>2 DEF Prom
  <2>4. Shape'
    BY <2>0, <2>1, <2>2, <2>3 DEF BridgeInv, Shape
  <2>5. Ways'
    BY <2>0, <2>1, <2>2, <2>3 DEF BridgeInv, Ways
  <2>6. Registered'
    BY <2>0, <2>1, <2>2, <2>3 DEF BridgeInv, Registered
  <2>7. Locked'
    BY <2>0, <2>1, <2>2, <2>3 DEF BridgeInv, Locked
  <2>8. OneEdge'
    BY <2>0, <2>1, <2>2, <2>3 DEF BridgeInv, OneEdge, Creating
  <2>9. EndNode'
    BY <2>0, <2>1, <2>2, <2>3 DEF BridgeInv, EndNode
  <2>10. Valued'
    BY <2>0, <2>1, <2>2, <2>3 DEF BridgeInv, Valued
  <2> QED
    BY <2>4, <2>5, <2>6, <2>7, <2>8, <2>9, <2>10 DEF BridgeInv
<1>12. CASE CallBacks
  <2> HIDE DEF BridgeInv, Shape, Fut, Req, Prom, End, Ways, Registered, Locked, OneEdge,
                EndNode, Valued, Creating
  <2>0. /\ fut \in Fut /\ req \in Req /\ prom \in Prom /\ end \in End
        /\ fut.finish \in BOOLEAN /\ fut.ensure \in BOOLEAN /\ req.task \in BOOLEAN
    BY DEF BridgeInv, Shape, Fut, Req
  <2>1. prom.pc = "call_backs" /\ UNCHANGED <<fut, edge, end>>
    BY <1>12 DEF CallBacks
  <2>2. CASE prom.throws
    <3>1. /\ prom' = [prom EXCEPT !.pc = "errors", !.saw = fut.onError, !.early = ~fut.onError]
          /\ UNCHANGED req
      BY <1>12, <2>2 DEF CallBacks
    <3>2. fut.onError \in BOOLEAN
      BY <2>0 DEF Fut
    <3>3. prom' \in Prom /\ prom'.pc = "errors" /\ prom'.saw = fut.onError
          /\ prom'.early = ~fut.onError
      BY <2>0, <3>1, <3>2 DEF Prom
    <3>4. Shape'
      BY <2>0, <2>1, <3>1, <3>3 DEF BridgeInv, Shape
    <3>5. Ways'
      BY <2>0, <2>1, <3>1, <3>3 DEF BridgeInv, Ways
    <3>6. Registered'
      BY <2>0, <2>1, <3>1, <3>3 DEF BridgeInv, Registered
    <3>7. Locked'
      BY <2>0, <2>1, <3>1, <3>3 DEF BridgeInv, Locked
    <3>8. OneEdge'
      BY <2>0, <2>1, <3>1, <3>3 DEF BridgeInv, OneEdge, Creating
    <3>9. EndNode'
      BY <2>0, <2>1, <3>1, <3>3 DEF BridgeInv, EndNode
    <3>10. Valued'
      BY <2>0, <2>1, <3>1, <3>3 DEF BridgeInv, Valued
    <3> QED
      BY <3>4, <3>5, <3>6, <3>7, <3>8, <3>9, <3>10 DEF BridgeInv
  <2>3. CASE ~prom.throws
    <3>1. /\ prom' = [prom EXCEPT !.pc = "lock", !.saw = FALSE]
          /\ req' = [req EXCEPT !.f_value = IF prom.saw THEN "value" ELSE @]
      BY <1>12, <2>3 DEF CallBacks
    <3>2. prom' \in Prom /\ prom'.pc = "lock" /\ prom'.saw = FALSE /\ prom'.early = prom.early
      BY <2>0, <3>1 DEF Prom
    <3>3. /\ req' \in Req /\ req'.f_value = IF prom.saw THEN "value" ELSE req.f_value
          /\ req'.pc = req.pc /\ req'.task = req.task
      BY <2>0, <3>1 DEF Req
    <3>4. Shape'
      BY <2>0, <2>1, <3>2, <3>3 DEF BridgeInv, Shape
    <3>5. Ways'
      BY <2>0, <2>1, <3>2, <3>3 DEF BridgeInv, Ways
    <3>6. Registered'
      BY <2>0, <2>1, <3>2, <3>3 DEF BridgeInv, Registered
    <3>7. Locked'
      BY <2>0, <2>1, <3>2, <3>3 DEF BridgeInv, Locked
    <3>8. OneEdge'
      BY <2>0, <2>1, <3>2, <3>3 DEF BridgeInv, OneEdge, Creating
    <3>9. EndNode'
      BY <2>0, <2>1, <3>2, <3>3 DEF BridgeInv, EndNode
    <3>10. Valued'
      BY <2>0, <2>1, <3>2, <3>3 DEF BridgeInv, Valued
    <3> QED
      BY <3>4, <3>5, <3>6, <3>7, <3>8, <3>9, <3>10 DEF BridgeInv
  <2> QED
    BY <2>2, <2>3
<1>13. CASE ErrorCallBacks
  <2> HIDE DEF BridgeInv, Shape, Fut, Req, Prom, End, Ways, Registered, Locked, OneEdge,
                EndNode, Valued, Creating
  <2>0. /\ fut \in Fut /\ req \in Req /\ prom \in Prom /\ end \in End
        /\ fut.finish \in BOOLEAN /\ fut.ensure \in BOOLEAN /\ req.task \in BOOLEAN
    BY DEF BridgeInv, Shape, Fut, Req
  <2>1. /\ prom.pc = "errors" /\ prom' = [prom EXCEPT !.pc = "lock", !.saw = FALSE]
        /\ req' = [req EXCEPT !.f_value = IF prom.saw THEN "error_value" ELSE @]
        /\ UNCHANGED <<fut, edge, end>>
    BY <1>13 DEF ErrorCallBacks, ErrorValue
  <2>2. prom' \in Prom /\ prom'.pc = "lock" /\ prom'.saw = FALSE /\ prom'.early = prom.early
    BY <2>0, <2>1 DEF Prom
  <2>3. /\ req' \in Req /\ req'.f_value = IF prom.saw THEN "error_value" ELSE req.f_value
        /\ req'.pc = req.pc /\ req'.task = req.task
    BY <2>0, <2>1 DEF Req
  <2>4. Shape'
    BY <2>0, <2>1, <2>2, <2>3 DEF BridgeInv, Shape
  <2>5. Ways'
    BY <2>0, <2>1, <2>2, <2>3 DEF BridgeInv, Ways
  <2>6. Registered'
    BY <2>0, <2>1, <2>2, <2>3 DEF BridgeInv, Registered
  <2>7. Locked'
    BY <2>0, <2>1, <2>2, <2>3 DEF BridgeInv, Locked
  <2>8. OneEdge'
    BY <2>0, <2>1, <2>2, <2>3 DEF BridgeInv, OneEdge, Creating
  <2>9. EndNode'
    BY <2>0, <2>1, <2>2, <2>3 DEF BridgeInv, EndNode
  <2>10. Valued'
    BY <2>0, <2>1, <2>2, <2>3 DEF BridgeInv, Valued
  <2> QED
    BY <2>4, <2>5, <2>6, <2>7, <2>8, <2>9, <2>10 DEF BridgeInv
<1>14. CASE SetFinish
  <2> HIDE DEF BridgeInv, Shape, Fut, Req, Prom, End, Ways, Registered, Locked, OneEdge,
                EndNode, Valued, Creating
  <2>0. /\ fut \in Fut /\ req \in Req /\ prom \in Prom /\ end \in End
        /\ fut.finish \in BOOLEAN /\ fut.ensure \in BOOLEAN /\ req.task \in BOOLEAN
    BY DEF BridgeInv, Shape, Fut, Req
  <2>1. edge = "none" /\ end.pc = "idle" /\ req.pc # "unlock" /\ ~fut.finish
    BY <1>14, <2>0 DEF SetFinish, BridgeInv, Shape, OneEdge, Locked, EndNode
  <2>p. /\ prom.pc = "lock" /\ fut.mutex = "free" /\ prom' = [prom EXCEPT !.pc = "signal"]
        /\ fut' = [fut EXCEPT !.mutex = "promise", !.finish = TRUE]
        /\ edge' = IF fut.ensure THEN "register" ELSE edge
        /\ UNCHANGED <<req, end>>
    BY <1>14 DEF SetFinish
  <2>2. prom' \in Prom /\ prom'.pc = "signal" /\ prom'.saw = prom.saw /\ prom'.early = prom.early
    BY <2>0, <2>p DEF Prom
  <2>3. /\ fut' \in Fut /\ fut'.mutex = "promise" /\ fut'.finish = TRUE
        /\ fut'.then = fut.then /\ fut'.onError = fut.onError
        /\ fut'.ensure = fut.ensure /\ fut'.sema = fut.sema
    BY <2>0, <2>p DEF Fut
  <2>4. Shape'
    BY <2>0, <2>1, <2>p, <2>2, <2>3 DEF BridgeInv, Shape
  <2>5. Ways'
    BY <2>0, <2>1, <2>p, <2>2, <2>3 DEF BridgeInv, Ways
  <2>6. Registered'
    BY <2>0, <2>1, <2>p, <2>2, <2>3 DEF BridgeInv, Registered
  <2>7. Locked'
    BY <2>0, <2>1, <2>p, <2>2, <2>3 DEF BridgeInv, Locked
  <2>8. OneEdge'
    BY <2>0, <2>1, <2>p, <2>2, <2>3 DEF BridgeInv, OneEdge, Registered, Creating
  <2>9. EndNode'
    BY <2>0, <2>1, <2>p, <2>2, <2>3 DEF BridgeInv, EndNode
  <2>10. Valued'
    BY <2>0, <2>1, <2>p, <2>2, <2>3 DEF BridgeInv, Valued
  <2> QED
    BY <2>4, <2>5, <2>6, <2>7, <2>8, <2>9, <2>10 DEF BridgeInv
<1>15. CASE Signal
  BY <1>15 DEF Signal
<1>16. CASE SetUnlock
  BY <1>16 DEF SetUnlock
<1>17. CASE Worker
  <2>1. CASE EndStep("queued", "finish", "Running")
    <3>1. Shape'
      <4>1. end' \in End
        BY <2>1 DEF EndStep
      <4> QED
        BY <2>1, <4>1 DEF EndStep
    <3>2. EndNode'
      BY <2>1 DEF EndStep
    <3>3. Ways' /\ Registered' /\ Locked' /\ OneEdge' /\ Valued'
      BY <2>1 DEF EndStep
    <3> QED
      BY <3>1, <3>2, <3>3
  <2>2. CASE EndStep("finish", "graph", "Finish")
    <3>1. Shape'
      <4>1. end' \in End
        BY <2>2 DEF EndStep
      <4> QED
        BY <2>2, <4>1 DEF EndStep
    <3>2. EndNode'
      BY <2>2 DEF EndStep
    <3>3. Ways' /\ Registered' /\ Locked' /\ OneEdge' /\ Valued'
      BY <2>2 DEF EndStep
    <3> QED
      BY <3>1, <3>2, <3>3
  <2>3. CASE EndStep("graph", "recover", "Finish")
    <3>1. Shape'
      <4>1. end' \in End
        BY <2>3 DEF EndStep
      <4> QED
        BY <2>3, <4>1 DEF EndStep
    <3>2. EndNode'
      BY <2>3 DEF EndStep
    <3>3. Ways' /\ Registered' /\ Locked' /\ OneEdge' /\ Valued'
      BY <2>3 DEF EndStep
    <3> QED
      BY <3>1, <3>2, <3>3
  <2>4. CASE EndStep("recover", "done", "Recoverable")
    <3>1. Shape'
      <4>1. end' \in End
        BY <2>4 DEF EndStep
      <4> QED
        BY <2>4, <4>1 DEF EndStep
    <3>2. EndNode'
      BY <2>4 DEF EndStep
    <3>3. Ways' /\ Registered' /\ Locked' /\ OneEdge' /\ Valued'
      BY <2>4 DEF EndStep
    <3> QED
      BY <3>1, <3>2, <3>3
  <2> QED
    BY <1>17, <2>1, <2>2, <2>3, <2>4 DEF Worker
<1>18. CASE UNCHANGED vars
  BY <1>18 DEF vars
<1> QED
  BY <1>1, <1>2, <1>3, <1>4, <1>5, <1>6, <1>7, <1>8, <1>9, <1>10, <1>11, <1>12, <1>13,
     <1>14, <1>15, <1>16, <1>17, <1>18
     DEF Next, Requirer, create_edges, Promise

\* What the proofs below rest on.
THEOREM BridgeInvariant == Spec => []BridgeInv
BY InitBridge, NextBridge, PTL DEF Spec

\* Types, and end_node has never more than two owners and is never released
\* more often than it was taken.
THEOREM BridgeTypeCorrect == Spec => []TypeOK
<1>1. BridgeInv => TypeOK
  BY DEF BridgeInv, Shape, Fut, Req, Prom, End, TypeOK
<1> QED
  BY <1>1, BridgeInvariant, PTL

\* Whenever setValue is called and whichever of ensure and setValue takes the
\* lock first: the requirer comes back from require_node with the value or the
\* error value, unless setValue's loop began before the registration.
THEOREM ValueIsDelivered == Spec => []ValueDelivered
<1>1. BridgeInv => ValueDelivered
  BY DEF BridgeInv, Shape, Fut, Req, Prom, End, Ways, Registered, Locked, OneEdge, EndNode,
     Valued, ValueDelivered
<1> QED
  BY <1>1, BridgeInvariant, PTL

\* However late the answer is and whoever runs end_node, nobody writes to the
\* requirer's frame after it has returned, nor to an end_node nobody owns.
THEOREM FrameStaysAlive == Spec => []FrameAlive
<1>1. BridgeInv => FrameAlive
  BY DEF BridgeInv, Shape, Fut, Req, Prom, End, Ways, Registered, Locked, OneEdge, EndNode,
     Valued, FrameAlive,
         Creating
<1> QED
  BY <1>1, BridgeInvariant, PTL
=============================================================================
