-------------------------- MODULE AsyncScanProofs ---------------------------
(***************************************************************************)
(* The safety properties of AsyncScan, proved for every number of          *)
(* directories and files, every pipe capacity and every choice of          *)
(* callbacks.                                                              *)
(***************************************************************************)
EXTENDS AsyncScan, Integers, TLAPS

Ended == {"none", "exited"}

(* Which states of the two threads go together.                            *)
Phases ==
  /\ wpc = "none" => cpc \in {"idle", "closed"} /\ ~thread /\ sent = <<>>
  /\ wpc \in Ended \cup {"init", "visited", "report", "file"} => out = "idle"
  /\ ~thread => wpc \in Ended \/ cpc = "publish"
  /\ cpc = "publish" => ~thread
  /\ cpc \in {"idle", "publish", "callback", "join", "reclaim"} => alive
  /\ cpc \in {"reclaim", "closed"} \/ ~alive => wpc \in Ended
  /\ wpc \notin Ended => alive /\ fds

(* What the client has popped and what the worker calls directly.          *)
Hands ==
  /\ cpc \in {"idle", "publish", "drain"} => inhand = 0
  /\ cpc = "callback" => inhand # 0
  /\ inhand # 0 => inhand = Len(called)
  /\ ~thread => queue = <<>>
  /\ out = "direct" => queue = <<>> /\ inhand = 0 /\ sent # <<>>

(* Events leave the queue in the order they are sent, and at most once.    *)
Order ==
  /\ InOrderOnce
  /\ Len(called) + Len(queue) <= Len(sent)

(* A file being scanned is still on the list.                              *)
FileInHand == wpc \in {"file", "progress"} => files > 0

IInv == TypeOK /\ FileInHand /\ Phases /\ Hands /\ Order /\ NoLostWakeup /\ HeapExact

-----------------------------------------------------------------------------
(* The initial state satisfies the inductive invariant.                    *)
LEMMA InitIInv == ASSUME Init PROVE IInv
  <1>1. TypeOK /\ FileInHand
    <2>1. <<>> \in Seq(Nat) /\ <<>> \in Seq(EventType)
      OBVIOUS
    <2> QED
      BY <2>1, AsyncScanAssumption DEF Init, TypeOK, FileInHand
  <1>2. Phases /\ Hands
    BY DEF Init, Phases, Ended, Hands
  <1>3. Order
    BY DEF Init, Order, InOrderOnce
  <1>4. NoLostWakeup
    BY DEF Init, NoLostWakeup
  <1>5. HeapExact
    BY DEF Init, HeapExact
  <1> QED
    BY <1>1, <1>2, <1>3, <1>4, <1>5 DEF IInv

(* thread_queue_event or a direct callback keeps the types.                *)
LEMMA SendType ==
  ASSUME TypeOK, NEW k \in EventType, Send(k)
  PROVE  /\ sent' \in Seq(EventType) /\ heap' \subseteq Nat /\ queue' \in Seq(Nat)
         /\ called' \in Seq(Nat) /\ out' \in {"signal", "direct"}
  <1>1. sent \in Seq(EventType) /\ queue \in Seq(Nat) /\ called \in Seq(Nat) /\ heap \subseteq Nat
    BY DEF TypeOK
  <1>2. Len(sent) + 1 \in Nat
    BY <1>1
  <1>3. Append(queue, Len(sent) + 1) \in Seq(Nat) /\ Append(called, Len(sent) + 1) \in Seq(Nat)
    BY <1>1, <1>2
  <1>4. Append(sent, k) \in Seq(EventType)
    BY <1>1
  <1> QED
    BY <1>1, <1>2, <1>3, <1>4 DEF Send, Enqueue

(* ms_abort keeps the types.                                               *)
LEMMA AbortType ==
  ASSUME TypeOK, AskAbort \/ UNCHANGED <<want, mark>>
  PROVE  want' \in BOOLEAN /\ mark' \in Nat
  <1>1. Len(sent) \in Nat
    BY DEF TypeOK
  <1> QED
    BY <1>1 DEF TypeOK, AskAbort

(* A step of the worker that sends at most one event keeps the types.      *)
LEMMA WorkerStepType ==
  ASSUME TypeOK, NoSend \/ \E k \in EventType : Send(k), WorkerKeeps,
         dirs' \in Nat, files' \in Nat,
         wpc' \in {"none", "init", "discover", "visited", "report", "scan", "file",
                   "progress", "out", "exit", "exited"}
  PROVE  TypeOK'
  <1>1. /\ sent' \in Seq(EventType) /\ heap' \subseteq Nat /\ queue' \in Seq(Nat)
        /\ called' \in Seq(Nat) /\ out' \in {"idle", "signal", "direct"}
    <2>1. CASE NoSend
      BY <2>1 DEF NoSend, TypeOK
    <2>2. CASE \E k \in EventType : Send(k)
      BY <2>2, SendType
    <2> QED
      BY <2>1, <2>2
  <1>2. UNCHANGED <<thread, want, pipe, fds, alive, cpc, inhand, mark>>
    BY DEF WorkerKeeps, client
  <1> QED
    BY <1>1, <1>2 DEF TypeOK

(* A step keeps every variable in its type.                                *)
LEMMA TypeStep == ASSUME TypeOK, FileInHand, [Next]_vars PROVE TypeOK' /\ FileInHand'
  <1> USE AsyncScanAssumption
  <1>1. CASE UNCHANGED vars
    BY <1>1 DEF TypeOK, FileInHand, vars, worker, client
  <1>2. CASE Signal
    BY <1>2 DEF TypeOK, FileInHand, Signal, client
  <1>3. CASE DirectReturn
    <2>1. want' \in BOOLEAN /\ mark' \in Nat
      BY <1>3, AbortType DEF DirectReturn, MayAbort
    <2>2. heap' \subseteq Nat /\ out' \in {"idle", "signal", "direct"}
      BY <1>3 DEF TypeOK, DirectReturn
    <2>3. UNCHANGED <<wpc, dirs, files, thread, queue, pipe, fds, alive, cpc, inhand, sent, called>>
      BY <1>3 DEF DirectReturn, client
    <2> QED
      BY <2>1, <2>2, <2>3 DEF TypeOK, FileInHand
  <1>4. CASE WorkerInit
    <2>1. TypeOK'
      <3>1. NoSend \/ \E k \in EventType : Send(k)
        BY <1>4 DEF WorkerInit, EventType
      <3>2. /\ WorkerKeeps /\ dirs' \in Nat /\ files' \in Nat
            /\ wpc' \in {"none", "init", "discover", "visited", "report", "scan", "file",
                         "progress", "out", "exit", "exited"}
        BY <1>4 DEF TypeOK, WorkerInit
      <3> QED
        BY <3>1, <3>2, WorkerStepType
    <2>2. FileInHand'
      BY <1>4 DEF FileInHand, WorkerInit
    <2> QED
      BY <2>1, <2>2
  <1>5. CASE VisitDir
    <2>1. TypeOK'
      <3>1. NoSend \/ \E k \in EventType : Send(k)
        BY <1>5 DEF VisitDir, EventType
      <3>2. /\ WorkerKeeps /\ dirs' \in Nat /\ files' \in Nat
            /\ wpc' \in {"none", "init", "discover", "visited", "report", "scan", "file",
                         "progress", "out", "exit", "exited"}
        BY <1>5, AsyncScanAssumption DEF TypeOK, VisitDir
      <3> QED
        BY <3>1, <3>2, WorkerStepType
    <2>2. FileInHand'
      BY <1>5 DEF FileInHand, VisitDir
    <2> QED
      BY <2>1, <2>2
  <1>6. CASE DirVisited
    <2>1. TypeOK'
      <3>1. NoSend \/ \E k \in EventType : Send(k)
        BY <1>6 DEF DirVisited, EventType
      <3>2. /\ WorkerKeeps /\ dirs' \in Nat /\ files' \in Nat
            /\ wpc' \in {"none", "init", "discover", "visited", "report", "scan", "file",
                         "progress", "out", "exit", "exited"}
        BY <1>6 DEF TypeOK, DirVisited
      <3> QED
        BY <3>1, <3>2, WorkerStepType
    <2>2. FileInHand'
      BY <1>6 DEF FileInHand, DirVisited
    <2> QED
      BY <2>1, <2>2
  <1>21. CASE DirReported
    <2>1. TypeOK'
      <3>1. NoSend \/ \E k \in EventType : Send(k)
        BY <1>21 DEF DirReported, EventType
      <3>2. /\ WorkerKeeps /\ dirs' \in Nat /\ files' \in Nat
            /\ wpc' \in {"none", "init", "discover", "visited", "report", "scan", "file",
                         "progress", "out", "exit", "exited"}
        BY <1>21 DEF TypeOK, DirReported
      <3> QED
        BY <3>1, <3>2, WorkerStepType
    <2>2. FileInHand'
      BY <1>21 DEF FileInHand, DirReported
    <2> QED
      BY <2>1, <2>2
  <1>7. CASE DiscoveryDone
    BY <1>7 DEF TypeOK, FileInHand, DiscoveryDone, NoSend, WorkerKeeps, client
  <1>8. CASE NextFile
    BY <1>8 DEF TypeOK, FileInHand, NextFile, NoSend, WorkerKeeps, client
  <1>9. CASE ScanFile
    <2>1. TypeOK'
      <3>1. NoSend \/ \E k \in EventType : Send(k)
        BY <1>9 DEF ScanFile, EventType
      <3>2. /\ WorkerKeeps /\ dirs' \in Nat /\ files' \in Nat
            /\ wpc' \in {"none", "init", "discover", "visited", "report", "scan", "file",
                         "progress", "out", "exit", "exited"}
        BY <1>9 DEF TypeOK, ScanFile
      <3> QED
        BY <3>1, <3>2, WorkerStepType
    <2>2. FileInHand'
      BY <1>9 DEF FileInHand, ScanFile
    <2> QED
      BY <2>1, <2>2
  <1>10. CASE FileDone
    <2>1. files - 1 \in Nat
      BY <1>10 DEF TypeOK, FileInHand, FileDone
    <2> QED
      <3>1. NoSend \/ \E k \in EventType : Send(k)
        BY <1>10 DEF FileDone, EventType
      <3>2. /\ WorkerKeeps /\ dirs' \in Nat /\ files' \in Nat
            /\ wpc' \in {"none", "init", "discover", "visited", "report", "scan", "file",
                         "progress", "out", "exit", "exited"}
        BY <1>10, <2>1 DEF TypeOK, FileDone
      <3>3. FileInHand'
        BY <1>10 DEF FileInHand, FileDone
      <3> QED
        BY <3>1, <3>2, <3>3, WorkerStepType
  <1>11. CASE Aborted
    BY <1>11 DEF TypeOK, FileInHand, Aborted, NoSend, WorkerKeeps, client
  <1>12. CASE ScanDone
    <2>1. TypeOK'
      <3>1. NoSend \/ \E k \in EventType : Send(k)
        BY <1>12 DEF ScanDone, EventType
      <3>2. /\ WorkerKeeps /\ dirs' \in Nat /\ files' \in Nat
            /\ wpc' \in {"none", "init", "discover", "visited", "report", "scan", "file",
                         "progress", "out", "exit", "exited"}
        BY <1>12 DEF TypeOK, ScanDone
      <3> QED
        BY <3>1, <3>2, WorkerStepType
    <2>2. FileInHand'
      BY <1>12 DEF FileInHand, ScanDone
    <2> QED
      BY <2>1, <2>2
  <1>13. CASE Finish
    <2>1. TypeOK'
      <3>1. NoSend \/ \E k \in EventType : Send(k)
        BY <1>13 DEF Finish, EventType
      <3>2. /\ WorkerKeeps /\ dirs' \in Nat /\ files' \in Nat
            /\ wpc' \in {"none", "init", "discover", "visited", "report", "scan", "file",
                         "progress", "out", "exit", "exited"}
        BY <1>13 DEF TypeOK, Finish
      <3> QED
        BY <3>1, <3>2, WorkerStepType
    <2>2. FileInHand'
      BY <1>13 DEF FileInHand, Finish
    <2> QED
      BY <2>1, <2>2
  <1>14. CASE WorkerExit
    BY <1>14 DEF TypeOK, FileInHand, WorkerExit, NoSend, WorkerKeeps, client
  <1>15. CASE ScanStart \/ Publish \/ Abort
    <2>1. CASE ScanStart
      BY <2>1 DEF TypeOK, FileInHand, ScanStart, ClientKeeps, NoAbort
    <2>2. CASE Publish
      BY <2>2 DEF TypeOK, FileInHand, Publish, ClientKeeps, NoAbort
    <2>3. CASE Abort
      <3>1. want' \in BOOLEAN /\ mark' \in Nat
        BY <2>3, AbortType DEF Abort
      <3>2. UNCHANGED <<wpc, out, dirs, files, thread, queue, pipe, fds, heap, alive, cpc, inhand,
                        sent, called>>
        BY <2>3 DEF Abort, ClientKeeps, client
      <3> QED
        BY <3>1, <3>2 DEF TypeOK, FileInHand
    <2> QED
      BY <1>15, <2>1, <2>2, <2>3
  <1>16. CASE ProcessStart
    BY <1>16 DEF TypeOK, FileInHand, ProcessStart, BytesRead, ClientKeeps, NoAbort
  <1>17. CASE NoMoreEvents \/ CallbackReturn \/ Release
    <2>1. CASE NoMoreEvents
      BY <2>1 DEF TypeOK, FileInHand, NoMoreEvents, ClientKeeps, NoAbort
    <2>2. CASE CallbackReturn
      BY <2>2, AbortType DEF TypeOK, FileInHand, CallbackReturn, MayAbort, ClientKeeps
    <2>3. CASE Release
      BY <2>3 DEF TypeOK, FileInHand, Release, ClientKeeps, NoAbort
    <2> QED
      BY <1>17, <2>1, <2>2, <2>3
  <1>18. CASE DestroyStart \/ Join \/ DestroyEnd
    <2>1. CASE DestroyStart
      BY <2>1, AbortType DEF TypeOK, FileInHand, DestroyStart, ClientKeeps, NoAbort
    <2>2. CASE Join
      BY <2>2 DEF TypeOK, FileInHand, Join, ClientKeeps, NoAbort
    <2>3. CASE DestroyEnd
      BY <2>3 DEF TypeOK, FileInHand, DestroyEnd, ClientKeeps, NoAbort
    <2> QED
      BY <1>18, <2>1, <2>2, <2>3
  <1>19. CASE Reclaim
    <2>1. Tail(queue) \in Seq(Nat)
      BY <1>19 DEF TypeOK, Reclaim
    <2>2. heap' \subseteq Nat
      BY <1>19 DEF TypeOK, Reclaim
    <2>3. queue' \in Seq(Nat)
      BY <1>19, <2>1 DEF Reclaim
    <2>4. UNCHANGED <<wpc, out, dirs, files, thread, want, fds, alive, called, sent, pipe, mark,
                      inhand, cpc>>
      BY <1>19 DEF Reclaim, ClientKeeps, NoAbort, client
    <2> QED
      BY <2>2, <2>3, <2>4 DEF TypeOK, FileInHand
  <1>20. CASE NextEvent
    <2>1. Head(queue) \in Nat /\ Tail(queue) \in Seq(Nat)
      BY <1>20 DEF TypeOK, NextEvent
    <2>2. Append(called, Head(queue)) \in Seq(Nat)
      BY <2>1 DEF TypeOK
    <2> QED
      BY <1>20, <2>1, <2>2 DEF TypeOK, FileInHand, NextEvent, ClientKeeps, NoAbort
  <1> QED
    BY <1>1, <1>2, <1>3, <1>4, <1>5, <1>6, <1>7, <1>8, <1>9, <1>10, <1>11, <1>12, <1>13, <1>14,
       <1>15, <1>16, <1>17, <1>18, <1>19, <1>20, <1>21
    DEF Next, Worker, Client, ClientProgress, Closed

(* Every variable of the asynchronous scan keeps its type.                 *)
THEOREM TypeCorrect == Spec => []TypeOK
  <1>1. Init => TypeOK /\ FileInHand
    BY InitIInv DEF IInv
  <1> QED
    BY <1>1, TypeStep, PTL DEF Spec
-----------------------------------------------------------------------------
(* The steps of do_scan itself, not those of its current send_* call.      *)
ScanStep ==
  \/ WorkerInit \/ VisitDir \/ DirVisited \/ DirReported \/ DiscoveryDone
  \/ NextFile \/ ScanFile \/ FileDone \/ Aborted \/ ScanDone \/ Finish \/ WorkerExit

(* Such a step changes nothing the client changes, and sends at most one   *)
(* event.                                                                  *)
LEMMA ScanStepShape ==
  ASSUME Phases, ScanStep
  PROVE  /\ wpc \notin Ended /\ out = "idle" /\ WorkerKeeps /\ wpc' # "none"
         /\ \/ NoSend
            \/ /\ \E k \in EventType : Send(k)
               /\ wpc' \notin Ended \cup {"init", "visited", "report", "file"}
  <1> USE DEF Phases, Ended
  <1>1. CASE WorkerInit
    BY <1>1 DEF WorkerInit, EventType
  <1>2. CASE VisitDir
    BY <1>2 DEF VisitDir
  <1>3. CASE DirVisited
    BY <1>3 DEF DirVisited
  <1>12. CASE DirReported
    BY <1>12 DEF DirReported, EventType
  <1>4. CASE DiscoveryDone
    BY <1>4 DEF DiscoveryDone
  <1>5. CASE NextFile
    BY <1>5 DEF NextFile
  <1>6. CASE ScanFile
    BY <1>6 DEF ScanFile, EventType
  <1>7. CASE FileDone
    BY <1>7 DEF FileDone, EventType
  <1>8. CASE Aborted
    BY <1>8 DEF Aborted
  <1>9. CASE ScanDone
    BY <1>9 DEF ScanDone, EventType
  <1>10. CASE Finish
    BY <1>10 DEF Finish, EventType
  <1>11. CASE WorkerExit
    BY <1>11 DEF WorkerExit
  <1> QED
    BY <1>1, <1>2, <1>3, <1>4, <1>5, <1>6, <1>7, <1>8, <1>9, <1>10, <1>11, <1>12
    DEF ScanStep

(* The phases of the two threads stay in step.                             *)
LEMMA PhasesStep == ASSUME IInv, [Next]_vars PROVE Phases'
  <1> USE DEF Phases, Ended
  <1>0. Phases
    BY DEF IInv
  <1>1. CASE UNCHANGED vars
    BY <1>0, <1>1 DEF vars, worker, client
  <1>2. CASE Signal
    BY <1>0, <1>2 DEF Signal, client
  <1>3. CASE DirectReturn
    BY <1>0, <1>3 DEF DirectReturn, client
  <1>4. CASE ScanStep
    <2>1. CASE NoSend
      BY <1>0, <1>4, <2>1, ScanStepShape DEF NoSend, WorkerKeeps, client
    <2>2. ASSUME NEW k \in EventType, Send(k) PROVE Phases'
      <3>1. CASE NoSend
        BY <2>1, <3>1
      <3>2. CASE wpc' \notin Ended \cup {"init", "visited", "report", "file"}
        BY <1>0, <1>4, <3>2, ScanStepShape DEF WorkerKeeps, client
      <3> QED
        BY <1>0, <1>4, <3>1, <3>2, ScanStepShape
    <2> QED
      BY <1>0, <1>4, <2>1, <2>2, ScanStepShape
  <1>5. CASE ScanStart
    BY <1>0, <1>5 DEF ScanStart, ClientKeeps
  <1>6. CASE Publish
    BY <1>0, <1>6 DEF Publish, ClientKeeps
  <1>7. CASE Abort
    BY <1>0, <1>7 DEF Abort, client, ClientKeeps
  <1>8. CASE ProcessStart
    BY <1>0, <1>8 DEF ProcessStart, ClientKeeps
  <1>9. CASE NextEvent
    BY <1>0, <1>9 DEF NextEvent, ClientKeeps
  <1>10. CASE NoMoreEvents
    BY <1>0, <1>10 DEF NoMoreEvents, ClientKeeps
  <1>11. CASE CallbackReturn
    BY <1>0, <1>11 DEF CallbackReturn, ClientKeeps
  <1>12. CASE Release
    BY <1>0, <1>12 DEF Release, ClientKeeps
  <1>13. CASE DestroyStart
    BY <1>0, <1>13 DEF DestroyStart, ClientKeeps
  <1>14. CASE Join
    BY <1>0, <1>14 DEF Join, ClientKeeps
  <1>15. CASE Reclaim
    BY <1>0, <1>15 DEF Reclaim, client, ClientKeeps
  <1>16. CASE DestroyEnd
    BY <1>0, <1>16 DEF DestroyEnd, ClientKeeps
  <1> QED
    BY <1>1, <1>2, <1>3, <1>4, <1>5, <1>6, <1>7, <1>8, <1>9, <1>10, <1>11, <1>12, <1>13, <1>14,
       <1>15, <1>16
    DEF Next, Worker, ScanStep, Client, ClientProgress, Closed

(* No wake-up is lost by a step.                                           *)
LEMMA WakeupStep == ASSUME IInv, [Next]_vars PROVE NoLostWakeup'
  <1> USE DEF NoLostWakeup, TearingDown
  <1>0. NoLostWakeup /\ TypeOK
    BY DEF IInv
  <1>1. CASE UNCHANGED vars
    BY <1>0, <1>1 DEF vars, worker, client
  <1>2. CASE Signal
    BY <1>0, <1>2 DEF Signal, client, TypeOK
  <1>3. CASE DirectReturn
    BY <1>0, <1>3 DEF DirectReturn, client
  <1>4. CASE ScanStep
    <2>1. CASE NoSend
      BY <1>0, <1>4, <2>1, ScanStepShape DEF NoSend, WorkerKeeps, client, IInv
    <2>2. ASSUME NEW k \in EventType, Send(k) PROVE NoLostWakeup'
      BY <1>0, <1>4, <2>2, ScanStepShape DEF Send, WorkerKeeps, client, IInv, Hands
    <2> QED
      BY <1>4, <2>1, <2>2, ScanStepShape DEF IInv
  <1>5. CASE ScanStart \/ Publish \/ Abort
    BY <1>0, <1>5 DEF ScanStart, Publish, Abort, client, IInv, Hands
  <1>6. CASE ProcessStart
    BY <1>0, <1>6 DEF ProcessStart
  <1>7. CASE NextEvent
    BY <1>0, <1>7 DEF NextEvent
  <1>8. CASE NoMoreEvents
    BY <1>0, <1>8 DEF NoMoreEvents
  <1>9. CASE CallbackReturn
    BY <1>0, <1>9 DEF CallbackReturn
  <1>10. CASE Release
    BY <1>0, <1>10 DEF Release
  <1>11. CASE DestroyStart \/ Join \/ DestroyEnd
    BY <1>0, <1>11 DEF DestroyStart, Join, DestroyEnd
  <1>12. CASE Reclaim
    BY <1>0, <1>12 DEF Reclaim, client
  <1> QED
    BY <1>1, <1>2, <1>3, <1>4, <1>5, <1>6, <1>7, <1>8, <1>9, <1>10, <1>11, <1>12
    DEF Next, Worker, ScanStep, Client, ClientProgress, Closed

(* The hands of the two threads stay as they should.                       *)
LEMMA HandsStep == ASSUME IInv, [Next]_vars PROVE Hands'
  <1> USE DEF Hands
  <1>0. Hands /\ Phases /\ TypeOK
    BY DEF IInv
  <1>1. CASE UNCHANGED vars
    BY <1>0, <1>1 DEF vars, worker, client
  <1>2. CASE Signal
    BY <1>0, <1>2 DEF Signal, client
  <1>3. CASE DirectReturn
    BY <1>0, <1>3 DEF DirectReturn, client
  <1>4. CASE ScanStep
    <2>1. CASE NoSend
      BY <1>0, <1>4, <2>1, ScanStepShape DEF NoSend, WorkerKeeps, client
    <2>2. ASSUME NEW k \in EventType, Send(k) PROVE Hands'
      <3>4. WorkerKeeps /\ (~thread => cpc = "publish")
        BY <1>0, <1>4, ScanStepShape DEF Phases
      <3>5. sent' # <<>>
        <4>1. sent \in Seq(EventType) /\ sent' = Append(sent, k)
          BY <1>0, <2>2 DEF Send, TypeOK
        <4> QED
          BY <4>1
      <3>1. WorkerKeeps /\ (~thread => cpc = "publish") /\ sent' # <<>>
        BY <3>4, <3>5
      <3>2. CASE thread
        BY <1>0, <2>2, <3>1, <3>2 DEF Send, WorkerKeeps, client
      <3>3. CASE ~thread
        BY <1>0, <2>2, <3>1, <3>3 DEF Send, WorkerKeeps, client
      <3> QED
        BY <3>2, <3>3
    <2> QED
      BY <1>0, <1>4, <2>1, <2>2, ScanStepShape
  <1>5. CASE ScanStart \/ Publish \/ Abort
    BY <1>0, <1>5 DEF ScanStart, Publish, Abort, client, ClientKeeps
  <1>6. CASE ProcessStart
    BY <1>0, <1>6 DEF ProcessStart, ClientKeeps
  <1>7. CASE NextEvent
    <2>1. /\ Head(queue) = queue[1] /\ Len(queue) > 0 /\ 1 \in DOMAIN queue
          /\ Len(called') = Len(called) + 1
      BY <1>0, <1>7 DEF NextEvent, TypeOK
    <2>2. queue[1] = Len(sent) - Len(queue) + 1
      BY <2>1 DEF IInv, Order, InOrderOnce
    <2>3. ~TearingDown
      BY <1>0, <1>7 DEF NextEvent, TearingDown
    <2>4. Len(sent) \in Nat /\ Len(queue) \in Nat /\ Len(called) \in Nat
      BY <1>0 DEF TypeOK
    <2>5. inhand' = Len(called') /\ inhand' # 0
      BY <1>7, <2>1, <2>2, <2>3, <2>4 DEF NextEvent, IInv, Order, InOrderOnce
    <2> QED
      BY <1>0, <1>7, <2>1, <2>5 DEF NextEvent, ClientKeeps
  <1>8. CASE NoMoreEvents
    BY <1>0, <1>8 DEF NoMoreEvents, ClientKeeps
  <1>9. CASE CallbackReturn
    BY <1>0, <1>9 DEF CallbackReturn, ClientKeeps
  <1>10. CASE Release
    BY <1>0, <1>10 DEF Release, ClientKeeps
  <1>11. CASE DestroyStart
    BY <1>0, <1>11 DEF DestroyStart, ClientKeeps
  <1>12. CASE Join
    BY <1>0, <1>12 DEF Join, ClientKeeps
  <1>13. CASE Reclaim
    BY <1>0, <1>13 DEF Reclaim, client, ClientKeeps
  <1>14. CASE DestroyEnd
    BY <1>0, <1>14 DEF DestroyEnd, ClientKeeps
  <1> QED
    BY <1>1, <1>2, <1>3, <1>4, <1>5, <1>6, <1>7, <1>8, <1>9, <1>10, <1>11, <1>12, <1>13, <1>14
    DEF Next, Worker, ScanStep, Client, ClientProgress, Closed

(* Sending an event keeps the order.                                       *)
LEMMA SendOrder ==
  ASSUME IInv, NEW k \in EventType, Send(k), UNCHANGED <<cpc, alive>>, wpc \notin Ended
  PROVE  Order'
  <1>0. TypeOK /\ Order /\ Hands /\ Phases
    BY DEF IInv
  <1>1. /\ Len(sent) \in Nat /\ Len(queue) \in Nat /\ Len(called) \in Nat
        /\ Len(sent') = Len(sent) + 1
    BY <1>0 DEF TypeOK, Send
  <1>2. CASE queue' = Enqueue(Len(sent) + 1) /\ UNCHANGED called
    <2>1. /\ Len(queue') = Len(queue) + 1 /\ queue'[Len(queue) + 1] = Len(sent) + 1
          /\ \A i \in DOMAIN queue : queue'[i] = queue[i]
          /\ DOMAIN queue' = DOMAIN queue \cup {Len(queue) + 1}
      BY <1>0, <1>2 DEF TypeOK, Enqueue
    <2>2. \A i \in DOMAIN queue' : queue'[i] = Len(sent') - Len(queue') + i
      <3>1. DOMAIN queue = 1..Len(queue)
        BY <1>0 DEF TypeOK
      <3> QED
        BY <1>0, <1>1, <2>1, <3>1 DEF Order, InOrderOnce
    <2> QED
      BY <1>0, <1>1, <1>2, <2>1, <2>2 DEF Order, InOrderOnce, TearingDown
  <1>3. CASE ~thread /\ called' = Append(called, Len(sent) + 1) /\ UNCHANGED queue
    <2>1. queue = <<>> /\ ~TearingDown
      BY <1>0, <1>3 DEF Hands, Phases, Ended, TearingDown
    <2>2. Len(called) = Len(sent)
      BY <1>0, <1>1, <2>1 DEF Order, InOrderOnce
    <2>3. /\ Len(called') = Len(called) + 1 /\ called'[Len(called) + 1] = Len(sent) + 1
          /\ \A i \in DOMAIN called : called'[i] = called[i]
          /\ DOMAIN called' = DOMAIN called \cup {Len(called) + 1}
      BY <1>0, <1>3 DEF TypeOK
    <2>4. \A i \in DOMAIN called' : called'[i] = i
      BY <1>0, <2>2, <2>3 DEF Order, InOrderOnce
    <2> QED
      BY <1>0, <1>1, <1>3, <2>1, <2>2, <2>3, <2>4 DEF Order, InOrderOnce
  <1> QED
    BY <1>2, <1>3 DEF Send

(* Taking the first event off the queue keeps what is behind it in order.  *)
LEMMA PopOrder ==
  ASSUME IInv, queue # <<>>, queue' = Tail(queue), UNCHANGED sent
  PROVE  /\ Len(queue') = Len(queue) - 1 /\ Head(queue) = Len(sent) - Len(queue) + 1
         /\ \A i \in DOMAIN queue' : queue'[i] = Len(sent) - Len(queue') + i
         /\ \A i \in DOMAIN queue' : i + 1 \in DOMAIN queue /\ queue'[i] = queue[i + 1]
  <1>0. TypeOK /\ Order
    BY DEF IInv
  <1>1. /\ Len(sent) \in Nat /\ Len(queue) \in Nat /\ Len(queue) > 0
        /\ Len(queue') = Len(queue) - 1 /\ DOMAIN queue' = 1..Len(queue')
        /\ DOMAIN queue = 1..Len(queue) /\ Head(queue) = queue[1]
    BY <1>0 DEF TypeOK
  <1>2. \A i \in DOMAIN queue' : i + 1 \in DOMAIN queue /\ queue'[i] = queue[i + 1]
    BY <1>0, <1>1 DEF TypeOK
  <1>3. \A j \in DOMAIN queue : queue[j] = Len(sent) - Len(queue) + j
    BY <1>0 DEF Order, InOrderOnce
  <1>4. Head(queue) = Len(sent) - Len(queue) + 1
    BY <1>1, <1>3
  <1>5. ASSUME NEW i \in DOMAIN queue' PROVE queue'[i] = Len(sent) - Len(queue') + i
    <2>1. i \in Int /\ queue'[i] = queue[i + 1] /\ i + 1 \in DOMAIN queue
      BY <1>1, <1>2
    <2>2. queue[i + 1] = Len(sent) - Len(queue) + (i + 1)
      BY <1>3, <2>1
    <2> QED
      BY <1>1, <2>1, <2>2
  <1> QED
    BY <1>1, <1>2, <1>4, <1>5

(* Steps that leave sent, queue, called and the client's life alone.       *)
LEMMA SameOrder ==
  ASSUME Order, UNCHANGED <<sent, queue, called>>, TearingDown => TearingDown'
  PROVE  Order'
  BY DEF Order, InOrderOnce

(* The order of events is kept by every step.                              *)
LEMMA OrderStep == ASSUME IInv, [Next]_vars PROVE Order'
  <1> USE DEF TearingDown
  <1>0. Order /\ Phases /\ TypeOK /\ Hands
    BY DEF IInv
  <1>1. CASE UNCHANGED vars
    BY <1>0, <1>1, SameOrder DEF vars, worker, client
  <1>2. CASE Signal \/ DirectReturn
    BY <1>0, <1>2, SameOrder DEF Signal, DirectReturn, client
  <1>3. CASE ScanStep
    <2>1. WorkerKeeps /\ wpc \notin Ended
      BY <1>0, <1>3, ScanStepShape
    <2>2. CASE NoSend
      BY <1>0, <2>1, <2>2, SameOrder DEF NoSend, WorkerKeeps, client
    <2>3. ASSUME NEW k \in EventType, Send(k) PROVE Order'
      BY <2>1, <2>3, SendOrder DEF WorkerKeeps, client
    <2> QED
      BY <1>0, <1>3, <2>2, <2>3, ScanStepShape
  <1>4. CASE ScanStart \/ Publish \/ Abort
    BY <1>0, <1>4, SameOrder DEF ScanStart, Publish, Abort, client, ClientKeeps
  <1>5. CASE ProcessStart \/ NoMoreEvents
    BY <1>0, <1>5, SameOrder DEF ProcessStart, NoMoreEvents, ClientKeeps
  <1>6. CASE CallbackReturn \/ Release
    BY <1>0, <1>6, SameOrder DEF CallbackReturn, Release, ClientKeeps
  <1>7. CASE DestroyStart
    BY <1>0, <1>7, SameOrder DEF DestroyStart, ClientKeeps
  <1>8. CASE Join \/ DestroyEnd
    BY <1>0, <1>8, SameOrder DEF Join, DestroyEnd, ClientKeeps
  <1>9. CASE NextEvent
    <2>1. /\ queue # <<>> /\ queue' = Tail(queue) /\ UNCHANGED sent
          /\ called' = Append(called, Head(queue)) /\ ~TearingDown
      BY <1>9 DEF NextEvent, ClientKeeps
    <2>2. /\ Len(queue') = Len(queue) - 1 /\ Head(queue) = Len(sent) - Len(queue) + 1
          /\ \A i \in DOMAIN queue' : queue'[i] = Len(sent) - Len(queue') + i
      BY <2>1, PopOrder
    <2>3. /\ Len(sent) \in Nat /\ Len(queue) \in Nat /\ Len(called) \in Nat
          /\ Len(called) + Len(queue) = Len(sent)
      BY <1>0, <2>1 DEF TypeOK, Order, InOrderOnce
    <2>4. /\ Len(called') = Len(called) + 1 /\ called'[Len(called) + 1] = Head(queue)
          /\ \A i \in DOMAIN called : called'[i] = called[i]
          /\ DOMAIN called' = DOMAIN called \cup {Len(called) + 1}
      BY <1>0, <2>1 DEF TypeOK
    <2>5. Head(queue) = Len(called) + 1
      BY <2>2, <2>3
    <2>6. \A i \in DOMAIN called' : called'[i] = i
      BY <1>0, <2>4, <2>5 DEF Order, InOrderOnce
    <2>7. Len(called') + Len(queue') = Len(sent')
      BY <2>1, <2>2, <2>3, <2>4
    <2> QED
      BY <2>1, <2>2, <2>3, <2>6, <2>7 DEF Order, InOrderOnce
  <1>10. CASE Reclaim
    <2>1. /\ queue # <<>> /\ queue' = Tail(queue) /\ UNCHANGED <<sent, called, cpc>>
          /\ TearingDown'
      BY <1>10 DEF Reclaim, ClientKeeps, client
    <2>2. /\ Len(queue') = Len(queue) - 1
          /\ \A i \in DOMAIN queue' : queue'[i] = Len(sent) - Len(queue') + i
      BY <2>1, PopOrder
    <2>3. Len(sent) \in Nat /\ Len(queue) \in Nat /\ Len(called) \in Nat
      BY <1>0 DEF TypeOK
    <2> QED
      BY <1>0, <2>1, <2>2, <2>3 DEF Order, InOrderOnce
  <1> QED
    BY <1>1, <1>2, <1>3, <1>4, <1>5, <1>6, <1>7, <1>8, <1>9, <1>10
    DEF Next, Worker, ScanStep, Client, ClientProgress, Closed

(* Steps that leave alone what ownership depends on.                       *)
LEMMA SameHeap ==
  ASSUME HeapExact, UNCHANGED <<sent, queue, inhand, heap>>,
         out' = out \/ (out # "direct" /\ out' # "direct")
  PROVE  HeapExact'
  BY DEF HeapExact, Owned

(* Sending an event allocates exactly what its new owner has.              *)
LEMMA SendHeap ==
  ASSUME IInv, NEW k \in EventType, Send(k), out = "idle", UNCHANGED inhand, wpc \notin Ended
  PROVE  HeapExact'
  <1>0. TypeOK /\ Hands /\ Phases /\ HeapExact
    BY DEF IInv
  <1>5. PICK n \in Nat : n = Len(sent)
    BY <1>0 DEF TypeOK
  <1>1. /\ n \in Nat /\ sent' = Append(sent, k) /\ DOMAIN sent = 1..n
        /\ DOMAIN sent' = DOMAIN sent \cup {n + 1} /\ n + 1 \notin DOMAIN sent
        /\ Len(sent') = n + 1 /\ sent'[n + 1] = k
        /\ \A id \in DOMAIN sent : sent'[id] = sent[id]
    <2>1. sent \in Seq(EventType) /\ sent' = Append(sent, k)
      BY <1>0 DEF TypeOK, Send
    <2>2. ASSUME NEW S, NEW s \in Seq(S), NEW t, t = Append(s, k), k \in S, Len(s) = n
          PROVE  /\ DOMAIN s = 1..n /\ DOMAIN t = DOMAIN s \cup {n + 1}
                 /\ n + 1 \notin DOMAIN s /\ Len(t) = n + 1 /\ t[n + 1] = k
                 /\ \A id \in DOMAIN s : t[id] = s[id]
      BY <2>2
    <2> QED
      BY <1>5, <2>1, <2>2
  <1>2. heap' = IF Carries(k) THEN heap \cup {n + 1} ELSE heap
    BY <1>5 DEF Send
  <1>3. CASE thread /\ queue' = Enqueue(n + 1) /\ out' = "signal"
    <2>1. /\ queue'[Len(queue) + 1] = n + 1
          /\ DOMAIN queue' = DOMAIN queue \cup {Len(queue) + 1}
          /\ \A i \in DOMAIN queue : queue'[i] = queue[i]
      BY <1>0, <1>1, <1>3 DEF TypeOK, Enqueue
    <2>2. \A id \in DOMAIN sent : Owned(id)' <=> Owned(id)
      BY <1>1, <1>3, <2>1 DEF Owned
    <2>3. Owned(n + 1)' <=> k # "FINISH"
      BY <1>1, <1>3, <2>1 DEF Owned
    <2> QED
      BY <1>0, <1>1, <1>2, <1>3, <2>2, <2>3 DEF HeapExact, Carries
  <1>4. CASE ~thread /\ out' = "direct" /\ UNCHANGED queue
    <2>1. queue = <<>> /\ inhand = 0
      BY <1>0, <1>4 DEF Hands, Phases
    <2>2. \A id \in DOMAIN sent : ~Owned(id) /\ ~Owned(id)'
      BY <1>1, <1>4, <2>1 DEF Owned
    <2>3. Owned(n + 1)' <=> k \notin {"FINISH", "PROGRESS"}
      BY <1>1, <1>4, <2>1 DEF Owned
    <2> QED
      BY <1>0, <1>1, <1>2, <1>4, <2>2, <2>3 DEF HeapExact, Carries
  <1> QED
    BY <1>3, <1>4, <1>5 DEF Send

(* An event the client holds, or that is first in the queue, is not queued *)
(* a second time.                                                          *)
LEMMA Distinct ==
  ASSUME IInv
  PROVE  /\ inhand # 0 => \A i \in DOMAIN queue : queue[i] # inhand
         /\ \A i \in DOMAIN queue : i # 1 => queue[i] # queue[1]
  <1>1. /\ Len(sent) \in Nat /\ Len(queue) \in Nat /\ Len(called) \in Nat
        /\ DOMAIN queue = 1..Len(queue) /\ Len(called) + Len(queue) <= Len(sent)
        /\ inhand # 0 => inhand = Len(called)
    BY DEF IInv, TypeOK, Order, Hands
  <1>2. \A i \in DOMAIN queue : queue[i] = Len(sent) - Len(queue) + i
    BY DEF IInv, Order, InOrderOnce
  <1>3. ASSUME NEW i \in DOMAIN queue
        PROVE  (inhand # 0 => queue[i] # inhand) /\ (i # 1 => queue[i] # queue[1])
    <2>1. i \in 1..Len(queue) /\ 1 \in DOMAIN queue
      BY <1>1
    <2>2. queue[i] = Len(sent) - Len(queue) + i /\ queue[1] = Len(sent) - Len(queue) + 1
      BY <1>2, <2>1
    <2> QED
      BY <1>1, <2>1, <2>2
  <1> QED
    BY <1>3

(* What is allocated is what is owned, after every step.                   *)
LEMMA HeapStep == ASSUME IInv, [Next]_vars PROVE HeapExact'
  <1>0. HeapExact /\ Phases /\ TypeOK /\ Hands
    BY DEF IInv
  <1>00. DOMAIN sent = 1..Len(sent) /\ Len(sent) \in Nat
    BY <1>0 DEF TypeOK
  <1>1. CASE UNCHANGED vars
    BY <1>0, <1>1, SameHeap DEF vars, worker, client
  <1>2. CASE Signal
    BY <1>0, <1>2, SameHeap DEF Signal, client
  <1>3. CASE DirectReturn
    <2>1. /\ queue = <<>> /\ inhand = 0 /\ out = "direct" /\ out' = "idle"
          /\ UNCHANGED <<queue, inhand, sent>> /\ heap' = heap \ {Len(sent)}
      BY <1>0, <1>3 DEF DirectReturn, client, Hands
    <2>2. \A id \in DOMAIN sent : (Owned(id) => id = Len(sent)) /\ ~Owned(id)'
      BY <2>1, <1>00 DEF Owned
    <2> QED
      BY <1>0, <2>1, <2>2 DEF HeapExact
  <1>4. CASE ScanStep
    <2>1. WorkerKeeps /\ wpc \notin Ended /\ out = "idle"
      BY <1>0, <1>4, ScanStepShape
    <2>2. CASE NoSend
      BY <1>0, <2>1, <2>2, SameHeap DEF NoSend, WorkerKeeps, client
    <2>3. ASSUME NEW k \in EventType, Send(k) PROVE HeapExact'
      BY <2>1, <2>3, SendHeap DEF WorkerKeeps, client
    <2> QED
      BY <1>0, <1>4, <2>2, <2>3, ScanStepShape
  <1>5. CASE ScanStart \/ Publish \/ Abort
    BY <1>0, <1>5, SameHeap DEF ScanStart, Publish, Abort, client, ClientKeeps
  <1>6. CASE ProcessStart \/ NoMoreEvents \/ CallbackReturn
    BY <1>0, <1>6, SameHeap DEF ProcessStart, NoMoreEvents, CallbackReturn, ClientKeeps
  <1>7. CASE DestroyStart \/ Join \/ DestroyEnd
    BY <1>0, <1>7, SameHeap DEF DestroyStart, Join, DestroyEnd, ClientKeeps
  <1>8. CASE NextEvent
    <2>1. /\ queue # <<>> /\ queue' = Tail(queue) /\ inhand' = Head(queue) /\ inhand = 0
          /\ UNCHANGED <<sent, heap, out>>
      BY <1>0, <1>8 DEF NextEvent, ClientKeeps, Hands
    <2>2. /\ DOMAIN queue = 1..Len(queue) /\ DOMAIN queue' = 1..Len(queue') /\ Len(queue) \in Nat
          /\ Head(queue) = queue[1] /\ 1 \in DOMAIN queue
      BY <1>0, <2>1 DEF TypeOK
    <2>3. /\ Len(queue') = Len(queue) - 1
          /\ \A i \in DOMAIN queue' : i + 1 \in DOMAIN queue /\ queue'[i] = queue[i + 1]
      BY <2>1, PopOrder
    <2>4. ASSUME NEW id \in DOMAIN sent PROVE Owned(id)' <=> Owned(id)
      <3>1. (\E i \in DOMAIN queue : queue[i] = id)
              <=> id = Head(queue) \/ \E i \in DOMAIN queue' : queue'[i] = id
        <4>1. ASSUME NEW i \in DOMAIN queue, i # 1 PROVE i - 1 \in DOMAIN queue' /\ queue'[i - 1] = queue[i]
          BY <2>2, <2>3, <4>1
        <4> QED
          BY <2>2, <2>3, <4>1
      <3> QED
        BY <2>1, <3>1, <1>00 DEF Owned
    <2> QED
      BY <1>0, <2>1, <2>4 DEF HeapExact
  <1>9. CASE Release
    <2>1. /\ heap' = heap \ {inhand} /\ inhand' = 0 /\ UNCHANGED <<sent, queue, out>>
      BY <1>9 DEF Release, ClientKeeps
    <2>2. ASSUME NEW id \in DOMAIN sent PROVE Owned(id)' <=> Owned(id) /\ id # inhand
      BY <1>0, <1>00, <2>1, Distinct DEF Owned, Hands
    <2> QED
      BY <1>0, <2>1, <2>2 DEF HeapExact
  <1>10. CASE Reclaim
    <2>1. /\ queue # <<>> /\ queue' = Tail(queue) /\ heap' = heap \ {Head(queue)}
          /\ UNCHANGED <<sent, out, inhand>> /\ out = "idle"
      BY <1>0, <1>10 DEF Reclaim, client, ClientKeeps, Phases
    <2>2. /\ DOMAIN queue = 1..Len(queue) /\ DOMAIN queue' = 1..Len(queue') /\ Len(queue) \in Nat
          /\ Head(queue) = queue[1] /\ 1 \in DOMAIN queue
      BY <1>0, <2>1 DEF TypeOK
    <2>3. /\ Len(queue') = Len(queue) - 1
          /\ \A i \in DOMAIN queue' : i + 1 \in DOMAIN queue /\ queue'[i] = queue[i + 1]
      BY <2>1, PopOrder
    <2>4. ASSUME NEW id \in DOMAIN sent PROVE Owned(id)' <=> Owned(id) /\ id # Head(queue)
      <3>1. (\E i \in DOMAIN queue : queue[i] = id)
              <=> id = Head(queue) \/ \E i \in DOMAIN queue' : queue'[i] = id
        <4>1. ASSUME NEW i \in DOMAIN queue, i # 1 PROVE i - 1 \in DOMAIN queue' /\ queue'[i - 1] = queue[i]
          BY <2>2, <2>3, <4>1
        <4> QED
          BY <2>2, <2>3, <4>1
      <3>2. \A i \in DOMAIN queue' : queue'[i] # Head(queue)
        BY <2>2, <2>3, Distinct
      <3>3. inhand # Head(queue)
        <4>1. Len(queue) <= Len(sent) /\ Head(queue) = Len(sent) - Len(queue) + 1
          BY <1>0, <2>1, <2>2, <1>00, PopOrder DEF IInv, Order, TypeOK
        <4>2. CASE inhand = 0
          BY <4>1, <4>2, <2>2, <1>00
        <4>3. CASE inhand # 0
          BY <4>3, <2>2, Distinct
        <4> QED
          BY <4>2, <4>3
      <3> QED
        BY <2>1, <3>1, <3>2, <3>3 DEF Owned
    <2> QED
      BY <1>0, <2>1, <2>4 DEF HeapExact
  <1> QED
    BY <1>1, <1>2, <1>3, <1>4, <1>5, <1>6, <1>7, <1>8, <1>9, <1>10
    DEF Next, Worker, ScanStep, Client, ClientProgress, Closed

(* The inductive invariant is one.                                         *)
LEMMA IInvStep == ASSUME IInv, [Next]_vars PROVE IInv'
  <1>1. TypeOK' /\ FileInHand'
    BY TypeStep DEF IInv
  <1> QED
    BY <1>1, PhasesStep, HandsStep, OrderStep, WakeupStep, HeapStep DEF IInv

(* The inductive invariant holds of every reachable state.                 *)
THEOREM Inductive == Spec => []IInv
  BY InitIInv, IInvStep, PTL DEF Spec

(* An event in the queue always has someone coming for it.                 *)
THEOREM WakeupsKept == Spec => []NoLostWakeup
  <1>1. IInv => NoLostWakeup
    BY DEF IInv
  <1> QED
    BY <1>1, Inductive, PTL

(* Callbacks are called once per event, in the order of sending.           *)
THEOREM DeliveredInOrder == Spec => []InOrderOnce
  <1>1. IInv => InOrderOnce
    BY DEF IInv, Order
  <1> QED
    BY <1>1, Inductive, PTL

(* No event data is leaked, freed twice or freed while in use.             *)
THEOREM NothingLeaks == Spec => []HeapExact
  <1>1. IInv => HeapExact
    BY DEF IInv
  <1> QED
    BY <1>1, Inductive, PTL

(* The worker never runs on a freed object or a closed pipe.               *)
THEOREM WorkerStopsFirst == Spec => []WorkerOutlived
  <1>1. IInv => WorkerOutlived
    BY DEF IInv, Phases, WorkerOutlived, Ended
  <1> QED
    BY <1>1, Inductive, PTL

(* The two threads never run callbacks at the same time.                   *)
THEOREM OneCallbackAtATime == Spec => []CallbacksNeverOverlap
  <1>1. IInv => CallbacksNeverOverlap
    BY DEF IInv, Hands, CallbacksNeverOverlap
  <1> QED
    BY <1>1, Inductive, PTL

-----------------------------------------------------------------------------
(* What the channel sees as delivered.                                     *)
Delivered == [i \in DOMAIN called |-> sent[called[i]]]

(* It is the prefix of what was sent that has reached its callbacks.       *)
LEMMA DeliveredShape ==
  ASSUME TypeOK, Order
  PROVE  /\ Len(sent) \in Nat /\ Len(called) \in Nat /\ Len(called) <= Len(sent)
         /\ DOMAIN called = 1..Len(called) /\ DOMAIN sent = 1..Len(sent)
         /\ Delivered = [i \in 1..Len(called) |-> sent[i]]
         /\ Delivered \in Seq(EventType) /\ Len(Delivered) = Len(called)
  <1>1. /\ Len(sent) \in Nat /\ Len(called) \in Nat /\ Len(called) <= Len(sent)
        /\ DOMAIN called = 1..Len(called) /\ DOMAIN sent = 1..Len(sent)
    BY DEF TypeOK, Order
  <1>2. Delivered = [i \in 1..Len(called) |-> sent[i]]
    BY <1>1 DEF Order, InOrderOnce, Delivered
  <1>3. \A i \in 1..Len(called) : sent[i] \in EventType
    BY <1>1 DEF TypeOK
  <1> QED
    BY <1>1, <1>2, <1>3

(* Sending an event is an Emit, or an EmitDirect where the worker calls    *)
(* the callback itself.                                                    *)
LEMMA SendEmits ==
  ASSUME IInv, NEW k \in EventType, Send(k), UNCHANGED <<cpc, alive>>, wpc \notin Ended
  PROVE  Channel!Emit \/ Channel!EmitDirect
  <1>0. TypeOK /\ Order /\ Hands /\ Phases
    BY DEF IInv
  <1>1. /\ Len(sent) \in Nat /\ Len(called) \in Nat /\ Len(called) <= Len(sent)
        /\ DOMAIN called = 1..Len(called) /\ DOMAIN sent = 1..Len(sent)
    BY <1>0, DeliveredShape
  <1>6. /\ Delivered = [i \in 1..Len(called) |-> sent[i]]
        /\ Delivered \in Seq(EventType) /\ Len(Delivered) = Len(called)
    BY <1>0, DeliveredShape
  <1>7. \A i \in 1..Len(called) : called[i] = i
    BY <1>0, <1>1 DEF Order, InOrderOnce
  <1>2. /\ sent' = Append(sent, k) /\ sent'[Len(sent) + 1] = k
        /\ \A i \in DOMAIN sent : sent'[i] = sent[i]
    BY <1>0 DEF TypeOK, Send
  <1>3. TearingDown' <=> TearingDown
    BY DEF TearingDown
  <1>4. CASE UNCHANGED called
    <2>1. UNCHANGED Delivered
      <3>1. \A i \in DOMAIN called : called[i] = i /\ sent'[i] = sent[i]
        BY <1>1, <1>2, <1>7
      <3> QED
        BY <1>4, <3>1 DEF Delivered
    <2> QED
      BY <1>2, <1>3, <2>1 DEF Channel!Emit, Delivered
  <1>5. CASE ~thread /\ called' = Append(called, Len(sent) + 1)
    <2>1. queue = <<>> /\ ~TearingDown
      BY <1>0, <1>5 DEF Hands, Phases, Ended, TearingDown
    <2>2. Len(called) = Len(sent)
      BY <1>0, <1>1, <2>1 DEF Order, InOrderOnce
    <2>3. /\ DOMAIN called' = 1..(Len(called) + 1) /\ called'[Len(called) + 1] = Len(sent) + 1
          /\ \A i \in DOMAIN called : called'[i] = called[i]
      BY <1>0, <1>5 DEF TypeOK
    <2>4. Delivered' = [i \in 1..(Len(called) + 1) |-> sent'[i]]
      <3>1. \A i \in 1..(Len(called) + 1) : called'[i] = i
        BY <1>1, <1>7, <2>2, <2>3
      <3> QED
        BY <2>3, <3>1 DEF Delivered
    <2>5. Delivered' = Append(Delivered, k)
      BY <1>1, <1>2, <1>6, <2>2, <2>4
    <2>6. ~(Len(Delivered) < Len(sent))
      BY <1>1, <1>6, <2>2
    <2>7. sent' = Append(sent, k) /\ Delivered' = Append(Delivered, k)
      BY <1>2, <2>5
    <2> QED
      BY <1>3, <2>1, <2>6, <2>7
      DEF Channel!EmitDirect, Channel!Pending, Delivered
  <1> QED
    BY <1>4, <1>5 DEF Send

(* A step that leaves sent, called and the closing alone is invisible.     *)
LEMMA Invisible ==
  ASSUME UNCHANGED <<sent, called>>, TearingDown' <=> TearingDown
  PROVE  UNCHANGED Channel!vars
  BY DEF Channel!vars, TearingDown

(* Every step of the scan is a step of the channel, or invisible to it.    *)
LEMMA ChannelStep == ASSUME IInv, [Next]_vars PROVE [Channel!Next]_(Channel!vars)
  <1> USE DEF TearingDown
  <1>0. Order /\ Phases /\ TypeOK /\ Hands
    BY DEF IInv
  <1>1. CASE UNCHANGED vars
    BY <1>1, Invisible DEF vars, worker, client
  <1>2. CASE Signal \/ DirectReturn
    BY <1>2, Invisible DEF Signal, DirectReturn, client
  <1>3. CASE ScanStep
    <2>1. WorkerKeeps /\ wpc \notin Ended
      BY <1>0, <1>3, ScanStepShape
    <2>2. CASE NoSend
      BY <2>1, <2>2, Invisible DEF NoSend, WorkerKeeps, client
    <2>3. ASSUME NEW k \in EventType, Send(k) PROVE Channel!Next
      BY <2>1, <2>3, SendEmits DEF WorkerKeeps, client, Channel!Next
    <2> QED
      BY <1>0, <1>3, <2>2, <2>3, ScanStepShape
  <1>4. CASE ScanStart \/ Publish \/ Abort
    BY <1>4, Invisible DEF ScanStart, Publish, Abort, client, ClientKeeps
  <1>5. CASE ProcessStart \/ NoMoreEvents
    BY <1>5, Invisible DEF ProcessStart, NoMoreEvents, ClientKeeps
  <1>6. CASE CallbackReturn \/ Release
    BY <1>6, Invisible DEF CallbackReturn, Release, ClientKeeps
  <1>7. CASE DestroyStart
    <2>1. ~TearingDown /\ TearingDown' /\ UNCHANGED <<sent, called>>
      BY <1>0, <1>7 DEF DestroyStart, ClientKeeps, Phases
    <2> QED
      BY <2>1 DEF Channel!Next, Channel!Close
  <1>8. CASE Join
    BY <1>8, Invisible DEF Join, ClientKeeps
  <1>9. CASE DestroyEnd
    BY <1>9, Invisible DEF DestroyEnd, ClientKeeps
  <1>10. CASE Reclaim
    BY <1>10, Invisible DEF Reclaim, client, ClientKeeps
  <1>11. CASE NextEvent
    <2>1. /\ queue # <<>> /\ queue' = Tail(queue) /\ UNCHANGED <<sent, alive>>
          /\ called' = Append(called, Head(queue)) /\ ~TearingDown /\ ~TearingDown'
      BY <1>11 DEF NextEvent, ClientKeeps
    <2>2. Head(queue) = Len(sent) - Len(queue) + 1
      BY <2>1, PopOrder
    <2>3. /\ Len(sent) \in Nat /\ Len(called) \in Nat /\ Len(queue) \in Nat
          /\ Len(called) + Len(queue) = Len(sent) /\ Len(queue) # 0
      BY <1>0, <2>1 DEF TypeOK, Order, InOrderOnce
    <2>4. /\ DOMAIN called' = 1..(Len(called) + 1) /\ called'[Len(called) + 1] = Len(called) + 1
          /\ \A i \in DOMAIN called : called'[i] = called[i]
      BY <1>0, <2>1, <2>2, <2>3 DEF TypeOK
    <2>5. /\ DOMAIN called = 1..Len(called) /\ DOMAIN sent = 1..Len(sent)
          /\ Delivered = [i \in 1..Len(called) |-> sent[i]]
          /\ Delivered \in Seq(EventType) /\ Len(Delivered) = Len(called)
      BY <1>0, DeliveredShape
    <2>6. Delivered' = [i \in 1..(Len(called) + 1) |-> sent[i]]
      BY <1>0, <2>1, <2>4, <2>5 DEF Delivered, Order, InOrderOnce
    <2>7. Delivered' = Append(Delivered, sent[Len(Delivered) + 1])
      BY <2>3, <2>5, <2>6
    <2> QED
      BY <2>1, <2>3, <2>5, <2>7 DEF Channel!Next, Channel!Deliver, Channel!Pending, Delivered
  <1> QED
    BY <1>1, <1>2, <1>3, <1>4, <1>5, <1>6, <1>7, <1>8, <1>9, <1>10, <1>11
    DEF Next, Worker, ScanStep, Client, ClientProgress, Closed

(* The asynchronous scan implements the safety part of EventChannel.       *)
THEOREM RefinesChannel == Spec => Channel!Init /\ [][Channel!Next]_(Channel!vars)
  <1>1. Init => Channel!Init
    BY DEF Init, Channel!Init, TearingDown
  <1> QED
    BY <1>1, Inductive, ChannelStep, PTL DEF Spec
-----------------------------------------------------------------------------
(* The end of the scan, and an abort.                                      *)

(* The finish event is sent when do_scan leaves by out, where no file is   *)
(* left; an abort that is seen is never forgotten.                         *)
Finishing ==
  /\ wpc \in {"none", "init", "out", "exit"} => files = 0
  /\ wpc \notin {"exit", "exited"} => \A i \in DOMAIN sent : sent[i] # "FINISH"
  /\ wpc = "exit" /\ HasFinish => \E i \in DOMAIN sent : sent[i] = "FINISH"
  /\ FinishMeansDone

(* The most that do_scan sends from here on once it is to abort.           *)
StillToSend ==
  CASE wpc = "file" -> 4 [] wpc \in {"progress", "report"} -> 3 [] wpc = "out" -> 1
    [] wpc \in {"exit", "exited"} -> 0 [] OTHER -> 2

Reports == {"RESULT", "ERROR"}

(* Where a result or an error can still follow, nothing was sent since the *)
(* abort was asked for.                                                    *)
Stopping ==
  want =>
    /\ mark <= Len(sent) /\ Len(sent) + StillToSend <= mark + 4
    /\ wpc \in {"none", "init", "file"} => mark = Len(sent)
    /\ \A i, j \in (mark + 1)..Len(sent) : sent[i] \in Reports /\ sent[j] \in Reports => i = j

(* An event that is sent is the last.                                      *)
LEMMA SentLast ==
  ASSUME TypeOK, NEW k \in EventType, Send(k)
  PROVE  /\ Len(sent) \in Nat /\ Len(sent') = Len(sent) + 1 /\ sent'[Len(sent')] = k
         /\ DOMAIN sent = 1..Len(sent) /\ DOMAIN sent' = 1..Len(sent')
         /\ \A i \in DOMAIN sent : sent'[i] = sent[i]
  BY DEF TypeOK, Send

(* Only do_scan and the start of the scan move the worker; nobody takes an *)
(* abort back, or asks for it again.                                       *)
LEMMA OtherSteps ==
  ASSUME [Next]_vars
  PROVE  \/ ScanStep
         \/ /\ UNCHANGED <<files, sent>>
            /\ UNCHANGED wpc \/ (wpc = "none" /\ wpc' = "init")
            /\ AskAbort \/ UNCHANGED <<want, mark>>
  <1>1. CASE UNCHANGED vars
    BY <1>1 DEF vars, worker
  <1>2. CASE Signal \/ DirectReturn
    BY <1>2 DEF Signal, DirectReturn, MayAbort
  <1>3. CASE ScanStart \/ Publish \/ Abort \/ DestroyStart
    BY <1>3 DEF ScanStart, Publish, Abort, DestroyStart, ClientKeeps, NoAbort
  <1>4. CASE ProcessStart \/ NextEvent \/ NoMoreEvents \/ CallbackReturn \/ Release
    BY <1>4 DEF ProcessStart, NextEvent, NoMoreEvents, CallbackReturn, Release, MayAbort, ClientKeeps,
                NoAbort
  <1>5. CASE Join \/ Reclaim \/ DestroyEnd
    BY <1>5 DEF Join, Reclaim, DestroyEnd, ClientKeeps, NoAbort
  <1> QED
    BY <1>1, <1>2, <1>3, <1>4, <1>5
    DEF Next, Worker, ScanStep, Client, ClientProgress, Closed

(* Every step keeps the finish event in its place.                         *)
LEMMA FinishingStep == ASSUME TypeOK, Finishing, [Next]_vars PROVE Finishing'
  <1> USE DEF Finishing, FinishMeansDone
  <1>1. CASE /\ UNCHANGED <<files, sent>>
             /\ UNCHANGED wpc \/ (wpc = "none" /\ wpc' = "init")
             /\ AskAbort \/ UNCHANGED <<want, mark>>
    BY <1>1 DEF AskAbort
  <1>2. ASSUME NEW k \in EventType \ {"FINISH"}, Send(k), WorkerKeeps,
               wpc \notin {"exit", "exited"}, wpc' \notin {"exit", "exited"},
               wpc' \in {"none", "init", "out", "exit"} => files' = 0
        PROVE  Finishing'
    BY <1>2, SentLast
  <1>3. ASSUME NoSend, WorkerKeeps, wpc \notin {"exit", "exited"}, wpc' \notin {"exit", "exited"},
               wpc' \in {"none", "init", "out", "exit"} => files' = 0
        PROVE  Finishing'
    BY <1>3 DEF NoSend
  <1>4. CASE WorkerInit
    BY <1>2, <1>3, <1>4 DEF WorkerInit, EventType
  <1>5. CASE VisitDir \/ DirVisited \/ DiscoveryDone \/ NextFile
    BY <1>3, <1>5 DEF VisitDir, DirVisited, DiscoveryDone, NextFile
  <1>6. CASE DirReported
    BY <1>2, <1>6 DEF DirReported, EventType
  <1>7. CASE ScanFile
    BY <1>2, <1>3, <1>7 DEF ScanFile, EventType
  <1>8. CASE FileDone
    BY <1>2, <1>3, <1>8 DEF FileDone, EventType
  <1>9. CASE Aborted
    BY <1>9 DEF Aborted, NoSend, WorkerKeeps
  <1>10. CASE ScanDone
    BY <1>2, <1>3, <1>10 DEF ScanDone, EventType
  <1>11. CASE Finish
    <2>1. wpc = "out" /\ wpc' = "exit" /\ files = 0 /\ files' = 0
      BY <1>11 DEF Finish
    <2>2. CASE HasFinish
      <3>1. Send("FINISH")
        BY <1>11, <2>2 DEF Finish
      <3>2. /\ Len(sent) \in Nat /\ Len(sent') = Len(sent) + 1 /\ sent'[Len(sent')] = "FINISH"
            /\ DOMAIN sent = 1..Len(sent) /\ DOMAIN sent' = 1..Len(sent')
            /\ \A i \in DOMAIN sent : sent'[i] = sent[i]
        BY <3>1, SentLast DEF EventType
      <3>3. \A i \in DOMAIN sent' : sent'[i] = "FINISH" => i = Len(sent')
        BY <2>1, <3>2
      <3> QED
        BY <2>1, <3>2, <3>3
    <2>3. CASE ~HasFinish
      BY <1>11, <2>1, <2>3 DEF Finish, NoSend
    <2> QED
      BY <2>2, <2>3
  <1>12. CASE WorkerExit
    BY <1>12 DEF WorkerExit, NoSend, WorkerKeeps
  <1> QED
    BY <1>1, <1>4, <1>5, <1>6, <1>7, <1>8, <1>9, <1>10, <1>11, <1>12, OtherSteps DEF ScanStep

(* Every step of do_scan takes what it sends off what it may still send.   *)
LEMMA StoppingStep == ASSUME TypeOK, FileInHand, Stopping, [Next]_vars PROVE Stopping'
  <1>0. Len(sent) \in Nat /\ mark \in Nat /\ StillToSend \in 0..4
    BY DEF TypeOK, StillToSend
  <1>1. CASE /\ UNCHANGED <<files, sent>>
             /\ UNCHANGED wpc \/ (wpc = "none" /\ wpc' = "init")
             /\ AskAbort \/ UNCHANGED <<want, mark>>
    <2>1. StillToSend' = StillToSend
      BY <1>1 DEF StillToSend
    <2>2. CASE want
      BY <1>0, <1>1, <2>1, <2>2 DEF Stopping, AskAbort
    <2>3. CASE ~want
      <3>1. ~want' \/ (mark' = Len(sent') /\ Len(sent') \in Nat)
        BY <1>0, <1>1, <2>3 DEF AskAbort
      <3>2. StillToSend' \in 0..4
        BY <1>0, <2>1
      <3> QED
        BY <3>1, <3>2 DEF Stopping
    <2> QED
      BY <2>2, <2>3
  <1>2. ASSUME NoSend, WorkerKeeps, want => StillToSend' <= StillToSend,
               want => wpc' \notin {"none", "init", "file"}
        PROVE  Stopping'
    <2>1. StillToSend' \in 0..4
      BY DEF StillToSend
    <2> QED
      BY <1>0, <1>2, <2>1 DEF Stopping, NoSend, WorkerKeeps
  <1>3. ASSUME NEW k \in EventType, Send(k), WorkerKeeps, want => StillToSend' < StillToSend,
               k \in Reports => wpc \in {"init", "file"},
               want => wpc' \notin {"none", "init", "file"}
        PROVE  Stopping'
    <2>1. StillToSend' \in 0..4
      BY DEF StillToSend
    <2>2. /\ Len(sent') = Len(sent) + 1 /\ sent'[Len(sent')] = k
          /\ DOMAIN sent = 1..Len(sent)
          /\ \A i \in DOMAIN sent : sent'[i] = sent[i]
      BY <1>3, SentLast
    <2>3. UNCHANGED <<want, mark>>
      BY <1>3 DEF WorkerKeeps
    <2>4. want => /\ mark <= Len(sent) /\ Len(sent) + StillToSend <= mark + 4
                  /\ k \in Reports => mark = Len(sent)
      BY <1>3 DEF Stopping
    <2>5. ASSUME want, NEW i \in (mark + 1)..Len(sent'), NEW j \in (mark + 1)..Len(sent'),
                 sent'[i] \in Reports, sent'[j] \in Reports
          PROVE  i = j
      <3>1. CASE k \in Reports
        BY <1>0, <2>2, <2>4, <2>5, <3>1
      <3>2. CASE k \notin Reports
        <4>1. i \in (mark + 1)..Len(sent) /\ j \in (mark + 1)..Len(sent)
          BY <1>0, <2>2, <2>5, <3>2
        <4>2. sent'[i] = sent[i] /\ sent'[j] = sent[j]
          BY <1>0, <2>2, <4>1
        <4> QED
          BY <2>5, <4>1, <4>2 DEF Stopping
      <3> QED
        BY <3>1, <3>2
    <2>6. ASSUME want PROVE mark <= Len(sent') /\ Len(sent') + StillToSend' <= mark + 4
      <3>1. PICK before \in 0..4 : StillToSend = before
        BY <1>0
      <3>2. PICK after \in 0..4 : StillToSend' = after
        BY <2>1
      <3>3. after < before
        BY <1>3, <2>6, <3>1, <3>2
      <3>4. Len(sent) + before <= mark + 4 /\ mark <= Len(sent)
        BY <2>4, <2>6, <3>1
      <3>5. Len(sent') + after <= mark + 4 /\ mark <= Len(sent')
        BY <1>0, <2>2, <3>3, <3>4
      <3> QED
        BY <3>2, <3>5
    <2> QED
      BY <1>3, <2>3, <2>5, <2>6 DEF Stopping
  <1>4. CASE ScanStep
    <2> USE DEF StillToSend, Reports, EventType
    <2>1. CASE WorkerInit
      BY <1>2, <1>3, <2>1 DEF WorkerInit
    <2>2. CASE VisitDir
      BY <1>2, <2>2 DEF VisitDir
    <2>3. CASE DirVisited
      BY <1>2, <2>3 DEF DirVisited
    <2>12. CASE DirReported
      BY <1>3, <2>12 DEF DirReported
    <2>4. CASE DiscoveryDone
      BY <1>2, <2>4 DEF DiscoveryDone
    <2>5. CASE NextFile
      BY <1>2, <2>5 DEF NextFile
    <2>6. CASE ScanFile
      BY <1>2, <1>3, <2>6 DEF ScanFile
    <2>7. CASE FileDone
      BY <1>2, <1>3, <2>7 DEF FileDone
    <2>8. CASE Aborted
      BY <1>2, <2>8 DEF Aborted
    <2>9. CASE ScanDone
      BY <1>2, <1>3, <2>9 DEF ScanDone
    <2>10. CASE Finish
      BY <1>2, <1>3, <2>10 DEF Finish
    <2>11. CASE WorkerExit
      BY <1>2, <2>11 DEF WorkerExit
    <2> QED
      BY <1>4, <2>1, <2>2, <2>3, <2>4, <2>5, <2>6, <2>7, <2>8, <2>9, <2>10, <2>11,
         <2>12 DEF ScanStep
  <1> QED
    BY <1>1, <1>4, OtherSteps

(* The finish event comes last, when no file is left, and a scan that      *)
(* nobody aborted does send it.                                            *)
THEOREM FinishIsLast == Spec => []FinishMeansDone
  <1>1. Init => Finishing
    BY DEF Init, Finishing, FinishMeansDone
  <1>2. Finishing => FinishMeansDone
    BY DEF Finishing
  <1> QED
    BY <1>1, <1>2, FinishingStep, TypeCorrect, PTL DEF Spec

(* Once ms_abort was called, at most one file is still reported, and at    *)
(* most four events follow, however many files are left.                   *)
THEOREM AbortsPromptly == Spec => []AbortIsPrompt
  <1>1. Init => Stopping
    BY DEF Init, Stopping
  <1>2. TypeOK /\ Stopping => AbortIsPrompt
    BY SMTT(60) DEF TypeOK, Stopping, AbortIsPrompt, SinceAbort, StillToSend, Reports
  <1>3. IInv => TypeOK /\ FileInHand
    BY DEF IInv
  <1> QED
    BY <1>1, <1>2, <1>3, StoppingStep, Inductive, PTL DEF Spec
-----------------------------------------------------------------------------
(* How much a scan can send, and that it ends.                             *)

(* The most that do_scan sends from w on.                                  *)
SendsFrom(w, d, f) ==
  CASE w \in {"none", "init", "discover"} -> d + 2 * MaxFiles + 2
    [] w \in {"visited", "report"} -> d + 2 * MaxFiles + 3
    [] w \in {"scan", "file"} -> 2 * f + 2
    [] w = "progress" -> 2 * f + 1
    [] w = "out" -> 1
    [] w \in {"exit", "exited"} -> 0

MaySend == SendsFrom(wpc, dirs, files)

(* There are no more events than the directories and files account for,    *)
(* and no more bytes in the pipe, with the one to come, than events.       *)
Sparing ==
  /\ files <= MaxFiles
  /\ Len(sent) + MaySend <= MaxDirs + 2 * MaxFiles + 2
  /\ pipe + (IF out = "signal" THEN 1 ELSE 0) <= Len(sent)

(* What is left from each place.                                           *)
Left(d, f) ==
  /\ StepsFrom("none", d, f) = 4 * d + 5 * MaxFiles + 8
  /\ StepsFrom("init", d, f) = 4 * d + 5 * MaxFiles + 7
  /\ StepsFrom("discover", d, f) = 4 * d + 5 * MaxFiles + 6
  /\ StepsFrom("visited", d, f) = 4 * d + 5 * MaxFiles + 9
  /\ StepsFrom("report", d, f) = 4 * d + 5 * MaxFiles + 8
  /\ StepsFrom("scan", d, f) = 5 * f + 5 /\ StepsFrom("file", d, f) = 5 * f + 4
  /\ StepsFrom("progress", d, f) = 5 * f + 2 /\ StepsFrom("out", d, f) = 3
  /\ StepsFrom("exit", d, f) = 1 /\ StepsFrom("exited", d, f) = 0
  /\ SendsFrom("none", d, f) = d + 2 * MaxFiles + 2
  /\ SendsFrom("init", d, f) = d + 2 * MaxFiles + 2
  /\ SendsFrom("discover", d, f) = d + 2 * MaxFiles + 2
  /\ SendsFrom("visited", d, f) = d + 2 * MaxFiles + 3
  /\ SendsFrom("report", d, f) = d + 2 * MaxFiles + 3
  /\ SendsFrom("scan", d, f) = 2 * f + 2 /\ SendsFrom("file", d, f) = 2 * f + 2
  /\ SendsFrom("progress", d, f) = 2 * f + 1 /\ SendsFrom("out", d, f) = 1
  /\ SendsFrom("exit", d, f) = 0 /\ SendsFrom("exited", d, f) = 0

(* So it is defined.                                                       *)
LEMMA LeftFrom == ASSUME NEW d, NEW f PROVE Left(d, f)
  BY DEF Left, StepsFrom, SendsFrom

(* It is a number.                                                         *)
LEMMA NumbersFrom ==
  ASSUME NEW d \in Nat, NEW f \in Nat,
         NEW w \in {"none", "init", "discover", "visited", "report", "scan", "file",
                    "progress", "out", "exit", "exited"}
  PROVE  StepsFrom(w, d, f) \in Nat /\ SendsFrom(w, d, f) \in Nat
  <1>1. PICK m \in Nat : m = MaxFiles
    BY AsyncScanAssumption
  <1>5. Left(d, f)
    BY LeftFrom
  <1>2. CASE w \in {"none", "init", "discover", "visited", "report"}
    BY <1>1, <1>2, <1>5 DEF Left
  <1>3. CASE w \in {"scan", "file", "progress"}
    BY <1>3, <1>5 DEF Left
  <1>4. CASE w \in {"out", "exit", "exited"}
    BY <1>4, <1>5 DEF Left
  <1> QED
    BY <1>2, <1>3, <1>4

(* A step of do_scan takes what it sends off what it may send, and is one  *)
(* off what it has ahead of it.                                            *)
LEMMA ScanStepSpares ==
  ASSUME TypeOK, FileInHand, Phases, files <= MaxFiles, ScanStep
  PROVE  /\ files' <= MaxFiles
         /\ StepsLeft' < StepsLeft
         /\ NoSend => MaySend' <= MaySend
         /\ ~NoSend => MaySend' < MaySend
  <1>0. MaxFiles \in Nat /\ dirs \in Nat /\ files \in Nat /\ dirs' \in Nat /\ files' \in Nat
    BY TypeStep, AsyncScanAssumption DEF TypeOK, Next, Worker, ScanStep
  <1>6. PICK m \in Nat, d \in Nat, f \in Nat, e \in Nat, g \in Nat :
          m = MaxFiles /\ d = dirs /\ f = files /\ e = dirs' /\ g = files'
    BY <1>0
  <1>7. Left(d, f) /\ Left(e, g)
    BY LeftFrom
  <1>1. files' <= MaxFiles
    BY <1>0 DEF ScanStep, WorkerInit, VisitDir, DirVisited, DirReported, DiscoveryDone, NextFile,
                ScanFile, FileDone, Aborted, ScanDone, Finish, WorkerExit
  <1>2. out = "idle" /\ (NoSend => out' = "idle") /\ wpc # "none"
    BY ScanStepShape DEF NoSend, Ended
  <1> DEFINE Less(n) ==
        /\ StepsFrom(wpc', dirs', files') + n < StepsFrom(wpc, dirs, files)
        /\ SendsFrom(wpc', dirs', files') + n <= SendsFrom(wpc, dirs, files)
  <1>3. /\ StepsFrom(wpc', dirs', files') \in Nat /\ StepsFrom(wpc, dirs, files) \in Nat
        /\ SendsFrom(wpc', dirs', files') \in Nat /\ SendsFrom(wpc, dirs, files) \in Nat
    <2>1. TypeOK'
      BY TypeStep DEF Next, Worker, ScanStep
    <2> QED
      BY <2>1, NumbersFrom DEF TypeOK
  <1>4. NoSend => Less(0)
    <2> SUFFICES ASSUME NoSend PROVE Less(0)
      OBVIOUS
    <2>1. CASE WorkerInit
      BY <1>0, <1>6, <1>7, <2>1 DEF Left, WorkerInit
    <2>2. CASE VisitDir
      BY <1>0, <1>6, <1>7, <2>2 DEF Left, VisitDir
    <2>3. CASE DirVisited
      BY <1>0, <1>6, <1>7, <2>3 DEF Left, DirVisited
    <2>12. CASE DirReported
      BY <1>0, <1>6, <1>7, <2>12 DEF Left, DirReported
    <2>4. CASE DiscoveryDone
      BY <1>0, <1>6, <1>7, <2>4 DEF Left, DiscoveryDone
    <2>5. CASE NextFile
      BY <1>0, <1>6, <1>7, <2>5 DEF Left, NextFile
    <2>6. CASE ScanFile
      BY <1>0, <1>6, <1>7, <2>6 DEF Left, ScanFile
    <2>7. CASE FileDone
      BY <1>0, <1>6, <1>7, <2>7 DEF Left, FileDone
    <2>8. CASE Aborted
      BY <1>0, <1>6, <1>7, <2>8 DEF Left, Aborted
    <2>9. CASE ScanDone
      BY <1>0, <1>6, <1>7, <2>9 DEF Left, ScanDone
    <2>10. CASE Finish
      BY <1>0, <1>6, <1>7, <2>10 DEF Left, Finish
    <2>11. CASE WorkerExit
      BY <1>0, <1>6, <1>7, <2>11 DEF Left, WorkerExit
    <2> QED
      BY <2>1, <2>2, <2>3, <2>4, <2>5, <2>6, <2>7, <2>8, <2>9, <2>10, <2>11, <2>12
      DEF ScanStep
  <1>5. ~NoSend => Less(1)
    <2> SUFFICES ASSUME ~NoSend PROVE Less(1)
      OBVIOUS
    <2>1. CASE WorkerInit
      BY <1>0, <1>6, <1>7, <2>1 DEF Left, WorkerInit
    <2>2. CASE DirReported
      BY <1>0, <1>6, <1>7, <2>2 DEF Left, DirReported
    <2>3. CASE ScanFile
      BY <1>0, <1>6, <1>7, <2>3 DEF Left, ScanFile
    <2>4. CASE FileDone
      BY <1>0, <1>6, <1>7, <2>4 DEF Left, FileDone
    <2>5. CASE ScanDone
      BY <1>0, <1>6, <1>7, <2>5 DEF Left, ScanDone
    <2>6. CASE Finish
      BY <1>0, <1>6, <1>7, <2>6 DEF Left, Finish
    <2>7. CASE VisitDir \/ DirVisited \/ DiscoveryDone \/ NextFile \/ Aborted \/ WorkerExit
      BY <2>7 DEF VisitDir, DirVisited, DiscoveryDone, NextFile, Aborted, WorkerExit
    <2> QED
      BY <2>1, <2>2, <2>3, <2>4, <2>5, <2>6, <2>7 DEF ScanStep
  <1> QED
    BY <1>1, <1>2, <1>3, <1>4, <1>5 DEF StepsLeft, MaySend

(* Both are numbers.                                                       *)
LEMMA Numbers ==
  ASSUME TypeOK
  PROVE  /\ StepsLeft \in Nat /\ MaySend \in Nat /\ ClientLeft \in Nat
         /\ Len(sent) \in Nat /\ Len(queue) \in Nat /\ Ahead \in Nat
  <1>1. StepsLeft \in Nat /\ MaySend \in Nat
    <2>1. StepsFrom(wpc, dirs, files) \in Nat /\ SendsFrom(wpc, dirs, files) \in Nat
      BY NumbersFrom DEF TypeOK
    <2> QED
      BY <2>1 DEF StepsLeft, MaySend
  <1>2. ClientLeft \in Nat
    BY DEF TypeOK, ClientLeft
  <1>3. Len(sent) \in Nat /\ Len(queue) \in Nat /\ pipe \in Nat
    BY DEF TypeOK
  <1> QED
    BY <1>1, <1>2, <1>3 DEF Ahead

(* Every step keeps to the budget.                                         *)
LEMMA SparingStep == ASSUME IInv, Sparing, [Next]_vars PROVE Sparing'
  <1>1. /\ TypeOK /\ FileInHand /\ Phases /\ TypeOK'
        /\ MaxFiles \in Nat /\ MaxDirs \in Nat /\ pipe \in Nat
    BY TypeStep, AsyncScanAssumption DEF IInv, TypeOK
  <1>2. Len(sent) \in Nat /\ MaySend \in Nat /\ MaySend' \in Nat
    <2>1. Len(sent) \in Nat /\ MaySend \in Nat
      BY <1>1, Numbers
    <2>2. MaySend' \in Nat
      BY <1>1, NumbersFrom DEF TypeOK, MaySend
    <2> QED
      BY <2>1, <2>2
  <1>3. CASE ScanStep
    <2>1. /\ files' <= MaxFiles
          /\ NoSend => MaySend' <= MaySend
          /\ ~NoSend => MaySend' < MaySend
      BY <1>1, <1>3, ScanStepSpares DEF Sparing
    <2>2. /\ out = "idle" /\ UNCHANGED pipe
          /\ NoSend \/ \E k \in EventType : Send(k)
      BY <1>1, <1>3, ScanStepShape DEF WorkerKeeps
    <2>3. CASE NoSend
      BY <1>1, <1>2, <2>1, <2>2, <2>3 DEF NoSend, Sparing
    <2>4. CASE ~NoSend
      <3>1. PICK k \in EventType : Send(k)
        BY <2>2, <2>4
      <3>2. Len(sent') = Len(sent) + 1
        BY <1>1, <3>1, SentLast
      <3> QED
        BY <1>1, <1>2, <2>1, <2>2, <2>4, <3>2 DEF Sparing
    <2> QED
      BY <2>3, <2>4
  <1>4. CASE Signal
    BY <1>1, <1>2, <1>4 DEF Signal, Sparing, MaySend
  <1>5. CASE DirectReturn
    BY <1>1, <1>2, <1>5 DEF DirectReturn, Sparing, MaySend
  <1>6. CASE ScanStart
    <2>1. MaySend' = MaySend
      <3>1. Left(dirs, files)
        BY LeftFrom
      <3> QED
        BY <1>6, <3>1 DEF ScanStart, ClientKeeps, MaySend, Left
    <2> QED
      BY <1>6, <2>1 DEF ScanStart, ClientKeeps, Sparing
  <1>7. CASE ProcessStart
    <2>1. BytesRead \in 0..pipe
      BY <1>1, AsyncScanAssumption DEF BytesRead
    <2> QED
      BY <1>1, <1>2, <1>7, <2>1 DEF ProcessStart, ClientKeeps, Sparing, MaySend
  <1>8. CASE Join
    BY <1>1, <1>2, <1>8 DEF Join, ClientKeeps, Sparing, MaySend
  <1>9. CASE UNCHANGED <<wpc, out, dirs, files, pipe, sent>>
    BY <1>9 DEF Sparing, MaySend
  <1>10. CASE Publish \/ Abort \/ DestroyStart \/ Closed \/ UNCHANGED vars
    BY <1>9, <1>10 DEF Publish, Abort, DestroyStart, Closed, ClientKeeps, vars, worker
  <1>11. CASE NextEvent \/ NoMoreEvents \/ CallbackReturn \/ Release \/ Reclaim \/ DestroyEnd
    BY <1>9, <1>11 DEF NextEvent, NoMoreEvents, CallbackReturn, Release, Reclaim, DestroyEnd,
                       ClientKeeps
  <1> QED
    BY <1>3, <1>4, <1>5, <1>6, <1>7, <1>8, <1>10, <1>11
    DEF Next, Worker, ScanStep, Client, ClientProgress

(* The budget holds throughout.                                            *)
LEMMA AlwaysSparing == Spec => [](IInv /\ Sparing)
  <1>1. Init => Sparing
    <2>1. MaxDirs \in Nat /\ MaxFiles \in Nat
      BY AsyncScanAssumption
    <2>2. SendsFrom("none", MaxDirs, 0) = MaxDirs + 2 * MaxFiles + 2
      <3>1. Left(MaxDirs, 0)
        BY LeftFrom
      <3> QED
        BY <3>1 DEF Left
    <2> QED
      BY <2>1, <2>2 DEF Init, Sparing, MaySend
  <1> QED
    BY <1>1, SparingStep, Inductive, PTL DEF Spec

(* As long as the respipe has room for a byte per event a scan can have,   *)
(* thread_signal never waits for the client.                               *)
THEOREM NeverWaits == Spec => []SignalNeverWaits
  <1>1. IInv /\ Sparing => SignalNeverWaits
    <2> SUFFICES ASSUME IInv, Sparing, MaxDirs + 2 * MaxFiles + 2 <= PipeCap, out = "signal"
                 PROVE  pipe < PipeCap
      BY DEF SignalNeverWaits
    <2>1. MaySend \in Nat /\ Len(sent) \in Nat
      BY Numbers DEF IInv
    <2>2. pipe \in Nat /\ MaxFiles \in Nat /\ MaxDirs \in Nat /\ PipeCap \in Nat
      BY AsyncScanAssumption DEF IInv, TypeOK
    <2> QED
      BY <2>1, <2>2 DEF Sparing
  <1> QED
    BY <1>1, AlwaysSparing, PTL

(* Every step leaves less ahead.                                           *)
LEMMA NearerStep == ASSUME IInv, Sparing, Next, vars' # vars PROVE Ahead' < Ahead
  <1>1. /\ TypeOK /\ FileInHand /\ Phases /\ TypeOK' /\ files <= MaxFiles
        /\ StepsFrom(wpc, dirs, files) \in Nat /\ StepsFrom(wpc', dirs', files') \in Nat
    <2>1. TypeOK /\ FileInHand /\ Phases /\ TypeOK' /\ files <= MaxFiles
      BY TypeStep DEF IInv, Sparing
    <2> QED
      BY <2>1, NumbersFrom DEF TypeOK
  <1>2. /\ StepsLeft \in Nat /\ StepsLeft' \in Nat /\ Len(queue) \in Nat /\ Len(queue') \in Nat
        /\ pipe \in Nat /\ pipe' \in Nat /\ ClientLeft \in Nat /\ ClientLeft' \in Nat
    <2>1. StepsLeft \in Nat /\ StepsLeft' \in Nat
      BY <1>1 DEF StepsLeft
    <2>2. ClientLeft \in Nat /\ ClientLeft' \in Nat
      BY <1>1 DEF TypeOK, ClientLeft
    <2> QED
      BY <1>1, <2>1, <2>2, SMTT(60) DEF TypeOK
  <1>3. ASSUME StepsLeft' < StepsLeft, Len(queue') <= Len(queue) + 1, pipe' <= pipe + 1,
               ~(Len(queue') > Len(queue) /\ pipe' > pipe), ClientLeft' <= ClientLeft + 1,
               want => want', alive' => alive
        PROVE  Ahead' < Ahead
    <2>1. PICK s0 \in Nat, s1 \in Nat, q0 \in Nat, q1 \in Nat, p0 \in Nat, p1 \in Nat,
               c0 \in Nat, c1 \in Nat :
            /\ s0 = StepsLeft /\ s1 = StepsLeft' /\ q0 = Len(queue) /\ q1 = Len(queue')
            /\ p0 = pipe /\ p1 = pipe' /\ c0 = ClientLeft /\ c1 = ClientLeft'
      BY <1>2
    <2>2. 8 * s1 + 4 * q1 + 3 * p1 + c1 < 8 * s0 + 4 * q0 + 3 * p0 + c0
      <3>1. s1 < s0 /\ q1 <= q0 + 1 /\ p1 <= p0 + 1 /\ c1 <= c0 + 1
        BY <1>3, <2>1
      <3>2. q1 <= q0 \/ p1 <= p0
        BY <1>3, <2>1
      <3> QED
        BY <3>1, <3>2
    <2>3. PICK m0 \in Nat, m1 \in Nat :
            /\ m1 <= m0 /\ m0 = (IF want THEN 0 ELSE 1) /\ m1 = (IF want' THEN 0 ELSE 1)
      BY <1>3
    <2>4. PICK a0 \in Nat, a1 \in Nat :
            /\ a1 <= a0 /\ a0 = (IF alive THEN 5 ELSE 0) /\ a1 = (IF alive' THEN 5 ELSE 0)
      BY <1>3
    <2>5. /\ Ahead = 8 * s0 + 4 * q0 + 3 * p0 + c0 + m0 + a0
          /\ Ahead' = 8 * s1 + 4 * q1 + 3 * p1 + c1 + m1 + a1
      BY <2>1, <2>3, <2>4 DEF Ahead
    <2> QED
      BY <2>2, <2>3, <2>4, <2>5
  <1>4. CASE ScanStep
    <2>1. StepsLeft' < StepsLeft /\ WorkerKeeps /\ (NoSend \/ \E k \in EventType : Send(k))
      BY <1>1, <1>4, ScanStepSpares, ScanStepShape
    <2>2. Len(queue') <= Len(queue) + 1
      <3>1. queue' = queue \/ queue' = Append(queue, Len(sent) + 1)
        BY <2>1 DEF NoSend, Send, Enqueue
      <3>2. queue \in Seq(Nat) /\ Len(sent) + 1 \in Nat
        BY <1>1 DEF TypeOK
      <3> QED
        BY <1>2, <3>1, <3>2
    <2>3. UNCHANGED <<pipe, ClientLeft, want, alive>>
      BY <2>1 DEF WorkerKeeps, client, ClientLeft
    <2> QED
      BY <1>2, <1>3, <2>1, <2>2, <2>3
  <1>5. CASE Signal
    <2>1. StepsLeft' < StepsLeft
      BY <1>1, <1>5 DEF Signal, StepsLeft
    <2>2. UNCHANGED <<queue, ClientLeft, want, alive>> /\ pipe' = pipe + 1
      BY <1>5 DEF Signal, client, ClientLeft
    <2> QED
      BY <1>2, <1>3, <2>1, <2>2
  <1>6. CASE DirectReturn
    <2>1. StepsLeft' < StepsLeft
      BY <1>1, <1>6 DEF DirectReturn, StepsLeft
    <2>2. UNCHANGED <<queue, ClientLeft, pipe, alive>> /\ (want => want')
      BY <1>6 DEF DirectReturn, MayAbort, AskAbort, client, ClientLeft
    <2> QED
      BY <1>2, <1>3, <2>1, <2>2
  <1>7. CASE ScanStart
    <2>1. StepsLeft' < StepsLeft
      <3>1. Left(dirs, files) /\ dirs \in Nat /\ MaxFiles \in Nat
        BY <1>1, LeftFrom, AsyncScanAssumption DEF TypeOK
      <3>2. wpc = "none" /\ wpc' = "init" /\ UNCHANGED <<out, dirs, files>>
        BY <1>7 DEF ScanStart, ClientKeeps
      <3>3. StepsFrom("init", dirs, files) < StepsFrom("none", dirs, files)
        BY <3>1 DEF Left
      <3> QED
        BY <1>1, <3>2, <3>3 DEF StepsLeft
    <2>2. UNCHANGED <<queue, pipe, want, alive>> /\ ClientLeft' = ClientLeft + 1
      BY <1>7 DEF ScanStart, NoAbort, ClientLeft
    <2> QED
      BY <1>2, <1>3, <2>1, <2>2
  <1>8. ASSUME UNCHANGED <<wpc, out, dirs, files>>,
               4 * Len(queue') + 3 * pipe' + ClientLeft' + (IF alive' THEN 5 ELSE 0)
                 < 4 * Len(queue) + 3 * pipe + ClientLeft + (IF alive THEN 5 ELSE 0),
               want => want'
        PROVE  Ahead' < Ahead
    <2>1. StepsLeft' = StepsLeft
      BY <1>8 DEF StepsLeft
    <2> QED
      <3>1. PICK s \in Nat, q0 \in Nat, q1 \in Nat, p0 \in Nat, p1 \in Nat, c0 \in Nat, c1 \in Nat :
              /\ s = StepsLeft /\ s = StepsLeft' /\ q0 = Len(queue) /\ q1 = Len(queue')
              /\ p0 = pipe /\ p1 = pipe' /\ c0 = ClientLeft /\ c1 = ClientLeft'
        BY <1>2, <2>1
      <3>2. PICK m0 \in Nat, m1 \in Nat :
              /\ m1 <= m0 /\ m0 = (IF want THEN 0 ELSE 1) /\ m1 = (IF want' THEN 0 ELSE 1)
        BY <1>8
      <3>3. PICK a0 \in Nat, a1 \in Nat :
              a0 = (IF alive THEN 5 ELSE 0) /\ a1 = (IF alive' THEN 5 ELSE 0)
        OBVIOUS
      <3>4. 4 * q1 + 3 * p1 + c1 + a1 < 4 * q0 + 3 * p0 + c0 + a0
        BY <1>8, <3>1, <3>3
      <3>5. /\ Ahead = 8 * s + 4 * q0 + 3 * p0 + c0 + m0 + a0
            /\ Ahead' = 8 * s + 4 * q1 + 3 * p1 + c1 + m1 + a1
        BY <3>1, <3>2, <3>3 DEF Ahead
      <3> QED
        BY <3>2, <3>4, <3>5
  <1>9. CASE Abort
    <2>1. UNCHANGED <<StepsLeft, queue, pipe, ClientLeft, alive>> /\ ~want /\ want'
      BY <1>9 DEF Abort, AskAbort, ClientKeeps, client, StepsLeft, ClientLeft
    <2> QED
      BY <1>2, <2>1 DEF Ahead
  <1>10. CASE Publish \/ NoMoreEvents \/ CallbackReturn \/ Release
    <2>1. ClientLeft' = ClientLeft - 1
      BY <1>10 DEF Publish, NoMoreEvents, CallbackReturn, Release, ClientLeft
    <2>2. UNCHANGED <<wpc, out, dirs, files, queue, pipe, alive>> /\ (want => want')
      BY <1>10 DEF Publish, NoMoreEvents, CallbackReturn, Release, ClientKeeps, NoAbort, MayAbort,
                   AskAbort
    <2> QED
      BY <1>2, <1>8, <2>1, <2>2
  <1>11. CASE ProcessStart
    <2>1. pipe' <= pipe - 1
      <3>1. BytesRead \in Nat /\ BytesRead >= 1 /\ BytesRead <= pipe
        BY <1>2, <1>11, AsyncScanAssumption DEF BytesRead, ProcessStart
      <3> QED
        BY <1>2, <1>11, <3>1 DEF ProcessStart
    <2>2. UNCHANGED <<wpc, out, dirs, files, queue, alive, want>> /\ ClientLeft' = ClientLeft + 1
      BY <1>11 DEF ProcessStart, ClientKeeps, NoAbort, ClientLeft
    <2> QED
      BY <1>2, <1>8, <2>1, <2>2
  <1>12. CASE NextEvent
    <2>1. Len(queue') = Len(queue) - 1
      BY <1>1, <1>12 DEF NextEvent, TypeOK
    <2>2. UNCHANGED <<wpc, out, dirs, files, pipe, alive, want>> /\ ClientLeft' = ClientLeft + 2
      BY <1>12 DEF NextEvent, ClientKeeps, NoAbort, ClientLeft
    <2> QED
      BY <1>2, <1>8, <2>1, <2>2
  <1>13. CASE Reclaim
    <2>1. Len(queue') = Len(queue) - 1
      BY <1>1, <1>13 DEF Reclaim, TypeOK
    <2>2. UNCHANGED <<wpc, out, dirs, files, pipe, alive, want, ClientLeft>>
      BY <1>13 DEF Reclaim, ClientKeeps, NoAbort, client, ClientLeft
    <2> QED
      BY <1>2, <1>8, <2>1, <2>2
  <1>14. CASE DestroyStart
    <2>1. ClientLeft' < ClientLeft
      BY <1>14 DEF DestroyStart, ClientLeft
    <2>2. UNCHANGED <<wpc, out, dirs, files, queue, pipe>> /\ (want => want') /\ (alive' => alive)
      BY <1>14 DEF DestroyStart, ClientKeeps, AskAbort, NoAbort
    <2> QED
      BY <1>2, <1>8, <2>1, <2>2
  <1>15. CASE Join
    <2>1. ClientLeft' = ClientLeft - 1 /\ pipe' = 0
      BY <1>15 DEF Join, ClientLeft
    <2>2. UNCHANGED <<wpc, out, dirs, files, queue, alive, want>>
      BY <1>15 DEF Join, ClientKeeps, NoAbort
    <2> QED
      BY <1>2, <1>8, <2>1, <2>2
  <1>16. CASE DestroyEnd
    <2>1. ClientLeft = 1 /\ ClientLeft' <= 5
      BY <1>16 DEF DestroyEnd, ClientLeft
    <2>2. alive /\ ~alive'
      BY <1>16 DEF DestroyEnd, IInv, Phases
    <2>3. UNCHANGED <<wpc, out, dirs, files, queue, pipe, want>>
      BY <1>16 DEF DestroyEnd, ClientKeeps, NoAbort
    <2> QED
      BY <1>2, <1>8, <2>1, <2>2, <2>3
  <1> QED
    BY <1>4, <1>5, <1>6, <1>7, <1>9, <1>10, <1>11, <1>12, <1>13, <1>14, <1>15, <1>16
    DEF Next, Worker, ScanStep, Client, ClientProgress, Closed

(* The two threads never keep each other busy for ever: with every step    *)
(* there is less ahead of them, and never less than nothing.  So a scan    *)
(* takes a bounded number of steps, and what is left of its termination is *)
(* that no step is kept from being taken.                                  *)
THEOREM AlwaysNearer == Spec => [](Ahead \in Nat) /\ GetsNearer
  <1>1. IInv => Ahead \in Nat
    BY Numbers DEF IInv
  <1>2. IInv /\ Sparing /\ [Next]_vars => [Ahead' < Ahead]_vars
    BY NearerStep
  <1> QED
    BY <1>1, <1>2, AlwaysSparing, PTL DEF Spec, GetsNearer
=============================================================================
