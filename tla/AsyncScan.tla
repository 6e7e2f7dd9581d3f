----------------------------- MODULE AsyncScan ------------------------------
(***************************************************************************)
(* One asynchronous scan (ms_set_async + ms_scan): the worker thread runs  *)
(* do_scan and queues events, the client thread waits for the respipe to   *)
(* become readable, calls ms_async_process to run the callbacks, and at    *)
(* some point calls ms_destroy.  Sources: src/thread.c, the send_* and     *)
(* ms_* functions of src/mediascan.c.                                      *)
(*                                                                         *)
(* What the worker computes is abstracted to the events do_scan can send   *)
(* and the order it sends them in; ScanPipeline models the scan itself.    *)
(* Events are identified by the order in which they are sent: event i is   *)
(* sent[i].  A critical section under t->mutex is one step.                *)
(***************************************************************************)
EXTENDS Naturals, Sequences

CONSTANTS
  MaxDirs,            \* bound: directories the scan visits
  MaxFiles,           \* bound: files the scan finds
  PipeCap,            \* bytes the respipe holds (65536 on Linux)
  ReadChunk,          \* sizeof(buf) in thread_signal_read (9)
  HasError,           \* the client has set an error callback,
  HasProgress,        \*   a progress callback,
  HasFinish,          \*   a finish callback
  DestroyInCallback   \* a callback may call ms_destroy

ASSUME AsyncScanAssumption ==
  /\ MaxDirs \in Nat /\ MaxFiles \in Nat
  /\ PipeCap \in Nat \ {0} /\ ReadChunk \in Nat \ {0}
  /\ {HasError, HasProgress, HasFinish, DestroyInCallback} \subseteq BOOLEAN

EventType == {"RESULT", "PROGRESS", "ERROR", "FINISH"}

VARIABLES
  (* worker thread *)
  wpc,      \* where do_scan is
  out,      \* where its current send_* call is
  dirs,     \* directories not yet visited
  files,    \* files found and not yet scanned
  (* shared *)
  thread,   \* s->thread has been assigned and not been reset
  want,     \* s->_want_abort
  queue,    \* t->event_queue, ids of events
  pipe,     \* bytes in t->respipe
  fds,      \* t->respipe is open
  heap,     \* ids of the events whose data is allocated
  alive,    \* the MediaScan object is allocated
  (* client thread *)
  cpc,      \* where the client is
  inhand,   \* the event ms_async_process has popped, 0 if none
  (* history *)
  sent,     \* kinds of the events sent, oldest first
  called,   \* ids of the events whose callback was called, oldest first
  mark      \* how many had been sent when the abort was asked for

worker == <<wpc, out, dirs, files>>
client == <<cpc, inhand>>
vars == <<worker, thread, want, queue, pipe, fds, heap, alive, client, sent, called, mark>>

-----------------------------------------------------------------------------
(* The objects behind an event: FINISH carries none; a progress event is a *)
(* copy only when it is queued, and s->progress itself when it is not.     *)
Carries(k) == k # "FINISH" /\ (thread \/ k # "PROGRESS")

(* Mutant of Enqueue: TAILQ_INSERT_HEAD.                                   *)
EnqueueAtHead(id) == <<id>> \o queue

(* thread_queue_event: TAILQ_INSERT_TAIL.                                  *)
Enqueue(id) == Append(queue, id)

(* send_progress, send_error, send_result and send_finish: queue the event *)
(* if s->thread is set, else call the callback from where we are.          *)
Send(k) ==
  LET id == Len(sent) + 1 IN
  /\ sent' = Append(sent, k)
  /\ heap' = IF Carries(k) THEN heap \cup {id} ELSE heap
  /\ \/ /\ thread
        /\ queue' = Enqueue(id)
        /\ out' = "signal"
        /\ UNCHANGED called
     \/ /\ ~thread
        /\ called' = Append(called, id)
        /\ out' = "direct"
        /\ UNCHANGED queue

NoSend == UNCHANGED <<sent, heap, queue, out, called>>

WorkerKeeps == UNCHANGED <<thread, want, pipe, fds, alive, client, mark>>

(* ms_abort: the worker is asked to stop, and not told otherwise again.    *)
AskAbort == want' = TRUE /\ mark' = IF want THEN mark ELSE Len(sent)

(* A callback may call ms_abort.                                           *)
MayAbort == AskAbort \/ UNCHANGED <<want, mark>>

(* Mutant of Signal: a byte goes out only once the last one was read.      *)
SignalInTurn ==
  /\ out = "signal" /\ pipe = 0
  /\ pipe' = pipe + 1
  /\ out' = "idle"
  /\ UNCHANGED <<wpc, dirs, files, thread, want, queue, fds, heap, alive, client, sent, called, mark>>

(* Mutant of Signal: a byte for the event, and one for the queue.          *)
SignalTwice ==
  /\ out = "signal" /\ pipe < PipeCap
  /\ pipe' = pipe + 2
  /\ out' = "idle"
  /\ UNCHANGED <<wpc, dirs, files, thread, want, queue, fds, heap, alive, client, sent, called, mark>>

(* thread_signal: one byte into the pipe, waiting for room.                *)
Signal ==
  /\ out = "signal" /\ pipe < PipeCap
  /\ pipe' = pipe + 1
  /\ out' = "idle"
  /\ UNCHANGED <<wpc, dirs, files, thread, want, queue, fds, heap, alive, client, sent, called, mark>>

(* A callback called by the worker itself returns, and the object passed   *)
(* to it is destroyed.                                                     *)
DirectReturn ==
  /\ out = "direct"
  /\ out' = "idle"
  /\ MayAbort
  /\ heap' = heap \ {Len(sent)}
  /\ UNCHANGED <<wpc, dirs, files, thread, queue, pipe, fds, alive, client, sent, called>>

(* Mutant of WorkerInit: on an error it leaves without the finish event.   *)
WorkerInitQuits ==
  /\ wpc = "init"
  /\ \/ wpc' = "discover" /\ NoSend
     \/ wpc' = "exit" /\ Send("ERROR")
  /\ UNCHANGED <<dirs, files>>
  /\ WorkerKeeps

(* do_scan opens the cache; without it (or a progress object) it reports   *)
(* the error, whether or not there is an error callback, and gives up.     *)
WorkerInit ==
  /\ wpc = "init"
  /\ \/ wpc' = "discover" /\ NoSend
     \/ wpc' = "out" /\ Send("ERROR")
  /\ UNCHANGED <<dirs, files>>
  /\ WorkerKeeps

(* recurse_dir reads a directory and queues the files it finds, as many as *)
(* it comes to before an abort ...                                         *)
VisitDir ==
  /\ wpc = "discover" /\ out = "idle" /\ dirs > 0 /\ ~want
  /\ dirs' = dirs - 1
  /\ files' \in files..MaxFiles
  /\ wpc' = "visited"
  /\ NoSend
  /\ WorkerKeeps

(* ... and looks whether it is time to report progress, and not aborted ...*)
DirVisited ==
  /\ wpc = "visited"
  /\ wpc' = "discover" \/ (HasProgress /\ ~want /\ wpc' = "report")
  /\ NoSend /\ UNCHANGED <<dirs, files>>
  /\ WorkerKeeps

(* ... which it then does, aborted meanwhile or not.                       *)
DirReported ==
  /\ wpc = "report"
  /\ wpc' = "discover"
  /\ Send("PROGRESS")
  /\ UNCHANGED <<dirs, files>>
  /\ WorkerKeeps

(* All paths have been walked, or the walk was cut short by an abort.      *)
DiscoveryDone ==
  /\ wpc = "discover" /\ out = "idle"
  /\ wpc' = "scan"
  /\ NoSend /\ UNCHANGED <<dirs, files>>
  /\ WorkerKeeps

(* Mutant of NextFile: the abort flag is not looked at between files.      *)
NextFileRegardless ==
  /\ wpc = "scan" /\ out = "idle" /\ files > 0
  /\ wpc' = "file"
  /\ NoSend /\ UNCHANGED <<dirs, files>>
  /\ WorkerKeeps

(* The next file, unless the scan is aborted ...                           *)
NextFile ==
  /\ wpc = "scan" /\ out = "idle" /\ files > 0 /\ ~want
  /\ wpc' = "file"
  /\ NoSend /\ UNCHANGED <<dirs, files>>
  /\ WorkerKeeps

(* ... goes through ms_scan_file: a result, an error, or nothing for a     *)
(* file that is empty, already in the cache, or fails with no error        *)
(* callback set.                                                           *)
ScanFile ==
  /\ wpc = "file"
  /\ NoSend \/ Send("RESULT") \/ (HasError /\ Send("ERROR"))
  /\ wpc' = "progress"
  /\ UNCHANGED <<dirs, files>>
  /\ WorkerKeeps

(* Mutant of FileDone: the file stays on the list.                         *)
FileDoneKept ==
  /\ wpc = "progress" /\ out = "idle"
  /\ NoSend \/ (HasProgress /\ Send("PROGRESS"))
  /\ wpc' = "scan"
  /\ UNCHANGED <<dirs, files>>
  /\ WorkerKeeps

(* Report progress if it is time to, and take the file off the list.       *)
FileDone ==
  /\ wpc = "progress" /\ out = "idle"
  /\ NoSend \/ (HasProgress /\ Send("PROGRESS"))
  /\ files' = files - 1
  /\ wpc' = "scan"
  /\ UNCHANGED dirs
  /\ WorkerKeeps

(* Mutant of Aborted: it goes to out, where the finish event is sent.      *)
AbortedToOut ==
  /\ wpc = "scan" /\ out = "idle" /\ files > 0 /\ want
  /\ wpc' = "out"
  /\ NoSend /\ UNCHANGED <<dirs, files>>
  /\ WorkerKeeps

(* The abort is seen with files left: no final progress and no finish.     *)
Aborted ==
  /\ wpc = "scan" /\ out = "idle" /\ files > 0 /\ want
  /\ wpc' = "exited"
  /\ NoSend /\ UNCHANGED <<dirs, files>>
  /\ WorkerKeeps

(* Every file has been scanned: the final progress report.                 *)
ScanDone ==
  /\ wpc = "scan" /\ out = "idle" /\ files = 0
  /\ wpc' = "out"
  /\ IF HasProgress THEN Send("PROGRESS") ELSE NoSend
  /\ UNCHANGED <<dirs, files>>
  /\ WorkerKeeps

(* Mutant of Finish: s->on_finish called from the worker, not send_finish. *)
FinishDirectly ==
  /\ wpc = "out" /\ out = "idle"
  /\ wpc' = "exit" /\ out' = "direct"
  /\ sent' = Append(sent, "FINISH") /\ called' = Append(called, Len(sent) + 1)
  /\ UNCHANGED <<dirs, files, queue, heap>>
  /\ WorkerKeeps

Finish ==
  /\ wpc = "out" /\ out = "idle"
  /\ wpc' = "exit"
  /\ IF HasFinish THEN Send("FINISH") ELSE NoSend
  /\ UNCHANGED <<dirs, files>>
  /\ WorkerKeeps

WorkerExit ==
  /\ wpc = "exit" /\ out = "idle"
  /\ wpc' = "exited"
  /\ NoSend /\ UNCHANGED <<dirs, files>>
  /\ WorkerKeeps

Worker ==
  \/ Signal \/ DirectReturn
  \/ WorkerInit \/ VisitDir \/ DirVisited \/ DirReported \/ DiscoveryDone
  \/ NextFile \/ ScanFile \/ FileDone \/ Aborted \/ ScanDone \/ Finish \/ WorkerExit

-----------------------------------------------------------------------------
ClientKeeps == UNCHANGED <<dirs, files, sent>>
NoAbort == UNCHANGED <<want, mark>>

(* ms_scan calls thread_create: from pthread_create on, the worker runs.   *)
(* (When thread_create fails, ms_scan returns with nothing changed.)       *)
ScanStart ==
  /\ cpc = "idle" /\ wpc = "none"
  /\ wpc' = "init" /\ fds' = TRUE /\ cpc' = "publish"
  /\ UNCHANGED <<out, thread, queue, pipe, heap, alive, inhand, called>>
  /\ ClientKeeps /\ NoAbort

(* ... and assigns what it returns to s->thread.                           *)
Publish ==
  /\ cpc = "publish"
  /\ thread' = TRUE /\ cpc' = "idle"
  /\ UNCHANGED <<wpc, out, queue, pipe, fds, heap, alive, inhand, called>>
  /\ ClientKeeps /\ NoAbort

Abort ==
  /\ cpc = "idle" /\ ~want
  /\ AskAbort
  /\ UNCHANGED <<wpc, out, thread, queue, pipe, fds, heap, alive, client, called>>
  /\ ClientKeeps

(* Mutant of BytesRead: the buffer's size, whatever was there.             *)
BytesReadBlindly == ReadChunk

(* thread_signal_read takes what is there, up to the size of its buffer.   *)
BytesRead == IF pipe > ReadChunk THEN ReadChunk ELSE pipe

(* ms_async_process, called when the pipe is readable, empties the pipe ...*)
ProcessStart ==
  /\ cpc = "idle" /\ thread /\ pipe > 0
  /\ pipe' = pipe - BytesRead
  /\ cpc' = "drain"
  /\ UNCHANGED <<wpc, out, thread, queue, fds, heap, alive, inhand, called>>
  /\ ClientKeeps /\ NoAbort

(* Mutant of NextEvent: thread_get_next_event takes TAILQ_LAST.            *)
NextEventFromTail ==
  /\ cpc = "drain" /\ alive /\ queue # <<>>
  /\ inhand' = queue[Len(queue)]
  /\ queue' = SubSeq(queue, 1, Len(queue) - 1)
  /\ called' = Append(called, queue[Len(queue)])
  /\ cpc' = "callback"
  /\ UNCHANGED <<wpc, out, thread, pipe, fds, heap, alive>>
  /\ ClientKeeps /\ NoAbort

(* The loop test: thread_get_next_event pops an event, and its callback    *)
(* is called ...                                                           *)
NextEvent ==
  /\ cpc = "drain" /\ alive /\ queue # <<>>
  /\ inhand' = Head(queue)
  /\ queue' = Tail(queue)
  /\ called' = Append(called, Head(queue))
  /\ cpc' = "callback"
  /\ UNCHANGED <<wpc, out, thread, pipe, fds, heap, alive>>
  /\ ClientKeeps /\ NoAbort

(* Mutant of NoMoreEvents: ms_async_process stops with events left.        *)
StopEarly ==
  /\ cpc = "drain" /\ alive
  /\ cpc' = "idle"
  /\ UNCHANGED <<wpc, out, thread, queue, pipe, fds, heap, alive, inhand, called>>
  /\ ClientKeeps /\ NoAbort

(* ... or finds no event.                                                  *)
NoMoreEvents ==
  /\ cpc = "drain" /\ alive /\ queue = <<>>
  /\ cpc' = "idle"
  /\ UNCHANGED <<wpc, out, thread, queue, pipe, fds, heap, alive, inhand, called>>
  /\ ClientKeeps /\ NoAbort

(* The callback returns, having called ms_abort or not.                    *)
CallbackReturn ==
  /\ cpc = "callback"
  /\ MayAbort
  /\ cpc' = "release"
  /\ UNCHANGED <<wpc, out, thread, queue, pipe, fds, heap, alive, inhand, called>>
  /\ ClientKeeps

(* ms_async_process destroys the object it passed to the callback.         *)
Release ==
  /\ cpc = "release"
  /\ heap' = heap \ {inhand}
  /\ inhand' = 0
  /\ cpc' = "drain"
  /\ UNCHANGED <<wpc, out, thread, queue, pipe, fds, alive, called>>
  /\ ClientKeeps /\ NoAbort

(* ms_destroy tells a thread to abort and waits for it in thread_stop;     *)
(* with no thread there is only the object to free.                        *)
DestroyStart ==
  /\ cpc = "idle" \/ (cpc = "callback" /\ DestroyInCallback)
  /\ \/ thread /\ AskAbort /\ cpc' = "join" /\ UNCHANGED alive
     \/ ~thread /\ alive' = FALSE /\ cpc' = "closed" /\ NoAbort
  /\ UNCHANGED <<wpc, out, thread, queue, pipe, fds, heap, inhand, called>>
  /\ ClientKeeps

(* Mutant of Join: the pipe is closed without waiting for the worker.      *)
JoinAtOnce ==
  /\ cpc = "join"
  /\ fds' = FALSE /\ pipe' = 0
  /\ cpc' = "reclaim"
  /\ UNCHANGED <<wpc, out, thread, queue, heap, alive, inhand, called>>
  /\ ClientKeeps /\ NoAbort

(* pthread_join returns; thread_stop closes the pipe.                      *)
Join ==
  /\ cpc = "join" /\ wpc = "exited"
  /\ fds' = FALSE /\ pipe' = 0
  /\ cpc' = "reclaim"
  /\ UNCHANGED <<wpc, out, thread, queue, heap, alive, inhand, called>>
  /\ ClientKeeps /\ NoAbort

(* Mutant of Reclaim: the entry is freed, what it carries is not.          *)
ReclaimEntryOnly ==
  /\ cpc = "reclaim" /\ queue # <<>>
  /\ queue' = Tail(queue)
  /\ UNCHANGED <<wpc, out, thread, pipe, fds, alive, client, heap, called>>
  /\ ClientKeeps /\ NoAbort

(* thread_destroy frees an event left in the queue, and what it carries.   *)
Reclaim ==
  /\ cpc = "reclaim" /\ queue # <<>>
  /\ heap' = heap \ {Head(queue)}
  /\ queue' = Tail(queue)
  /\ UNCHANGED <<wpc, out, thread, pipe, fds, alive, client, called>>
  /\ ClientKeeps /\ NoAbort

(* The queue is empty: thread and object are freed.  A callback that       *)
(* called ms_destroy returns to ms_async_process.                          *)
DestroyEnd ==
  /\ cpc = "reclaim" /\ queue = <<>>
  /\ thread' = FALSE /\ alive' = FALSE
  /\ cpc' = IF inhand # 0 THEN "release" ELSE "closed"
  /\ UNCHANGED <<wpc, out, queue, pipe, fds, heap, inhand, called>>
  /\ ClientKeeps /\ NoAbort

ClientProgress ==
  \/ Publish \/ ProcessStart \/ NextEvent \/ NoMoreEvents \/ CallbackReturn
  \/ Release \/ Join \/ Reclaim \/ DestroyEnd

Closed == cpc = "closed" /\ UNCHANGED vars

Client == ScanStart \/ Abort \/ DestroyStart \/ ClientProgress

Init ==
  /\ wpc = "none" /\ out = "idle" /\ dirs = MaxDirs /\ files = 0
  /\ thread = FALSE /\ want = FALSE /\ queue = <<>> /\ pipe = 0 /\ fds = FALSE
  /\ heap = {} /\ alive = TRUE
  /\ cpc = "idle" /\ inhand = 0
  /\ sent = <<>> /\ called = <<>> /\ mark = 0

Next == Worker \/ Client \/ Closed

(* The operating system runs both threads; the client's event loop calls   *)
(* ms_async_process whenever the descriptor is readable, and its callbacks *)
(* return.  Starting, aborting and destroying are the client's choice.     *)
Fairness == WF_vars(Worker) /\ WF_vars(ClientProgress)

Spec == Init /\ [][Next]_vars
LiveSpec == Spec /\ Fairness
-----------------------------------------------------------------------------
(* Every variable keeps its type.                                          *)
TypeOK ==
  /\ wpc \in {"none", "init", "discover", "visited", "report", "scan", "file",
              "progress", "out", "exit", "exited"}
  /\ out \in {"idle", "signal", "direct"}
  /\ dirs \in Nat /\ files \in Nat
  /\ thread \in BOOLEAN /\ want \in BOOLEAN /\ fds \in BOOLEAN /\ alive \in BOOLEAN
  /\ queue \in Seq(Nat) /\ called \in Seq(Nat) /\ sent \in Seq(EventType)
  /\ pipe \in Nat /\ mark \in Nat /\ inhand \in Nat
  /\ heap \subseteq Nat
  /\ cpc \in {"idle", "publish", "drain", "callback", "release", "join", "reclaim",
              "closed"}

TearingDown == cpc \in {"join", "reclaim", "closed"} \/ ~alive

(* No lost wake-up: an event in the queue is being drained, or has a byte  *)
(* in the pipe, or its writer is about to put one there.  The worker       *)
(* signals after it unlocks, and thread_signal_read swallows several bytes *)
(* at once, so a byte does not stand for an event.                         *)
NoLostWakeup ==
  queue # <<>> /\ ~TearingDown =>
    pipe > 0 \/ out = "signal" \/ cpc \in {"drain", "callback", "release"}

(* Callbacks are called once per event and in the order the events were    *)
(* sent, whichever thread calls them; until ms_destroy discards some, an   *)
(* event is either queued or has been handed over.                         *)
InOrderOnce ==
  /\ \A i \in DOMAIN called : called[i] = i
  /\ \A i \in DOMAIN queue : queue[i] = Len(sent) - Len(queue) + i
  /\ ~TearingDown => Len(called) + Len(queue) = Len(sent)

(* Who owns the data of event id: the queue, the client that popped it, or *)
(* the worker that calls its callback directly (but that shares            *)
(* s->progress rather than copy it).                                       *)
Owned(id) ==
  /\ sent[id] # "FINISH"
  /\ \/ \E i \in DOMAIN queue : queue[i] = id
     \/ id = inhand
     \/ out = "direct" /\ id = Len(sent) /\ sent[id] # "PROGRESS"

(* What is allocated is exactly what has an owner: no event data is freed  *)
(* twice, freed while a callback has it, or left behind by ms_destroy.     *)
HeapExact == heap = {id \in DOMAIN sent : Owned(id)}

(* The worker never outlives what it uses: the object, and the pipe it     *)
(* signals on; once ms_destroy goes past pthread_join it does nothing.     *)
WorkerOutlived ==
  /\ wpc \notin {"none", "exited"} => alive /\ fds
  /\ wpc \in {"none", "exited"} => out = "idle"

(* Two threads never run callbacks of one object at the same time, though  *)
(* the worker calls them itself while s->thread is not assigned yet.       *)
CallbacksNeverOverlap == ~(out = "direct" /\ cpc = "callback")

(* FINISH comes last, and only when no file is left; a scan that nobody    *)
(* aborted does send it.                                                   *)
FinishMeansDone ==
  /\ \A i \in DOMAIN sent : sent[i] = "FINISH" => i = Len(sent) /\ files = 0
  /\ wpc = "exited" /\ HasFinish /\ ~want => "FINISH" \in {sent[i] : i \in DOMAIN sent}

(* The events sent since the abort was asked for.                          *)
SinceAbort == IF want THEN (mark + 1)..Len(sent) ELSE {}

(* An abort is prompt: at most the file in progress still yields a result  *)
(* or an error, and no more than four events follow in all (that one, its  *)
(* progress report, and, if it was the last file, the final two).          *)
AbortIsPrompt ==
  /\ \A i, j \in SinceAbort :
       sent[i] \in {"RESULT", "ERROR"} /\ sent[j] \in {"RESULT", "ERROR"} => i = j
  /\ Len(sent) <= mark + 4 \/ ~want

(* What do_scan has ahead of it, at most, from w on with d directories and *)
(* f files before it, and the worker with it.                              *)
StepsFrom(w, d, f) ==
  CASE w = "none" -> 4 * d + 5 * MaxFiles + 8
    [] w = "init" -> 4 * d + 5 * MaxFiles + 7
    [] w = "discover" -> 4 * d + 5 * MaxFiles + 6
    [] w = "visited" -> 4 * d + 5 * MaxFiles + 9
    [] w = "report" -> 4 * d + 5 * MaxFiles + 8
    [] w = "scan" -> 5 * f + 5
    [] w = "file" -> 5 * f + 4
    [] w = "progress" -> 5 * f + 2
    [] w = "out" -> 3
    [] w = "exit" -> 1
    [] w = "exited" -> 0

StepsLeft == StepsFrom(wpc, dirs, files) + (IF out = "idle" THEN 0 ELSE 1)

(* How far the client is from the end of ms_destroy, or of a callback and  *)
(* of ms_async_process before that.                                        *)
ClientLeft ==
  CASE cpc = "callback" -> 6
    [] cpc = "release" -> 5
    [] cpc \in {"drain", "publish"} -> 4
    [] cpc = "idle" -> 3
    [] cpc = "join" -> 2
    [] cpc = "reclaim" -> 1
    [] cpc = "closed" -> 0

(* Both, with the events and bytes that are yet to be taken up.            *)
Ahead ==
  8 * StepsLeft + 4 * Len(queue) + 3 * pipe + ClientLeft
    + (IF want THEN 0 ELSE 1) + (IF alive THEN 5 ELSE 0)

(* The two threads never keep each other busy for ever: whichever of them  *)
(* takes a step, one that makes work for the other or a wake-up that finds *)
(* nothing included, there is less ahead of them.                          *)
GetsNearer == [][Ahead' < Ahead]_vars

(* As long as the respipe has room for a byte per event a scan can have,   *)
(* thread_signal never waits for the client.                               *)
SignalNeverWaits ==
  MaxDirs + 2 * MaxFiles + 2 <= PipeCap /\ out = "signal" => pipe < PipeCap

(* A scan that was started and not aborted ends with its finish callback.  *)
FinishCalled ==
  wpc # "none" /\ HasFinish ~>
    want \/ \E i \in DOMAIN called : sent[called[i]] = "FINISH"

(* ms_destroy returns, even with the worker in the middle of its scan:     *)
(* the comment in it says thread_destroy waits until the thread exits.     *)
DestroyReturns == cpc = "join" ~> cpc = "closed"

(* The scan implements the channel, with what it called as what the        *)
(* channel delivered and the start of ms_destroy as its closing.           *)
Channel == INSTANCE EventChannel WITH
  delivered <- [i \in DOMAIN called |-> sent[called[i]]],
  closed <- TearingDown

(* Every step of the scan is a step of the channel, and every event sent   *)
(* is handed over unless the client closes the scan.                       *)
ImplementsChannel == Channel!Spec

-----------------------------------------------------------------------------
(* Claims the repository makes that the code does not keep.                *)

(* ms_scan: "When the fd becomes readable you must call ms_async_process   *)
(* to trigger any necessary callbacks", so none is called by the worker.   *)
CallbacksOnClientThread == out # "direct"

(* ms_async_process: "A callback may call ms_destroy, so we check for      *)
(* s->thread every time through the loop", which is safe if s still exists.*)
ObjectOutlivesLoop == cpc = "drain" => alive
=============================================================================
