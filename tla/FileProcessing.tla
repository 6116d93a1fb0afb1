--------------------------- MODULE FileProcessing ---------------------------
(***************************************************************************)
(* The file processing service: uploads, the engine's task queue and         *)
(* workers, the lock of its metrics, and the end of the process.  A worker   *)
(* that starts a task locks the metrics twice and never goes on, so what     *)
(* processTask does after that is not part of any behaviour: the queue only  *)
(* fills up.  The rows of the database are not implemented in the code:      *)
(* storing one succeeds, and reading one fails.  Beside it, for one file, the *)
(* tracker that tells websocket clients of its progress: its handlers, its   *)
(* hub's loop, the clients' pumps, and the variant that buffers updates.     *)
(***************************************************************************)
EXTENDS Naturals, SequencesExt

CONSTANTS
    Uploads,        \* requests to the two upload endpoints, each made once
    FileWorkers,    \* ProcessingEngine.workers
    QueueSize,      \* ProcessingEngine.queueSize
    Watchers,       \* websocket connections that follow the file, each made once
    Reporters,      \* goroutines that report progress, over and over
    SocketCap,      \* of a client's send channel: 256
    FlushAt,        \* ProgressBufferedTracker.bufferSize
    MaxPlain, MaxBuffered   \* bounds on the reports of both kinds

Nobody == "nobody"
NoTask == "no task"

ASSUME FileAssumption == {QueueSize, SocketCap, FlushAt} \subseteq Nat \ {0} /\ NoTask \notin Uploads

VARIABLES
    fpFile,     \* status of each upload's FileRecord
    fpObject,   \* what is in the bucket for it: nothing, an object, or an unfinished multipart upload
    fpHandler,  \* each request's handler
    fpQueue,    \* ProcessingEngine.taskQueue
    fpWorker,   \* each worker: the task it has taken, and where it is
    fpLock,     \* who holds ProcessingMetrics.mu
    fpRunning,  \* ProcessingEngine.running; the queue is closed when it ends
    fpServer    \* the HTTP server and the process

fpVars == <<fpFile, fpObject, fpHandler, fpQueue, fpWorker, fpLock, fpRunning, fpServer>>

VARIABLES
    ptClient,   \* each connection: its channel, its pumps, what its client was sent, and what it read last
    ptClients,  \* Hub.clients
    ptRun,      \* Hub.run: what it took from its channels and has not done yet
    ptReporter, \* each reporter: where it is in broadcastToFile
    ptBuffer,   \* ProgressBufferedTracker.buffer[file]: updates are numbered in the order they came
    ptCount,    \* reports so far: [plain, buffered]
    ptProcess,  \* "up", "closing" and "ended" after Close, "down" after a panic that nobody recovers
    ptRaced     \* history: two goroutines dealt with one full channel, or a map was written beside its readers

ptVars == <<ptClient, ptClients, ptRun, ptReporter, ptBuffer, ptCount, ptProcess, ptRaced>>

Unblocked == {"idle", "done"}

FpTypeOK ==
    /\ fpFile \in [Uploads -> {"none", "uploading", "pending", "processing", "failed"}]
    /\ fpObject \in [Uploads -> {"nothing", "object", "multipart"}]
    /\ fpHandler \in [Uploads -> {"idle", "storing", "enqueue", "sent", "done"}]
    /\ ToSet(fpQueue) \subseteq Uploads /\ Len(fpQueue) <= QueueSize
    /\ \A w \in FileWorkers : fpWorker[w].at \in {"waiting", "first lock", "second lock", "stopped"}
    /\ fpLock \in FileWorkers \cup {Nobody} /\ fpRunning \in BOOLEAN
    /\ fpServer \in {"up", "draining", "stopped", "timed out"}

FpInit ==
    /\ fpFile = [u \in Uploads |-> "none"] /\ fpObject = [u \in Uploads |-> "nothing"]
    /\ fpHandler = [u \in Uploads |-> "idle"]
    /\ fpQueue = <<>> /\ fpWorker = [w \in FileWorkers |-> [task |-> NoTask, at |-> "waiting"]]
    /\ fpLock = Nobody /\ fpRunning = TRUE /\ fpServer = "up"

ProcessLives == fpServer \in {"up", "draining"}
Handle(u, from, to) == ProcessLives /\ fpHandler[u] = from /\ fpHandler' = [fpHandler EXCEPT ![u] = to]

----------------------------------------------------------------------------

\* StreamingUploadHandler: too large, of no known or allowed type, or unreadable: refused.
StreamingUploadHandler(u) ==
    /\ fpServer = "up"
    /\ \/ Handle(u, "idle", "done") /\ UNCHANGED fpFile
       \/ Handle(u, "idle", "storing") /\ fpFile' = [fpFile EXCEPT ![u] = "uploading"]
    /\ UNCHANGED <<fpObject, fpQueue, fpWorker, fpLock, fpRunning, fpServer>>

\* StreamingUpload puts the object; a put reported as failed may have been done.  The file is
\* processed when the request asks for it.
StreamingUpload(u) ==
    /\ \/ /\ Handle(u, "storing", "done")
          /\ fpFile' = [fpFile EXCEPT ![u] = "failed"]
          /\ fpObject' \in {fpObject, [fpObject EXCEPT ![u] = "object"]}
       \/ /\ \E next \in {"enqueue", "done"} : Handle(u, "storing", next)
          /\ fpFile' = [fpFile EXCEPT ![u] = "pending"]
          /\ fpObject' = [fpObject EXCEPT ![u] = "object"]
    /\ UNCHANGED <<fpQueue, fpWorker, fpLock, fpRunning, fpServer>>

\* InitMultipartUpload: nothing has been uploaded yet.
InitMultipartUpload(u) == fpObject' = [fpObject EXCEPT ![u] = "multipart"]

\* ChunkedUploadInitHandler opens a multipart upload.  The handlers of its chunks and of its end
\* look for the row first, never find it, and change nothing: the upload stays unfinished.
ChunkedUploadInitHandler(u) ==
    /\ fpServer = "up" /\ Handle(u, "idle", "done")
    /\ \/ /\ fpFile' = [fpFile EXCEPT ![u] = "uploading"]
          /\ InitMultipartUpload(u)
       \/ UNCHANGED <<fpFile, fpObject>>
    /\ UNCHANGED <<fpQueue, fpWorker, fpLock, fpRunning, fpServer>>

\* Enqueue: refused when the engine has stopped, the queue is full or the request is over.
\* The upload is answered as created all the same.
Enqueue(u) ==
    /\ \/ /\ fpRunning /\ Len(fpQueue) < QueueSize
          /\ Handle(u, "enqueue", "sent") /\ fpQueue' = Append(fpQueue, u)
       \/ Handle(u, "enqueue", "done") /\ UNCHANGED fpQueue
    /\ UNCHANGED <<fpFile, fpObject, fpWorker, fpLock, fpRunning, fpServer>>

\* The sender counts its task under the metrics' lock, and only then marks the file.
CountTask(u) ==
    /\ fpLock = Nobody /\ Handle(u, "sent", "done")
    /\ fpFile' = [fpFile EXCEPT ![u] = "processing"]
    /\ UNCHANGED <<fpObject, fpQueue, fpWorker, fpLock, fpRunning, fpServer>>

\* worker: takes a task, or sees the queue closed or the context cancelled.
Worker(w) ==
    /\ ProcessLives \/ fpServer = "stopped"
    /\ fpWorker[w].at = "waiting"
    /\ \/ /\ fpQueue # <<>> /\ fpQueue' = Tail(fpQueue)
          /\ fpWorker' = [fpWorker EXCEPT ![w] = [task |-> Head(fpQueue), at |-> "first lock"]]
       \/ /\ ~fpRunning /\ UNCHANGED fpQueue
          /\ fpWorker' = [fpWorker EXCEPT ![w].at = "stopped"]
    /\ UNCHANGED <<fpFile, fpObject, fpHandler, fpLock, fpRunning, fpServer>>

\* processTask locks the metrics, and then locks them again.
ProcessTask(w) ==
    /\ ProcessLives \/ fpServer = "stopped"
    /\ fpWorker[w].at = "first lock" /\ fpLock = Nobody
    /\ fpLock' = w /\ fpWorker' = [fpWorker EXCEPT ![w].at = "second lock"]
    /\ UNCHANGED <<fpFile, fpObject, fpHandler, fpQueue, fpRunning, fpServer>>

\* The signal: the server takes no more requests.
Shutdown ==
    /\ fpServer = "up" /\ fpServer' = "draining"
    /\ UNCHANGED <<fpFile, fpObject, fpHandler, fpQueue, fpWorker, fpLock, fpRunning>>

\* The context is cancelled and the queue is closed.
StopEngine == fpRunning' = FALSE

\* The handlers have returned, and the engine is stopped; or they have not in time, and the
\* process ends as it is.
Stop ==
    /\ fpServer = "draining"
    /\ \/ /\ \A u \in Uploads : fpHandler[u] \in Unblocked
          /\ fpServer' = "stopped" /\ StopEngine
       \/ /\ \E u \in Uploads : fpHandler[u] \notin Unblocked
          /\ fpServer' = "timed out" /\ UNCHANGED fpRunning
    /\ UNCHANGED <<fpFile, fpObject, fpHandler, fpQueue, fpWorker, fpLock>>

FpNext ==
    \/ \E u \in Uploads :
          \/ StreamingUploadHandler(u) \/ StreamingUpload(u) \/ ChunkedUploadInitHandler(u)
          \/ Enqueue(u) \/ CountTask(u)
    \/ \E w \in FileWorkers : Worker(w) \/ ProcessTask(w)
    \/ Shutdown \/ Stop

FpSpec == FpInit /\ [][FpNext]_fpVars

----------------------------------------------------------------------------
(* The progress tracker.  A message is the sequence of the numbered updates it carries; the      *)
(* welcome and an update that is not buffered carry none.                                        *)

IdleReporter == [at |-> "idle", msg |-> <<>>, visited |-> {}, slow |-> Nobody, buffered |-> FALSE]
NewClient == [chan |-> "open", queue |-> <<>>, last |-> 0, writer |-> "none", reader |-> "none",
              handler |-> "away"]
IdleRun == [does |-> "nothing", for |-> Nobody]

PtInit ==
    /\ ptClient = [v \in Watchers |-> NewClient] /\ ptClients = {} /\ ptRun = IdleRun
    /\ ptReporter = [n \in Reporters |-> IdleReporter] /\ ptBuffer = <<>>
    /\ ptCount = [plain |-> 0, buffered |-> 0] /\ ptProcess = "up" /\ ptRaced = FALSE

PtTypeOK ==
    /\ \A v \in Watchers :
          /\ ptClient[v].chan \in {"open", "closed"} /\ Len(ptClient[v].queue) <= SocketCap
          /\ ptClient[v].last \in 0 .. MaxBuffered
          /\ {ptClient[v].writer, ptClient[v].reader} \subseteq {"none", "on", "leaving", "gone"}
          /\ ptClient[v].handler \in {"away", "starting", "full", "done"}
    /\ ptClients \subseteq Watchers /\ ptRun.does \in {"nothing", "adding", "removing"}
    /\ \A n \in Reporters : ptReporter[n].at \in {"idle", "next", "full"}
    /\ Len(ptBuffer) <= MaxBuffered
    /\ ptProcess \in {"up", "closing", "ended", "down"} /\ ptRaced \in BOOLEAN

TrackerUp == ptProcess \in {"up", "closing"}
\* Hub.mu is read-locked throughout a broadcast; the loop's writes wait for it.
Broadcasting == {n \in Reporters : ptReporter[n].at # "idle"}
\* ProgressBufferedTracker.mu is held by a reporter that flushes.
BufferFree == \A n \in Broadcasting : ~ptReporter[n].buffered

\* The connection's handler hands its client to the loop and starts the pumps; after Close it panics
\* and is recovered.
HandleWebSocket(v) ==
    /\ TrackerUp /\ ptClient[v].handler = "away"
    /\ IF ptProcess = "closing"
       THEN ptClient' = [ptClient EXCEPT ![v].handler = "done"] /\ UNCHANGED ptRun
       ELSE /\ ptRun = IdleRun /\ ptRun' = [does |-> "adding", for |-> v]
            /\ ptClient' = [ptClient EXCEPT ![v].handler = "starting", ![v].writer = "on", ![v].reader = "on"]
    /\ UNCHANGED <<ptClients, ptReporter, ptBuffer, ptCount, ptProcess, ptRaced>>

\* ... and sends the welcome, holding no lock; a closed channel makes it panic, and it is recovered.
SendToClient(v) ==
    /\ TrackerUp /\ ptClient[v].handler = "starting"
    /\ CASE ptClient[v].chan = "closed" -> ptClient' = [ptClient EXCEPT ![v].handler = "done"]
         [] ptClient[v].chan = "open" /\ Len(ptClient[v].queue) < SocketCap ->
               ptClient' = [ptClient EXCEPT ![v].handler = "done", ![v].queue = Append(@, <<>>)]
         [] OTHER -> ptClient' = [ptClient EXCEPT ![v].handler = "full"]
    /\ UNCHANGED <<ptClients, ptRun, ptReporter, ptBuffer, ptCount, ptProcess, ptRaced>>

\* Both places that find a channel full close it, which panics if another has, and forget the
\* client.  Beside another user of the map, that is a race the runtime may end the process for.
ClosesFull(v, beside) ==
    /\ ptClients' = ptClients \ {v}
    /\ ptRaced' = (ptRaced \/ beside)
    /\ ptProcess' \in (IF beside THEN {ptProcess, "down"} ELSE {ptProcess})

WelcomeCloses(v) ==
    /\ TrackerUp /\ ptClient[v].handler = "full"
    /\ ptClient' = [ptClient EXCEPT ![v].handler = "done", ![v].chan = "closed"]
    /\ IF ptClient[v].chan = "closed" THEN UNCHANGED <<ptClients, ptProcess>> /\ ptRaced' = TRUE
       ELSE ClosesFull(v, Broadcasting # {} \/ ptRun # IdleRun)
    /\ UNCHANGED <<ptRun, ptReporter, ptBuffer, ptCount>>

\* UpdateProgress, NotifyError, NotifyCompletion, NotifyStatusChange.
UpdateProgress(n) ==
    /\ TrackerUp /\ ptReporter[n] = IdleReporter /\ ptCount.plain < MaxPlain
    /\ ptReporter' = [ptReporter EXCEPT ![n].at = "next"]
    /\ ptCount' = [ptCount EXCEPT !.plain = @ + 1]
    /\ UNCHANGED <<ptClient, ptClients, ptRun, ptBuffer, ptProcess, ptRaced>>

\* flushBufferForFile, under the lock of the buffer.
FlushBuffer(n, updates) ==
    ptReporter' = [ptReporter EXCEPT ![n] = [@ EXCEPT !.at = "next", !.msg = updates, !.buffered = TRUE]]

UpdateProgressBuffered(n) ==
    /\ TrackerUp /\ ptReporter[n] = IdleReporter /\ ptCount.buffered < MaxBuffered /\ BufferFree
    /\ ptCount' = [ptCount EXCEPT !.buffered = @ + 1]
    /\ ptBuffer' = Append(ptBuffer, ptCount'.buffered)
    /\ IF Len(ptBuffer') >= FlushAt THEN FlushBuffer(n, ptBuffer') ELSE UNCHANGED ptReporter
    /\ UNCHANGED <<ptClient, ptClients, ptRun, ptProcess, ptRaced>>

\* The timer's flush; any reporter stands for its goroutine.
FlushBuffers(n) ==
    /\ TrackerUp /\ ptReporter[n] = IdleReporter /\ BufferFree /\ ptBuffer # <<>>
    /\ FlushBuffer(n, ptBuffer)
    /\ UNCHANGED <<ptClient, ptClients, ptRun, ptBuffer, ptCount, ptProcess, ptRaced>>

\* A panic releases the locks but leaves the buffer as it is; the caller's goroutine may have
\* nobody to recover it.
Panics(n) ==
    /\ ptReporter' = [ptReporter EXCEPT ![n] = IdleReporter]
    /\ ptProcess' \in {ptProcess, "down"}

\* broadcastToFile takes the clients in any order.
Visit(n, v) ==
    /\ TrackerUp /\ ptReporter[n].at = "next" /\ v \in ptClients \ ptReporter[n].visited
    /\ CASE ptClient[v].chan = "closed" -> Panics(n) /\ UNCHANGED ptClient
         [] ptClient[v].chan = "open" /\ Len(ptClient[v].queue) < SocketCap ->
               /\ ptClient' = [ptClient EXCEPT ![v].queue = Append(@, ptReporter[n].msg)]
               /\ UNCHANGED ptProcess
               /\ ptReporter' = [ptReporter EXCEPT ![n].visited = @ \cup {v}]
         [] OTHER ->
               /\ ptReporter' = [ptReporter EXCEPT ![n].at = "full", ![n].visited = @ \cup {v}, ![n].slow = v]
               /\ UNCHANGED <<ptClient, ptProcess>>
    /\ UNCHANGED <<ptClients, ptRun, ptBuffer, ptCount, ptRaced>>

CloseSlow(n) ==
    /\ TrackerUp /\ ptReporter[n].at = "full"
    /\ IF ptClient[ptReporter[n].slow].chan = "closed"
       THEN Panics(n) /\ ptRaced' = TRUE /\ UNCHANGED <<ptClient, ptClients>>
       ELSE /\ ptClient' = [ptClient EXCEPT ![ptReporter[n].slow].chan = "closed"]
            /\ ClosesFull(ptReporter[n].slow, Broadcasting # {n})
            /\ ptReporter' = [ptReporter EXCEPT ![n].at = "next"]
    /\ UNCHANGED <<ptRun, ptBuffer, ptCount>>

EndBroadcast(n) ==
    /\ TrackerUp /\ ptReporter[n].at = "next" /\ ptClients \subseteq ptReporter[n].visited
    /\ ptReporter' = [ptReporter EXCEPT ![n] = IdleReporter]
    /\ ptBuffer' = IF ptReporter[n].buffered THEN <<>> ELSE ptBuffer
    /\ UNCHANGED <<ptClient, ptClients, ptRun, ptCount, ptProcess, ptRaced>>

\* Hub.run does what it has taken from register or unregister.
RunAdds ==
    /\ TrackerUp /\ ptRun.does = "adding" /\ Broadcasting = {}
    /\ ptClients' = ptClients \cup {ptRun.for} /\ ptRun' = IdleRun
    /\ UNCHANGED <<ptClient, ptReporter, ptBuffer, ptCount, ptProcess, ptRaced>>

RunRemoves ==
    /\ TrackerUp /\ ptRun.does = "removing" /\ Broadcasting = {} /\ ptRun' = IdleRun
    /\ IF ptRun.for \in ptClients
       THEN /\ ptClients' = ptClients \ {ptRun.for}
            /\ ptProcess' = IF ptClient[ptRun.for].chan = "closed" THEN "down" ELSE ptProcess
            /\ ptClient' = [ptClient EXCEPT ![ptRun.for].chan = "closed"]
       ELSE UNCHANGED <<ptClient, ptClients, ptProcess>>
    /\ UNCHANGED <<ptReporter, ptBuffer, ptCount, ptRaced>>

\* readPump ends when the client goes or its connection is closed, and waits for the loop.
ReadPumpEnds(v) ==
    /\ TrackerUp /\ ptClient[v].reader = "on"
    /\ ptClient' = [ptClient EXCEPT ![v].reader = "leaving"]
    /\ UNCHANGED <<ptClients, ptRun, ptReporter, ptBuffer, ptCount, ptProcess, ptRaced>>

RunTakesLeaver(v) ==
    /\ ptProcess = "up" /\ ptClient[v].reader = "leaving" /\ ptRun = IdleRun
    /\ ptRun' = [does |-> "removing", for |-> v]
    /\ ptClient' = [ptClient EXCEPT ![v].reader = "gone"]
    /\ UNCHANGED <<ptClients, ptReporter, ptBuffer, ptCount, ptProcess, ptRaced>>

\* The number of the last update a client is sent with what is in its channel.
LastSent(v, x) ==
    LET queue == ptClient[v].queue
    IN  \/ x = ptClient[v].last /\ \A i \in DOMAIN queue : queue[i] = <<>>
        \/ \E i \in DOMAIN queue : /\ queue[i] # <<>> /\ x = Last(queue[i])
                                  /\ \A j \in DOMAIN queue : j > i => queue[j] = <<>>

\* writePump writes all there is, or ends: the write failed, or the channel is closed and empty.
ClientWrites(v) ==
    /\ TrackerUp /\ ptClient[v].writer = "on"
    /\ \/ /\ ptClient[v].queue # <<>>
          /\ \E x \in 0 .. ptCount.buffered :
                LastSent(v, x) /\ ptClient' = [ptClient EXCEPT ![v].queue = <<>>, ![v].last = x]
       \/ /\ ptClient[v].queue # <<>> \/ ptClient[v].chan = "closed"
          /\ ptClient' = [ptClient EXCEPT ![v].writer = "gone"]
    /\ UNCHANGED <<ptClients, ptRun, ptReporter, ptBuffer, ptCount, ptProcess, ptRaced>>

\* Close closes the loop's channels; the loop then takes nil clients from them, and it and every
\* readPump that ends panic, unless the process has ended by itself.
CloseTracker ==
    /\ \/ ptProcess = "up" /\ Broadcasting = {} /\ ptProcess' = "closing"
       \/ ptProcess = "closing" /\ ptProcess' = "ended"
    /\ UNCHANGED <<ptClient, ptClients, ptRun, ptReporter, ptBuffer, ptCount, ptRaced>>

PtNext ==
    \/ \E v \in Watchers :
          \/ HandleWebSocket(v) \/ SendToClient(v) \/ WelcomeCloses(v)
          \/ ReadPumpEnds(v) \/ RunTakesLeaver(v) \/ ClientWrites(v)
    \/ \E n \in Reporters :
          \/ UpdateProgress(n) \/ UpdateProgressBuffered(n) \/ FlushBuffers(n)
          \/ CloseSlow(n) \/ EndBroadcast(n)
          \/ \E v \in Watchers : Visit(n, v)
    \/ RunAdds \/ RunRemoves \/ CloseTracker

PtSpec == PtInit /\ [][PtNext]_ptVars

----------------------------------------------------------------------------

Holders(u) == {w \in FileWorkers : fpWorker[w].task = u}
\* A file marked as processing has exactly one task, queued or in a worker's hands: none is lost
\* or taken twice, also when the engine stops.
ProcessingHasTask ==
    \A u \in Uploads : fpFile[u] = "processing" =>
        \/ Contains(fpQueue, u) /\ Holders(u) = {}
        \/ ~Contains(fpQueue, u) /\ \E w \in FileWorkers : Holders(u) = {w}
\* What is queued can be downloaded.
QueuedIsStored == \A u \in ToSet(fpQueue) : fpObject[u] = "object"
\* The queue is closed when nobody can be about to send to it, so no handler panics.
NoSendAfterClose == ~fpRunning => \A u \in Uploads : fpHandler[u] \in Unblocked
\* The metrics' lock is only ever kept by a worker that waits for itself.
LockIsSelfHeld == fpLock # Nobody => fpWorker[fpLock].at = "second lock"

Increasing(s) == \A i, j \in DOMAIN s : i < j => s[i] < s[j]
\* Each message in order, each behind the one before it, and all behind the last update that was sent.
InOrder(queue, last) ==
    \A i, j \in DOMAIN queue :
        /\ Increasing(queue[i])
        /\ \A k \in DOMAIN queue[i] :
              last < queue[i][k] /\ (i < j => \A m \in DOMAIN queue[j] : queue[i][k] < queue[j][m])

\* A client of the hub has an open channel, and one whose reader is gone is, or is about to be, no
\* client: whoever closes a channel, broadcast, welcome or loop, forgets its client.
WatchersAreOpen ==
    TrackerUp => \A v \in ptClients :
        ptClient[v].chan = "open" /\ (ptClient[v].reader = "gone" => ptRun = [does |-> "removing", for |-> v])
\* A client reads buffered updates in their order and none twice, although it may miss some; and an
\* update waits in the buffer or was handed to a broadcast: unless a flush panicked half-way.
UpdatesInOrder ==
    ~ptRaced =>
        /\ \A v \in Watchers : InOrder(ptClient[v].queue, ptClient[v].last)
        /\ Increasing(ptBuffer) /\ (ptBuffer # <<>> => Last(ptBuffer) = ptCount.buffered)
\* Nothing but two goroutines at one full channel, or a write beside readers of the map, ends the
\* process before Close.
ProcessSurvives == ptProcess = "down" => ptRaced
\* Tasks, objects and the closing of the queue fit together, with the engine jammed or not.
FileSafety == ProcessingHasTask /\ QueuedIsStored /\ NoSendAfterClose /\ LockIsSelfHeld

\* The tracker's clients, messages and process survive its unlocked and read-locked writes.
TrackerSafety == WatchersAreOpen /\ UpdatesInOrder /\ ProcessSurvives
=============================================================================
