------------------------------ MODULE Shutdown ------------------------------
(***************************************************************************)
(* Closing the database (client.py LocalExecutor.close): the streams, the  *)
(* background tasks, the write worker, the read pool, the connection, in   *)
(* this order, while callers go on calling.  What the tasks do when they   *)
(* are cancelled is TaskLife's, what a batch does is WritePath's, and what *)
(* a stream lands Stream's; here are who waits for whom, and who is left.  *)
(*                                                                         *)
(* All but the read threads runs on one event loop; its steps are what     *)
(* happens between two awaits.  Joining the read pool blocks the loop.     *)
(***************************************************************************)
EXTENDS Naturals, Sequences, FiniteSets, SequencesExt

CONSTANTS Calls,       \* inserts and deletes
          Streams,     \* those that are a stream's: each calls again and again
          Reads,       \* queries
          Runaway,     \* those of them that never end by themselves
          Statements,  \* how many statements a query has one after another
          Workers,     \* read threads, and cursors
          STOP         \* the mark close() puts into the write queue

ASSUME ShutdownAssumption ==
  /\ Streams \subseteq Calls /\ STOP \notin Calls
  /\ Runaway \subseteq Reads
  /\ Statements \in Nat \ {0} /\ Workers \in Nat \ {0}
  /\ IsFiniteSet(Reads)

VARIABLES
  phase,   \* how far close() is
  \* write_service
  call,    \* each call: new, queued, begun, done, failed
  queue, worker, batch,
  halt,    \* _stop
  owed,    \* (history) calls queued when the stop mark was, the worker idle,
           \* whose callers have not gone on
  \* stream_service
  flow,    \* each stream: off, runs, lands, sweeps, over, died
  told,    \* streams whose stop event close() has set
  late,    \* (history) streams started after close() has listed them
  \* readpool
  read,    \* each query: new, refused, queued, gap, exec, cut, over
  todo,    \* its statements still to run
  line,    \* queries no thread has taken up
  free,    \* cursors nobody has borrowed
  missed   \* (history) queries the interrupt did not meet in a statement

writing == <<call, queue, worker, batch, halt, owed>>
flows   == <<flow, told, late>>
reading == <<read, todo, line, free, missed>>
vars    == <<phase, writing, flows, reading>>

Init ==
  /\ phase = "open"
  /\ call = [c \in Calls |-> "new"] /\ queue = <<>>
  /\ worker = "get" /\ batch = {} /\ halt = FALSE /\ owed = {}
  /\ flow = [s \in Streams |-> "off"] /\ told = {} /\ late = {}
  /\ read = [r \in Reads |-> "new"] /\ todo = [r \in Reads |-> Statements]
  /\ line = <<>> /\ free = Workers /\ missed = {}

(* The event loop is not blocked. *)
Awake == phase # "reads"

Landing(s) == flow[s] \in {"lands", "sweeps"}

Live(s)  == flow[s] = "runs" \/ Landing(s)
Holds(r) == read[r] \in {"gap", "exec", "cut"}
Holders  == {r \in Reads : Holds(r)}

-----------------------------------------------------------------------------
(* The write worker *)

(* _submit: enqueue and wait.  Nothing asks whether there is a worker. *)
Submit(c) ==
  /\ Awake /\ call[c] = "new"
  /\ call' = [call EXCEPT ![c] = "queued"]
  /\ queue' = Append(queue, c)
  /\ UNCHANGED <<worker, batch, halt, owed>>

Insert(c) == c \notin Streams /\ Submit(c) /\ UNCHANGED <<phase, flows, reading>>

(* How many calls are ahead of the stop mark: the worker takes them at once. *)
UpTo ==
  IF STOP \in Range(queue) THEN (CHOOSE i \in DOMAIN queue : queue[i] = STOP) - 1 ELSE Len(queue)

Ahead == {queue[i] : i \in 1..UpTo}

GetBatch ==
  /\ Awake /\ worker = "get" /\ queue # <<>>
  /\ IF Head(queue) = STOP
       THEN /\ worker' = "over"
            /\ queue' = Tail(queue)
            /\ UNCHANGED <<call, batch, halt>>
       ELSE /\ worker' = "busy"
            /\ batch' = Ahead
            /\ call' = [c \in Calls |-> IF c \in Ahead THEN "begun" ELSE call[c]]
            /\ halt' = (halt \/ STOP \in Range(queue))
            /\ queue' = SubSeq(queue, UpTo + 2, Len(queue))
  /\ UNCHANGED <<phase, owed, flows, reading>>

(* A bug to rule out: a batch in hand when the worker is told to stop is   *)
(* dropped.                                                                *)
EndBatchDropped ==
  /\ Awake /\ worker = "busy"
  /\ call' = [c \in Calls |-> IF c \in batch /\ ~halt THEN "done" ELSE call[c]]
  /\ batch' = {}
  /\ worker' = IF halt THEN "over" ELSE "get"
  /\ UNCHANGED <<phase, queue, halt, owed, flows, reading>>

(* A bug to rule out: an error ends the worker. *)
EndBatchDies ==
  /\ Awake /\ worker = "busy"
  /\ \E bad \in SUBSET batch :
       /\ call' = [c \in Calls |->
                     IF c \in bad THEN "failed" ELSE IF c \in batch THEN "done" ELSE call[c]]
       /\ worker' = IF halt \/ bad # {} THEN "over" ELSE "get"
  /\ batch' = {}
  /\ UNCHANGED <<phase, queue, halt, owed, flows, reading>>

(* The batch is done, or parts of it failed; every caller is told.  The    *)
(* loop looks at _stop before it looks at the queue.                       *)
EndBatch ==
  /\ Awake /\ worker = "busy"
  /\ \E bad \in SUBSET batch :
       call' = [c \in Calls |->
                  IF c \in bad THEN "failed" ELSE IF c \in batch THEN "done" ELSE call[c]]
  /\ batch' = {}
  /\ worker' = IF halt THEN "over" ELSE "get"
  /\ UNCHANGED <<phase, queue, halt, owed, flows, reading>>

-----------------------------------------------------------------------------
(* The streams *)

StartStream(s) ==
  /\ Awake /\ flow[s] = "off"
  /\ flow' = [flow EXCEPT ![s] = "runs"]
  /\ late' = IF phase = "open" THEN late ELSE late \cup {s}
  /\ UNCHANGED <<phase, writing, told, reading>>

(* A batch of lines, in the loop or, once it was told to stop, in its last *)
(* sweep.                                                                  *)
Lands(s) ==
  /\ flow[s] = "runs" /\ Submit(s)
  /\ flow' = [flow EXCEPT ![s] = IF s \in told THEN "sweeps" ELSE "lands"]
  /\ UNCHANGED <<phase, told, late, reading>>

(* There is nothing left to sweep. *)
NothingLeft(s) ==
  /\ Awake /\ flow[s] = "runs" /\ s \in told
  /\ flow' = [flow EXCEPT ![s] = "over"]
  /\ UNCHANGED <<phase, writing, told, late, reading>>

(* The batch has landed; the next one is another call. *)
Landed(s) ==
  /\ Awake /\ Landing(s) /\ call[s] = "done"
  /\ flow' = [flow EXCEPT ![s] = IF flow[s] = "sweeps" THEN "over" ELSE "runs"]
  /\ call' = [call EXCEPT ![s] = "new"]
  /\ owed' = owed \ {s}
  /\ UNCHANGED <<phase, queue, worker, batch, halt, told, late, reading>>

(* An insert that is refused ends its stream, and close() if it awaits it. *)
Dies(s) ==
  /\ Awake /\ Landing(s) /\ call[s] = "failed"
  /\ flow' = [flow EXCEPT ![s] = "died"]
  /\ phase' = IF phase = "streams" /\ s \in told THEN "raised" ELSE phase
  /\ UNCHANGED <<writing, told, late, reading>>

Resumed(s) == NothingLeft(s) \/ Landed(s) \/ Dies(s)

-----------------------------------------------------------------------------
(* The read pool *)

Query(r) ==
  /\ Awake /\ read[r] = "new"
  /\ IF phase \in {"conn", "closed"}
       THEN read' = [read EXCEPT ![r] = "refused"] /\ UNCHANGED line
       ELSE read' = [read EXCEPT ![r] = "queued"] /\ line' = Append(line, r)
  /\ UNCHANGED <<phase, writing, flows, todo, free, missed>>

(* A read thread takes up the first query there is, and borrows a cursor. *)
TakeUp ==
  /\ line # <<>> /\ Cardinality(Holders) < Workers /\ free > 0
  /\ read' = [read EXCEPT ![Head(line)] = "gap"]
  /\ line' = Tail(line)
  /\ free' = free - 1
  /\ UNCHANGED <<phase, writing, flows, todo, missed>>

Execute(r) ==
  /\ read[r] = "gap"
  /\ read' = [read EXCEPT ![r] = "exec"]
  /\ UNCHANGED <<phase, writing, flows, todo, line, free, missed>>

(* A bug to rule out: an interrupted query keeps its cursor. *)
ReturnKeepsCursor(r) ==
  /\ read[r] \in {"exec", "cut"}
  /\ todo' = [todo EXCEPT ![r] = @ - 1]
  /\ IF read[r] = "exec" /\ todo'[r] > 0
       THEN read' = [read EXCEPT ![r] = "gap"] /\ UNCHANGED free
       ELSE read' = [read EXCEPT ![r] = "over"] /\ free' = IF read[r] = "cut" THEN free ELSE free + 1
  /\ UNCHANGED <<phase, writing, flows, line, missed>>

(* The statement returns: there may be another one.  Or it was interrupted *)
(* and raises.  The cursor is given back (finally).                        *)
Return(r) ==
  /\ read[r] \in {"exec", "cut"}
  /\ todo' = [todo EXCEPT ![r] = @ - 1]
  /\ IF read[r] = "exec" /\ todo'[r] > 0
       THEN read' = [read EXCEPT ![r] = "gap"] /\ UNCHANGED free
       ELSE read' = [read EXCEPT ![r] = "over"] /\ free' = free + 1
  /\ UNCHANGED <<phase, writing, flows, line, missed>>

-----------------------------------------------------------------------------
(* close() *)

Close ==
  /\ phase = "open"
  /\ phase' = "streams"
  /\ UNCHANGED <<writing, flows, reading>>

Waited == {s \in Streams : s \notin late /\ Live(s)}

(* StreamService.close stops one stream after the other. *)
TellStream(s) ==
  /\ phase = "streams" /\ s \in Waited /\ told \cap Waited = {}
  /\ told' = told \cup {s}
  /\ UNCHANGED <<phase, writing, flow, late, reading>>

(* A bug to rule out: close() does not wait for the streams. *)
StreamsClosedEarly ==
  /\ phase = "streams"
  /\ phase' = "tasks"
  /\ UNCHANGED <<writing, flows, reading>>

StreamsClosed ==
  /\ phase = "streams" /\ Waited = {}
  /\ phase' = "tasks"
  /\ UNCHANGED <<writing, flows, reading>>

(* A bug to rule out: the worker is told by its flag only, and the mark    *)
(* overtakes the calls.                                                    *)
StopWorkerFirst ==
  /\ phase = "tasks"
  /\ phase' = "writes"
  /\ halt' = TRUE
  /\ queue' = <<STOP>> \o queue
  /\ owed' = IF worker = "get" THEN Range(queue) ELSE {}
  /\ UNCHANGED <<call, worker, batch, flows, reading>>

(* WriteService.close: the flag, the mark, and the worker is awaited. *)
StopWorker ==
  /\ phase = "tasks"
  /\ phase' = "writes"
  /\ halt' = TRUE
  /\ queue' = Append(queue, STOP)
  /\ owed' = IF worker = "get" THEN Range(queue) ELSE {}
  /\ UNCHANGED <<call, worker, batch, flows, reading>>

(* A bug to rule out: nothing is interrupted. *)
InterruptNone ==
  /\ phase = "writes" /\ worker = "over"
  /\ phase' = "reads"
  /\ UNCHANGED <<writing, flows, reading>>

(* ReadPool.close: what runs is interrupted, then the threads are joined.  *)
(* A query between two statements, or one no thread has taken up, is not   *)
(* affected: the pool runs what it has accepted.                           *)
Interrupt ==
  /\ phase = "writes" /\ worker = "over"
  /\ phase' = "reads"
  /\ read' = [r \in Reads |-> IF read[r] = "exec" THEN "cut" ELSE read[r]]
  /\ missed' = {r \in Reads : read[r] \in {"queued", "gap"}}
  /\ UNCHANGED <<writing, flows, todo, line, free>>

(* A bug to rule out: the pool is not joined. *)
NotJoined ==
  /\ phase = "reads"
  /\ phase' = "conn"
  /\ UNCHANGED <<writing, flows, reading>>

Joined ==
  /\ phase = "reads" /\ Holders = {} /\ line = <<>>
  /\ phase' = "conn"
  /\ UNCHANGED <<writing, flows, reading>>

(* The connection, and the bridge it lives on. *)
CloseConn ==
  /\ phase = "conn"
  /\ phase' = "closed"
  /\ UNCHANGED <<writing, flows, reading>>

Threads == TakeUp \/ \E r \in Reads : Execute(r) \/ Return(r)

Closing ==
  \/ StreamsClosed \/ StopWorker \/ Interrupt \/ Joined \/ CloseConn
  \/ \E s \in Streams : TellStream(s)

Next ==
  \/ \E c \in Calls : Insert(c)
  \/ \E s \in Streams : StartStream(s) \/ Lands(s) \/ Resumed(s)
  \/ \E r \in Reads : Query(r)
  \/ GetBatch \/ EndBatch \/ Threads \/ Close \/ Closing

(* The loop and the threads go on; a statement ends, but for a runaway     *)
(* one that is not interrupted.  Callers owe nothing.                      *)
Fairness ==
  /\ WF_vars(GetBatch) /\ WF_vars(EndBatch) /\ WF_vars(TakeUp) /\ WF_vars(Closing)
  /\ \A s \in Streams : WF_vars(Resumed(s))
  /\ \A r \in Reads : WF_vars(Execute(r)) /\ WF_vars(Return(r) /\ (r \in Runaway => read[r] = "cut"))

Spec == Init /\ [][Next]_vars /\ Fairness

-----------------------------------------------------------------------------
(* Properties *)

TypeOK ==
  /\ phase \in {"open", "streams", "tasks", "writes", "reads", "conn", "closed", "raised"}
  /\ call \in [Calls -> {"new", "queued", "begun", "done", "failed"}]
  /\ queue \in Seq(Calls \cup {STOP}) /\ IsInjective(queue)
  /\ worker \in {"get", "busy", "over"} /\ halt \in BOOLEAN
  /\ batch = {c \in Calls : call[c] = "begun"}
  /\ Range(queue) \ {STOP} = {c \in Calls : call[c] = "queued"}
  /\ flow \in [Streams -> {"off", "runs", "lands", "sweeps", "over", "died"}]
  /\ told \subseteq Streams /\ late \subseteq Streams /\ owed \subseteq Calls
  /\ read \in [Reads -> {"new", "refused", "queued", "gap", "exec", "cut", "over"}]
  /\ todo \in [Reads -> 0..Statements] /\ free \in 0..Workers /\ missed \subseteq Reads
  /\ Range(line) = {r \in Reads : read[r] = "queued"} /\ IsInjective(line)

(* The connection is closed last: nobody who works on it is left.  A       *)
(* stream started while close() runs is not waited for (stream_service.py  *)
(* 202-205 lists the streams once).                                        *)
ConnOutlivesUsers ==
  phase \in {"conn", "closed"} =>
    /\ worker = "over" /\ batch = {}
    /\ Holders = {} /\ line = <<>> /\ free = Workers
    /\ \A s \in Streams : Live(s) => s \in late

(* No stream waits for a worker that is gone, so none that close() stops   *)
(* loses the batch it reads last: its insert is answered.                  *)
NoStreamStranded ==
  worker = "over" => \A s \in Streams : Landing(s) => call[s] \in {"done", "failed"} \/ s \in late

(* "stop the write worker (drain + join)" (client.py:73), as far as it     *)
(* holds: the calls an idle worker finds ahead of the stop mark are        *)
(* answered.  A busy one looks at its flag first, and what is queued then  *)
(* is never begun.                                                         *)
Drained == worker = "over" => \A c \in owed : call[c] \in {"done", "failed"}

(* A call that is begun is answered, however close() comes in between.     *)
BegunIsAnswered == \A c \in Calls : call[c] = "begun" ~> call[c] \in {"done", "failed"}

(* While nobody has stopped the worker every call is answered, also after  *)
(* a close() that raised a dead stream's error and stopped nothing else.   *)
Served == \A c \in Calls : call[c] = "queued" ~> call[c] # "queued" \/ halt

(* close() ends, whatever runs, is queued or lands meanwhile, unless a     *)
(* runaway query was not in a statement when the pool was interrupted      *)
(* (readpool.py:53 promises it of any).                                    *)
CloseEnds == phase = "streams" ~> phase \in {"closed", "raised"} \/ missed \cap Runaway # {}

(* A query handed to the pool comes back, close() or not, unless runaways  *)
(* hold the threads.                                                       *)
QueriesReturn ==
  \A r \in Reads \ Runaway :
    read[r] = "queued" ~> read[r] = "over" \/ \E q \in Runaway : read[q] = "exec"
=============================================================================
