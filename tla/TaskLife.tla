------------------------------ MODULE TaskLife ------------------------------
(***************************************************************************)
(* The life of background tasks (service/task_service.py): rebuilds and    *)
(* background queries, from the pending line to the settling one, through  *)
(* cancellation, timeouts, failing appends, close, crashes and reopens.    *)
(*                                                                         *)
(* The task log is one append-only file a day; what status() answers is    *)
(* the last line of the task.  The model has the file of one day, which    *)
(* every task of the run belongs to.  Lines and result files are written   *)
(* by blocks on the one bridge thread, first in first out.  A wrapper (the *)
(* coroutine _drive) that awaits its block can be cancelled there: a block *)
(* still queued is withdrawn, one that runs is not.                        *)
(***************************************************************************)
EXTENDS Naturals, Sequences

CONSTANTS Tasks,       \* the background tasks of the run
          Queries,     \* those with op "query", which keep their rows
          Adopted,     \* those the HTTP handler escalates (adopt)
          MaxCancels,  \* cancel calls made in the run
          Mishaps,     \* what may go wrong: an append raises (a full disk),
                       \* the process dies
          MaxMishaps   \* how often something does

ASSUME TasksAssumption   == Queries \subseteq Tasks /\ Adopted \subseteq Queries
ASSUME MishapsAssumption == Mishaps \subseteq {"disk", "crash"}
ASSUME LimitsAssumption  == MaxCancels \in Nat /\ MaxMishaps \in Nat

VARIABLES
  log,       \* the day's log: one line a state change              (durable)
  unended,   \* its last line has no newline                        (durable)
  result,    \* tasks whose result file exists                      (durable)
  phase,     \* of the database: up, closing, draining, shut, dead
  bridge,    \* blocks given to the bridge thread, the oldest first
  busy,      \* the oldest block is running
  pc,        \* where each task's coroutine is
  hit,       \* tasks whose wrapper has a CancelledError coming
  bad,       \* tasks whose awaited block raised
  due,       \* wrappers close() has still to cancel
  watch,     \* the wrapper close() is awaiting: {} or {t}
  expired,   \* (history) tasks whose result the retention removed
  cuts,      \* (history) where a task's wrapper was cut short
  cancels, mishaps

durable == <<log, unended, result, expired>>
thread  == <<bridge, busy>>
closing == <<phase, due, watch>>
counts  == <<cancels, mishaps>>
vars == <<durable, thread, closing, pc, hit, bad, cuts, counts>>

-----------------------------------------------------------------------------
(* The log *)

States  == {"pending", "running", "done", "failed", "cancelled"}
Settled == {"done", "failed", "cancelled"}

Line(t, s) == [task |-> t, state |-> s]
Lines      == [task : Tasks, state : States]

(* A line json.loads rejects: cut short, or two records in one.            *)
Garbled == [state |-> "garbled"]

AddLine(line) ==
  IF unended THEN [log EXCEPT ![Len(log)] = Garbled] ELSE Append(log, line)

(* The lines of a task; status() scans the whole file and keeps the last,  *)
(* and raises when any line of the file does not parse.                    *)
Mine(t) == {i \in 1..Len(log) : log[i] # Garbled /\ log[i].task = t}

Status(t) ==
  IF \E i \in 1..Len(log) : log[i] = Garbled THEN "unreadable"
  ELSE IF Mine(t) = {} THEN "unknown"
  ELSE log[CHOOSE i \in Mine(t) : \A j \in Mine(t) : j <= i].state

-----------------------------------------------------------------------------
(* The wrapper and its blocks *)

Mishap(what) ==
  /\ what \in Mishaps /\ mishaps < MaxMishaps
  /\ mishaps' = mishaps + 1 /\ UNCHANGED cancels

(* What the coroutine of a task at p awaits of the bridge.                 *)
Awaits(t, p) ==
  CASE p = "birth"   -> IF t \in Adopted THEN "running" ELSE "pending"
    [] p = "mark"    -> "running"
    [] p = "persist" -> "result"
    [] p = "settle"  -> "done"
    [] p = "fail"    -> "failed"
    [] p = "drop"    -> "cancelled"

Waiting == {"birth", "mark", "persist", "settle", "fail", "drop"}
Live    == {"fresh", "body"} \cup (Waiting \ {"birth"})

Block(t, what) == [task |-> t, what |-> what]

Awaited(t) == Block(t, Awaits(t, pc[t]))

(* The awaited block is over, and nobody cancelled the wrapper meanwhile.  *)
Resumes(t, p) ==
  /\ phase \in {"up", "closing", "shut"}
  /\ pc[t] = p /\ t \notin hit /\ t \notin bad
  /\ p \in Waiting => \A i \in 1..Len(bridge) : bridge[i] # Awaited(t)

Init ==
  /\ log = <<>> /\ unended = FALSE /\ result = {} /\ expired = {}
  /\ phase = "up" /\ bridge = <<>> /\ busy = FALSE
  /\ pc = [t \in Tasks |-> "none"] /\ hit = {} /\ bad = {}
  /\ due = {} /\ watch = {}
  /\ cuts = [t \in Tasks |-> {}]
  /\ cancels = 0 /\ mishaps = 0

(* The coroutine hands its next block to the bridge and awaits it.  Once   *)
(* the bridge is shut this raises, and so does recording the failure.      *)
Post(t, p, queued) ==
  IF phase = "shut"
  THEN /\ pc' = [pc EXCEPT ![t] = "over"]
       /\ cuts' = [cuts EXCEPT ![t] = @ \cup {"shut"}]
       /\ bridge' = queued
  ELSE /\ pc' = [pc EXCEPT ![t] = p]
       /\ bridge' = Append(queued, Block(t, Awaits(t, p)))
       /\ UNCHANGED cuts

GoTo(t, p) ==
  /\ pc' = [pc EXCEPT ![t] = p]
  /\ UNCHANGED <<bridge, cuts>>

-----------------------------------------------------------------------------
(* submit and adopt *)

(* The caller's coroutine appends the first line: pending, or running for  *)
(* a query that outlived the HTTP handler's wait.                          *)
Submit(t) ==
  /\ phase \in {"up", "closing"} /\ pc[t] = "none"
  /\ Post(t, "birth", bridge)
  /\ UNCHANGED <<durable, busy, closing, hit, bad, counts>>

(* create_task: the wrapper is live, its first step still to come.         *)
Create(t) ==
  /\ Resumes(t, "birth")
  /\ GoTo(t, "fresh")
  /\ UNCHANGED <<durable, busy, closing, hit, bad, counts>>

-----------------------------------------------------------------------------
(* _drive *)

Begin(t) ==
  /\ Resumes(t, "fresh")
  /\ IF t \in Adopted THEN GoTo(t, "body") ELSE Post(t, "mark", bridge)
  /\ UNCHANGED <<durable, busy, closing, hit, bad, counts>>

Marked(t) ==
  /\ Resumes(t, "mark")
  /\ GoTo(t, "body")
  /\ UNCHANGED <<durable, busy, closing, hit, bad, counts>>

(* A bug to rule out: the done line before the rows.                       *)
BodyReturnsEarly(t) ==
  /\ pc[t] = "body" /\ phase \in {"up", "closing", "shut"}
  /\ Post(t, "settle", bridge)
  /\ hit' = hit \ {t}
  /\ UNCHANGED <<durable, busy, closing, bad, counts>>

(* The query or the replay returns or raises.  It may do so just before a  *)
(* cancellation reaches wait_for: Python 3.11's then returns the result    *)
(* and forgets the cancellation.                                           *)
BodyReturns(t) ==
  /\ pc[t] = "body" /\ phase \in {"up", "closing", "shut"}
  /\ Post(t, IF t \in Queries THEN "persist" ELSE "settle", bridge)
  /\ hit' = hit \ {t}
  /\ UNCHANGED <<durable, busy, closing, bad, counts>>

BodyRaises(t) ==
  /\ pc[t] = "body" /\ phase \in {"up", "closing", "shut"}
  /\ Post(t, "fail", bridge)
  /\ hit' = hit \ {t}
  /\ UNCHANGED <<durable, busy, closing, bad, counts>>

(* A bug to rule out: no limit on a task's run time.                       *)
NeverTimesOut(t) == FALSE /\ pc[t] = "body" /\ UNCHANGED vars

(* wait_for's timer: the task failed.                                      *)
TimesOut(t) ==
  /\ Resumes(t, "body")
  /\ Post(t, "fail", bridge)
  /\ UNCHANGED <<durable, busy, closing, hit, bad, counts>>

Persisted(t) ==
  /\ Resumes(t, "persist")
  /\ Post(t, "settle", bridge)
  /\ UNCHANGED <<durable, busy, closing, hit, bad, counts>>

Ends(t) ==
  /\ \E p \in {"settle", "fail", "drop"} : Resumes(t, p)
  /\ GoTo(t, "over")
  /\ UNCHANGED <<durable, busy, closing, hit, bad, counts>>

(* The awaited block raised: recorded as a failure once, in the try; the   *)
(* caller's error in submit; the end of the wrapper in a handler.          *)
BlockRaised(t) ==
  /\ phase \in {"up", "closing", "shut"} /\ t \in bad /\ t \notin hit
  /\ \/ /\ pc[t] \in {"mark", "persist", "settle"}
        /\ Post(t, "fail", bridge)
     \/ /\ pc[t] \in {"birth", "fail", "drop"}
        /\ pc' = [pc EXCEPT ![t] = "over"]
        /\ cuts' = [cuts EXCEPT ![t] = @ \cup {"disk"}]
        /\ UNCHANGED bridge
  /\ bad' = bad \ {t}
  /\ UNCHANGED <<durable, busy, closing, hit, counts>>

(* A bug to rule out: a running block is withdrawn under the thread.       *)
WithdrawnAll(t) ==
  [i \in 1..Len(bridge) |->
     IF bridge[i] = Awaited(t) THEN Block(t, "void") ELSE bridge[i]]

(* A wrapper stops awaiting its block: unless it runs already, the thread  *)
(* will pass it over.                                                      *)
Withdrawn(t) ==
  [i \in 1..Len(bridge) |->
     IF bridge[i] = Awaited(t) /\ ~(busy /\ i = 1) THEN Block(t, "void") ELSE bridge[i]]

(* A bug to rule out: a wrapper cancelled in its body says nothing.        *)
ThrownSilently(t) ==
  /\ phase \in {"up", "closing", "shut"} /\ t \in hit
  /\ \/ /\ pc[t] \in {"mark", "persist", "settle"}
        /\ Post(t, "drop", Withdrawn(t))
     \/ /\ pc[t] \in {"fresh", "body"}
        /\ GoTo(t, "over")
     \/ /\ pc[t] \in {"fail", "drop"}
        /\ pc' = [pc EXCEPT ![t] = "over"]
        /\ cuts' = [cuts EXCEPT ![t] = @ \cup {pc[t]}]
        /\ bridge' = Withdrawn(t)
  /\ hit' = hit \ {t} /\ bad' = bad \ {t}
  /\ UNCHANGED <<durable, busy, closing, counts>>

(* The CancelledError arrives: in the try the cancelled line is appended;  *)
(* before the first step, or in a handler, it ends the wrapper.            *)
Thrown(t) ==
  /\ phase \in {"up", "closing", "shut"} /\ t \in hit
  /\ \/ /\ pc[t] \in {"mark", "persist", "settle"}
        /\ Post(t, "drop", Withdrawn(t))
     \/ /\ pc[t] = "body"
        /\ Post(t, "drop", bridge)
     \/ /\ pc[t] = "fresh"
        /\ pc' = [pc EXCEPT ![t] = "over"]
        /\ cuts' = [cuts EXCEPT ![t] = @ \cup {"fresh"}]
        /\ UNCHANGED bridge
     \/ /\ pc[t] \in {"fail", "drop"}
        /\ pc' = [pc EXCEPT ![t] = "over"]
        /\ cuts' = [cuts EXCEPT ![t] = @ \cup {pc[t]}]
        /\ bridge' = Withdrawn(t)
  /\ hit' = hit \ {t} /\ bad' = bad \ {t}
  /\ UNCHANGED <<durable, busy, closing, counts>>

Wrapper(t) ==
  \/ Create(t) \/ Begin(t) \/ Marked(t) \/ TimesOut(t) \/ Persisted(t)
  \/ Ends(t) \/ BlockRaised(t) \/ Thrown(t)

-----------------------------------------------------------------------------
(* The bridge thread *)

Take ==
  /\ phase # "dead" /\ ~busy /\ bridge # <<>>
  /\ IF Head(bridge).what = "void"
       THEN bridge' = Tail(bridge) /\ UNCHANGED busy
       ELSE busy' = TRUE /\ UNCHANGED bridge
  /\ UNCHANGED <<durable, closing, pc, hit, bad, cuts, counts>>

(* A bug to rule out: two threads, so a later block may end first.         *)
RunAny ==
  /\ phase # "dead" /\ busy
  /\ \E i \in 1..Len(bridge) :
       /\ i <= 2 /\ bridge[i].what # "void"
       /\ IF bridge[i].what = "result"
            THEN /\ result' = result \cup {bridge[i].task}
                 /\ UNCHANGED <<log, unended>>
            ELSE /\ log' = AddLine(Line(bridge[i].task, bridge[i].what))
                 /\ unended' = FALSE /\ UNCHANGED result
       /\ bridge' = SubSeq(bridge, 1, i - 1) \o SubSeq(bridge, i + 1, Len(bridge))
  /\ busy' = FALSE
  /\ UNCHANGED <<expired, closing, pc, hit, bad, cuts, counts>>

(* The oldest block ends: a line is appended, or the result file replaced. *)
Run ==
  /\ phase # "dead" /\ busy
  /\ LET b == Head(bridge) IN
     IF b.what = "result"
     THEN result' = result \cup {b.task} /\ UNCHANGED <<log, unended>>
     ELSE /\ log' = AddLine(Line(b.task, b.what)) /\ unended' = FALSE
          /\ UNCHANGED result
  /\ bridge' = Tail(bridge) /\ busy' = FALSE
  /\ UNCHANGED <<expired, closing, pc, hit, bad, cuts, counts>>

(* It raises instead.  Only a coroutine still awaiting it learns of that.  *)
RunFails ==
  /\ phase # "dead" /\ busy
  /\ Mishap("disk")
  /\ LET t == Head(bridge).task IN
     bad' = IF pc[t] \in Waiting /\ Head(bridge) = Awaited(t) THEN bad \cup {t} ELSE bad
  /\ bridge' = Tail(bridge) /\ busy' = FALSE
  /\ UNCHANGED <<durable, closing, pc, hit, cuts>>

-----------------------------------------------------------------------------
(* cancel, close, the process's end and return *)

Cancel(t) ==
  /\ phase \in {"up", "closing", "shut"} /\ pc[t] \in Live /\ cancels < MaxCancels
  /\ hit' = hit \cup {t}
  /\ cancels' = cancels + 1
  /\ UNCHANGED <<durable, thread, closing, pc, bad, cuts, mishaps>>

Close ==
  /\ phase = "up"
  /\ phase' = "closing"
  /\ due' = {t \in Tasks : pc[t] \in Live}
  /\ UNCHANGED <<durable, thread, watch, pc, hit, bad, cuts, counts>>

(* Each live wrapper in turn is cancelled and awaited.                     *)
CloseOne(t) ==
  /\ phase = "closing" /\ watch = {} /\ t \in due
  /\ due' = due \ {t} /\ watch' = {t}
  /\ hit' = IF pc[t] \in Live THEN hit \cup {t} ELSE hit
  /\ UNCHANGED <<durable, thread, phase, pc, bad, cuts, counts>>

(* A bug to rule out: close waits for the record to settle, not for the    *)
(* wrapper to end.                                                         *)
CloseWaits(t) ==
  /\ phase = "closing" /\ watch = {t} /\ Status(t) \in Settled
  /\ watch' = {}
  /\ UNCHANGED <<durable, thread, phase, due, pc, hit, bad, cuts, counts>>

CloseNext(t) ==
  /\ phase = "closing" /\ watch = {t} /\ pc[t] = "over"
  /\ watch' = {}
  /\ UNCHANGED <<durable, thread, phase, due, pc, hit, bad, cuts, counts>>

(* Bridge.close holds the event loop while the thread finishes its queue.  *)
Drain ==
  /\ phase = "closing" /\ due = {} /\ watch = {}
  /\ phase' = "draining"
  /\ UNCHANGED <<durable, thread, due, watch, pc, hit, bad, cuts, counts>>

Shut ==
  /\ phase = "draining" /\ bridge = <<>>
  /\ phase' = "shut"
  /\ UNCHANGED <<durable, thread, due, watch, pc, hit, bad, cuts, counts>>

Closer == (\E t \in Tasks : CloseOne(t) \/ CloseNext(t)) \/ Drain \/ Shut

(* The process dies.  A line being appended may be left cut, or whole but  *)
(* for its newline; a result file only ever appears whole.                 *)
Crash ==
  /\ phase # "dead"
  /\ Mishap("crash")
  /\ phase' = "dead"
  /\ \/ UNCHANGED <<log, unended>>
     \/ /\ busy /\ Head(bridge).what # "result"
        /\ \E left \in {Garbled, Line(Head(bridge).task, Head(bridge).what)} :
             log' = AddLine(left)
        /\ unended' = TRUE
  /\ bridge' = <<>> /\ busy' = FALSE
  /\ pc' = [t \in Tasks |-> IF pc[t] \in Live \cup {"birth"} THEN "gone" ELSE pc[t]]
  /\ hit' = {} /\ bad' = {} /\ due' = {} /\ watch' = {}
  /\ UNCHANGED <<result, expired, cuts>>

(* A new process opens the database and gc() runs: result files older than *)
(* 7 days go, and the log of the day when it is older than 30.             *)
Reopen ==
  /\ phase \in {"shut", "dead"}
  /\ phase' = "up"
  /\ pc' = [t \in Tasks |-> IF pc[t] \in Live \cup {"birth"} THEN "gone" ELSE pc[t]]
  /\ bridge' = <<>> /\ busy' = FALSE /\ hit' = {} /\ bad' = {}
  /\ \E old \in SUBSET result :
       /\ result' = result \ old /\ expired' = expired \cup old
       /\ \/ UNCHANGED <<log, unended>>
          \/ result' = {} /\ log' = <<>> /\ unended' = FALSE
  /\ UNCHANGED <<due, watch, cuts, counts>>

Next ==
  \/ \E t \in Tasks : \/ Submit(t) \/ Wrapper(t) \/ BodyReturns(t) \/ BodyRaises(t)
                      \/ Cancel(t)
  \/ Take \/ Run \/ RunFails
  \/ Close \/ Closer
  \/ Crash \/ Reopen

(* The event loop, its timers and the bridge thread go on; a query or a    *)
(* replay need not ever return by itself.                                  *)
Fairness ==
  /\ WF_vars(Take) /\ WF_vars(Run) /\ WF_vars(Closer)
  /\ \A t \in Tasks : WF_vars(Wrapper(t))

Spec == Init /\ [][Next]_vars /\ Fairness

-----------------------------------------------------------------------------
(* Properties *)

(* Every variable has the values the code can give it. *)
TypeOK ==
  /\ log \in Seq(Lines \cup {Garbled}) /\ unended \in BOOLEAN
  /\ unended => log # <<>>
  /\ result \subseteq Queries /\ expired \subseteq Queries
  /\ phase \in {"up", "closing", "draining", "shut", "dead"}
  /\ bridge \in Seq([task : Tasks, what : States \cup {"result", "void"}])
  /\ busy \in BOOLEAN /\ (busy => bridge # <<>> /\ Head(bridge).what # "void")
  /\ pc \in [Tasks -> {"none", "over", "gone"} \cup {"birth"} \cup Live]
  /\ hit \subseteq Tasks /\ bad \subseteq Tasks
  /\ due \subseteq Tasks /\ watch \subseteq Tasks
  /\ cuts \in [Tasks -> SUBSET {"fresh", "fail", "drop", "disk", "shut"}]
  /\ cancels \in Nat /\ mishaps \in Nat

(* A done query has its rows (task_service.py: rows first, then the done   *)
(* line), until the retention takes them, whatever crashes or cancels.     *)
DoneHasResult ==
  \A t \in Queries : Status(t) = "done" => t \in result \cup expired

(* What status() has told of a settled task stays: a failed or cancelled   *)
(* task keeps its state, a done one can only be cancelled by a call that   *)
(* overlapped its last append.  No late line of the wrapper, no close and  *)
(* no crash takes it back to running.                                      *)
SettledForGood ==
  [][\A t \in Tasks :
       /\ Status(t) \in {"failed", "cancelled"}
            => Status(t)' \in {Status(t), "unreadable", "unknown"}
       /\ Status(t) = "done"
            => Status(t)' \in {"done", "cancelled", "unreadable", "unknown"}]_vars

(* A wrapper that ended left a settling line, unless it was cancelled      *)
(* before its first step or while recording a failure or a cancellation,   *)
(* or its append failed: the only ways a task stays pending or running in  *)
(* a process that lives.                                                   *)
EndIsRecorded ==
  \A t \in Tasks :
    pc[t] = "over" /\ cuts[t] = {} => Status(t) \in Settled \cup {"unreadable", "unknown"}

(* No background task runs for ever, not even a runaway query nobody waits *)
(* for (task.md section 5, max runtime).                                   *)
EveryWrapperEnds == \A t \in Tasks : pc[t] \in Live ~> pc[t] \in {"over", "gone"}

(* close() returns, or the process dies: no wrapper it awaits ignores its  *)
(* cancellation for ever.                                                  *)
CloseEnds == phase = "closing" ~> phase \in {"shut", "dead"}

-----------------------------------------------------------------------------
(* What the documents say and the program does not do *)

(* docs/api/tasks.md, cancel: the state turns cancelled, or stays when it  *)
(* was settled already: when cancel() returns, the wrapper over, the task  *)
(* is settled.                                                             *)
CancelSettles ==
  \A t \in Tasks : pc[t] = "over" => Status(t) \in Settled \cup {"unreadable", "unknown"}

(* client.py, wait: blocks until the task settles.  So whatever pending or *)
(* running task an open database reports settles, while it stays open.     *)
WaitReturns ==
  \A t \in Tasks :
    phase = "up" /\ Status(t) \in {"pending", "running"}
      ~> Status(t) \in Settled \/ phase # "up"
=============================================================================
