--------------------------- MODULE CronScheduler ---------------------------
(***************************************************************************)
(* The cron scheduler: one loop that ticks every second, dispatches the    *)
(* crons that are due to their servers one after the other, and records    *)
(* the execution when the dispatch is over.                                *)
(*                                                                         *)
(* last_executed_at decides what is due.  It has two writers: the loop     *)
(* writes the time at the end of a dispatch, and every command result an   *)
(* agent reports writes the time the command started, as the dashboard     *)
(* reckons it (its own clock minus the reported delay).  Results arrive at *)
(* any time, for manual runs too.                                          *)
(*                                                                         *)
(* Time is in whole seconds.  The crons and their servers do not change.   *)
(***************************************************************************)
EXTENDS Integers, Sequences

CONSTANTS
  Cron,
  Server,
  Occurs,      \* cron -> the seconds its schedule names
  Covers,      \* cron -> the servers its owner and cover select
  QueueCap,    \* tasks an agent's stream takes before a sender waits
  MaxTime,     \* bound on the clock
  MaxUpsets,   \* bound: manual triggers, refused records and restarts
  None

ASSUME CronAssumption ==
  /\ Occurs \in [Cron -> SUBSET (1..MaxTime)]
  /\ Covers \in [Cron -> SUBSET Server]
  /\ QueueCap \in Nat \ {0} /\ MaxTime \in Nat
  /\ MaxUpsets \in Nat
  /\ None \notin Nat \union Cron

VARIABLES
  clock,
  last,      \* cron -> last_executed_at or None, persisted
  due,       \* the crons of this tick not dispatched yet
  current,   \* the cron being dispatched, or None
  todo,      \* the servers it has not been sent to yet
  queue,     \* server -> runs on their way to the agent or waiting there
  rows,      \* server -> runs stored for an agent that was away, persisted
  running,   \* server -> the run its agent executes, with its start, or None
  results,   \* results on their way to the dashboard
  upsets,    \* manual triggers, refused records and restarts so far
  claim,     \* history: cron -> the occurrences its dispatch stands for
  fired,     \* history: cron -> occurrences dispatched, without those a crash
             \* or the store kept from being recorded
  unwritten  \* history: cron -> those of them a result made due again since

loopVars  == <<due, current, todo, claim>>
agentVars == <<queue, rows, running, results>>
history   == <<fired, unwritten>>
vars == <<clock, last, upsets, history, loopVars, agentVars>>

Time == 0..MaxTime
\* origin: the second of the tick or of the manual trigger a run comes from.
Run    == [cron : Cron, origin : Time]
Result == [run : Run, server : Server, delay : Time]

Init ==
  /\ clock = 0
  /\ last = [c \in Cron |-> None]
  /\ due = {} /\ current = None /\ todo = {}
  /\ queue = [s \in Server |-> <<>>]
  /\ rows = [s \in Server |-> <<>>]
  /\ running = [s \in Server |-> None]
  /\ results = {}
  /\ upsets = 0
  /\ claim = [c \in Cron |-> {}]
  /\ fired = [c \in Cron |-> {}]
  /\ unwritten = [c \in Cron |-> {}]

Upset == upsets < MaxUpsets /\ upsets' = upsets + 1

Advance ==
  /\ clock < MaxTime
  /\ clock' = clock + 1
  /\ UNCHANGED <<last, upsets, history, loopVars, agentVars>>

-----------------------------------------------------------------------------
(* tick_crons *)

\* Mutant of Pending: the second of the last execution counts again.
PendingAgain(c) ==
  IF last[c] = None THEN Occurs[c] \cap {clock}
                    ELSE {o \in Occurs[c] : last[c] <= o /\ o <= clock}

\* Mutant of Pending: an occurrence counts from the second after it.
PendingPast(c) ==
  IF last[c] = None THEN Occurs[c] \cap {clock}
                    ELSE {o \in Occurs[c] : last[c] < o /\ o < clock}

\* The occurrences that make cron_due true.  A cron that never ran is due only
\* in the very second its schedule names.
Pending(c) ==
  IF last[c] = None THEN Occurs[c] \cap {clock}
                    ELSE {o \in Occurs[c] : last[c] < o /\ o <= clock}

\* The due crons are read under the store lock; the loop waits for the last of
\* them before it ticks again.
Tick ==
  /\ due = {} /\ current = None
  /\ due' = {c \in Cron : Pending(c) # {}}
  /\ due' # {}
  /\ claim' = [c \in Cron |-> Pending(c)]
  /\ UNCHANGED <<clock, last, upsets, history, current, todo, agentVars>>

\* dispatch_cron_detailed reads the servers and starts down the list; if the
\* store fails the list is empty and the dispatch counts as executed.
BeginCron(c) ==
  /\ current = None /\ c \in due
  /\ current' = c
  /\ due' = due \ {c}
  /\ todo' \in {Covers[c], {}}
  /\ fired' = [fired EXCEPT ![c] = @ \union claim[c]]
  /\ unwritten' = [unwritten EXCEPT ![c] = @ \ claim[c]]
  /\ UNCHANGED <<clock, last, upsets, claim, agentVars>>

\* dispatch_task_with_id to the next server: it waits for a slot ...
DispatchSent(s) ==
  /\ s \in todo
  /\ Len(queue[s]) < QueueCap
  /\ queue' = [queue EXCEPT ![s] = Append(@, [cron |-> current, origin |-> clock])]
  /\ todo' = todo \ {s}
  /\ UNCHANGED <<clock, last, upsets, history, due, current, claim,
                 rows, running, results>>

\* ... or the agent is away and the command becomes a row.
DispatchStored(s) ==
  /\ s \in todo
  /\ queue[s] = <<>> /\ running[s] = None
  /\ Len(rows[s]) < QueueCap
  /\ rows' = [rows EXCEPT ![s] = Append(@, [cron |-> current, origin |-> clock])]
  /\ todo' = todo \ {s}
  /\ UNCHANGED <<clock, last, upsets, history, due, current, claim,
                 queue, running, results>>

LeaveCron ==
  /\ current # None /\ todo = {}
  /\ current' = None
  /\ claim' = [claim EXCEPT ![current] = {}]
  /\ UNCHANGED <<clock, unwritten, due, todo, agentVars>>

EndDispatch(executed_at) ==
  /\ LeaveCron
  /\ last' = [last EXCEPT ![current] = executed_at]
  /\ UNCHANGED <<fired, upsets>>

\* Mutant of RecordExecution: the execution counts only once a result came.
RecordNothing == EndDispatch(last[current])

\* record_cron_execution, when the last server answered.
RecordExecution == EndDispatch(clock)

\* The store refuses it and the loop goes on.
RecordFailed ==
  /\ Upset
  /\ LeaveCron
  /\ fired' = [fired EXCEPT ![current] = @ \ claim[current]]
  /\ UNCHANGED last

-----------------------------------------------------------------------------
(* Other writers, agents, failures *)

\* manual_trigger_cron dispatches to a server without touching the cron.
ManualTrigger(c, s) ==
  /\ s \in Covers[c]
  /\ Len(queue[s]) < QueueCap
  /\ Upset
  /\ queue' = [queue EXCEPT ![s] = Append(@, [cron |-> c, origin |-> clock])]
  /\ UNCHANGED <<clock, last, history, loopVars, rows, running, results>>

\* The agent is back and request_task replays a row.
Replay(s) ==
  /\ rows[s] # <<>> /\ Len(queue[s]) < QueueCap
  /\ queue' = [queue EXCEPT ![s] = Append(@, Head(rows[s]))]
  /\ rows' = [rows EXCEPT ![s] = Tail(@)]
  /\ UNCHANGED <<clock, last, upsets, history, loopVars, running, results>>

\* The agent's loop runs one command at a time.
StartRun(s) ==
  /\ running[s] = None /\ queue[s] # <<>>
  /\ running' = [running EXCEPT ![s] = [run |-> Head(queue[s]), start |-> clock]]
  /\ queue' = [queue EXCEPT ![s] = Tail(@)]
  /\ UNCHANGED <<clock, last, upsets, history, loopVars, rows, results>>

\* Mutant of ElapsedSeconds: the delay is rounded up.
ElapsedRoundedUp(start) == {clock - start, clock - start + 1} \cap Nat

\* started.elapsed() in whole seconds; the clock may have struck once more.
ElapsedSeconds(start) == {clock - start, clock - start - 1} \cap Nat

FinishRun(s) ==
  /\ running[s] # None
  /\ \E d \in ElapsedSeconds(running[s].start) :
       results' = results \union {[run |-> running[s].run, server |-> s, delay |-> d]}
  /\ running' = [running EXCEPT ![s] = None]
  /\ UNCHANGED <<clock, last, upsets, history, loopVars, queue, rows>>

\* Occurrences at or before the old last_executed_at and after the new one.
Unwritten(c, executed_at) ==
  IF last[c] = None THEN {} ELSE {o \in fired[c] : executed_at < o /\ o <= last[c]}

\* record_cron_result for an authorized server: unix_now() minus the delay,
\* whatever the cron did since.
RecordResult(r) ==
  LET c == r.run.cron
      executed_at == clock - r.delay
  IN
  /\ r \in results
  /\ results' = results \ {r}
  /\ last' = [last EXCEPT ![c] = executed_at]
  /\ unwritten' = [unwritten EXCEPT ![c] = @ \union Unwritten(c, executed_at)]
  /\ UNCHANGED <<clock, upsets, fired, loopVars, queue, rows, running>>

\* The store does not find or refuses the cron of the result.
RejectResult(r) ==
  /\ results' = results \ {r}
  /\ UNCHANGED <<clock, last, upsets, history, loopVars, queue, rows, running>>

\* The agent's stream ends: what is on it or in execution is lost.
LoseAgent(s) ==
  /\ queue' = [queue EXCEPT ![s] = <<>>]
  /\ running' = [running EXCEPT ![s] = None]
  /\ results' = {r \in results : r.server # s}
  /\ UNCHANGED <<clock, last, upsets, history, loopVars, rows>>

\* The dashboard restarts; a dispatch in progress was not recorded.
Restart ==
  /\ Upset
  /\ due' = {} /\ current' = None /\ todo' = {}
  /\ claim' = [c \in Cron |-> {}]
  /\ queue' = [s \in Server |-> <<>>]
  /\ running' = [s \in Server |-> None]
  /\ results' = {}
  /\ fired' = IF current = None THEN fired
              ELSE [fired EXCEPT ![current] = @ \ claim[current]]
  /\ UNCHANGED <<clock, last, unwritten, rows>>

Next ==
  \/ Advance
  \/ Tick
  \/ \E c \in Cron : BeginCron(c)
  \/ \E s \in Server : DispatchSent(s) \/ DispatchStored(s)
  \/ RecordExecution \/ RecordFailed
  \/ \E c \in Cron, s \in Server : ManualTrigger(c, s)
  \/ \E s \in Server : Replay(s) \/ StartRun(s) \/ FinishRun(s) \/ LoseAgent(s)
  \/ \E r \in results : RecordResult(r) \/ RejectResult(r)
  \/ Restart

Spec == Init /\ [][Next]_vars

\* The loop runs on, and a channel with room again and again takes the command
\* that waits for it.  No fairness for agents: an agent may stop between two
\* commands, its results waiting for a reader that waits for it in turn.  Nor for
\* the clock, manual triggers, lost agents and restarts; restarts do not starve a
\* tick for good.
Fairness ==
  /\ WF_vars(Tick)
  /\ \A c \in Cron : SF_vars(BeginCron(c))
  /\ \A s \in Server : SF_vars(DispatchSent(s))
  /\ WF_vars(RecordExecution)

FairSpec == Spec /\ Fairness

-----------------------------------------------------------------------------
TypeOK ==
  /\ clock \in Time
  /\ last \in [Cron -> Time \union {None}]
  /\ \A c \in Cron : last[c] # None => last[c] <= clock
  /\ due \subseteq Cron /\ current \in Cron \union {None} /\ todo \subseteq Server
  /\ queue \in [Server -> Seq(Run)] /\ rows \in [Server -> Seq(Run)]
  /\ running \in [Server -> [run : Run, start : Time] \union {None}]
  /\ results \subseteq Result
  /\ upsets \in 0..MaxUpsets
  /\ claim \in [Cron -> SUBSET Time]
  /\ fired \in [Cron -> SUBSET Time] /\ unwritten \in [Cron -> SUBSET Time]
  /\ \A c \in Cron : claim[c] \union fired[c] \union unwritten[c] \subseteq Occurs[c]

\* What the loop is about to dispatch was not dispatched before, however late
\* the loop is and whatever results and manual runs come in between, unless a
\* result of an older run moved last_executed_at back behind it since, once for
\* every time it is dispatched again, or it was not recorded, the process dying
\* or the store refusing (tick_crons, cron_due, record_cron_execution).
FiredOnceUnlessExcused ==
  \A c \in due : claim[c] \cap fired[c] \subseteq unwritten[c]

\* The result of a run never moves last_executed_at before the second the run
\* was dispatched in, whatever is lost in rounding the delay and however long
\* the result travels: a run does not re-arm its own occurrence.
OwnOccurrenceKept ==
  \A r \in results : clock - r.delay >= r.run.origin

\* An occurrence is dispatched once, but for the excuses, and a run's own result
\* is none of them.
OccurrencesFireOnce == FiredOnceUnlessExcused /\ OwnOccurrenceKept

\* Why they hold.  What was dispatched and not unwritten is not after last_executed_at,
\* or the loop stands at its dispatch; what it stands for is past, so that the time
\* recorded when it is over covers it.  Runs start after they were dispatched.
Past == {r \in Run : r.origin <= clock}

RunsArePast ==
  /\ queue \in [Server -> Seq(Past)] /\ rows \in [Server -> Seq(Past)]
  /\ \A s \in Server : running[s] # None =>
       running[s].run.origin <= running[s].start /\ running[s].start <= clock

FiredIsRecorded ==
  \A c \in Cron : \A o \in fired[c] \ unwritten[c] :
    (current = c /\ o \in claim[c]) \/ (last[c] # None /\ o <= last[c])

CronIInv ==
  /\ TypeOK /\ RunsArePast /\ FiredIsRecorded /\ OccurrencesFireOnce
  /\ current \notin due /\ (todo # {} => current # None)
  /\ \A c \in Cron : \A o \in claim[c] : o <= clock

\* An occurrence that makes a cron due is dispatched or overtaken by a later
\* execution, or the loop waits for ever for room at one agent that takes no more:
\* nothing else, neither the other crons nor channels that were full for a while,
\* holds it up for good.
HeldAt(s) == s \in todo /\ Len(queue[s]) = QueueCap
DueIsServed ==
  \A c \in Cron : \A o \in Occurs[c] :
    (last[c] # None /\ last[c] < o /\ o <= clock) ~>
      \/ o \in fired[c]
      \/ last[c] # None /\ last[c] >= o
      \/ \E s \in Server : []HeldAt(s)

\* Once recorded, an occurrence is dispatched once: not due again before the
\* schedule's next one (the test detects_due_cron_from_last_execution).  It is
\* due again when a command runs into the next occurrences: its result unwrites
\* the executions recorded since it started.
FiredOnce == \A c \in due : claim[c] \cap fired[c] = {}
=============================================================================
