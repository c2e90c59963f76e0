------------------------ MODULE CronSchedulerProofs ------------------------
(***************************************************************************)
(* Proofs about CronScheduler, for any crons, schedules and servers: an    *)
(* occurrence that the loop is about to dispatch was not dispatched        *)
(* before, but for the excuses, and a run's own result is none of them.    *)
(***************************************************************************)
EXTENDS CronScheduler, SequenceTheorems, TLAPS

USE CronAssumption

-----------------------------------------------------------------------------
(* Queues of runs dispatched by now. *)

\* What is past stays past.
LEMMA SeqGrows ==
  ASSUME NEW S, NEW T, S \subseteq T
  PROVE  Seq(S) \subseteq Seq(T)
<1> SUFFICES ASSUME NEW q \in Seq(S) PROVE q \in Seq(T)
  OBVIOUS
<1>1. Len(q) \in Nat /\ q \in [1..Len(q) -> S]
  BY LenProperties
<1>2. q \in [1..Len(q) -> T]
  BY <1>1
<1> QED BY <1>1, <1>2, SeqDef

\* What was past stays past.
LEMMA PastGrows ==
  ASSUME clock \in Nat, clock' \in Nat, clock <= clock'
  PROVE  Past \subseteq Past' /\ Seq(Past) \subseteq Seq(Past')
<1>1. Past \subseteq Past'
  BY DEF Past, Run, Time
<1> QED BY <1>1, SeqGrows

\* Runs of the past are runs.
LEMMA PastRuns == Seq(Past) \subseteq Seq(Run)
<1>1. Past \subseteq Run
  BY DEF Past
<1> QED BY <1>1, SeqGrows

-----------------------------------------------------------------------------
\* At start nothing was dispatched.
LEMMA CronInit == Init => CronIInv
<1> SUFFICES ASSUME Init PROVE CronIInv
  OBVIOUS
<1>1. \A S : <<>> \in Seq(S)
  BY EmptySeq
<1>2. TypeOK
  BY <1>1 DEF Init, TypeOK, Time
<1> QED BY <1>1, <1>2 DEF Init, CronIInv, RunsArePast, FiredIsRecorded, OccurrencesFireOnce,
              FiredOnceUnlessExcused, OwnOccurrenceKept

\* The parts of the invariant that a step leaves alone.
LEMMA LoopRests ==
  ASSUME CronIInv, UNCHANGED <<clock, last, history, loopVars>>
  PROVE  /\ FiredIsRecorded' /\ FiredOnceUnlessExcused'
         /\ current' \notin due' /\ (todo' # {} => current' # None)
         /\ \A c \in Cron : \A o \in claim'[c] : o <= clock'
BY DEF CronIInv, FiredIsRecorded, OccurrencesFireOnce, FiredOnceUnlessExcused, loopVars, history

\* What leaves the clock and the agents alone keeps their runs.
LEMMA AgentsRest ==
  ASSUME CronIInv, UNCHANGED <<clock, agentVars>>
  PROVE  RunsArePast' /\ OwnOccurrenceKept'
BY DEF Past, CronIInv, RunsArePast, OccurrencesFireOnce, OwnOccurrenceKept, agentVars

-----------------------------------------------------------------------------
(* The clock and the loop *)

\* The clock makes occurrences past.
LEMMA AdvanceStep == CronIInv /\ Advance => CronIInv'
<1> SUFFICES ASSUME CronIInv, Advance PROVE CronIInv'
  OBVIOUS
<1>0. /\ clock \in Nat /\ clock' = clock + 1 /\ clock' \in 0..MaxTime
      /\ UNCHANGED <<last, upsets, due, current, todo, claim, queue, rows, running, results,
                     fired, unwritten>>
  BY DEF Advance, CronIInv, TypeOK, loopVars, agentVars, history, Time
<1>1. Seq(Past) \subseteq Seq(Past')
  BY <1>0, PastGrows
<1>t. TypeOK /\ RunsArePast
  BY DEF CronIInv
<1>2. TypeOK'
  <2>1. clock' \in Time
    BY <1>0 DEF Time
  <2>2. \A c \in Cron : last[c] # None => last[c] <= clock + 1
    BY <1>0, <1>t DEF TypeOK, Time
  <2> QED BY <1>0, <1>t, <2>1, <2>2 DEF TypeOK
<1>3. RunsArePast'
  <2>1. queue' \in [Server -> Seq(Past')] /\ rows' \in [Server -> Seq(Past')]
    BY <1>0, <1>1, <1>t DEF RunsArePast
  <2>2. \A s \in Server : running[s] # None =>
          running[s].run.origin <= running[s].start /\ running[s].start <= clock + 1
    BY <1>0, <1>t DEF RunsArePast, TypeOK, Run, Time
  <2> QED BY <1>0, <2>1, <2>2 DEF RunsArePast
<1>4. OwnOccurrenceKept'
  BY <1>0, <1>t DEF CronIInv, OccurrencesFireOnce, OwnOccurrenceKept, TypeOK, Run, Result, Time
<1>5. FiredIsRecorded' /\ FiredOnceUnlessExcused'
  BY <1>0 DEF CronIInv, FiredIsRecorded, OccurrencesFireOnce, FiredOnceUnlessExcused
<1>6. \A c \in Cron : \A o \in claim'[c] : o <= clock'
  BY <1>0, <1>t DEF CronIInv, TypeOK, Time
<1> QED
  BY <1>0, <1>2, <1>3, <1>4, <1>5, <1>6 DEF CronIInv, OccurrencesFireOnce

\* A cron is due for what comes after last_executed_at: none of it was dispatched
\* before, or it was unwritten.
LEMMA TickStep == CronIInv /\ Tick => CronIInv'
<1> SUFFICES ASSUME CronIInv, Tick PROVE CronIInv'
  OBVIOUS
<1>0. /\ due = {} /\ current = None
      /\ due' \subseteq Cron
      /\ claim' = [c \in Cron |-> Pending(c)]
      /\ UNCHANGED <<clock, last, upsets, fired, unwritten, current, todo, agentVars>>
  BY DEF Tick, history
<1>1. \A c \in Cron : Pending(c) \subseteq Occurs[c] /\ Pending(c) \in SUBSET Time
                        /\ \A o \in Pending(c) : o <= clock
  <2> SUFFICES ASSUME NEW c \in Cron
               PROVE  /\ Pending(c) \subseteq Occurs[c]
                      /\ Pending(c) \in SUBSET Time
                      /\ \A o \in Pending(c) : o <= clock
    OBVIOUS
  <2>1. Pending(c) \subseteq Occurs[c]
    BY DEF Pending
  <2>2. Occurs[c] \subseteq Time
    BY DEF Time
  <2>3. \A o \in Pending(c) : o = clock \/ o <= clock
    BY DEF Pending
  <2>4. clock <= clock
    BY DEF CronIInv, TypeOK, Time
  <2> QED BY <2>1, <2>2, <2>3, <2>4
<1>2. TypeOK'
  <2>1. claim' \in [Cron -> SUBSET Time]
    <3>1. \A c \in Cron : Pending(c) \in SUBSET Time
      BY <1>1
    <3> QED BY <1>0, <3>1
  <2>3. \A c \in Cron : claim'[c] = Pending(c)
    BY <1>0
  <2>2. TypeOK
    BY DEF CronIInv
  <2> QED BY <1>0, <1>1, <2>1, <2>2, <2>3 DEF TypeOK, agentVars
<1>3. \A c \in Cron : Pending(c) \cap fired[c] \subseteq unwritten[c]
  BY <1>0 DEF CronIInv, FiredIsRecorded, Pending, TypeOK, Time
<1>4. FiredOnceUnlessExcused'
  BY <1>0, <1>3 DEF FiredOnceUnlessExcused
<1>5. FiredIsRecorded'
  BY <1>0 DEF CronIInv, FiredIsRecorded
<1>6. RunsArePast' /\ OwnOccurrenceKept'
  BY <1>0, AgentsRest
<1> QED BY <1>0, <1>1, <1>2, <1>4, <1>5, <1>6 DEF CronIInv, OccurrencesFireOnce

\* The loop takes up a cron that is due, and its occurrences count as dispatched.
LEMMA BeginCronStep ==
  ASSUME CronIInv, NEW c \in Cron, BeginCron(c)
  PROVE  CronIInv'
<1>0. /\ current = None /\ c \in due /\ current' = c /\ due' = due \ {c}
      /\ todo' \subseteq Server
      /\ fired' = [fired EXCEPT ![c] = @ \union claim[c]]
      /\ unwritten' = [unwritten EXCEPT ![c] = @ \ claim[c]]
      /\ UNCHANGED <<clock, last, upsets, claim, agentVars>>
  BY DEF BeginCron
<1>1. TypeOK'
  BY <1>0 DEF CronIInv, TypeOK, agentVars
<1>2. FiredIsRecorded'
  BY <1>0 DEF CronIInv, FiredIsRecorded, TypeOK, Time
<1>3. FiredOnceUnlessExcused'
  BY <1>0 DEF CronIInv, OccurrencesFireOnce, FiredOnceUnlessExcused, TypeOK
<1>4. RunsArePast' /\ OwnOccurrenceKept'
  BY <1>0, AgentsRest
<1> QED BY <1>0, <1>1, <1>2, <1>3, <1>4 DEF CronIInv, OccurrencesFireOnce

\* The run that a dispatch or a manual trigger makes is of this second.
LEMMA RunMade ==
  ASSUME CronIInv, NEW c \in Cron, NEW s \in Server
  PROVE  LET run == [cron |-> c, origin |-> clock]
         IN  run \in Past /\ Append(queue[s], run) \in Seq(Past)
                /\ Append(rows[s], run) \in Seq(Past)
<1>1. [cron |-> c, origin |-> clock] \in Past
  BY DEF CronIInv, TypeOK, Past, Run, Time
<1>2. queue[s] \in Seq(Past) /\ rows[s] \in Seq(Past)
  BY DEF CronIInv, RunsArePast
<1>3. Append(queue[s], [cron |-> c, origin |-> clock]) \in Seq(Past)
  BY <1>1, <1>2, AppendProperties
<1>4. Append(rows[s], [cron |-> c, origin |-> clock]) \in Seq(Past)
  BY <1>1, <1>2, AppendProperties
<1> QED BY <1>1, <1>3, <1>4

\* A dispatch to a server, sent or stored, is of the occurrence at hand.
LEMMA DispatchStep ==
  ASSUME CronIInv, NEW s \in Server, DispatchSent(s) \/ DispatchStored(s)
  PROVE  CronIInv'
<1>0. /\ s \in todo /\ todo' = todo \ {s} /\ current \in Cron
      /\ UNCHANGED <<clock, last, upsets, fired, unwritten, due, current, claim, running,
                     results>>
  BY DEF DispatchSent, DispatchStored, history, CronIInv, TypeOK
<1>1. LET run == [cron |-> current, origin |-> clock]
      IN  /\ Append(queue[s], run) \in Seq(Past) /\ Append(rows[s], run) \in Seq(Past)
          /\ \/ queue' = [queue EXCEPT ![s] = Append(@, run)] /\ rows' = rows
             \/ rows' = [rows EXCEPT ![s] = Append(@, run)] /\ queue' = queue
  BY <1>0, RunMade DEF DispatchSent, DispatchStored
<1>2. Seq(Past) \subseteq Seq(Run) /\ Past' = Past
  <2>1. Past \subseteq Run /\ Past' = Past
    BY <1>0 DEF Past
  <2> QED BY <2>1, SeqGrows
<1>3. RunsArePast'
  BY <1>0, <1>1, <1>2 DEF CronIInv, RunsArePast
<1>4. TypeOK'
  BY <1>0, <1>2, <1>3 DEF CronIInv, RunsArePast, TypeOK
<1> QED
  BY <1>0, <1>3, <1>4 DEF CronIInv, FiredIsRecorded, OccurrencesFireOnce,
     FiredOnceUnlessExcused, OwnOccurrenceKept

\* The time that is recorded covers all the dispatch stands for.
LEMMA RecordStep ==
  ASSUME CronIInv, RecordExecution \/ RecordFailed
  PROVE  CronIInv'
<1>0. /\ current \in Cron /\ todo = {} /\ current' = None
      /\ claim' = [claim EXCEPT ![current] = {}]
      /\ UNCHANGED <<clock, unwritten, due, todo, agentVars>>
      /\ \/ last' = [last EXCEPT ![current] = clock] /\ UNCHANGED <<fired, upsets>>
         \/ /\ last' = last /\ fired' = [fired EXCEPT ![current] = @ \ claim[current]]
            /\ upsets < MaxUpsets /\ upsets' = upsets + 1
  BY DEF RecordExecution, EndDispatch, RecordFailed, LeaveCron, Upset, CronIInv, TypeOK
<1>t. TypeOK
  BY DEF CronIInv
<1>1. TypeOK'
  <2>1. upsets' \in 0..MaxUpsets /\ clock \in Time
    BY <1>0, <1>t DEF TypeOK
  <2>2. last' \in [Cron -> Time \union {None}]
    <3>1. last \in [Cron -> Time \union {None}] /\ clock \in Time
      BY <1>t DEF TypeOK
    <3> QED BY <1>0, <3>1
  <2>3. \A c \in Cron : last'[c] # None => last'[c] <= clock
    <3> SUFFICES ASSUME NEW c \in Cron, last'[c] # None PROVE last'[c] <= clock
      OBVIOUS
    <3>1. last'[c] = clock \/ last'[c] = last[c]
      BY <1>0, <1>t DEF TypeOK
    <3> QED BY <1>t, <3>1 DEF TypeOK, Time
  <2>4. claim' \in [Cron -> SUBSET Time]
    BY <1>0, <1>t DEF TypeOK
  <2>5. fired' \in [Cron -> SUBSET Time]
    <3>1. CASE fired' = fired
      BY <1>t, <3>1 DEF TypeOK
    <3>2. CASE fired' = [fired EXCEPT ![current] = @ \ claim[current]]
      <4>1. fired[current] \ claim[current] \in SUBSET Time
        BY <1>0, <1>t DEF TypeOK
      <4> QED BY <1>t, <3>2, <4>1 DEF TypeOK
    <3> QED BY <1>0, <3>1, <3>2
  <2>6. \A c \in Cron : claim'[c] \subseteq claim[c]
    BY <1>0, <1>t DEF TypeOK
  <2>7. \A c \in Cron : fired'[c] \subseteq fired[c]
    <3>1. CASE fired' = fired
      BY <3>1
    <3>2. CASE fired' = [fired EXCEPT ![current] = @ \ claim[current]]
      BY <1>t, <3>2 DEF TypeOK
    <3> QED BY <1>0, <3>1, <3>2
  <2> QED BY <1>0, <1>t, <2>1, <2>2, <2>3, <2>4, <2>5, <2>6, <2>7 DEF TypeOK, agentVars
<1>2. FiredIsRecorded'
  BY <1>0 DEF CronIInv, FiredIsRecorded, TypeOK, Time
<1>3. FiredOnceUnlessExcused'
  BY <1>0 DEF CronIInv, OccurrencesFireOnce, FiredOnceUnlessExcused, TypeOK
<1>4. RunsArePast' /\ OwnOccurrenceKept'
  BY <1>0, AgentsRest
<1> QED BY <1>0, <1>1, <1>2, <1>3, <1>4 DEF CronIInv, OccurrencesFireOnce, TypeOK

-----------------------------------------------------------------------------
(* Other writers, agents, failures *)

\* A run triggered by hand stands for the second it was triggered in.
LEMMA ManualTriggerStep ==
  ASSUME CronIInv, NEW c \in Cron, NEW s \in Server, ManualTrigger(c, s)
  PROVE  CronIInv'
<1>0. /\ queue' = [queue EXCEPT ![s] = Append(@, [cron |-> c, origin |-> clock])]
      /\ upsets < MaxUpsets /\ upsets' = upsets + 1
      /\ UNCHANGED <<clock, last, history, loopVars, rows, running, results>>
  BY DEF ManualTrigger, Upset
<1>t. TypeOK /\ RunsArePast
  BY DEF CronIInv
<1>1. Append(queue[s], [cron |-> c, origin |-> clock]) \in Seq(Past)
  BY RunMade
<1>2. queue' \in [Server -> Seq(Past)] /\ Past' = Past
  BY <1>0, <1>1, <1>t DEF RunsArePast, Past
<1>3. RunsArePast'
  BY <1>0, <1>2, <1>t DEF RunsArePast
<1>4. TypeOK'
  <2>1. queue' \in [Server -> Seq(Run)]
    BY <1>2, PastRuns
  <2>2. upsets' \in 0..MaxUpsets
    BY <1>0, <1>t DEF TypeOK
  <2> QED BY <1>0, <1>t, <2>1, <2>2 DEF TypeOK, history, loopVars
<1>5. OwnOccurrenceKept'
  BY <1>0 DEF CronIInv, OccurrencesFireOnce, OwnOccurrenceKept
<1> QED BY <1>0, <1>3, <1>4, <1>5, LoopRests DEF CronIInv, OccurrencesFireOnce

\* A stored run goes to the agent once more.
LEMMA ReplayStep ==
  ASSUME CronIInv, NEW s \in Server, Replay(s)
  PROVE  CronIInv'
<1>0. /\ rows[s] # <<>>
      /\ queue' = [queue EXCEPT ![s] = Append(@, Head(rows[s]))]
      /\ rows' = [rows EXCEPT ![s] = Tail(@)]
      /\ UNCHANGED <<clock, last, upsets, history, loopVars, running, results>>
  BY DEF Replay
<1>t. TypeOK /\ RunsArePast
  BY DEF CronIInv
<1>1. rows[s] \in Seq(Past) /\ queue[s] \in Seq(Past)
  BY <1>t DEF RunsArePast
<1>2. Head(rows[s]) \in Past /\ Tail(rows[s]) \in Seq(Past)
  BY <1>0, <1>1, HeadTailProperties
<1>3. Append(queue[s], Head(rows[s])) \in Seq(Past)
  BY <1>1, <1>2, AppendProperties
<1>4. queue' \in [Server -> Seq(Past)] /\ rows' \in [Server -> Seq(Past)] /\ Past' = Past
  BY <1>0, <1>2, <1>3, <1>t DEF RunsArePast, Past
<1>5. RunsArePast'
  BY <1>0, <1>4, <1>t DEF RunsArePast
<1>6. TypeOK'
  BY <1>0, <1>4, <1>t, PastRuns DEF TypeOK, history, loopVars
<1>7. OwnOccurrenceKept'
  BY <1>0 DEF CronIInv, OccurrencesFireOnce, OwnOccurrenceKept
<1> QED BY <1>0, <1>5, <1>6, <1>7, LoopRests DEF CronIInv, OccurrencesFireOnce

\* An agent starts what came first.
LEMMA StartRunStep ==
  ASSUME CronIInv, NEW s \in Server, StartRun(s)
  PROVE  CronIInv'
<1>0. /\ queue[s] # <<>>
      /\ running' = [running EXCEPT ![s] = [run |-> Head(queue[s]), start |-> clock]]
      /\ queue' = [queue EXCEPT ![s] = Tail(@)]
      /\ UNCHANGED <<clock, last, upsets, history, loopVars, rows, results>>
  BY DEF StartRun
<1>t. TypeOK /\ RunsArePast
  BY DEF CronIInv
<1>1. queue[s] \in Seq(Past)
  BY <1>t DEF RunsArePast
<1>2. Head(queue[s]) \in Past /\ Tail(queue[s]) \in Seq(Past)
  BY <1>0, <1>1, HeadTailProperties
<1>3. queue' \in [Server -> Seq(Past)] /\ Past' = Past
  BY <1>0, <1>2, <1>t DEF RunsArePast, Past
<1>4. running' \in [Server -> [run : Run, start : Time] \union {None}]
  <2>1. [run |-> Head(queue[s]), start |-> clock] \in [run : Run, start : Time]
    BY <1>2, <1>t DEF Past, TypeOK
  <2> QED BY <1>0, <1>t, <2>1 DEF TypeOK
<1>5. \A x \in Server : running'[x] # None =>
          running'[x].run.origin <= running'[x].start /\ running'[x].start <= clock
  <2> SUFFICES ASSUME NEW x \in Server, running'[x] # None
               PROVE  running'[x].run.origin <= running'[x].start /\ running'[x].start <= clock
    OBVIOUS
  <2>1. CASE x = s
    <3>1. running'[x] = [run |-> Head(queue[s]), start |-> clock]
      BY <1>0, <1>t, <2>1 DEF TypeOK
    <3>2. Head(queue[s]).origin <= clock
      BY <1>2 DEF Past
    <3>3. clock <= clock
      BY <1>t DEF TypeOK, Time
    <3> QED BY <3>1, <3>2, <3>3
  <2>2. CASE x # s
    BY <1>0, <1>t, <2>2 DEF RunsArePast, TypeOK
  <2> QED BY <2>1, <2>2
<1>6. RunsArePast'
  BY <1>0, <1>3, <1>5, <1>t DEF RunsArePast
<1>7. TypeOK'
  BY <1>0, <1>3, <1>4, <1>t, PastRuns DEF TypeOK, history, loopVars
<1>8. OwnOccurrenceKept'
  BY <1>0 DEF CronIInv, OccurrencesFireOnce, OwnOccurrenceKept
<1> QED BY <1>0, <1>6, <1>7, <1>8, LoopRests DEF CronIInv, OccurrencesFireOnce

\* The delay is the time since the start, or a second less: the start as the dashboard
\* reckons it is not before the start, and with it not before the dispatch.
LEMMA FinishRunStep ==
  ASSUME CronIInv, NEW s \in Server, FinishRun(s)
  PROVE  CronIInv'
<1>t. TypeOK /\ RunsArePast
  BY DEF CronIInv
<1>r. running[s] # None /\ running[s] \in [run : Run, start : Time] /\ clock \in Time
  BY <1>t DEF FinishRun, TypeOK
<1>0. PICK d \in ElapsedSeconds(running[s].start) :
        results' = results \union {[run |-> running[s].run, server |-> s, delay |-> d]}
  BY DEF FinishRun
<1>1. d \in Time /\ d <= clock - running[s].start /\ running[s].run.origin <= running[s].start
  BY <1>0, <1>r, <1>t DEF ElapsedSeconds, RunsArePast, Time, Run
<1>2. [run |-> running[s].run, server |-> s, delay |-> d] \in Result
  BY <1>1, <1>r DEF Result
<1>3. /\ running' = [running EXCEPT ![s] = None]
      /\ UNCHANGED <<clock, last, upsets, history, loopVars, queue, rows>>
  BY DEF FinishRun
<1>4. TypeOK'
  BY <1>0, <1>2, <1>3, <1>t DEF TypeOK, history, loopVars
<1>5. RunsArePast'
  <2>1. Past' = Past
    BY <1>3 DEF Past
  <2> QED BY <1>3, <1>t, <2>1 DEF RunsArePast, TypeOK
<1>6. OwnOccurrenceKept'
  <2>1. clock - d >= running[s].run.origin
    BY <1>1, <1>r DEF Time, Run
  <2> QED BY <1>0, <1>3, <2>1 DEF CronIInv, OccurrencesFireOnce, OwnOccurrenceKept
<1> QED BY <1>3, <1>4, <1>5, <1>6, LoopRests DEF CronIInv, OccurrencesFireOnce

\* A result writes the second its run started in, as the dashboard reckons it: what is
\* moved behind that is unwritten, what is before stays recorded.
LEMMA RecordResultStep ==
  ASSUME CronIInv, NEW r \in results, RecordResult(r)
  PROVE  CronIInv'
<1> DEFINE c == r.run.cron
           executed_at == clock - r.delay
<1>t. TypeOK
  BY DEF CronIInv
<1>0. /\ results' = results \ {r}
      /\ last' = [last EXCEPT ![c] = executed_at]
      /\ unwritten' = [unwritten EXCEPT ![c] = @ \union Unwritten(c, executed_at)]
      /\ UNCHANGED <<clock, upsets, fired, loopVars, queue, rows, running>>
  BY DEF RecordResult
<1>1. c \in Cron /\ r.run.origin \in Time /\ r.delay \in Time /\ clock \in Time
  BY <1>t DEF TypeOK, Result, Run
<1>2. executed_at \in Time /\ executed_at <= clock
  <2>1. executed_at >= r.run.origin
    BY DEF CronIInv, OccurrencesFireOnce, OwnOccurrenceKept
  <2> QED BY <1>1, <2>1 DEF Time
<1> HIDE DEF c, executed_at
<1>3. Unwritten(c, executed_at) \subseteq fired[c]
  BY DEF Unwritten
<1>4. TypeOK'
  <2>1. last' \in [Cron -> Time \union {None}]
    BY <1>0, <1>2, <1>t DEF TypeOK
  <2>2. \A x \in Cron : last'[x] # None => last'[x] <= clock
    BY <1>0, <1>1, <1>2, <1>t DEF TypeOK
  <2>3. \A x \in Cron : unwritten'[x] \subseteq unwritten[x] \union fired[x]
    BY <1>0, <1>3, <1>t DEF TypeOK
  <2>4. unwritten' \in [Cron -> SUBSET Time]
    <3>1. unwritten[c] \union Unwritten(c, executed_at) \in SUBSET Time
      BY <1>1, <1>3, <1>t DEF TypeOK
    <3> QED BY <1>0, <1>t, <3>1 DEF TypeOK
  <2> QED BY <1>0, <1>t, <2>1, <2>2, <2>3, <2>4 DEF TypeOK, loopVars
<1>5. FiredIsRecorded'
  <2> SUFFICES ASSUME NEW x \in Cron, NEW o \in fired[x] \ unwritten'[x]
               PROVE  (current = x /\ o \in claim[x]) \/ (last'[x] # None /\ o <= last'[x])
    BY <1>0 DEF FiredIsRecorded, loopVars
  <2>1. o \in fired[x] \ unwritten[x]
    BY <1>0, <1>t DEF TypeOK
  <2>2. (current = x /\ o \in claim[x]) \/ (last[x] # None /\ o <= last[x])
    BY <2>1 DEF CronIInv, FiredIsRecorded
  <2>3. CASE x = c /\ last[x] # None /\ o <= last[x]
    <3>1. o \notin Unwritten(c, executed_at)
      BY <1>0, <1>t, <2>3 DEF TypeOK
    <3>2. ~(executed_at < o)
      BY <3>1, <2>1, <2>3 DEF Unwritten
    <3>3. o \in Time
      BY <2>1, <1>t DEF TypeOK
    <3>4. o <= executed_at
      BY <3>2, <3>3, <1>2 DEF Time
    <3>5. last'[x] = executed_at /\ executed_at # None
      BY <1>0, <1>1, <1>2, <1>t, <2>3 DEF TypeOK, Time
    <3> QED BY <3>4, <3>5
  <2>4. CASE x # c /\ last[x] # None /\ o <= last[x]
    BY <1>0, <1>t, <2>4 DEF TypeOK
  <2> QED BY <2>2, <2>3, <2>4
<1>6. FiredOnceUnlessExcused'
  <2>1. \A x \in Cron : unwritten[x] \subseteq unwritten'[x]
    BY <1>0, <1>t DEF TypeOK
  <2> QED BY <1>0, <1>t, <2>1
          DEF CronIInv, OccurrencesFireOnce, FiredOnceUnlessExcused, TypeOK, loopVars
<1>7. RunsArePast'
  BY <1>0 DEF CronIInv, RunsArePast, Past
<1>8. OwnOccurrenceKept'
  BY <1>0 DEF CronIInv, OccurrencesFireOnce, OwnOccurrenceKept
<1> QED BY <1>0, <1>4, <1>5, <1>6, <1>7, <1>8 DEF CronIInv, OccurrencesFireOnce, loopVars

\* A result that is refused changes no cron.
LEMMA RejectResultStep ==
  ASSUME CronIInv, NEW r \in results, RejectResult(r)
  PROVE  CronIInv'
<1>0. /\ results' \subseteq results
      /\ UNCHANGED <<clock, last, upsets, history, loopVars, queue, rows, running>>
  BY DEF RejectResult
<1>1. TypeOK'
  BY <1>0 DEF CronIInv, TypeOK, history, loopVars
<1>2. RunsArePast'
  BY <1>0 DEF CronIInv, RunsArePast, Past
<1>3. OwnOccurrenceKept'
  BY <1>0 DEF CronIInv, OccurrencesFireOnce, OwnOccurrenceKept
<1> QED BY <1>0, <1>1, <1>2, <1>3, LoopRests DEF CronIInv, OccurrencesFireOnce

\* An agent that goes takes its runs along.
LEMMA LoseAgentStep ==
  ASSUME CronIInv, NEW s \in Server, LoseAgent(s)
  PROVE  CronIInv'
<1>0. /\ queue' = [queue EXCEPT ![s] = <<>>]
      /\ running' = [running EXCEPT ![s] = None]
      /\ results' \subseteq results
      /\ UNCHANGED <<clock, last, upsets, history, loopVars, rows>>
  BY DEF LoseAgent
<1>t. TypeOK /\ RunsArePast
  BY DEF CronIInv
<1>1. queue' \in [Server -> Seq(Past)] /\ Past' = Past
  <2>1. <<>> \in Seq(Past)
    BY EmptySeq
  <2> QED BY <1>0, <1>t, <2>1 DEF RunsArePast, Past
<1>2. RunsArePast'
  BY <1>0, <1>1, <1>t DEF RunsArePast, TypeOK
<1>3. TypeOK'
  BY <1>0, <1>1, <1>t, PastRuns DEF TypeOK, history, loopVars
<1>4. OwnOccurrenceKept'
  BY <1>0 DEF CronIInv, OccurrencesFireOnce, OwnOccurrenceKept
<1> QED BY <1>0, <1>2, <1>3, <1>4, LoopRests DEF CronIInv, OccurrencesFireOnce

\* A dispatch that was not recorded does not count.
LEMMA RestartStep == CronIInv /\ Restart => CronIInv'
<1> SUFFICES ASSUME CronIInv, Restart PROVE CronIInv'
  OBVIOUS
<1>0. /\ upsets < MaxUpsets /\ upsets' = upsets + 1
      /\ due' = {} /\ current' = None /\ todo' = {} /\ results' = {}
      /\ claim' = [c \in Cron |-> {}]
      /\ queue' = [s \in Server |-> <<>>]
      /\ running' = [s \in Server |-> None]
      /\ fired' = IF current = None THEN fired
                  ELSE [fired EXCEPT ![current] = @ \ claim[current]]
      /\ UNCHANGED <<clock, last, unwritten, rows>>
  BY DEF Restart, Upset
<1>t. TypeOK /\ RunsArePast
  BY DEF CronIInv
<1>1. \A S : <<>> \in Seq(S)
  BY EmptySeq
<1>2. \A c \in Cron : fired'[c] \subseteq fired[c]
  BY <1>0, <1>t DEF TypeOK
<1>3. fired' \in [Cron -> SUBSET Time]
  <2>1. CASE current = None
    BY <1>0, <1>t, <2>1 DEF TypeOK
  <2>2. CASE current # None
    <3>1. fired[current] \ claim[current] \in SUBSET Time
      BY <1>t, <2>2 DEF TypeOK
    <3> QED BY <1>0, <1>t, <2>2, <3>1 DEF TypeOK
  <2> QED BY <2>1, <2>2
<1>4. TypeOK'
  <2>1. upsets' \in 0..MaxUpsets
    BY <1>0, <1>t DEF TypeOK
  <2>2. \A c \in Cron : claim'[c] = {}
    BY <1>0
  <2>3. claim' \in [Cron -> SUBSET Time]
    BY <1>0
  <2> QED BY <1>0, <1>1, <1>2, <1>3, <1>t, <2>1, <2>2, <2>3 DEF TypeOK
<1>5. RunsArePast'
  BY <1>0, <1>1, <1>t DEF RunsArePast, Past
<1>6. FiredIsRecorded'
  <2> SUFFICES ASSUME NEW c \in Cron, NEW o \in fired'[c] \ unwritten[c]
               PROVE  last[c] # None /\ o <= last[c]
    BY <1>0 DEF FiredIsRecorded
  <2>1. o \in fired[c] \ unwritten[c]
    BY <1>2
  <2>2. ~(current = c /\ o \in claim[c])
    BY <1>0, <1>t DEF TypeOK
  <2> QED BY <2>1, <2>2 DEF CronIInv, FiredIsRecorded
<1> QED BY <1>0, <1>4, <1>5, <1>6
        DEF CronIInv, OccurrencesFireOnce, FiredOnceUnlessExcused, OwnOccurrenceKept

-----------------------------------------------------------------------------
\* Every step of the loop, the agents, users and restarts keeps the invariant.
LEMMA CronStep == CronIInv /\ [Next]_vars => CronIInv'
<1> SUFFICES ASSUME CronIInv, [Next]_vars PROVE CronIInv'
  OBVIOUS
<1>1. CASE Advance
  BY <1>1, AdvanceStep
<1>2. CASE Tick
  BY <1>2, TickStep
<1>3. ASSUME NEW c \in Cron, BeginCron(c) PROVE CronIInv'
  BY <1>3, BeginCronStep
<1>4. ASSUME NEW s \in Server, DispatchSent(s) \/ DispatchStored(s) PROVE CronIInv'
  BY <1>4, DispatchStep
<1>5. CASE RecordExecution \/ RecordFailed
  BY <1>5, RecordStep
<1>6. ASSUME NEW c \in Cron, NEW s \in Server, ManualTrigger(c, s) PROVE CronIInv'
  BY <1>6, ManualTriggerStep
<1>7. ASSUME NEW s \in Server, Replay(s) PROVE CronIInv'
  BY <1>7, ReplayStep
<1>8. ASSUME NEW s \in Server, StartRun(s) PROVE CronIInv'
  BY <1>8, StartRunStep
<1>9. ASSUME NEW s \in Server, FinishRun(s) PROVE CronIInv'
  BY <1>9, FinishRunStep
<1>10. ASSUME NEW s \in Server, LoseAgent(s) PROVE CronIInv'
  BY <1>10, LoseAgentStep
<1>11. ASSUME NEW r \in results, RecordResult(r) PROVE CronIInv'
  BY <1>11, RecordResultStep
<1>12. ASSUME NEW r \in results, RejectResult(r) PROVE CronIInv'
  BY <1>12, RejectResultStep
<1>13. CASE Restart
  BY <1>13, RestartStep
<1>14. CASE UNCHANGED vars
  <2>1. TypeOK'
    BY <1>14 DEF CronIInv, TypeOK, vars, history, loopVars, agentVars
  <2>2. RunsArePast' /\ OwnOccurrenceKept'
    BY <1>14, AgentsRest DEF vars
  <2> QED BY <1>14, <2>1, <2>2, LoopRests DEF CronIInv, OccurrencesFireOnce, vars
<1> QED
  BY <1>1, <1>2, <1>3, <1>4, <1>5, <1>6, <1>7, <1>8, <1>9, <1>10, <1>11, <1>12, <1>13, <1>14
  DEF Next

\* The inductive invariant holds: the variables have their types, runs are past when
\* they start, and what was dispatched is recorded or accounted for.
THEOREM CronInvariant == Spec => []CronIInv
<1> QED BY CronInit, CronStep, PTL DEF Spec

\* Whatever the crons, schedules, servers and bounds: an occurrence is dispatched once
\* unless a result of an older run, a crash or the store made it due again, and no
\* run's own result does (tick_crons, record_cron_execution, record_cron_result).
THEOREM CronsFireOnce == Spec => []OccurrencesFireOnce
<1>1. CronIInv => OccurrencesFireOnce
  BY DEF CronIInv
<1> QED BY CronInvariant, <1>1, PTL
=============================================================================
