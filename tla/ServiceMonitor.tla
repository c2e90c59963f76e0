---------------------------- MODULE ServiceMonitor ----------------------------
(***************************************************************************)
(* Service monitors of one agent.  The dashboard sends it probes; it works *)
(* on one task at a time and sends each result before it takes the next    *)
(* task.  Every stream of the agent has a reader in the dashboard, which   *)
(* completes one result at a time: it records the result and the status of *)
(* the service under the store lock, and then works off what follows from  *)
(* it, a notification and the commands of the service, waiting for each.   *)
(* The commands go to the same agent.                                      *)
(*                                                                         *)
(* Statuses are kept per service and server, so that other agents do not   *)
(* matter.  What becomes of the results of the commands is in AlertTrigger.*)
(***************************************************************************)
EXTENDS Integers, Sequences, FiniteSets, SequencesExt

CONSTANTS
  Service,
  Conn,         \* streams of the agent, old and new
  StatusSize,   \* SERVICE_CURRENT_STATUS_SIZE, 30 in the code
  GoodAbove,    \* percentage above which a service is good, 95 in the code
  LowAbove,     \* percentage above which it is of low availability, 80
  TaskCap,      \* tasks a stream takes before a sender waits
  ResultCap,    \* results it takes before the agent waits
  Command,      \* a command of a service, and its result
  None

MonitorAssumption ==
  /\ StatusSize \in Nat \ {0} /\ TaskCap \in Nat \ {0} /\ ResultCap \in Nat \ {0}
  /\ GoodAbove \in 0..99 /\ LowAbove \in 0..GoodAbove
  /\ None \notin Conn /\ None \notin Service /\ Command \notin Service

VARIABLES
  live,      \* the stream of the agent that is connected, or None
  channel,   \* tasks on their way on it, the service each probes, or Command
  agent,     \* the result the agent is about to send, or None
  outbox,    \* stream -> results on their way
  effects,   \* stream -> what its reader has to work off
  via,       \* stream -> the stream its reader sends a command on, or None
  samples,   \* service_current_results
  status,    \* service_last_status
  told,      \* history: service -> the status notified last
  commanded  \* history: service -> the commands dispatched last; both are
             \* "mixed" once two readers had effects of the service at a time

agentVars == <<live, channel, agent, outbox>>
readVars  == <<effects, via>>
history   == <<told, commanded>>
vars == <<agentVars, readVars, samples, status, history>>

Result == [service : Service, successful : BOOLEAN]
Statuses == {"unset", "good", "low", "down"}
Effect == [kind : {"notify"}, service : Service, what : Statuses]
            \union [kind : {"command"}, service : Service, what : {"fail", "recover"}]

Idle(c) == effects[c] = <<>>
Sending(c) == ~Idle(c) /\ Head(effects[c]).kind = "command"

Init ==
  /\ live = None /\ channel = <<>> /\ agent = None
  /\ outbox = [c \in Conn |-> <<>>]
  /\ effects = [c \in Conn |-> <<>>]
  /\ via = [c \in Conn |-> "unknown"]
  /\ samples = [v \in Service |-> <<>>]
  /\ status = [v \in Service |-> "unset"]
  /\ told = [v \in Service |-> "nothing"]
  /\ commanded = [v \in Service |-> "nothing"]

-----------------------------------------------------------------------------
(* tick_service_monitors *)

\* A service is due and there is a slot.  Without one the scheduler waits, as
\* every caller of send_task does (Held of TaskDispatch); without a stream the
\* probe is gone.
ProbeSent(v) ==
  /\ live # None
  /\ Len(channel) < TaskCap
  /\ channel' = Append(channel, v)
  /\ UNCHANGED <<live, agent, outbox, readVars, samples, status, history>>

-----------------------------------------------------------------------------
(* The agent *)

\* A stream nothing refers to is used again.
Connect(c) ==
  /\ live = None
  /\ Idle(c) /\ outbox[c] = <<>> /\ \A d \in Conn : via[d] # c
  /\ live' = c
  /\ UNCHANGED <<channel, agent, outbox, readVars, samples, status, history>>

\* What is on the stream is lost, but for results the dashboard has received.
Disconnect ==
  /\ live # None
  /\ live' = None /\ channel' = <<>> /\ agent' = None
  /\ \E n \in 0..Len(outbox[live]) : outbox' = [outbox EXCEPT ![live] = SubSeq(@, 1, n)]
  /\ UNCHANGED <<readVars, samples, status, history>>

\* handle_task; the result of a command has no effect here.
AgentTakes ==
  /\ live # None /\ agent = None /\ channel # <<>>
  /\ channel' = Tail(channel)
  /\ IF Head(channel) = Command THEN agent' = Command
     ELSE \E b \in BOOLEAN : agent' = [service |-> Head(channel), successful |-> b]
  /\ UNCHANGED <<live, outbox, readVars, samples, status, history>>

\* tx.send(result).await, before the next task is looked at.
AgentSends ==
  /\ agent # None /\ Len(outbox[live]) < ResultCap
  /\ outbox' = [outbox EXCEPT ![live] = Append(@, agent)]
  /\ agent' = None
  /\ UNCHANGED <<live, channel, readVars, samples, status, history>>

-----------------------------------------------------------------------------
(* The reader of a stream *)

\* service_status_code_from_samples, for at least one sample.
StatusOf(window) ==
  LET percent == (Cardinality({i \in 1..Len(window) : window[i]}) * 100) \div Len(window)
  IN IF percent > GoodAbove THEN "good" ELSE IF percent > LowAbove THEN "low" ELSE "down"

\* Mutant of Recent: the oldest sample goes one push late.
RecentAndOne(results) == IF Len(results) > StatusSize + 1 THEN Tail(results) ELSE results

Recent(results) == IF Len(results) > StatusSize THEN Tail(results) ELSE results

\* The status changed, or the service is down: then it becomes the last one.
RunsEffects(v, current) == current = "down" \/ current # status[v]

\* Mutant of NotifyEffect: only a change is notified, never the first status.
NotifyChange(v, current) ==
  IF current # status[v] /\ status[v] # "unset"
  THEN <<[kind |-> "notify", service |-> v, what |-> current]>> ELSE <<>>

NotifyEffect(v, current) ==
  IF RunsEffects(v, current) /\ (status[v] # "unset" \/ current = "down")
  THEN <<[kind |-> "notify", service |-> v, what |-> current]>> ELSE <<>>

\* Mutant of CommandEffect: low availability is no failure.
CommandWhenDown(v, current) ==
  IF current = "good" /\ status[v] \notin {"good", "unset"}
  THEN <<[kind |-> "command", service |-> v, what |-> "recover"]>>
  ELSE IF status[v] = "good" /\ current = "down"
  THEN <<[kind |-> "command", service |-> v, what |-> "fail"]>>
  ELSE <<>>

CommandEffect(v, current) ==
  IF current = "good" /\ status[v] \notin {"good", "unset"}
  THEN <<[kind |-> "command", service |-> v, what |-> "recover"]>>
  ELSE IF status[v] = "good" /\ current # "good"
  THEN <<[kind |-> "command", service |-> v, what |-> "fail"]>>
  ELSE <<>>

\* What the reader has left.
Due(c) == {effects[c][i] : i \in 1..Len(effects[c])}

Busy(v, c) == \E e \in Due(c) : e.service = v

\* complete_service_result: row, samples, status and effects are decided under
\* the store lock; the reader works the effects off before the next result.
CompleteResult(c) ==
  LET result  == Head(outbox[c])
      v       == result.service
      window  == Recent(Append(samples[v], result.successful))
      current == StatusOf(window)
      todo    == NotifyEffect(v, current) \o CommandEffect(v, current)
  IN
  /\ Idle(c) /\ outbox[c] # <<>> /\ result # Command
  /\ outbox' = [outbox EXCEPT ![c] = Tail(@)]
  /\ samples' = [samples EXCEPT ![v] = window]
  /\ status' = IF RunsEffects(v, current) THEN [status EXCEPT ![v] = current] ELSE status
  /\ effects' = [effects EXCEPT ![c] = todo]
  /\ IF todo # <<>> /\ \E d \in Conn \ {c} : Busy(v, d)
     THEN /\ told' = [told EXCEPT ![v] = "mixed"]
          /\ commanded' = [commanded EXCEPT ![v] = "mixed"]
     ELSE UNCHANGED history
  /\ UNCHANGED <<live, channel, agent, via>>

\* A result of a command, or of a service that is gone, changed or does not
\* cover the server any more, or one whose row the store refuses.
SkipResult(c) ==
  /\ Idle(c) /\ outbox[c] # <<>>
  /\ outbox' = [outbox EXCEPT ![c] = Tail(@)]
  /\ UNCHANGED <<live, channel, agent, readVars, samples, status, history>>

\* What was told of one service last; once mixed it says nothing.
Latest(news, e) == [news EXCEPT ![e.service] = IF @ = "mixed" THEN @ ELSE e.what]

NextEffect(c) == effects' = [effects EXCEPT ![c] = Tail(@)]

Notify(c) ==
  /\ ~Idle(c) /\ ~Sending(c)
  /\ NextEffect(c)
  /\ told' = Latest(told, Head(effects[c]))
  /\ UNCHANGED <<agentVars, via, samples, status, commanded>>

\* dispatch_service_trigger_cron: send_task looks the sender up ...
LookupSender(c) ==
  /\ Sending(c) /\ via[c] = "unknown"
  /\ via' = [via EXCEPT ![c] = live]
  /\ UNCHANGED <<agentVars, effects, samples, status, history>>

Dispatched(c) ==
  /\ NextEffect(c)
  /\ via' = [via EXCEPT ![c] = "unknown"]
  /\ commanded' = Latest(commanded, Head(effects[c]))
  /\ UNCHANGED <<live, agent, outbox, samples, status, told>>

\* ... waits for a slot ...
CommandSent(c) ==
  /\ Sending(c) /\ via[c] = live /\ live # None
  /\ Len(channel) < TaskCap
  /\ channel' = Append(channel, Command)
  /\ Dispatched(c)

\* Mutant of CommandStored: a caller that waits on a stream does not see it end.
CommandStoredAtOnce(c) ==
  /\ Sending(c) /\ via[c] = None
  /\ Dispatched(c) /\ UNCHANGED channel

\* ... or stores the command, having found no sender or the stream ended.
CommandStored(c) ==
  /\ Sending(c) /\ (via[c] = None \/ (via[c] \in Conn /\ via[c] # live))
  /\ Dispatched(c) /\ UNCHANGED channel

-----------------------------------------------------------------------------
\* The samples and statuses go with the process.
Restart ==
  /\ live' = None /\ channel' = <<>> /\ agent' = None
  /\ outbox' = [c \in Conn |-> <<>>]
  /\ effects' = [c \in Conn |-> <<>>]
  /\ via' = [c \in Conn |-> "unknown"]
  /\ samples' = [v \in Service |-> <<>>]
  /\ status' = [v \in Service |-> "unset"]
  /\ told' = [v \in Service |-> "nothing"]
  /\ commanded' = [v \in Service |-> "nothing"]

Next ==
  \/ \E v \in Service : ProbeSent(v)
  \/ \E c \in Conn : Connect(c)
  \/ Disconnect \/ AgentTakes \/ AgentSends
  \/ \E c \in Conn : \/ CompleteResult(c) \/ SkipResult(c) \/ Notify(c)
                     \/ LookupSender(c) \/ CommandSent(c) \/ CommandStored(c)
  \/ Restart

Spec == Init /\ [][Next]_vars

\* Readers and agents run on; waiters of a channel are served in order.  No
\* fairness for probes, for agents that come and go, or for restarts.
Fairness ==
  /\ WF_vars(AgentTakes) /\ WF_vars(AgentSends)
  /\ \A c \in Conn :
       /\ WF_vars(CompleteResult(c) \/ SkipResult(c))
       /\ WF_vars(Notify(c)) /\ WF_vars(LookupSender(c))
       /\ SF_vars(CommandSent(c)) /\ WF_vars(CommandStored(c))

FairSpec == Spec /\ Fairness

-----------------------------------------------------------------------------
TypeOK ==
  /\ live \in Conn \union {None}
  /\ channel \in Seq(Service \union {Command}) /\ Len(channel) <= TaskCap
  /\ agent \in Result \union {Command, None}
  /\ outbox \in [Conn -> Seq(Result \union {Command})]
  /\ \A c \in Conn : Len(outbox[c]) <= ResultCap
  /\ effects \in [Conn -> Seq(Effect)]
  /\ via \in [Conn -> Conn \union {None, "unknown"}]
  /\ samples \in [Service -> Seq(BOOLEAN)]
  /\ \A v \in Service : Len(samples[v]) <= StatusSize
  /\ status \in [Service -> Statuses]
  /\ told \in [Service -> Statuses \union {"nothing", "mixed"}]
  /\ commanded \in [Service -> {"nothing", "fail", "recover", "mixed"}]

Settled(v) == \A c \in Conn : ~Busy(v, c)

\* When the readers are through with a service, the status notified last is the
\* one its last results make, and a service that is down was notified, although
\* streams end between a result and its notification.  Two streams whose
\* readers work on one service at once may notify in the wrong order.
StatusIsTold ==
  \A v \in Service : Settled(v) =>
    /\ told[v] \in Statuses => told[v] = StatusOf(samples[v])
    /\ status[v] = "down" => told[v] \in {"down", "mixed"}

\* Likewise the commands dispatched last are those of the status: fail commands
\* while the service is not good, recovery commands while it is.
CommandsFollowStatus ==
  \A v \in Service : Settled(v) =>
    /\ commanded[v] = "fail" => StatusOf(samples[v]) \in {"low", "down"}
    /\ commanded[v] = "recover" => StatusOf(samples[v]) = "good"

\* What follows from a result is of the status it made, in notifications and in
\* commands, whatever streams end before it was worked off.
EffectsFollowStatus == StatusIsTold /\ CommandsFollowStatus

\* Why it holds.  The last status is that of the samples.  Until two readers work for a
\* service at once, what is due for it is of that status, and so is what was told and
\* commanded last, unless it is due.
StatusIsOfSamples ==
  \A v \in Service : status[v] = IF samples[v] = <<>> THEN "unset" ELSE StatusOf(samples[v])

CommandOf(v) == IF status[v] = "good" THEN "recover" ELSE "fail"

Fits(e) == e.what = IF e.kind = "notify" THEN status[e.service] ELSE CommandOf(e.service)

IsDue(v, kind) == \E c \in Conn : \E e \in Due(c) : e.service = v /\ e.kind = kind

WorkFits(v) ==
  /\ status[v] = "unset" => /\ told[v] = "nothing" /\ commanded[v] = "nothing"
                            /\ \A c \in Conn : ~Busy(v, c)
  /\ told[v] = "mixed" <=> commanded[v] = "mixed"
  /\ told[v] # "mixed" =>
       /\ \A c, d \in Conn : Busy(v, c) /\ Busy(v, d) => c = d
       /\ \A c \in Conn : \A e \in Due(c) : e.service = v => Fits(e)
       /\ (told[v] = "nothing" /\ status[v] # "down") \/ told[v] = status[v] \/ IsDue(v, "notify")
       /\ commanded[v] \in {"nothing", CommandOf(v)} \/ IsDue(v, "command")

MonitorIInv == TypeOK /\ StatusIsOfSamples /\ \A v \in Service : WorkFits(v)

\* The reader of the live stream waits for a slot in the channel of the same
\* stream, whose agent waits for a slot among the results before it takes a task.
CircularWait ==
  /\ live # None /\ Sending(live) /\ via[live] = live
  /\ Len(channel) = TaskCap /\ agent # None /\ Len(outbox[live]) = ResultCap

\* That is the only way the work of a reader can stop: without it, the effects
\* of a result are worked off, whatever streams end meanwhile.
EffectsEnd == \A c \in Conn : (~Idle(c)) ~> (Idle(c) \/ CircularWait)
=============================================================================
