----------------------------- MODULE AlertEngine -----------------------------
(***************************************************************************)
(* The alert scheduler.  Every three seconds it takes one point per alert  *)
(* and server, a reading of each rule, appends it to the samples of the    *)
(* pair, judges the samples and keeps as many as alert_check asks for.     *)
(* What changed becomes a list of actions, which the same loop works off   *)
(* after the store lock is released: trigger crons, then a notification.   *)
(* All of it is in memory; alerts are edited and muted underneath.         *)
(*                                                                         *)
(* Time is counted in ticks.  What a server's metrics say is an input.     *)
(***************************************************************************)
EXTENDS Integers, Sequences, FiniteSets, FiniteSetsExt, SequencesExt

CONSTANTS
  Alert, Server,
  RuleLists,   \* alert -> the rule lists its owner gives it, one at a time
  MaxRules,    \* length of the longest of them
  MaxSamples,  \* longest duration of their rules
  CycleLength, \* ticks of a transfer cycle
  MaxDelay,    \* longest time between two looks at a cycle rule, in ticks
  MaxTick,     \* bound on the clock
  MaxUpsets    \* bound on edits, mutes, store errors and restarts

\* An offline rule, a rule on a metric of the state, or one on the transfer of
\* the current cycle.
Kinds == {"offline", "metric", "cycle"}
Rule  == [kind : Kinds, duration : Nat \ {0}]

ASSUME AlertAssumption ==
  /\ MaxRules \in Nat /\ MaxSamples \in Nat
  /\ \A a \in Alert :
       /\ RuleLists[a] # {} /\ RuleLists[a] \subseteq Seq(Rule) \ {<<>>}
       /\ \A list \in RuleLists[a] :
            Len(list) <= MaxRules /\ \A i \in DOMAIN list : list[i].duration <= MaxSamples
  /\ CycleLength \in Nat \ {0} /\ MaxDelay \in Nat \ {0}
  /\ MaxTick \in Nat /\ MaxUpsets \in Nat

VARIABLES
  clock,
  rules,     \* alert -> its rules, in the store
  once,      \* alerts in trigger-once mode
  silent,    \* alerts disabled or muted
  samples,   \* AlertRuntime: (alert, server) -> the points kept
  prev,      \* (alert, server) -> last check: 0 for none, or Fail, or Pass
  cycle,     \* (alert, server) -> per rule [start, next, passed]
  actions,   \* actions of this tick not worked off yet
  working,   \* the action whose crons were dispatched, as a set of at most one
  upsets,
  readings,  \* history: (alert, server) -> the last points, none forgotten
  taken,     \* history: (alert, server) -> per rule the cycle its status is of
  told       \* history: (alert, server) -> what was notified last

stored  == <<rules, once, silent>>
runtime == <<samples, prev, cycle>>
history == <<readings, taken, told>>
vars == <<clock, stored, runtime, actions, working, upsets, history>>

Pair == Alert \X Server
Fail == 1
Pass == 2

AllLists == UNION {RuleLists[a] : a \in Alert}

NoCycle == [i \in 1..MaxRules |-> [start |-> 0, next |-> 0, passed |-> TRUE]]

Init ==
  /\ clock = 2
  /\ rules \in [Alert -> AllLists]
  /\ \A a \in Alert : rules[a] \in RuleLists[a]
  /\ once \in SUBSET Alert
  /\ silent = {}
  /\ samples = [p \in Pair |-> <<>>]
  /\ prev = [p \in Pair |-> 0]
  /\ cycle = [p \in Pair |-> NoCycle]
  /\ actions = {} /\ working = {}
  /\ upsets = 0
  /\ readings = [p \in Pair |-> <<>>]
  /\ taken = [p \in Pair |-> [i \in 1..MaxRules |-> 0]]
  /\ told = [p \in Pair |-> "nothing"]

\* Mutant of LastPoints: one point too few stays.
LastPointsButOne(points, n) ==
  IF n < Len(points) THEN SubSeq(points, Len(points) - n + 2, Len(points)) ELSE points

LastPoints(points, n) ==
  IF n < Len(points) THEN SubSeq(points, Len(points) - n + 1, Len(points)) ELSE points

-----------------------------------------------------------------------------
(* alert_check *)

\* A point taken under a shorter list of rules counts as passed.
ReadingAt(point, i) == i \in DOMAIN point => point[i]

\* Among as many of the newest points as the rule has duration: how far back those
\* are at which it passed.
Passing(points, rule, i) ==
  {k \in 0..(rule.duration - 1) : k < Len(points) /\ ReadingAt(points[Len(points) - k], i)}

\* Of at least so many points.
Failures(points, rule, i) == Cardinality(0..(rule.duration - 1) \ Passing(points, rule, i))

\* A cycle rule looks at the last point; the others need as many points as
\* they have duration.  Offline, one reading of the server online passes; a
\* metric passes unless more than 70 percent fail.
RulePasses(rule, i, points) ==
  \/ rule.kind = "cycle" /\ (points # <<>> => ReadingAt(Last(points), i))
  \/ /\ rule.kind # "cycle"
     /\ \/ Len(points) < rule.duration
        \/ rule.kind = "offline" /\ Passing(points, rule, i) # {}
        \/ /\ rule.kind = "metric"
           /\ (Failures(points, rule, i) * 100) \div rule.duration <= 70

\* One rule that passes is enough for the alert to pass.
Passed(list, points) == \E i \in DOMAIN list : RulePasses(list[i], i, points)

\* How many failures the loop over the newest points counts before a success.
RecentFailures(points, rule, i) ==
  LET online == Passing(points, rule, i)
  IN IF online = {} THEN rule.duration ELSE Min(online) + 1

\* Mutant of Duration: a metric keeps what a verdict of success needs.
DurationOfPass(list, i, points) == IF list[i].kind = "metric" THEN list[i].duration - 1 ELSE 1

\* durations[i]; it stays at 1 for an offline rule that is not looked at.
Duration(list, i, points) ==
  LET rule == list[i]
      skipped == \/ Len(points) < rule.duration
                 \/ \E j \in 1..(i - 1) : RulePasses(list[j], j, points)
  IN CASE rule.kind = "cycle"                -> 1
       [] rule.kind = "metric"               -> rule.duration
       [] rule.kind = "offline" /\ skipped   -> 1
       [] rule.kind = "offline" /\ ~skipped  -> RecentFailures(points, rule, i)

MaxDuration(list, points) == Max({Duration(list, i, points) : i \in DOMAIN list})

-----------------------------------------------------------------------------
(* tick_alerts, under the store lock *)

\* transfer_cycle_start: at the very end of a cycle it is still the old one.
CycleStart(now) == 1 + ((now - 2) \div CycleLength) * CycleLength

\* Mutant of NewCycle: the next look is not brought forward.
NewCycleKeeping(c) == [c EXCEPT !.start = CycleStart(clock)]

NewCycle(c) == [start |-> CycleStart(clock), next |-> 0, passed |-> TRUE]

Begins(c) == CycleStart(clock) > c.start

Looked(rule, c, reading) ==
  rule.kind = "cycle" /\ (Begins(c) \/ c.next <= clock) /\ reading # "unknown"

\* rule_snapshot of a cycle rule: its sentinel after the reading.  Before the
\* time of the next look the last status is repeated; a server whose state is
\* unknown passes and leaves no time.
LookAt(c, reading, delay) ==
  LET current == IF Begins(c) THEN NewCycle(c) ELSE c IN
  IF ~Begins(c) /\ c.next > clock THEN c
  ELSE IF reading = "unknown" THEN current
  ELSE [current EXCEPT !.next = clock + delay, !.passed = (reading = "pass")]

SnapshotPasses(rule, c, reading) ==
  IF rule.kind = "cycle" /\ ~Begins(c) /\ c.next > clock THEN c.passed
                                                         ELSE reading # "fail"

\* Mutants of Change: the last state is not asked; only trigger-once alerts
\* resolve.
ChangeAlways(a, before, passed) ==
  IF ~passed THEN "incident" ELSE IF before = Fail THEN "resolved" ELSE "nothing"
ChangeOnceOnly(a, before, passed) ==
  IF ~passed THEN IF a \notin once \/ before # Fail THEN "incident" ELSE "nothing"
  ELSE IF before = Fail /\ a \in once THEN "resolved" ELSE "nothing"

\* What the check of an alert pushes to the actions.
Change(a, before, passed) ==
  CASE ~passed /\ (a \notin once \/ before # Fail) -> "incident"
    [] passed /\ before = Fail                      -> "resolved"
    [] OTHER                                        -> "nothing"

\* What the tick makes of one pair: push, check, truncate.
Evaluate(p, reading, delay) ==
  LET list  == rules[p[1]]
      reset == \E i \in DOMAIN list : list[i].kind = "cycle" /\ Begins(cycle[p][i])
      point == [i \in DOMAIN list |-> SnapshotPasses(list[i], cycle[p][i], reading[i])]
      pushed == Append(IF reset THEN <<>> ELSE samples[p], point)
      before == IF reset THEN 0 ELSE prev[p]
      passed == Passed(list, pushed)
  IN [ samples  |-> LastPoints(pushed, MaxDuration(list, pushed)),
       prev     |-> IF passed THEN Pass ELSE Fail,
       cycle    |-> [i \in 1..MaxRules |->
                      IF i \in DOMAIN list /\ list[i].kind = "cycle"
                      THEN LookAt(cycle[p][i], reading[i], delay) ELSE cycle[p][i]],
       action   |-> Change(p[1], before, passed),
       readings |-> LastPoints(Append(IF reset THEN <<>> ELSE readings[p], point), MaxSamples),
       taken    |-> [i \in 1..MaxRules |->
                      IF i \in DOMAIN list /\ Looked(list[i], cycle[p][i], reading[i])
                      THEN CycleStart(clock) ELSE taken[p][i]],
       \* An incident of the old cycle is forgotten, not resolved.
       told     |-> IF reset /\ prev[p] = Fail THEN "unknown" ELSE told[p] ]

Readings(list) ==
  {r \in [DOMAIN list -> {"pass", "fail", "unknown"}] :
     \A i \in DOMAIN list : list[i].kind # "cycle" => r[i] # "unknown"}

\* One for every pair that is looked at.
AllReadings(pairs) ==
  {r \in [pairs -> UNION {Readings(rules[p[1]]) : p \in pairs}] :
     \A p \in pairs : r[p] \in Readings(rules[p[1]])}

\* What a tick may make of the pairs it sees.
Evaluations(seen) ==
  UNION {{[p \in seen |-> Evaluate(p, reading[p], delay)] : reading \in AllReadings(seen)} :
           delay \in 1..MaxDelay}

\* It is kept.  What changed becomes the actions of this tick, or is lost with them.
Keep(new, seen, lost) ==
  LET changed == {p \in seen : new[p].action # "nothing"} IN
  /\ samples' = [p \in Pair |-> IF p \in seen THEN new[p].samples ELSE samples[p]]
  /\ prev' = [p \in Pair |-> IF p \in seen THEN new[p].prev ELSE prev[p]]
  /\ cycle' = [p \in Pair |-> IF p \in seen THEN new[p].cycle ELSE cycle[p]]
  /\ readings' = [p \in Pair |-> IF p \in seen THEN new[p].readings ELSE readings[p]]
  /\ taken' = [p \in Pair |-> IF p \in seen THEN new[p].taken ELSE taken[p]]
  /\ actions' = IF lost THEN {} ELSE {[pair |-> p, kind |-> new[p].action] : p \in changed}
  /\ told' = [p \in Pair |-> IF lost /\ p \in changed THEN "unknown"
                             ELSE IF p \in seen THEN new[p].told ELSE told[p]]

\* The loop over the alerts that are not silent, as far as it comes.
EvaluateAlerts(evaluated, lost) ==
  LET seen == {p \in Pair : p[1] \in evaluated} IN
  \E new \in Evaluations(seen) : Keep(new, seen, lost)

BeginTick ==
  /\ actions = {} /\ working = {}
  /\ clock < MaxTick
  /\ clock' = clock + 1
  /\ UNCHANGED <<stored, working>>

Tick ==
  /\ BeginTick
  /\ EvaluateAlerts(Alert \ silent, FALSE)
  /\ UNCHANGED upsets

Upset == upsets < MaxUpsets /\ upsets' = upsets + 1

\* user_is_admin fails for one alert: the tick ends there, the samples and
\* states of the alerts before it are kept, its actions are not.
TickAborted ==
  /\ BeginTick /\ Upset
  /\ \E evaluated \in SUBSET (Alert \ silent) :
       /\ evaluated # Alert \ silent
       /\ EvaluateAlerts(evaluated, TRUE)

-----------------------------------------------------------------------------
(* The actions, one after the other *)

\* The crons of the action are dispatched; each may wait for a channel
\* (AlertTrigger has what becomes of their results).
TriggerCrons(x) ==
  /\ working = {} /\ x \in actions
  /\ working' = {x}
  /\ actions' = actions \ {x}
  /\ UNCHANGED <<clock, stored, runtime, upsets, history>>

\* The notification group is read and sent to; senders that fail become dead
\* letters.
Notify(x) ==
  /\ x \in working
  /\ working' = {}
  /\ told' = [told EXCEPT ![x.pair] = x.kind]
  /\ UNCHANGED <<clock, stored, runtime, actions, upsets, readings, taken>>

\* The group cannot be read: tick_alerts returns with its other actions undone.
NotifyFailed ==
  /\ working # {} /\ Upset
  /\ working' = {} /\ actions' = {}
  /\ told' = [p \in Pair |-> IF \E x \in actions \union working : x.pair = p
                             THEN "unknown" ELSE told[p]]
  /\ UNCHANGED <<clock, stored, runtime, readings, taken>>

\* Time passes over the actions; ticks that were due are skipped.
Pass3Seconds ==
  /\ actions \union working # {}
  /\ clock < MaxTick
  /\ clock' = clock + 1
  /\ UNCHANGED <<stored, runtime, actions, working, upsets, history>>

-----------------------------------------------------------------------------
(* Users and restarts *)

\* upsert_alert_rule: the runtime is not told, so that points taken under the
\* old rules count for the new ones.
EditAlert(a) ==
  /\ Upset
  /\ \E list \in RuleLists[a] : rules' = [rules EXCEPT ![a] = list]
  /\ once' \in {once, once \union {a}, once \ {a}}
  /\ <<rules, once>>' # <<rules, once>>
  /\ readings' = [p \in Pair |-> IF p[1] = a THEN samples[p] ELSE readings[p]]
  /\ UNCHANGED <<clock, silent, runtime, actions, working, told, taken>>

\* mute_alert_rule, or an edit that disables: no points are taken meanwhile.
Silence(a) ==
  /\ Upset
  /\ silent' = silent \union {a}
  /\ UNCHANGED <<clock, rules, once, runtime, actions, working, history>>

Unsilence(a) ==
  /\ a \in silent
  /\ silent' = silent \ {a}
  /\ UNCHANGED <<clock, rules, once, runtime, actions, working, upsets, history>>

\* The process restarts with AlertRuntime::default().
Restart ==
  /\ Upset
  /\ samples' = [p \in Pair |-> <<>>]
  /\ prev' = [p \in Pair |-> 0]
  /\ cycle' = [p \in Pair |-> NoCycle]
  /\ actions' = {} /\ working' = {}
  /\ readings' = [p \in Pair |-> <<>>]
  /\ taken' = [p \in Pair |-> [i \in 1..MaxRules |-> 0]]
  /\ told' = [p \in Pair |-> IF told[p] = "nothing" THEN "nothing" ELSE "unknown"]
  /\ UNCHANGED <<clock, stored>>

Next ==
  \/ Tick \/ TickAborted
  \/ \E x \in actions : TriggerCrons(x)
  \/ \E x \in working : Notify(x)
  \/ NotifyFailed \/ Pass3Seconds
  \/ \E a \in Alert : EditAlert(a) \/ Silence(a) \/ Unsilence(a)
  \/ Restart

Spec == Init /\ [][Next]_vars

-----------------------------------------------------------------------------
Point  == UNION {[1..n -> BOOLEAN] : n \in 1..MaxRules}
Action == [pair : Pair, kind : {"incident", "resolved"}]

TypeOK ==
  /\ clock \in Nat /\ clock >= 2
  /\ rules \in [Alert -> AllLists] /\ \A a \in Alert : rules[a] \in RuleLists[a]
  /\ once \subseteq Alert /\ silent \subseteq Alert
  /\ samples \in [Pair -> Seq(Point)] /\ readings \in [Pair -> Seq(Point)]
  /\ \A p \in Pair : Len(samples[p]) <= MaxSamples /\ Len(readings[p]) <= MaxSamples
  /\ prev \in [Pair -> {0, Fail, Pass}]
  /\ cycle \in [Pair -> [1..MaxRules -> [start : Nat, next : Nat, passed : BOOLEAN]]]
  /\ taken \in [Pair -> [1..MaxRules -> Nat]]
  /\ actions \subseteq Action /\ working \subseteq Action
  /\ (\A x, y \in working : x = y) /\ upsets \in 0..MaxUpsets
  /\ told \in [Pair -> {"nothing", "incident", "resolved", "unknown"}]

\* Truncation forgets nothing that a verdict needs: what is kept is judged as
\* all readings would be that were taken since the start, the last new cycle or
\* the last edit (alert_check returns how many to keep, and the next point is
\* judged on those).  An offline rule that is longer than two looks and than
\* the rules beside it is the exception; OfflineAfterDuration is about it.
WindowIsEnough ==
  \A p \in Pair :
    Passed(rules[p[1]], samples[p]) = Passed(rules[p[1]], readings[p])

IsTold(p) ==
  /\ told[p] = "incident" => prev[p] = Fail
  /\ told[p] = "resolved" => prev[p] = Pass
  /\ told[p] = "nothing"  => prev[p] # Fail

\* Between ticks the user was told what the state says: after an incident the
\* pair is failing, after a resolution it passes, and a failing pair was told
\* of, unless an action was lost, or the incident forgotten with its cycle.
ToldWhatIsSo == actions \union working = {} => \A p \in Pair : IsTold(p)

\* No news is told twice: in trigger-once mode there is no incident after an
\* incident that was told, and in every mode a resolution follows an incident,
\* however many ticks are skipped, aborted or muted in between.
NewsIsNew ==
  [][\A x \in actions' \ actions :
       /\ x.kind = "incident" => (x.pair[1] \notin once \/ told'[x.pair] # "incident")
       /\ x.kind = "resolved" => told'[x.pair] \in {"incident", "unknown"}]_vars

\* The status that a cycle rule repeats until its next look was read in the
\* cycle the clock is in: a full old cycle does not raise an incident in the
\* new one, also when the first reading of the new one is missing.
StatusOfThisCycle ==
  \A p \in Pair : \A i \in DOMAIN rules[p[1]] :
    LET c == cycle[p][i] IN
    (rules[p[1]][i].kind = "cycle" /\ c.next > clock /\ ~Begins(c))
      => taken[p][i] = CycleStart(clock)

\* Why they hold.  What was not told yet is an action, one for a pair, of what the state
\* says.  The status that is kept has the time of its cycle, which is not ahead of the
\* clock.  Samples and readings end alike, as far back as a metric asks for.
NewsIsPending ==
  /\ \A x, y \in actions \union working : x.pair = y.pair => x = y
  /\ \A x \in actions \union working :
       prev[x.pair] = IF x.kind = "incident" THEN Fail ELSE Pass
  /\ \A p \in Pair : (\E x \in actions \union working : x.pair = p) \/ IsTold(p)

StatusHasItsCycle ==
  \A p \in Pair : \A i \in 1..MaxRules :
    LET c == cycle[p][i] IN
    c.start <= CycleStart(clock) /\ (c.next # 0 => taken[p][i] = c.start)

SameEnd(a, b, n) ==
  /\ Len(a) < n \/ Len(b) < n => Len(a) = Len(b)
  /\ \A k \in 0..(n - 1) : k < Len(a) /\ k < Len(b) => a[Len(a) - k] = b[Len(b) - k]

Asked(list) == {1} \union {list[i].duration : i \in {j \in DOMAIN list : list[j].kind = "metric"}}

WindowsEndAlike ==
  \A p \in Pair : \A n \in Asked(rules[p[1]]) : SameEnd(samples[p], readings[p], n)

EngineIInv == TypeOK /\ NewsIsPending /\ StatusHasItsCycle

\* Offline rules to which the exception does not apply.
OfflineRulesAreShort ==
  \A list \in AllLists : \A i \in DOMAIN list :
    list[i].kind = "offline" =>
      \/ list[i].duration <= 2
      \/ \E j \in DOMAIN list : list[j].kind = "metric" /\ list[i].duration <= list[j].duration + 1

\* An offline rule fails when the server was offline at each of the last
\* `duration` looks (the test offline_rule_fails_without_thresholds_after_duration).
\* It does not: with too few points the rule asks to keep one, so that there
\* are never more than two, and no duration above two is ever reached.
OfflineAfterDuration ==
  \A p \in Pair :
    LET list == rules[p[1]]
        points == readings[p]
    IN (/\ Len(list) = 1 /\ list[1].kind = "offline"
        /\ Len(points) >= list[1].duration
        /\ Failures(points, list[1], 1) = list[1].duration) => prev[p] = Fail
=============================================================================
