---------------------------- MODULE AlertTrigger ----------------------------
(***************************************************************************)
(* Reservations for the results of alert-triggered commands.               *)
(*                                                                         *)
(* A cron with cover CRON_COVER_ALERT_TRIGGER runs only when an alert rule *)
(* or a service monitor fires; the result its agent reports is recorded    *)
(* only against a reservation.  The dispatcher reserves after the dispatch *)
(* answered, takes a reservation back when it answered false, and a result *)
(* consumes one; a reservation lapses after 24 hours.  Reservations are    *)
(* kept in memory per (cron, server) and know neither the dispatch they    *)
(* were made for nor the result they are spent on.                         *)
(***************************************************************************)
EXTENDS Naturals, FiniteSets

CONSTANTS
  Slot,       \* (cron, server) pairs
  Dispatch    \* dispatches by the alert scheduler or by a service result

VARIABLES
  step,       \* dispatch -> where it stands
  slot,       \* dispatch -> its (cron, server)
  fresh,      \* slot -> reservations not older than 24 hours
  stale,      \* slot -> lapsed ones not pruned yet
  coming,     \* dispatches whose result is on its way to the dashboard
  ran,        \* dispatches sent to the agent once and run
  recorded,   \* history: dispatch -> results of it that were recorded
  counted,    \* history: slot -> results recorded, of whichever dispatch
  judged,     \* history: dispatches whose result met their reservation
  made,       \* history: slot -> reservations made
  spoiled     \* history: slots where something else than the result of a
              \* reserved dispatch took, or missed, a reservation

history == <<recorded, counted, judged, made, spoiled>>
vars == <<step, slot, fresh, stale, coming, ran, history>>

Steps == {"idle", "sending", "sent", "unsent", "reserved", "revoked", "killed"}

Init ==
  /\ step = [d \in Dispatch |-> "idle"]
  /\ slot \in [Dispatch -> Slot]
  /\ fresh = [p \in Slot |-> 0]
  /\ stale = [p \in Slot |-> 0]
  /\ coming = {} /\ ran = {}
  /\ recorded = [d \in Dispatch |-> 0] /\ counted = [p \in Slot |-> 0]
  /\ judged = {}
  /\ made = [p \in Slot |-> 0]
  /\ spoiled = {}

Move(d, from, to) == step[d] = from /\ step' = [step EXCEPT ![d] = to]

\* dispatch_task_with_id, from the alert scheduler or a service result.
BeginDispatch(d) ==
  /\ Move(d, "idle", "sending")
  /\ UNCHANGED <<slot, fresh, stale, coming, ran, history>>

\* It answers true, or false having stored the command (TaskDispatch).
DispatchSent(d) ==
  /\ Move(d, "sending", "sent")
  /\ UNCHANGED <<slot, fresh, stale, coming, ran, history>>
DispatchStored(d) ==
  /\ Move(d, "sending", "unsent")
  /\ UNCHANGED <<slot, fresh, stale, coming, ran, history>>

\* reserve_alert_trigger_result: push now + 24 h.
Reserve(d) ==
  /\ Move(d, "sent", "reserved")
  /\ fresh' = [fresh EXCEPT ![slot[d]] = @ + 1]
  /\ made' = [made EXCEPT ![slot[d]] = @ + 1]
  /\ UNCHANGED <<slot, stale, coming, ran, recorded, counted, judged, spoiled>>

\* Mutant of Popped: no look at whether there is an entry.
Decremented(n) == n - 1

\* pop() takes the youngest entry; on an empty vector it does nothing.
Popped(n) == IF n > 0 THEN n - 1 ELSE 0

\* revoke_alert_trigger_result: there is nothing of this dispatch to revoke;
\* what goes is the youngest reservation somebody else made, lapsed or not.
Revoke(d) ==
  LET p == slot[d] IN
  /\ Move(d, "unsent", "revoked")
  /\ fresh' = [fresh EXCEPT ![p] = Popped(@)]
  /\ stale' = [stale EXCEPT ![p] = IF fresh[p] = 0 THEN Popped(@) ELSE @]
  /\ spoiled' = spoiled \union {p}
  /\ UNCHANGED <<slot, coming, ran, recorded, counted, judged, made>>

\* 24 hours pass over the oldest reservation of a slot.
Lapse(p) ==
  /\ fresh[p] > 0
  /\ fresh' = [fresh EXCEPT ![p] = @ - 1]
  /\ stale' = [stale EXCEPT ![p] = @ + 1]
  /\ spoiled' = spoiled \union {p}
  /\ UNCHANGED <<step, slot, coming, ran, recorded, counted, judged, made>>

\* The agent ran the command and reports; a stored command may run again.
AgentReports(d) ==
  /\ \/ step[d] \in {"sent", "reserved"} /\ d \notin ran
     \/ step[d] \in {"unsent", "revoked"}
  /\ ran' = ran \union {d}
  /\ coming' = coming \union {d}
  /\ UNCHANGED <<step, slot, fresh, stale, history>>

\* A result meets its slot; left are the entries that survive it.
Record(d, left) ==
  LET p == slot[d] IN
  /\ d \in coming
  /\ coming' = coming \ {d}
  /\ stale' = [q \in Slot |-> 0]
  /\ fresh' = left
  /\ recorded' = [recorded EXCEPT ![d] = @ + (IF fresh[p] > 0 THEN 1 ELSE 0)]
  /\ counted' = [counted EXCEPT ![p] = @ + (IF fresh[p] > 0 THEN 1 ELSE 0)]
  /\ judged'  = IF step[d] = "reserved" THEN judged \union {d} ELSE judged
  /\ spoiled' = IF step[d] = "reserved" THEN spoiled ELSE spoiled \union {p}
  /\ UNCHANGED <<step, slot, ran, made>>

\* Mutants of CompleteResult: the entry is only looked at; all entries of the
\* slot go with the first result.
CompletePeeking(d) == Record(d, fresh)
CompleteTakingAll(d) == Record(d, [fresh EXCEPT ![slot[d]] = 0])

\* complete_task_result, Command branch, under the store lock:
\* consume_alert_trigger_result prunes every lapsed entry, then pops one of
\* the slot; record_cron_result records if there was one.
CompleteResult(d) ==
  LET p == slot[d] IN Record(d, [fresh EXCEPT ![p] = Popped(@)])

\* A result is lost with the connection it is on.
LoseResult(d) ==
  /\ d \in coming
  /\ coming' = coming \ {d}
  /\ UNCHANGED <<step, slot, fresh, stale, ran, history>>

\* The process restarts: the reservations go, the stored commands stay.
Restart ==
  /\ step' = [d \in Dispatch |-> IF step[d] \in {"sending", "sent"} THEN "killed" ELSE step[d]]
  /\ fresh' = [p \in Slot |-> 0]
  /\ stale' = [p \in Slot |-> 0]
  /\ coming' = {}
  /\ spoiled' = Slot
  /\ UNCHANGED <<slot, ran, recorded, counted, judged, made>>

Next ==
  \/ \E d \in Dispatch :
       \/ BeginDispatch(d) \/ DispatchSent(d) \/ DispatchStored(d)
       \/ Reserve(d) \/ Revoke(d)
       \/ AgentReports(d) \/ CompleteResult(d) \/ LoseResult(d)
  \/ \E p \in Slot : Lapse(p)
  \/ Restart

Spec == Init /\ [][Next]_vars

-----------------------------------------------------------------------------
TypeOK ==
  /\ step \in [Dispatch -> Steps]
  /\ slot \in [Dispatch -> Slot]
  /\ fresh \in [Slot -> Nat] /\ stale \in [Slot -> Nat] /\ made \in [Slot -> Nat]
  /\ coming \subseteq Dispatch /\ ran \subseteq Dispatch /\ judged \subseteq Dispatch
  /\ recorded \in [Dispatch -> Nat] /\ counted \in [Slot -> Nat]
  /\ spoiled \subseteq Slot

Reserved(p) == {d \in Dispatch : slot[d] = p /\ step[d] = "reserved"}

\* A server cannot have more results of a triggered command recorded than the
\* dashboard reserved for it, however often replayed rows run it again, and
\* the reservations are at most the dispatches that answered true.
ResultsAreReserved ==
  \A p \in Slot :
    /\ fresh[p] + stale[p] + counted[p] <= made[p]
    /\ made[p] <= Cardinality(Reserved(p))

\* A result that comes after its reservation is recorded, whatever order the
\* results of several dispatches of the slot come in, unless a reservation was
\* revoked, lapsed or lost, or a result came before its own reservation.
ReservedResultsCount ==
  \A d \in judged : slot[d] \notin spoiled => recorded[d] = 1

\* Why they hold.  A result comes once, for a dispatch that ran; as long as nothing
\* else happens to a slot, its reservations are those of the dispatches whose result
\* did not come yet.
ResultsComeOnce ==
  /\ coming \subseteq ran /\ judged \subseteq ran
  /\ \A d \in judged : step[d] = "reserved" /\ d \notin coming

ReservationsAreOpen ==
  \A p \in Slot :
    /\ IsFiniteSet(Reserved(p)) /\ made[p] = Cardinality(Reserved(p))
    /\ p \notin spoiled => stale[p] = 0 /\ fresh[p] = Cardinality(Reserved(p) \ judged)

RecordedOnce ==
  \A d \in Dispatch : slot[d] \notin spoiled => recorded[d] = IF d \in judged THEN 1 ELSE 0

TriggerIInv ==
  TypeOK /\ ResultsComeOnce /\ ReservationsAreOpen /\ RecordedOnce /\ ResultsAreReserved

\* Reservations and recorded results are the same dispatches, but for those of
\* slots where something else happened (complete_task_result, send_trigger_tasks).
ResultsMatchReservations == ResultsAreReserved /\ ReservedResultsCount
=============================================================================
