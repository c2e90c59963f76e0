-------------------------- MODULE TransferAccounting --------------------------
(***************************************************************************)
(* Traffic of a server: the agent reports counters that start at 0 when    *)
(* its machine boots; the dashboard adds what they grew by to the table of *)
(* transfers, from which the cycle rules of alerts are computed, and keeps *)
(* the counters it saw last in the server's row.                           *)
(*                                                                         *)
(* Reports come in order on a stream, but the messages of a stream that    *)
(* broke may be read after those of the next one.  The table and the row   *)
(* are written by two statements with no transaction around them.  The     *)
(* hours of the table are abstracted to their sum.                         *)
(***************************************************************************)
EXTENDS Naturals, Sequences

CONSTANTS
  MaxBytes,    \* bound of a counter
  MaxReports,  \* bound of the reports made
  MaxReboots,  \* bound of reboots of the agent's machine
  MaxCrashes   \* bound of restarts of the dashboard

Dir == {"in", "out"}
Counters == [Dir -> 0..MaxBytes]
Zero == [d \in Dir |-> 0]

VARIABLES
  counter,   \* net_in_transfer and net_out_transfer on the agent
  streams,   \* reports on the agent's stream, and on the one before it: [n, value, at],
             \* where at is history: what the machine had transferred then
  transfers, \* in_bytes and out_bytes summed over the hours; persisted
  snapshot,  \* prev_transfer_in_snapshot and _out_snapshot; persisted
  adding,    \* the report whose increase is in the table and whose snapshot is not, or <<>>
  made,      \* history: reports made so far
  newest,    \* history: the latest report recorded
  total,     \* history: what the machine transferred
  repeated,  \* history: at most how much the table has twice
  since,     \* history: the counters of the last reset the dashboard saw, and
  base,      \* history: the sums at that time
  reboots, crashes \* history: how many

vars == <<counter, streams, transfers, snapshot, adding, made, newest, total, repeated,
          since, base, reboots, crashes>>
agentVars == <<counter, made, total, reboots>>

Report == [n : 0..MaxReports, value : Counters, at : [Dir -> Nat]]

Plus(f, g)  == [d \in Dir |-> f[d] + g[d]]
Minus(f, g) == [d \in Dir |-> IF f[d] > g[d] THEN f[d] - g[d] ELSE 0]
Apart(f, g) == Plus(Minus(f, g), Minus(g, f))

Init ==
  /\ counter = Zero /\ transfers = Zero /\ snapshot = Zero
  /\ total = Zero /\ repeated = Zero /\ since = Zero /\ base = Zero
  /\ streams = <<<<>>, <<>>>>
  /\ adding = <<>>
  /\ newest = [n |-> 0, value |-> Zero, at |-> Zero]
  /\ made = 0 /\ reboots = 0 /\ crashes = 0

-----------------------------------------------------------------------------
(* The agent *)

Transfer(d) ==
  /\ counter[d] < MaxBytes
  /\ counter' = [counter EXCEPT ![d] = @ + 1]
  /\ total' = [total EXCEPT ![d] = @ + 1]
  /\ UNCHANGED <<streams, transfers, snapshot, adding, made, newest, repeated, since, base,
                 reboots, crashes>>

\* report_state yields monitor.state().
Send ==
  /\ made < MaxReports
  /\ made' = made + 1
  /\ streams' = [streams EXCEPT ![1] = Append(@, [n |-> made', value |-> counter, at |-> total])]
  /\ UNCHANGED <<counter, transfers, snapshot, adding, newest, total, repeated, since, base,
                 reboots, crashes>>

\* The stream breaks and the agent opens another; some of what was sent arrives.
Reconnect ==
  /\ \E k \in 0..Len(streams[1]) : streams' = <<<<>>, SubSeq(streams[1], 1, k)>>
  /\ UNCHANGED <<agentVars, transfers, snapshot, adding, newest, repeated, since, base, crashes>>

Reboot ==
  /\ reboots < MaxReboots
  /\ reboots' = reboots + 1
  /\ counter' = Zero
  /\ \E k \in 0..Len(streams[1]) : streams' = <<<<>>, SubSeq(streams[1], 1, k)>>
  /\ UNCHANGED <<transfers, snapshot, adding, made, newest, total, repeated, since, base, crashes>>

-----------------------------------------------------------------------------
(* record_transfer_delta, in update_state_for_user, under the store's lock *)

Late(r) == r.n < newest.n

Take(s) ==
  /\ adding = <<>>
  /\ streams[s] # <<>>
  /\ streams' = [streams EXCEPT ![s] = Tail(@)]
  /\ newest' = IF Late(Head(streams[s])) THEN newest ELSE Head(streams[s])
  /\ repeated' = IF Late(Head(streams[s]))
                 THEN Plus(repeated, Apart(Head(streams[s]).value, snapshot)) ELSE repeated
  /\ UNCHANGED <<agentVars, crashes>>

Shrunk(r) == \E d \in Dir : r.value[d] < snapshot[d]

\* Mutant of RecordReset: the snapshot is left at the higher counters.
RecordNoReset(s) ==
  /\ Take(s)
  /\ Shrunk(Head(streams[s]))
  /\ since' = Head(streams[s]).value
  /\ base' = transfers
  /\ UNCHANGED <<transfers, snapshot, adding>>

\* counters_reset: either counter went down.  Both are taken as they are, nothing is added.
RecordReset(s) ==
  /\ Take(s)
  /\ Shrunk(Head(streams[s]))
  /\ snapshot' = Head(streams[s]).value
  /\ since' = Head(streams[s]).value
  /\ base' = transfers
  /\ UNCHANGED <<transfers, adding>>

\* Neither moved: nothing is written.
RecordNothing(s) ==
  /\ Take(s)
  /\ Head(streams[s]).value = snapshot
  /\ UNCHANGED <<transfers, snapshot, adding, since, base>>

\* Mutant of AddIncrease: the snapshot is written first.
AddLater(s) ==
  /\ Take(s)
  /\ ~Shrunk(Head(streams[s])) /\ Head(streams[s]).value # snapshot
  /\ snapshot' = Head(streams[s]).value
  /\ adding' = <<Head(streams[s])>>
  /\ UNCHANGED <<transfers, since, base>>

\* INSERT INTO transfers .. ON CONFLICT DO UPDATE: the increase joins the hour's row.
AddIncrease(s) ==
  /\ Take(s)
  /\ ~Shrunk(Head(streams[s])) /\ Head(streams[s]).value # snapshot
  /\ transfers' = Plus(transfers, Minus(Head(streams[s]).value, snapshot))
  /\ adding' = <<Head(streams[s])>>
  /\ UNCHANGED <<snapshot, since, base>>

\* UPDATE servers: the snapshot follows.
SetSnapshot ==
  /\ adding # <<>>
  /\ snapshot' = adding[1].value
  /\ adding' = <<>>
  /\ UNCHANGED <<agentVars, streams, transfers, newest, repeated, since, base, crashes>>

\* The process ends, between the statements too: the increase stays and is added
\* again with the next report.  Connections are lost.
Restart ==
  /\ crashes < MaxCrashes
  /\ crashes' = crashes + 1
  /\ adding' = <<>>
  /\ streams' = <<<<>>, <<>>>>
  /\ repeated' = IF adding = <<>> THEN repeated
                 ELSE Plus(repeated, Minus(adding[1].value, snapshot))
  /\ UNCHANGED <<agentVars, transfers, snapshot, newest, since, base>>

Next ==
  \/ \E d \in Dir : Transfer(d)
  \/ Send \/ Reconnect \/ Reboot
  \/ \E s \in 1..2 : RecordReset(s) \/ RecordNothing(s) \/ AddIncrease(s)
  \/ SetSnapshot
  \/ Restart

Spec == Init /\ [][Next]_vars

-----------------------------------------------------------------------------
TypeOK ==
  /\ counter \in Counters /\ snapshot \in Counters /\ since \in Counters
  /\ transfers \in [Dir -> Nat] /\ total \in [Dir -> Nat]
  /\ repeated \in [Dir -> Nat] /\ base \in [Dir -> Nat]
  /\ streams \in [1..2 -> Seq(Report)]
  /\ adding \in Seq(Report) /\ Len(adding) <= 1
  /\ made \in 0..MaxReports /\ newest \in Report
  /\ reboots \in 0..MaxReboots /\ crashes \in 0..MaxCrashes

\* The table has no more than was transferred, but for what a restart between the two
\* statements or a report read after a later one repeats.
NothingIsInvented == \A d \in Dir : transfers[d] <= total[d] + repeated[d]

\* Since the counters last went down, all they grew by is in the table.
NothingIsForgotten ==
  \A d \in Dir : transfers[d] + since[d] >= base[d] + snapshot[d]

\* Why they hold.  From one report to a later one, and to the counters now, the counters
\* grew by no more than was transferred; the table lacks what the newest report is
\* above the snapshot, or above the one about to be written.
Waiting == UNION {{streams[s][i] : i \in 1..Len(streams[s])} : s \in 1..2}
Kept == IF adding = <<>> THEN snapshot ELSE adding[1].value

GrownBy(r, value, at) ==
  \A d \in Dir : r.at[d] <= at[d] /\ value[d] + r.at[d] <= at[d] + r.value[d]

ReportsAreInOrder ==
  /\ \A r \in Waiting \union {newest} : r.n <= made /\ GrownBy(r, counter, total)
  /\ \A r, q \in Waiting \union {newest} : r.n <= q.n => GrownBy(r, q.value, q.at)

TableIsBehind ==
  \A d \in Dir :
    /\ transfers[d] <= newest.at[d] + repeated[d]
    /\ transfers[d] + newest.value[d] <= newest.at[d] + repeated[d] + Kept[d]
    /\ snapshot[d] <= Kept[d]
    /\ transfers[d] + since[d] >= base[d] + Kept[d]

TrafficIInv == TypeOK /\ ReportsAreInOrder /\ TableIsBehind

\* Traffic is counted once, whatever fails between the two statements.
TrafficIsCounted == NothingIsInvented /\ NothingIsForgotten
=============================================================================
