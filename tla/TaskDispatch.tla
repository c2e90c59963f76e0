---------------------------- MODULE TaskDispatch ----------------------------
(***************************************************************************)
(* The channel that carries tasks from the dashboard to its agents.        *)
(*                                                                         *)
(* Every agent keeps one RequestTask RPC open; the dashboard registers the *)
(* sending half of a bounded channel for it in task_senders.  send_task    *)
(* looks the sender up, sends, and on failure unregisters it and stores    *)
(* the task in the pending_tasks table, which the next RequestTask replays *)
(* before it serves its channel.  Each action below is one section of the  *)
(* code between two awaits or two locks; everything else interleaves.      *)
(***************************************************************************)
EXTENDS Naturals, Sequences, FiniteSets, Functions

CONSTANTS
  Server,       \* server ids, each with one agent
  Task,         \* one element per call of send_task
  Conn,         \* RequestTask streams; a dead, unreferenced one is reused
  Persistable,  \* the tasks task_type_can_persist accepts
  Cancellable,  \* the calls made from an HTTP handler, dropped with its client
  ChanCap,      \* capacity of a stream's channel (16 in the code)
  WireCap,      \* what the transport takes before it stops polling the stream
  None

ASSUME DispatchAssumption ==
  /\ Persistable \subseteq Task
  /\ Cancellable \subseteq Task
  /\ ChanCap \in Nat \ {0}
  /\ WireCap \in Nat \ {0}
  /\ None \notin Conn \union Server
  /\ Conn \cap Server = {}

VARIABLES
  task_senders,   \* server -> the stream its registered sender feeds, or None
  pending_tasks,  \* rows of the table: [id, task], persisted
  next_row,       \* AUTOINCREMENT of the table, persisted
  call,           \* task -> where its send_task stands
  dest,           \* task -> the server_id argument
  via,            \* task -> the stream of the sender clone a call holds
  phase,          \* stream -> where request_task stands on the dashboard
  peer,           \* stream -> server.id
  chan,           \* stream -> its mpsc channel
  replay,         \* stream -> the drained rows it has not yielded yet
  ack,            \* stream -> the row it yielded and has not deleted yet
  wire,           \* stream -> tasks yielded and not yet read by the agent
  link,           \* stream -> the agent still reads it
  server,         \* server -> progress of batch_delete_server on it
  offered,        \* history: the tasks some stream yielded from a row
  handled         \* history: times an agent read the task, 2 meaning "2 or more"

callVars   == <<call, dest, via>>
streamVars == <<phase, peer, chan, replay, ack, wire, link>>
tableVars  == <<pending_tasks, next_row>>
ghostVars  == <<offered, handled>>
vars == <<task_senders, pending_tasks, next_row, call, dest, via, phase, peer,
          chan, replay, ack, wire, link, server, offered, handled>>

Row == [id : Nat, task : Task]

CallState   == {"idle", "sending", "failed", "unsent",
                "sent", "stored", "refused", "cancelled", "killed"}
Returned    == {"sent", "stored", "refused", "cancelled", "killed"}
StreamPhase == {"ensured", "registered", "open", "closed"}
ServerState == {"present", "deleted", "evicting", "gone"}

RowsOf(rows, s) == {r \in rows : dest[r.task] = s}

\* The receiver of the channel lives from the handler's start to the drop of
\* the outbound stream.
ReceiverAlive(c) == phase[c] \in {"registered", "open"}

Init ==
  /\ task_senders = [s \in Server |-> None]
  /\ pending_tasks = {}
  /\ next_row = 1
  /\ call = [t \in Task |-> "idle"]
  /\ dest = [t \in Task |-> None]
  /\ via  = [t \in Task |-> None]
  /\ phase  = [c \in Conn |-> "closed"]
  /\ peer   = [c \in Conn |-> None]
  /\ chan   = [c \in Conn |-> <<>>]
  /\ replay = [c \in Conn |-> {}]
  /\ ack    = [c \in Conn |-> None]
  /\ wire   = [c \in Conn |-> <<>>]
  /\ link   = [c \in Conn |-> FALSE]
  /\ server = [s \in Server |-> "present"]
  /\ offered = {}
  /\ handled = [t \in Task |-> 0]

-----------------------------------------------------------------------------
(* send_task *)

\* task_senders.read().await.get(&server_id).cloned(); the lock is released
\* before the clone is used.
LookupSender(t, s) ==
  /\ call[t] = "idle"
  /\ dest' = [dest EXCEPT ![t] = s]
  /\ via'  = [via EXCEPT ![t] = task_senders[s]]
  /\ call' = [call EXCEPT ![t] = IF task_senders[s] = None THEN "unsent"
                                                           ELSE "sending"]
  /\ UNCHANGED <<task_senders, server>>
  /\ UNCHANGED <<tableVars, streamVars, ghostVars>>

\* The value enters the channel; the call answers true.
Enqueue(t) ==
  /\ call[t] = "sending"
  /\ ReceiverAlive(via[t])
  /\ chan' = [chan EXCEPT ![via[t]] = Append(@, t)]
  /\ call' = [call EXCEPT ![t] = "sent"]
  /\ via'  = [via EXCEPT ![t] = None]
  /\ UNCHANGED <<task_senders, dest, phase, peer, replay, ack, wire, link, server>>
  /\ UNCHANGED ghostVars

AddRow(t, id) ==
  /\ pending_tasks' = pending_tasks \union {[id |-> id, task |-> t]}
  /\ next_row' = id + 1

\* Mutant of SendAccepted: the task is stored as well.
SendAndStore(t) ==
  Enqueue(t) /\ Len(chan[via[t]]) < ChanCap /\ AddRow(t, next_row)

\* sender.send(..).await resolves to Ok: the receiver lives and has a slot.
\* With no slot free the call waits here.
SendAccepted(t) ==
  /\ Enqueue(t)
  /\ Len(chan[via[t]]) < ChanCap
  /\ UNCHANGED tableVars

\* ... or to Err: the receiver was dropped, before the send or during the wait.
SendRejected(t) ==
  /\ call[t] = "sending"
  /\ ~ReceiverAlive(via[t])
  /\ call' = [call EXCEPT ![t] = "failed"]
  /\ via'  = [via EXCEPT ![t] = None]
  /\ UNCHANGED <<task_senders, dest, server>>
  /\ UNCHANGED <<tableVars, streamVars, ghostVars>>

\* task_senders.write().await.remove(&server_id): whatever is registered now.
DropSender(t) ==
  /\ call[t] = "failed"
  /\ task_senders' = [task_senders EXCEPT ![dest[t]] = None]
  /\ call' = [call EXCEPT ![t] = "unsent"]
  /\ UNCHANGED <<dest, via, server>>
  /\ UNCHANGED <<tableVars, streamVars, ghostVars>>

\* The tail of send_task answers false ...
AnswerFalse(t, outcome) ==
  /\ call[t] = "unsent"
  /\ call' = [call EXCEPT ![t] = outcome]
  /\ UNCHANGED <<task_senders, dest, via, server>>
  /\ UNCHANGED <<streamVars, ghostVars>>

\* Mutants of PersistUnsent: every task is replayable; row ids are reused.
PersistEverything(t) == AnswerFalse(t, "stored") /\ AddRow(t, next_row)
PersistReusingIds(t) ==
  /\ t \in Persistable
  /\ AnswerFalse(t, "stored")
  /\ AddRow(t, Cardinality(pending_tasks) + 1)

\* ... after a replayable task became a row.
PersistUnsent(t) ==
  \/ /\ t \in Persistable
     /\ AnswerFalse(t, "stored")
     /\ AddRow(t, next_row)
  \/ /\ t \notin Persistable
     /\ AnswerFalse(t, "refused")
     /\ UNCHANGED tableVars

\* The store refuses the row: an error is logged, the answer is the same.
PersistFailed(t) ==
  /\ t \in Persistable
  /\ AnswerFalse(t, "refused")
  /\ UNCHANGED tableVars

\* The HTTP client goes away while its handler awaits the channel or the lock.
CancelCall(t) ==
  /\ t \in Cancellable
  /\ call[t] \in {"sending", "failed"}
  /\ call' = [call EXCEPT ![t] = "cancelled"]
  /\ via'  = [via EXCEPT ![t] = None]
  /\ UNCHANGED <<task_senders, dest, server>>
  /\ UNCHANGED <<tableVars, streamVars, ghostVars>>

Dispatch(t) ==
  \/ \E s \in Server : LookupSender(t, s)
  \/ SendAccepted(t)
  \/ SendRejected(t)
  \/ DropSender(t)
  \/ PersistUnsent(t)
  \/ PersistFailed(t)
  \/ CancelCall(t)

-----------------------------------------------------------------------------
(* request_task *)

Unreferenced(c) ==
  /\ \A s \in Server : task_senders[s] # c
  /\ \A t \in Task : via[t] # c

\* The agent of s opens its stream: authenticate and ensure_server answer s
\* while the row or the cached ServerRecord is there.
OpenStream(c, s) ==
  /\ phase[c] = "closed"
  /\ Unreferenced(c)
  /\ server[s] \in {"present", "deleted"}
  /\ \A d \in Conn : link[d] => peer[d] # s
  /\ phase' = [phase EXCEPT ![c] = "ensured"]
  /\ peer'  = [peer EXCEPT ![c] = s]
  /\ link'  = [link EXCEPT ![c] = TRUE]
  /\ UNCHANGED <<task_senders, chan, replay, ack, wire, server>>
  /\ UNCHANGED <<callVars, tableVars, ghostVars>>

\* task_senders.write().await.insert(server.id, tx)
RegisterSender(c) ==
  /\ phase[c] = "ensured"
  /\ task_senders' = [task_senders EXCEPT ![peer[c]] = c]
  /\ phase' = [phase EXCEPT ![c] = "registered"]
  /\ UNCHANGED <<peer, chan, replay, ack, wire, link, server>>
  /\ UNCHANGED <<callVars, tableVars, ghostVars>>

\* What drain_pending_tasks answers becomes the replay; the stream opens.
StartReplay(c, rows) ==
  /\ phase[c] = "registered"
  /\ replay' = [replay EXCEPT ![c] = rows]
  /\ phase' = [phase EXCEPT ![c] = "open"]
  /\ UNCHANGED <<task_senders, next_row, peer, chan, ack, wire, link, server>>
  /\ UNCHANGED <<callVars, ghostVars>>

\* Mutants of DrainPending: no WHERE server_id; the rows leave the table here.
DrainAllServers(c) ==
  StartReplay(c, pending_tasks) /\ UNCHANGED pending_tasks
DrainRemoving(c) ==
  /\ StartReplay(c, RowsOf(pending_tasks, peer[c]))
  /\ pending_tasks' = pending_tasks \ RowsOf(pending_tasks, peer[c])

\* drain_pending_tasks only selects; the rows stay in the table.
DrainPending(c) ==
  StartReplay(c, RowsOf(pending_tasks, peer[c])) /\ UNCHANGED pending_tasks

\* The select fails: an error is logged, the stream opens with nothing to replay.
DrainFailed(c) == StartReplay(c, {}) /\ UNCHANGED pending_tasks

\* The transport polls the stream only while it has room to take an item.
Polled(c) == phase[c] = "open" /\ Len(wire[c]) < WireCap

Yield(c, r) ==
  /\ Polled(c)
  /\ ack[c] = None
  /\ replay' = [replay EXCEPT ![c] = @ \ {r}]
  /\ ack'  = [ack EXCEPT ![c] = r]
  /\ wire' = [wire EXCEPT ![c] = Append(@, r.task)]
  /\ offered' = offered \union {r.task}
  /\ UNCHANGED <<task_senders, phase, peer, chan, link, server, handled>>
  /\ UNCHANGED <<callVars, tableVars>>

\* Mutant of ReplayRow: rows come in any order.
ReplayAnyRow(c) == \E r \in replay[c] : Yield(c, r)

\* for entry in pending { yield Task .. : the oldest row not yielded yet.
ReplayRow(c) ==
  \E r \in replay[c] : (\A q \in replay[c] : r.id <= q.id) /\ Yield(c, r)

\* The statement after the yield, at the next poll.
AfterYield(c, rows) ==
  /\ Polled(c)
  /\ ack[c] # None
  /\ pending_tasks' = rows
  /\ UNCHANGED <<task_senders, next_row, phase, peer, chan, replay, wire, link, server>>
  /\ UNCHANGED <<callVars, ghostVars>>
Continue(c) == ack' = [ack EXCEPT ![c] = None]

\* Mutants of DeleteRow: the loop does not move on; the id it deletes is not the
\* row's.
DeleteRowAgain(c) ==
  AfterYield(c, {r \in pending_tasks : r.id # ack[c].id}) /\ UNCHANGED ack
DeleteOtherId(c) ==
  AfterYield(c, {r \in pending_tasks : r.id # ack[c].id + 1}) /\ Continue(c)

\* delete_pending_task(row_id); an error of the store leaves the row there and
\* the loop goes on.
DeleteRow(c) ==
  AfterYield(c, {r \in pending_tasks : r.id # ack[c].id}) /\ Continue(c)
DeleteFailed(c) == AfterYield(c, pending_tasks) /\ Continue(c)

Forward(c) ==
  /\ Polled(c)
  /\ ack[c] = None
  /\ chan[c] # <<>>
  /\ wire' = [wire EXCEPT ![c] = Append(@, Head(chan[c]))]
  /\ chan' = [chan EXCEPT ![c] = Tail(@)]
  /\ UNCHANGED <<task_senders, phase, peer, replay, ack, link, server>>
  /\ UNCHANGED <<callVars, tableVars, ghostVars>>

\* Mutant of ForwardTask: the table is looked at and not the rows that were drained.
ForwardAtEmptyTable(c) == RowsOf(pending_tasks, peer[c]) = {} /\ Forward(c)

\* rx.recv() .. yield task, once the replay is over.
ForwardTask(c) == replay[c] = {} /\ Forward(c)

\* Mutant of CloseStream: something keeps the receiver of an open stream alive.
CloseEarlyOnly(c) ==
  /\ ~link[c]
  /\ phase[c] = "ensured"
  /\ phase'  = [phase EXCEPT ![c] = "closed"]
  /\ UNCHANGED <<task_senders, peer, chan, replay, ack, wire, link, server>>
  /\ UNCHANGED <<callVars, tableVars, ghostVars>>

\* The outbound stream is dropped when the transport learns that the agent is
\* gone.  Nothing unregisters the sender: tx_guard keeps rx.recv() from
\* returning None, so the lines after the loop do not run.
CloseStream(c) ==
  /\ ~link[c]
  /\ phase[c] \in {"ensured", "open"}
  /\ phase'  = [phase EXCEPT ![c] = "closed"]
  /\ chan'   = [chan EXCEPT ![c] = <<>>]
  /\ replay' = [replay EXCEPT ![c] = {}]
  /\ ack'    = [ack EXCEPT ![c] = None]
  /\ wire'   = [wire EXCEPT ![c] = <<>>]
  /\ UNCHANGED <<task_senders, peer, link, server>>
  /\ UNCHANGED <<callVars, tableVars, ghostVars>>

\* The agent's request_tasks loop reads a task and handles it before the next.
HandleTask(c) ==
  /\ link[c]
  /\ wire[c] # <<>>
  /\ handled' = [handled EXCEPT ![Head(wire[c])] = IF @ = 0 THEN 1 ELSE 2]
  /\ wire' = [wire EXCEPT ![c] = Tail(@)]
  /\ UNCHANGED <<task_senders, phase, peer, chan, replay, ack, link, server, offered>>
  /\ UNCHANGED <<callVars, tableVars>>

\* The agent restarts, reloads its configuration or loses the network; the
\* dashboard does not know yet.
LoseLink(c) ==
  /\ link[c]
  /\ link' = [link EXCEPT ![c] = FALSE]
  /\ UNCHANGED <<task_senders, phase, peer, chan, replay, ack, wire, server>>
  /\ UNCHANGED <<callVars, tableVars, ghostVars>>

Stream(c) ==
  \/ \E s \in Server : OpenStream(c, s)
  \/ RegisterSender(c)
  \/ DrainPending(c) \/ DrainFailed(c)
  \/ ReplayRow(c)
  \/ DeleteRow(c) \/ DeleteFailed(c)
  \/ ForwardTask(c)
  \/ CloseStream(c)
  \/ HandleTask(c)
  \/ LoseLink(c)

-----------------------------------------------------------------------------
(* batch_delete_server and restarts *)

\* store.delete_servers, under the store lock.
DeleteServerRows(s) ==
  /\ server[s] = "present"
  /\ server' = [server EXCEPT ![s] = "deleted"]
  /\ pending_tasks' = pending_tasks \ RowsOf(pending_tasks, s)
  /\ UNCHANGED <<task_senders, next_row>>
  /\ UNCHANGED <<callVars, streamVars, ghostVars>>

\* remove_cached_servers_by_id: the cache under one lock ...
EvictServer(s) ==
  /\ server[s] = "deleted"
  /\ server' = [server EXCEPT ![s] = "evicting"]
  /\ UNCHANGED task_senders
  /\ UNCHANGED <<callVars, streamVars, tableVars, ghostVars>>

\* ... the sender under the next.
EvictSender(s) ==
  /\ server[s] = "evicting"
  /\ server' = [server EXCEPT ![s] = "gone"]
  /\ task_senders' = [task_senders EXCEPT ![s] = None]
  /\ UNCHANGED <<callVars, streamVars, tableVars, ghostVars>>

\* The dashboard process ends and starts: only the table survives, and the
\* caches are filled from the store.
Restart ==
  /\ task_senders' = [s \in Server |-> None]
  /\ call' = [t \in Task |-> IF call[t] \in {"sending", "failed", "unsent"}
                               THEN "killed" ELSE call[t]]
  /\ via'    = [t \in Task |-> None]
  /\ phase'  = [c \in Conn |-> "closed"]
  /\ chan'   = [c \in Conn |-> <<>>]
  /\ replay' = [c \in Conn |-> {}]
  /\ ack'    = [c \in Conn |-> None]
  /\ wire'   = [c \in Conn |-> <<>>]
  /\ link'   = [c \in Conn |-> FALSE]
  /\ server' = [s \in Server |-> IF server[s] = "present" THEN "present" ELSE "gone"]
  /\ UNCHANGED <<peer, dest>>
  /\ UNCHANGED <<tableVars, ghostVars>>

Delete(s) == DeleteServerRows(s) \/ EvictServer(s) \/ EvictSender(s)

Next ==
  \/ \E t \in Task : Dispatch(t)
  \/ \E c \in Conn : Stream(c)
  \/ \E s \in Server : Delete(s)
  \/ Restart

Spec == Init /\ [][Next]_vars

\* Calls and streams run to their next await; when slots of full channels come
\* free again and again, waiters get them; the transport finds out that a peer
\* is gone; a store that is asked again and again deletes a row in the end.  No
\* fairness for the agent: its loop handles one task after the other, and a
\* handler may wait for ever for room in the queue of results, which the
\* dashboard reads.  Nor for store errors, links failing, restarts, deletions,
\* cancellations and new calls.
Fairness ==
  /\ SF_vars(\E t \in Task : SendAccepted(t))
  /\ SF_vars(\E c \in Conn : DeleteRow(c))
  /\ \A t \in Task :
       /\ WF_vars(SendRejected(t))
       /\ WF_vars(DropSender(t))
       /\ WF_vars(PersistUnsent(t))
  /\ \A c \in Conn :
       /\ WF_vars(RegisterSender(c))
       /\ WF_vars(DrainPending(c) \/ DrainFailed(c))
       /\ WF_vars(ReplayRow(c))
       /\ WF_vars(DeleteRow(c) \/ DeleteFailed(c))
       /\ WF_vars(ForwardTask(c))
       /\ WF_vars(CloseStream(c))

FairSpec == Spec /\ Fairness

-----------------------------------------------------------------------------
\* A channel never holds more than its capacity, whoever sends to it.
Bounded == \A c \in Conn : Len(chan[c]) <= ChanCap /\ Len(wire[c]) <= WireCap

TypeOK ==
  /\ task_senders \in [Server -> Conn \union {None}]
  /\ pending_tasks \subseteq Row
  /\ next_row \in Nat \ {0}
  /\ call \in [Task -> CallState]
  /\ dest \in [Task -> Server \union {None}]
  /\ via  \in [Task -> Conn \union {None}]
  /\ phase \in [Conn -> StreamPhase]
  /\ peer  \in [Conn -> Server \union {None}]
  /\ chan  \in [Conn -> Seq(Task)]
  /\ replay \in [Conn -> SUBSET Row]
  /\ ack   \in [Conn -> Row \union {None}]
  /\ wire  \in [Conn -> Seq(Task)]
  /\ link  \in [Conn -> BOOLEAN]
  /\ server \in [Server -> ServerState]
  /\ offered \subseteq Task
  /\ handled \in [Task -> 0..2]
  /\ Bounded

\* A task never travels on a stream of another server than the one it was
\* dispatched to, whatever sender clones outlive their stream and whatever
\* snapshot of the table a stream replays (send_task, drain_pending_tasks).
Routed ==
  \A c \in Conn :
    /\ \A t \in Range(chan[c]) \union Range(wire[c]) : dest[t] = peer[c]
    /\ \A r \in replay[c] : dest[r.task] = peer[c]

\* A call that answered false for a replayable task left something behind: the
\* row is there until a stream has yielded the task, unless its server was
\* deleted.  Two streams replaying the same rows, a stream dying between the
\* yield and the delete, and a restart do not lose it (request_task).
StoredIsKept ==
  \A t \in Task : call[t] = "stored" =>
    \/ \E r \in pending_tasks : r.task = t
    \/ t \in offered
    \/ server[dest[t]] # "present"

\* Why they hold.  The id of a row names it for good, in the table and in every
\* copy a stream still works from (AUTOINCREMENT), so that a delete by id takes
\* the row that was yielded; senders, calls and streams agree on the server; a
\* dropped stream leaves nothing behind for the next use of its slot, and none carries
\* anything before it is open.
InHand(c) == replay[c] \union (IF ack[c] = None THEN {} ELSE {ack[c]})
AllRows   == pending_tasks \union UNION {InHand(c) : c \in Conn}

RowsNamed ==
  /\ \A r \in AllRows : r.id < next_row /\ call[r.task] = "stored"
  /\ \A r, q \in AllRows : r.id = q.id => r = q
  /\ \A c \in Conn : ack[c] # None => ack[c].task \in offered

ServersAgree ==
  /\ \A s \in Server : task_senders[s] # None => peer[task_senders[s]] = s
  /\ \A t \in Task : call[t] # "idle" => dest[t] \in Server
  /\ \A t \in Task : call[t] = "sending" <=> via[t] # None
  /\ \A t \in Task : via[t] # None => peer[via[t]] = dest[t]
  /\ \A c \in Conn : phase[c] # "closed" => peer[c] \in Server

NothingLeftBehind ==
  \A c \in Conn :
    /\ phase[c] \in {"closed", "ensured"} => chan[c] = <<>>
    /\ phase[c] # "open" => wire[c] = <<>> /\ replay[c] = {} /\ ack[c] = None
    /\ \A t \in Range(chan[c]) \union Range(wire[c]) : call[t] \in {"sent", "stored"}

IInv ==
  TypeOK /\ ServersAgree /\ NothingLeftBehind /\ RowsNamed /\ Routed /\ StoredIsKept

\* A stream yields the rows oldest first, and none of what its channel took in
\* the meantime before the last of them (ORDER BY id, the loop after the for).
ReplayInOrder ==
  \A c \in Conn :
    /\ ack[c] # None => \A r \in replay[c] : ack[c].id < r.id
    /\ replay[c] # {} => \A t \in Range(wire[c]) : call[t] # "sent"

\* A call of send_task ends, or it waits for ever at the full channel of an open
\* stream whose agent is connected and reads no more: whatever else fills a
\* channel, it is drained or its receiver dropped, so that no other caller (the
\* schedulers and the reader of results await it) is stuck for good.
Held(t) ==
  /\ call[t] = "sending"
  /\ phase[via[t]] = "open" /\ link[via[t]]
  /\ Len(wire[via[t]]) = WireCap /\ Len(chan[via[t]]) = ChanCap
CallsReturn ==
  \A t \in Task :
    (call[t] \in {"sending", "failed", "unsent"}) ~> (call[t] \in Returned \/ []Held(t))

\* What a channel took goes out to the agent, or the agent leaves, or it waits
\* for ever behind a transport that takes nothing more: the replay in front of it
\* comes to an end, whatever the store answers.
Queued(t) == \E c \in Conn : link[c] /\ t \in Range(chan[c])
QueuedForGood(t) ==
  \E c \in Conn : link[c] /\ t \in Range(chan[c]) /\ Len(wire[c]) = WireCap
AcceptedGoesOut == \A t \in Task : Queued(t) ~> (~Queued(t) \/ []QueuedForGood(t))

\* A row does not stay while the agent of its server, over one stream after
\* another, reads what is replayed to it: with every task it reads a row leaves,
\* oldest first, and no later row or copy of a row holds it back.
Stored(t, s) == \E r \in RowsOf(pending_tasks, s) : r.task = t
ReplayRead(s) == \E c \in Conn : peer[c] = s /\ ack[c] # None /\ wire[c] = <<>>
RowsLeave ==
  \A s \in Server, t \in Persistable :
    []<>ReplayRead(s) => (Stored(t, s) ~> ~Stored(t, s))

\* A stream that is registered and whose agent reads it is unregistered only
\* by the deletion of its server or by a restart (dispatch_task to a
\* registered agent answers true).
Reachable(s) ==
  /\ task_senders[s] # None
  /\ phase[task_senders[s]] = "open"
  /\ link[task_senders[s]]
LiveStreamStaysRegistered ==
  [][\A s \in Server : Reachable(s) /\ task_senders'[s] = None =>
        server[s] = "evicting" \/ phase'[task_senders[s]] = "closed"]_vars

\* The abstract specification, read off this one.
Answers == [t \in Task |-> IF call[t] \in {"sent", "stored"} THEN call[t]
                           ELSE IF call[t] \in Returned THEN "lost" ELSE "none"]
Targets == [t \in Task |-> IF call[t] \in Returned THEN dest[t] ELSE None]
StoredTasks == {r.task : r \in pending_tasks}
Travelling(c) == Range(chan[c]) \union Range(wire[c])
Deleted == {s \in Server : server[s] # "present"}

Delivery == INSTANCE TaskDelivery WITH
  answer   <- Answers,
  target   <- Targets,
  row      <- StoredTasks,
  offered  <- offered,
  flight   <- UNION {Travelling(c) : c \in Conn},
  received <- handled,
  deleted  <- Deleted

\* The task channel implements the delivery promise.
ImplementsDelivery == Delivery!DSpec
=============================================================================
