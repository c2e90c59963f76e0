# TLA+ models of the Nezha dashboard, its agents and its admin pages

This directory holds TLA+ specifications of the parts of nezha-rs where the
order of events matters: the channel that carries tasks from the dashboard to
its agents, the calls and schedulers that use it, the byte streams opened
through it, what the dashboard keeps in memory beside its store, and the admin
pages, which edit with answers that are late. TLC checks small instances; TLAPS
proves every invariant and action property that the passing runs check, and the
refinement, for every value of the constants. Liveness is left to TLC.

The models were written from the code. A line range for every definition is in
`PROJECT.json` ("map"), beside the hazards, the runs and, for every property, a
mutation of the code that violates it.

## The system

One dashboard process (`src/crates/nezha-dashboard`) serves gRPC to agents and
HTTP to browsers. It runs on a multi-threaded tokio runtime. Its state is a
SQLite database behind one mutex, and maps in memory behind mutexes or
read-write locks, all in `DashboardState`. Agents (`src/crates/nezha-agent`) keep
a `RequestTask` stream and a state-report stream open and open one `IOStream`
per terminal, file manager or NAT request. Everything in the dashboard
interleaves at await points, and between two locks.

The admin pages (`src/frontends/admin`, React with SWR) run in one thread of a
tab, but everything they show is an answer that was read earlier, requests
cross, and a rendering may mount parts of a page anew and drop their state.

| Component | State | Operations | What makes it hard | What makes it correct |
|---|---|---|---|---|
| Task dispatch (`main.rs` send_task, request_task; `store.rs` pending_tasks) | task_senders, the bounded channel of each stream, the table | send_task; open, replay, forward, drop of a stream; deletion of servers | a sender clone is used after its lock is released; streams die without notice; rows are yielded first and deleted later | tasks reach only their own agent, at most once if sent, and stored ones are not lost; calls end |
| Config calls (`main.rs` request_config, apply_config_and_wait, complete_task_result) | two maps of waiters by task id, a counter | call, result, timeout | the timeout races the result; ids start again after a restart; dropped HTTP handlers | a call takes its own result; no waiter outlives a finished call |
| Alert-trigger reservations (`main.rs` reserve, revoke, consume) | expiry times per cron and server | reserve after dispatch, revoke, consume on a result | reservations do not know their dispatch | recorded results are those of reserved dispatches |
| Cron scheduler (`scheduler.rs`) | last_executed_at per cron | tick, dispatch, record execution, record result | two writers of one column, a blocking loop, crashes between dispatch and record | an occurrence is dispatched once, and is dispatched |
| IO streams (`iostream.rs`, handlers in `http.rs` and `main.rs`) | registry, per session two channels and a notification | create, wait, take, bridge, close | shared ownership decides what ends; a wait with a timeout | ids are answered for working streams; streams end |
| Service monitor (`main.rs`, `scheduler.rs`, `store.rs`) | last dispatch, current results, last status, certificates | tick, result | effects of a result are worked off after the lock is released, by one reader per stream, towards the same agent | what was notified and commanded last is what the status says; readers do not stop |
| Alert engine (`scheduler.rs` AlertRuntime) | windows per alert and server, last states, cycle sentinels | tick, edits, mutes | windows are cut to what each check asks for; cycles reset them; actions are awaited, and lost on an error | a cut window judges as the full one; what is told is news |
| Online users and WAF (`main.rs`, `http.rs`, `store.rs`) | users by connection, blocked addresses, WAF rows | connect, block, unblock, login failure | memory and store change in two steps; two spellings of an address | a blocked visitor gets at most the frame under way; memory and store agree |
| Server registry (`main.rs` ensure_server, reports; `http.rs`) | cached ServerRecord by uuid, servers table, task_senders | register, report, move, delete | an RPC holds a record over a move or a deletion | the record and the stream in memory are those of the row |
| Transfer accounting (`store.rs`) | counters, snapshots, hourly rows | state report | counter resets, late reports, crashes between two statements | each byte is counted once |
| Agent updater (`updater.rs`) | a lock file | acquire, wait, take over | stale locks, a look after the wait | one update at a time |
| Admin forms (`components/*.tsx`, `routes/settings.tsx`) | draft, page, submissions | open, enter, submit, answer | news drop drafts; a submission sends every field | nothing is changed that was not meant; nothing meant is dropped silently |
| Admin tables (`routes/*.tsx`, action and header buttons) | rows, ticks by row index, confirmation, page number | tick, ask, confirm, answer, turn | an answer puts other entries under the ticks | a batch hits what was ticked; the page shows that it is gone |
| Public note editor (`server.tsx`, `public-note*.tsx`) | a text and fields of one note | enter, change mode, save | each half keeps what the other does not know | the note stored is the one meant |
| Alert rule editor (`alert-rule.tsx`) | rows of rules, their JSON, selects with a state of their own | add, delete, enter, submit | two copies of the rules; rows keyed by index; a reset after an awaited list | rows, text and selects show the rules that are sent |
| Admin session (`useAuth.tsx`, `api.ts`) | cookie, profile in local storage, refreshes | login, logout, request, refresh | answers come after the cookie changed | the pages are those of the cookie's user |
| File manager (`fm.tsx`, `lib/fm.ts`, agent `main.rs`) | page, worker, agent's transfer over one stream | list, download, upload | messages are told apart by their first bytes and by what the page waits for | files arrive whole; transfers and lists end |
| Terminal page (`terminal.tsx`, agent `main.rs`) | socket, pending keys, delayed size | type, resize | keys and sizes before the socket is open | the shell gets the keys in order and the last size |
| Notifications, dynamic DNS (`notification.rs`, `ddns.rs`) | dead letters, last addresses | send with retries | I/O | a failure is recorded |
| References and permissions (`store.rs`, `http.rs`) | ownership and id references | CRUD | cascades | no dangling reference |
| Agent session (agent `main.rs`) | configuration, workers | connect, report, handle task, reload | a reload during a task | one set of workers |

How the parts use each other: every dispatcher (HTTP handlers, the cron and
alert schedulers, service results, config calls, stream creation) goes through
send_task. `TaskDelivery` states what they may rely on, `TaskDispatch` implements
it, `ConfigRpc` is built on it by EXTENDS. `AlertTrigger`, `CronScheduler`,
`IoStream`, `AlertEngine` and `ServiceMonitor` use only "the call answers true or
false, and ends unless its agent stops", which `TaskDispatch` checks as CallsReturn. `ServerRegistry`
is the map of senders from the side of registration: which server's stream is in
it, where `TaskDispatch` has only streams that were authenticated.
`FileManager` and `TerminalPage` run over a stream `IoStream` answered, and rely
on its order per direction. The cycle rules of `AlertEngine` read the table
`TransferAccounting` writes. `EditDialog` has the forms of `FormFields`; `AdminTable`
is the page such a dialog stands on, `PublicNoteEditor` and `RuleEditor` are two
fields of it that are editors of their own.

## Modules

### TaskDelivery and TaskDispatch

`TaskDelivery` is the abstract promise. A task is accepted, stored or given up,
once; an accepted task travels once; a stored one stands in a row until it was
offered or its server was deleted; connections and crashes lose what travels.

`TaskDispatch` is the code. A call of send_task goes through the states `idle`,
`sending` (it holds a clone of a sender, possibly waiting for a slot), `failed`
(the receiver was dropped), `unsent` (no sender, or the sender removed), and then
one of the final ones. A stream is `ensured` (authenticated), `registered`
(its sender is in the map), `open` (the rows are drained, the response stream
exists) and `closed`. Lines map to actions:

- `task_senders.read()` → LookupSender; `sender.send().await` → SendAccepted,
  SendRejected; the removal → DropSender; the tail → PersistUnsent, PersistFailed.
- request_task: OpenStream, RegisterSender, DrainPending, DrainFailed; the
  generator: ReplayRow, then DeleteRow or DeleteFailed at the next poll, then
  ForwardTask. The drop of the generator is CloseStream: nothing unregisters the
  sender there, since `tx_guard` keeps the receive from ending the loop.
- batch_delete_server: DeleteServerRows (under the store lock), EvictServer,
  EvictSender (two locks of remove_cached_servers_by_id).
- the agent: HandleTask, LoseLink. Restart is the end and start of the dashboard.

No action lies between the insertion of the sender and the drain that could drop
the handler: there is no await there (the store lock is a std mutex). A handler
that waits for the map's lock can be dropped (CloseStream in `ensured`).
Poisoned locks are not modelled: they need a panic. Errors of the store are
(DrainFailed, PersistFailed, DeleteFailed). A failed row is logged by the code and
the task is gone; the abstract promise calls that "given up".

The wire variable is what HTTP/2 and the kernel buffer; it bounds how far the
stream is polled ahead of the agent. Stream slots are reused when nothing refers
to the old stream.

### ConfigRpc

Calls of request_config and apply_config_and_wait over `TaskDelivery`. Both maps
are one variable; `SameKind` tells them apart. `oneshot` remembers whose result
woke a call. The timeout and the removal of the waiter are two actions (Expire,
AnswerTimeout), with results in between. Cancel is a dropped HTTP handler.

### AlertTrigger

Reservations are counters (`fresh`, `stale`): the code keeps expiry times but
tells entries apart only by age, and takes the youngest. Reserve and Revoke
follow the answer of the dispatch as in tick_alerts and
dispatch_service_trigger_cron; CompleteResult is consume and record under the
store lock. `counted` has the results recorded of each slot. `spoiled` names the
slots where something else happened than the result of a reserved dispatch: a
revocation, a lapse, a restart, or a result before its reservation.

### CronScheduler

A clock of whole seconds, the loop (Tick, BeginCron, DispatchSent or
DispatchStored for each server, RecordExecution or RecordFailed), the agents
(StartRun, FinishRun, LoseAgent), results (RecordResult, RejectResult) and
restarts. `fired` and `unwritten` are history: which occurrences were dispatched,
and which of those a result made due again. Crons and servers do not change.
Results that are equal in every field are one element of a set.

### IoStream

A stream has one of three kinds: terminals and file managers (bridged by a
websocket), plain NAT requests, and upgraded NAT connections. A stream ends when
the last reference to its session goes; SessionHeld lists them. wait_agent_connected
is two steps (CheckReceiver, AwaitNotify): the receiver's lock is released
between them. The id of a stream is known to its user only from the answer, so a
bridge starts after it. A second websocket for the same stream finds the receiver
taken and returns; it is left out.

### AlertEngine

tick_alerts is two phases. Tick is the first: it holds the store lock and runs to
its end, for every alert that is not silent and every server (Evaluate is the
body of the inner loop: push a point, check, cut, note the change). The second
works off the list of changes with the lock released: TriggerCrons, then Notify.
An error in the first (TickAborted) or in the second (NotifyFailed) ends the tick
and drops the list. EditAlert, Silence and Unsilence are users; Restart forgets
the runtime. The clock counts ticks of three seconds and runs on during the
second phase (Pass3Seconds).

A reading is "pass", "fail" or, for a transfer rule without a state,
"unknown"; it is an input. Evaluations are what a tick may make of the pairs it
sees, for any readings and delays; Keep writes one of them, and its actions unless
they are lost. RulePasses and Duration are alert_check, apart: the verdict and the
number of points each rule asks to keep; Passing are the looks, counted from the
newest, at which a rule passed. A cycle rule keeps `start`, `next` and `passed` of
the three maps of AlertRuntime. `readings` (all points since the last reset, up to
MaxSamples, the longest duration), `taken` (the cycle a status was read in) and
`told` (what was notified last) are history.

### ServiceMonitor

One agent, its live stream, and the readers of that stream and of older ones.
CompleteResult is complete_service_result under the store lock: row, samples,
status, and the list of effects. The reader then works these off (Notify;
LookupSender, then CommandSent or CommandStored) before it reads on. The agent
works on one task at a time and sends its result first (AgentTakes, AgentSends).
Notifications and trigger tasks are switched on; with them off there are fewer
steps.

`told` and `commanded` are history. While two readers work on one service, their
order is open; both become "mixed" and stay so until a restart. The restart is
not bounded. Due(c) is what a reader still has to notify and to command; WorkFits
says that, short of "mixed", it is of the present status, and that what was told and
commanded last is too, unless it is due.

The reader of a stream may wait for a slot in the channel of that stream while
its agent waits for a slot among the results: CircularWait. Nothing times it out;
it ends with the stream. EffectsEnd shows that it is the only way a reader stops.

### ServerRegistry

One agent's row in the table, its record in memory, the stream registered for it,
and RPCs of the agent in flight. An action is one section under one lock.
ensure_server is LookUp (the record in memory, which answers for its owner and
the global secret), AskStore (the row is found or inserted) and CacheServer. A report
writes the row (Report) and afterwards the record (CacheReport; CacheLocation for
report_geo_ip). RegisterSender and Finish are the ends of request_task's
stream. batch_delete_server is DeleteRow, RemoveCached, RemoveSender, of which the
last two may not come when the client leaves (DropRemoval). Move changes the row
only. Restart forgets the memory.

Ids are given once (AUTOINCREMENT). `owners` and `missed` are history: whose the
server has ever been, and the removals an RPC held a record over. The exceptions of
RegistryFollowsStore are stated with its parts.

### OnlineUsers

A visit of server_stream (Open passes the check of every request, AddOnlineUser
enters the list, then Tick and Send for each frame, RemoveOnlineUser) against
batch_block_online_user in its two halves (RecordBlock, BlockOnlineIps),
unblocking (DeleteWaf, and DeleteWafFails when the store fails on the way), failed
logins, maintenance and restarts. The table keeps an address as 16 bytes, the
memory as a string: `AddrOf` maps the spellings to addresses.

### TransferAccounting

The counters of a machine that reboots, reports on two streams (one broken, one
new) whose messages may be read in the wrong order, and record_transfer_delta as
its two statements with a restart possible between them. `total`, `since`, `base`,
`newest` (the latest report recorded) and the total each report carries (`at`) are
history.

### UpdateLock

acquire_update_lock by processes of one executable: create the file or find it,
look once a second, and after the wait look again and take the lock over. The
end of an update removes the file, whoever's it is. `missed` and `robbed` record
why a lock was lost.

### FormFields and EditDialog

`FormFields` lists the checks, codecs and inputs of every field of twelve forms
(service, cron, DDNS, notification, alert rule, NAT, user, the two groups, server, settings and an agent's
configuration): what is refused, how a stored value becomes what the
form shows and back. `Traits` are the kinds of fields that result; `EditDialog` is
one such field in its form: in a row of a table, in the header, in the dialog
of a server, on a page of its own, or in a dialog that asks for its values. A
stored entry, what the page was last given, the draft and what the input shows
are separate; the list request, submissions and the agent's configuration are
asynchronous. News in the list render the page again, with new column
definitions, so that the dialogs in its rows are mounted anew and a draft is
gone; so do the groups that the pages of servers and notifiers show beside, which come
once after the page was opened (GroupsAnswered; `hooks/useServer.tsx` 31). Saving from a row or the header asks for the list again; the page does not
wait for it. `start` is what the form was loaded with; StartIsOfThePage and
SubmissionsAreSendable say that it, and every submission made from it untouched,
is what the page had been given.

### AdminTable

One of twelve list pages, each with its operations on a row and on the ticked rows,
with or without pages and the request on focus. Ticks are row indices; an answer puts
other entries under them. Asking,
confirming and the operation are steps of their own; fetches may cross, fail, and
be read at the store before and answered after an operation. The page numbers are
PageNumbers, for every page and number of pages.

### PublicNoteEditor and RuleEditor

The note has one field of each kind and a remainder the fields do not know. Parse
and build of the fields, the change of the mode in both directions, and the
validation before saving are as in the code; `meant` is what the user last
entered, `lossy` the changes of mode that drop something.

`RuleEditor` has the rows and their JSON. An effect writes the rows into the text
when they change; a text that is a list replaces the rows. The selects are
uncontrolled: `choices` are what they show. `shifted` records that other
rules came under them. A submission is three steps, SubmitRules, RulesTaken (or
RulesLost) and ListAwaited: the dialog closes when the rules are taken, the list is
awaited, and only then is the form reset, to what the card was mounted with (`began`),
whether the dialog was opened again or not. `behind` records that this reset left rows of
other rules. The rows are not reset.

### AdminSession

One tab: the cookie, the profile in the store, requests of three callers that
carry the cookie of the moment they are sent, and the refresh of the token by
a request after the first hour, if scripts see a cookie at all (`readable`: nz-jwt is
HttpOnly, so that it takes another one). Other tabs log in and out (OtherTab). A token is
good for any number of hours from one on, the default; see "Observations".

### FileManager and TerminalPage

`FileManager` is the page, its worker and the agent over the two directions of a
stream. Answers carry no request: the page tells them apart by their first bytes, or,
while a download is under way, takes whatever comes as the next part. Parts that
come before the worker is ready poll each on its own timer (PartWaited takes any of
them). The agent lists and receives in its loop and sends a download from a
task. An upload is read and sent part by part (Feed), also after an error closed its dialog,
so that a second one may go between; the parts that an upload leaves behind when the agent
gave it up are requests to the agent, of whatever kind their first byte says (Asks). What
may fail, fails: the reader of an upload (ReadFails), the worker's handle (OpenFails) and
its writes (WorkFails; `missed` counts the parts that were not written, "broken" is a file
nothing more becomes of), the agent's transfers, the stream. `why` collects what went
wrong, so that the properties can name it. Paths are
the empty one ("blank") and two directories. The invariant of the two halves is
stated over what is on its way: OnTheWay, up, where an upload's header is followed by its
parts; and, down, Debts, what the page is owed after each message of the line,
starting from Owed, what its worker has not got of the file it is at (Passed are the parts
it is through with, written or missed).

`TerminalPage` has the keys, the pending input, the delayed resize, and the order in
which the stream carries them: Answered and Opened are the id and the socket, Type and
ResizeWindow the user, Slept the delayed resize, AgentTakes the shell, Closed and Dismiss
the end.

### Compositions for TLC

Parts that share no state a model of two of them would tell apart are checked by
one run: `MCParts` (ServerRegistry, OnlineUsers, UpdateLock), `MCResults` (ConfigRpc,
ServiceMonitor), `MCAlerts` (AlertEngine, AlertTrigger, TransferAccounting), `MCStreams`
(IoStream, FileManager, TerminalPage) and `MCAdmin` (AdminSession, EditDialog, AdminTable,
PublicNoteEditor, RuleEditor). A composition chooses one part at the start (`scene`), and
only that one goes on; the others stay in one of their first states, where no fair
action is due, so that the fairness of all is the fairness of the one that goes on.
The state spaces add up and are not multiplied. A part that theorems are about is
taken with EXTENDS, so that the run checks the very definitions the theorems state; the
others are instances, and the theorems about them are about the composition.
Assumptions that instances do not bring along are stated
again by the composing module (`PartsAssumption`, `AdminAssumption`,
`ResultsAssumption`, `StreamsAssumption`), and TLC evaluates them. The type invariant of a composition checks, for the part that goes
on, the inductive invariant its theorems rest on.

## Runs

All bounds are constants in the cfg files, except where a history counter
saturates at 2 ("more than once").

| Run | Module and cfg | Checks |
|---|---|---|
| dispatch | MCTaskDispatch, MCTaskDispatch.cfg | IInv, StoredIsKept, ReplayInOrder, ImplementsDelivery |
| live | MCTaskDispatch, MCTaskDispatch_live.cfg | CallsReturn, AcceptedGoesOut, RowsLeave |
| stale | MCTaskDispatch, MCTaskDispatch_stale.cfg | a violation of LiveStreamStaysRegistered |
| parts | MCParts, MCParts.cfg | PartsTypeOK, RegistryFollowsStore, BlocksHold, UpdatesAlone |
| alerts | MCAlerts, MCAlerts.cfg | AlertsTypeOK, WindowIsEnough, StatusOfThisCycle, ToldWhatIsSo, ResultsMatchReservations, TrafficIsCounted, NewsIsNew |
| alert_offline | MCAlertEngine, MCAlertEngine_offline.cfg | a violation of OfflineAfterDuration |
| results | MCResults, MCResults.cfg | ResultsTypeOK, OwnAnswer, WaitersBelongToCalls, EffectsFollowStatus, EffectsEnd |
| cron | MCCronScheduler, MCCronScheduler.cfg | CronIInv, OccurrencesFireOnce, DueIsServed |
| cron_again | MCCronScheduler, MCCronScheduler_again.cfg | a violation of FiredOnce |
| streams | MCStreams, MCStreams.cfg | StreamsTypeOK, AnswersHold, SentIsWhatArrives, StreamsEnd, PageRests, SizeIsTold |
| io_absence | MCIoStream, MCIoStream_absence.cfg | a violation of NoFalseAbsence |
| admin | MCAdmin, MCAdmin.cfg | AdminTypeOK, EditorsKeep, DialogsFollowRows, ProfileIsOfTheCookie, EditsAreKept, BatchesHit, StoredIsMeant |

What the passing runs show is said in one sentence each in `PROJECT.json`; what a
property says exactly, and with which exceptions, stands above it in its
module. In a composed run the properties of a part are stated for the scene in
which it goes on, and hold of its resting states as well where they need no scene.

### Bounds, and why they are enough

- dispatch: two servers, one of which is deleted once (the state constraint OneDeletion),
  two streams and two replayable tasks; live: one server that stays, two replayable tasks and
  one more (one on the wire, one in the channel, one waiting), two streams whose copies of the
  rows overlap; one replayable task is over before the others begin (InTurn), and what no
  later step depends on is left out of the compared state (LiveView). Channels hold 1 where the code has
  16 or 64: a full channel, a waiting caller and an empty one are all reached, and
  nothing in the code compares a length with anything else. Two streams of one server
  give every overlap of an old stream with its successor.
- parts, registry: two users and the global secret, two RPCs in flight, an agent that is
  registered twice: one RPC holds a record while the other writes, over a deletion and
  the registration after it. Agents share no record. Visitors: two visits of one
  address in two spellings, two administrators: every pair of halves of a block and
  an unblock. Update lock: three processes and one second of patience: one that updates,
  one that robs it and one that is let in by the end of the first.
- results, calls: two calls of three tasks, two of which can be stored, over one restart,
  which is enough for an id to be used twice (MaxBoot 2). Services: one service, two
  streams, samples of two where the code has 30, with limits 95 and 40 where it has
  95 and 80: all, one and none succeeding are the three statuses, and every change
  between them happens.
- alerts, engine: two alerts on one server, one of them edited between three lists of
  rules; five ticks fill the longest window, begin a new cycle (every two ticks) and leave
  room for an edit after it; delays of one to three ticks lie before, at and after
  the end of a cycle; one disturbance. Trigger: three dispatches on one slot or
  spread over two. Traffic: counters up to two in two directions, three reports, one
  reboot and one restart: a late report, a reset and a repetition in one behaviour.
- cron: two crons due in the same second on one server, three seconds, one upset;
  QueueCap also caps the rows stored for an agent. A command runs over the next
  occurrence and its result arrives after it.
- streams: one stream, since streams share only the registry, where each has a
  fresh id; buffers of two. File manager: two requests, a first file of up to two parts
  and a second of one: parts that overtake each other, requests that cross, a
  transfer after one that went wrong. Two things fail, or are taken for a transfer
  (MaxUpsets), a behaviour has one of the reasons of `why` beside "swallowed" (the state
  constraint OneReason), and a part that is taken for a transfer asks for one of at most
  one part. Terminal: two keys and two resizes, one of which falls
  into the delay of the other.
- admin: one submission at a time, one change elsewhere, one configuration that the
  agent has not applied yet: a submission crossed by another's, and the answer to each.
  Tables of two entries, on one page or on pages of one; the page numbers are computed
  for lists of up to eight pages. Two rows of rules, and two submissions of them under way where
  the card is the one that creates and has one row at most (the state constraint
  SecondCreates): the dialog is opened, and what was sent is sent again, before the reset of
  the first. Two users in one tab, and a token of two hours: the hour in which it is young and
  the one in which a refresh is due.

Symmetry (servers, tasks of one kind, streams; users and RPCs) is used in `dispatch` and
`parts` only, which check no liveness; the refinement is a safety property. `parts`,
`results`, `alerts`, `streams`, `admin` and two of the runs with a violation have
CHECK_DEADLOCK FALSE: config calls, streams, the clock of alerts and the reports of traffic
come to an end within their bounds, and so does a page whose user is done. The circular wait of
`ServiceMonitor` is no deadlock of the model: the agent may leave.

### Fairness

Weak fairness for steps that only need the executor: a future that is ready is
polled, a timer fires, the transport notices a dead peer (keepalive). Strong
fairness for the calls that wait for a slot (SendAccepted, DispatchSent, in the
service model CommandSent): tokio's channel queues its waiters in order, so slots
that come free again and again reach them; for DeleteRow: a store that is asked again
and again deletes in the end; in the cron model for BeginCron, disabled now and then
by a restart. None for the agents that read tasks: their loop handles one task after
the other and may wait for ever to hand over a result (`agent/src/main.rs` 549-554)
to a reader that waits for room in the same agent's channel (`main.rs` 1407), the
circular wait EffectsEnd names. CallsReturn, AcceptedGoesOut and DueIsServed hold without
it, each with this wait, for ever and at one agent, as its only other outcome. In `FileManager`, weak fairness for the page's and
the worker's event loops, the reader of an upload, the timer of each waiting part, the
agent's loop and its download tasks, each of which goes on with what it was asked for or
with an error; in `TerminalPage` for the delayed resize and the agent's loop. No
fairness for agents coming and going, users, deletions, cancellations, store errors,
restarts, or streams that end.

`IoStream` assumes that the program behind a stream takes its input whatever
becomes of its output; a program that stops reading while it writes can block
the bridge for good (four full buffers, `http.rs` 1784).

Liveness under a condition is written into the property. RowsLeave is about
agents that come back and read what is replayed to them. StreamsEnd is, on the agent's side,
about agents that send more output: the task that reads their direction holds the
session until a send is refused; an upgraded NAT connection whose client left ends
only with the agent's next output. PageRests excepts a stream
that ended; a request or an answer that was taken for a part; a page that waits for parts
of a file of no bytes, of one the worker could not open or write, or after an error in their
place; an agent that waits for parts of an upload that could not be read, or of one
that it took from what an earlier upload left; and two lists that ask for each other.

## What the violations show

- `stale`: send_task removes the registered sender after its own send failed,
  without comparing channels as the end of request_task does. With an agent that
  reconnected in between, the new stream stays open and unregistered; tasks are
  stored or refused until it ends.
- `cron_again`: a command that runs past the next occurrence, with another
  execution recorded meanwhile, moves last_executed_at back when it reports, and
  the occurrences in between are dispatched again.
- `io_absence`: the agent takes its half of a stream between the look at the
  receiver and the creation of the notification future. notify_waiters wakes
  nobody, and the handler closes a working stream after eight seconds.
- `alert_offline`: alert_check asks to keep one point while an offline rule has
  too few of them, and the window is cut to that. An offline rule of three or
  more looks, with no longer rule beside it, never fires.

## Observations

These are exceptions that properties which hold name; no run is about them alone.

In the dashboard and the agents:

- OwnAnswer: an ApplyConfig task stored by an earlier process can be replayed into a
  call of this process with the same id.
- EffectsEnd: a reader that waits for a slot in the channel of its own agent, while
  that agent waits for a slot among the results, waits until the stream ends.
- ToldWhatIsSo: an incident of an old transfer cycle is not resolved, and actions
  dropped on an error are not repeated.
- A call that looked its sender up before the deletion of its server may store a row
  after it, which stays (PersistUnsent after EvictSender; `main.rs` 1152, 1170).
- RegistryFollowsStore: a report that wrote the row before the server was deleted and
  takes the lock of the records after RemoveCached puts the deleted server back into
  memory, and CacheReport keeps the id of a record that is there, so that it stays until a
  restart. The test `remove_cached_servers_clears_server_and_task_sender`
  (`main.rs` 1922) checks the function alone. And a move changes the row only: the
  record in memory still answers for the former owner.
- BlocksHold: an IPv4 address that was blocked in its IPv6 spelling stays blocked in memory
  when it is unblocked from the page of blocked addresses, which knows one spelling.
  BlockOnlineIps takes a visitor off the list at once; when the block is lifted before
  the visitor's next frame, the visit goes on unlisted.
- UpdatesAlone: the look after the wait (`updater.rs` 243) takes a lock that is new for
  the one it waited for, and the guard of an update that was robbed removes the file of
  another.
- A zero-byte download never completes in the page (the agent sends a header and no
  part), though the agent's test at `main.rs` 1618 has it as a case of its own.
- A reload of the agent leaves run_session without ending its periodic worker
  (`main.rs` 332).
- A dropped HTTP handler leaves its waiter in the map (`http.rs` 2205).

In the admin pages:

- The refresh of the token: nz-jwt is HttpOnly (`http.rs` 4251), so that document.cookie is
  usually empty and `api.ts`, whose comment at 49 says "auto refresh token", asks for none.
  Were it readable, the page would begin to ask after an hour, when a token of the default
  lifetime (`main.rs` 446) has run out. No property speaks of sessions that last.
- BatchesHit: an answer that inserts or removes rows moves the ticks to other entries; a
  batch then hits those.
- EditsAreKept: a submission sends all fields as the page had them, over changes made
  elsewhere; news in the list close open dialogs and drop the draft, and so do the groups
  fetched beside a page that was just opened (`routes/server.tsx` 44).
- StoredIsMeant: the change of the editor drops what the fields do not know, and what
  was entered in the editor that is left. `public-note.ts` 8 says that all fields
  may be empty, while 84 refuses an empty IPv4. A create dialog of alert rules that is opened again while the
  list is awaited (`alert-rule.tsx` 161 to 163) still holds the last rules and sends them.
- EditorsKeep: after a deletion the selects show the types of other rules. The comment
  at `alert-rule.tsx` 601 to 608 speaks of rows and text that are in step; the reset after a
  submission puts the text of the rules from before beside rows that were changed.
- SentIsWhatArrives: while a download waits for parts, any message is taken for one; parts
  that wait for the worker may overtake each other; a list request between the header and
  the parts of an upload, or another upload's header, is taken for a part by the agent.
  What an upload leaves behind when the agent refused it starts transfers by its first byte
  (agent `main.rs` 1110). PageRests: a file that the browser cannot read or
  write is only logged, and "Uploading..." or "Downloading..." stays; two
  lists that cross ask for each other without end.

## Proofs

Eight modules of theorems. Each theorem assumes what the assumptions of the modules
name: constants that are distinct, bounds that are numbers, a channel that holds
something. Bounds like MaxId, MaxCalls or MaxReports are arbitrary, so that nothing is
bounded. Every safety property of a passing run is stated by a theorem. No invariant
worth stating was inductive as it stood; TLC checked each strengthening (as IInv,
CronIInv, or in the type invariant of a composition) before it was proved. The proofs have
one lemma per group of actions, one step per action and, where an action touches
several conjuncts, one per conjunct. What each strengthening needed:

- `TaskDispatchProofs` (TypeCorrect, Inductive, TasksAreRouted, StoredTasksAreKept,
  RowsComeInOrder, DeliveryIsImplemented). IInv adds why Routed and StoredIsKept
  hold. RowsNamed: an id names its row for good, in the table and in every copy a stream
  works from (AUTOINCREMENT never gives an id twice), so that a delete by id removes
  the row that was yielded, and the row of a yielded task is `offered`.
  ServersAgree: a registered sender, a clone in a call and a stream agree on the
  server. NothingLeftBehind: a stream that is closed, or not open yet, has no task,
  row or copy of its slot's last use, and what travels belongs to a call that has ended.
  ReplayInOrder is inductive beside IInv: a stream that begins a replay has nothing on its
  wire, and its rows have ids of their own. DeliveryIsImplemented is the refinement:
  initial states map to initial states, and each action to the action of `TaskDelivery`
  it is meant to be, or to nothing. It needs TravelsOnce beside IInv: an accepted task is in one place of one
  channel or wire, so that what leaves that place leaves `flight`. Rows' tasks are
  not: two streams may replay the same row.
- `ResultsProofs`, calls (AnswersAreOfTheCall, NoWaiterIsLeft). RpcIInv adds IdsAreUnique
  (no two calls of this process share an id), TravelsForThisProcess (what travels or
  comes back is of a call this process made, or was stored) and ValuesAreOwn (a oneshot
  holds the value of its own task, or of a stored one of an earlier process with the
  same id).
- `ResultsProofs`, services (WorkFollowsStatus; ResultsAreTyped for both). MonitorIInv adds
  StatusIsOfSamples (the last status is that of the samples) and WorkFits (above). The
  reader takes its work from a list made under the lock; what makes it right is that
  no second reader has a list for the same service, and that a status that
  changes makes what was told "due" in the same step.
- `CronSchedulerProofs` (CronInvariant, CronsFireOnce). CronIInv adds that what was
  queued, stored or running stands for occurrences of the past (RunsArePast), and that
  an occurrence that was dispatched is covered by last_executed_at, about to be, or
  named as unwritten (FiredIsRecorded).
- `PartsProofs` (RegistryIsOfTheStore, BlocksAlwaysHold, UpdatesAreAlone, PartsAreTyped).
  RegistryIInv adds IdsAreGivenOnce (an id that was given is that of the row or is being
  removed), CallsHoldCurrent (what an RPC holds was in the table when it got it, and a
  removal that passes it leaves its mark) and OwnersAreKnown. OnlineIInv adds
  LateIsBlocked (a frame that comes late is followed by the look that ends the visit)
  and VisitsAreWhole. LockIInv adds that an update has its file unless it was robbed,
  and that who finds a lock stale has one of the reasons named.
- `AlertEngineProofs` (ToldIsSo, NewsStaysNew, StatusIsOfThisCycle, WindowSuffices).
  NewsIsPending: what was not told yet is one action for the pair, of what the state
  says. StatusHasItsCycle: the status that is kept has the time of its cycle, which
  is not ahead of the clock. WindowSuffices needs WindowsEndAlike: the window
  and all readings end alike, as far back as a metric rule asks for; then lemmas about
  `alert_check`'s operators show that equal ends give equal verdicts, and that the cut
  keeps what the next check asks for. It is stated under OfflineRulesAreShort: a rule list
  whose offline rules ask for more than two points and are not covered by a metric rule is
  the code's error that run `alert_offline` shows, and there the theorem is false.
- `AlertsProofs` (ResultsMatch, TrafficCounted, AlertsAreTyped). TriggerIInv adds
  ResultsComeOnce, ReservationsAreOpen (the reservations of a slot to which nothing else
  happened are those of its dispatches without a result) and RecordedOnce. TrafficIInv
  adds ReportsAreInOrder (between two reports the counters grew by no more than
  was transferred, whichever is read first) and TableIsBehind (the table lacks what the
  newest report is above the snapshot, or above the one about to be written).
- `AdminProofs` (ProfileFollowsTheCookie, EditorsKeepTheirs,
  DialogsAreAboutRows, EditsStay, BatchesHitTheirRows, StoredAsMeant, PagesAreTyped).
  SessionIInv adds SentWithTheCookie (requests under way carry the present cookie's user
  unless `crossed`) and CallsAreWhole. DialogIInv adds that a draft was typed or loaded, and
  that an untouched one is what the page was given (StartIsOfThePage,
  SubmissionsAreSendable); cards that the groups mount again are loaded from the page.
  TableIInv adds AskedIsTicked (a confirmation about ticked
  rows stands over ticked rows), TicksAreMeant and GoneStaysAway (what was taken out
  comes back neither from the list nor by an answer that is under way). NoteIInv adds
  that nothing but a lossy change of mode parts what is shown from what was meant, RulesIInv
  that a closed dialog has no selects and that, once no list is awaited, an untouched one
  that creates has nothing to send. EditsStay,
  BatchesHitTheirRows and StoredAsMeant are action properties.
  The links of a paged list are proved for any number of pages.
- `StreamsProofs` (AnswersAlwaysHold, WhatIsSentArrives, StreamsAreTyped). StreamIInv adds
  BridgedAreAnswered: a bridge is on a stream whose id was answered, and only an agent
  that took its half wakes a handler. FilesIInv adds, for uploads, UploadsFollow:
  behind a header on the way are its parts, and before them the rest of what the agent is
  receiving. For downloads it adds InTurn: the page and its worker take turns (no file, a
  header, a handle asked for, parts written, a file told, or one that is broken), and between them the parts
  are 1, 2, ... of the file; and DownloadsFollow: parts on the line are the next
  ones owed where they stand, one task has the rest, and where none has it an error is on
  its way (GapsAreTold), which is why a page that waits is told. TerminalIInv adds
  SocketCarries (nothing is sent but on an open socket, nothing is queued while there is one),
  and has the keys in order along what is queued and sent.

Recursive functions (the debts along a line, the numbers without a given one) are reasoned
about by least counterexample: the well-founded order of the naturals gives a least number
that fails, and the step to it is proved. Where that needs no operator as a
parameter, as here, induction over data is within reach.

Only model-checked: liveness (CallsReturn, AcceptedGoesOut, RowsLeave, EffectsEnd,
DueIsServed, StreamsEnd, PageRests, SizeIsTold), since fairness and ENABLED are beyond the
prover.

## Not modelled

- Notifications, dynamic DNS: rendering and requests with retries; a failure leaves a
  row that nothing but a page reads.
- References and permissions, settings and HTTP CRUD: checks and statements of one
  request under one lock, which unit tests reach.
- Agent session: what the dashboard sees of it is in `TaskDispatch`, `ServerRegistry` and
  `TransferAccounting`; the workers of a reload are not.
- Agent monitoring and tools, frontend serving and synchronisation, protocol types:
  readings of the operating system, files, generated code.
- Admin layout and data (navigation, translations, generated types, wrappers of one
  request each): no state beyond what the other parts hold.
- Of modelled parts: creating and deleting crons while they run; latency and certificate
  notices of services and commands that fan out to other servers; the second websocket of a
  stream, which returns without a trace; keepalives; the form of the own profile;
  what a shell prints; how long a block of failed logins lasts.

## Plan

1. Refinements: `ServiceMonitor` and `ConfigRpc` against short statements of what they
   promise (one notification per change of status; one answer per call).
2. `CronScheduler` with crons that are changed and deleted while they run.
3. The agent's session: workers, reload, and the result queue shared with `ServiceMonitor`.
4. `ServiceMonitor` with certificates and latency, and notifications with dead letters.
