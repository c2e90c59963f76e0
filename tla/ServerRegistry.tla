---------------------------- MODULE ServerRegistry ----------------------------
(***************************************************************************)
(* An agent's server in the table of servers and in the map of records the *)
(* dashboard keeps in memory, and the stream of tasks registered for it.   *)
(*                                                                         *)
(* Every RPC of an agent takes the store's lock first and the map's lock   *)
(* afterwards; deleting a server does the same, in three sections.  An     *)
(* action is one section.  One agent is enough: agents share no record.    *)
(***************************************************************************)
EXTENDS Naturals

CONSTANTS
  User,    \* users with an agent secret of their own
  Global,  \* user_id of an agent with the global secret, 0 in the code
  Call,    \* RPCs in flight at a time
  MaxId,   \* bound of last_id: servers ever registered under the agent's uuid
  None

ASSUME RegistryAssumption ==
  /\ Global \notin User /\ None \notin User \union {Global}
  /\ None \notin Call /\ None \notin [id : 1..MaxId, user : User \union {Global}]
  /\ MaxId \in Nat \ {0}

VARIABLES
  row,      \* the agent's row of the servers table, or None; persisted
  last_id,  \* AUTOINCREMENT of the table; persisted
  cached,   \* servers[uuid], the record in memory, or None
  senders,  \* id -> the call whose stream is registered in task_senders
  call,     \* call -> where its RPC stands
  agent,    \* call -> the user_id its agent was authenticated with
  record,   \* call -> the record it holds
  removal,  \* id -> where batch_delete_server stands on it
  owners,   \* history: whose the server has ever been
  missed    \* history: ids a call held while they were being removed

vars == <<row, last_id, cached, senders, call, agent, record, removal, owners, missed>>

Id == 1..MaxId
Server == [id : Id, user : User \union {Global}]

CallState == {"idle", "reported", "located", "changed", "unknown",
              "insert", "entry", "admitted", "serving"}
Removal   == {"no", "store", "senders", "done", "dropped"}

Init ==
  /\ row = None
  /\ last_id = 0
  /\ cached = None
  /\ senders = [i \in Id |-> None]
  /\ call = [c \in Call |-> "idle"]
  /\ agent = [c \in Call |-> None]
  /\ record = [c \in Call |-> None]
  /\ removal = [i \in Id |-> "no"]
  /\ owners = {}
  /\ missed = {}

Begin(c, u, s, r) ==
  /\ call[c] = "idle"
  /\ call' = [call EXCEPT ![c] = s]
  /\ agent' = [agent EXCEPT ![c] = u]
  /\ record' = [record EXCEPT ![c] = r]

Continue(c, s, r) ==
  /\ call' = [call EXCEPT ![c] = s]
  /\ record' = [record EXCEPT ![c] = r]
  /\ UNCHANGED agent

End(c) ==
  /\ call' = [call EXCEPT ![c] = "idle"]
  /\ agent' = [agent EXCEPT ![c] = None]
  /\ record' = [record EXCEPT ![c] = None]

-----------------------------------------------------------------------------
(* The store's half of an RPC: ensure_server_for_user *)

\* The uuid is a new one, or the agent's secret is of the server's owner.
Granted(u) == row # None => u = Global \/ row.user = u

\* The row is found, or inserted for the agent's user.
EnsureRow(u) ==
  /\ Granted(u)
  /\ row = None => last_id < MaxId
  /\ row' = IF row = None THEN [id |-> last_id + 1, user |-> u] ELSE row
  /\ last_id' = row'.id
  /\ owners' = owners \union {row'.user}

\* report_system_info(2), every message of report_system_state, report_geo_ip: the
\* row is written and read back.  One that is refused ends there.
Report(c, u) ==
  /\ EnsureRow(u)
  /\ \E s \in {"reported", "located"} : Begin(c, u, s, row')
  /\ UNCHANGED <<cached, senders, removal, missed>>

\* update_host and update_state: a missing record is inserted; of one that is
\* there everything but the id is replaced.
CacheReport(c) ==
  /\ call[c] = "reported"
  /\ cached' = IF cached = None THEN record[c] ELSE [cached EXCEPT !.user = record[c].user]
  /\ End(c)
  /\ UNCHANGED <<row, last_id, senders, removal, owners, missed>>

\* report_geo_ip: a missing record stays missing.
CacheLocation(c) ==
  /\ call[c] = "located"
  /\ cached' = IF cached = None THEN None ELSE [cached EXCEPT !.user = record[c].user]
  /\ End(c)
  /\ UNCHANGED <<row, last_id, senders, removal, owners, missed>>

-----------------------------------------------------------------------------
(* ensure_server and request_task *)

\* Mutant of LookUp: whoever has the uuid gets the record.
LookUpUuid(c, u) ==
  /\ IF cached = None THEN Begin(c, u, "unknown", None) ELSE Begin(c, u, "admitted", cached)
  /\ UNCHANGED <<row, last_id, cached, senders, removal, owners, missed>>

\* The record in memory answers for its owner and for the global secret.
LookUp(c, u) ==
  /\ IF cached = None THEN Begin(c, u, "unknown", None)
     ELSE IF u = Global \/ cached.user = u THEN Begin(c, u, "admitted", cached)
     ELSE Begin(c, u, "changed", None)
  /\ UNCHANGED <<row, last_id, cached, senders, removal, owners, missed>>

\* The table answers for the others, or refuses them.
AskStore(c) ==
  /\ call[c] \in {"changed", "unknown"}
  /\ \/ /\ EnsureRow(agent[c])
        /\ Continue(c, IF call[c] = "changed" THEN "insert" ELSE "entry", row')
     \/ /\ ~Granted(agent[c])
        /\ End(c)
        /\ UNCHANGED <<row, last_id, owners>>
  /\ UNCHANGED <<cached, senders, removal, missed>>

\* servers.insert for a changed owner, entry().or_insert_with for a new server.
CacheServer(c) ==
  /\ call[c] \in {"insert", "entry"}
  /\ cached' = IF call[c] = "insert" \/ cached = None THEN record[c] ELSE cached
  /\ Continue(c, "admitted", cached')
  /\ UNCHANGED <<row, last_id, senders, removal, owners, missed>>

\* task_senders.insert(server.id, tx); an earlier stream's sender is dropped.
RegisterSender(c) ==
  /\ call[c] = "admitted"
  /\ senders' = [senders EXCEPT ![record[c].id] = c]
  /\ Continue(c, "serving", record[c])
  /\ UNCHANGED <<row, last_id, cached, removal, owners, missed>>

\* An RPC is over: report_system_state has no use for the record, a client left, a
\* stream of tasks ended; the stream takes its own sender out.
Finish(c) ==
  /\ call[c] # "idle"
  /\ senders' = [i \in Id |-> IF senders[i] = c THEN None ELSE senders[i]]
  /\ End(c)
  /\ UNCHANGED <<row, last_id, cached, removal, owners, missed>>

-----------------------------------------------------------------------------
(* The administrator *)

\* delete_servers, under the store's lock.
DeleteRow ==
  /\ row # None
  /\ row' = None
  /\ removal' = [removal EXCEPT ![row.id] = "store"]
  /\ UNCHANGED <<last_id, cached, senders, call, agent, record, owners, missed>>

Holding(i, states) == \E c \in Call : call[c] \in states /\ record[c].id = i

\* servers.retain: the record goes.  A call that read the row before puts it back.
RemoveCached(i) ==
  /\ removal[i] = "store"
  /\ cached' = IF cached # None /\ cached.id = i THEN None ELSE cached
  /\ removal' = [removal EXCEPT ![i] = "senders"]
  /\ missed' = IF Holding(i, {"reported", "insert", "entry"}) THEN missed \union {i} ELSE missed
  /\ UNCHANGED <<row, last_id, senders, call, agent, record, owners>>

\* Mutant of RemoveSender: the stream is left alone.
RemoveNoSender(i) ==
  /\ removal[i] = "senders"
  /\ removal' = [removal EXCEPT ![i] = "done"]
  /\ UNCHANGED <<row, last_id, cached, senders, call, agent, record, owners, missed>>

\* task_senders.remove, under a lock of its own.
RemoveSender(i) ==
  /\ removal[i] = "senders"
  /\ senders' = [senders EXCEPT ![i] = None]
  /\ removal' = [removal EXCEPT ![i] = "done"]
  /\ missed' = IF Holding(i, {"admitted"}) THEN missed \union {i} ELSE missed
  /\ UNCHANGED <<row, last_id, cached, call, agent, record, owners>>

\* The administrator's client leaves while the handler waits for either lock.
DropRemoval(i) ==
  /\ removal[i] \in {"store", "senders"}
  /\ removal' = [removal EXCEPT ![i] = "dropped"]
  /\ missed' = missed \union {i}
  /\ UNCHANGED <<row, last_id, cached, senders, call, agent, record, owners>>

\* batch_move_server, move_servers: the row only.
Move(u) ==
  /\ row # None /\ row.user # u
  /\ row' = [row EXCEPT !.user = u]
  /\ owners' = owners \union {u}
  /\ UNCHANGED <<last_id, cached, senders, call, agent, record, removal, missed>>

\* The process ends and starts with an empty map.
Restart ==
  /\ cached' = None
  /\ senders' = [i \in Id |-> None]
  /\ call' = [c \in Call |-> "idle"]
  /\ agent' = [c \in Call |-> None]
  /\ record' = [c \in Call |-> None]
  /\ removal' = [i \in Id |-> IF removal[i] = "no" THEN "no" ELSE "done"]
  /\ UNCHANGED <<row, last_id, owners, missed>>

Next ==
  \/ \E c \in Call, u \in User \union {Global} : Report(c, u) \/ LookUp(c, u)
  \/ \E c \in Call : CacheReport(c) \/ CacheLocation(c) \/ AskStore(c) \/ CacheServer(c)
                     \/ RegisterSender(c) \/ Finish(c)
  \/ DeleteRow
  \/ \E i \in Id : RemoveCached(i) \/ RemoveSender(i) \/ DropRemoval(i)
  \/ \E u \in User : Move(u)
  \/ Restart

Spec == Init /\ [][Next]_vars

-----------------------------------------------------------------------------
TypeOK ==
  /\ row \in Server \union {None}
  /\ last_id \in 0..MaxId
  /\ cached \in Server \union {None}
  /\ senders \in [Id -> Call \union {None}]
  /\ call \in [Call -> CallState]
  /\ agent \in [Call -> User \union {Global, None}]
  /\ record \in [Call -> Server \union {None}]
  /\ removal \in [Id -> Removal]
  /\ owners \subseteq User \union {Global}
  /\ missed \subseteq Id

Current(i) == row # None /\ row.id = i

Excused(i, stages) == removal[i] \in stages \/ i \in missed

\* The record in memory is the server of the row, while it is being removed and
\* unless a call held it across its removal (then it stays until a restart: no
\* report replaces an id).
CachedIdIsCurrent ==
  cached # None => Current(cached.id) \/ Excused(cached.id, {"store"})

\* So is the server a stream of tasks is registered for: tasks for the server in the
\* table reach the agent that reports as it.
StreamsServeCurrent ==
  \A i \in Id : senders[i] # None => Current(i) \/ Excused(i, {"store", "senders"})

\* A stream is served to the global secret or to a user whose the server is or was: a
\* record that lags behind a move lets the former owner in, nobody else.
OwnersAreServed ==
  \A c \in Call : call[c] = "serving" => agent[c] = Global \/ agent[c] \in owners

\* The record in memory, the stream registered and whom it serves follow the table,
\* with the exceptions named above and no others.
RegistryFollowsStore == CachedIdIsCurrent /\ StreamsServeCurrent /\ OwnersAreServed

\* Why they hold.  Ids are given once: an id that was given is that of the row or is being
\* removed.  What a call holds was in the table when it got it, and a removal that passes
\* a call by leaves its mark; a call past the check has an owner's secret.
IdsAreGivenOnce ==
  /\ row # None => row.id = last_id
  /\ \A i \in Id : removal[i] # "no" <=> (i <= last_id /\ ~Current(i))

CallsHoldCurrent ==
  \A c \in Call :
    /\ call[c] # "idle" => agent[c] # None
    /\ call[c] \notin {"idle", "changed", "unknown"} => record[c] # None
    /\ call[c] \in {"reported", "insert", "entry"} =>
         Current(record[c].id) \/ Excused(record[c].id, {"store"})
    /\ call[c] = "admitted" =>
         Current(record[c].id) \/ Excused(record[c].id, {"store", "senders"})

OwnersAreKnown ==
  /\ row # None => row.user \in owners
  /\ cached # None => cached.user \in owners
  /\ \A c \in Call : record[c] # None => record[c].user \in owners
  /\ \A c \in Call : call[c] \in {"insert", "entry", "admitted"} =>
       agent[c] = Global \/ agent[c] \in owners

RegistryIInv ==
  TypeOK /\ RegistryFollowsStore /\ IdsAreGivenOnce /\ CallsHoldCurrent /\ OwnersAreKnown
=============================================================================
