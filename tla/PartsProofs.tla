------------------------------ MODULE PartsProofs ------------------------------
(***************************************************************************)
(* Proofs about ServerRegistry, OnlineUsers and UpdateLock, for any users, *)
(* calls, ids, addresses, visits, administrators and processes.            *)
(*                                                                         *)
(* ServerRegistry: records and streams in memory are of the server in the  *)
(* table, but for one that is being removed or was held while it was, and  *)
(* streams serve the owners only.  OnlineUsers: a block ends a visit       *)
(* within a frame, and the table and the memory agree but for the          *)
(* exceptions the module names.  UpdateLock: two updates run at the same   *)
(* time only when one was robbed of its lock, for a reason it names.       *)
(***************************************************************************)
EXTENDS MCParts, TLAPS

USE RegistryAssumption

-----------------------------------------------------------------------------
(* ServerRegistry *)

\* At start there are no records, and no RPC holds one.
LEMMA RegistryInit == Init => RegistryIInv
BY DEF Init, RegistryIInv, TypeOK, RegistryFollowsStore, CachedIdIsCurrent, StreamsServeCurrent,
       OwnersAreServed, IdsAreGivenOnce, CallsHoldCurrent, OwnersAreKnown, Current, CallState,
       Removal, Id

-----------------------------------------------------------------------------
(* Calls, then the administrator *)

\* A new id is one more than all that were given; one that is refused ends before this.
LEMMA ReportStep ==
  ASSUME RegistryIInv, NEW c \in Call, NEW u \in User \union {Global}, Report(c, u)
  PROVE  RegistryIInv'
<1> USE DEF RegistryIInv, RegistryFollowsStore, Current, Excused, Id, Report, EnsureRow,
     Granted, Begin
<1>1. TypeOK'
  BY DEF TypeOK, Server, CallState
<1>2. IdsAreGivenOnce'
  BY DEF IdsAreGivenOnce, TypeOK
<1>3. CachedIdIsCurrent'
  BY DEF CachedIdIsCurrent
<1>4. StreamsServeCurrent'
  BY DEF StreamsServeCurrent
<1>5. OwnersAreServed'
  BY DEF OwnersAreServed
<1>6. CallsHoldCurrent'
  BY DEF CallsHoldCurrent, TypeOK
<1>7. OwnersAreKnown'
  BY DEF OwnersAreKnown
<1> QED BY <1>1, <1>2, <1>3, <1>4, <1>5, <1>6, <1>7

\* The record is that of the row the call wrote, unless a removal passed it by.
LEMMA CacheReportStep ==
  ASSUME RegistryIInv, NEW c \in Call, CacheReport(c)
  PROVE  RegistryIInv'
<1> USE DEF RegistryIInv, RegistryFollowsStore, Current, Excused, Id, CacheReport, End
<1>1. TypeOK'
  BY DEF TypeOK, CallsHoldCurrent, Server, CallState
<1>2. IdsAreGivenOnce' /\ StreamsServeCurrent'
  BY DEF IdsAreGivenOnce, StreamsServeCurrent
<1>3. CachedIdIsCurrent'
  BY DEF CachedIdIsCurrent, CallsHoldCurrent
<1>4. OwnersAreServed'
  BY DEF OwnersAreServed
<1>5. CallsHoldCurrent'
  BY DEF CallsHoldCurrent, TypeOK
<1>6. OwnersAreKnown'
  BY DEF OwnersAreKnown, CallsHoldCurrent
<1> QED BY <1>1, <1>2, <1>3, <1>4, <1>5, <1>6

\* The owner is that of the row; the id stays, and nothing is inserted.
LEMMA CacheLocationStep ==
  ASSUME RegistryIInv, NEW c \in Call, CacheLocation(c)
  PROVE  RegistryIInv'
<1> USE DEF RegistryIInv, RegistryFollowsStore, Current, Excused, Id, CacheLocation, End
<1>1. TypeOK'
  BY DEF TypeOK, CallsHoldCurrent, Server, CallState
<1>2. IdsAreGivenOnce' /\ StreamsServeCurrent'
  BY DEF IdsAreGivenOnce, StreamsServeCurrent
<1>3. CachedIdIsCurrent'
  BY DEF CachedIdIsCurrent
<1>4. OwnersAreServed'
  BY DEF OwnersAreServed
<1>5. CallsHoldCurrent'
  BY DEF CallsHoldCurrent, TypeOK
<1>6. OwnersAreKnown'
  BY DEF OwnersAreKnown, CallsHoldCurrent
<1> QED BY <1>1, <1>2, <1>3, <1>4, <1>5, <1>6

\* The call gets the record for an owner's secret and for the global one, or none.
LEMMA LookUpStep ==
  ASSUME RegistryIInv, NEW c \in Call, NEW u \in User \union {Global}, LookUp(c, u)
  PROVE  RegistryIInv'
<1> USE DEF RegistryIInv, RegistryFollowsStore, Current, Excused, Id
<1>0. PICK s \in {"unknown", "changed", "admitted"}, r \in Server \union {None} :
        /\ call[c] = "idle" /\ call' = [call EXCEPT ![c] = s]
        /\ agent' = [agent EXCEPT ![c] = u] /\ record' = [record EXCEPT ![c] = r]
        /\ s = "admitted" => r = cached /\ cached # None /\ (u = Global \/ cached.user = u)
        /\ s # "admitted" => r = None
        /\ UNCHANGED <<row, last_id, cached, senders, removal, owners, missed>>
  <2>1. CASE cached = None
    BY <2>1 DEF LookUp, Begin
  <2>2. CASE cached # None /\ (u = Global \/ cached.user = u)
    <3>1. cached \in Server
      BY <2>2 DEF TypeOK
    <3>2. /\ Begin(c, u, "admitted", cached)
          /\ UNCHANGED <<row, last_id, cached, senders, removal, owners, missed>>
      BY <2>2 DEF LookUp
    <3> QED BY <2>2, <3>1, <3>2 DEF Begin
  <2>3. CASE cached # None /\ ~(u = Global \/ cached.user = u)
    <3>2. /\ Begin(c, u, "changed", None)
          /\ UNCHANGED <<row, last_id, cached, senders, removal, owners, missed>>
      BY <2>3 DEF LookUp
    <3> QED BY <2>3, <3>2 DEF Begin
  <2> QED BY <2>1, <2>2, <2>3
<1>1. TypeOK'
  BY <1>0 DEF TypeOK, CallState
<1>2. IdsAreGivenOnce' /\ CachedIdIsCurrent' /\ StreamsServeCurrent'
  BY <1>0 DEF IdsAreGivenOnce, CachedIdIsCurrent, StreamsServeCurrent
<1>3. CallsHoldCurrent'
  BY <1>0 DEF CallsHoldCurrent, CachedIdIsCurrent, TypeOK
<1>4. OwnersAreKnown' /\ OwnersAreServed'
  BY <1>0 DEF OwnersAreKnown, OwnersAreServed, TypeOK
<1> QED BY <1>1, <1>2, <1>3, <1>4

\* The row the call gets is current; the id of a new one was never given.
LEMMA AskStoreStep ==
  ASSUME RegistryIInv, NEW c \in Call, AskStore(c)
  PROVE  RegistryIInv'
<1> USE DEF RegistryIInv, RegistryFollowsStore, Current, Excused, Id
<1>1. CASE ~Granted(agent[c])
  <2>0. End(c) /\ UNCHANGED <<row, last_id, cached, senders, removal, owners, missed>>
    BY <1>1 DEF AskStore, EnsureRow
  <2> QED BY <2>0 DEF End, IdsAreGivenOnce, CachedIdIsCurrent, StreamsServeCurrent,
       OwnersAreServed, CallsHoldCurrent, OwnersAreKnown, TypeOK, CallState
<1>2. CASE EnsureRow(agent[c])
  <2>0. /\ call[c] \in {"changed", "unknown"} /\ agent[c] \in User \union {Global}
        /\ Continue(c, IF call[c] = "changed" THEN "insert" ELSE "entry", row')
        /\ UNCHANGED <<cached, senders, removal, missed>>
    BY <1>2 DEF AskStore, CallsHoldCurrent, TypeOK, EnsureRow
  <2>1. /\ row' \in Server /\ row' # None
        /\ last_id' = row'.id /\ owners' = owners \union {row'.user}
        /\ \/ row # None /\ row' = row /\ last_id' = last_id
           \/ row = None /\ row'.id = last_id + 1 /\ last_id' = last_id + 1
        /\ agent[c] = Global \/ agent[c] = row'.user
    BY <1>2, <2>0 DEF EnsureRow, Granted, IdsAreGivenOnce, TypeOK, Server
  <2>2. TypeOK'
    BY <2>0, <2>1 DEF Continue, TypeOK, CallState, Server
  <2>3. IdsAreGivenOnce'
    BY <2>0, <2>1 DEF IdsAreGivenOnce, TypeOK, Server
  <2>c. \A i \in Id : Current(i) => Current(i)'
    BY <2>1
  <2>4. CachedIdIsCurrent' /\ StreamsServeCurrent'
    BY <2>0, <2>1, <2>c DEF CachedIdIsCurrent, StreamsServeCurrent, TypeOK, Server
  <2>5. CallsHoldCurrent'
    BY <2>0, <2>1, <2>c DEF Continue, CallsHoldCurrent, TypeOK, Server
  <2>6. OwnersAreKnown' /\ OwnersAreServed'
    BY <2>0, <2>1 DEF Continue, OwnersAreKnown, OwnersAreServed, TypeOK, Server
  <2> QED BY <2>2, <2>3, <2>4, <2>5, <2>6
<1> QED BY <1>1, <1>2 DEF AskStore

\* So is the record that is inserted, or found there.
LEMMA CacheServerStep ==
  ASSUME RegistryIInv, NEW c \in Call, CacheServer(c)
  PROVE  RegistryIInv'
<1> USE DEF RegistryIInv, RegistryFollowsStore, Current, Excused, Id, CacheServer, Continue
<1>1. TypeOK'
  BY DEF TypeOK, CallState
<1>2. IdsAreGivenOnce' /\ StreamsServeCurrent'
  BY DEF IdsAreGivenOnce, StreamsServeCurrent
<1>3. CachedIdIsCurrent'
  BY DEF CachedIdIsCurrent, CallsHoldCurrent
<1>4. OwnersAreServed'
  BY DEF OwnersAreServed
<1>5. CallsHoldCurrent'
  BY DEF CallsHoldCurrent, CachedIdIsCurrent
<1>6. OwnersAreKnown'
  BY DEF OwnersAreKnown
<1> QED BY <1>1, <1>2, <1>3, <1>4, <1>5, <1>6

\* The stream is registered under an id the check of the call found.
LEMMA RegisterSenderStep ==
  ASSUME RegistryIInv, NEW c \in Call, RegisterSender(c)
  PROVE  RegistryIInv'
<1> USE DEF RegistryIInv, RegistryFollowsStore, Current, Excused, Id, RegisterSender,
     Continue
<1>1. TypeOK'
  BY DEF TypeOK, CallState
<1>2. IdsAreGivenOnce' /\ CachedIdIsCurrent'
  BY DEF IdsAreGivenOnce, CachedIdIsCurrent
<1>3. StreamsServeCurrent'
  BY DEF StreamsServeCurrent, CallsHoldCurrent
<1>4. OwnersAreServed'
  BY DEF OwnersAreServed, OwnersAreKnown
<1>5. CallsHoldCurrent'
  BY DEF CallsHoldCurrent
<1>6. OwnersAreKnown'
  BY DEF OwnersAreKnown
<1> QED BY <1>1, <1>2, <1>3, <1>4, <1>5, <1>6

\* A call that ends takes its sender with it.
LEMMA FinishStep ==
  ASSUME RegistryIInv, NEW c \in Call, Finish(c)
  PROVE  RegistryIInv'
<1> USE DEF RegistryIInv, RegistryFollowsStore, Current, Excused, Id, Finish, End
<1>1. TypeOK'
  BY DEF TypeOK, CallState
<1>2. IdsAreGivenOnce' /\ CachedIdIsCurrent'
  BY DEF IdsAreGivenOnce, CachedIdIsCurrent
<1>3. StreamsServeCurrent'
  BY DEF StreamsServeCurrent
<1>4. OwnersAreServed'
  BY DEF OwnersAreServed, TypeOK
<1>5. CallsHoldCurrent'
  BY DEF CallsHoldCurrent, TypeOK
<1>6. OwnersAreKnown'
  BY DEF OwnersAreKnown, TypeOK
<1> QED BY <1>1, <1>2, <1>3, <1>4, <1>5, <1>6

\* The id that is no longer current is being removed from here on.
LEMMA DeleteRowStep ==
  ASSUME RegistryIInv, DeleteRow
  PROVE  RegistryIInv'
<1> USE DEF RegistryIInv, RegistryFollowsStore, Current, Excused, Id, DeleteRow
<1>1. TypeOK'
  BY DEF TypeOK, Removal
<1>2. OwnersAreServed'
  BY DEF OwnersAreServed
<1>3. IdsAreGivenOnce'
  BY DEF IdsAreGivenOnce, TypeOK
<1>4. CachedIdIsCurrent'
  BY DEF CachedIdIsCurrent, TypeOK, Server
<1>5. StreamsServeCurrent'
  BY DEF StreamsServeCurrent, TypeOK
<1>6. CallsHoldCurrent'
  BY DEF CallsHoldCurrent, TypeOK, Server
<1>7. OwnersAreKnown'
  BY DEF OwnersAreKnown
<1> QED BY <1>1, <1>2, <1>3, <1>4, <1>5, <1>6, <1>7

\* Calls that still hold the id are marked.
LEMMA RemoveCachedStep ==
  ASSUME RegistryIInv, NEW i \in Id, RemoveCached(i)
  PROVE  RegistryIInv'
<1> USE DEF RegistryIInv, RegistryFollowsStore, Current, Excused, Id, RemoveCached, Holding
<1>1. TypeOK'
  BY DEF TypeOK, Removal
<1>2. OwnersAreServed'
  BY DEF OwnersAreServed
<1>3. IdsAreGivenOnce'
  BY DEF IdsAreGivenOnce
<1>4. CachedIdIsCurrent'
  BY DEF CachedIdIsCurrent
<1>5. StreamsServeCurrent'
  BY DEF StreamsServeCurrent
<1>6. CallsHoldCurrent'
  BY DEF CallsHoldCurrent
<1>7. OwnersAreKnown'
  BY DEF OwnersAreKnown
<1> QED BY <1>1, <1>2, <1>3, <1>4, <1>5, <1>6, <1>7

\* The sender goes with the id; a call that will register it again is marked.
LEMMA RemoveSenderStep ==
  ASSUME RegistryIInv, NEW i \in Id, RemoveSender(i)
  PROVE  RegistryIInv'
<1> USE DEF RegistryIInv, RegistryFollowsStore, Current, Excused, Id, RemoveSender, Holding
<1>1. TypeOK'
  BY DEF TypeOK, Removal
<1>2. OwnersAreServed' /\ OwnersAreKnown'
  BY DEF OwnersAreServed, OwnersAreKnown
<1>3. IdsAreGivenOnce'
  BY DEF IdsAreGivenOnce
<1>4. CachedIdIsCurrent'
  BY DEF CachedIdIsCurrent
<1>5. StreamsServeCurrent'
  BY DEF StreamsServeCurrent, TypeOK
<1>6. CallsHoldCurrent'
  BY DEF CallsHoldCurrent
<1> QED BY <1>1, <1>2, <1>3, <1>4, <1>5, <1>6

\* A removal that stops half-way is marked.
LEMMA DropRemovalStep ==
  ASSUME RegistryIInv, NEW i \in Id, DropRemoval(i)
  PROVE  RegistryIInv'
<1> USE DEF RegistryIInv, RegistryFollowsStore, Current, Excused, Id, DropRemoval
<1>1. TypeOK'
  BY DEF TypeOK, Removal
<1>2. OwnersAreServed' /\ OwnersAreKnown'
  BY DEF OwnersAreServed, OwnersAreKnown
<1>3. IdsAreGivenOnce'
  BY DEF IdsAreGivenOnce
<1>4. CachedIdIsCurrent'
  BY DEF CachedIdIsCurrent
<1>5. StreamsServeCurrent'
  BY DEF StreamsServeCurrent
<1>6. CallsHoldCurrent'
  BY DEF CallsHoldCurrent
<1> QED BY <1>1, <1>2, <1>3, <1>4, <1>5, <1>6

\* The new owner is one of the owners; the record follows later.
LEMMA MoveStep ==
  ASSUME RegistryIInv, NEW u \in User, Move(u)
  PROVE  RegistryIInv'
<1> USE DEF RegistryIInv, RegistryFollowsStore, Current, Excused, Id, Move
<1>1. TypeOK'
  BY DEF TypeOK, Server
<1>2. IdsAreGivenOnce'
  BY DEF IdsAreGivenOnce, TypeOK, Server
<1>3. CachedIdIsCurrent'
  BY DEF CachedIdIsCurrent, TypeOK, Server
<1>4. StreamsServeCurrent'
  BY DEF StreamsServeCurrent, TypeOK, Server
<1>5. OwnersAreServed'
  BY DEF OwnersAreServed
<1>6. CallsHoldCurrent'
  BY DEF CallsHoldCurrent, TypeOK, Server
<1>7. OwnersAreKnown'
  BY DEF OwnersAreKnown
<1> QED BY <1>1, <1>2, <1>3, <1>4, <1>5, <1>6, <1>7

\* What was held in memory is gone, the removals in progress with it.
LEMMA RestartStep ==
  ASSUME RegistryIInv, Restart
  PROVE  RegistryIInv'
<1> USE DEF RegistryIInv, RegistryFollowsStore, Current, Excused, Id, Restart
<1>1. TypeOK'
  BY DEF TypeOK, Removal, CallState
<1>2. IdsAreGivenOnce'
  BY DEF IdsAreGivenOnce
<1>3. CachedIdIsCurrent'
  BY DEF CachedIdIsCurrent
<1>4. StreamsServeCurrent'
  BY DEF StreamsServeCurrent
<1>5. OwnersAreServed'
  BY DEF OwnersAreServed
<1>6. CallsHoldCurrent'
  BY DEF CallsHoldCurrent
<1>7. OwnersAreKnown'
  BY DEF OwnersAreKnown
<1> QED BY <1>1, <1>2, <1>3, <1>4, <1>5, <1>6, <1>7

-----------------------------------------------------------------------------
\* Every step of an RPC, a user or a restart keeps the invariant.
LEMMA RegistryStep == RegistryIInv /\ [Next]_vars => RegistryIInv'
<1> SUFFICES ASSUME RegistryIInv, [Next]_vars PROVE RegistryIInv'
  OBVIOUS
<1>1. ASSUME NEW c \in Call, NEW u \in User \union {Global}, Report(c, u) \/ LookUp(c, u)
      PROVE  RegistryIInv'
  BY <1>1, ReportStep, LookUpStep
<1>2. ASSUME NEW c \in Call, CacheReport(c) \/ CacheLocation(c) \/ AskStore(c)
      PROVE  RegistryIInv'
  BY <1>2, CacheReportStep, CacheLocationStep, AskStoreStep
<1>3. ASSUME NEW c \in Call, CacheServer(c) \/ RegisterSender(c) \/ Finish(c)
      PROVE  RegistryIInv'
  BY <1>3, CacheServerStep, RegisterSenderStep, FinishStep
<1>4. CASE DeleteRow
  BY <1>4, DeleteRowStep
<1>5. ASSUME NEW i \in Id, RemoveCached(i) \/ RemoveSender(i) \/ DropRemoval(i)
      PROVE  RegistryIInv'
  BY <1>5, RemoveCachedStep, RemoveSenderStep, DropRemovalStep
<1>6. ASSUME NEW u \in User, Move(u) PROVE RegistryIInv'
  BY <1>6, MoveStep
<1>7. CASE Restart
  BY <1>7, RestartStep
<1>8. CASE UNCHANGED vars
  BY <1>8 DEF vars, RegistryIInv, TypeOK, RegistryFollowsStore, CachedIdIsCurrent,
     StreamsServeCurrent, OwnersAreServed, IdsAreGivenOnce, CallsHoldCurrent, OwnersAreKnown,
     Current, Excused
<1> QED BY <1>1, <1>2, <1>3, <1>4, <1>5, <1>6, <1>7, <1>8 DEF Next

\* Records, senders and what RPCs hold belong to the row in every state
\* (ensure_server, batch_delete_server).
THEOREM RegistryInvariant == Spec => []RegistryIInv
<1> QED BY RegistryInit, RegistryStep, PTL DEF Spec

\* However reports, logins of agents, moves and deletions cross between the two locks:
\* the record and the stream of an id that is not the table's are there only while it
\* is removed or because a call held it across the removal, and no stream is served
\* to a user who never owned the server (ensure_server, request_task,
\* batch_delete_server, batch_move_server).
THEOREM RegistryIsOfTheStore == Spec => []RegistryFollowsStore
<1>1. RegistryIInv => RegistryFollowsStore
  BY DEF RegistryIInv
<1> QED BY RegistryInvariant, <1>1, PTL

-----------------------------------------------------------------------------
(* OnlineUsers *)

\* At start nobody is online and nothing is blocked.
LEMMA OnlineStart == OnlineAssumption /\ OnlineInit => OnlineIInv
BY DEF OnlineAssumption, OnlineInit, OnlineIInv, OnlineTypeOK, VisitState, BlocksHold,
       OneFrameAfterBlock, ListedAreAllowed, BlockedHasRow, RowIsBlocked, LateIsBlocked, VisitsAreWhole

-----------------------------------------------------------------------------
(* A visit, then the administrator, logins and restarts *)

\* Nobody is on the list or was served before the check.
LEMMA OpenStep ==
  ASSUME OnlineAssumption, OnlineIInv, NEW v \in Visit, NEW i \in Ip, Open(v, i)
  PROVE  OnlineIInv'
<1> USE DEF OnlineAssumption, OnlineIInv, BlocksHold, tables, memory, visits, Open, At
<1>1. OnlineTypeOK'
  BY DEF OnlineTypeOK, VisitState
<1>2. OneFrameAfterBlock' /\ BlockedHasRow' /\ RowIsBlocked'
  BY DEF OneFrameAfterBlock, BlockedHasRow, RowIsBlocked
<1>3. ListedAreAllowed'
  BY DEF ListedAreAllowed, VisitsAreWhole
<1>4. LateIsBlocked'
  BY DEF LateIsBlocked
<1>5. VisitsAreWhole'
  BY DEF VisitsAreWhole, OnlineTypeOK
<1> QED BY <1>1, <1>2, <1>3, <1>4, <1>5

\* Who joins the list was not served yet, blocked or not.
LEMMA AddOnlineUserStep ==
  ASSUME OnlineAssumption, OnlineIInv, NEW v \in Visit, AddOnlineUser(v)
  PROVE  OnlineIInv'
<1> USE DEF OnlineAssumption, OnlineIInv, BlocksHold, tables, memory, visits,
     AddOnlineUser, At
<1>1. OnlineTypeOK'
  BY DEF OnlineTypeOK, VisitState
<1>2. OneFrameAfterBlock' /\ BlockedHasRow' /\ RowIsBlocked'
  BY DEF OneFrameAfterBlock, BlockedHasRow, RowIsBlocked
<1>3. ListedAreAllowed'
  BY DEF ListedAreAllowed, VisitsAreWhole
<1>4. LateIsBlocked'
  BY DEF LateIsBlocked
<1>5. VisitsAreWhole'
  BY DEF VisitsAreWhole, OnlineTypeOK
<1> QED BY <1>1, <1>2, <1>3, <1>4, <1>5

\* A frame follows a look that found no block.
LEMMA TickStep ==
  ASSUME OnlineAssumption, OnlineIInv, NEW v \in Visit, Tick(v)
  PROVE  OnlineIInv'
<1> USE DEF OnlineAssumption, OnlineIInv, BlocksHold, tables, memory, visits, Tick, At
<1>1. OnlineTypeOK'
  BY DEF OnlineTypeOK, VisitState
<1>2. OneFrameAfterBlock' /\ BlockedHasRow' /\ RowIsBlocked'
  BY DEF OneFrameAfterBlock, BlockedHasRow, RowIsBlocked
<1>3. ListedAreAllowed'
  BY DEF ListedAreAllowed
<1>4. LateIsBlocked'
  BY DEF LateIsBlocked
<1>5. VisitsAreWhole'
  BY DEF VisitsAreWhole
<1> QED BY <1>1, <1>2, <1>3, <1>4, <1>5

\* So the frame is the first late one at most.
LEMMA SendStep ==
  ASSUME OnlineAssumption, OnlineIInv, NEW v \in Visit, Send(v)
  PROVE  OnlineIInv'
<1> USE DEF OnlineAssumption, OnlineIInv, BlocksHold, tables, memory, visits, Send, At
<1>1. OnlineTypeOK'
  BY DEF OnlineTypeOK, VisitState
<1>2. BlockedHasRow' /\ RowIsBlocked'
  BY DEF BlockedHasRow, RowIsBlocked
<1>3. OneFrameAfterBlock'
  BY DEF OneFrameAfterBlock, OnlineTypeOK, LateIsBlocked
<1>4. ListedAreAllowed'
  BY DEF ListedAreAllowed, OnlineTypeOK
<1>5. LateIsBlocked'
  BY DEF LateIsBlocked, OnlineTypeOK
<1>6. VisitsAreWhole'
  BY DEF VisitsAreWhole, OnlineTypeOK
<1> QED BY <1>1, <1>2, <1>3, <1>4, <1>5, <1>6

\* A visit takes its marks with it.
LEMMA RemoveOnlineUserStep ==
  ASSUME OnlineAssumption, OnlineIInv, NEW v \in Visit, RemoveOnlineUser(v)
  PROVE  OnlineIInv'
<1> USE DEF OnlineAssumption, OnlineIInv, BlocksHold, tables, memory, visits,
     RemoveOnlineUser, At
<1>1. OnlineTypeOK'
  BY DEF OnlineTypeOK, VisitState
<1>2. BlockedHasRow' /\ RowIsBlocked'
  BY DEF BlockedHasRow, RowIsBlocked
<1>3. OneFrameAfterBlock'
  BY DEF OneFrameAfterBlock
<1>4. ListedAreAllowed'
  BY DEF ListedAreAllowed
<1>5. LateIsBlocked'
  BY DEF LateIsBlocked, OnlineTypeOK
<1>6. VisitsAreWhole'
  BY DEF VisitsAreWhole, OnlineTypeOK
<1> QED BY <1>1, <1>2, <1>3, <1>4, <1>5, <1>6

\* The row stands for strings that are about to be blocked, or for a block that failed.
LEMMA RecordBlockStep ==
  ASSUME OnlineAssumption, OnlineIInv, NEW a \in Admin, NEW strings \in SUBSET {ip[v] :
       v \in users}, RecordBlock(a, strings)
  PROVE  OnlineIInv'
<1> USE DEF OnlineAssumption, OnlineIInv, BlocksHold, tables, memory, visits,
     RecordBlock, Addrs
<1>1. OnlineTypeOK'
  BY DEF OnlineTypeOK, VisitsAreWhole
<1>2. OneFrameAfterBlock' /\ ListedAreAllowed' /\ LateIsBlocked' /\ VisitsAreWhole'
  BY DEF OneFrameAfterBlock, ListedAreAllowed, LateIsBlocked, VisitsAreWhole
<1>3. BlockedHasRow'
  BY DEF BlockedHasRow
<1>4. RowIsBlocked'
  BY DEF RowIsBlocked, OnlineTypeOK
<1> QED BY <1>1, <1>2, <1>3, <1>4

\* Whom the memory blocks it takes off the list; a row that went in between leaves
\* its strings loose.
LEMMA BlockOnlineIpsStep ==
  ASSUME OnlineAssumption, OnlineIInv, NEW a \in Admin, BlockOnlineIps(a)
  PROVE  OnlineIInv'
<1> USE DEF OnlineAssumption, OnlineIInv, BlocksHold, tables, memory, visits,
     BlockOnlineIps, BlockStrings, Strings, Addrs
<1>1. OnlineTypeOK'
  BY DEF OnlineTypeOK
<1>2. OneFrameAfterBlock'
  BY DEF OneFrameAfterBlock
<1>3. ListedAreAllowed'
  BY DEF ListedAreAllowed
<1>4. BlockedHasRow'
  BY DEF BlockedHasRow
<1>5. RowIsBlocked'
  BY DEF RowIsBlocked, OnlineTypeOK
<1>6. LateIsBlocked'
  BY DEF LateIsBlocked
<1>7. VisitsAreWhole'
  BY DEF VisitsAreWhole
<1> QED BY <1>1, <1>2, <1>3, <1>4, <1>5, <1>6, <1>7

\* Rows and the strings shown for them go; other spellings are loose from now on.
LEMMA DeleteWafStep ==
  ASSUME OnlineAssumption, OnlineIInv, NEW addrs \in SUBSET Addr, DeleteWaf(addrs)
  PROVE  OnlineIInv'
<1> USE DEF OnlineAssumption, OnlineIInv, BlocksHold, tables, memory, visits, DeleteWaf,
     Unwrite, Strings
<1>1. OnlineTypeOK'
  BY DEF OnlineTypeOK
<1>2. VisitsAreWhole'
  BY DEF VisitsAreWhole
<1>3. OneFrameAfterBlock'
  BY DEF OneFrameAfterBlock
<1>4. ListedAreAllowed'
  BY DEF ListedAreAllowed
<1>5. BlockedHasRow'
  BY DEF BlockedHasRow, OnlineTypeOK
<1>6. RowIsBlocked'
  BY DEF RowIsBlocked
<1>7. LateIsBlocked'
  BY DEF LateIsBlocked
<1> QED BY <1>1, <1>2, <1>3, <1>4, <1>5, <1>6, <1>7

\* Rows go, and their strings are loose.
LEMMA DeleteWafFailsStep ==
  ASSUME OnlineAssumption, OnlineIInv, NEW addrs \in SUBSET Addr, DeleteWafFails(addrs)
  PROVE  OnlineIInv'
<1> USE DEF OnlineAssumption, OnlineIInv, BlocksHold, tables, memory, visits,
     DeleteWafFails, Unwrite, Strings
<1>1. OnlineTypeOK'
  BY DEF OnlineTypeOK
<1>2. OneFrameAfterBlock' /\ ListedAreAllowed' /\ LateIsBlocked' /\ VisitsAreWhole'
  BY DEF OneFrameAfterBlock, ListedAreAllowed, LateIsBlocked, VisitsAreWhole
<1>3. BlockedHasRow'
  BY DEF BlockedHasRow, OnlineTypeOK
<1>4. RowIsBlocked'
  BY DEF RowIsBlocked
<1> QED BY <1>1, <1>2, <1>3, <1>4

\* Failed logins are neither here nor there.
LEMMA LoginFailsStep ==
  ASSUME OnlineAssumption, OnlineIInv, NEW x \in Addr, LoginFails(x)
  PROVE  OnlineIInv'
<1> USE DEF OnlineAssumption, OnlineIInv, BlocksHold, tables, memory, visits, LoginFails
<1>1. OnlineTypeOK'
  BY DEF OnlineTypeOK
<1>2. OneFrameAfterBlock' /\ ListedAreAllowed' /\ BlockedHasRow' /\ RowIsBlocked' /\
     LateIsBlocked' /\ VisitsAreWhole'
  BY DEF OneFrameAfterBlock, ListedAreAllowed, BlockedHasRow, RowIsBlocked,
       LateIsBlocked, VisitsAreWhole
<1> QED BY <1>1, <1>2

\* A login that succeeds clears the count of failed ones and blocks nobody.
LEMMA LoginAllowedStep ==
  ASSUME OnlineAssumption, OnlineIInv, NEW x \in Addr, LoginAllowed(x)
  PROVE  OnlineIInv'
<1> USE DEF OnlineAssumption, OnlineIInv, BlocksHold, tables, memory, visits, LoginAllowed
<1>1. OnlineTypeOK'
  BY DEF OnlineTypeOK
<1>2. OneFrameAfterBlock' /\ ListedAreAllowed' /\ BlockedHasRow' /\ RowIsBlocked' /\
     LateIsBlocked' /\ VisitsAreWhole'
  BY DEF OneFrameAfterBlock, ListedAreAllowed, BlockedHasRow, RowIsBlocked,
       LateIsBlocked, VisitsAreWhole
<1> QED BY <1>1, <1>2

\* Only rows are left.
LEMMA OnlineRestartStep ==
  ASSUME OnlineAssumption, OnlineIInv, OnlineRestart
  PROVE  OnlineIInv'
<1> USE DEF OnlineAssumption, OnlineIInv, BlocksHold, tables, memory, visits, OnlineRestart
<1>1. OnlineTypeOK'
  BY DEF OnlineTypeOK, VisitState
<1>2. OneFrameAfterBlock'
  BY DEF OneFrameAfterBlock
<1>3. ListedAreAllowed'
  BY DEF ListedAreAllowed
<1>4. BlockedHasRow'
  BY DEF BlockedHasRow
<1>5. RowIsBlocked'
  BY DEF RowIsBlocked
<1>6. LateIsBlocked'
  BY DEF LateIsBlocked
<1>7. VisitsAreWhole'
  BY DEF VisitsAreWhole
<1> QED BY <1>1, <1>2, <1>3, <1>4, <1>5, <1>6, <1>7

-----------------------------------------------------------------------------
\* Every step of a visit, an administrator or a restart keeps the invariant.
LEMMA OnlineStep == OnlineAssumption /\ OnlineIInv /\ [OnlineNext]_onlineVars => OnlineIInv'
<1> SUFFICES ASSUME OnlineAssumption, OnlineIInv, [OnlineNext]_onlineVars PROVE OnlineIInv'
  OBVIOUS
<1>1. ASSUME NEW v \in Visit, NEW i \in Ip, Open(v, i) PROVE OnlineIInv'
  BY <1>1, OpenStep
<1>2. ASSUME NEW v \in Visit, AddOnlineUser(v) \/ Tick(v) \/ Send(v) \/ RemoveOnlineUser(v)
      PROVE  OnlineIInv'
  BY <1>2, AddOnlineUserStep, TickStep, SendStep, RemoveOnlineUserStep
<1>3. ASSUME NEW a \in Admin, NEW strings \in SUBSET {ip[v] : v \in users},
             RecordBlock(a, strings)
      PROVE  OnlineIInv'
  BY <1>3, RecordBlockStep
<1>4. ASSUME NEW a \in Admin, BlockOnlineIps(a) PROVE OnlineIInv'
  BY <1>4, BlockOnlineIpsStep
<1>5. ASSUME NEW addrs \in SUBSET Addr, DeleteWaf(addrs) \/ DeleteWafFails(addrs)
      PROVE  OnlineIInv'
  BY <1>5, DeleteWafStep, DeleteWafFailsStep
<1>6. CASE Maintenance
  <2>1. PICK addrs \in SUBSET Addr : DeleteWafFails(addrs)
    BY <1>6 DEF Maintenance, OnlineIInv, OnlineTypeOK
  <2> QED BY <2>1, DeleteWafFailsStep
<1>7. ASSUME NEW x \in Addr, LoginFails(x) \/ LoginAllowed(x) PROVE OnlineIInv'
  BY <1>7, LoginFailsStep, LoginAllowedStep
<1>8. CASE OnlineRestart
  BY <1>8, OnlineRestartStep
<1>9. CASE UNCHANGED onlineVars
  BY <1>9 DEF onlineVars, OnlineIInv, OnlineTypeOK, BlocksHold, OneFrameAfterBlock,
     ListedAreAllowed, BlockedHasRow, RowIsBlocked, LateIsBlocked, VisitsAreWhole
<1> QED BY <1>1, <1>2, <1>3, <1>4, <1>5, <1>6, <1>7, <1>8, <1>9 DEF OnlineNext

\* Visits, the list in memory and the table fit in every state
\* (server_stream, batch_block_online_user).
THEOREM OnlineInvariant == ASSUME OnlineAssumption PROVE OnlineSpec => []OnlineIInv
<1>1. OnlineInit => OnlineIInv
  BY OnlineStart
<1>2. OnlineIInv /\ [OnlineNext]_onlineVars => OnlineIInv'
  BY OnlineStep
<1> QED BY <1>1, <1>2, PTL DEF OnlineSpec

\* However blocks, unblocks, visits and restarts cross (server_stream,
\* batch_block_online_user, batch_delete_waf): a blocked address gets the one frame that
\* was being sent, a listed one that is blocked gets none, and rows and blocked strings
\* stand for each other, but for rows that went without the memory (between the halves of a
\* block, under another spelling, by an unblock that failed, by maintenance) and for memory
\* that a failing store or a restart left behind.
THEOREM BlocksAlwaysHold == ASSUME OnlineAssumption PROVE OnlineSpec => []BlocksHold
<1>1. OnlineSpec => []OnlineIInv
  BY OnlineInvariant
<1>2. OnlineIInv => BlocksHold
  BY DEF OnlineIInv
<1> QED BY <1>1, <1>2, PTL

-----------------------------------------------------------------------------
(* UpdateLock *)

\* The lock's invariant holds with no file and nobody there.
LEMMA LockStart == LockAssumption /\ LockInit => LockIInv
BY DEF LockAssumption, LockInit, LockIInv, LockTypeOK, Place, HasReason

\* No step breaks it.
LEMMA LockStep == LockAssumption /\ LockIInv /\ [LockNext]_lockVars => LockIInv'
<1> SUFFICES ASSUME LockAssumption, LockIInv, [LockNext]_lockVars PROVE LockIInv'
  OBVIOUS
<1> USE DEF LockAssumption, LockIInv, LockTypeOK, Place, HasReason, Step
<1>1. ASSUME NEW p \in Process, Create(p) PROVE LockIInv'
  BY <1>1 DEF Create, Make
<1>2. ASSUME NEW p \in Process, Find(p) PROVE LockIInv'
  BY <1>2 DEF Find
<1>3. ASSUME NEW p \in Process, Wake(p) PROVE LockIInv'
  BY <1>3 DEF Wake
<1>4. ASSUME NEW p \in Process, LookAgain(p) PROVE LockIInv'
  BY <1>4 DEF LookAgain
<1>5. ASSUME NEW p \in Process, TakeOver(p) PROVE LockIInv'
  BY <1>5 DEF TakeOver, Remove
<1>6. ASSUME NEW p \in Process, Recreate(p) PROVE LockIInv'
  BY <1>6 DEF Recreate, Make
<1>7. ASSUME NEW p \in Process, Release(p) PROVE LockIInv'
  BY <1>7 DEF Release, Remove
<1>8. ASSUME NEW p \in Process, Crash(p) PROVE LockIInv'
  BY <1>8 DEF Crash
<1>9. CASE Second
  BY <1>9 DEF Second
<1>10. CASE UNCHANGED lockVars
  BY <1>10 DEF lockVars
<1> QED BY <1>1, <1>2, <1>3, <1>4, <1>5, <1>6, <1>7, <1>8, <1>9, <1>10 DEF LockNext

\* An update has its file or was robbed of it, and the file is one process's.
LEMMA LockIsOfOne == LockAssumption /\ LockIInv => UpdatesAlone
BY DEF LockAssumption, LockIInv, UpdatesAlone

\* acquire_update_lock and the guard it returns keep updates apart: of two at the same
\* time one had its lock taken over, by a process that waited for the whole time or
\* in whose wait the lock changed hands, or removed by an update robbed before.
THEOREM UpdatesAreAlone ==
  ASSUME LockAssumption PROVE LockSpec => []UpdatesAlone
<1>1. LockInit => LockIInv
  BY LockStart
<1>2. LockIInv /\ [LockNext]_lockVars => LockIInv'
  BY LockStep
<1>3. LockIInv => UpdatesAlone
  BY LockIsOfOne
<1> QED BY <1>1, <1>2, <1>3, PTL DEF LockSpec

-----------------------------------------------------------------------------
\* What is checked of the three on small instances: each keeps its inductive invariant,
\* and with it its types.
THEOREM PartsAreTyped == PartsSpec => []PartsTypeOK
<1> DEFINE Parts == /\ RegistryIInv /\ OnlineIInv /\ LockIInv
                    /\ scene \in {"registry", "online", "lock"}
<1>1. PartsInit => Parts
  BY RegistryInit, OnlineStart, LockStart, PartsAssumption DEF PartsInit
<1>2. Parts /\ [PartsNext]_<<scene, vars, onlineVars, lockVars>> => Parts'
  BY RegistryStep, OnlineStep, LockStep, PartsAssumption DEF PartsNext
<1>3. Parts => PartsTypeOK
  BY DEF PartsTypeOK
<1> HIDE DEF Parts
<1> QED BY <1>1, <1>2, <1>3, PTL DEF PartsSpec
=============================================================================
