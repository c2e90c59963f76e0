------------------------------ MODULE OnlineUsers ------------------------------
(***************************************************************************)
(* Visitors on the page of servers, and blocking them: the table waf,      *)
(* which every request is checked against, and in memory the addresses     *)
(* server_stream looks up before each frame and the list of online users.  *)
(*                                                                         *)
(* Blocking writes the table under the store's lock and the memory after   *)
(* it; unblocking does both under that lock.  The table keeps an address   *)
(* as 16 bytes, the memory keeps the string: an IPv4 address and the IPv6  *)
(* address it is mapped to are one for the table and two for the memory.   *)
(* A visitor whose address is not known is never blocked and left out.     *)
(***************************************************************************)
EXTENDS FiniteSets, Naturals

CONSTANTS
  Addr,    \* addresses, each the string binary_to_ip_string gives it
  Mapped,  \* other strings for addresses: the IPv6 spelling of an IPv4 one
  AddrOf,  \* string -> its address
  Visit,   \* WebSockets of server_stream at a time
  Admin,   \* handlers of batch_block_online_user at a time
  NoIp

Ip == Addr \union Mapped

OnlineAssumption ==
  /\ Addr \cap Mapped = {}
  /\ AddrOf \in [Ip -> Addr]
  /\ \A a \in Addr : AddrOf[a] = a

VARIABLES
  waf,      \* addresses with a row of an administrator's block; persisted
  guesses,  \* addresses with rows of failed logins that have not run out; persisted
  blocked,  \* blocked_online_ips
  users,    \* online_users
  visit,    \* visit -> where stream_server_updates stands
  ip,       \* visit -> the string of its address
  block,    \* handler -> the strings it wrote rows for, {} when there is none
  served,   \* history: visits that got a frame since they are in the list
  late,     \* history: visit -> frames sent since its string is in the memory
  loose,    \* history: strings left in the memory when the row went
  half      \* history: addresses whose row was written or survived alone

onlineVars == <<waf, guesses, blocked, users, visit, ip, block, served, late, loose, half>>

VisitState == {"none", "admitted", "waiting", "sending", "leaving"}

OnlineInit ==
  /\ waf = {} /\ guesses = {} /\ blocked = {} /\ users = {}
  /\ visit = [v \in Visit |-> "none"]
  /\ ip = [v \in Visit |-> NoIp]
  /\ block = [a \in Admin |-> {}]
  /\ served = {}
  /\ late = [v \in Visit |-> 0]
  /\ loose = {} /\ half = {}

tables == <<waf, guesses>>
memory == <<blocked, users>>
visits == <<visit, ip, served, late>>

At(v, s) == visit' = [visit EXCEPT ![v] = s]

Strings(addrs) == {i \in Ip : AddrOf[i] \in addrs}
Addrs(strings) == {AddrOf[i] : i \in strings}

-----------------------------------------------------------------------------
(* A visit *)

\* waf_middleware, waf_block_active: refused while a row holds.
Open(v, i) ==
  /\ visit[v] = "none"
  /\ AddrOf[i] \notin waf \union guesses
  /\ At(v, "admitted")
  /\ ip' = [ip EXCEPT ![v] = i]
  /\ UNCHANGED <<tables, memory, block, served, late, loose, half>>

\* The socket is upgraded: the user goes on the list.
AddOnlineUser(v) ==
  /\ visit[v] = "admitted"
  /\ At(v, "waiting")
  /\ users' = users \union {v}
  /\ UNCHANGED <<tables, blocked, ip, block, served, late, loose, half>>

\* Mutant of Tick: the first frame goes out at once.
TickUnchecked(v) ==
  /\ visit[v] = "waiting"
  /\ At(v, IF ip[v] \in blocked /\ v \in served THEN "leaving" ELSE "sending")
  /\ UNCHANGED <<tables, memory, ip, block, served, late, loose, half>>

\* Every two seconds: online_ip_is_blocked, then a frame is made.
Tick(v) ==
  /\ visit[v] = "waiting"
  /\ At(v, IF ip[v] \in blocked THEN "leaving" ELSE "sending")
  /\ UNCHANGED <<tables, memory, ip, block, served, late, loose, half>>

\* ... and sent, or the socket is closed.
Send(v) ==
  /\ visit[v] = "sending"
  /\ \/ /\ At(v, "waiting")
        /\ served' = served \union {v}
        /\ late' = [late EXCEPT ![v] = IF ip[v] \in blocked THEN @ + 1 ELSE 0]
     \/ /\ At(v, "leaving")
        /\ UNCHANGED <<served, late>>
  /\ UNCHANGED <<tables, memory, ip, block, loose, half>>

RemoveOnlineUser(v) ==
  /\ visit[v] = "leaving"
  /\ At(v, "none")
  /\ ip' = [ip EXCEPT ![v] = NoIp]
  /\ users' = users \ {v}
  /\ served' = served \ {v}
  /\ late' = [late EXCEPT ![v] = 0]
  /\ UNCHANGED <<tables, blocked, block, loose, half>>

-----------------------------------------------------------------------------
(* The administrator *)

\* batch_block_online_user, record_waf_block for each string; the store may fail
\* on the way, and the rows written by then stay.
RecordBlock(a, strings) ==
  /\ block[a] = {}
  /\ strings # {}
  /\ \/ /\ waf' = waf \union Addrs(strings)
        /\ block' = [block EXCEPT ![a] = strings]
        /\ half' = half
     \/ \E written \in SUBSET strings \ {strings} :
          /\ waf' = waf \union Addrs(written)
          /\ block' = block
          /\ half' = half \union Addrs(written)
  /\ UNCHANGED <<guesses, memory, visits, loose>>

BlockStrings(a, gone) ==
  /\ block[a] # {}
  /\ blocked' = blocked \union block[a]
  /\ users' = users \ gone
  /\ block' = [block EXCEPT ![a] = {}]
  /\ loose' = loose \union {i \in block[a] : AddrOf[i] \notin waf}
  /\ UNCHANGED <<tables, visits, half>>

\* Mutant of BlockOnlineIps: the list is left to the visits.
BlockOnly(a) == BlockStrings(a, {})

\* block_online_ips, no longer under the store's lock.  An unblock in between is
\* overtaken: the memory has what the table has not.
BlockOnlineIps(a) == BlockStrings(a, {v \in users : ip[v] \in blocked \union block[a]})

\* Rows go; the strings of theirs still in the memory are loose from then on.
Unwrite(addrs) ==
  /\ waf' = waf \ addrs
  /\ loose' = (loose \cap blocked') \union (blocked' \cap Strings(addrs))
  /\ half' = half \ addrs

\* Mutant of DeleteWaf: the table only.
DeleteRowsOnly(addrs) ==
  /\ addrs # {} /\ addrs \subseteq waf \union guesses
  /\ waf' = waf \ addrs
  /\ guesses' = guesses \ addrs
  /\ half' = half \ addrs
  /\ UNCHANGED <<memory, visits, block, loose>>

\* batch_delete_waf: the strings are those the page shows, one for an address; the
\* memory is cleared of these only.
DeleteWaf(addrs) ==
  /\ addrs # {} /\ addrs \subseteq waf \union guesses
  /\ blocked' = blocked \ addrs
  /\ Unwrite(addrs)
  /\ guesses' = guesses \ addrs
  /\ late' = [v \in Visit |-> IF ip[v] \in blocked' THEN late[v] ELSE 0]
  /\ UNCHANGED <<users, visit, ip, served, block>>

\* The store fails on the way: the memory is left as it was.
DeleteWafFails(addrs) ==
  /\ addrs \subseteq waf
  /\ blocked' = blocked
  /\ Unwrite(addrs)
  /\ UNCHANGED <<guesses, users, visits, block>>

\* maintenance deletes what is older than thirty days; which rows that is depends
\* on when they were written.
Maintenance == \E addrs \in SUBSET waf \ {{}} : DeleteWafFails(addrs)

\* record_login_failure; the block runs out, or a login succeeds.
LoginFails(x) ==
  /\ x \notin waf \union guesses
  /\ guesses' = guesses \union {x}
  /\ UNCHANGED <<waf, memory, visits, block, loose, half>>
LoginAllowed(x) ==
  /\ x \in guesses
  /\ guesses' = guesses \ {x}
  /\ UNCHANGED <<waf, memory, visits, block, loose, half>>

\* The process ends; the table is what is left.
OnlineRestart ==
  /\ blocked' = {} /\ users' = {} /\ served' = {} /\ loose' = {}
  /\ visit' = [v \in Visit |-> "none"]
  /\ ip' = [v \in Visit |-> NoIp]
  /\ late' = [v \in Visit |-> 0]
  /\ block' = [a \in Admin |-> {}]
  /\ half' = waf
  /\ UNCHANGED tables

OnlineNext ==
  \/ \E v \in Visit : \/ \E i \in Ip : Open(v, i)
                      \/ AddOnlineUser(v) \/ Tick(v) \/ Send(v) \/ RemoveOnlineUser(v)
  \/ \E a \in Admin : \/ \E strings \in SUBSET {ip[v] : v \in users} : RecordBlock(a, strings)
                      \/ BlockOnlineIps(a)
  \/ \E addrs \in SUBSET Addr : DeleteWaf(addrs) \/ DeleteWafFails(addrs)
  \/ Maintenance
  \/ \E x \in Addr : LoginFails(x) \/ LoginAllowed(x)
  \/ OnlineRestart

OnlineSpec == OnlineInit /\ [][OnlineNext]_onlineVars

-----------------------------------------------------------------------------
OnlineTypeOK ==
  /\ waf \subseteq Addr /\ guesses \subseteq Addr /\ half \subseteq Addr
  /\ blocked \subseteq Ip /\ loose \subseteq Ip
  /\ users \subseteq Visit /\ served \subseteq Visit
  /\ visit \in [Visit -> VisitState]
  /\ ip \in [Visit -> Ip \union {NoIp}]
  /\ block \in [Admin -> SUBSET Ip]
  /\ late \in [Visit -> Nat]

\* A visit gets at most the frame that was being sent when its address was blocked.
OneFrameAfterBlock == \A v \in Visit : late[v] <= 1

\* A blocked visitor on the list was admitted before the row and added after it: no
\* frame was sent, and the first look ends the visit.
ListedAreAllowed ==
  \A v \in users : ip[v] \in blocked => v \notin served /\ visit[v] # "sending"

\* What the memory blocks has a row, or was left behind when the row went: by an
\* unblock between the halves of a block, of another spelling, by one that failed,
\* or by maintenance.
BlockedHasRow == \A i \in blocked : AddrOf[i] \in waf \/ i \in loose

\* What has a row is blocked in the memory, is about to be, or lost it: to a store
\* that failed half-way, or to a restart.
RowIsBlocked ==
  \A x \in waf : \/ Strings({x}) \cap blocked # {}
                 \/ \E a \in Admin : x \in Addrs(block[a])
                 \/ x \in half

\* Blocks end visits within a frame, and the two places they are kept in agree but
\* for the exceptions named above.
BlocksHold == OneFrameAfterBlock /\ ListedAreAllowed /\ BlockedHasRow /\ RowIsBlocked

\* Why they hold.  Frames are sent after a look at an address that was not blocked, so the
\* one late frame is the first; who is listed or was served came past the check of the
\* request, with an address.
LateIsBlocked ==
  \A v \in Visit : late[v] > 0 => ip[v] \in blocked /\ visit[v] \notin {"none", "sending"}

VisitsAreWhole ==
  /\ \A v \in users \union served : visit[v] \notin {"none", "admitted"}
  /\ \A v \in Visit : visit[v] # "none" => ip[v] \in Ip

OnlineIInv == OnlineTypeOK /\ BlocksHold /\ LateIsBlocked /\ VisitsAreWhole
=============================================================================
