------------------------------ MODULE UpdateLock ------------------------------
(***************************************************************************)
(* Agents that run from one executable, and the file that is to keep them  *)
(* from replacing it at the same time.  Who finds the file looks once a    *)
(* second until it is gone or ten minutes are over, looks once more, and   *)
(* takes the lock over if there is a file then, whoever made it.  Who is   *)
(* done removes the file, whoever made it.                                 *)
(***************************************************************************)
EXTENDS Naturals

CONSTANTS
  Process,  \* calls of run_blocking at a time, of one agent or of several
  Patience, \* seconds of the deadline, 600 in the code
  NoFile

LockAssumption == NoFile \notin Process /\ Patience \in Nat

VARIABLES
  file,       \* the lock file: who made it, or NoFile
  at,         \* process -> where acquire_update_lock or the update stands
  waited,     \* process -> seconds since it found the file
  overlooked, \* history: processes in whose wait a lock file was removed
  robbed      \* history: updates whose file went for one of the reasons known

lockVars == <<file, at, waited, overlooked, robbed>>

Place == {"idle", "waiting", "woken", "stale", "removed", "updating"}

LockInit ==
  /\ file = NoFile
  /\ at = [p \in Process |-> "idle"]
  /\ waited = [p \in Process |-> 0]
  /\ overlooked = {}
  /\ robbed = {}

Step(p, from, to) == at[p] = from /\ at' = [at EXCEPT ![p] = to]

Make(p) ==
  /\ file' = p
  /\ robbed' = robbed \ {p}

\* The file goes.  Those who wait for it cannot tell the next one from it.
Remove(p) ==
  /\ file' = NoFile
  /\ overlooked' = overlooked \union {q \in Process : at[q] \in {"waiting", "woken", "stale"}}

HasReason(p) == p \in overlooked \/ waited[p] >= Patience

-----------------------------------------------------------------------------
\* Mutant of Create: a file that is there is opened.
CreateOrOpen(p) ==
  /\ Step(p, "idle", "updating")
  /\ Make(p)
  /\ UNCHANGED <<waited, overlooked>>

\* create_new
Create(p) ==
  /\ file = NoFile
  /\ Step(p, "idle", "updating")
  /\ Make(p)
  /\ UNCHANGED <<waited, overlooked>>

\* AlreadyExists: the wait begins.
Find(p) ==
  /\ file # NoFile
  /\ Step(p, "idle", "waiting")
  /\ waited' = [waited EXCEPT ![p] = 0]
  /\ overlooked' = overlooked \ {p}
  /\ UNCHANGED <<file, robbed>>

\* A second passes for those who wait.
Second ==
  /\ \E p \in Process : at[p] = "waiting" /\ waited[p] < Patience
  /\ waited' = [p \in Process |-> IF at[p] = "waiting" /\ waited[p] < Patience
                                   THEN waited[p] + 1 ELSE waited[p]]
  /\ UNCHANGED <<file, at, overlooked, robbed>>

\* Mutant of Wake: the wait may end a second early.
WakeEarly(p) ==
  /\ file = NoFile \/ waited[p] + 1 >= Patience
  /\ Step(p, "waiting", "woken")
  /\ UNCHANGED <<file, waited, overlooked, robbed>>

\* path.exists() && Instant::now() < deadline no longer holds.
Wake(p) ==
  /\ file = NoFile \/ waited[p] >= Patience
  /\ Step(p, "waiting", "woken")
  /\ UNCHANGED <<file, waited, overlooked, robbed>>

\* path.exists() again: WaitedForPeer, or the file counts as stale.
LookAgain(p) ==
  /\ Step(p, "woken", IF file = NoFile THEN "idle" ELSE "stale")
  /\ UNCHANGED <<file, waited, overlooked, robbed>>

\* remove_file; that there was none is ignored.
TakeOver(p) ==
  /\ Step(p, "stale", "removed")
  /\ Remove(p)
  /\ robbed' = IF HasReason(p) THEN robbed \union ({file} \ {NoFile}) ELSE robbed
  /\ UNCHANGED waited

\* create_new again; an error when somebody else was faster.
Recreate(p) ==
  /\ \/ file = NoFile /\ Step(p, "removed", "updating") /\ Make(p)
     \/ file # NoFile /\ Step(p, "removed", "idle") /\ UNCHANGED <<file, robbed>>
  /\ UNCHANGED <<waited, overlooked>>

\* The update is over, or failed; the guard is dropped.  An update that was robbed
\* takes the file of another with it.
Release(p) ==
  /\ Step(p, "updating", "idle")
  /\ Remove(p)
  /\ robbed' = IF p \in robbed THEN robbed \union ({file} \ {NoFile}) ELSE robbed
  /\ UNCHANGED waited

\* The process ends where it is; its file stays.
Crash(p) ==
  /\ at[p] # "idle"
  /\ at' = [at EXCEPT ![p] = "idle"]
  /\ UNCHANGED <<file, waited, overlooked, robbed>>

LockNext ==
  \/ \E p \in Process : \/ Create(p) \/ Find(p) \/ Wake(p) \/ LookAgain(p) \/ TakeOver(p)
                        \/ Recreate(p) \/ Release(p) \/ Crash(p)
  \/ Second

LockSpec == LockInit /\ [][LockNext]_lockVars

-----------------------------------------------------------------------------
LockTypeOK ==
  /\ file \in Process \union {NoFile}
  /\ at \in [Process -> Place]
  /\ waited \in [Process -> 0..Patience]
  /\ overlooked \subseteq Process
  /\ robbed \subseteq Process

\* No two processes replace the executable at the same time, unless the lock of one
\* was taken from it: by a process that waited ten minutes, by one in whose wait the
\* lock changed hands (the look after the wait finds a lock that is new), or by
\* the end of an update that was robbed itself.
UpdatesAlone ==
  \A p, q \in Process :
    at[p] = "updating" /\ at[q] = "updating" /\ p # q => p \in robbed \/ q \in robbed

\* Why it holds: an update has its file unless it was robbed, and who finds a lock
\* stale has one of the reasons.
LockIInv ==
  /\ LockTypeOK
  /\ \A p \in Process : at[p] = "updating" => file = p \/ p \in robbed
  /\ \A p \in Process : at[p] = "waiting" /\ file = NoFile => p \in overlooked
  /\ \A p \in Process : at[p] \in {"woken", "stale"} => HasReason(p)
=============================================================================
