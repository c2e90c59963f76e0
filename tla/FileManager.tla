---------------------------- MODULE FileManager -----------------------------
(***************************************************************************)
(* The file manager: a page, its worker that writes a download to a file,  *)
(* and the agent, over one IO stream that keeps the order of each          *)
(* direction.  The answers carry nothing that says what they answer.       *)
(*                                                                         *)
(* The agent lists and receives uploads in its loop, and sends a download  *)
(* from a task of its own.  The page takes each message by its first bytes *)
(* or, while a download is under way, as the next part of the file; parts  *)
(* wait until the worker has a handle, each polling by itself.             *)
(***************************************************************************)
EXTENDS Naturals, Sequences, SequencesExt

CONSTANTS
  MaxClicks, \* bound: what the user asks for
  MaxSize,   \* bound: parts of the first file, each later one has one less at most
  MaxUpsets  \* bound: what fails, and parts that are taken for a transfer

FilesAssumption == MaxClicks \in Nat \ {0} /\ MaxSize \in Nat \ {0} /\ MaxUpsets \in Nat

VARIABLES
  path,      \* the directory shown
  first,     \* firstChunk: the next message is not part of a file
  ready,     \* handleReady
  waiting,   \* parts that wait for the handle
  d_open,    \* "Downloading..." covers the page
  u_open,    \* "Uploading..." does
  feeding,   \* uploadFile: of each upload, the parts still to be read and sent
  up, down,  \* the stream
  receiving, \* the agent's upload: parts to come, what came, and whether it was asked for
  task,      \* the agent's downloads: what they will send; bound: so many at a time
  work,      \* messages to the worker
  file,      \* the worker's file: parts expected, what was written, history: parts missed
  told,      \* messages from the worker
  saved,     \* the files the browser saved
  stored,    \* the files the agent stored
  clicks, upsets,
  why        \* history: what went wrong

pageVars   == <<path, first, ready, waiting, d_open, u_open, feeding>>
agentVars  == <<receiving, task>>
workerVars == <<work, file, told>>
vars == <<pageVars, up, down, agentVars, workerVars, saved, stored, clicks, upsets,
          why>>

Path     == {"blank", "home", "dir"} \* the empty path, and two directories
Transfer == 1..MaxClicks

\* Messages: a list request or answer with its path, a request or a header with the
\* parts of the file, a part with its number, the end of an upload, an error.
Msg(what, where, n) == [kind |-> what, path |-> where, n |-> n]
List(p)   == Msg("list", p, 0)
Part(n)   == Msg("part", "blank", n)

\* Mutant of Header: its size counts the header.
HeaderCounted(n) == Msg("file", "blank", n + 1)

Header(n) == Msg("file", "blank", n)
Done      == Msg("done", "blank", 0)
Error     == Msg("error", "blank", 0)
Parts(n)  == [i \in 1..n |-> Part(i)]
Whole(s)  == s = [i \in 1..Len(s) |-> i]

Nothing == [left |-> 0, got |-> <<>>, own |-> FALSE]
Closed  == [handle |-> "none", expects |-> 0, got |-> <<>>, missed |-> 0]
Reason  == {"dropped", "empty", "failed", "foreign", "overtaken", "crossed", "mixed", "unread",
            "swallowed"}

\* A page that is just opened, with what it has asked for ...
OpenedWith(requests) ==
  /\ path = "blank" /\ first = TRUE /\ ready = FALSE /\ waiting = <<>>
  /\ d_open = FALSE /\ u_open = FALSE /\ feeding = [t \in Transfer |-> <<>>]
  /\ up = requests /\ down = <<>>
  /\ receiving = Nothing /\ task = [t \in Transfer |-> <<>>]
  /\ work = <<>> /\ file = Closed /\ told = <<>>
  /\ saved = {} /\ stored = {}
  /\ clicks = 0 /\ upsets = 0 /\ why = {}

\* ... which onopen makes a list of the home directory.
Init == OpenedWith(<<List("blank")>>)

\* A list request while an answer with another path is under way.
Crossed(p) ==
  \/ \E i \in DOMAIN up : up[i].kind = "list" /\ up[i].path # p
  \/ \E i \in DOMAIN down : down[i].kind = "list" /\ down[i].path # p

\* An upload's parts are not all sent.
Feeding == \E t \in Transfer : feeding[t] # <<>>

\* send: on a stream that is closed nothing happens.
Send(m) ==
  /\ up' = IF "dropped" \in why THEN up ELSE Append(up, m)
  /\ why' = why \union (IF m.kind = "list" /\ Crossed(m.path) THEN {"crossed"} ELSE {})
                \union (IF m.kind # "part" /\ Feeding THEN {"mixed"} ELSE {})

\* Something fails.
Upset == upsets < MaxUpsets /\ upsets' = upsets + 1

-----------------------------------------------------------------------------
(* The page *)

\* A dialog covers the rest.
Free == ~d_open /\ ~u_open

\* Mutant of ShowPath: every answer is followed by a request.
ShowPathAlways(p) == path' = p /\ Send(List(p))

\* setPath, and the effect that lists a path that changed.
ShowPath(p) ==
  /\ path' = p
  /\ IF p # path THEN Send(List(p)) ELSE UNCHANGED <<up, why>>

\* "Refresh".
Refresh ==
  /\ Free /\ clicks < MaxClicks /\ clicks' = clicks + 1
  /\ Send(List(path))
  /\ UNCHANGED <<pageVars, down, agentVars, workerVars, saved, stored, upsets>>

\* A row of a directory, a part of the path, "Goto".
GoTo(p) ==
  /\ Free /\ p # path /\ clicks < MaxClicks /\ clicks' = clicks + 1
  /\ ShowPath(p)
  /\ UNCHANGED <<first, ready, waiting, d_open, u_open, feeding, down, agentVars, workerVars,
                 saved, stored, upsets>>

Download(n) ==
  /\ Free /\ clicks < MaxClicks /\ clicks' = clicks + 1
  /\ n <= MaxSize - clicks
  /\ d_open' = TRUE
  /\ Send(Msg("download", "blank", n))
  /\ UNCHANGED <<path, first, ready, waiting, u_open, feeding, down, agentVars, workerVars,
                 saved, stored, upsets>>

\* uploadFile: the header, then part after part as they are read.  It goes on when
\* an error has closed the dialog, beside the next one.
Upload(n) ==
  /\ Free /\ clicks < MaxClicks /\ clicks' = clicks + 1
  /\ n <= MaxSize - clicks
  /\ u_open' = TRUE /\ feeding' = [feeding EXCEPT ![clicks + 1] = Parts(n)]
  /\ Send(Msg("upload", "blank", n))
  /\ UNCHANGED <<path, first, ready, waiting, d_open, down, agentVars, workerVars, saved,
                 stored, upsets>>
Feed(t) ==
  /\ feeding[t] # <<>> /\ feeding' = [feeding EXCEPT ![t] = Tail(@)]
  /\ Send(Head(feeding[t]))
  /\ UNCHANGED <<path, first, ready, waiting, d_open, u_open, down, agentVars, workerVars,
                 saved, stored, clicks, upsets>>

\* The reader fails: uploadFile ends there, and the dialog stays.
ReadFails(t) ==
  /\ Upset
  /\ feeding[t] # <<>> /\ feeding' = [feeding EXCEPT ![t] = <<>>]
  /\ why' = why \union {"unread"}
  /\ UNCHANGED <<path, first, ready, waiting, d_open, u_open, up, down, agentVars, workerVars,
                 saved, stored, clicks>>

\* While firstChunk is false every message is a part.  One that finds the handle
\* ready goes before those that still poll.
TakePart(m) ==
  /\ IF ready THEN work' = Append(work, m) /\ UNCHANGED waiting
              ELSE waiting' = Append(waiting, m) /\ UNCHANGED work
  /\ why' = why \union (IF m.kind # "part" THEN {"foreign"} ELSE {})
                \union (IF ready /\ waiting # <<>> THEN {"overtaken"} ELSE {})

\* Mutant of CloseDialogs: the upload's stays.
CloseDialogsOne == d_open' = FALSE /\ UNCHANGED u_open

CloseDialogs == d_open' = FALSE /\ u_open' = FALSE

\* ws.onmessage.  An error closes the dialogs and nothing else; after an upload the
\* list of the first rendering's path is asked for.
TakeMessage ==
  /\ down # <<>> /\ down' = Tail(down)
  /\ LET m == Head(down) IN
       CASE m.kind = "error" ->
              /\ CloseDialogs
              /\ why' = why \union (IF first THEN {} ELSE {"failed"})
              /\ UNCHANGED <<path, first, waiting, up, work>>
         [] m.kind # "error" /\ ~first ->
              TakePart(m) /\ UNCHANGED <<path, first, d_open, u_open, up>>
         [] first /\ m.kind = "file" ->
              /\ first' = FALSE /\ work' = Append(work, m)
              /\ why' = why \union (IF m.n = 0 THEN {"empty"} ELSE {})
              /\ UNCHANGED <<path, waiting, d_open, u_open, up>>
         [] first /\ m.kind = "list" ->
              ShowPath(m.path) /\ UNCHANGED <<first, waiting, d_open, u_open, work>>
         [] first /\ m.kind = "done" ->
              /\ u_open' = FALSE /\ Send(List("blank"))
              /\ UNCHANGED <<path, first, waiting, d_open, work>>
         [] OTHER -> CloseDialogs /\ UNCHANGED <<path, first, waiting, up, work, why>>
  /\ UNCHANGED <<ready, feeding, agentVars, file, told, saved, stored, clicks, upsets>>

\* waitForHandleReady: whichever part's timer fires.
PartWaited(i) ==
  /\ ready /\ i \in DOMAIN waiting
  /\ waiting' = RemoveAt(waiting, i) /\ work' = Append(work, waiting[i])
  /\ why' = why \union (IF i > 1 THEN {"overtaken"} ELSE {})
  /\ UNCHANGED <<path, first, ready, d_open, u_open, feeding, up, down, agentVars, file, told,
                 saved, stored, clicks, upsets>>

\* Mutant of TakeTold: the next message is a part as well.
TakeToldStaying ==
  /\ told # <<>> /\ told' = Tail(told)
  /\ IF Head(told).ready THEN ready' = TRUE /\ UNCHANGED <<d_open, saved>>
     ELSE ready' = FALSE /\ d_open' = FALSE /\ saved' = saved \union {Head(told).got}
  /\ UNCHANGED <<path, first, waiting, u_open, feeding, up, down, agentVars, work, file, stored,
                 clicks, why, upsets>>

\* worker.onmessage: the handle is there; the file is complete and is saved.
TakeTold ==
  /\ told # <<>> /\ told' = Tail(told)
  /\ IF Head(told).ready THEN ready' = TRUE /\ UNCHANGED <<first, d_open, saved>>
     ELSE /\ ready' = FALSE /\ first' = TRUE /\ d_open' = FALSE
          /\ saved' = saved \union {Head(told).got}
  /\ UNCHANGED <<path, waiting, u_open, feeding, up, down, agentVars, work, file, stored,
                 clicks, why, upsets>>

-----------------------------------------------------------------------------
(* lib/fm.ts: a header has the file made and a handle taken; a part is written     *)
(* behind the last one, or lost without a handle; only after a part is the file      *)
(* found complete.  Whatever fails is told as an error, which the page only logs.    *)

Say(ready_, got) == told' = Append(told, [ready |-> ready_, got |-> got])

\* Mutant of Written: at the start of the file.
WrittenFirst(n) == [Append(file.got, 0) EXCEPT ![1] = n]

Written(n) == Append(file.got, n)

Work ==
  /\ work # <<>> /\ work' = Tail(work)
  /\ LET m == Head(work)
         got == Written(IF m.kind = "part" THEN m.n ELSE 0)
         open == file.handle = "open" IN
       \/ /\ m.kind = "file" /\ file = Closed
          /\ file' = [Closed EXCEPT !.handle = "asked", !.expects = m.n] /\ UNCHANGED told
       \/ open /\ Len(got) = file.expects /\ file' = Closed /\ Say(FALSE, got)
       \/ open /\ Len(got) # file.expects /\ file' = [file EXCEPT !.got = got] /\ UNCHANGED told
       \/ ~open /\ (m.kind # "file" \/ file # Closed) /\ UNCHANGED <<file, told>>
  /\ UNCHANGED <<pageVars, up, down, agentVars, saved, stored, clicks, why, upsets>>

\* A part is not written, and the next one takes its place; or the last one is, and
\* the file cannot be closed or read.
WorkFails ==
  /\ Upset
  /\ work # <<>> /\ work' = Tail(work)
  /\ file.handle = "open"
  /\ LET got == Written(IF Head(work).kind = "part" THEN Head(work).n ELSE 0) IN
       \/ file' = [file EXCEPT !.missed = @ + 1]
       \/ /\ Len(got) = file.expects
          /\ file' = [file EXCEPT !.handle = "broken", !.got = got]
  /\ UNCHANGED <<pageVars, up, down, agentVars, told, saved, stored, clicks, why>>

\* The handle is there: "got handle" ...
Opened ==
  /\ file.handle = "asked" /\ file' = [file EXCEPT !.handle = "open"]
  /\ Say(TRUE, <<>>)
  /\ UNCHANGED <<pageVars, up, down, agentVars, work, saved, stored, clicks, why, upsets>>

\* ... or the directory, the file or its handle is not to be had.
OpenFails ==
  /\ Upset
  /\ file.handle = "asked" /\ file' = [file EXCEPT !.handle = "broken"]
  /\ UNCHANGED <<pageVars, up, down, agentVars, work, told, saved, stored, clicks, why>>

-----------------------------------------------------------------------------
(* The agent *)

\* Mutant of Complete: `received <= size`.
Uncompleted(r) == r.left < 0

Complete(r) == r.left = 0

\* fm_upload: whatever comes is part of the file, a request too, until its size is
\* reached.
Receive ==
  /\ receiving # Nothing /\ up # <<>> /\ up' = Tail(up)
  /\ LET n == IF Head(up).kind = "part" THEN Head(up).n ELSE 0
         r == [receiving EXCEPT !.left = @ - 1,
                                !.got = IF receiving.own THEN Append(@, n) ELSE @]
     IN \/ /\ Complete(r)
           /\ receiving' = Nothing /\ down' = Append(down, Done)
           /\ stored' = (IF r.own THEN stored \union {r.got} ELSE stored)
           /\ UNCHANGED upsets
        \/ ~Complete(r) /\ receiving' = r /\ UNCHANGED <<stored, down, upsets>>
        \/ Upset /\ receiving' = Nothing /\ down' = Append(down, Error) /\ UNCHANGED stored
  /\ why' = why \union (IF Head(up).kind = "part" THEN {} ELSE {"swallowed"})
  /\ UNCHANGED <<pageVars, task, workerVars, saved, clicks>>

\* A path that is not readable is answered with the home directory's list.
Answer(p) == IF p = "blank" THEN "home" ELSE p

\* The sizes for which a message is a request of this kind.  A part that is left of
\* an upload that failed is any request, by its first byte; bound: for one part.
Asks(m, what) ==
  IF m.kind = what THEN {m.n} ELSE IF m.kind = "part" THEN 0..1 ELSE {}
Counted(m) == IF m.kind = "part" THEN Upset ELSE UNCHANGED upsets

\* run_file_manager_stream.  A file made of what was left of another is not counted
\* among the stored ones.
AgentTakes ==
  /\ receiving = Nothing /\ up # <<>> /\ up' = Tail(up)
  /\ LET m == Head(up)
         own == m.kind = "upload" IN
       \/ /\ m.kind \in {"list", "part"}
          /\ down' = Append(down, List(Answer(m.path)))
          /\ UNCHANGED <<agentVars, stored, upsets>>
       \/ /\ \E n \in Asks(m, "download"), t \in Transfer :
               /\ task[t] = <<>>
               /\ task' = [task EXCEPT ![t] = <<Header(n)>> \o Parts(n)]
          /\ UNCHANGED <<receiving, down, stored>> /\ Counted(m)
       \/ /\ \E n \in Asks(m, "upload") \ {0} :
               receiving' = [left |-> n, got |-> <<>>, own |-> own]
          /\ UNCHANGED <<task, down, stored>> /\ Counted(m)
       \/ /\ 0 \in Asks(m, "upload")
          /\ stored' = (IF own THEN stored \union {<<>>} ELSE stored)
          /\ down' = Append(down, Done)
          /\ UNCHANGED agentVars /\ Counted(m)
       \/ Upset /\ down' = Append(down, Error) /\ UNCHANGED <<agentVars, stored>>
  /\ UNCHANGED <<pageVars, workerVars, saved, clicks, why>>

TaskSends(t) ==
  /\ task[t] # <<>>
  /\ \/ /\ down' = Append(down, Head(task[t])) /\ task' = [task EXCEPT ![t] = Tail(@)]
        /\ UNCHANGED upsets
     \/ Upset /\ down' = Append(down, Error) /\ task' = [task EXCEPT ![t] = <<>>]
  /\ UNCHANGED <<pageVars, up, receiving, workerVars, saved, stored, clicks, why>>

\* The stream ends: the page only logs it.
Drop ==
  /\ Upset
  /\ "dropped" \notin why /\ why' = why \union {"dropped"}
  /\ up' = <<>> /\ down' = <<>> /\ receiving' = Nothing /\ task' = [t \in Transfer |-> <<>>]
  /\ UNCHANGED <<pageVars, workerVars, saved, stored, clicks>>

Next ==
  \/ Refresh \/ TakeMessage \/ TakeTold
  \/ Work \/ WorkFails \/ Opened \/ OpenFails \/ Receive \/ AgentTakes \/ Drop
  \/ \E p \in Path : GoTo(p)
  \/ \E n \in 0..MaxSize : Download(n) \/ Upload(n)
  \/ \E i \in 1..MaxSize + 1 : PartWaited(i)
  \/ \E t \in Transfer : Feed(t) \/ ReadFails(t) \/ TaskSends(t)

Spec == Init /\ [][Next]_vars

\* The stream delivers, the agent, the reader and the worker go on, with what was
\* asked of them or with an error; timers fire.
Fairness ==
  /\ WF_vars(TakeMessage) /\ WF_vars(TakeTold) /\ WF_vars(Work \/ WorkFails)
  /\ WF_vars(Opened \/ OpenFails) /\ WF_vars(Receive) /\ WF_vars(AgentTakes)
  /\ \A i \in 1..MaxSize + 1 : WF_vars(PartWaited(i))
  /\ \A t \in Transfer : WF_vars(Feed(t) \/ ReadFails(t)) /\ WF_vars(TaskSends(t))

FairSpec == Spec /\ Fairness

-----------------------------------------------------------------------------
Messages == [kind : {"list", "part", "file", "done", "error", "download", "upload"},
             path : Path, n : 0..MaxSize]

TypeOK ==
  /\ path \in Path
  /\ first \in BOOLEAN /\ ready \in BOOLEAN /\ d_open \in BOOLEAN /\ u_open \in BOOLEAN
  /\ waiting \in Seq(Messages) /\ feeding \in [Transfer -> Seq(Messages)] /\ work \in Seq(Messages)
  /\ up \in Seq(Messages) /\ down \in Seq(Messages)
  /\ receiving = Nothing \/ receiving \in [left : 1..MaxSize, got : Seq(Nat), own : BOOLEAN]
  /\ task \in [Transfer -> Seq(Messages)]
  /\ file \in [handle : {"none", "asked", "open", "broken"}, expects : 0..MaxSize,
               got : Seq(Nat), missed : Nat]
  /\ told \in Seq([ready : BOOLEAN, got : Seq(Nat)])
  /\ clicks \in 0..MaxClicks /\ upsets \in 0..MaxUpsets /\ why \subseteq Reason
  /\ "dropped" \in why => up = <<>> /\ receiving = Nothing

\* A file that is saved has the parts the agent sent, in their order, unless a part
\* overtook one that was polling, or another message came between header and last
\* part.  A part the worker could not write leaves no file that looks complete.
SavedFilesAreWhole == why \intersect {"overtaken", "foreign"} = {} => \A s \in saved : Whole(s)

\* An uploaded file has its parts unless the page sent a request between them, another
\* upload's among them, or could not read one.  The dialog keeps the user from a
\* request until an error closes it; nothing keeps the page from it when an answer
\* names another directory than the one shown.  What the agent makes of parts that an
\* upload left behind when it failed does not spoil the next one.
StoredFilesAreWhole == why \intersect {"mixed", "unread"} = {} => \A s \in stored : Whole(s)

\* The worker stands with a file it could not open, write or close.
Unwritable == file.handle = "broken" \/ file.missed > 0

\* When no dialog is open and nothing is under way the page waits for a first
\* message again, unless an error came after the header, the file was empty, or
\* could not be written.
PageIsBack ==
  /\ Free /\ file.handle # "asked" /\ (\A s \in {waiting, work, told, down} : s = <<>>)
  /\ \A t \in Transfer : task[t] = <<>>
  /\ why \intersect {"failed", "empty", "foreign", "dropped"} = {} /\ ~Unwritable
  => first

\* A dialog is closed, or stays for one of these reasons: the stream ended; a request
\* or an answer was taken for part of a file; the page waits for parts, of a file of
\* no bytes or one that could not be written, or because of an error that came in
\* their place; or the agent does, whose upload was not read to its end, or was begun
\* by a part that an earlier one left behind.
PageWaits  == ~first /\ (Unwritable \/ why \intersect {"empty", "failed"} # {})
AgentWaits == receiving # Nothing /\ (receiving.own => "unread" \in why)
TransfersEnd ==
  (d_open \/ u_open) ~>
    \/ Free \/ why \intersect {"dropped", "swallowed", "foreign"} # {}
    \/ [](PageWaits \/ AgentWaits)

\* The page comes to rest on a directory: answers that name another path than asked
\* make it ask again, and two requests for different paths that cross may go on
\* asking for ever.
Listing == \E s \in {up, down} : \E i \in DOMAIN s : s[i].kind = "list"
ListsEnd == Listing ~> (~Listing \/ "crossed" \in why)

\* After whatever was asked for, the files are whole on both sides and the page
\* waits for a first message, but for the reasons that are named.
FilesAreWhole == SavedFilesAreWhole /\ StoredFilesAreWhole /\ PageIsBack

\* The page comes to rest: transfers and lists end.
PageRests == TransfersEnd /\ ListsEnd

-----------------------------------------------------------------------------
(* Why files are whole: the invariant. *)

\* What is on its way up when one upload at most is being read: its header is followed
\* by its parts, and what the agent has of it by the rest.
OnTheWay(t) == up \o feeding[t]
Alone(t)    == \A u \in Transfer \ {t} : feeding[u] = <<>>

HeadersLead(line) ==
  \A i \in 1..Len(line) : line[i].kind = "upload" =>
    \A k \in 1..line[i].n : i + k <= Len(line) /\ line[i + k] = Part(k)

RestFollows(line, r) ==
  r.own =>
    Whole(r.got) /\ \A k \in 1..r.left : k <= Len(line) /\ line[k] = Part(Len(r.got) + k)

UploadsFollow ==
  /\ \A t \in Transfer : \A i \in 1..Len(feeding[t]) : feeding[t][i].kind = "part"
  /\ \A t \in Transfer : t > clicks => feeding[t] = <<>>
  /\ why \intersect {"mixed", "unread"} = {} =>
       /\ \A t, u \in Transfer : feeding[t] = <<>> \/ feeding[u] = <<>> \/ t = u
       /\ \A t \in Transfer : Alone(t) =>
            HeadersLead(OnTheWay(t)) /\ RestFollows(OnTheWay(t), receiving)

\* The file the page and its worker are at: its size, and the parts that came, those
\* the worker is through with first.
InWork == IF file = Closed THEN <<>> ELSE work
Count  == IF file = Closed /\ work # <<>> THEN work[1].n ELSE file.expects
Passed == Len(file.got) + file.missed
Taken  == Passed + Len(InWork) + Len(waiting)

\* The page and the worker take turns: the page waits for a file; the worker has its
\* header; a handle is asked for or got; parts are written; the file is told; or the
\* file is broken, and parts wait for ever.
NoFile == first /\ ~ready /\ waiting = <<>> /\ work = <<>> /\ told = <<>> /\ file = Closed
HasHeader ==
  /\ ~first /\ ~ready /\ told = <<>> /\ file = Closed
  /\ Len(work) = 1 /\ work[1].kind = "file"
TakesHandle ==
  /\ ~first /\ ~ready /\ work = <<>> /\ file.got = <<>> /\ file.missed = 0
  /\ \/ file.handle = "asked" /\ told = <<>>
     \/ file.handle = "open" /\ told = <<[ready |-> TRUE, got |-> <<>>]>>
Writes ==
  /\ ~first /\ ready /\ told = <<>> /\ file.handle = "open"
  /\ file.expects = 0 \/ Len(file.got) < file.expects
HasFile ==
  /\ ~first /\ ready /\ waiting = <<>> /\ work = <<>> /\ file = Closed
  /\ Len(told) = 1 /\ ~told[1].ready
IsBroken ==
  /\ ~first /\ work = <<>> /\ told = <<>> /\ file.handle = "broken"
  /\ ready => file.expects > 0 /\ Passed >= file.expects

Turns == NoFile \/ HasHeader \/ TakesHandle \/ Writes \/ HasFile \/ IsBroken

\* The parts came in their order, unless one overtook others; what was written is
\* whole unless one was missed.
InOrder ==
  /\ file.missed = 0 => Whole(file.got)
  /\ \A i \in 1..Len(told) : Whole(told[i].got)
  /\ \A i \in 1..Len(InWork) : InWork[i] = Part(Passed + i)
  /\ \A i \in 1..Len(waiting) : waiting[i] = Part(Passed + Len(InWork) + i)

\* What the page is owed: n parts of a file of so many came.
Idle     == [n |-> 0, of |-> 0]
Lost     == [n |-> 1, of |-> 0]
Owing(e) == e.n < e.of
Owed     == IF Taken < Count THEN [n |-> Taken, of |-> Count] ELSE Idle

\* After another message: a part is one more, a header begins, an error changes
\* nothing, and anything else in a file's place is one too many.
After(e, m) ==
  CASE m.kind = "error" \/ e = Lost -> e
    [] m.kind = "part" /\ e # Lost  -> IF e.n + 1 < e.of THEN [e EXCEPT !.n = @ + 1] ELSE Idle
    [] m.kind = "file" /\ e # Lost  -> IF Owing(e) \/ m.n = 0 THEN Lost ELSE [n |-> 0, of |-> m.n]
    [] OTHER                        -> IF Owing(e) THEN Lost ELSE e

\* What it will be owed after each message on its way.
Debts(start, s) ==
  LET debt[i \in 0..Len(s)] == IF i = 0 THEN start ELSE After(debt[i - 1], s[i])
  IN  debt

\* A download's task that has sent its header, and one that has not.
Begun(s) == s # <<>> /\ s[1].kind = "part"
Fresh(s) == s # <<>> /\ s[1].kind = "file" /\ s = <<Header(s[1].n)>> \o Parts(s[1].n)
Rest(e)  == [i \in 1..e.of - e.n |-> Part(e.n + i)]

\* Parts come in their order until a message in the place of one.
PartsFollow(line, debt) ==
  \A i \in 1..Len(line) : debt[i - 1] # Lost /\ line[i].kind = "part" =>
    Owing(debt[i - 1]) /\ line[i] = Part(debt[i - 1].n + 1)

\* One task sends them, and it has the rest.
TasksFit(tasks, last) ==
  last # Lost =>
    /\ \A t \in Transfer :
         tasks[t] = <<>> \/ Fresh(tasks[t]) \/ (Owing(last) /\ tasks[t] = Rest(last))
    /\ \A t, u \in Transfer : Begun(tasks[t]) /\ Begun(tasks[u]) => t = u

\* Where none does, an error is on its way.
GapsAreTold(line, tasks, debt) ==
  Owing(debt[Len(line)]) /\ (\A t \in Transfer : ~Begun(tasks[t])) =>
    \E i \in 1..Len(line) : line[i].kind = "error" /\ Owing(debt[i - 1])

DownloadsFollow ==
  LET debt == Debts(Owed, down)
  IN  /\ PartsFollow(down, debt) /\ TasksFit(task, debt[Len(down)])
      /\ {"failed", "dropped"} \intersect why = {} => GapsAreTold(down, task, debt)

\* Until the page takes another message for a part it is in turn, and until it takes
\* a file without parts for one no more parts come than the file has.
InTurn ==
  "foreign" \notin why =>
    /\ Turns /\ ("empty" \in why <=> ~first /\ ~HasFile /\ Count = 0)
    /\ "empty" \notin why => Taken <= Count /\ ("overtaken" \notin why => InOrder)

FilesIInv ==
  /\ TypeOK /\ UploadsFollow /\ StoredFilesAreWhole /\ SavedFilesAreWhole /\ InTurn
  /\ {"foreign", "empty"} \intersect why = {} => DownloadsFollow
=============================================================================
