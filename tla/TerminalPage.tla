---------------------------- MODULE TerminalPage ----------------------------
(***************************************************************************)
(* A terminal: the page, its websocket and the agent's shell.              *)
(*                                                                         *)
(* Keys go to the socket when it is open and wait in pendingInput before.  *)
(* A resized window is told to the shell 1.5 s later, and resizes within   *)
(* that time are not told by themselves.  The bridge (IoStream) keeps the  *)
(* order of what the socket sends; the agent tells a size from keys by its *)
(* first byte.                                                             *)
(***************************************************************************)
EXTENDS Naturals, Sequences, SequencesExt

CONSTANTS
  MaxKeys,   \* bound: keys that are typed
  MaxResizes \* bound: times the window is resized

TerminalAssumption == MaxKeys \in Nat /\ MaxResizes \in Nat

VARIABLES
  session,  \* useTerminal: a session was answered, and the component is shown
  socket,   \* "none", "connecting", "open", "closed"
  pending,  \* pendingInputRef
  sleeping, \* sendResize
  ended,    \* "Session completed" is shown
  window,   \* the size of the window
  sent,     \* what the stream carries
  shell,    \* what the shell got: keys, and the size it was told
  typed, resizes

pageVars == <<session, pending, sleeping, ended, window, typed, resizes>>
vars == <<pageVars, socket, sent, shell>>

\* A key with its number, or a size.
Key(n)  == [kind |-> "key", n |-> n]
Size(n) == [kind |-> "size", n |-> n]
Sizes   == {1, 2}
Messages == [kind : {"key"}, n : Nat] \union [kind : {"size"}, n : Sizes]

\* The pty starts with 24 lines, which is no window's size: 0.
Init ==
  /\ session = FALSE /\ socket = "none" /\ pending = <<>> /\ sleeping = FALSE /\ ended = FALSE
  /\ window \in Sizes
  /\ sent = <<>> /\ shell = [keys |-> <<>>, size |-> 0]
  /\ typed = 0 /\ resizes = 0

\* fetchTerminal is answered; the component opens its socket.  A failure leaves the
\* page as it is.
Answered ==
  /\ ~session /\ session' = TRUE /\ socket' = "connecting"
  /\ UNCHANGED <<pending, sleeping, ended, window, sent, shell, typed, resizes>>

\* Mutant of Send: only an open socket takes something.
SendOpen(m) ==
  /\ sent' = IF socket = "open" THEN Append(sent, m) ELSE sent
  /\ UNCHANGED pending

\* sendTerminalData
Send(m) ==
  \/ socket = "open" /\ sent' = Append(sent, m) /\ UNCHANGED pending
  \/ socket # "open" /\ pending' = Append(pending, m) /\ UNCHANGED sent

\* keydown, paste, the terminal's onData.
Type ==
  /\ session /\ typed < MaxKeys /\ typed' = typed + 1
  /\ Send(Key(typed'))
  /\ UNCHANGED <<session, sleeping, ended, window, socket, shell, resizes>>

\* Mutant of ResizeWindow: a resize within the 1.5 s stops the timer.
ResizeWindowStopping(n) ==
  /\ session /\ n # window /\ resizes < MaxResizes
  /\ window' = n /\ resizes' = resizes + 1 /\ sleeping' = ~sleeping
  /\ UNCHANGED <<session, pending, ended, socket, sent, shell, typed>>

\* onResize
ResizeWindow(n) ==
  /\ session /\ n # window /\ resizes < MaxResizes
  /\ window' = n /\ resizes' = resizes + 1 /\ sleeping' = TRUE
  /\ UNCHANGED <<session, pending, ended, socket, sent, shell, typed>>

\* The 1.5 s are over: doResize.
Slept ==
  /\ sleeping /\ sleeping' = FALSE
  /\ Send(Size(window))
  /\ UNCHANGED <<session, ended, window, socket, shell, typed, resizes>>

\* onopen: what waited is sent, then the size.
Opened ==
  /\ socket = "connecting" /\ socket' = "open"
  /\ sent' = sent \o pending /\ pending' = <<>> /\ sleeping' = TRUE
  /\ UNCHANGED <<session, ended, window, shell, typed, resizes>>

\* onclose, whoever ended the stream.
Closed ==
  /\ socket \in {"connecting", "open"} /\ socket' = "closed"
  /\ ended' = TRUE /\ sent' = <<>>
  /\ UNCHANGED <<session, pending, sleeping, window, shell, typed, resizes>>

Dismiss ==
  /\ ended /\ ended' = FALSE
  /\ UNCHANGED <<session, pending, sleeping, window, socket, sent, shell, typed, resizes>>

\* Mutant of AgentTakes: everything is written to the shell.
AgentTakesAll ==
  /\ sent # <<>> /\ sent' = Tail(sent)
  /\ shell' = [shell EXCEPT !.keys = Append(@, Head(sent))]
  /\ UNCHANGED <<pageVars, socket>>

\* run_terminal_stream
AgentTakes ==
  /\ sent # <<>> /\ sent' = Tail(sent)
  /\ LET m == Head(sent) IN
       shell' = IF m.kind = "size" THEN [shell EXCEPT !.size = m.n]
                                   ELSE [shell EXCEPT !.keys = Append(@, m)]
  /\ UNCHANGED <<pageVars, socket>>

Next ==
  \/ Answered \/ Type \/ Slept \/ Opened \/ Closed \/ Dismiss \/ AgentTakes
  \/ \E n \in Sizes : ResizeWindow(n)

Spec == Init /\ [][Next]_vars

\* The timer fires, the stream delivers and the agent reads on.
Fairness == WF_vars(Slept) /\ WF_vars(AgentTakes)
FairSpec == Spec /\ Fairness

-----------------------------------------------------------------------------
TypeOK ==
  /\ session \in BOOLEAN /\ sleeping \in BOOLEAN /\ ended \in BOOLEAN
  /\ socket \in {"none", "connecting", "open", "closed"}
  /\ pending \in Seq(Messages) /\ sent \in Seq(Messages)
  /\ shell \in [keys : Seq([kind : {"key"}, n : Nat]), size : Sizes \union {0}]
  /\ window \in Sizes
  /\ typed \in 0..MaxKeys /\ resizes \in 0..MaxResizes

\* What the page and the stream still hold.
Line == sent \o pending

\* A line holds the keys from one number to another, in this order.
KeysFollow(line, lo, hi) ==
  LET IsKey(i) == line[i].kind = "key" IN
  /\ \A n \in lo + 1..hi : \E i \in 1..Len(line) : line[i] = Key(n)
  /\ \A i \in 1..Len(line) : IsKey(i) => line[i].n \in lo + 1..hi
  /\ \A i, j \in 1..Len(line) : i < j /\ IsKey(i) /\ IsKey(j) => line[i].n < line[j].n

\* The shell gets the keys in the order they were typed, those typed before the
\* socket opened first, and while it is open none is missing.
KeysArrive ==
  LET got == Len(shell.keys) IN
  /\ got <= typed /\ \A i \in 1..got : shell.keys[i] = Key(i)
  /\ socket \in {"connecting", "open"} => KeysFollow(Line, got, typed)

\* Nothing is sent before the socket is open or after it closed, and nothing waits
\* while it is.
SocketCarries ==
  /\ ~session <=> socket = "none"
  /\ socket = "none" => typed = 0 /\ pending = <<>> /\ ~sleeping
  /\ socket # "open" => sent = <<>>
  /\ socket = "open" => pending = <<>>

TerminalIInv == TypeOK /\ SocketCarries /\ KeysArrive

\* The shell learns the size the window came to, although resizes within 1.5 s are
\* told together and the first may fall before the socket is open.
SizeIsTold == (socket = "open" /\ shell.size # window) ~> (shell.size = window \/ socket = "closed")
=============================================================================
