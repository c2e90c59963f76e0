------------------------------ MODULE MCStreams -------------------------------
(* IO streams for TLC: IoStream, and what runs over one that is answered, a  *)
(* FileManager or a TerminalPage.  A behaviour is one of the three, the      *)
(* others rest in states without a step that is due: fairness for all three  *)
(* is fairness for the one that goes on.                                     *)
EXTENDS IoStream, FiniteSets

CONSTANTS MaxClicks, MaxSize, MaxUpsets, MaxKeys, MaxResizes

VARIABLES
  scene, \* which of the three goes on
  path, first, ready, waiting, d_open, u_open, feeding, up, down, receiving, task,
  work, file, told, saved, stored, clicks, upsets, why,
  session, socket, pending, sleeping, ended, window, sent, shell, typed, resizes

filesVars    == <<path, first, ready, waiting, d_open, u_open, feeding, up, down, receiving,
                  task, work, file, told, saved, stored, clicks, upsets, why>>
terminalVars == <<session, socket, pending, sleeping, ended, window, sent, shell, typed, resizes>>

Files    == INSTANCE FileManager
Terminal == INSTANCE TerminalPage

ASSUME StreamsAssumption ==
  StreamAssumption /\ Files!FilesAssumption /\ Terminal!TerminalAssumption

StreamsInit ==
  /\ scene \in {"stream", "files", "terminal"}
  /\ Init
  /\ scene = "stream" \/ kind \in [Stream -> {"terminal"}]
  /\ IF scene = "files" THEN Files!Init ELSE Files!OpenedWith(<<>>)
  /\ Terminal!Init
  /\ scene = "terminal" \/ window = 1

StreamsNext ==
  \/ scene = "stream" /\ Next /\ UNCHANGED <<scene, filesVars, terminalVars>>
  \/ scene = "files" /\ Files!Next /\ UNCHANGED <<scene, vars, terminalVars>>
  \/ scene = "terminal" /\ Terminal!Next /\ UNCHANGED <<scene, vars, filesVars>>

StreamsSpec ==
  /\ StreamsInit /\ [][StreamsNext]_<<scene, vars, filesVars, terminalVars>>
  /\ Fairness /\ Files!Fairness /\ Terminal!Fairness

\* Bound: one of the reasons FileManager names, not several.
OneReason == Cardinality(why \ {"swallowed"}) <= 1

\* The variables of the three have their types: no buffer takes more than it holds, no
\* stream is bridged but answered ones, a file's size is that of its parts, the shell
\* gets keys only.  What does not go on is in a first state, and needs no look.
StreamsTypeOK ==
  CASE scene = "stream" -> StreamIInv
    [] scene = "files" -> Files!FilesIInv
    [] scene = "terminal" -> Terminal!TerminalIInv

\* FileManager: files are whole on both sides, and the page is back.  TerminalPage: the
\* shell gets the keys in the order they were typed, those before the socket opened too.
SentIsWhatArrives == Files!FilesAreWhole /\ Terminal!KeysArrive

\* FileManager: transfers and lists end.
PageRests == Files!PageRests

\* TerminalPage: the shell learns the size.
SizeIsTold == Terminal!SizeIsTold
=============================================================================
