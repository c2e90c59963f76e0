------------------------------ MODULE IoStream ------------------------------
(***************************************************************************)
(* IO streams: terminals, file managers and NAT requests.                  *)
(*                                                                         *)
(* An HTTP handler registers a session under a fresh id, dispatches a task *)
(* with the id to the agent and waits eight seconds until the agent opened *)
(* an IOStream RPC for it.  A websocket (or, for NAT, the handler itself)  *)
(* then bridges two bounded channels with the RPC's two directions.        *)
(*                                                                         *)
(* The session is shared: the registry, the waiting handler, the bridge    *)
(* and the task that reads the agent's direction each hold it, and with it *)
(* the sending halves of both channels and the halves nobody took yet.     *)
(***************************************************************************)
EXTENDS Naturals

CONSTANTS
  Stream,
  Buffer      \* STREAM_BUFFER, 64 in the code

ASSUME StreamAssumption == Buffer \in Nat \ {0}

VARIABLES
  kind,        \* stream -> the handler that creates it
  registered,  \* the streams in the registry
  creator,     \* stream -> where the creating HTTP handler stands
  woken,       \* the waiting handlers notify_waiters reached
  agent,       \* stream -> what became of the agent's side
  to_agent_rx, \* stream -> "here" in the session, "taken" by the RPC, "dropped"
  to_user_rx,  \* stream -> "here" in the session, "taken" by a bridge, "dropped"
  inbound,     \* streams whose agent direction is read by a task
  bridge,      \* stream -> where its bridge stands
  to_agent,    \* stream -> messages in the channel to the agent
  to_user,     \* stream -> messages in the channel to the user
  browser,     \* stream -> the user's side is there
  before       \* history: streams taken by the agent before the wait began

rxVars   == <<to_agent_rx, to_user_rx>>
dataVars == <<to_agent, to_user>>
vars == <<kind, registered, creator, woken, agent, to_agent_rx, to_user_rx, inbound,
          bridge, to_agent, to_user, browser, before>>

Creator == {"idle", "created", "sent", "checked", "waiting",
            "answered", "absent", "offline", "cancelled"}
Pending == {"created", "sent", "checked", "waiting"}
Agent   == {"none", "told", "found", "attached", "over"}
Rx      == {"here", "taken", "dropped"}
Bridge  == {"none", "sending", "head", "select", "over"}
Bridging(i) == bridge[i] \in {"sending", "head", "select"}

\* create_terminal and create_file_manager, serve_nat_request, serve_nat_upgrade.
Kind == {"terminal", "nat", "upgraded"}

Init ==
  /\ kind \in [Stream -> Kind]
  /\ registered = {} /\ woken = {} /\ inbound = {} /\ before = {}
  /\ creator = [i \in Stream |-> "idle"]
  /\ agent = [i \in Stream |-> "none"]
  /\ to_agent_rx = [i \in Stream |-> "here"]
  /\ to_user_rx = [i \in Stream |-> "here"]
  /\ bridge = [i \in Stream |-> "none"]
  /\ to_agent = [i \in Stream |-> 0]
  /\ to_user = [i \in Stream |-> 0]
  /\ browser = [i \in Stream |-> FALSE]

-----------------------------------------------------------------------------
(* create_terminal, create_file_manager; the first half of the NAT handlers *)

Step(i, from, to) == creator[i] = from /\ creator' = [creator EXCEPT ![i] = to]

CreateStream(i) ==
  /\ Step(i, "idle", "created")
  /\ registered' = registered \union {i}
  /\ UNCHANGED <<kind, woken, agent, inbound, bridge, browser, before, rxVars, dataVars>>

\* dispatch_task answers true (TaskDispatch) ...
DispatchSent(i) ==
  /\ Step(i, "created", "sent")
  /\ agent' = [agent EXCEPT ![i] = "told"]
  /\ UNCHANGED <<kind, registered, woken, inbound, bridge, browser, before, rxVars, dataVars>>

\* ... or false; stream tasks are never stored.
DispatchFailed(i) ==
  /\ Step(i, "created", "offline")
  /\ registered' = registered \ {i}
  /\ UNCHANGED <<kind, woken, agent, inbound, bridge, browser, before, rxVars, dataVars>>

\* Mutant of CheckReceiver: the handler does not wait.
CheckNothing(i) ==
  /\ Step(i, "sent", "answered")
  /\ UNCHANGED <<kind, registered, woken, agent, inbound, bridge, browser, before, rxVars, dataVars>>

\* wait_agent_connected looks at the receiver under its lock ...
CheckReceiver(i) ==
  /\ Step(i, "sent", IF to_agent_rx[i] = "here" THEN "checked" ELSE "answered")
  /\ UNCHANGED <<kind, registered, woken, agent, inbound, bridge, browser, before, rxVars, dataVars>>

\* ... and asks to be notified after releasing it: notify_waiters reaches only
\* those who asked.
AwaitNotify(i) ==
  /\ Step(i, "checked", "waiting")
  /\ before' = IF to_agent_rx[i] = "here" THEN before ELSE before \union {i}
  /\ UNCHANGED <<kind, registered, woken, agent, inbound, bridge, browser, rxVars, dataVars>>

Answer(i) ==
  /\ i \in woken
  /\ Step(i, "waiting", "answered")
  /\ UNCHANGED <<kind, registered, woken, agent, inbound, bridge, browser, before, rxVars, dataVars>>

\* Mutants of AnswerAbsent: no timeout once the agent is connecting; the entry stays.
AnswerAbsentLate(i) ==
  /\ i \notin woken /\ agent[i] # "found"
  /\ Step(i, "waiting", "absent")
  /\ registered' = registered \ {i}
  /\ UNCHANGED <<kind, woken, agent, inbound, bridge, browser, before, rxVars, dataVars>>
AnswerAbsentOnly(i) ==
  /\ i \notin woken
  /\ Step(i, "waiting", "absent")
  /\ UNCHANGED <<kind, registered, woken, agent, inbound, bridge, browser, before, rxVars, dataVars>>

\* Eight seconds passed: "agent did not open terminal stream".
AnswerAbsent(i) ==
  /\ i \notin woken
  /\ Step(i, "waiting", "absent")
  /\ registered' = registered \ {i}
  /\ UNCHANGED <<kind, woken, agent, inbound, bridge, browser, before, rxVars, dataVars>>

\* The HTTP client leaves and its handler is dropped; the entry stays.
CancelCreator(i) ==
  /\ creator[i] \in Pending
  /\ creator' = [creator EXCEPT ![i] = "cancelled"]
  /\ UNCHANGED <<kind, registered, woken, agent, inbound, bridge, browser, before, rxVars, dataVars>>

-----------------------------------------------------------------------------
(* io_stream and the agent *)

\* The agent opens the RPC and its init message names the stream; the session
\* is found if it is still registered.
FindSession(i) ==
  /\ agent[i] = "told"
  /\ agent' = [agent EXCEPT ![i] = IF i \in registered THEN "found" ELSE "over"]
  /\ UNCHANGED <<kind, registered, creator, woken, inbound, bridge, browser, before, rxVars, dataVars>>

\* take_agent_receiver, mark_agent_connected, the reading task.
Attach(i) ==
  /\ agent[i] = "found"
  /\ agent' = [agent EXCEPT ![i] = "attached"]
  /\ to_agent_rx' = [to_agent_rx EXCEPT ![i] = "taken"]
  /\ woken' = IF creator[i] = "waiting" THEN woken \union {i} ELSE woken
  /\ inbound' = inbound \union {i}
  /\ UNCHANGED <<kind, registered, creator, to_user_rx, bridge, browser, before, dataVars>>

\* The agent refuses, fails, ends its program or loses the connection.
AgentEnds(i) ==
  /\ agent[i] \in {"told", "found", "attached"}
  /\ agent' = [agent EXCEPT ![i] = "over"]
  /\ UNCHANGED <<kind, registered, creator, woken, inbound, bridge, browser, before, rxVars, dataVars>>

\* The dashboard learns it: the outbound stream is dropped with its receiver ...
DropOutbound(i) ==
  /\ agent[i] = "over" /\ to_agent_rx[i] = "taken"
  /\ to_agent_rx' = [to_agent_rx EXCEPT ![i] = "dropped"]
  /\ to_agent' = [to_agent EXCEPT ![i] = 0]
  /\ UNCHANGED <<kind, registered, creator, woken, agent, to_user_rx, inbound, bridge,
                 to_user, browser, before>>

\* ... and the reading task ends.
EndInbound(i) ==
  /\ agent[i] = "over" /\ i \in inbound
  /\ inbound' = inbound \ {i}
  /\ UNCHANGED <<kind, registered, creator, woken, agent, bridge, browser, before, rxVars, dataVars>>

\* Mutant of AgentOutput: an unbounded channel.
AgentOutputUnbounded(i) ==
  /\ agent[i] = "attached" /\ i \in inbound
  /\ to_user[i] <= Buffer
  /\ to_user' = [to_user EXCEPT ![i] = @ + 1]
  /\ UNCHANGED <<kind, registered, creator, woken, agent, inbound, bridge, to_agent, browser,
                 before, rxVars>>

\* Output of the agent: into the channel, waiting for room; refused for good
\* once the bridge dropped the receiver.
AgentOutput(i) ==
  /\ agent[i] = "attached" /\ i \in inbound
  /\ \/ /\ to_user_rx[i] # "dropped" /\ to_user[i] < Buffer
        /\ to_user' = [to_user EXCEPT ![i] = @ + 1]
        /\ UNCHANGED inbound
     \/ /\ to_user_rx[i] = "dropped"
        /\ inbound' = inbound \ {i}
        /\ UNCHANGED to_user
  /\ UNCHANGED <<kind, registered, creator, woken, agent, bridge, to_agent, browser, before, rxVars>>

DeliverToAgent(i) ==
  /\ agent[i] = "attached" /\ to_agent[i] > 0
  /\ to_agent' = [to_agent EXCEPT ![i] = @ - 1]
  /\ UNCHANGED <<kind, registered, creator, woken, agent, inbound, bridge, to_user, browser,
                 before, rxVars>>

\* Who holds the session, and with it a sender to the agent.
SessionHeld(i) ==
  \/ i \in registered \union inbound
  \/ creator[i] \in {"checked", "waiting"}
  \/ agent[i] = "found"
  \/ Bridging(i)

\* to_agent_rx.recv() answers None; the agent's loop ends with the stream.
EndOutbound(i) ==
  /\ agent[i] = "attached"
  /\ ~SessionHeld(i) /\ to_agent[i] = 0
  /\ agent' = [agent EXCEPT ![i] = "over"]
  /\ to_agent_rx' = [to_agent_rx EXCEPT ![i] = "dropped"]
  /\ UNCHANGED <<kind, registered, creator, woken, to_user_rx, inbound, bridge, browser,
                 before, dataVars>>

-----------------------------------------------------------------------------
(* bridge_websocket_stream; the second half of the NAT handlers *)

\* The user learned the id from the answer; stream_upgrade and the bridge find
\* the session in the registry.  A second bridge finds the receiver taken and
\* returns without a trace.
StartBridge(i) ==
  /\ creator[i] = "answered"
  /\ i \in registered
  /\ to_user_rx[i] = "here"
  /\ to_user_rx' = [to_user_rx EXCEPT ![i] = "taken"]
  /\ bridge' = [bridge EXCEPT ![i] = IF kind[i] = "terminal" THEN "select" ELSE "sending"]
  /\ browser' = [browser EXCEPT ![i] = TRUE]
  /\ UNCHANGED <<kind, registered, creator, woken, agent, to_agent_rx, inbound, before, dataVars>>

\* A message from the user: the loop is in send_to_agent until it has room.
UserInput(i) ==
  /\ kind[i] = "terminal" /\ bridge[i] = "select" /\ browser[i]
  /\ bridge' = [bridge EXCEPT ![i] = "sending"]
  /\ UNCHANGED <<kind, registered, creator, woken, agent, inbound, browser, before,
                 rxVars, dataVars>>

\* After an upgrade a task of its own reads the client: client_to_agent.
ClientInput(i) ==
  /\ kind[i] = "upgraded" /\ bridge[i] = "select" /\ browser[i]
  /\ to_agent_rx[i] # "dropped" /\ to_agent[i] < Buffer
  /\ to_agent' = [to_agent EXCEPT ![i] = @ + 1]
  /\ UNCHANGED <<kind, registered, creator, woken, agent, inbound, bridge, to_user,
                 browser, before, rxVars>>

\* The message, or the NAT request, is in the channel; an upgrade waits for the
\* head of the response next.
SendToAgent(i) ==
  /\ bridge[i] = "sending"
  /\ to_agent_rx[i] # "dropped" /\ to_agent[i] < Buffer
  /\ to_agent' = [to_agent EXCEPT ![i] = @ + 1]
  /\ bridge' = [bridge EXCEPT ![i] = IF kind[i] = "upgraded" THEN "head" ELSE "select"]
  /\ UNCHANGED <<kind, registered, creator, woken, agent, inbound, to_user, browser,
                 before, rxVars>>

ForwardToUser(i) ==
  /\ bridge[i] \in {"head", "select"} /\ browser[i] /\ to_user[i] > 0
  /\ to_user' = [to_user EXCEPT ![i] = @ - 1]
  /\ bridge' = [bridge EXCEPT ![i] = "select"]
  /\ UNCHANGED <<kind, registered, creator, woken, agent, inbound, to_agent, browser,
                 before, rxVars>>

UserLeaves(i) ==
  /\ browser[i]
  /\ browser' = [browser EXCEPT ![i] = FALSE]
  /\ UNCHANGED <<kind, registered, creator, woken, agent, inbound, bridge, before, rxVars, dataVars>>

\* Mutant of LeaveBridge: the receiver goes back into the session.
LeaveBridgeKeeping(i) ==
  /\ bridge' = [bridge EXCEPT ![i] = "over"]
  /\ UNCHANGED <<kind, creator, woken, agent, inbound, browser, before, rxVars, dataVars>>

\* The bridge's own references go with it.
LeaveBridge(i) ==
  /\ bridge' = [bridge EXCEPT ![i] = "over"]
  /\ to_user_rx' = [to_user_rx EXCEPT ![i] = "dropped"]
  /\ to_user' = [to_user EXCEPT ![i] = 0]
  /\ UNCHANGED <<kind, creator, woken, agent, to_agent_rx, inbound, to_agent, browser, before>>

\* Mutant of BridgeOver: a failed send is ignored.
BridgeOverOnLeave(i) ==
  \/ kind[i] = "terminal" /\ bridge[i] = "select" /\ ~browser[i]
  \/ to_user[i] > 0 /\ bridge[i] = "head"

\* The bridge breaks off: a send failed; the user of a terminal left; output of
\* the agent is not the response that is expected, completes a chunked one, or
\* finds the client of an upgraded connection gone.  Nothing else tells that
\* bridge: it does not look at client_to_agent, and holds a sender itself.
BridgeOver(i) ==
  \/ bridge[i] = "sending" /\ to_agent_rx[i] = "dropped"
  \/ kind[i] = "terminal" /\ bridge[i] = "select" /\ ~browser[i]
  \/ /\ to_user[i] > 0
     /\ \/ bridge[i] = "head"
        \/ kind[i] = "nat" /\ bridge[i] = "select"
        \/ kind[i] = "upgraded" /\ bridge[i] = "select" /\ ~browser[i]

\* ... and calls close_stream.
EndBridge(i) ==
  /\ BridgeOver(i)
  /\ LeaveBridge(i)
  /\ registered' = registered \ {i}

\* The client of a NAT request leaves: the server drops the handler, or the body
\* of the response, where it awaits, and close_stream does not run.  After an
\* upgrade there is no handler to drop.
DropHandler(i) ==
  /\ ~browser[i]
  /\ \/ kind[i] = "nat" /\ Bridging(i)
     \/ kind[i] = "upgraded" /\ bridge[i] \in {"sending", "head"}
  /\ LeaveBridge(i)
  /\ UNCHANGED registered

\* The body is as long as the response's Content-Length said: the server does
\* not poll it again and drops it, close_stream behind the loop included.
CompleteBody(i) ==
  /\ kind[i] = "nat" /\ bridge[i] = "select"
  /\ LeaveBridge(i)
  /\ UNCHANGED registered

Next ==
  \E i \in Stream :
    \/ CreateStream(i) \/ DispatchSent(i) \/ DispatchFailed(i) \/ CheckReceiver(i)
    \/ AwaitNotify(i) \/ Answer(i) \/ AnswerAbsent(i) \/ CancelCreator(i)
    \/ FindSession(i) \/ Attach(i) \/ AgentEnds(i) \/ DropOutbound(i)
    \/ EndInbound(i) \/ AgentOutput(i) \/ DeliverToAgent(i) \/ EndOutbound(i)
    \/ StartBridge(i) \/ UserInput(i) \/ SendToAgent(i) \/ ForwardToUser(i)
    \/ ClientInput(i) \/ UserLeaves(i) \/ EndBridge(i) \/ DropHandler(i)
    \/ CompleteBody(i)

Spec == Init /\ [][Next]_vars

\* Handlers and tasks run to their next await, timers fire, and the agent's
\* program takes its input whether or not its output finds room.  No fairness
\* for users, agents coming and going, and the agent's output.
Fairness ==
  \A i \in Stream :
    /\ WF_vars(DispatchSent(i) \/ DispatchFailed(i))
    /\ WF_vars(CheckReceiver(i)) /\ WF_vars(AwaitNotify(i))
    /\ WF_vars(Answer(i) \/ AnswerAbsent(i))
    /\ WF_vars(FindSession(i)) /\ WF_vars(DropOutbound(i))
    /\ WF_vars(EndInbound(i)) /\ WF_vars(EndOutbound(i))
    /\ WF_vars(DeliverToAgent(i)) /\ WF_vars(SendToAgent(i))
    /\ WF_vars(EndBridge(i) \/ ForwardToUser(i)) /\ WF_vars(DropHandler(i))

FairSpec == Spec /\ Fairness

-----------------------------------------------------------------------------
TypeOK ==
  /\ kind \in [Stream -> Kind]
  /\ registered \subseteq Stream /\ woken \subseteq Stream
  /\ inbound \subseteq Stream /\ before \subseteq Stream
  /\ creator \in [Stream -> Creator] /\ agent \in [Stream -> Agent]
  /\ to_agent_rx \in [Stream -> Rx] /\ to_user_rx \in [Stream -> Rx]
  /\ bridge \in [Stream -> Bridge]
  /\ to_agent \in [Stream -> 0..Buffer] /\ to_user \in [Stream -> 0..Buffer]
  /\ browser \in [Stream -> BOOLEAN]

\* A handler answers with the id only after the agent took its half, whichever
\* of the look at the receiver and the notification told it, and the entry of
\* a stream stays while it is bridged: nobody else's failure path removes it.
AnsweredStreamsWork ==
  \A i \in Stream :
    /\ creator[i] = "answered" => to_agent_rx[i] # "here"
    /\ Bridging(i) => i \in registered

\* A handler that answered with an error leaves no entry, so that an agent that
\* comes later is turned away and no user can bridge the stream.
FailedCreatorsLeaveNothing ==
  \A i \in Stream : creator[i] \in {"offline", "absent"} =>
    i \notin registered /\ bridge[i] = "none"

\* What a handler answered is what became of the stream.
AnswersHold == AnsweredStreamsWork /\ FailedCreatorsLeaveNothing

\* Why it holds.  Only what was answered is bridged, so that a handler that gives up
\* takes no entry from a bridge; only an agent that took its half wakes a handler.
BridgedAreAnswered ==
  \A i \in Stream :
    /\ bridge[i] # "none" => creator[i] = "answered"
    /\ i \in woken => to_agent_rx[i] # "here"

StreamIInv == TypeOK /\ BridgedAreAnswered /\ AnswersHold

\* Every creating handler comes to an answer, whatever the agent does or does
\* not do, and whatever notification it missed.
CreatorAnswers == \A i \in Stream : (creator[i] \in Pending) ~> (creator[i] \notin Pending)

\* A bridge whose user left ends, even in the middle of a send to an agent that
\* is gone.  An upgraded one ends with the next output of the agent; a silent
\* agent, or one that is gone, keeps it and its entry for good.
BridgeEnds ==
  \A i \in Stream :
    /\ Bridging(i) /\ ~browser[i] /\ ~(kind[i] = "upgraded" /\ bridge[i] = "select")
         ~> ~Bridging(i)
    /\ Bridging(i) /\ ~browser[i] /\ to_user[i] > 0 ~> ~Bridging(i)

\* The agent's side of a stream that was closed ends too, provided the agent
\* has more output: only the refused output ends the task whose reference
\* keeps the other direction open (an idle shell stays).
AgentSideEnds ==
  \A i \in Stream :
    WF_vars(AgentOutput(i)) =>
      ((bridge[i] = "over" /\ i \notin registered) ~> (agent[i] = "over"))

\* Handlers answer, and both sides of a stream end, as far as the code sees to it.
StreamsEnd == CreatorAnswers /\ BridgeEnds /\ AgentSideEnds

\* "agent did not open terminal stream" is answered only when the agent had not
\* opened it by the time the wait began (http.rs, create_terminal).  A take and
\* notify between the look at the receiver and the registration of the waiter
\* is missed, and a connected stream is given up after eight seconds.
NoFalseAbsence == \A i \in Stream : creator[i] = "absent" => i \notin before
=============================================================================
