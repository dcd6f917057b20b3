------------------------------ MODULE MqttEntity ------------------------------
(***************************************************************************)
(* The Home Assistant update entity: app/mqtt_update.py with the calls     *)
(* that app/main.py makes of it.  The main thread publishes, the network   *)
(* thread of the MQTT client connects, greets the broker and hands         *)
(* commands to the operation slot; the broker keeps the last message of    *)
(* each topic for whoever subscribes later, across runs of the add-on.     *)
(*                                                                         *)
(* Client library and broker are external and modelled by what the add-on  *)
(* sees of them: a publication without a connection is refused and still   *)
(* kept, what was kept is sent after on_connect of the next connection, a  *)
(* session that breaks leaves its will, and one that is closed does not.   *)
(***************************************************************************)
EXTENDS Naturals, SequencesExt

CONSTANTS
  Requests,   \* what users ask for: messages to the command topic
  MaxOps,     \* bound: commands accepted
  MaxFaults,  \* bound: breaks of a connection that works
  MaxRuns,    \* bound: runs of the add-on
  MaxQueued   \* bound: states under way to the broker

ASSUME BoundsAssumption ==
  /\ MaxOps \in Nat /\ MaxFaults \in Nat
  /\ MaxRuns \in Nat \ {0} /\ MaxQueued \in Nat

VARIABLES
  retained,   \* the broker's last message of each topic
  session,    \* of this client at the broker
  subscribed, \* the session receives commands
  inbox,      \* commands on their way to the client
  asked,      \* history: requests that users made
  net,        \* what the network thread is doing
  connected,  \* _connected
  wire,       \* messages on their way to the broker
  pending,    \* publications kept for the next connection
  pc,         \* where the main thread is
  slot, phase, executed,  \* the operation controller
  origin,     \* history: the request behind each accepted command
  faults, runs, \* history: of the bounds
  late        \* history: a run came online after it had begun to leave

brokerVars == <<retained, session, subscribed, inbox>>
clientVars == <<net, connected, wire, pending>>
slotVars == <<slot, phase, executed, origin>>
countVars == <<faults, runs>>
vars == <<brokerVars, clientVars, slotVars, countVars, asked, pc, late>>

NoCommand == "none"

ASSUME CommandAssumption == NoCommand \notin Requests

Topics ==
  [availability : {"none", "online", "offline"}, state : {"none", "idle", "progress"},
   discovery : {"legacy", "current"}, command : Requests \cup {NoCommand}]

Messages ==
  {"config", "subscribe", "online", "offline", "idle", "progress", "disconnect"}

Deliveries == [request : Requests, retain : BOOLEAN, dup : BOOLEAN]

\* What OperationController does for its users, see its ImplementsSlot.
Slot == INSTANCE OperationSlot WITH Ops <- 1..MaxOps, NoOp <- 0

-----------------------------------------------------------------------------
(***************************************************************************)
(* The broker.                                                             *)
(***************************************************************************)
Retain(message) ==
  CASE message \in {"online", "offline"} -> [retained EXCEPT !.availability = message]
    [] message \in {"idle", "progress"}  -> [retained EXCEPT !.state = message]
    [] message = "config"                -> [retained EXCEPT !.discovery = "current"]
    [] OTHER                             -> retained

\* A new subscriber is told what was retained.
Replay ==
  IF retained.command = NoCommand THEN inbox
  ELSE Append(inbox, [request |-> retained.command, retain |-> TRUE, dup |-> FALSE])

Deliver ==
  /\ session = "live" /\ wire # <<>>
  /\ wire' = Tail(wire)
  /\ retained' = Retain(Head(wire))
  /\ CASE Head(wire) = "subscribe" ->
            subscribed' = TRUE /\ inbox' = Replay /\ UNCHANGED session
       [] Head(wire) = "disconnect" ->
            subscribed' = FALSE /\ inbox' = <<>> /\ session' = "none"
       [] OTHER -> UNCHANGED <<session, subscribed, inbox>>
  /\ UNCHANGED <<slotVars, countVars, asked, net, connected, pending, pc, late>>

\* The session ends without a word and the broker publishes the will.  It
\* notices a client that is gone; with a working client this is a fault.
Expire ==
  /\ session # "none"
  /\ \/ net = "down" \/ session = "old"
     \/ faults < MaxFaults
  /\ faults' = IF net = "down" \/ session = "old" THEN faults ELSE faults + 1
  /\ session' = "none" /\ subscribed' = FALSE /\ inbox' = <<>>
  /\ retained' = [retained EXCEPT !.availability = "offline"]
  /\ UNCHANGED <<clientVars, slotVars, runs, asked, pc, late>>

\* A user publishes INSTALL, which some automations ask the broker to retain.
Ask(r, retain) ==
  /\ r \notin asked
  /\ asked' = asked \cup {r}
  /\ retained' = IF retain THEN [retained EXCEPT !.command = r] ELSE retained
  /\ inbox' = IF subscribed
              THEN Append(inbox, [request |-> r, retain |-> FALSE, dup |-> FALSE])
              ELSE inbox
  /\ UNCHANGED <<clientVars, slotVars, countVars, session, subscribed, pc, late>>

\* A message of this session that was not acknowledged in time.
Redeliver(r) ==
  /\ subscribed /\ r \in asked /\ inbox = <<>>
  /\ inbox' = <<[request |-> r, retain |-> FALSE, dup |-> TRUE]>>
  /\ UNCHANGED <<clientVars, slotVars, countVars, retained, session, subscribed, asked,
                 pc, late>>

-----------------------------------------------------------------------------
(***************************************************************************)
(* The network thread.                                                     *)
(***************************************************************************)
\* Between start and the end of loop_stop.
Looping == pc # "end"

\* A thread that was asked to end does not dial again.
Dial ==
  /\ Looping /\ pc # "joining" /\ net = "down"
  /\ net' = "connecting" /\ wire' = <<>>
  /\ session' = IF session = "live" THEN "old" ELSE session
  /\ UNCHANGED <<slotVars, countVars, retained, subscribed, inbox, asked, connected,
                 pending, pc, late>>

\* The new session takes the place of an old one, which leaves its will.
Take ==
  /\ session' = "live" /\ subscribed' = FALSE /\ inbox' = <<>>
  /\ retained' = IF session = "old" THEN [retained EXCEPT !.availability = "offline"]
                 ELSE retained

\* MUTANT of Greeting: available before it can be asked.
OnlineFirst == <<"online", "config", "subscribe">>

\* What on_connect does before it says that the entity is available; "config"
\* stands for the discovery record and the clearing of the retired helpers.
Greeting == <<"config", "subscribe">>

\* The connection is accepted and on_connect begins.
Accept ==
  /\ Looping /\ net = "connecting"
  /\ Take
  /\ net' = "greeting"
  /\ wire' = wire \o Greeting
  /\ UNCHANGED <<slotVars, countVars, asked, connected, pending, pc, late>>

\* MUTANT of Online: Home Assistant waits for another word.
OnlineMisspelt ==
  wire' = Append(wire, "available") \o pending /\ connected' = TRUE

\* MUTANT of Online: a connection after the first one is not announced.
OnlineOnce ==
  /\ wire' = (IF connected THEN wire ELSE Append(wire, "online")) \o pending
  /\ connected' = TRUE

Online == wire' = Append(wire, "online") \o pending /\ connected' = TRUE

\* on_connect ends; the library sends what it has kept.
Greet ==
  /\ Looping /\ net = "greeting"
  /\ Online
  /\ pending' = <<>>
  /\ net' = "up"
  /\ late' = (late \/ pc = "joining")
  /\ UNCHANGED <<brokerVars, slotVars, countVars, asked, pc>>

\* A refused connection, a broken one, or one whose session the broker ended;
\* what was not delivered is kept, but for the subscription.
Lose ==
  /\ Looping /\ net \in {"connecting", "up"}
  /\ \/ net = "up" /\ session = "none" /\ UNCHANGED faults
     \/ faults < MaxFaults /\ faults' = faults + 1
  /\ net' = "down"
  /\ pending' = pending \o RemoveFirst(wire, "subscribe")
  /\ wire' = <<>>
  /\ UNCHANGED <<brokerVars, slotVars, asked, runs, connected, pc, late>>

\* MUTANT of Fresh: only redeliveries are refused.
FreshUnlessDup(m) == ~m.dup

\* Neither replayed by the broker to a new subscriber nor delivered again.
Fresh(m) == ~m.retain /\ ~m.dup

\* on_message; a busy controller refuses the command.
Receive ==
  /\ Looping /\ net = "up" /\ inbox # <<>>
  /\ inbox' = Tail(inbox)
  /\ IF Fresh(Head(inbox)) /\ slot = 0
     THEN /\ Slot!Accept(Len(origin) + 1)
          /\ Len(origin) < MaxOps
          /\ origin' = Append(origin, Head(inbox).request)
     ELSE UNCHANGED slotVars
  /\ UNCHANGED <<clientVars, countVars, retained, session, subscribed, asked, pc, late>>

-----------------------------------------------------------------------------
(***************************************************************************)
(* The main thread.                                                        *)
(***************************************************************************)
\* Client.publish: without a connection the message is kept, and the caller
\* is told that it was not sent.
Publish(message) ==
  /\ IF net = "down"
     THEN pending' = Append(pending, message) /\ UNCHANGED wire
     ELSE wire' = Append(wire, message) /\ UNCHANGED pending
  /\ UNCHANGED <<net, connected>>

States(messages) == SelectSeq(messages, LAMBDA m : m \in {"idle", "progress"})

\* The state topic and, with it, the attributes.
PublishState(message) ==
  /\ Len(States(wire \o pending)) < MaxQueued
  /\ Publish(message)

Refused == net = "down"

Started ==
  /\ pc = "starting" /\ connected
  /\ pc' = "first"
  /\ UNCHANGED <<brokerVars, clientVars, slotVars, countVars, asked, late>>

\* The wait for the connection is over: loop_stop and disconnect; stop, which
\* the main loop calls next, can send nothing any more.
StartTimesOut ==
  /\ pc = "starting" /\ ~connected
  /\ pc' = "joining"
  /\ UNCHANGED <<brokerVars, clientVars, slotVars, countVars, asked, late>>

\* MUTANT of Refresh: nothing is published when nothing was asked.
RefreshQuietly ==
  /\ pc \in {"first", "idle"}
  /\ pc' = "idle"
  /\ UNCHANGED <<clientVars, brokerVars, slotVars, countVars, asked, late>>

\* The first publication of a run and those of the refreshes and rescans.  A
\* refused one ends the run.
Refresh ==
  /\ pc \in {"first", "idle"}
  /\ PublishState("idle")
  /\ pc' = IF Refused THEN "leaving" ELSE "idle"
  /\ UNCHANGED <<brokerVars, slotVars, countVars, asked, late>>

Begin ==
  /\ pc = "idle" /\ Slot!Execute
  /\ pc' = "run"
  /\ UNCHANGED <<brokerVars, clientVars, countVars, asked, late, origin>>

\* The updater reports a stage and does not mind a refusal.
Progress ==
  /\ pc = "run" /\ PublishState("progress")
  /\ UNCHANGED <<brokerVars, slotVars, countVars, asked, pc, late>>

\* The operation is announced, then its outcome is published; a refusal is
\* caught.
Finish ==
  /\ pc = "run" /\ (Slot!Succeed \/ Slot!Fail)
  /\ PublishState("idle")
  /\ pc' = "idle"
  /\ UNCHANGED <<brokerVars, countVars, asked, late, origin>>

\* SIGTERM, or an error that the loop does not catch.
Leave ==
  /\ pc = "idle"
  /\ pc' = "leaving"
  /\ UNCHANGED <<brokerVars, clientVars, slotVars, countVars, asked, late>>

\* MUTANT of SayOffline: the entity is left to the will.
SayNothing == UNCHANGED clientVars

SayOffline == IF connected THEN Publish("offline") ELSE UNCHANGED clientVars

\* stop publishes, whatever it is told.
Stop ==
  /\ pc = "leaving"
  /\ SayOffline
  /\ pc' = "joining"
  /\ UNCHANGED <<brokerVars, slotVars, countVars, asked, late>>

\* loop_stop waits for the network thread, which first sends what it has;
\* disconnect closes the session.
Join ==
  /\ pc = "joining" /\ net # "greeting"
  /\ wire' = IF net = "up" THEN Append(wire, "disconnect") ELSE wire
  /\ net' = "down" /\ pending' = <<>>
  /\ pc' = "end"
  /\ UNCHANGED <<brokerVars, slotVars, countVars, asked, connected, late>>

\* The host kills the process or loses power.
Kill ==
  /\ pc # "end" /\ faults < MaxFaults
  /\ faults' = faults + 1
  /\ pc' = "end" /\ net' = "down" /\ pending' = <<>>
  /\ UNCHANGED <<brokerVars, slotVars, runs, asked, connected, wire, late>>

\* A new process: a new client and an empty controller.
Restart ==
  /\ pc = "end" /\ runs < MaxRuns
  /\ runs' = runs + 1
  /\ pc' = "starting"
  /\ connected' = FALSE
  /\ slot' = 0 /\ phase' = "idle"
  /\ UNCHANGED <<brokerVars, net, wire, pending, executed, origin, asked, faults, late>>

-----------------------------------------------------------------------------
\* An earlier release of the add-on has published its helpers.
Init ==
  /\ retained = [availability |-> "none", state |-> "none",
                 discovery |-> "legacy", command |-> NoCommand]
  /\ session = "none" /\ subscribed = FALSE /\ inbox = <<>> /\ asked = {}
  /\ net = "down" /\ connected = FALSE /\ wire = <<>> /\ pending = <<>>
  /\ pc = "starting" /\ Slot!Init /\ origin = <<>>
  /\ faults = 0 /\ runs = 1 /\ late = FALSE

Network == Dial \/ Accept \/ Greet \/ Lose \/ Receive

Main ==
  Started \/ StartTimesOut \/ Refresh \/ Begin \/ Progress \/ Finish \/ Leave \/ Stop \/ Join

Broker == Deliver \/ Expire \/ (\E r \in Requests : Redeliver(r))

Users == \E r \in Requests, retain \in BOOLEAN : Ask(r, retain)

Next == Network \/ Main \/ Broker \/ Users \/ Kill \/ Restart

\* The threads of the add-on and the broker go on; the loop comes back to its
\* refreshes, and every operation ends.  Nobody has to ask, to stop or to
\* restart, and no connection has to break.
Fairness ==
  /\ WF_vars(Dial) /\ WF_vars(Accept) /\ WF_vars(Greet) /\ WF_vars(Receive)
  /\ WF_vars(net = "up" /\ session = "none" /\ Lose)
  /\ WF_vars(Deliver) /\ WF_vars((net = "down" \/ session = "old") /\ Expire)
  /\ WF_vars(Started \/ StartTimesOut) /\ SF_vars(Refresh) /\ SF_vars(Finish)
  /\ WF_vars(Stop) /\ WF_vars(Join)

Spec == Init /\ [][Next]_vars /\ Fairness

-----------------------------------------------------------------------------
(***************************************************************************)
(* Properties.                                                             *)
(***************************************************************************)
\* Every variable stays in its range.
TypeOK ==
  /\ retained \in Topics /\ session \in {"none", "old", "live"}
  /\ subscribed \in BOOLEAN /\ inbox \in Seq(Deliveries) /\ asked \subseteq Requests
  /\ net \in {"down", "connecting", "greeting", "up"} /\ connected \in BOOLEAN
  /\ wire \in Seq(Messages) /\ pending \in Seq(Messages)
  /\ pc \in {"starting", "first", "idle", "run", "leaving", "joining", "end"}
  /\ slot \in 0..MaxOps /\ executed \subseteq 1..MaxOps /\ origin \in Seq(Requests)

\* mqtt_update.py:174-184 and README.md:103-106: whatever the broker replays or
\* delivers again, after any reconnection or restart, no request of a user is
\* executed twice.
RequestRunsOnce ==
  \A i, j \in executed : origin[i] = origin[j] => i = j

\* mqtt_update.py:168-171: who sees the entity available in a session of the
\* broker finds it discovered, without its retired helpers, and heard: the
\* command topic is subscribed before availability is announced.  Only what a
\* run left behind that came online while it was leaving can mislead.
AvailableIsHeard ==
  retained.availability = "online" /\ session = "live" /\ ~late =>
    subscribed /\ retained.discovery = "current"

\* mqtt_update.py:122-127 with the will of line 104: when the run is over, the
\* entity becomes unavailable, however the run ended.  The exception: a
\* connection was accepted while the run was already leaving.
EndsUnavailable ==
  pc = "end" ~> retained.availability # "online" \/ late \/ pc # "end"

\* mqtt_update.py:156-172: a run that goes on is available again after its
\* connections broke.
BecomesAvailable ==
  pc = "starting" \/ (pc = "idle" /\ retained.availability # "online")
    ~> retained.availability = "online" \/ pc = "end"

\* main.py:327-344, 380-398: an operation in progress that is shown after the
\* operation has ended, by a message kept during an outage or by a run that
\* was killed, is corrected while the add-on runs.
StaleProgressEnds ==
  retained.state = "progress" /\ pc # "run"
    ~> retained.state # "progress" \/ pc \in {"run", "end"}

=============================================================================
