--------------------------- MODULE MqttEntity_proofs ---------------------------
(***************************************************************************)
(* Theorems about MqttEntity, for every set of requests and without        *)
(* regard to its bounds.  No reconnection, replay, redelivery, crash or    *)
(* restart makes the add-on execute a request of a user twice; and who     *)
(* sees the entity available in a session of the broker finds it           *)
(* discovered and heard.                                                   *)
(***************************************************************************)
EXTENDS MqttEntity, SequenceTheorems, WellFoundedInduction, TLAPS

-----------------------------------------------------------------------------
(***************************************************************************)
(* The inductive invariant.  A request is fresh in the inbox at most once, *)
(* and then it was never accepted; what was accepted has its own place in  *)
(* origin; and only what was accepted is executed.                         *)
(***************************************************************************)
TypesOK ==
  /\ inbox \in Seq(Deliveries) /\ asked \subseteq Requests
  /\ retained.command \in Requests \cup {NoCommand}
  /\ origin \in Seq(Requests)

IsFresh(i) == i \in 1..Len(inbox) /\ Fresh(inbox[i])

InboxOK ==
  /\ \A i \in 1..Len(inbox) : IsFresh(i) =>
       /\ inbox[i].request \in asked
       /\ \A k \in 1..Len(origin) : origin[k] # inbox[i].request
  /\ \A i, j \in 1..Len(inbox) :
       IsFresh(i) /\ IsFresh(j) /\ inbox[i].request = inbox[j].request => i = j

OriginOK ==
  /\ \A k \in 1..Len(origin) : origin[k] \in asked
  /\ \A k, l \in 1..Len(origin) : origin[k] = origin[l] => k = l

SlotOK ==
  /\ slot \in 0..Len(origin)
  /\ executed \subseteq 1..Len(origin)

IInv == TypesOK /\ InboxOK /\ OriginOK /\ SlotOK

\* The invariant holds initially.
LEMMA IInvInit == Init => IInv
  BY DEF Init, IInv, TypesOK, InboxOK, OriginOK, SlotOK, IsFresh, Slot!Init

\* A session that is not a subscriber any more has nothing in its inbox.
LEMMA EmptyInbox ==
  ASSUME IInv, inbox' = <<>>, UNCHANGED <<slotVars, asked>>,
         retained'.command = retained.command
  PROVE  IInv'
  BY DEF IInv, TypesOK, InboxOK, OriginOK, SlotOK, IsFresh, slotVars

\* An added message that is not fresh is not accepted.
LEMMA StaleKeeps ==
  ASSUME IInv, NEW m \in Deliveries, ~Fresh(m),
         inbox' = Append(inbox, m) \/ inbox' = <<m>>,
         UNCHANGED <<slotVars, asked>>, retained'.command = retained.command
  PROVE  IInv'
  <1> USE DEF IInv
  <1>1. TypesOK' /\ OriginOK' /\ SlotOK'
    <2>1. inbox \in Seq(Deliveries)
      BY DEF TypesOK
    <2>2. inbox' \in Seq(Deliveries)
      <3>1. Append(inbox, m) \in Seq(Deliveries) /\ <<m>> \in Seq(Deliveries)
        BY <2>1
      <3> QED
        BY <3>1
    <2> QED
      BY <2>2 DEF TypesOK, OriginOK, SlotOK, slotVars
  <1>2. \A i : IsFresh(i)' => IsFresh(i) /\ inbox'[i] = inbox[i]
    <2>1. CASE inbox' = Append(inbox, m)
      <3>1. /\ Len(inbox') = Len(inbox) + 1 /\ Len(inbox) \in Nat
            /\ \A i \in 1..Len(inbox) : inbox'[i] = inbox[i]
            /\ inbox'[Len(inbox) + 1] = m
        BY <2>1 DEF TypesOK
      <3> QED
        BY <3>1 DEF IsFresh
    <2>2. CASE inbox' = <<m>>
      <3>1. 1..Len(inbox') = {1} /\ inbox'[1] = m
        BY <2>2
      <3> QED
        BY <3>1 DEF IsFresh
    <2> QED
      BY <2>1, <2>2
  <1>3. InboxOK'
    BY <1>2 DEF InboxOK, IsFresh, slotVars
  <1> QED
    BY <1>1, <1>3

\* What the broker does keeps the invariant.
LEMMA BrokerKeeps ==
  ASSUME IInv, Broker
  PROVE  IInv'
  <1> USE DEF IInv
  <1>1. CASE Deliver
    <2>1. UNCHANGED <<slotVars, asked>>
      BY <1>1 DEF Deliver
    <2>2. retained'.command = retained.command
      BY <1>1 DEF Deliver, Retain
    <2>3. inbox' = <<>> \/ UNCHANGED inbox \/ inbox' = Replay
      BY <1>1 DEF Deliver
    <2> DEFINE m == [request |-> retained.command, retain |-> TRUE, dup |-> FALSE]
    <2>4. inbox' = <<>> \/ UNCHANGED inbox
            \/ (retained.command # NoCommand /\ inbox' = Append(inbox, m))
      BY <2>3 DEF Replay
    <2>5. CASE UNCHANGED inbox
      BY <2>1, <2>2, <2>5 DEF TypesOK, InboxOK, OriginOK, SlotOK, IsFresh, slotVars
    <2>6. CASE retained.command # NoCommand /\ inbox' = Append(inbox, m)
      <3>1. m \in Deliveries /\ ~Fresh(m)
        BY <2>6 DEF TypesOK, Deliveries, Fresh
      <3> QED
        BY <2>1, <2>2, <2>6, <3>1, StaleKeeps
    <2> QED
      BY <2>1, <2>2, <2>4, <2>5, <2>6, EmptyInbox
  <1>2. CASE Expire
    BY <1>2, EmptyInbox DEF Expire
  <1>3. ASSUME NEW r \in Requests, Redeliver(r)
        PROVE  IInv'
    <2> DEFINE m == [request |-> r, retain |-> FALSE, dup |-> TRUE]
    <2>1. m \in Deliveries /\ ~Fresh(m)
      BY DEF Deliveries, Fresh
    <2> QED
      BY <1>3, <2>1, StaleKeeps DEF Redeliver
  <1> QED
    BY <1>1, <1>2, <1>3 DEF Broker

\* A new request was never asked before, and so it is neither waiting nor
\* accepted.
LEMMA AskKeeps ==
  ASSUME IInv, NEW r \in Requests, NEW retain \in BOOLEAN, Ask(r, retain)
  PROVE  IInv'
  <1> USE DEF IInv
  <1> DEFINE m == [request |-> r, retain |-> FALSE, dup |-> FALSE]
  <1>1. /\ r \notin asked /\ asked' = asked \cup {r} /\ UNCHANGED slotVars
        /\ inbox' = Append(inbox, m) \/ inbox' = inbox
    BY DEF Ask
  <1>2. m \in Deliveries /\ m.request = r
    BY DEF Deliveries
  <1>3. TypesOK'
    <2>1. retained'.command \in Requests \cup {NoCommand}
      BY DEF Ask, TypesOK
    <2> QED
      BY <1>1, <1>2, <2>1 DEF TypesOK, slotVars
  <1>4. OriginOK' /\ SlotOK'
    BY <1>1 DEF OriginOK, SlotOK, slotVars
  <1>5. \A k \in 1..Len(origin) : origin[k] # r
    BY <1>1 DEF OriginOK
  <1>6. InboxOK'
    <2>1. CASE inbox' = inbox
      BY <1>1, <2>1 DEF InboxOK, IsFresh, slotVars
    <2>2. CASE inbox' = Append(inbox, m)
      <3>1. /\ Len(inbox') = Len(inbox) + 1 /\ Len(inbox) \in Nat
            /\ \A i \in 1..Len(inbox) : inbox'[i] = inbox[i]
            /\ inbox'[Len(inbox) + 1] = m
        BY <1>2, <2>2 DEF TypesOK
      <3>2. \A i \in 1..Len(inbox') :
              \/ i = Len(inbox) + 1 /\ inbox'[i].request = r
              \/ i \in 1..Len(inbox) /\ inbox'[i] = inbox[i] /\ (IsFresh(i)' => IsFresh(i))
        BY <1>2, <3>1 DEF IsFresh
      <3>3. \A i \in 1..Len(inbox) : IsFresh(i) => inbox[i].request # r
        BY <1>1 DEF InboxOK
      <3> QED
        BY <1>1, <1>5, <3>2, <3>3 DEF InboxOK, slotVars
    <2> QED
      BY <1>1, <2>1, <2>2
  <1> QED
    BY <1>3, <1>4, <1>6

\* Acceptance moves a fresh request from the inbox to origin; any other message
\* is dropped.
LEMMA ReceiveKeeps ==
  ASSUME IInv, Receive
  PROVE  IInv'
  <1> USE DEF IInv
  <1>1. /\ inbox # <<>> /\ inbox' = Tail(inbox) /\ UNCHANGED <<retained, asked>>
        /\ inbox \in Seq(Deliveries) /\ origin \in Seq(Requests)
    BY DEF Receive, brokerVars, TypesOK
  <1>2. /\ Len(inbox') = Len(inbox) - 1 /\ Len(inbox) \in Nat \ {0}
        /\ inbox' \in Seq(Deliveries)
        /\ \A i \in 1..Len(inbox') : inbox'[i] = inbox[i + 1]
        /\ Head(inbox) = inbox[1] /\ inbox[1] \in Deliveries
    BY <1>1
  <1>3. \A i \in 1..Len(inbox') :
          i + 1 \in 1..Len(inbox) /\ inbox'[i] = inbox[i + 1] /\ (IsFresh(i)' => IsFresh(i + 1))
    BY <1>2 DEF IsFresh
  <1>4. CASE ~(Fresh(Head(inbox)) /\ slot = 0)
    <2>1. UNCHANGED slotVars
      BY <1>4 DEF Receive
    <2>2. TypesOK' /\ OriginOK' /\ SlotOK'
      BY <1>1, <1>2, <2>1 DEF TypesOK, OriginOK, SlotOK, slotVars
    <2>3. InboxOK'
      BY <1>1, <1>2, <1>3, <2>1 DEF InboxOK, slotVars
    <2> QED
      BY <2>2, <2>3
  <1>5. CASE Fresh(Head(inbox)) /\ slot = 0
    <2> DEFINE r == inbox[1].request
    <2>1. /\ origin' = Append(origin, r) /\ slot' = Len(origin) + 1 /\ UNCHANGED executed
      BY <1>2, <1>5 DEF Receive, Slot!Accept
    <2>2. r \in Requests
      BY <1>2 DEF Deliveries
    <2>3. IsFresh(1)
      BY <1>2, <1>5 DEF IsFresh
    <2>4. /\ r \in asked
          /\ \A k \in 1..Len(origin) : origin[k] # r
          /\ \A i \in 1..Len(inbox) : IsFresh(i) /\ i # 1 => inbox[i].request # r
      BY <1>2, <2>3 DEF InboxOK
    <2> HIDE DEF r
    <2>5. /\ origin' \in Seq(Requests) /\ Len(origin') = Len(origin) + 1 /\ Len(origin) \in Nat
          /\ \A k \in 1..Len(origin) : origin'[k] = origin[k]
          /\ origin'[Len(origin) + 1] = r
      BY <1>1, <2>1, <2>2
    <2>6. \A k \in 1..Len(origin') :
            \/ k \in 1..Len(origin) /\ origin'[k] = origin[k]
            \/ k = Len(origin) + 1 /\ origin'[k] = r
      BY <2>5
    <2>7. TypesOK'
      BY <1>1, <1>2, <2>5 DEF TypesOK
    <2>8. OriginOK'
      BY <1>1, <2>4, <2>6 DEF OriginOK
    <2>9. SlotOK'
      BY <2>1, <2>5 DEF SlotOK
    <2>10. InboxOK'
      <3>1. \A i \in 1..Len(inbox') : IsFresh(i)' =>
              inbox'[i].request \in asked /\ inbox'[i].request # r
              /\ \A k \in 1..Len(origin) : origin[k] # inbox'[i].request
        BY <1>2, <1>3, <2>4 DEF InboxOK
      <3>2. \A i, j \in 1..Len(inbox') :
              IsFresh(i)' /\ IsFresh(j)' /\ inbox'[i].request = inbox'[j].request => i = j
        BY <1>2, <1>3 DEF InboxOK
      <3> QED
        BY <1>1, <2>6, <3>1, <3>2 DEF InboxOK
    <2> QED
      BY <2>7, <2>8, <2>9, <2>10
  <1> QED
    BY <1>4, <1>5

\* The operation in the slot is executed and ends; a new run begins with none.
LEMMA SlotKeeps ==
  ASSUME IInv, Begin \/ Finish \/ Restart
  PROVE  IInv'
  <1> USE DEF IInv
  <1>1. UNCHANGED <<retained, inbox, asked, origin>>
    BY DEF Begin, Finish, Restart, brokerVars
  <1>2. /\ slot' \in {slot, 0}
        /\ executed' \subseteq executed \cup ({slot} \ {0})
    BY DEF Begin, Finish, Restart, Slot!Execute, Slot!Succeed, Slot!Fail
  <1>3. Len(origin) \in Nat
    BY DEF TypesOK
  <1>4. SlotOK'
    <2>1. slot \in 0..Len(origin) /\ executed \subseteq 1..Len(origin)
      BY DEF SlotOK
    <2>2. slot' \in 0..Len(origin)
      BY <1>2, <1>3, <2>1
    <2>3. executed' \subseteq 1..Len(origin)
      BY <1>2, <1>3, <2>1
    <2> QED
      BY <1>1, <2>2, <2>3 DEF SlotOK
  <1> QED
    BY <1>1, <1>4 DEF TypesOK, InboxOK, OriginOK, IsFresh

\* The invariant is inductive.
LEMMA IInvStep == IInv /\ [Next]_vars => IInv'
  <1> SUFFICES ASSUME IInv, [Next]_vars PROVE IInv'
    OBVIOUS
  <1>1. ASSUME UNCHANGED <<inbox, slotVars, asked>>, retained'.command = retained.command
        PROVE  IInv'
    BY <1>1 DEF IInv, TypesOK, InboxOK, OriginOK, SlotOK, IsFresh, slotVars
  <1>2. CASE UNCHANGED vars
    BY <1>1, <1>2 DEF vars, brokerVars
  <1>3. CASE Network
    <2>1. CASE Accept
      <3>1. inbox' = <<>> /\ UNCHANGED <<slotVars, asked>>
        BY <2>1 DEF Accept, Take
      <3>2. retained'.command = retained.command
        BY <2>1 DEF Accept, Take
      <3> QED
        BY <3>1, <3>2, EmptyInbox
    <2>2. CASE Dial \/ Greet \/ Lose
      BY <1>1, <2>2 DEF Dial, Greet, Lose, brokerVars
    <2>3. CASE Receive
      BY <2>3, ReceiveKeeps
    <2> QED
      BY <1>3, <2>1, <2>2, <2>3 DEF Network
  <1>4. CASE Main
    <2>1. CASE Begin \/ Finish
      BY <2>1, SlotKeeps
    <2>2. CASE Started \/ StartTimesOut \/ Refresh \/ Progress \/ Leave \/ Stop \/ Join
      BY <1>1, <2>2 DEF Started, StartTimesOut, Refresh, Progress, Leave, Stop, Join, brokerVars
    <2> QED
      BY <1>4, <2>1, <2>2 DEF Main
  <1>5. CASE Broker
    BY <1>5, BrokerKeeps
  <1>6. CASE Users
    BY <1>6, AskKeeps DEF Users
  <1>7. CASE Kill
    BY <1>1, <1>7 DEF Kill, brokerVars
  <1>8. CASE Restart
    BY <1>8, SlotKeeps
  <1> QED
    BY <1>2, <1>3, <1>4, <1>5, <1>6, <1>7, <1>8 DEF Next

-----------------------------------------------------------------------------
(***************************************************************************)
(* What is on the wire.  The announcement of availability comes after the  *)
(* greeting of its connection, wherever the connection breaks and whatever *)
(* is sent again on the next one; and a session is closed only when the    *)
(* last word about availability, delivered or on the wire, is not that the *)
(* entity is online.                                                       *)
(***************************************************************************)
Sendable == Messages \ {"disconnect"}

WireTypes ==
  /\ retained \in Topics /\ session \in {"none", "old", "live"} /\ subscribed \in BOOLEAN
  /\ net \in {"down", "connecting", "greeting", "up"} /\ connected \in BOOLEAN
  /\ wire \in Seq(Messages) /\ pending \in Seq(Sendable)
  /\ late \in BOOLEAN

ThreadOK ==
  /\ net = "up" => connected
  /\ pc = "end" => net = "down"
  /\ net = "connecting" =>
       session # "live" /\ \A i \in 1..Len(wire) : wire[i] # "online"

Heard(i) == subscribed \/ \E j \in 1..(i - 1) : wire[j] = "subscribe"
Found(i) == retained.discovery = "current" \/ \E j \in 1..(i - 1) : wire[j] = "config"

GreetedOK ==
  session = "live" =>
    /\ \A i \in 1..Len(wire) : wire[i] = "online" => Heard(i) /\ Found(i)
    /\ net = "greeting" => Heard(Len(wire) + 1) /\ Found(Len(wire) + 1)

\* The broker's last word about availability will not be "online".
Quiet ==
  \/ \E j \in 1..Len(wire) :
       wire[j] = "offline" /\ \A k \in j..Len(wire) : wire[k] # "online"
  \/ retained.availability # "online" /\ \A k \in 1..Len(wire) : wire[k] # "online"

LeavingOK == pc = "joining" /\ net = "up" /\ ~late => Quiet

ClosedOK ==
  /\ \A i \in 1..Len(wire) : wire[i] = "disconnect" =>
       net = "down" /\ i = Len(wire) /\ (~late => Quiet)
  /\ session = "none" /\ ~late => retained.availability # "online"

WInv == WireTypes /\ ThreadOK /\ GreetedOK /\ LeavingOK /\ ClosedOK /\ AvailableIsHeard

\* A set of numbers has a least one.
LEMMA LeastIsIn ==
  ASSUME NEW I \in SUBSET Nat, I # {}
  PROVE  Min(I) \in I
  <1>1. PICK x \in I : \A y \in I : ~(<<y, x>> \in OpToRel(<, Nat))
    BY WFMin, NatLessThanWellFounded, Zenon
  <1>2. \A y \in I : <<y, x>> \in OpToRel(<, Nat) <=> y < x
    BY Zenon DEF OpToRel
  <1>3. \A y \in I : ~(y < x)
    BY <1>1, <1>2, Zenon
  <1>4. \A y \in I : x <= y
    BY <1>3
  <1> QED
    BY <1>4, Zenon DEF Min

\* What is kept of a wire is what was on it.
LEMMA KeptIsSendable ==
  ASSUME NEW w \in Seq(Sendable)
  PROVE  RemoveFirst(w, "subscribe") \in Seq(Sendable)
  <1> DEFINE I == {i \in 1..Len(w) : w[i] = "subscribe"}
  <1>1. CASE ~\E i \in 1..Len(w) : w[i] = "subscribe"
    BY <1>1, Zenon DEF RemoveFirst
  <1>2. CASE \E i \in 1..Len(w) : w[i] = "subscribe"
    <2>1. I \in SUBSET Nat /\ I # {}
      BY <1>2
    <2>2. RemoveFirst(w, "subscribe") = RemoveAt(w, Min(I))
      BY <1>2, <2>1, Zenon DEF RemoveFirst, SelectInSeq
    <2>3. Min(I) \in 1..Len(w)
      <3>1. Min(I) \in I
        BY <2>1, LeastIsIn
      <3> QED
        BY <3>1
    <2>4. RemoveAt(w, Min(I)) = SubSeq(w, 1, Min(I) - 1) \o SubSeq(w, Min(I) + 1, Len(w))
      BY Zenon DEF RemoveAt
    <2> DEFINE n == Min(I)
    <2> HIDE DEF n
    <2>5. SubSeq(w, 1, n - 1) \in Seq(Sendable) /\ SubSeq(w, n + 1, Len(w)) \in Seq(Sendable)
      <3>1. n \in 1..Len(w) /\ Len(w) \in Nat
        BY <2>3 DEF n
      <3>2. \A i \in 1..Len(w) : w[i] \in Sendable
        BY ElementOfSeq
      <3>3. SubSeq(w, 1, n - 1) \in Seq(Sendable)
        <4>1. \A i \in 1..(n - 1) : w[i] \in Sendable
          BY <3>1, <3>2
        <4> QED
          BY <3>1, <4>1, SubSeqProperties
      <3>4. SubSeq(w, n + 1, Len(w)) \in Seq(Sendable)
        <4>1. \A i \in (n + 1)..Len(w) : w[i] \in Sendable
          BY <3>1, <3>2
        <4> QED
          BY <3>1, <4>1, SubSeqProperties
      <3> QED
        BY <3>3, <3>4
    <2>6. RemoveAt(w, n) \in Seq(Sendable)
      <3>1. RemoveAt(w, n) = SubSeq(w, 1, n - 1) \o SubSeq(w, n + 1, Len(w))
        BY <2>4 DEF n
      <3> QED
        BY <2>5, <3>1, ConcatProperties
    <2> QED
      BY <2>2, <2>6 DEF n
  <1> QED
    BY <1>1, <1>2

wireVars == <<session, subscribed, net, connected, wire, pending, late>>

\* The invariant holds initially.
LEMMA WInvInit == Init => WInv
  <1> SUFFICES ASSUME Init PROVE WInv
    OBVIOUS
  <1>1. wire = <<>> /\ pending = <<>> /\ Len(wire) = 0
    BY DEF Init
  <1>2. WireTypes
    <2>1. retained \in Topics
      BY DEF Init, Topics
    <2>2. wire \in Seq(Messages) /\ pending \in Seq(Sendable)
      BY <1>1
    <2> QED
      BY <2>1, <2>2 DEF Init, WireTypes
  <1>3. ThreadOK /\ LeavingOK /\ ClosedOK
    BY <1>1 DEF Init, ThreadOK, LeavingOK, ClosedOK
  <1>4. GreetedOK /\ AvailableIsHeard
    BY <1>1 DEF Init, GreetedOK, AvailableIsHeard
  <1> QED
    BY <1>2, <1>3, <1>4 DEF WInv

\* A step of the main thread that sends nothing and is not the last of the run.
LEMMA PcKeeps ==
  ASSUME WInv, UNCHANGED <<retained, wireVars>>, pc' # "end", pc' = "joining" => net # "up"
  PROVE  WInv'
  <1> USE DEF WInv, wireVars
  <1>1. WireTypes' /\ ThreadOK'
    BY DEF WireTypes, ThreadOK
  <1>2. GreetedOK' /\ AvailableIsHeard'
    BY DEF GreetedOK, Heard, Found, AvailableIsHeard
  <1>3. ClosedOK' /\ LeavingOK'
    BY DEF ClosedOK, LeavingOK, Quiet
  <1> QED
    BY <1>1, <1>2, <1>3

\* Users touch neither the wire nor what the add-on has said.
LEMMA OthersKeep ==
  ASSUME WInv, UNCHANGED <<wireVars, pc>>, retained' \in Topics,
         retained'.availability = retained.availability,
         retained'.discovery = retained.discovery
  PROVE  WInv'
  <1> USE DEF WInv, wireVars
  <1>1. WireTypes' /\ ThreadOK'
    BY DEF WireTypes, ThreadOK
  <1>2. GreetedOK' /\ AvailableIsHeard'
    BY DEF GreetedOK, Heard, Found, AvailableIsHeard
  <1>3. ClosedOK' /\ LeavingOK'
    BY DEF ClosedOK, LeavingOK, Quiet
  <1> QED
    BY <1>1, <1>2, <1>3

\* One more message on the wire keeps the order of those before it.
LEMMA AppendKeeps ==
  ASSUME WInv, NEW m \in Sendable \ {"online"}, net # "down", wire' = Append(wire, m),
         UNCHANGED <<retained, session, subscribed, net, connected, pending, late>>,
         pc' # "end", pc' = "joining" /\ net = "up" => m = "offline"
  PROVE  WInv'
  <1> USE DEF WInv
  <1>1. m \in Messages /\ m # "online" /\ m # "disconnect"
    BY DEF Sendable
  <1>2. /\ wire' \in Seq(Messages) /\ Len(wire') = Len(wire) + 1 /\ Len(wire) \in Nat
        /\ \A i \in 1..Len(wire) : wire'[i] = wire[i]
        /\ wire'[Len(wire) + 1] = m
    BY <1>1, AppendProperties DEF WireTypes
  <1> HIDE DEF Messages
  <1>3. \A i \in 1..Len(wire') : wire'[i] \in {"online", "disconnect"} =>
          i \in 1..Len(wire) /\ wire'[i] = wire[i]
    BY <1>1, <1>2
  <1>4. WireTypes' /\ ThreadOK'
    BY <1>2, <1>3 DEF WireTypes, ThreadOK
  <1>5. \A i \in 1..(Len(wire) + 1) : Heard(i) => Heard(i)'
    BY <1>2 DEF Heard
  <1>6. \A i \in 1..(Len(wire) + 1) : Found(i) => Found(i)'
    BY <1>2 DEF Found
  <1>7. ASSUME net = "greeting", session = "live"
        PROVE  Heard(Len(wire) + 1)' /\ Found(Len(wire) + 1)'
    <2>1. PICK n \in Nat : n = Len(wire)
      BY <1>2
    <2>2. Heard(n + 1)' /\ Found(n + 1)'
      BY <1>5, <1>6, <1>7, <2>1 DEF GreetedOK
    <2>3. Heard(n + 2)' /\ Found(n + 2)'
      BY <2>1, <2>2 DEF Heard, Found
    <2>4. Len(wire') + 1 = n + 2
      BY <1>2, <2>1
    <2> QED
      BY <2>3, <2>4
  <1>8. GreetedOK'
    <2>1. ASSUME session = "live", NEW i \in 1..Len(wire'), wire'[i] = "online"
          PROVE  Heard(i)' /\ Found(i)'
      BY <1>2, <1>3, <1>5, <1>6, <2>1 DEF GreetedOK
    <2> QED
      BY <1>7, <2>1 DEF GreetedOK
  <1>9. LeavingOK'
    <2> SUFFICES ASSUME m = "offline" PROVE Quiet'
      BY DEF LeavingOK
    <2>1. Len(wire) + 1 \in 1..Len(wire') /\ wire'[Len(wire) + 1] = "offline"
      BY <1>2
    <2>2. \A k \in (Len(wire) + 1)..Len(wire') : wire'[k] # "online"
      BY <1>2
    <2> QED
      BY <2>1, <2>2 DEF Quiet
  <1>10. ClosedOK'
    BY <1>3 DEF ClosedOK
  <1>11. AvailableIsHeard'
    BY DEF AvailableIsHeard
  <1> QED
    BY <1>4, <1>8, <1>9, <1>10, <1>11

\* Without a connection a message is kept for the next one.
LEMMA KeepKeeps ==
  ASSUME WInv, NEW m \in Sendable, net = "down", pending' = Append(pending, m),
         UNCHANGED <<retained, session, subscribed, net, connected, wire, late>>, pc' # "end"
  PROVE  WInv'
  <1> USE DEF WInv
  <1>1. pending' \in Seq(Sendable)
    BY AppendProperties DEF WireTypes
  <1>2. WireTypes' /\ ThreadOK'
    BY <1>1 DEF WireTypes, ThreadOK
  <1>3. GreetedOK' /\ AvailableIsHeard'
    BY DEF GreetedOK, Heard, Found, AvailableIsHeard
  <1>4. ClosedOK' /\ LeavingOK'
    BY DEF ClosedOK, LeavingOK, Quiet
  <1> QED
    BY <1>2, <1>3, <1>4

\* Publications of the main thread.
LEMMA PublishKeeps ==
  ASSUME WInv, NEW m \in {"idle", "progress", "offline"}, Publish(m),
         UNCHANGED <<retained, session, subscribed, late>>,
         pc' # "end", pc' = "joining" => m = "offline"
  PROVE  WInv'
  <1>1. m \in Sendable \ {"online"}
    BY DEF Sendable, Messages
  <1>2. CASE net = "down"
    BY <1>1, <1>2, KeepKeeps DEF Publish
  <1>3. CASE net # "down"
    BY <1>1, <1>3, AppendKeeps DEF Publish
  <1> QED
    BY <1>2, <1>3

\* The rest of the main thread, and the host.
LEMMA MainKeeps ==
  ASSUME WInv, Main \/ Kill \/ Restart
  PROVE  WInv'
  <1>1. ASSUME NEW m \in {"idle", "progress"}, PublishState(m), pc' \notin {"end", "joining"},
               UNCHANGED <<retained, session, subscribed, late>>
        PROVE  WInv'
    BY <1>1, PublishKeeps DEF PublishState
  <1>2. CASE Started \/ Begin \/ Leave
    <2>1. UNCHANGED <<retained, wireVars>> /\ pc' \in {"first", "run", "leaving"}
      BY <1>2 DEF Started, Begin, Leave, brokerVars, clientVars, wireVars
    <2> QED
      BY <2>1, PcKeeps
  <1>3. CASE StartTimesOut
    <2>1. UNCHANGED <<retained, wireVars>> /\ pc' = "joining" /\ ~connected
      BY <1>3 DEF StartTimesOut, brokerVars, clientVars, wireVars
    <2>2. net # "up"
      BY <2>1 DEF WInv, ThreadOK
    <2> QED
      BY <2>1, <2>2, PcKeeps
  <1>4. CASE Refresh \/ Progress \/ Finish
    BY <1>1, <1>4 DEF Refresh, Progress, Finish, brokerVars
  <1>5. CASE Stop
    <2>1. UNCHANGED <<retained, session, subscribed, late>> /\ pc' = "joining"
      BY <1>5 DEF Stop, brokerVars
    <2>2. CASE connected
      <3>1. Publish("offline")
        BY <1>5, <2>2 DEF Stop, SayOffline
      <3> QED
        BY <2>1, <3>1, PublishKeeps
    <2>3. CASE ~connected
      <3>1. UNCHANGED <<retained, wireVars>>
        BY <1>5, <2>1, <2>3 DEF Stop, SayOffline, clientVars, wireVars
      <3>2. net # "up"
        BY <2>3 DEF WInv, ThreadOK
      <3> QED
        BY <2>1, <3>1, <3>2, PcKeeps
    <2> QED
      BY <2>2, <2>3
  <1>6. CASE Join
    <2> USE DEF WInv
    <2>1. /\ pc = "joining" /\ net # "greeting" /\ net' = "down" /\ pending' = <<>> /\ pc' = "end"
          /\ wire' = IF net = "up" THEN Append(wire, "disconnect") ELSE wire
          /\ UNCHANGED <<retained, session, subscribed, connected, late>>
      BY <1>6 DEF Join, brokerVars
    <2>2. CASE net # "up"
      <3>1. UNCHANGED wire
        BY <2>1, <2>2
      <3>2. WireTypes' /\ ThreadOK' /\ LeavingOK'
        BY <2>1, <3>1 DEF WireTypes, ThreadOK, LeavingOK
      <3>3. GreetedOK' /\ AvailableIsHeard'
        BY <2>1, <3>1 DEF GreetedOK, Heard, Found, AvailableIsHeard
      <3>4. ClosedOK'
        BY <2>1, <3>1 DEF ClosedOK, Quiet
      <3> QED
        BY <3>2, <3>3, <3>4
    <2>3. CASE net = "up"
      <3>1. /\ wire' \in Seq(Messages) /\ Len(wire') = Len(wire) + 1 /\ Len(wire) \in Nat
            /\ \A i \in 1..Len(wire) : wire'[i] = wire[i]
            /\ wire'[Len(wire) + 1] = "disconnect"
        <4>1. wire' = Append(wire, "disconnect") /\ "disconnect" \in Messages
          BY <2>1, <2>3 DEF Messages
        <4> QED
          BY <4>1, AppendProperties DEF WireTypes
      <3>2. WireTypes' /\ ThreadOK' /\ LeavingOK'
        BY <2>1, <3>1 DEF WireTypes, ThreadOK, LeavingOK
      <3>3. \A i \in 1..Len(wire) : Heard(i)' = Heard(i) /\ Found(i)' = Found(i)
        BY <2>1, <3>1 DEF Heard, Found
      <3>4. GreetedOK' /\ AvailableIsHeard'
        BY <2>1, <3>1, <3>3 DEF GreetedOK, AvailableIsHeard
      <3>5. ~late => Quiet'
        <4>1. SUFFICES ASSUME ~late PROVE Quiet'
          OBVIOUS
        <4>2. Quiet
          BY <2>1, <2>3, <4>1 DEF LeavingOK
        <4> QED
          BY <2>1, <3>1, <4>2 DEF Quiet
      <3>6. \A i \in 1..Len(wire) : wire[i] # "disconnect"
        BY <2>3 DEF ClosedOK
      <3>7. ClosedOK'
        BY <2>1, <3>1, <3>5, <3>6 DEF ClosedOK
      <3> QED
        BY <3>2, <3>4, <3>7
    <2> QED
      BY <2>2, <2>3
  <1>7. CASE Kill
    <2> USE DEF WInv
    <2>1. /\ net' = "down" /\ pending' = <<>> /\ pc' = "end"
          /\ UNCHANGED <<retained, session, subscribed, connected, wire, late>>
      BY <1>7 DEF Kill, brokerVars
    <2>2. WireTypes' /\ ThreadOK' /\ LeavingOK'
      BY <2>1 DEF WireTypes, ThreadOK, LeavingOK
    <2>3. GreetedOK' /\ AvailableIsHeard'
      BY <2>1 DEF GreetedOK, Heard, Found, AvailableIsHeard
    <2>4. ClosedOK'
      BY <2>1 DEF ClosedOK, Quiet
    <2> QED
      BY <2>2, <2>3, <2>4
  <1>8. CASE Restart
    <2> USE DEF WInv
    <2>1. /\ pc = "end" /\ pc' = "starting" /\ connected' = FALSE
          /\ UNCHANGED <<retained, session, subscribed, net, wire, pending, late>>
      BY <1>8 DEF Restart, brokerVars
    <2>2. net = "down"
      BY <2>1 DEF ThreadOK
    <2>3. WireTypes' /\ ThreadOK' /\ LeavingOK'
      BY <2>1, <2>2 DEF WireTypes, ThreadOK, LeavingOK
    <2>4. GreetedOK' /\ AvailableIsHeard'
      BY <2>1 DEF GreetedOK, Heard, Found, AvailableIsHeard
    <2>5. ClosedOK'
      BY <2>1 DEF ClosedOK, Quiet
    <2> QED
      BY <2>3, <2>4, <2>5
  <1> QED
    BY <1>2, <1>3, <1>4, <1>5, <1>6, <1>7, <1>8 DEF Main

\* A new connection starts with an empty wire, a session without subscription,
\* and an entity that is not online.
LEMMA ConnectKeeps ==
  ASSUME WInv, Dial \/ Accept
  PROVE  WInv'
  <1> USE DEF WInv
  <1>1. CASE Dial
    <2>1. /\ pc' = pc /\ pc # "joining" /\ pc # "end" /\ net' = "connecting" /\ wire' = <<>>
          /\ session' = IF session = "live" THEN "old" ELSE session
          /\ UNCHANGED <<retained, subscribed, connected, pending, late>>
      BY <1>1 DEF Dial, Looping
    <2>2. wire' \in Seq(Messages) /\ Len(wire') = 0
      BY <2>1
    <2>3. WireTypes' /\ ThreadOK' /\ LeavingOK'
      BY <2>1, <2>2 DEF WireTypes, ThreadOK, LeavingOK
    <2>4. session' # "live"
      BY <2>1
    <2>5. GreetedOK' /\ AvailableIsHeard'
      BY <2>4 DEF GreetedOK, AvailableIsHeard
    <2>6. ClosedOK'
      BY <2>1, <2>2 DEF ClosedOK
    <2> QED
      BY <2>3, <2>5, <2>6
  <1>2. CASE Accept
    <2>1. /\ net = "connecting" /\ net' = "greeting" /\ pc' = pc /\ pc # "end"
          /\ session' = "live" /\ subscribed' = FALSE /\ wire' = wire \o Greeting
          /\ UNCHANGED <<connected, pending, late>>
      BY <1>2 DEF Accept, Looping, Take
    <2>2. /\ retained' \in Topics
          /\ session = "old" => retained'.availability = "offline"
          /\ session # "old" => retained' = retained
      BY <1>2 DEF Accept, Take, WireTypes, Topics
    <2>3. /\ wire' \in Seq(Messages) /\ Len(wire') = Len(wire) + 2 /\ Len(wire) \in Nat
          /\ \A i \in 1..Len(wire) : wire'[i] = wire[i]
          /\ wire'[Len(wire) + 1] = "config" /\ wire'[Len(wire) + 2] = "subscribe"
      <3>1. /\ Greeting \in Seq(Messages) /\ Len(Greeting) = 2
            /\ Greeting[1] = "config" /\ Greeting[2] = "subscribe"
        BY DEF Greeting, Messages
      <3>2. wire \in Seq(Messages) /\ Len(wire) \in Nat
        BY DEF WireTypes
      <3> HIDE DEF Greeting
      <3>3. /\ wire' \in Seq(Messages) /\ Len(wire') = Len(wire) + Len(Greeting)
            /\ \A i \in 1..(Len(wire) + Len(Greeting)) :
                 wire'[i] = IF i <= Len(wire) THEN wire[i] ELSE Greeting[i - Len(wire)]
        BY <2>1, <3>1, <3>2, ConcatProperties
      <3> QED
        BY <3>1, <3>2, <3>3
    <2>4. \A i \in 1..Len(wire') : wire'[i] \notin {"online", "disconnect"}
      <3>1. \A i \in 1..Len(wire) : wire[i] \notin {"online", "disconnect"}
        BY <2>1 DEF ThreadOK, ClosedOK
      <3> QED
        BY <2>3, <3>1
    <2>5. WireTypes' /\ ThreadOK' /\ LeavingOK' /\ ClosedOK'
      BY <2>1, <2>2, <2>3, <2>4 DEF WireTypes, ThreadOK, LeavingOK, ClosedOK
    <2>6. GreetedOK'
      <3>1. Heard(Len(wire) + 1)'
        BY <2>3 DEF Heard
      <3>2. Found(Len(wire) + 1)'
        BY <2>3 DEF Found
      <3> QED
        BY <2>4, <3>1, <3>2 DEF GreetedOK
    <2>7. AvailableIsHeard'
      <3>1. session \in {"none", "old"} => (~late => retained'.availability # "online")
        BY <2>2 DEF ClosedOK
      <3>2. session # "live"
        BY <2>1 DEF ThreadOK
      <3> QED
        BY <2>1, <3>1, <3>2 DEF WireTypes, AvailableIsHeard
    <2> QED
      BY <2>5, <2>6, <2>7
  <1> QED
    BY <1>1, <1>2

\* The announcement follows the greeting; what was kept from before comes last.
LEMMA GreetKeeps ==
  ASSUME WInv, Greet
  PROVE  WInv'
  <1> USE DEF WInv
  <1>1. /\ net = "greeting" /\ net' = "up" /\ connected' = TRUE /\ pending' = <<>> /\ pc' = pc
        /\ pc # "end" /\ late' = (late \/ pc = "joining")
        /\ wire' = Append(wire, "online") \o pending
        /\ UNCHANGED <<retained, session, subscribed>>
    BY DEF Greet, Looping, Online, brokerVars
  <1>2. /\ wire \in Seq(Messages) /\ Len(wire) \in Nat
        /\ pending \in Seq(Messages) /\ Len(pending) \in Nat
        /\ \A i \in 1..Len(pending) : pending[i] # "disconnect"
    <2>1. pending \in Seq(Sendable)
      BY DEF WireTypes
    <2>2. pending \in Seq(Messages)
      BY <2>1, SeqMonotonic DEF Sendable
    <2>3. \A i \in 1..Len(pending) : pending[i] \in Sendable
      BY <2>1, ElementOfSeq
    <2> QED
      BY <2>2, <2>3 DEF WireTypes, Sendable
  <1> DEFINE w == Append(wire, "online")
  <1>3. /\ w \in Seq(Messages) /\ Len(w) = Len(wire) + 1
        /\ \A i \in 1..Len(wire) : w[i] = wire[i]
        /\ w[Len(wire) + 1] = "online"
    <2>1. "online" \in Messages
      BY DEF Messages
    <2> QED
      BY <1>2, <2>1, AppendProperties
  <1> HIDE DEF w
  <1>4. /\ wire' \in Seq(Messages) /\ Len(wire') = Len(wire) + 1 + Len(pending)
        /\ \A i \in 1..(Len(w) + Len(pending)) :
             wire'[i] = IF i <= Len(w) THEN w[i] ELSE pending[i - Len(w)]
    BY <1>1, <1>2, <1>3, ConcatProperties DEF w
  <1>5. \A i \in 1..Len(wire') :
          \/ i \in 1..Len(wire) /\ wire'[i] = wire[i]
          \/ i = Len(wire) + 1 /\ wire'[i] = "online"
          \/ i > Len(wire) + 1 /\ i - (Len(wire) + 1) \in 1..Len(pending)
                               /\ wire'[i] = pending[i - (Len(wire) + 1)]
    BY <1>2, <1>3, <1>4
  <1>6. \A i \in 1..Len(wire) : wire'[i] = wire[i]
    BY <1>2, <1>3, <1>4
  <1>7. \A i \in 1..Len(wire') : wire'[i] # "disconnect"
    BY <1>1, <1>2, <1>5 DEF ClosedOK
  <1>8. WireTypes' /\ ThreadOK' /\ LeavingOK' /\ ClosedOK'
    <2>1. late' \in BOOLEAN /\ (~late' => ~late /\ pc # "joining")
      BY <1>1
    <2>2. pending' \in Seq(Sendable)
      BY <1>1
    <2>3. WireTypes'
      BY <1>1, <1>4, <2>1, <2>2 DEF WireTypes
    <2>4. ThreadOK' /\ LeavingOK'
      BY <1>1, <2>1 DEF ThreadOK, LeavingOK
    <2>5. ClosedOK'
      BY <1>1, <1>7, <2>1 DEF ClosedOK
    <2> QED
      BY <2>3, <2>4, <2>5
  <1>9. AvailableIsHeard'
    BY <1>1 DEF AvailableIsHeard
  <1>10. GreetedOK'
    <2> SUFFICES ASSUME session = "live", NEW i \in 1..Len(wire'), wire'[i] = "online"
                 PROVE  Heard(i)' /\ Found(i)'
      BY <1>1 DEF GreetedOK
    <2>1. \A j \in 1..(Len(wire) + 1) : j <= i =>
            (Heard(j) => Heard(i)') /\ (Found(j) => Found(i)')
      BY <1>1, <1>2, <1>6 DEF Heard, Found
    <2>2. CASE i \in 1..Len(wire)
      <3>1. Heard(i) /\ Found(i)
        BY <1>6, <2>2 DEF GreetedOK
      <3> QED
        BY <1>2, <2>1, <2>2, <3>1
    <2>3. CASE i > Len(wire)
      <3>1. Heard(Len(wire) + 1) /\ Found(Len(wire) + 1)
        BY <1>1 DEF GreetedOK
      <3> QED
        BY <1>2, <2>1, <2>3, <3>1
    <2> QED
      BY <1>2, <1>4, <2>2, <2>3
  <1> QED
    BY <1>8, <1>9, <1>10

\* A connection that breaks leaves an empty wire; only sendable messages are
\* kept.
LEMMA LoseKeeps ==
  ASSUME WInv, Lose
  PROVE  WInv'
  <1> USE DEF WInv
  <1>1. /\ net \in {"connecting", "up"} /\ net' = "down" /\ wire' = <<>> /\ pc' = pc
        /\ pending' = pending \o RemoveFirst(wire, "subscribe")
        /\ UNCHANGED <<retained, session, subscribed, connected, late>>
    BY DEF Lose, brokerVars
  <1>2. wire \in Seq(Sendable)
    <2>1. wire \in Seq(Messages) /\ Len(wire) \in Nat
      BY DEF WireTypes
    <2>2. \A i \in 1..Len(wire) : wire[i] \in Sendable
      <3>1. \A i \in 1..Len(wire) : wire[i] \in Messages
        BY <2>1, ElementOfSeq
      <3> QED
        BY <1>1, <3>1 DEF ClosedOK, Sendable
    <2>3. wire \in [1..Len(wire) -> Sendable]
      BY <2>1, <2>2, LenProperties
    <2> QED
      BY <2>1, <2>3, SeqDef
  <1>3. pending' \in Seq(Sendable)
    BY <1>1, <1>2, KeptIsSendable, ConcatProperties DEF WireTypes
  <1>4. wire' \in Seq(Messages) /\ Len(wire') = 0
    BY <1>1
  <1>5. WireTypes' /\ ThreadOK' /\ LeavingOK' /\ ClosedOK'
    BY <1>1, <1>3, <1>4 DEF WireTypes, ThreadOK, LeavingOK, ClosedOK
  <1>6. GreetedOK' /\ AvailableIsHeard'
    BY <1>1, <1>4 DEF GreetedOK, AvailableIsHeard
  <1> QED
    BY <1>5, <1>6

\* The broker takes the messages in their order.
LEMMA DeliverKeeps ==
  ASSUME WInv, Deliver
  PROVE  WInv'
  <1> USE DEF WInv
  <1> DEFINE h == wire[1]
  <1>1. /\ session = "live" /\ wire # <<>> /\ wire' = Tail(wire) /\ Head(wire) = h
        /\ retained' = Retain(h)
        /\ UNCHANGED <<net, connected, pending, pc, late>>
    BY DEF Deliver, WireTypes
  <1>2. /\ Len(wire') = Len(wire) - 1 /\ Len(wire) \in Nat \ {0}
        /\ wire' \in Seq(Messages)
        /\ \A i \in 1..Len(wire') : i + 1 \in 1..Len(wire) /\ wire'[i] = wire[i + 1]
    BY <1>1, HeadTailProperties, EmptySeq DEF WireTypes
  <1>3. /\ h = "subscribe" => subscribed' = TRUE /\ session' = session
        /\ h = "disconnect" => subscribed' = FALSE /\ session' = "none"
        /\ h \notin {"subscribe", "disconnect"} => subscribed' = subscribed /\ session' = session
    BY <1>1, Zenon DEF Deliver
  <1>4. /\ h \in {"online", "offline"} => retained' = [retained EXCEPT !.availability = h]
        /\ h \in {"idle", "progress"} => retained' = [retained EXCEPT !.state = h]
        /\ h = "config" => retained' = [retained EXCEPT !.discovery = "current"]
        /\ h \notin {"online", "offline", "idle", "progress", "config"} => retained' = retained
    BY <1>1, Zenon DEF Retain
  <1> HIDE DEF h
  <1>5. /\ retained' \in Topics
        /\ h \in {"online", "offline"} => retained'.availability = h
        /\ h \notin {"online", "offline"} => retained'.availability = retained.availability
        /\ h = "config" => retained'.discovery = "current"
        /\ h # "config" => retained'.discovery = retained.discovery
    BY <1>4 DEF WireTypes, Topics
  <1>6. WireTypes' /\ ThreadOK'
    <2>1. session' \in {"none", "old", "live"} /\ subscribed' \in BOOLEAN
      BY <1>3 DEF WireTypes
    <2> QED
      BY <1>1, <1>2, <1>5, <2>1 DEF WireTypes, ThreadOK
  <1>7. ASSUME session' = "live"
        PROVE  /\ \A i \in 1..(Len(wire') + 1) : Heard(i + 1) => Heard(i)'
               /\ \A i \in 1..(Len(wire') + 1) : Found(i + 1) => Found(i)'
    <2>1. h # "disconnect"
      BY <1>3, <1>7
    <2>2. \A i \in 1..(Len(wire') + 1) : \A j \in 1..i :
            \/ j = 1 /\ wire[j] = h
            \/ j - 1 \in 1..(i - 1) /\ wire'[j - 1] = wire[j]
      BY <1>2 DEF h
    <2>3. \A i \in 1..(Len(wire') + 1) : Heard(i + 1) => Heard(i)'
      BY <1>2, <1>3, <2>1, <2>2 DEF Heard
    <2>4. \A i \in 1..(Len(wire') + 1) : Found(i + 1) => Found(i)'
      BY <1>2, <1>5, <2>2 DEF Found
    <2> QED
      BY <2>3, <2>4
  <1>8. GreetedOK'
    <2> SUFFICES ASSUME session' = "live"
                 PROVE  /\ \A i \in 1..Len(wire') : wire'[i] = "online" => Heard(i)' /\ Found(i)'
                        /\ net = "greeting" => (Heard(Len(wire) + 1) /\ Found(Len(wire) + 1))'
      BY <1>1 DEF GreetedOK
    <2>1. ASSUME NEW i \in 1..Len(wire'), wire'[i] = "online"
          PROVE  Heard(i)' /\ Found(i)'
      <3>1. Heard(i + 1) /\ Found(i + 1)
        BY <1>1, <1>2, <2>1 DEF GreetedOK
      <3> QED
        BY <1>2, <1>7, <3>1
    <2>2. ASSUME net = "greeting"
          PROVE  (Heard(Len(wire) + 1) /\ Found(Len(wire) + 1))'
      <3>1. PICK n \in Nat \ {0} : n = Len(wire)
        BY <1>2
      <3>2. Heard(n + 1) /\ Found(n + 1)
        BY <1>1, <2>2, <3>1 DEF GreetedOK
      <3>3. n \in 1..(Len(wire') + 1) /\ Len(wire') + 1 = n
        BY <1>2, <3>1
      <3>4. Heard(n)' /\ Found(n)'
        BY <1>7, <3>2, <3>3
      <3> QED
        BY <3>3, <3>4
    <2> QED
      BY <2>1, <2>2
  <1>9. ASSUME Quiet
        PROVE  Quiet'
    <2>1. CASE retained.availability # "online" /\ \A k \in 1..Len(wire) : wire[k] # "online"
      BY <1>2, <1>5, <2>1 DEF Quiet, h
    <2>2. ASSUME NEW j \in 1..Len(wire), wire[j] = "offline",
                 \A k \in j..Len(wire) : wire[k] # "online"
          PROVE  Quiet'
      <3>1. CASE j = 1
        <4>1. retained'.availability = "offline"
          BY <1>5, <2>2, <3>1 DEF h
        <4>2. \A k \in 1..Len(wire') : wire'[k] # "online"
          BY <1>2, <2>2, <3>1
        <4> QED
          BY <4>1, <4>2 DEF Quiet
      <3>2. CASE j # 1
        <4>1. j - 1 \in 1..Len(wire') /\ wire'[j - 1] = "offline"
          BY <1>2, <2>2, <3>2
        <4>2. \A k \in (j - 1)..Len(wire') : wire'[k] # "online"
          BY <1>2, <2>2, <3>2
        <4> QED
          BY <4>1, <4>2 DEF Quiet
      <3> QED
        BY <3>1, <3>2
    <2> QED
      BY <1>9, <2>1, <2>2 DEF Quiet
  <1>10. LeavingOK'
    BY <1>1, <1>9 DEF LeavingOK
  <1>11. ClosedOK'
    <2>1. ASSUME NEW i \in 1..Len(wire'), wire'[i] = "disconnect"
          PROVE  net = "down" /\ i = Len(wire') /\ (~late => Quiet')
      BY <1>2, <1>9, <2>1 DEF ClosedOK
    <2>2. ASSUME session' = "none", ~late
          PROVE  retained'.availability # "online"
      <3>1. h = "disconnect" /\ 1 \in 1..Len(wire)
        BY <1>1, <1>2, <1>3, <2>2
      <3>2. Len(wire) = 1 /\ Quiet
        BY <2>2, <3>1 DEF ClosedOK, h
      <3>3. retained.availability # "online"
        BY <3>1, <3>2 DEF Quiet, h
      <3> QED
        BY <1>5, <3>1, <3>3
    <2> QED
      BY <1>1, <2>1, <2>2 DEF ClosedOK
  <1>12. AvailableIsHeard'
    <2> SUFFICES ASSUME retained'.availability = "online", session' = "live", ~late
                 PROVE  subscribed' /\ retained'.discovery = "current"
      BY <1>1 DEF AvailableIsHeard
    <2>1. subscribed /\ retained.discovery = "current"
      <3>1. CASE h = "online"
        <4>1. Heard(1) /\ Found(1)
          BY <1>1, <1>2, <3>1 DEF GreetedOK, h
        <4> QED
          BY <4>1 DEF Heard, Found
      <3>2. CASE h # "online"
        BY <1>1, <1>5, <3>2 DEF AvailableIsHeard
      <3> QED
        BY <3>1, <3>2
    <2> QED
      BY <1>3, <1>5, <2>1
  <1> QED
    BY <1>6, <1>8, <1>10, <1>11, <1>12

\* A session that ends without a word leaves the entity offline.
LEMMA ExpireKeeps ==
  ASSUME WInv, Expire
  PROVE  WInv'
  <1> USE DEF WInv
  <1>1. /\ session' = "none" /\ subscribed' = FALSE
        /\ retained' = [retained EXCEPT !.availability = "offline"]
        /\ UNCHANGED <<net, connected, wire, pending, pc, late>>
    BY DEF Expire, clientVars
  <1>2. retained' \in Topics /\ retained'.availability = "offline"
    BY <1>1 DEF WireTypes, Topics
  <1>3. Quiet => Quiet'
    BY <1>1, <1>2 DEF Quiet
  <1>4. WireTypes' /\ ThreadOK' /\ LeavingOK' /\ ClosedOK'
    BY <1>1, <1>2, <1>3 DEF WireTypes, ThreadOK, LeavingOK, ClosedOK
  <1>5. GreetedOK' /\ AvailableIsHeard'
    BY <1>1 DEF GreetedOK, AvailableIsHeard
  <1> QED
    BY <1>4, <1>5

\* The invariant is inductive.
LEMMA WInvStep == WInv /\ [Next]_vars => WInv'
  <1> SUFFICES ASSUME WInv, [Next]_vars PROVE WInv'
    OBVIOUS
  <1>1. retained \in Topics
    BY DEF WInv, WireTypes
  <1>2. ASSUME UNCHANGED <<retained, wireVars, pc>>
        PROVE  WInv'
    BY <1>1, <1>2, OthersKeep
  <1>3. CASE UNCHANGED vars
    BY <1>2, <1>3 DEF vars, brokerVars, clientVars, wireVars
  <1>4. CASE Network
    <2>1. CASE Receive
      BY <1>2, <2>1 DEF Receive, clientVars, wireVars
    <2> QED
      BY <1>4, <2>1, ConnectKeeps, GreetKeeps, LoseKeeps DEF Network
  <1>5. CASE Main \/ Kill \/ Restart
    BY <1>5, MainKeeps
  <1>6. CASE Broker
    <2>1. ASSUME NEW r \in Requests, Redeliver(r)
          PROVE  WInv'
      BY <1>2, <2>1 DEF Redeliver, clientVars, wireVars
    <2> QED
      BY <1>6, <2>1, DeliverKeeps, ExpireKeeps DEF Broker
  <1>7. CASE Users
    <2>1. PICK r \in Requests, retain \in BOOLEAN : Ask(r, retain)
      BY <1>7 DEF Users
    <2>2. /\ retained' \in Topics /\ retained'.availability = retained.availability
          /\ retained'.discovery = retained.discovery
      BY <1>1, <2>1 DEF Ask, Topics
    <2>3. UNCHANGED <<wireVars, pc>>
      BY <2>1 DEF Ask, clientVars, wireVars
    <2> QED
      BY <2>2, <2>3, OthersKeep
  <1> QED
    BY <1>3, <1>4, <1>5, <1>6, <1>7 DEF Next

-----------------------------------------------------------------------------
(***************************************************************************)
(* Where the main thread is, and how many commands were accepted.          *)
(***************************************************************************)
CountOK ==
  /\ pc \in {"starting", "first", "idle", "run", "leaving", "joining", "end"}
  /\ origin \in Seq(Requests) /\ Len(origin) <= MaxOps

\* Both stay in their range.
LEMMA CountKeeps == CountOK /\ IInv /\ [Next]_vars => CountOK'
  <1> SUFFICES ASSUME CountOK, IInv, [Next]_vars PROVE CountOK'
    OBVIOUS
  <1>1. IInv'
    BY IInvStep
  <1>2. origin' \in Seq(Requests)
    BY <1>1 DEF IInv, TypesOK
  <1>3. CASE Receive
    <2>1. pc' = pc /\ (UNCHANGED origin \/ Len(origin) < MaxOps)
      BY <1>3 DEF Receive, slotVars
    <2>2. UNCHANGED origin \/ origin' = Append(origin, Head(inbox).request)
      BY <1>3 DEF Receive, slotVars
    <2>3. origin \in Seq(Requests) /\ Len(origin) \in Nat /\ MaxOps \in Nat
      BY BoundsAssumption DEF CountOK
    <2>4. Len(origin') <= MaxOps
      BY <2>1, <2>2, <2>3 DEF CountOK
    <2> QED
      BY <1>2, <2>1, <2>4 DEF CountOK
  <1>4. CASE ~Receive
    <2>1. UNCHANGED origin
      BY <1>4 DEF Next, Network, Main, Broker, Users, Dial, Accept, Greet, Lose, Started,
         StartTimesOut, Refresh, Begin, Progress, Finish, Leave, Stop, Join, Deliver, Expire,
         Redeliver, Ask, Kill, Restart, vars, slotVars
    <2>2. pc' \in {pc, "starting", "first", "idle", "run", "leaving", "joining", "end"}
      BY <1>4 DEF Next, Network, Main, Broker, Users, Dial, Accept, Greet, Lose, Started,
         StartTimesOut, Refresh, Begin, Progress, Finish, Leave, Stop, Join, Deliver, Expire,
         Redeliver, Ask, Kill, Restart, vars
    <2> QED
      BY <1>2, <2>1, <2>2 DEF CountOK
  <1> QED
    BY <1>3, <1>4

\* The three invariants hold of every behaviour.
LEMMA InvAlways == Spec => [](IInv /\ WInv /\ CountOK)
  <1>1. Init => CountOK
    BY BoundsAssumption DEF Init, CountOK
  <1> QED
    BY <1>1, IInvInit, IInvStep, WInvInit, WInvStep, CountKeeps, PTL DEF Spec

-----------------------------------------------------------------------------
(***************************************************************************)
(* The theorems.                                                           *)
(***************************************************************************)
\* Every variable stays in its range.
THEOREM TypeCorrect == Spec => []TypeOK
  <1>1. IInv /\ WInv /\ CountOK => TypeOK
    <2> SUFFICES ASSUME IInv, WInv, CountOK PROVE TypeOK
      OBVIOUS
    <2>1. pending \in Seq(Messages)
      BY SeqMonotonic DEF WInv, WireTypes, Sendable
    <2>2. Len(origin) \in Nat /\ MaxOps \in Nat /\ Len(origin) <= MaxOps
      BY BoundsAssumption DEF CountOK
    <2>3. slot \in 0..MaxOps /\ executed \subseteq 1..MaxOps
      BY <2>2 DEF IInv, SlotOK
    <2> QED
      BY <2>1, <2>3 DEF IInv, TypesOK, WInv, WireTypes, CountOK, TypeOK
  <1> QED
    BY <1>1, InvAlways, PTL

\* No request of a user is executed twice.
THEOREM AtMostOnce == Spec => []RequestRunsOnce
  <1>1. IInv => RequestRunsOnce
    BY DEF IInv, OriginOK, SlotOK, RequestRunsOnce
  <1> QED
    BY <1>1, InvAlways, PTL

\* In a session of the broker, available means discovered and heard.
THEOREM HeardWhenAvailable == Spec => []AvailableIsHeard
  <1>1. WInv => AvailableIsHeard
    BY DEF WInv
  <1> QED
    BY <1>1, InvAlways, PTL

=============================================================================
