------------------------- MODULE EventSourceProofs ------------------------
(***************************************************************************)
(* Why the cumulative commit of Event.Items is safe.  The transport and    *)
(* the handler hold at most one message each, the handler's is the older,  *)
(* and everything else the reader has passed is dealt with; so when the    *)
(* handler acknowledges its message, nothing before it is still open.      *)
(***************************************************************************)
EXTENDS EventSource, TLAPS

\* The two messages in hand are the last two fetched, in order.
InOrder ==
    IF transport = "kafka"
    THEN /\ committed <= position /\ handling <= position
         /\ carried # 0 => carried = position /\ handling < carried
    ELSE committed = 0 /\ position = 0

\* What the reader has passed is dealt with or in hand.
Settled == \A m \in 1..position : HandedOn(m) \/ m = carried \/ m = handling

\* How far the message in the handler's hand is.
Progressing ==
    /\ handler \in {"receiving", "acking"} => HandedOn(handling)
    /\ handler = "sending" => RefsOf[handling] \subseteq handedOn \cup toSend
    /\ carrier = "consuming" => carried = 0

Inv == TypeOK /\ InOrder /\ Settled /\ Progressing /\ CommitFollowsHandOn

\* The first process starts in a state of the right type.
LEMMA InitTyped == Init => TypeOK
<1>1. N \in Nat /\ MaxProcesses \in Nat /\ 1 <= MaxProcesses
  BY SourceAssumption
<1>2. Init => cancelled \in BOOLEAN
  BY DEF Init
<1> QED
  BY <1>1, <1>2 DEF Init, TypeOK

\* The variables keep their types: no offset runs past the log.
THEOREM TypeCorrect == Spec => []TypeOK
<1>1. Init => TypeOK
  BY InitTyped
<1>2. TypeOK /\ [Next]_vars => TypeOK'
  <2> SUFFICES ASSUME TypeOK, [Next]_vars PROVE TypeOK'
    OBVIOUS
  <2> USE SourceAssumption DEF TypeOK, Messages
  <2>1. CASE Notify
    BY <2>1 DEF Notify, carrierVars, handlerVars, processVars
  <2>2. ASSUME NEW m \in Messages, Consume(m) PROVE TypeOK'
    <3>1. m \in 0..N
      OBVIOUS
    <3>2. position' \in {m, position} /\ popped' \in {popped, popped \cup {m}}
      BY <2>2 DEF Consume
    <3> QED
      BY <2>2, <3>1, <3>2 DEF Consume, handlerVars, processVars
  <2>3. CASE CarrierStops
    BY <2>3 DEF CarrierStops, brokerVars, handlerVars, processVars
  <2>4. CASE Deliver
    BY <2>4 DEF Deliver, brokerVars, processVars
  <2>5. ASSUME NEW o \in Objects, HandOn(o) PROVE TypeOK'
    BY <2>5 DEF HandOn, brokerVars, carrierVars, processVars
  <2>6. CASE HandlerStops
    BY <2>6 DEF HandlerStops, brokerVars, carrierVars, processVars
  <2>7. CASE Ack
    BY <2>7 DEF Ack, carrierVars, processVars
  <2>8. CASE Cancel
    BY <2>8 DEF Cancel, brokerVars, carrierVars, handlerVars
  <2>9. CASE NewProcess
    <3>1. cancelled' \in BOOLEAN
      BY <2>9 DEF NewProcess
    <3> QED
      BY <2>9, <3>1 DEF NewProcess
  <2>10. CASE UNCHANGED vars
    BY <2>10 DEF vars, brokerVars, carrierVars, handlerVars,
                 processVars
  <2> QED
    BY <2>1, <2>2, <2>3, <2>4, <2>5, <2>6, <2>7, <2>8, <2>9, <2>10
    DEF Next, Carry, Send, Handle
<1> QED
  BY <1>1, <1>2, PTL DEF Spec

\* The configuration stays as it is.
LEMMA TransportKept == [Next]_vars => UNCHANGED transport
<1> SUFFICES ASSUME [Next]_vars PROVE transport' = transport
  OBVIOUS
<1> USE DEF processVars
<1>1. ASSUME NEW m \in Messages, Consume(m) PROVE transport' = transport
  BY <1>1 DEF Consume
<1>2. ASSUME NEW o \in Objects, HandOn(o) PROVE transport' = transport
  BY <1>2 DEF HandOn
<1>3. CASE Notify \/ CarrierStops \/ Deliver \/ HandlerStops \/ Ack \/ Cancel
           \/ NewProcess \/ UNCHANGED vars
  BY <1>3 DEF Notify, CarrierStops, Deliver, HandlerStops, Ack, Cancel,
              NewProcess, vars
<1> QED
  BY <1>1, <1>2, <1>3 DEF Next, Carry, Send, Handle

\* What has been handed on stays so.
LEMMA HandedOnStays ==
    ASSUME [Next]_vars
    PROVE  handedOn \subseteq handedOn'
<1>1. ASSUME NEW m \in Messages, Consume(m) PROVE handedOn' = handedOn
  BY <1>1 DEF Consume
<1>2. ASSUME NEW o \in Objects, HandOn(o) PROVE handedOn \subseteq handedOn'
  BY <1>2 DEF HandOn
<1>3. CASE Notify \/ CarrierStops \/ Deliver \/ HandlerStops \/ Ack \/ Cancel
           \/ NewProcess \/ UNCHANGED vars
  BY <1>3 DEF Notify, CarrierStops, Deliver, HandlerStops, Ack, Cancel,
              NewProcess, vars
<1> QED
  BY <1>1, <1>2, <1>3 DEF Next, Carry, Send, Handle

\* The strengthening is inductive.  Only Consume, Deliver, HandOn, Ack and
\* NewProcess move a message.
LEMMA InvStep ==
    ASSUME Inv, TypeOK', [Next]_vars
    PROVE  Inv'
<1> USE SourceAssumption DEF Messages, HandedOn
<1>0. handedOn \subseteq handedOn'
  BY HandedOnStays
<1>a. transport' = transport
  BY TransportKept
<1>1. ASSUME NEW m \in Messages, Consume(m) PROVE Inv'
  <2>1. InOrder'
    BY <1>a, <1>1 DEF Inv, TypeOK, InOrder, Progressing, Consume, Available,
                handlerVars
  <2>2. Settled'
    BY <1>1 DEF Inv, TypeOK, InOrder, Settled, Progressing, Consume, Available,
                handlerVars
  <2>3. Progressing'
    BY <1>1 DEF Inv, Progressing, Consume, handlerVars
  <2>4. CommitFollowsHandOn'
    BY <1>1 DEF Inv, CommitFollowsHandOn, Consume
  <2> QED
    BY <2>1, <2>2, <2>3, <2>4 DEF Inv
<1>2. CASE Deliver
  <2>1. InOrder'
    BY <1>a, <1>2 DEF Inv, TypeOK, InOrder, Deliver, brokerVars
  <2>2. Settled'
    \* The message the handler lets go of has been handed on.
    BY <1>2 DEF Inv, Settled, Progressing, Deliver, brokerVars
  <2>3. Progressing'
    BY <1>2 DEF Inv, TypeOK, Progressing, Deliver
  <2>4. CommitFollowsHandOn'
    BY <1>2 DEF Inv, CommitFollowsHandOn, Deliver, brokerVars
  <2> QED
    BY <2>1, <2>2, <2>3, <2>4 DEF Inv
<1>3. ASSUME NEW o \in Objects, HandOn(o) PROVE Inv'
  <2>1. InOrder'
    BY <1>a, <1>3 DEF Inv, InOrder, HandOn, brokerVars, carrierVars
  <2>2. Settled'
    BY <1>0, <1>3 DEF Inv, Settled, HandOn, brokerVars, carrierVars
  <2>3. Progressing'
    BY <1>3 DEF Inv, Progressing, HandOn, carrierVars
  <2>4. CommitFollowsHandOn'
    BY <1>0, <1>3 DEF Inv, CommitFollowsHandOn, HandOn, brokerVars
  <2> QED
    BY <2>1, <2>2, <2>3, <2>4 DEF Inv
<1>4. CASE Ack
  <2>1. InOrder'
    BY <1>a, <1>4 DEF Inv, TypeOK, InOrder, Ack, carrierVars
  <2>2. Settled'
    BY <1>4 DEF Inv, Settled, Ack, carrierVars
  <2>3. Progressing'
    BY <1>4 DEF Inv, Progressing, Ack, carrierVars
  <2>4. CommitFollowsHandOn'
    <3>1. CASE committed' = committed
      BY <1>4, <3>1 DEF Inv, CommitFollowsHandOn, Ack
    <3>2. CASE transport = "kafka" /\ committed' = handling
      <4>1. \A k \in 1..handling : HandedOn(k)
        \* Nothing up to this message is in the transport's hand.
        BY <1>4, <3>2 DEF Inv, TypeOK, InOrder, Settled, Progressing, Ack
      <4> QED
        BY <1>4, <3>2, <4>1 DEF CommitFollowsHandOn, Ack
    <3> QED
      BY <1>4, <3>1, <3>2 DEF Ack
  <2> QED
    BY <2>1, <2>2, <2>3, <2>4 DEF Inv
<1>5. CASE NewProcess
  <2>1. InOrder'
    BY <1>a, <1>5 DEF Inv, TypeOK, InOrder, NewProcess
  <2>2. Settled' /\ CommitFollowsHandOn'
    BY <1>5 DEF Inv, Settled, CommitFollowsHandOn, NewProcess
  <2>3. Progressing'
    BY <1>5 DEF Progressing, NewProcess
  <2> QED
    BY <2>1, <2>2, <2>3 DEF Inv
<1>6. CASE CarrierStops \/ HandlerStops
  BY <1>a, <1>6 DEF Inv, TypeOK, InOrder, Settled, Progressing,
              CommitFollowsHandOn, CarrierStops, HandlerStops, brokerVars, carrierVars,
              handlerVars
<1>7. CASE Notify \/ Cancel \/ UNCHANGED vars
  BY <1>a, <1>7 DEF Inv, InOrder, Settled, Progressing,
              CommitFollowsHandOn, Notify, Cancel, vars, brokerVars,
              carrierVars, handlerVars
<1> QED
  BY <1>1, <1>2, <1>3, <1>4, <1>5, <1>6, <1>7 DEF Next, Carry, Send, Handle

\* The group moves past a message only once discovery has all its objects (or
\* it does not decode), for every log, every division of it into objects and
\* any number of failed commits, signals, crashes and restarts.
THEOREM CommitsFollowHandOn == Spec => []CommitFollowsHandOn
<1>1. Init => Inv
  <2>1. Init => InOrder /\ Settled /\ CommitFollowsHandOn
    BY DEF Init, InOrder, Settled, CommitFollowsHandOn
  <2>2. Init => Progressing
    BY SourceAssumption DEF Init, Progressing, HandedOn, Messages
  <2> QED
    BY InitTyped, <2>1, <2>2 DEF Inv
<1>2. Inv /\ TypeOK' /\ [Next]_vars => Inv'
  BY InvStep
<1>3. Inv => CommitFollowsHandOn
  BY DEF Inv
<1> QED
  BY <1>1, <1>2, <1>3, TypeCorrect, PTL DEF Spec
============================================================================
