---------------------------- MODULE EventSource ---------------------------
(***************************************************************************)
(* Event.Items over a transport: one goroutine takes messages from the     *)
(* broker, a second decodes each, hands its object references on to        *)
(* discovery and then acknowledges it.                                     *)
(*                                                                         *)
(* Kafka keeps a message until its offset is committed, and a commit       *)
(* covers every earlier offset too; a new process reads on from there.     *)
(* BRPOP takes a message off the list as it reads it, so there is nothing  *)
(* to acknowledge.  The pipeline behind discovery is here the set of       *)
(* objects it holds in memory, each of which it may bring to an answer in  *)
(* the stores; Pipeline has the detail.                                    *)
(***************************************************************************)
EXTENDS Naturals

CONSTANTS
    N,           \* notifications, by their offset in the topic
    Objects,
    RefsOf,      \* the objects a message names, created ones only
    Decodable,   \* messages Decode accepts, whole
    Transports,  \* EVENT_TRANSPORT: "kafka" or "redis"
    SourceFaults,
    MaxProcesses \* bound on restarts

Messages == 1..N

ASSUME SourceAssumption ==
    /\ N \in Nat /\ MaxProcesses \in Nat \ {0}
    /\ RefsOf \in [Messages -> SUBSET Objects]
    /\ Decodable \subseteq Messages
    /\ Transports \subseteq {"kafka", "redis"}
    /\ SourceFaults \subseteq {"cancel", "crash", "commit"}

VARIABLES
    transport,  \* as the configuration has it
    produced,   \* notifications the bucket has sent
    position,   \* kafka.Reader: the last offset fetched
    committed,  \* the consumer group's offset
    popped,     \* Redis: the messages off the list
    carrier,    \* the transport's goroutine
    carried,    \* the message it is offering
    handler,    \* the goroutine of Event.Items
    handling,   \* the message it works on
    toSend,     \* its references not handed on yet
    handedOn,   \* history: references that discovery received, ever
    cancelled, processes

brokerVars   == <<produced, position, committed, popped>>
carrierVars  == <<carrier, carried>>
handlerVars  == <<handler, handling, toSend>>
processVars  == <<transport, cancelled, processes>>
vars == <<brokerVars, carrierVars, handlerVars, handedOn, processVars>>

Can(fault) == fault \in SourceFaults

TypeOK ==
    /\ transport \in Transports
    /\ produced \in 0..N /\ position \in 0..N /\ committed \in 0..N
    /\ popped \subseteq Messages
    /\ carrier \in {"consuming", "offering", "returned"}
    /\ carried \in 0..N
    /\ handler \in {"receiving", "sending", "acking", "returned"}
    /\ handling \in 0..N
    /\ toSend \subseteq Objects
    /\ handedOn \subseteq Objects
    /\ cancelled \in BOOLEAN
    /\ processes \in 1..MaxProcesses

Init ==
    /\ transport \in Transports
    /\ produced = 0 /\ position = 0 /\ committed = 0 /\ popped = {}
    /\ carrier = "consuming" /\ carried = 0
    /\ handler = "receiving" /\ handling = 0 /\ toSend = {}
    /\ handedOn = {}
    /\ cancelled = FALSE /\ processes = 1

\* The bucket: an upload is announced.
Notify ==
    /\ produced < N
    /\ produced' = produced + 1
    /\ UNCHANGED <<position, committed, popped, carrierVars, handlerVars,
                   handedOn, processVars>>

\* What the broker would give the transport now.  Which end of the Redis list
\* is the older one depends on how the bucket pushed.
Available ==
    IF transport = "kafka" THEN {position + 1} \cap 1..produced
                           ELSE 1..produced \ popped

\* FetchMessage, or BRPop.
Consume(m) ==
    /\ carrier = "consuming" /\ m \in Available
    /\ carrier' = "offering" /\ carried' = m
    /\ IF transport = "kafka"
       THEN position' = m /\ UNCHANGED popped
       ELSE popped' = popped \cup {m} /\ UNCHANGED position
    /\ UNCHANGED <<produced, committed, handlerVars, handedOn, processVars>>

\* Both goroutines watch the context; a message being offered is let go.
CarrierStops ==
    /\ cancelled /\ carrier # "returned"
    /\ carrier' = "returned"
    /\ UNCHANGED <<brokerVars, carried, handlerVars, handedOn, processVars>>

\* Mutant of Deliver: the message is committed as it is received.
DeliverCommitting ==
    /\ carrier = "offering" /\ handler = "receiving"
    /\ carrier' = "consuming" /\ carried' = 0
    /\ handling' = carried
    /\ toSend' = IF carried \in Decodable THEN RefsOf[carried] ELSE {}
    /\ handler' = IF toSend' = {} THEN "acking" ELSE "sending"
    /\ committed' = carried
    /\ UNCHANGED <<produced, position, popped, handedOn, processVars>>

\* Mutant of Deliver: a payload that does not decode ends the goroutine.
DeliverOrReturn ==
    /\ carrier = "offering" /\ handler = "receiving"
    /\ carrier' = "consuming" /\ carried' = 0
    /\ handling' = carried
    /\ toSend' = IF carried \in Decodable THEN RefsOf[carried] ELSE {}
    /\ handler' = IF carried \notin Decodable THEN "returned"
                  ELSE IF toSend' = {} THEN "acking" ELSE "sending"
    /\ UNCHANGED <<brokerVars, handedOn, processVars>>

\* The delivery is received and decoded.  Its references go out one by one, in
\* an order nothing depends on.  A payload that does not decode, and one
\* without created objects, goes straight to its acknowledgement.
Deliver ==
    /\ carrier = "offering" /\ handler = "receiving"
    /\ carrier' = "consuming" /\ carried' = 0
    /\ handling' = carried
    /\ toSend' = IF carried \in Decodable THEN RefsOf[carried] ELSE {}
    /\ handler' = IF toSend' = {} THEN "acking" ELSE "sending"
    /\ UNCHANGED <<brokerVars, handedOn, processVars>>

HandOn(o) ==
    /\ handler = "sending" /\ o \in toSend
    /\ toSend' = toSend \ {o}
    /\ handler' = IF toSend = {o} THEN "acking" ELSE "sending"
    /\ handedOn' = handedOn \cup {o}
    /\ UNCHANGED <<brokerVars, carrierVars, handling, processVars>>

\* Mutant of HandlerStops: the send has no ctx.Done() beside it.
HandlerStopsIdle ==
    /\ handler = "receiving" /\ carrier = "returned"
    /\ handler' = "returned"
    /\ UNCHANGED <<brokerVars, carrierVars, handling, toSend, handedOn,
                   processVars>>

\* ctx.Done() while a reference is offered, or the deliveries are closed.
HandlerStops ==
    /\ \/ cancelled /\ handler = "sending"
       \/ handler = "receiving" /\ carrier = "returned"
    /\ handler' = "returned"
    /\ UNCHANGED <<brokerVars, carrierVars, handling, toSend, handedOn,
                   processVars>>

\* Mutant of Ack: the offset to read on from is committed, which the library
\* works out itself.
AckNext ==
    /\ handler = "acking"
    /\ committed' = IF transport = "kafka" THEN handling + 1 ELSE committed
    /\ handler' = "receiving"
    /\ UNCHANGED <<produced, position, popped, carrierVars, handling, toSend,
                   handedOn, processVars>>

\* Ack, with a context that is not cancelled; an error is logged.
Ack ==
    /\ handler = "acking"
    /\ \/ committed' = IF transport = "kafka" THEN handling ELSE committed
       \/ Can("commit") /\ UNCHANGED committed
    /\ handler' = "receiving"
    /\ UNCHANGED <<produced, position, popped, carrierVars, handling, toSend,
                   handedOn, processVars>>

Cancel ==
    /\ Can("cancel") /\ ~cancelled
    /\ cancelled' = TRUE
    /\ UNCHANGED <<brokerVars, carrierVars, handlerVars, handedOn,
                   transport, processes>>

\* The process ends, killed or after a signal, and another one starts.
NewProcess ==
    /\ Can("crash") \/ cancelled
    /\ processes < MaxProcesses
    /\ processes' = processes + 1
    /\ position' = committed
    /\ carrier' = "consuming" /\ carried' = 0
    /\ handler' = "receiving" /\ handling' = 0 /\ toSend' = {}
    /\ cancelled' = FALSE
    /\ UNCHANGED <<transport, produced, committed, popped, handedOn>>

Carry  == (\E m \in Messages : Consume(m)) \/ CarrierStops
Send   == \E o \in Objects : HandOn(o)
Handle == Deliver \/ HandlerStops \/ Ack

Next ==
    \/ Notify \/ Carry \/ Send \/ Handle
    \/ Cancel \/ NewProcess

Spec == Init /\ [][Next]_vars

\* The two goroutines run, and discovery receives what it is offered until the
\* context ends (a Pipeline property: EveryDeliveryAnswered needs each read).
\* Nothing is asked of uploads, of signals and of restarts.
FairSpec ==
    /\ Spec
    /\ WF_vars(Carry) /\ WF_vars(Handle)
    /\ WF_vars(~cancelled /\ Send)

------------------------------------------------------------------------
(* Properties.                                                             *)

HandedOn(m) == m \in Decodable => RefsOf[m] \subseteq handedOn

\* A commit covers every earlier offset, so it may only happen when all of
\* them are dealt with: whatever the group has moved past is undecodable or
\* has reached discovery whole, across failed commits, signals and crashes
\* (Event.Items acknowledges after the loop over refs, one message at a time).
CommitFollowsHandOn == \A m \in 1..committed : HandedOn(m)

\* Every notification sent gets all its objects to discovery, unless the
\* signal comes: an undecodable message, a failed commit or a crash holds no
\* later one up.  Redis keeps nothing for the process after a crash.
EveryNotificationHandedOn ==
    \A m \in Messages :
        m <= produced ~> \/ cancelled \/ HandedOn(m)
                         \/ transport = "redis" /\ processes > 1

\* After the signal both goroutines return, whoever they were waiting for:
\* Items closes its channel, which is what ends an event-driven run.
SourceStops ==
    cancelled ~> ~cancelled \/ (carrier = "returned" /\ handler = "returned")
============================================================================
