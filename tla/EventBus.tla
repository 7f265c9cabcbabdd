------------------------------ MODULE EventBus -------------------------------
(***************************************************************************)
(* The realtime event stream: EventBus and the AlertBroadcaster around it  *)
(* (src/ws_stream.rs).  The broadcaster sits behind the AppState lock, so  *)
(* each operation is one step.                                             *)
(*                                                                         *)
(* An event is the number of its publication; its payload is left out.     *)
(* Nothing refreshes last_ping, so a connection is idle since it was made. *)
(***************************************************************************)
EXTENDS Integers, Sequences, FiniteSets, SequencesExt

CONSTANTS
  Channel,      \* event types
  MaxBuffer,    \* max_buffer, of the ring and of each subscriber's queue
  MaxEvents,    \* bound: events published
  MaxSubs       \* bound: subscriptions made

ASSUME EventBusAssumption == MaxBuffer \in Nat /\ MaxEvents \in Nat /\ MaxSubs \in Nat

VARIABLES
  events,       \* the ring of recent events
  dropped, maxDepth, nextId,
  subs,         \* subscribers by id: channels, queue; since and taken are history
  connections,  \* the broadcaster's connected clients
  published,    \* history: the type of every event
  missed        \* history: events that subscribers which left had lost

busVars == <<events, dropped, maxDepth, nextId, subs, connections, published, missed>>

sequence == Len(published)

BusInit ==
  /\ events = <<>> /\ dropped = 0 /\ maxDepth = 0 /\ nextId = 1
  /\ subs = <<>> /\ connections = {}
  /\ published = <<>> /\ missed = 0

-----------------------------------------------------------------------------
Listens(s, type) == s.channels = {} \/ type \in s.channels

\* pop_front until the buffer is within its limit.
Newest(q) == IF Len(q) > MaxBuffer THEN SubSeq(q, Len(q) - MaxBuffer + 1, Len(q)) ELSE q

\* Mutant: only the ring's evictions are counted.
EvictionsOfRing(queues) == IF Len(events) + 1 > MaxBuffer THEN 1 ELSE 0

\* How many events publish evicts, from the ring and from the queues pushed to.
Evictions(queues) ==
  (IF Len(events) + 1 > MaxBuffer THEN 1 ELSE 0)
     + Cardinality({id \in DOMAIN queues : Len(queues[id]) > MaxBuffer})

\* publish: the event goes to the subscribers' queues and to the ring; the
\* depth is taken before the queue is cut.
Publish(type) ==
  LET n == sequence + 1
      pushed == [id \in {x \in DOMAIN subs : Listens(subs[x], type)} |->
                   Append(subs[id].queue, n)]
  IN /\ n <= MaxEvents
     /\ published' = Append(published, type)
     /\ subs' = [id \in DOMAIN subs |->
                   IF id \in DOMAIN pushed
                     THEN [subs[id] EXCEPT !.queue = Newest(pushed[id])]
                     ELSE subs[id]]
     /\ events' = Newest(Append(events, n))
     /\ dropped' = dropped + Evictions(pushed)
     /\ maxDepth' = Max({maxDepth} \cup {Len(pushed[id]) : id \in DOMAIN pushed})
     /\ UNCHANGED <<nextId, connections, missed>>

\* subscribe
Subscribe(channels) ==
  /\ nextId <= MaxSubs
  /\ nextId' = nextId + 1
  /\ subs' = [id \in DOMAIN subs \cup {nextId} |->
                IF id = nextId
                  THEN [channels |-> channels, queue |-> <<>>, since |-> sequence, taken |-> {}]
                  ELSE subs[id]]
  /\ UNCHANGED <<events, dropped, maxDepth, published, missed>>

\* A client of the bus itself.
Listen(channels) == channels # {} /\ Subscribe(channels) /\ UNCHANGED connections

\* connect: a client of the broadcaster gets every event.
Connect == Subscribe({}) /\ connections' = connections \cup {nextId}

\* What subscriber id was to get and neither got nor has waiting.
Lost(id) ==
  {n \in (subs[id].since + 1)..sequence : Listens(subs[id], published[n])}
     \ (Range(subs[id].queue) \cup subs[id].taken)

\* Sum of the losses of some subscribers.
LostBy(ids) == Cardinality(UNION {{id} \X Lost(id) : id \in ids})

\* unsubscribe of several
Leave(ids) ==
  /\ subs' = [id \in DOMAIN subs \ ids |-> subs[id]]
  /\ missed' = missed + LostBy(ids)
  /\ UNCHANGED <<events, dropped, maxDepth, nextId, published>>

\* disconnect
Disconnect(id) == connections' = connections \ {id} /\ Leave({id})

\* sweep_idle: the clients that connected longest ago.
SweepIdle(last) ==
  LET idle == {id \in connections : id <= last}
  IN connections' = connections \ idle /\ Leave(idle)

\* drain
Drain(id) ==
  /\ subs' = [subs EXCEPT ![id].taken = @ \cup Range(subs[id].queue), ![id].queue = <<>>]
  /\ UNCHANGED <<events, dropped, maxDepth, nextId, connections, published, missed>>

BusNext ==
  \/ \E type \in Channel : Publish(type)
  \/ \E channels \in SUBSET Channel : Listen(channels)
  \/ Connect
  \/ \E id \in DOMAIN subs : Disconnect(id)
  \/ \E last \in connections : SweepIdle(last)
  \/ \E id \in DOMAIN subs : Drain(id)

BusSpec == BusInit /\ [][BusNext]_busVars

-----------------------------------------------------------------------------
(* Properties *)

\* No loss is silent: dropped_events is what subscribers lost, those that left
\* too, and what the ring let go.
DropsCounted ==
  dropped = missed + LostBy(DOMAIN subs)
              + Cardinality({n \in 1..sequence : n \notin Range(events)})
=============================================================================
