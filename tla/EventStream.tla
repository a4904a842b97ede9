---------------------------- MODULE EventStream ----------------------------
(***************************************************************************)
(* The event stream of one task: RedisStore.append_event and iter_events,  *)
(* and the SSE route that serves it.  The worker's handler, its parallel   *)
(* tool calls and the requests of the API append; subscribers read, lose   *)
(* their connection, and come back with the id of the last event received. *)
(* An event id is its place in the order of XADD, which Redis makes grow.  *)
(* Of an event we keep its sequence number and whether its type ends the   *)
(* SSE response.  The TTLs of the two keys are a day, renewed by every     *)
(* event; they do not expire here.                                         *)
(***************************************************************************)
EXTENDS Naturals, Sequences

CONSTANTS
  Writers,       \* callers of append_event
  Subscribers,   \* clients of the events route
  MaxLength,     \* event_stream_max_length
  BatchSize,     \* count of XREAD
  MaxEvents,     \* bound: INCR commands
  MaxDrops       \* bound: lost connections

ASSUME StreamAssumption ==
  /\ {MaxLength, BatchSize} \subseteq Nat \ {0}
  /\ {MaxEvents, MaxDrops} \subseteq Nat

\* floor: how many events had been added when append_event was called for this one.
Event == [number : Nat, floor : Nat, final : BOOLEAN]

NoNumber == 0

VARIABLES
  sequence,    \* the counter under sequence_key
  log,         \* every event added, by id
  first,       \* the oldest id the stream still holds
  writer,      \* writer[w]: its number, NoNumber when it appends nothing
  sse,         \* sse[s]: the response of subscriber s on the server
  wire,        \* wire[s]: ids sent to s and not yet received
  received,    \* received[s]: ids s has received, in that order
  drops        \* bound: connections lost

vars == <<sequence, log, first, writer, sse, wire, received, drops>>

readers == <<sse, wire, received, drops>>

Response == [phase : {"closed", "open", "tail", "ended"}, cursor : Nat, batch : Seq(Nat)]

Closed == [phase |-> "closed", cursor |-> 0, batch |-> <<>>]

Init ==
  /\ sequence = 0 /\ log = <<>> /\ first = 1
  /\ writer = [w \in Writers |-> [number |-> NoNumber, floor |-> 0]]
  /\ sse = [s \in Subscribers |-> Closed]
  /\ wire = [s \in Subscribers |-> <<>>]
  /\ received = [s \in Subscribers |-> <<>>]
  /\ drops = 0

-----------------------------------------------------------------------------
\* Mutant: events are numbered by the length of the stream.
NumberByLength == Len(log) - first + 2

\* INCR
NextNumber == sequence + 1

\* append_event: the number ...
TakeNumber(w) ==
  /\ writer[w].number = NoNumber
  /\ sequence < MaxEvents
  /\ sequence' = sequence + 1
  /\ writer' = [writer EXCEPT ![w] = [number |-> NextNumber, floor |-> Len(log)]]
  /\ UNCHANGED <<log, first, readers>>

Idle(w) == writer' = [writer EXCEPT ![w] = [number |-> NoNumber, floor |-> 0]]

\* ... and the XADD, which may cut the stream to about MaxLength.  The call
\* returns, or raises when a later command fails: the event is there.
AddEvent(w) ==
  /\ writer[w].number # NoNumber
  /\ \E final \in BOOLEAN :
       log' = Append(log, [number |-> writer[w].number, floor |-> writer[w].floor,
                           final |-> final])
  /\ \E oldest \in first .. Len(log) + 1 :
       /\ oldest = first \/ Len(log) + 1 - oldest + 1 >= MaxLength
       /\ first' = oldest
  /\ Idle(w)
  /\ UNCHANGED <<sequence, readers>>

\* The connection to Redis fails, or the process dies, before the XADD.
Abandon(w) ==
  /\ writer[w].number # NoNumber
  /\ Idle(w)
  /\ UNCHANGED <<sequence, log, first, readers>>

-----------------------------------------------------------------------------
LastReceived(s) == IF received[s] = <<>> THEN 0 ELSE received[s][Len(received[s])]

\* stream_task_events: the cursor is the Last-Event-ID, or "0-0".
Connect(s) ==
  /\ sse[s].phase = "closed" /\ wire[s] = <<>>
  /\ sse' = [sse EXCEPT ![s] = [phase |-> "open", cursor |-> LastReceived(s),
                                batch |-> <<>>]]
  /\ UNCHANGED <<sequence, log, first, writer, wire, received, drops>>

\* What the stream holds after an id.
After(id) ==
  LET from == IF id < first THEN first ELSE id + 1
  IN [i \in 1 .. Len(log) + 1 - from |-> from + i - 1]

Fetch(s, batch) ==
  /\ sse' = [sse EXCEPT ![s] = [phase |-> "tail", cursor |-> @.cursor, batch |-> batch]]
  /\ UNCHANGED <<sequence, log, first, writer, wire, received, drops>>

\* iter_events: XRANGE gives all there is after the cursor, once.
Backlog(s) == sse[s].phase = "open" /\ Fetch(s, After(sse[s].cursor))

\* Mutant: XREAD from the end of the stream.
ReadFromNow(s) == FALSE /\ Fetch(s, <<>>)

\* XREAD: a batch after the cursor, when the last one has been served.
Read(s) ==
  LET new == After(sse[s].cursor)
  IN /\ sse[s].phase = "tail" /\ sse[s].batch = <<>>
     /\ new # <<>>
     /\ Fetch(s, SubSeq(new, 1, IF Len(new) < BatchSize THEN Len(new) ELSE BatchSize))

\* Mutant: the cursor stays where the batch began.
ServeForgetting(s) ==
  LET id == Head(sse[s].batch)
  IN /\ sse[s].batch # <<>>
     /\ wire' = [wire EXCEPT ![s] = Append(@, id)]
     /\ sse' = [sse EXCEPT ![s].phase = IF log[id].final THEN "ended" ELSE "tail",
                           ![s].batch = IF log[id].final THEN <<>> ELSE Tail(@)]
     /\ UNCHANGED <<sequence, log, first, writer, received, drops>>

\* Mutant: the cursor moves on before the event is sent.
ServeAhead(s) ==
  LET id == Head(sse[s].batch)
  IN /\ sse[s].batch # <<>>
     /\ wire' = [wire EXCEPT ![s] = Append(@, id)]
     /\ sse' = [sse EXCEPT ![s] =
          [phase |-> IF log[id].final THEN "ended" ELSE "tail", cursor |-> id + 1,
           batch |-> IF log[id].final THEN <<>> ELSE Tail(sse[s].batch)]]
     /\ UNCHANGED <<sequence, log, first, writer, received, drops>>

\* event_generator sends the next event, and ends the response at an event
\* that says the task rests.
Serve(s) ==
  LET id == Head(sse[s].batch)
  IN /\ sse[s].batch # <<>>
     /\ wire' = [wire EXCEPT ![s] = Append(@, id)]
     /\ sse' = [sse EXCEPT ![s] =
          [phase |-> IF log[id].final THEN "ended" ELSE "tail", cursor |-> id,
           batch |-> IF log[id].final THEN <<>> ELSE Tail(sse[s].batch)]]
     /\ UNCHANGED <<sequence, log, first, writer, received, drops>>

Receive(s) ==
  /\ wire[s] # <<>>
  /\ received' = [received EXCEPT ![s] = Append(@, Head(wire[s]))]
  /\ wire' = [wire EXCEPT ![s] = Tail(@)]
  /\ UNCHANGED <<sequence, log, first, writer, sse, drops>>

\* The client has read the end of the response.
End(s) ==
  /\ sse[s].phase = "ended" /\ wire[s] = <<>>
  /\ sse' = [sse EXCEPT ![s] = Closed]
  /\ UNCHANGED <<sequence, log, first, writer, wire, received, drops>>

\* The connection breaks: what is on the wire is lost.
Drop(s) ==
  /\ sse[s].phase # "closed"
  /\ drops < MaxDrops
  /\ drops' = drops + 1
  /\ sse' = [sse EXCEPT ![s] = Closed]
  /\ wire' = [wire EXCEPT ![s] = <<>>]
  /\ UNCHANGED <<sequence, log, first, writer, received>>

Stream(s) == Connect(s) \/ Backlog(s) \/ Read(s) \/ Serve(s) \/ Receive(s) \/ End(s)

Next ==
  \/ \E w \in Writers : TakeNumber(w) \/ AddEvent(w) \/ Abandon(w)
  \/ \E s \in Subscribers : Stream(s) \/ Drop(s)

Spec == Init /\ [][Next]_vars

\* The server serves what is there, and the "retry: 3000" it sends makes an
\* EventSource come back.  Nobody has to append, and connections may break.
FairSpec == Spec /\ \A s \in Subscribers : WF_vars(Stream(s))

-----------------------------------------------------------------------------
Ids == 1 .. Len(log)

\* Types; every id a response or a client holds is of an event that was added.
TypeOK ==
  /\ sequence \in Nat /\ drops \in Nat
  /\ log \in Seq(Event) /\ first \in 1 .. Len(log) + 1
  /\ writer \in [Writers -> [number : 0 .. sequence, floor : 0 .. Len(log)]]
  /\ sse \in [Subscribers -> Response]
  /\ \A s \in Subscribers : /\ sse[s].cursor \in 0 .. Len(log)
                            /\ sse[s].batch \in Seq(Ids)
  /\ wire \in [Subscribers -> Seq(Ids)]
  /\ received \in [Subscribers -> Seq(Ids)]

\* Sequence numbers name events uniquely and follow what really happened before: an
\* event is numbered above every event that was in the stream when its append_event
\* was called.  Two appends that overlap may stand in the stream against their numbers.
NumbersFollow ==
  \A i, j \in DOMAIN log :
    /\ i # j => log[i].number # log[j].number
    /\ i <= log[j].floor => log[i].number < log[j].number

Feed == INSTANCE OrderedFeed WITH added <- Len(log)

\* The stream implements OrderedFeed: whatever connections break and whenever a
\* client comes back, with writers adding and Redis trimming meanwhile.
FeedKept == Feed!Spec

\* A subscriber that keeps coming back sees every event, or a newer one after it was
\* trimmed, events behind one that ends the response included.
CatchesUp ==
  \A s \in Subscribers : \A id \in 1 .. MaxEvents :
    Len(log) >= id ~> LastReceived(s) >= id
=============================================================================
