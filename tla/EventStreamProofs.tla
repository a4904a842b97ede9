------------------------- MODULE EventStreamProofs -------------------------
(***************************************************************************)
(* EventStream's types, NumbersFollow and the refinement of OrderedFeed,   *)
(* for any writers, subscribers, lengths and faults.                       *)
(***************************************************************************)
EXTENDS EventStream, SequenceTheorems, TLAPS

-----------------------------------------------------------------------------
\* Sequences.

LEMMA FunctionIsSeq ==
  ASSUME NEW S, NEW n \in Nat, NEW f \in [1 .. n -> S]
  PROVE  f \in Seq(S) /\ Len(f) = n
  BY SeqDef

LEMMA AddedSeq ==
  ASSUME NEW S, NEW q \in Seq(S), NEW e \in S
  PROVE  /\ Append(q, e) \in Seq(S)
         /\ Len(Append(q, e)) = Len(q) + 1
         /\ \A i \in 1 .. Len(q) : Append(q, e)[i] = q[i]
         /\ Append(q, e)[Len(q) + 1] = e
  BY AppendProperties

\* Ids stay ids as the stream grows.
LEMMA IdsGrow ==
  ASSUME NEW m \in Nat, NEW n \in Nat, m <= n
  PROVE  Seq(1 .. m) \subseteq Seq(1 .. n)
<1>1. 1 .. m \subseteq 1 .. n
  OBVIOUS
<1> QED
  BY <1>1, SeqMonotonic

LEMMA LastReceivedType ==
  ASSUME TypeOK, NEW s \in Subscribers
  PROVE  LastReceived(s) \in 0 .. Len(log)
<1>1. received[s] \in Seq(Ids)
  BY DEF TypeOK
<1>2. Len(log) \in Nat
  BY LenProperties DEF TypeOK
<1>3. CASE received[s] = <<>>
  BY <1>2, <1>3 DEF LastReceived
<1>4. CASE received[s] # <<>>
  <2>1. Len(received[s]) \in Nat \ {0}
    BY <1>1, <1>4, EmptySeq
  <2>2. received[s][Len(received[s])] \in Ids
    BY <1>1, <2>1, ElementOfSeq
  <2> QED
    BY <1>2, <1>4, <2>2 DEF LastReceived, Ids
<1> QED
  BY <1>3, <1>4

\* After gives consecutive ids that are in the stream.
LEMMA AfterType ==
  ASSUME TypeOK, NEW id \in 0 .. Len(log)
  PROVE  LET from == IF id < first THEN first ELSE id + 1
         IN /\ from \in 1 .. Len(log) + 1
            /\ After(id) \in Seq(Ids)
            /\ Len(After(id)) = Len(log) + 1 - from
            /\ \A i \in 1 .. Len(After(id)) : After(id)[i] = from + i - 1
<1> DEFINE from == IF id < first THEN first ELSE id + 1
           n == Len(log) + 1 - from
<1>1. Len(log) \in Nat /\ first \in 1 .. Len(log) + 1
  BY LenProperties DEF TypeOK
<1>2. from \in 1 .. Len(log) + 1 /\ n \in Nat
  BY <1>1
<1>3. After(id) = [i \in 1 .. n |-> from + i - 1]
  BY DEF After
<1> HIDE DEF from
<1>4. After(id) \in [1 .. n -> Ids]
  BY <1>1, <1>2, <1>3 DEF Ids
<1>5. After(id) \in Seq(Ids) /\ Len(After(id)) = n
  BY <1>2, <1>4, FunctionIsSeq
<1>6. \A i \in 1 .. Len(After(id)) : After(id)[i] = from + i - 1
  BY <1>3, <1>5
<1> QED
  BY <1>2, <1>5, <1>6 DEF from

-----------------------------------------------------------------------------
\* What a step can do to the log.
LEMMA LogGrows ==
  ASSUME TypeOK, NEW w \in Writers, AddEvent(w)
  PROVE  /\ Len(log) \in Nat
         /\ log' \in Seq(Event)
         /\ Len(log') = Len(log) + 1
         /\ \A i \in 1 .. Len(log) : log'[i] = log[i]
         /\ log'[Len(log) + 1].number = writer[w].number
         /\ log'[Len(log) + 1].floor = writer[w].floor
<1>1. Len(log) \in Nat /\ log \in Seq(Event)
  BY LenProperties DEF TypeOK
<1>2. writer[w].number \in Nat /\ writer[w].floor \in Nat
  BY <1>1 DEF TypeOK
<1>3. PICK final \in BOOLEAN :
        log' = Append(log, [number |-> writer[w].number, floor |-> writer[w].floor,
                            final |-> final])
  BY DEF AddEvent
<1> DEFINE e == [number |-> writer[w].number, floor |-> writer[w].floor, final |-> final]
<1>4. e \in Event /\ e.number = writer[w].number /\ e.floor = writer[w].floor
  BY <1>2 DEF Event
<1> HIDE DEF e
<1>5. log' = Append(log, e)
  BY <1>3 DEF e
<1> QED
  BY <1>1, <1>4, <1>5, AddedSeq

LEMMA InitTypes == Init => TypeOK
<1> SUFFICES ASSUME Init PROVE TypeOK
  OBVIOUS
<1> USE DEF Init
<1>1. log \in Seq(Event) /\ Len(log) = 0
  BY EmptySeq
<1>2. \A S : <<>> \in Seq(S)
  BY EmptySeq
<1>3. Closed \in Response /\ Closed.cursor = 0 /\ Closed.batch = <<>>
  BY <1>2 DEF Closed, Response
<1>4. 0 \in 0 .. 0 /\ 1 \in 1 .. 0 + 1 /\ 0 \in Nat
  OBVIOUS
<1>5. sequence \in Nat /\ drops \in Nat /\ first \in 1 .. Len(log) + 1
  BY <1>1, <1>4
<1>6. writer \in [Writers -> [number : 0 .. sequence, floor : 0 .. Len(log)]]
  BY <1>1, <1>4 DEF NoNumber
<1>7. /\ sse \in [Subscribers -> Response]
      /\ \A s \in Subscribers : sse[s].cursor \in 0 .. Len(log) /\ sse[s].batch \in Seq(Ids)
  BY <1>1, <1>2, <1>3, <1>4
<1>8. wire \in [Subscribers -> Seq(Ids)] /\ received \in [Subscribers -> Seq(Ids)]
  BY <1>2
<1> QED
  BY <1>1, <1>5, <1>6, <1>7, <1>8 DEF TypeOK

LEMMA AppendTypes ==
  ASSUME TypeOK, NEW w \in Writers, TakeNumber(w) \/ AddEvent(w) \/ Abandon(w)
  PROVE  TypeOK'
<1>1. Len(log) \in Nat /\ log \in Seq(Event) /\ first \in 1 .. Len(log) + 1
  BY LenProperties DEF TypeOK
<1>2. \A v \in Writers : writer[v].number \in 0 .. sequence /\ writer[v].floor \in 0 .. Len(log)
  BY DEF TypeOK
<1>3. CASE TakeNumber(w)
  <2>1. /\ sequence' = sequence + 1 /\ sequence' \in Nat
        /\ writer' = [writer EXCEPT ![w] = [number |-> sequence + 1, floor |-> Len(log)]]
        /\ UNCHANGED <<log, first, sse, wire, received, drops>>
    BY <1>3 DEF TakeNumber, NextNumber, readers, TypeOK
  <2>2. [number |-> sequence + 1, floor |-> Len(log)]
            \in [number : 0 .. sequence', floor : 0 .. Len(log)]
    BY <1>1, <2>1 DEF TypeOK
  <2>3. writer \in [Writers -> [number : 0 .. sequence', floor : 0 .. Len(log)]]
    <3>1. 0 .. sequence \subseteq 0 .. sequence'
      BY <2>1 DEF TypeOK
    <3> QED
      BY <3>1 DEF TypeOK
  <2>4. writer' \in [Writers -> [number : 0 .. sequence', floor : 0 .. Len(log)]]
    BY <2>1, <2>2, <2>3
  <2> QED
    BY <2>1, <2>4 DEF TypeOK, Ids
<1>4. CASE AddEvent(w)
  <2>1. /\ log' \in Seq(Event) /\ Len(log') = Len(log) + 1
        /\ UNCHANGED <<sequence, sse, wire, received, drops>>
    BY <1>4, LogGrows DEF AddEvent, readers
  <2>2. first' \in 1 .. Len(log') + 1
    BY <1>1, <1>4, <2>1 DEF AddEvent
  <2>3. Seq(Ids) \subseteq Seq(Ids') /\ 0 .. Len(log) \subseteq 0 .. Len(log')
    BY <1>1, <2>1, IdsGrow DEF Ids
  <2>4. writer' \in [Writers -> [number : 0 .. sequence, floor : 0 .. Len(log)]]
    <3>1. 0 \in 0 .. sequence /\ 0 \in 0 .. Len(log)
      BY <1>1 DEF TypeOK
    <3> QED
      BY <1>4, <3>1 DEF AddEvent, Idle, NoNumber, TypeOK
  <2>5. writer' \in [Writers -> [number : 0 .. sequence', floor : 0 .. Len(log')]]
    BY <2>1, <2>3, <2>4
  <2>6. \A s \in Subscribers : sse'[s].cursor \in 0 .. Len(log') /\ sse'[s].batch \in Seq(Ids')
    BY <2>1, <2>3 DEF TypeOK
  <2>7. wire' \in [Subscribers -> Seq(Ids')] /\ received' \in [Subscribers -> Seq(Ids')]
    BY <2>1, <2>3 DEF TypeOK
  <2> QED
    BY <2>1, <2>2, <2>5, <2>6, <2>7 DEF TypeOK
<1>5. CASE Abandon(w)
  <2>1. UNCHANGED <<sequence, log, first, sse, wire, received, drops>>
    BY <1>5 DEF Abandon, readers
  <2>2. writer' \in [Writers -> [number : 0 .. sequence, floor : 0 .. Len(log)]]
    <3>1. 0 \in 0 .. sequence /\ 0 \in 0 .. Len(log)
      BY <1>1 DEF TypeOK
    <3> QED
      BY <1>5, <3>1 DEF Abandon, Idle, NoNumber, TypeOK
  <2> QED
    BY <2>1, <2>2 DEF TypeOK, Ids
<1> QED
  BY <1>3, <1>4, <1>5

\* A subscriber's response changes to another of ids that were added.
LEMMA ResponseTypes ==
  ASSUME TypeOK, NEW s \in Subscribers, NEW c \in Response,
         c.cursor \in 0 .. Len(log), c.batch \in Seq(Ids),
         sse' = [sse EXCEPT ![s] = c],
         UNCHANGED <<sequence, log, first, writer>>,
         wire' \in [Subscribers -> Seq(Ids)], received' \in [Subscribers -> Seq(Ids)],
         drops' \in Nat
  PROVE  TypeOK'
<1>1. sse' \in [Subscribers -> Response]
  BY DEF TypeOK
<1>2. \A t \in Subscribers : sse'[t].cursor \in 0 .. Len(log) /\ sse'[t].batch \in Seq(Ids)
  BY DEF TypeOK
<1> QED
  BY <1>1, <1>2 DEF TypeOK, Ids

LEMMA StreamTypes ==
  ASSUME TypeOK, NEW s \in Subscribers, Stream(s) \/ Drop(s)
  PROVE  TypeOK'
<1> DEFINE r == sse[s]
<1>1. /\ Len(log) \in Nat /\ Ids \subseteq Nat
      /\ wire \in [Subscribers -> Seq(Ids)] /\ received \in [Subscribers -> Seq(Ids)]
      /\ drops \in Nat
      /\ r \in Response /\ r.cursor \in 0 .. Len(log) /\ r.batch \in Seq(Ids)
  BY LenProperties DEF TypeOK, Ids
<1>2. Seq(Ids) \subseteq Seq(Nat) /\ 0 .. Len(log) \subseteq Nat /\ \A S : <<>> \in Seq(S)
  <2>1. Seq(Ids) \subseteq Seq(Nat)
    BY <1>1, SeqMonotonic
  <2>2. 0 .. Len(log) \subseteq Nat
    BY <1>1
  <2>3. \A S : <<>> \in Seq(S)
    BY EmptySeq
  <2> QED
    BY <2>1, <2>2, <2>3
<1>3. CASE Connect(s)
  <2> DEFINE c == [phase |-> "open", cursor |-> LastReceived(s), batch |-> <<>>]
  <2>1. c \in Response /\ c.cursor \in 0 .. Len(log) /\ c.batch \in Seq(Ids)
    BY <1>1, <1>2, LastReceivedType DEF Response
  <2>2. sse' = [sse EXCEPT ![s] = c]
    BY <1>3 DEF Connect
  <2> HIDE DEF c
  <2> QED
    BY <1>1, <1>3, <2>1, <2>2, ResponseTypes DEF Connect
<1>4. ASSUME NEW b \in Seq(Ids), Fetch(s, b) PROVE TypeOK'
  <2> DEFINE c == [phase |-> "tail", cursor |-> r.cursor, batch |-> b]
  <2>1. c \in Response /\ c.cursor \in 0 .. Len(log) /\ c.batch \in Seq(Ids)
    BY <1>1, <1>2, <1>4 DEF Response
  <2>2. sse' = [sse EXCEPT ![s] = c]
    BY <1>1, <1>4 DEF Fetch, Response, TypeOK
  <2> HIDE DEF c
  <2> QED
    BY <1>1, <1>4, <2>1, <2>2, ResponseTypes DEF Fetch
<1>5. CASE Backlog(s)
  BY <1>1, <1>4, <1>5, AfterType DEF Backlog
<1>6. CASE Read(s)
  <2> DEFINE new == After(r.cursor)
             k == IF Len(new) < BatchSize THEN Len(new) ELSE BatchSize
  <2>1. new \in Seq(Ids) /\ Len(new) \in Nat
    BY <1>1, AfterType, LenProperties
  <2>2. k \in 0 .. Len(new)
    BY <2>1, StreamAssumption
  <2>3. \A i \in 1 .. k : new[i] \in Ids
    BY <2>1, <2>2, ElementOfSeq
  <2> HIDE DEF new, k
  <2>4. SubSeq(new, 1, k) \in Seq(Ids)
    BY <2>2, <2>1, <2>3, SubSeqProperties
  <2> QED
    BY <1>4, <1>6, <2>4 DEF Read, new, k
<1>7. CASE Serve(s)
  <2> DEFINE id == Head(r.batch)
             final == log[id].final
             c == [phase |-> IF final THEN "ended" ELSE "tail", cursor |-> id,
                   batch |-> IF final THEN <<>> ELSE Tail(r.batch)]
  <2>1. r.batch # <<>>
    BY <1>7 DEF Serve
  <2>2. id \in Ids /\ Tail(r.batch) \in Seq(Ids)
    BY <1>1, <2>1, HeadTailProperties
  <2>3. id \in 0 .. Len(log)
    BY <2>2, <1>1 DEF Ids
  <2>4. c.cursor \in 0 .. Len(log) /\ c.batch \in Seq(Ids)
    BY <1>2, <2>2, <2>3
  <2>5. c \in Response
    BY <1>2, <2>3, <2>4 DEF Response
  <2>6. sse' = [sse EXCEPT ![s] = c]
    BY <1>7 DEF Serve
  <2>7. wire' \in [Subscribers -> Seq(Ids)]
    BY <1>1, <1>7, <2>2, AppendProperties DEF Serve
  <2> HIDE DEF c
  <2> QED
    BY <1>1, <1>7, <2>4, <2>5, <2>6, <2>7, ResponseTypes DEF Serve
<1>8. CASE Receive(s)
  <2>1. Head(wire[s]) \in Ids /\ Tail(wire[s]) \in Seq(Ids)
    BY <1>1, <1>8, HeadTailProperties DEF Receive
  <2>2. wire' \in [Subscribers -> Seq(Ids)] /\ received' \in [Subscribers -> Seq(Ids)]
    BY <1>1, <1>8, <2>1, AppendProperties DEF Receive
  <2> QED
    BY <1>8, <2>2 DEF Receive, TypeOK, Ids
<1>9. CASE End(s) \/ Drop(s)
  <2>1. Closed \in Response /\ Closed.cursor \in 0 .. Len(log) /\ Closed.batch \in Seq(Ids)
    BY <1>1, <1>2 DEF Closed, Response
  <2>2. /\ sse' = [sse EXCEPT ![s] = Closed]
        /\ UNCHANGED <<sequence, log, first, writer, received>>
        /\ wire' \in {wire, [wire EXCEPT ![s] = <<>>]}
        /\ drops' \in {drops, drops + 1}
    BY <1>9 DEF End, Drop
  <2>3. wire' \in [Subscribers -> Seq(Ids)]
    <3>1. <<>> \in Seq(Ids)
      BY <1>2
    <3> QED
      BY <1>1, <2>2, <3>1
  <2>4. drops' \in Nat
    BY <1>1, <2>2
  <2> HIDE DEF Closed
  <2> QED
    BY <1>1, <2>1, <2>2, <2>3, <2>4, ResponseTypes
<1> QED
  BY <1>3, <1>5, <1>6, <1>7, <1>8, <1>9 DEF Stream

LEMMA NextTypes == TypeOK /\ [Next]_vars => TypeOK'
<1> SUFFICES ASSUME TypeOK, [Next]_vars PROVE TypeOK'
  OBVIOUS
<1>1. CASE UNCHANGED vars
  BY <1>1 DEF vars, TypeOK, Ids
<1> QED
  BY <1>1, AppendTypes, StreamTypes DEF Next

\* Types; every id a response or a client holds is of an event that was added.
THEOREM Typing == Spec => []TypeOK
  BY InitTypes, NextTypes, PTL DEF Spec

-----------------------------------------------------------------------------
(***************************************************************************)
(* NumbersFollow is inductive with what holds of a number that was taken   *)
(* and not yet added: it is nobody else's, and it is above the numbers of  *)
(* the events that were there when it was taken.                           *)
(***************************************************************************)

InLog ==
  \A i \in DOMAIN log : log[i].number <= sequence /\ log[i].floor < i

OnePerWriter ==
  \A v, w \in Writers :
    v # w /\ writer[v].number # NoNumber => writer[v].number # writer[w].number

Taken ==
  \A w \in Writers : writer[w].number # NoNumber =>
    \A i \in DOMAIN log :
      /\ log[i].number # writer[w].number
      /\ i <= writer[w].floor => log[i].number < writer[w].number

NumbersInv == TypeOK /\ InLog /\ OnePerWriter /\ Taken /\ NumbersFollow

LEMMA InitNumbers == Init => NumbersInv
<1> SUFFICES ASSUME Init PROVE NumbersInv
  OBVIOUS
<1>1. TypeOK
  BY InitTypes
<1>2. DOMAIN log = {}
  BY DEF Init
<1>3. \A w \in Writers : writer[w].number = NoNumber
  BY DEF Init
<1> QED
  BY <1>1, <1>2, <1>3 DEF NumbersInv, InLog, OnePerWriter, Taken, NumbersFollow

LEMMA NextNumbers == NumbersInv /\ [Next]_vars => NumbersInv'
<1> SUFFICES ASSUME NumbersInv, [Next]_vars PROVE NumbersInv'
  OBVIOUS
<1>1. TypeOK /\ TypeOK'
  BY NextTypes DEF NumbersInv
<1>2. /\ Len(log) \in Nat /\ DOMAIN log = 1 .. Len(log)
      /\ sequence \in Nat
      /\ \A i \in DOMAIN log : log[i].number \in Nat /\ log[i].floor \in Nat
      /\ \A v \in Writers : /\ writer[v].number \in 0 .. sequence
                            /\ writer[v].floor \in 0 .. Len(log)
      /\ writer = [v \in Writers |-> writer[v]]
  <2>1. log \in Seq(Event)
    BY <1>1 DEF TypeOK
  <2>2. Len(log) \in Nat /\ DOMAIN log = 1 .. Len(log)
    BY <2>1, LenProperties
  <2>3. \A i \in DOMAIN log : log[i] \in Event
    BY <2>1, <2>2, ElementOfSeq
  <2>4. \A i \in DOMAIN log : log[i].number \in Nat /\ log[i].floor \in Nat
    BY <2>3 DEF Event
  <2> QED
    BY <1>1, <2>2, <2>4 DEF TypeOK
<1>3. ASSUME NEW w \in Writers, TakeNumber(w) PROVE NumbersInv'
  <2>1. /\ sequence' = sequence + 1 /\ log' = log
        /\ writer'[w].number = sequence + 1 /\ writer'[w].floor = Len(log)
        /\ \A v \in Writers \ {w} : writer'[v] = writer[v]
    BY <1>2, <1>3 DEF TakeNumber, NextNumber
  <2>2. InLog'
    BY <1>2, <2>1 DEF InLog, NumbersInv
  <2>3. OnePerWriter'
    BY <1>2, <2>1 DEF OnePerWriter, NoNumber, NumbersInv
  <2>4. Taken'
    BY <1>2, <2>1 DEF Taken, InLog, NoNumber, NumbersInv
  <2>5. NumbersFollow'
    BY <2>1 DEF NumbersFollow, NumbersInv
  <2> QED
    BY <1>1, <2>2, <2>3, <2>4, <2>5 DEF NumbersInv
<1>4. ASSUME NEW w \in Writers, AddEvent(w) PROVE NumbersInv'
  <2> DEFINE new == Len(log) + 1
  <2>1. /\ Len(log') = new /\ DOMAIN log' = 1 .. new
        /\ \A i \in DOMAIN log : log'[i] = log[i]
        /\ log'[new].number = writer[w].number /\ log'[new].floor = writer[w].floor
    BY <1>1, <1>2, <1>4, LogGrows, LenProperties
  <2>2. /\ sequence' = sequence
        /\ writer[w].number # NoNumber
        /\ writer'[w].number = NoNumber
        /\ \A v \in Writers \ {w} : writer'[v] = writer[v]
    BY <1>2, <1>4 DEF AddEvent, Idle
  <2>3. \A i \in DOMAIN log' : i \in DOMAIN log \/ i = new
    BY <1>2, <2>1
  <2>4. InLog'
    BY <1>2, <2>1, <2>2, <2>3 DEF InLog, NumbersInv
  <2>5. OnePerWriter'
    BY <1>2, <2>2 DEF OnePerWriter, NumbersInv
  <2>6. Taken'
    <3> SUFFICES ASSUME NEW v \in Writers, writer'[v].number # NoNumber,
                        NEW i \in DOMAIN log'
                 PROVE  /\ log'[i].number # writer'[v].number
                        /\ i <= writer'[v].floor => log'[i].number < writer'[v].number
      BY DEF Taken
    <3>1. v # w /\ writer'[v] = writer[v]
      BY <2>2
    <3>2. CASE i \in DOMAIN log
      BY <2>1, <3>1, <3>2 DEF Taken, NumbersInv
    <3>3. CASE i = new
      BY <1>2, <2>1, <2>2, <3>1, <3>3 DEF OnePerWriter, NumbersInv
    <3> QED
      BY <2>3, <3>2, <3>3
  <2>7. NumbersFollow'
    <3> SUFFICES ASSUME NEW i \in DOMAIN log', NEW j \in DOMAIN log'
                 PROVE  /\ i # j => log'[i].number # log'[j].number
                        /\ i <= log'[j].floor => log'[i].number < log'[j].number
      BY DEF NumbersFollow
    <3>1. CASE i \in DOMAIN log /\ j \in DOMAIN log
      BY <2>1, <3>1 DEF NumbersFollow, NumbersInv
    <3>2. CASE i \in DOMAIN log /\ j = new
      BY <2>1, <2>2, <3>2 DEF Taken, NumbersInv
    <3>3. CASE i = new /\ j \in DOMAIN log
      BY <1>2, <2>1, <2>2, <3>3 DEF Taken, InLog, NumbersInv
    <3>4. CASE i = new /\ j = new
      BY <1>2, <2>1, <3>4
    <3> QED
      BY <2>3, <3>1, <3>2, <3>3, <3>4
  <2> QED
    BY <1>1, <2>4, <2>5, <2>6, <2>7 DEF NumbersInv
<1>5. ASSUME NEW w \in Writers, Abandon(w) PROVE NumbersInv'
  <2>1. /\ UNCHANGED <<sequence, log>>
        /\ writer'[w].number = NoNumber
        /\ \A v \in Writers \ {w} : writer'[v] = writer[v]
    BY <1>2, <1>5 DEF Abandon, Idle
  <2> QED
    BY <1>1, <2>1 DEF NumbersInv, InLog, OnePerWriter, Taken, NumbersFollow
<1>6. ASSUME UNCHANGED <<sequence, log, writer>> PROVE NumbersInv'
  BY <1>1, <1>6 DEF NumbersInv, InLog, OnePerWriter, Taken, NumbersFollow
<1>7. ASSUME NEW s \in Subscribers, Stream(s) \/ Drop(s) PROVE NumbersInv'
  <2>1. UNCHANGED <<sequence, log, writer>>
    BY <1>7 DEF Stream, Drop, Connect, Backlog, Read, Fetch, Serve, Receive, End
  <2> QED
    BY <2>1, <1>6
<1>8. CASE UNCHANGED vars
  BY <1>6, <1>8 DEF vars
<1> QED
  BY <1>3, <1>4, <1>5, <1>7, <1>8 DEF Next

\* Sequence numbers are unique and follow real time, although the number and the place
\* in the stream are taken with two commands and appends overlap or are abandoned.
THEOREM NumbersFollowTime == Spec => []NumbersFollow
<1>1. NumbersInv => NumbersFollow
  BY DEF NumbersInv
<1> QED
  BY InitNumbers, NextNumbers, <1>1, PTL DEF Spec

-----------------------------------------------------------------------------
(***************************************************************************)
(* The refinement.  What a client has received, what is on the wire to it  *)
(* and what its response will send next form one chain of ids in which     *)
(* every link skips only what Redis may have trimmed: events behind which  *)
(* MaxLength newer ones stand.  Such a link stays one as the log grows.    *)
(***************************************************************************)

Link(a, b, n) ==
  /\ a \in Nat /\ b \in Nat /\ n \in Nat
  /\ a < b /\ b <= n
  /\ \A missed \in a + 1 .. b - 1 : missed + MaxLength <= n

Linked(q, n) == \A i \in 1 .. Len(q) - 1 : Link(q[i], q[i + 1], n)

Chain(s) ==
  LET n == Len(log)
      r == sse[s]
      w == wire[s]
      l == LastReceived(s)
  IN /\ r.phase = "closed" => w = <<>>
     /\ r.phase # "tail" => r.batch = <<>>
     /\ r.phase # "closed" => r.cursor = IF w = <<>> THEN l ELSE w[Len(w)]
     /\ w # <<>> => Link(l, w[1], n)
     /\ Linked(w, n)
     /\ r.batch # <<>> => Link(r.cursor, r.batch[1], n)
     /\ Linked(r.batch, n)

Trimmed == first = 1 \/ first - 1 + MaxLength <= Len(log)

FeedInv == TypeOK /\ Trimmed /\ \A s \in Subscribers : Chain(s)

LEMMA LinkStays ==
  ASSUME NEW a, NEW b, NEW m, NEW n \in Nat, m <= n, Link(a, b, m)
  PROVE  Link(a, b, n)
  BY StreamAssumption DEF Link

LEMMA InitFeed == Init => FeedInv
<1> SUFFICES ASSUME Init PROVE FeedInv
  OBVIOUS
<1>1. TypeOK
  BY InitTypes
<1>2. Trimmed
  BY DEF Init, Trimmed
<1>3. ASSUME NEW s \in Subscribers PROVE Chain(s)
  <2>1. /\ sse[s].phase = "closed" /\ sse[s].batch = <<>> /\ wire[s] = <<>>
    BY <1>3 DEF Init, Closed
  <2>2. \A n : Linked(<<>>, n)
    BY EmptySeq DEF Linked
  <2> QED
    BY <2>1, <2>2 DEF Chain
<1> QED
  BY <1>1, <1>2, <1>3 DEF FeedInv

\* While nobody touches a response its chain stays, whatever is added.
LEMMA ChainStays ==
  ASSUME TypeOK, NEW s \in Subscribers, Chain(s),
         sse'[s] = sse[s], wire'[s] = wire[s], received'[s] = received[s],
         Len(log') \in Nat, Len(log) <= Len(log')
  PROVE  Chain(s)'
<1> DEFINE n == Len(log)
           m == Len(log')
<1>1. n \in Nat
  BY LenProperties DEF TypeOK
<1>2. LastReceived(s)' = LastReceived(s)
  BY DEF LastReceived
<1>3. \A a, b : Link(a, b, n) => Link(a, b, m)
  BY <1>1, LinkStays
<1>4. \A q : Linked(q, n) => Linked(q, m)
  BY <1>3 DEF Linked
<1> HIDE DEF n, m
<1>5. Len(log) = n /\ Len(log') = m
  BY DEF n, m
<1> DEFINE r == sse[s]
           w == wire[s]
           l == LastReceived(s)
<1>6. /\ r.phase = "closed" => w = <<>>
      /\ r.phase # "tail" => r.batch = <<>>
      /\ r.phase # "closed" => r.cursor = IF w = <<>> THEN l ELSE w[Len(w)]
  BY DEF Chain
<1>7. /\ w # <<>> => Link(l, w[1], m)
      /\ Linked(w, m)
  BY <1>3, <1>4, <1>5 DEF Chain
<1>8. /\ r.batch # <<>> => Link(r.cursor, r.batch[1], m)
      /\ Linked(r.batch, m)
  BY <1>3, <1>4, <1>5 DEF Chain
<1> QED
  BY <1>2, <1>5, <1>6, <1>7, <1>8 DEF Chain

LEMMA AppendFeed ==
  ASSUME FeedInv, NEW w \in Writers, TakeNumber(w) \/ AddEvent(w) \/ Abandon(w)
  PROVE  FeedInv'
<1>1. TypeOK /\ TypeOK'
  BY AppendTypes DEF FeedInv
<1>2. Len(log) \in Nat /\ Len(log') \in Nat /\ Len(log) <= Len(log')
  <2>1. Len(log) \in Nat /\ Len(log') \in Nat
    BY <1>1, LenProperties DEF TypeOK
  <2>2. CASE TakeNumber(w) \/ Abandon(w)
    BY <2>1, <2>2 DEF TakeNumber, Abandon
  <2>3. CASE AddEvent(w)
    BY <1>1, <2>1, <2>3, LogGrows
  <2> QED
    BY <2>1, <2>2, <2>3
<1>3. UNCHANGED <<sse, wire, received>>
  BY DEF TakeNumber, AddEvent, Abandon, readers
<1>4. \A s \in Subscribers : Chain(s)'
  BY <1>1, <1>2, <1>3, ChainStays DEF FeedInv
<1>5. Trimmed'
  <2>1. CASE AddEvent(w)
    <3>1. Len(log') = Len(log) + 1
      BY <1>1, <2>1, LogGrows
    <3>2. first \in Nat /\ first' \in Nat
      BY <1>1, <1>2 DEF TypeOK
    <3>3. first' = first \/ Len(log) + 1 - first' + 1 >= MaxLength
      BY <2>1 DEF AddEvent
    <3> QED
      BY <1>2, <3>1, <3>2, <3>3, StreamAssumption DEF Trimmed, FeedInv
  <2>2. CASE TakeNumber(w) \/ Abandon(w)
    BY <2>2 DEF TakeNumber, Abandon, Trimmed, FeedInv
  <2> QED
    BY <2>1, <2>2
<1> QED
  BY <1>1, <1>4, <1>5 DEF FeedInv

\* The first id after a cursor is linked to it, and what follows is consecutive.
LEMMA AfterLinked ==
  ASSUME FeedInv, NEW id \in 0 .. Len(log)
  PROVE  /\ After(id) # <<>> => Link(id, After(id)[1], Len(log))
         /\ Linked(After(id), Len(log))
<1> DEFINE from == IF id < first THEN first ELSE id + 1
           n == Len(log)
           q == After(id)
<1>1. n \in Nat /\ first \in 1 .. n + 1 /\ TypeOK
  BY LenProperties DEF FeedInv, TypeOK
<1>2. /\ from \in 1 .. n + 1
      /\ q \in Seq(Ids)
      /\ Len(q) = n + 1 - from
      /\ \A i \in 1 .. Len(q) : q[i] = from + i - 1
  BY <1>1, AfterType, Zenon
<1>3. ASSUME NEW missed \in id + 1 .. from - 1 PROVE missed + MaxLength <= n
  BY <1>1, <1>3, StreamAssumption DEF FeedInv, Trimmed
<1>4. id < from
  BY <1>1
<1> HIDE DEF from, q
<1>5. ASSUME q # <<>> PROVE Link(id, q[1], n)
  <2>1. Len(q) # 0
    BY <1>2, <1>5, EmptySeq
  <2>2. q[1] = from /\ from <= n
    BY <1>1, <1>2, <2>1
  <2> QED
    BY <1>1, <1>2, <1>3, <1>4, <2>2 DEF Link
<1>6. Linked(q, n)
  <2> SUFFICES ASSUME NEW i \in 1 .. Len(q) - 1 PROVE Link(q[i], q[i + 1], n)
    BY DEF Linked
  <2>1. q[i] = from + i - 1 /\ q[i + 1] = from + i /\ from + i <= n
    BY <1>1, <1>2
  <2> QED
    BY <1>1, <1>2, <2>1 DEF Link
<1> QED
  BY <1>5, <1>6 DEF q

\* A step of one response leaves the others' chains alone.
LEMMA OneChain ==
  ASSUME FeedInv, NEW s \in Subscribers, Stream(s) \/ Drop(s), Chain(s)'
  PROVE  FeedInv'
<1>1. TypeOK /\ TypeOK'
  BY StreamTypes DEF FeedInv
<1>2. UNCHANGED <<log, first>>
  BY DEF Stream, Drop, Connect, Backlog, Read, Fetch, Serve, Receive, End
<1>3. ASSUME NEW t \in Subscribers, t # s
      PROVE  sse'[t] = sse[t] /\ wire'[t] = wire[t] /\ received'[t] = received[t]
  BY <1>1, <1>3
  DEF Stream, Drop, Connect, Backlog, Read, Fetch, Serve, Receive, End, TypeOK
<1>4. Len(log') \in Nat /\ Len(log) <= Len(log')
  BY <1>1, <1>2, LenProperties DEF TypeOK
<1>5. \A t \in Subscribers : Chain(t)'
  BY <1>1, <1>3, <1>4, ChainStays DEF FeedInv
<1> QED
  BY <1>1, <1>2, <1>5 DEF FeedInv, Trimmed

LEMMA StreamFeed ==
  ASSUME FeedInv, NEW s \in Subscribers, Stream(s) \/ Drop(s)
  PROVE  FeedInv'
<1> DEFINE n == Len(log)
           r == sse[s]
           w == wire[s]
           l == LastReceived(s)
<1> SUFFICES Chain(s)'
  BY OneChain
<1>1. /\ n \in Nat /\ TypeOK /\ TypeOK' /\ Chain(s)
      /\ r \in Response /\ r.cursor \in 0 .. n /\ r.batch \in Seq(Ids)
      /\ w \in Seq(Ids) /\ Len(w) \in Nat
      /\ received[s] \in Seq(Ids) /\ Len(received[s]) \in Nat
  BY StreamTypes, LenProperties DEF FeedInv, TypeOK
<1>2. /\ sse = [t \in Subscribers |-> sse[t]]
      /\ wire = [t \in Subscribers |-> wire[t]]
      /\ received = [t \in Subscribers |-> received[t]]
  BY <1>1 DEF TypeOK
<1>3. Len(<<>>) = 0 /\ \A k : Linked(<<>>, k)
  BY EmptySeq DEF Linked
<1>4. CASE Connect(s)
  <2>1. /\ w = <<>> /\ wire'[s] = <<>> /\ log' = log
        /\ sse'[s] = [phase |-> "open", cursor |-> l, batch |-> <<>>]
        /\ LastReceived(s)' = l
    BY <1>2, <1>4 DEF Connect, LastReceived
  <2> QED
    BY <1>3, <2>1 DEF Chain
<1>5. ASSUME NEW b, Fetch(s, b), r.phase # "closed",
             b # <<>> => Link(r.cursor, b[1], n), Linked(b, n)
      PROVE  Chain(s)'
  <2>1. /\ wire' = wire /\ log' = log /\ LastReceived(s)' = l
        /\ sse'[s] = [phase |-> "tail", cursor |-> r.cursor, batch |-> b]
    BY <1>2, <1>5 DEF Fetch, LastReceived
  <2> QED
    BY <1>1, <1>5, <2>1 DEF Chain
<1>6. CASE Backlog(s)
  BY <1>1, <1>5, <1>6, AfterLinked DEF Backlog
<1>7. CASE Read(s)
  <2> DEFINE new == After(r.cursor)
             k == IF Len(new) < BatchSize THEN Len(new) ELSE BatchSize
             b == SubSeq(new, 1, k)
  <2>1. new # <<>> /\ r.phase = "tail" /\ Fetch(s, b)
    BY <1>7 DEF Read
  <2>2. new \in Seq(Ids) /\ Len(new) \in Nat \ {0}
    BY <1>1, <2>1, AfterType, EmptySeq
  <2>3. Link(r.cursor, new[1], n) /\ Linked(new, n)
    BY <1>1, <2>1, AfterLinked
  <2>4. k \in 1 .. Len(new)
    BY <2>2, StreamAssumption
  <2> HIDE DEF new, k
  <2>5. Len(b) = k /\ \A i \in 1 .. k : b[i] = new[i]
    <3>1. \A i \in 1 .. k : new[i] \in Ids
      BY <2>2, <2>4, ElementOfSeq
    <3> QED
      BY <2>4, <3>1, SubSeqProperties
  <2> HIDE DEF b
  <2>6. Link(r.cursor, b[1], n)
    BY <2>3, <2>4, <2>5
  <2>7. Linked(b, n)
    BY <2>2, <2>3, <2>4, <2>5 DEF Linked
  <2> QED
    BY <1>5, <2>1, <2>6, <2>7
<1>8. CASE Serve(s)
  <2> DEFINE b == r.batch
             id == Head(b)
  <2>1. b # <<>> /\ r.phase = "tail"
    BY <1>1, <1>8 DEF Serve, Chain
  <2>2. /\ id = b[1] /\ id \in Ids /\ Tail(b) \in Seq(Ids)
        /\ Len(Tail(b)) = Len(b) - 1 /\ Len(b) \in Nat \ {0}
        /\ \A i \in 1 .. Len(Tail(b)) : Tail(b)[i] = b[i + 1]
    BY <1>1, <2>1, HeadTailProperties, EmptySeq
  <2>3. /\ Link(r.cursor, id, n) /\ Linked(b, n)
        /\ r.cursor = IF w = <<>> THEN l ELSE w[Len(w)]
    BY <1>1, <2>1, <2>2 DEF Chain
  <2>4. /\ log' = log /\ LastReceived(s)' = l
        /\ wire'[s] = Append(w, id)
        /\ sse'[s].cursor = id
        /\ sse'[s].phase \in {"tail", "ended"}
        /\ sse'[s].batch \in {<<>>, Tail(b)}
        /\ sse'[s].phase = "ended" => sse'[s].batch = <<>>
    BY <1>2, <1>8 DEF Serve, LastReceived
  <2> DEFINE x == Append(w, id)
  <2>5. /\ x # <<>> /\ Len(x) = Len(w) + 1
        /\ \A i \in 1 .. Len(w) : x[i] = w[i]
        /\ x[Len(w) + 1] = id
    <3>1. w \in Seq(Ids) /\ id \in Ids
      BY <1>1, <2>2
    <3> HIDE DEF w, id
    <3> QED
      BY <3>1, AppendProperties
  <2> HIDE DEF x, id, b
  <2>6. w # <<>> => Len(w) \in Nat \ {0}
    <3>1. Len(w) = 0 => w = <<>>
      BY <1>1, EmptySeq
    <3> QED
      BY <1>1, <3>1
  <2>7. Link(l, x[1], n)
    <3>1. CASE w = <<>>
      BY <1>3, <2>3, <2>5, <3>1
    <3>2. CASE w # <<>>
      BY <1>1, <2>5, <2>6, <3>2 DEF Chain
    <3> QED
      BY <3>1, <3>2
  <2>8. Linked(x, n)
    <3> SUFFICES ASSUME NEW i \in 1 .. Len(x) - 1 PROVE Link(x[i], x[i + 1], n)
      BY DEF Linked
    <3>1. CASE i < Len(w)
      <4>1. i \in 1 .. Len(w) - 1 /\ x[i] = w[i] /\ x[i + 1] = w[i + 1]
        BY <1>1, <2>5, <3>1
      <4> QED
        BY <1>1, <4>1 DEF Chain, Linked
    <3>2. CASE i = Len(w)
      <4>1. w # <<>> /\ x[i] = w[Len(w)] /\ x[i + 1] = id
        BY <1>3, <2>5, <3>2
      <4> QED
        BY <2>3, <4>1
    <3> QED
      BY <1>1, <2>5, <3>1, <3>2
  <2>9. Tail(b) # <<>> => Link(id, Tail(b)[1], n)
    <3> SUFFICES ASSUME Tail(b) # <<>> PROVE Link(id, Tail(b)[1], n)
      OBVIOUS
    <3>1. Len(Tail(b)) \in Nat \ {0}
      BY <2>2, EmptySeq
    <3>2. 1 \in 1 .. Len(b) - 1 /\ Tail(b)[1] = b[2]
      BY <2>2, <3>1
    <3> QED
      BY <2>2, <2>3, <3>2 DEF Linked
  <2>10. Linked(Tail(b), n)
    <3> SUFFICES ASSUME NEW i \in 1 .. Len(Tail(b)) - 1
                 PROVE  Link(Tail(b)[i], Tail(b)[i + 1], n)
      BY DEF Linked
    <3>1. i + 1 \in 1 .. Len(b) - 1 /\ Tail(b)[i] = b[i + 1] /\ Tail(b)[i + 1] = b[i + 1 + 1]
      BY <2>2
    <3> QED
      BY <2>3, <3>1 DEF Linked
  <2>11. wire'[s] = x /\ x[Len(x)] = id
    BY <1>1, <2>4, <2>5 DEF x
  <2> QED
    BY <1>3, <2>4, <2>5, <2>7, <2>8, <2>9, <2>10, <2>11 DEF Chain
<1>9. CASE Receive(s)
  <2>1. w # <<>> /\ r.phase # "closed"
    BY <1>1, <1>9 DEF Receive, Chain
  <2>2. /\ Head(w) = w[1] /\ w[1] \in Ids /\ Tail(w) \in Seq(Ids)
        /\ Len(Tail(w)) = Len(w) - 1 /\ Len(w) \in Nat \ {0}
        /\ \A i \in 1 .. Len(Tail(w)) : Tail(w)[i] = w[i + 1]
    BY <1>1, <2>1, HeadTailProperties, EmptySeq
  <2>3. /\ log' = log /\ sse' = sse /\ wire'[s] = Tail(w)
        /\ received'[s] = Append(received[s], w[1])
    BY <1>2, <1>9, <2>2 DEF Receive
  <2>4. LastReceived(s)' = w[1]
    BY <1>1, <2>2, <2>3, AppendProperties DEF LastReceived
  <2>5. Linked(w, n) /\ r.cursor = w[Len(w)]
    BY <1>1, <2>1 DEF Chain
  <2>6. Linked(Tail(w), n)
    <3> SUFFICES ASSUME NEW i \in 1 .. Len(Tail(w)) - 1
                 PROVE  Link(Tail(w)[i], Tail(w)[i + 1], n)
      BY DEF Linked
    <3>1. i + 1 \in 1 .. Len(w) - 1 /\ Tail(w)[i] = w[i + 1] /\ Tail(w)[i + 1] = w[i + 1 + 1]
      BY <2>2
    <3> QED
      BY <2>5, <3>1 DEF Linked
  <2>7. CASE Tail(w) = <<>>
    <3>1. Len(w) = 1
      <4>1. Len(Tail(w)) = 0
        BY <1>3, <2>7, Zenon
      <4> QED
        BY <2>2, <4>1
    <3> QED
      BY <1>1, <2>1, <2>3, <2>4, <2>5, <2>6, <2>7, <3>1 DEF Chain
  <2>8. CASE Tail(w) # <<>>
    <3>1. Len(Tail(w)) \in Nat \ {0}
      BY <2>2, <2>8, EmptySeq
    <3>2. Tail(w)[1] = w[2] /\ Tail(w)[Len(Tail(w))] = w[Len(w)] /\ 1 \in 1 .. Len(w) - 1
      <4> DEFINE k == Len(Tail(w))
      <4>0. k = Len(w) - 1 /\ k \in Nat \ {0}
        BY <2>2, <3>1, Zenon
      <4>1. k = Len(w) - 1 /\ 1 \in 1 .. k /\ k \in 1 .. k
        <5>1. \A j \in Nat \ {0} : 1 \in 1 .. j /\ j \in 1 .. j
          OBVIOUS
        <5> QED
          BY <4>0, <5>1, Zenon
      <4>2. Tail(w)[1] = w[1 + 1] /\ Tail(w)[k] = w[k + 1]
        BY <2>2, <4>1, Zenon
      <4>3. 1 + 1 = 2 /\ k + 1 = Len(w)
        BY <2>2, <4>0
      <4> QED
        BY <4>1, <4>2, <4>3
    <3>3. Link(w[1], w[2], n)
      BY <2>5, <3>2 DEF Linked
    <3> QED
      BY <1>1, <2>1, <2>3, <2>4, <2>5, <2>6, <2>8, <3>2, <3>3 DEF Chain
  <2> QED
    BY <2>7, <2>8
<1>10. CASE End(s) \/ Drop(s)
  <2>1. /\ sse'[s] = Closed /\ wire'[s] = <<>> /\ log' = log
    BY <1>1, <1>2, <1>10 DEF End, Drop
  <2> QED
    BY <1>3, <2>1 DEF Chain, Closed
<1> QED
  BY <1>4, <1>6, <1>7, <1>8, <1>9, <1>10 DEF Stream

LEMMA NextFeed == FeedInv /\ [Next]_vars => FeedInv'
<1> SUFFICES ASSUME FeedInv, [Next]_vars PROVE FeedInv'
  OBVIOUS
<1>1. CASE UNCHANGED vars
  <2>1. TypeOK /\ TypeOK' /\ Len(log') \in Nat /\ Len(log) = Len(log')
    BY <1>1, NextTypes, LenProperties DEF FeedInv, TypeOK, vars
  <2>2. \A s \in Subscribers : Chain(s)'
    BY <1>1, <2>1, ChainStays DEF FeedInv, vars
  <2> QED
    BY <1>1, <2>1, <2>2 DEF FeedInv, Trimmed, vars
<1> QED
  BY <1>1, AppendFeed, StreamFeed DEF Next

\* What a client receives is the next of the chain.
LEMMA ReceivesNext ==
  ASSUME FeedInv, NEW s \in Subscribers, Receive(s)
  PROVE  Feed!Receive(s)
<1> DEFINE e == Head(wire[s])
<1>1. /\ wire[s] \in Seq(Ids) /\ wire[s] # <<>> /\ Chain(s)
      /\ received' = [received EXCEPT ![s] = Append(@, e)] /\ log' = log
  BY DEF Receive, FeedInv, TypeOK
<1>2. e = wire[s][1]
  BY <1>1, HeadTailProperties
<1>3. Link(LastReceived(s), e, Len(log))
  BY <1>1, <1>2 DEF Chain
<1>4. Feed!Last(s) = LastReceived(s)
  BY DEF Feed!Last, LastReceived
<1> HIDE DEF e
<1>5. e \in LastReceived(s) + 1 .. Len(log)
  BY <1>3 DEF Link
<1>6. \A missed \in LastReceived(s) + 1 .. e - 1 : missed + MaxLength <= Len(log)
  BY <1>3 DEF Link
<1> QED
  BY <1>1, <1>4, <1>5, <1>6 DEF Feed!Receive

LEMMA FeedStep == FeedInv /\ [Next]_vars => [Feed!Next]_Feed!vars
<1> SUFFICES ASSUME FeedInv, [Next]_vars PROVE [Feed!Next]_Feed!vars
  OBVIOUS
<1>1. ASSUME NEW w \in Writers, AddEvent(w) PROVE Feed!Next
  <2>1. Len(log') = Len(log) + 1 /\ received' = received
    BY <1>1, LogGrows DEF FeedInv, AddEvent, readers
  <2> QED
    BY <2>1 DEF Feed!Next, Feed!Add
<1>2. ASSUME NEW s \in Subscribers, Receive(s) PROVE Feed!Next
  BY <1>2, ReceivesNext DEF Feed!Next
<1>3. ASSUME UNCHANGED <<log, received>> PROVE UNCHANGED Feed!vars
  BY <1>3 DEF Feed!vars
<1>4. ASSUME NEW w \in Writers, TakeNumber(w) \/ Abandon(w) PROVE UNCHANGED Feed!vars
  BY <1>3, <1>4 DEF TakeNumber, Abandon, readers
<1>5. ASSUME NEW s \in Subscribers,
             Connect(s) \/ Backlog(s) \/ Read(s) \/ Serve(s) \/ End(s) \/ Drop(s)
      PROVE  UNCHANGED Feed!vars
  BY <1>3, <1>5 DEF Connect, Backlog, Read, Fetch, Serve, End, Drop
<1>6. CASE UNCHANGED vars
  BY <1>3, <1>6 DEF vars
<1> QED
  BY <1>1, <1>2, <1>4, <1>5, <1>6 DEF Next, Stream

LEMMA FeedInit == Init => Feed!Init
<1> SUFFICES ASSUME Init PROVE Feed!Init
  OBVIOUS
<1>1. Len(log) = 0
  BY EmptySeq DEF Init
<1> QED
  BY <1>1 DEF Init, Feed!Init

\* The stream implements OrderedFeed: whatever connections break and whenever a client
\* comes back with the id it received last, it gets every event once, in order, and
\* misses none but those behind which the stream held MaxLength newer ones.
THEOREM ImplementsOrderedFeed == Spec => FeedKept
<1>1. Init => FeedInv
  BY InitFeed
<1> QED
  BY <1>1, NextFeed, FeedStep, FeedInit, PTL DEF Spec, FeedKept, Feed!Spec
=============================================================================
