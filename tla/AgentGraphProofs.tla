-------------------------- MODULE AgentGraphProofs --------------------------
(***************************************************************************)
(* AgentGraph's types and its safety properties for any tools, diagnoses,  *)
(* limits, numbers of runs and of crashes.                                 *)
(***************************************************************************)
EXTENDS AgentGraph, FunnelProofs, SequenceTheorems, FiniteSetTheorems, TLAPS

\* Whatever funnel the metrics node meets, its comparison explains it.
THEOREM FunnelAlwaysExplained == Spec => []FunnelExplained
<1>1. ASSUME NEW before \in Window, NEW after \in Window PROVE Explained(before, after)
  BY ContributionsExplain, Zenon DEF Explained
<1>2. \A w \in Weeks : w[1] \in Window /\ w[2] \in Window
  BY GraphAssumption
<1>3. FunnelExplained
  BY <1>1, <1>2 DEF FunnelExplained
<1>4. FunnelExplained'
  BY <1>1, <1>2 DEF FunnelExplained, At
<1> QED
  BY <1>3, <1>4, PTL

-----------------------------------------------------------------------------
(***************************************************************************)
(* The steps by what they do to the channels of the graph: a node that     *)
(* ends moves them, a crash takes them back, all others leave them alone.  *)
(***************************************************************************)

Move ==
  \/ Scope \/ Metrics \/ ToolsDone \/ Reflect \/ Validated \/ Plan
  \/ \E turn \in Turns : AcceptTurn(turn)

\* Steps within a node, and those of calls and threads nobody awaits any more.
Work ==
  \/ AskAgain \/ StrayStarts \/ StrayEnds \/ LateCommit
  \/ \E i \in DOMAIN tools : ToolStarts(i) \/ ToolReturns(i)

\* The run ends.
Over ==
  \/ NodeFails \/ Cancelled \/ OutOfIterations \/ ModelFails \/ GiveUp \/ Return
  \/ \E turn \in Turns : RejectTurn(turn)
  \/ \E i \in DOMAIN tools : ToolRefused(i) \/ ToolFails(i)

LEMMA Steps ==
  ASSUME [Next]_vars
  PROVE  Start \/ Move \/ Work \/ Over \/ Persist \/ Crash \/ UNCHANGED vars
  BY DEF Next, Step, Leftover, Move, Work, Over

LEMMA MoveEffect ==
  ASSUME Move
  PROVE  /\ running /\ steps' = steps + 1 /\ tries' = 0 /\ tools' = Gather(state')
         /\ UNCHANGED <<saved, running, outcome, late, used, stray>>
<1>1. CASE \E turn \in Turns : AcceptTurn(turn)
  BY <1>1 DEF AcceptTurn, MayAsk, At
<1>2. CASE Scope \/ Metrics \/ ToolsDone \/ Reflect \/ Validated
  BY <1>2 DEF Scope, Metrics, ToolsDone, Reflect, Validated, Proceed, At
<1>3. CASE Plan
  BY <1>3 DEF Plan, Proceed, At
<1> QED
  BY <1>1, <1>2, <1>3 DEF Move

LEMMA WorkEffect ==
  ASSUME Work
  PROVE  UNCHANGED <<state, saved, running, outcome, steps, used>>
<1>1. CASE AskAgain \/ LateCommit
  BY <1>1 DEF AskAgain, LateCommit
<1>2. CASE StrayStarts \/ StrayEnds
  BY <1>2 DEF StrayStarts, StrayEnds
<1>3. CASE \E i \in DOMAIN tools : ToolStarts(i) \/ ToolReturns(i)
  BY <1>3 DEF ToolStarts, ToolReturns
<1> QED
  BY <1>1, <1>2, <1>3 DEF Work

LEMMA OverEffect ==
  ASSUME Over
  PROVE  /\ ~ running' /\ saved' = state /\ outcome' \in Outcome /\ steps' = 0
         /\ tries' = 0 /\ tools' = <<>>
         /\ UNCHANGED <<state, known, plan, used>>
<1>1. CASE NodeFails \/ Cancelled \/ OutOfIterations \/ ModelFails \/ GiveUp
  BY <1>1, Zenon
  DEF NodeFails, Cancelled, OutOfIterations, ModelFails, GiveUp, Finish, Outcome
<1>2. CASE Return
  BY <1>2, Zenon DEF Return, Finish, Outcome
<1>3. CASE \E turn \in Turns : RejectTurn(turn)
  BY <1>3, Zenon DEF RejectTurn, Finish, Outcome
<1>4. CASE \E i \in DOMAIN tools : ToolRefused(i) \/ ToolFails(i)
  BY <1>4, Zenon DEF ToolRefused, ToolFails, Finish, Outcome
<1> QED
  BY <1>1, <1>2, <1>3, <1>4 DEF Over

\* The last checkpoint is the old one or one of the channels as they are.
LEMMA SavedEffect ==
  ASSUME [Next]_vars
  PROVE  /\ saved' \in {saved, state}
         /\ state' = state \/ Move \/ (Crash /\ state' = saved)
<1>1. CASE Start
  BY <1>1 DEF Start
<1>2. CASE Persist
  BY <1>2 DEF Persist
<1>3. CASE Crash
  BY <1>3 DEF Crash
<1>4. CASE UNCHANGED vars
  BY <1>4 DEF vars
<1> QED
  BY <1>1, <1>2, <1>3, <1>4, Steps, MoveEffect, WorkEffect, OverEffect

-----------------------------------------------------------------------------
\* Types.

ToolCall == [phase : {"waiting", "running", "done"}, evidence : SUBSET Evidence]

Turn == [calls : Seq(Calls), submits : Seq(Diagnoses \cup {Unparsable})]

LEMMA FunctionIsSeq ==
  ASSUME NEW S, NEW n \in Nat, NEW f \in [1 .. n -> S]
  PROVE  f \in Seq(S) /\ Len(f) = n
  BY SeqDef

LEMMA ShortSeqs ==
  ASSUME NEW S
  PROVE  /\ <<>> \in Seq(S)
         /\ \A x \in S : <<x>> \in Seq(S) /\ Len(<<x>>) = 1 /\ <<x>>[1] = x
         /\ \A x \in S : <<x, x>> \in Seq(S)
  OBVIOUS

LEMMA TurnTypes == \A turn \in Turns : turn \in Turn
<1>1. \A n \in 0 .. MaxToolCallsPerTurn + 1 : [1 .. n -> Calls] \subseteq Seq(Calls)
  <2>1. 0 .. MaxToolCallsPerTurn + 1 \subseteq Nat
    BY LimitsAssumption
  <2> QED
    BY <2>1, FunctionIsSeq
<1>2. <<>> \in Seq(Calls) /\ \A c \in Calls : <<c>> \in Seq(Calls)
  BY ShortSeqs
<1>3. /\ <<>> \in Seq(Diagnoses \cup {Unparsable})
      /\ <<Unparsable, Unparsable>> \in Seq(Diagnoses \cup {Unparsable})
      /\ \A d \in Diagnoses \cup {Unparsable} : <<d>> \in Seq(Diagnoses \cup {Unparsable})
  BY ShortSeqs
<1>4. UNION {[1 .. n -> Calls] : n \in 0 .. MaxToolCallsPerTurn + 1} \subseteq Seq(Calls)
  BY <1>1
<1> HIDE DEF Turn
<1>5. [calls : UNION {[1 .. n -> Calls] : n \in 0 .. MaxToolCallsPerTurn + 1},
       submits : {<<>>}] \subseteq Turn
  BY <1>3, <1>4 DEF Turn
<1>6. [calls : {<<>>}, submits : {<<d>> : d \in Diagnoses \cup {Unparsable}}] \subseteq Turn
  BY <1>2, <1>3 DEF Turn
<1>7. [calls : {<<>>} \cup {<<c>> : c \in Calls}, submits : {<<Unparsable, Unparsable>>}]
        \subseteq Turn
  BY <1>2, <1>3 DEF Turn
<1>8. [calls : {<<c>> : c \in Calls}, submits : {<<Unparsable>>}] \subseteq Turn
  BY <1>2, <1>3 DEF Turn
<1> QED
  BY <1>5, <1>6, <1>7, <1>8 DEF Turns

LEMMA MessageTypes ==
  /\ UserMessage \in Message
  /\ \A e \in SUBSET Evidence : ToolMessage(e) \in Message
  /\ \A c \in Seq(Calls) : AssistantMessage(c) \in Message
  /\ AssistantMessage(<<Submit>>) \in Message
<1>1. /\ <<>> \in Seq(Calls \cup {Submit}) /\ <<Submit>> \in Seq(Calls \cup {Submit})
      /\ Seq(Calls) \subseteq Seq(Calls \cup {Submit})
  BY ShortSeqs, SeqMonotonic
<1> QED
  BY <1>1 DEF Message, UserMessage, ToolMessage, AssistantMessage

\* The channels: the conversation has begun.
Typed(s) == s \in AgentState /\ s.messages # <<>>

\* A state's fields, one by one.
LEMMA Fields ==
  ASSUME NEW s \in AgentState
  PROVE  /\ s.next \in Node /\ s.messages \in Seq(Message) /\ s.metrics \in BOOLEAN
         /\ s.diagnosis \in Diagnoses \cup {NoDiagnosis, Unparsable}
         /\ s.iteration \in Nat /\ s.repeated \in Nat /\ s.signature \in Seq(Calls)
         /\ s.reflections \in Nat
         /\ Len(s.messages) \in Nat /\ DOMAIN s.messages = 1 .. Len(s.messages)
         /\ s.messages = <<>> <=> Len(s.messages) = 0
<1>1. /\ s.next \in Node /\ s.messages \in Seq(Message) /\ s.metrics \in BOOLEAN
      /\ s.diagnosis \in Diagnoses \cup {NoDiagnosis, Unparsable}
      /\ s.iteration \in Nat /\ s.repeated \in Nat /\ s.signature \in Seq(Calls)
      /\ s.reflections \in Nat
  BY DEF AgentState
<1>2. s.messages = <<>> <=> Len(s.messages) = 0
  BY <1>1, EmptySeq
<1> QED
  BY <1>1, <1>2, LenProperties

\* The results of a tools node.
Results == [i \in DOMAIN tools |-> ToolMessage(tools[i].evidence)]

LEMMA ResultsType ==
  ASSUME tools \in Seq(ToolCall)
  PROVE  /\ Results \in Seq(Message) /\ Len(Results) = Len(tools)
         /\ DOMAIN Results = DOMAIN tools
         /\ \A i \in DOMAIN tools : Results[i] = ToolMessage(tools[i].evidence)
<1>1. DOMAIN tools = 1 .. Len(tools) /\ Len(tools) \in Nat
  BY LenProperties
<1>2. \A i \in DOMAIN tools : ToolMessage(tools[i].evidence) \in Message
  <2>1. \A i \in DOMAIN tools : tools[i] \in ToolCall
    BY <1>1, ElementOfSeq
  <2>2. \A i \in DOMAIN tools : tools[i].evidence \in SUBSET Evidence
    BY <2>1 DEF ToolCall
  <2> QED
    BY <2>2, MessageTypes, Zenon
<1>3. Results \in [1 .. Len(tools) -> Message]
  BY <1>1, <1>2 DEF Results
<1> QED
  BY <1>1, <1>3, FunctionIsSeq DEF Results


LEMMA Appending ==
  ASSUME Typed(state), NEW m \in Message
  PROVE  /\ Append(state.messages, m) \in Seq(Message)
         /\ Append(state.messages, m) # <<>>
  BY Fields, AppendProperties DEF Typed

\* A correction: the answer to a submit_diagnosis, if there was one, and what to mend.
Answer(s) == IF Submit \in Range(Last(s.messages).calls) THEN <<ToolMessage({})>> ELSE <<>>

LEMMA CorrectionType ==
  ASSUME Typed(state)
  PROVE  /\ Answer(state) \in Seq(Message)
         /\ (state.messages \o Answer(state)) \in Seq(Message)
         /\ Corrected.messages = Append(state.messages \o Answer(state), UserMessage)
         /\ Corrected.messages \in Seq(Message) /\ Corrected.messages # <<>>
         /\ Corrected = [state EXCEPT !.next = "model", !.diagnosis = NoDiagnosis,
                                      !.reflections = @ + 1,
                                      !.messages = Corrected.messages]
<1>1. state.messages \in Seq(Message)
  BY Fields DEF Typed
<1>2. Answer(state) \in Seq(Message)
  <2>1. ToolMessage({}) \in Message
    BY MessageTypes
  <2>2. <<ToolMessage({})>> \in Seq(Message) /\ <<>> \in Seq(Message)
    BY <2>1, ShortSeqs
  <2> QED
    BY <2>2 DEF Answer
<1>3. (state.messages \o Answer(state)) \in Seq(Message)
  BY <1>1, <1>2, ConcatProperties
<1>4. Corrected.messages = (state.messages \o Answer(state)) \o <<UserMessage>>
  BY DEF Corrected, Answer, Typed, AgentState
<1>5. Corrected.messages = Append(state.messages \o Answer(state), UserMessage)
  BY <1>3, <1>4, MessageTypes, AppendIsConcat
<1>6. Corrected.messages \in Seq(Message) /\ Corrected.messages # <<>>
  <2>1. \A q \in Seq(Message) : /\ Append(q, UserMessage) \in Seq(Message)
                                /\ Append(q, UserMessage) # <<>>
    BY MessageTypes, AppendProperties
  <2> QED
    BY <1>3, <1>5, <2>1, Zenon
<1>7. Corrected = [state EXCEPT !.next = "model", !.diagnosis = NoDiagnosis,
                                !.reflections = @ + 1,
                                !.messages = Corrected.messages]
  BY DEF Corrected, Typed, AgentState
<1> QED
  BY <1>2, <1>3, <1>5, <1>6, <1>7

\* A state put together from its fields.
LEMMA FromFields ==
  ASSUME NEW n \in Node, NEW q \in Seq(Message), q # <<>>, NEW b \in BOOLEAN,
         NEW d \in Diagnoses \cup {NoDiagnosis, Unparsable}, NEW i \in Nat, NEW r \in Nat,
         NEW g \in Seq(Calls), NEW f \in Nat
  PROVE  Typed([next |-> n, messages |-> q, metrics |-> b, diagnosis |-> d, iteration |-> i,
                repeated |-> r, signature |-> g, reflections |-> f])
  BY DEF Typed, AgentState

LEMMA MoveTypes ==
  ASSUME TypeOK, Typed(state), Move
  PROVE  Typed(state')
<1>1. CASE Scope
  BY <1>1 DEF Scope, Proceed, Typed, AgentState, Node
<1>2. CASE Metrics
  <2> DEFINE q == Append(state.messages, UserMessage)
  <2>1. q \in Seq(Message) /\ q # <<>>
    BY MessageTypes, Appending
  <2> HIDE DEF q
  <2>2. state' = [state EXCEPT !.next = "model", !.metrics = TRUE, !.messages = q]
    BY <1>2 DEF Metrics, Proceed, q, Typed, AgentState
  <2> QED
    BY <2>1, <2>2 DEF Typed, AgentState, Node
<1>3. CASE ToolsDone
  <2> DEFINE q == state.messages \o Results
  <2>1. q \in Seq(Message) /\ q # <<>>
    BY Fields, ResultsType, ConcatProperties, ConcatEqualIffEmpty DEF Typed, TypeOK, ToolCall
  <2> HIDE DEF q
  <2>2. state' = [state EXCEPT !.next = "model", !.messages = q]
    BY <1>3 DEF ToolsDone, Proceed, q, Typed, AgentState, Results
  <2> QED
    BY <2>1, <2>2 DEF Typed, AgentState, Node
<1>4. CASE Reflect
  <2> DEFINE q == Corrected.messages
  <2>1. q \in Seq(Message) /\ q # <<>>
    BY CorrectionType
  <2>2. state' = [state EXCEPT !.next = "model", !.diagnosis = NoDiagnosis,
                               !.reflections = @ + 1, !.messages = q]
    BY <1>4, CorrectionType DEF Reflect, Proceed
  <2> HIDE DEF q
  <2>3. state' = [next |-> "model", messages |-> q, metrics |-> state.metrics,
                  diagnosis |-> NoDiagnosis, iteration |-> state.iteration,
                  repeated |-> state.repeated, signature |-> state.signature,
                  reflections |-> state.reflections + 1]
    BY <2>2 DEF Typed, AgentState
  <2>4. state.reflections + 1 \in Nat /\ "model" \in Node
    BY Fields DEF Typed, Node
  <2> QED
    BY <2>1, <2>3, <2>4, Fields, FromFields DEF Typed
<1>5. CASE Validated
  BY <1>5 DEF Validated, Proceed, Typed, AgentState, Node
<1>6. CASE Plan
  BY <1>6 DEF Plan, Proceed, Typed, AgentState, Node
<1>7. ASSUME NEW turn \in Turns, AcceptTurn(turn) PROVE Typed(state')
  <2> DEFINE submitted == turn.submits # <<>>
             c == IF submitted THEN <<Submit>> ELSE turn.calls
             q == Append(state.messages, AssistantMessage(c))
             node == IF turn.calls # <<>> THEN "tools" ELSE "validate"
             d == IF turn.calls # <<>> THEN NoDiagnosis
                  ELSE IF submitted THEN turn.submits[1] ELSE Unparsable
  <2>1. turn.calls \in Seq(Calls) /\ turn.submits \in Seq(Diagnoses \cup {Unparsable})
    BY TurnTypes DEF Turn
  <2>2. q \in Seq(Message) /\ q # <<>>
    BY <2>1, MessageTypes, Appending
  <2>3. d \in Diagnoses \cup {NoDiagnosis, Unparsable}
    <3>1. submitted => Len(turn.submits) \in Nat \ {0}
      BY <2>1, EmptySeq
    <3>2. submitted => turn.submits[1] \in Diagnoses \cup {Unparsable}
      BY <2>1, <3>1, ElementOfSeq
    <3> QED
      BY <3>2
  <2>4. node \in Node
    BY DEF Node
  <2>5. Repetition(turn) \in Nat
    BY Fields DEF Repetition, Typed
  <2>6. state' = [state EXCEPT !.next = node, !.messages = q, !.diagnosis = d,
                    !.iteration = @ + 1, !.repeated = Repetition(turn),
                    !.signature = turn.calls]
    BY <1>7 DEF AcceptTurn, Typed, AgentState
  <2> HIDE DEF q, d, node
  <2>7. state' = [next |-> node, messages |-> q, metrics |-> state.metrics, diagnosis |-> d,
                  iteration |-> state.iteration + 1, repeated |-> Repetition(turn),
                  signature |-> turn.calls, reflections |-> state.reflections]
    BY <2>6 DEF Typed, AgentState
  <2>8. state.iteration + 1 \in Nat
    BY Fields DEF Typed
  <2> QED
    BY <2>1, <2>2, <2>3, <2>4, <2>5, <2>7, <2>8, Fields, FromFields DEF Typed
<1> QED
  BY <1>1, <1>2, <1>3, <1>4, <1>5, <1>6, <1>7 DEF Move

\* asyncio.gather starts with every call waiting.
LEMMA GatherType ==
  ASSUME NEW s, Typed(s)
  PROVE  /\ Gather(s) \in Seq(ToolCall)
         /\ \A i \in DOMAIN Gather(s) : Gather(s)[i].phase = "waiting"
<1>1. Waiting \in ToolCall /\ Waiting.phase = "waiting"
  BY DEF Waiting, ToolCall
<1>2. CASE s.next # "tools"
  BY <1>2, EmptySeq DEF Gather
<1>3. CASE s.next = "tools"
  <2> DEFINE c == Last(s.messages).calls
  <2>1. Last(s.messages) \in Message
    BY Fields, ElementOfSeq DEF Last, Typed
  <2>2. c \in Seq(Calls \cup {Submit})
    BY <2>1 DEF Message
  <2>3. DOMAIN c = 1 .. Len(c) /\ Len(c) \in Nat
    BY <2>2, LenProperties
  <2>4. Gather(s) = [i \in DOMAIN c |-> Waiting]
    BY <1>3 DEF Gather
  <2> HIDE DEF c
  <2>5. Gather(s) \in [1 .. Len(c) -> ToolCall]
    BY <1>1, <2>3, <2>4
  <2> QED
    BY <1>1, <2>3, <2>4, <2>5, FunctionIsSeq
<1> QED
  BY <1>2, <1>3

\* The calls in a phase are finitely many.
LEMMA PhaseFinite ==
  ASSUME NEW t \in Seq(ToolCall), NEW S \in SUBSET DOMAIN t
  PROVE  IsFiniteSet(S) /\ Cardinality(S) \in Nat
<1>1. DOMAIN t = 1 .. Len(t) /\ Len(t) \in Nat
  BY LenProperties
<1>2. IsFiniteSet(1 .. Len(t))
  BY <1>1, FS_Interval
<1> QED
  BY <1>1, <1>2, FS_Subset, FS_CardinalityType

LEMMA AbandonType ==
  ASSUME TypeOK, NEW i \in DOMAIN tools, Abandon(i)
  PROVE  stray' \in [waiting : Nat, running : Nat]
<1> DEFINE Left(phase) == Cardinality({j \in DOMAIN tools \ {i} : tools[j].phase = phase})
<1>1. tools \in Seq(ToolCall)
  BY DEF TypeOK, ToolCall
<1>2. \A p : {j \in DOMAIN tools \ {i} : tools[j].phase = p} \in SUBSET DOMAIN tools
  OBVIOUS
<1>3. \A p : Left(p) \in Nat
  BY <1>1, <1>2, PhaseFinite
<1> HIDE DEF Left
<1>4. stray' = [waiting |-> stray.waiting + Left("waiting"),
                running |-> stray.running + Left("running")]
  BY DEF Abandon, Left
<1> QED
  BY <1>3, <1>4 DEF TypeOK

\* A plan is made from a diagnosis that was validated.
Planned(s) == s.next \in {"plan", "approval"} => s.diagnosis \in Diagnoses

TypeInv == /\ TypeOK
           /\ Typed(state) /\ Typed(saved)
           /\ Planned(state) /\ Planned(saved)

\* Where a node that ends leads, and what it leaves of the diagnosis.
LEMMA MoveNext ==
  ASSUME Typed(state), Move
  PROVE  \/ state.next = "scope" /\ state'.next = "metrics"
         \/ state.next = "metrics" /\ state'.next = "model"
         \/ /\ state.next = "model" /\ state'.next \in {"tools", "validate"}
            /\ state.iteration < MaxIterations
         \/ state.next = "tools" /\ state'.next = "model"
         \/ /\ state.next = "validate" /\ state'.next = "model"
            /\ state.reflections < MaxReflections
         \/ /\ state.next = "validate" /\ state'.next = "plan"
            /\ Valid /\ state'.diagnosis = state.diagnosis
         \/ /\ state.next = "plan" /\ state'.next \in {"approval", "end"}
            /\ state'.diagnosis = state.diagnosis
<1>1. CASE Scope \/ Metrics
  BY <1>1 DEF Scope, Metrics, Proceed, At, Typed, AgentState
<1>2. CASE ToolsDone \/ Validated \/ Plan
  BY <1>2 DEF ToolsDone, Validated, Plan, Proceed, At, Typed, AgentState
<1>3. CASE Reflect
  <2>1. Corrected.next = "model"
    BY DEF Corrected, Typed, AgentState
  <2> QED
    BY <1>3, <2>1 DEF Reflect, Proceed, At
<1>4. ASSUME NEW turn \in Turns, AcceptTurn(turn)
      PROVE  /\ state.next = "model" /\ state'.next \in {"tools", "validate"}
             /\ state.iteration < MaxIterations
  BY <1>4 DEF AcceptTurn, MayAsk, At, Typed, AgentState
<1> QED
  BY <1>1, <1>2, <1>3, <1>4 DEF Move

LEMMA MovePlanned ==
  ASSUME Typed(state), Planned(state), Move
  PROVE  Planned(state')
  BY MoveNext DEF Planned, Valid

LEMMA InitTypes == Init => TypeInv
<1> SUFFICES ASSUME Init PROVE TypeInv
  OBVIOUS
<1>1. \A S : <<>> \in Seq(S)
  BY EmptySeq
<1>2. <<UserMessage>> \in Seq(Message) /\ <<UserMessage>> # <<>>
  BY MessageTypes, ShortSeqs
<1>3. Typed(InitialState)
  BY <1>1, <1>2, FromFields DEF InitialState, Node
<1> QED
  BY <1>1, <1>3 DEF Init, TypeInv, TypeOK, Typed, Outcome, Planned, InitialState

LEMMA ToolsType ==
  ASSUME TypeInv, [Next]_vars
  PROVE  tools' \in Seq(ToolCall)
<1>1. tools \in Seq(ToolCall) /\ <<>> \in Seq(ToolCall)
  BY EmptySeq DEF TypeInv, TypeOK, ToolCall
<1>2. CASE Start
  BY <1>2, GatherType DEF Start, TypeInv
<1>3. CASE Move
  BY <1>3, MoveEffect, MoveTypes, GatherType DEF TypeInv
<1>4. CASE Work
  <2>1. CASE AskAgain \/ StrayStarts \/ StrayEnds \/ LateCommit
    BY <1>1, <2>1 DEF AskAgain, StrayStarts, StrayEnds, LateCommit
  <2>2. ASSUME NEW i \in DOMAIN tools, ToolStarts(i) \/ ToolReturns(i)
        PROVE  tools' \in Seq(ToolCall)
    <3>1. i \in 1 .. Len(tools) /\ tools[i] \in ToolCall
      BY <1>1, LenProperties, ElementOfSeq
    <3>2. PICK c \in ToolCall : tools' = [tools EXCEPT ![i] = c]
      <4>1. CASE ToolStarts(i)
        <5>1. [tools[i] EXCEPT !.phase = "running"] \in ToolCall
          BY <3>1 DEF ToolCall
        <5>2. tools' = [tools EXCEPT ![i] = [tools[i] EXCEPT !.phase = "running"]]
          BY <4>1 DEF ToolStarts
        <5> QED
          BY <5>1, <5>2
      <4>2. CASE ToolReturns(i)
        <5>1. PICK e \in SUBSET ToolEvidence :
                tools' = [tools EXCEPT ![i] = [phase |-> "done", evidence |-> e]]
          BY <4>2 DEF ToolReturns
        <5>2. [phase |-> "done", evidence |-> e] \in ToolCall
          BY GraphAssumption DEF ToolCall
        <5> QED
          BY <5>1, <5>2
      <4> QED
        BY <2>2, <4>1, <4>2
    <3> QED
      BY <1>1, <3>1, <3>2, ExceptSeq
  <2> QED
    BY <1>4, <2>1, <2>2 DEF Work
<1>5. CASE Over
  BY <1>1, <1>5, OverEffect
<1>6. CASE Persist \/ Crash \/ UNCHANGED vars
  BY <1>1, <1>6 DEF Persist, Crash, vars
<1> QED
  BY <1>2, <1>3, <1>4, <1>5, <1>6, Steps

\* The history, the plan and the threads that may still store one.
LEMMA StoreTypes ==
  ASSUME TypeInv, [Next]_vars
  PROVE  /\ known' \in SUBSET Evidence
         /\ plan' \in Diagnoses \cup {NoDiagnosis}
         /\ late' \in SUBSET Diagnoses
<1>1. /\ known \in SUBSET Evidence /\ plan \in Diagnoses \cup {NoDiagnosis}
      /\ late \in SUBSET Diagnoses
  BY DEF TypeInv, TypeOK
<1>2. CASE Start \/ Persist \/ Crash \/ UNCHANGED vars
  BY <1>1, <1>2 DEF Start, Persist, Crash, vars
<1>3. CASE Move
  <2>1. late' = late
    BY <1>3, MoveEffect
  <2>2. known' \in {known, known \cup MetricEvidence}
    BY <1>3
    DEF Move, Scope, Metrics, ToolsDone, Reflect, Validated, Plan, AcceptTurn
  <2>3. plan' = plan \/ (state.next = "plan" /\ plan' = Stored(state.diagnosis))
    BY <1>3
    DEF Move, Scope, Metrics, ToolsDone, Reflect, Validated, Plan, At, AcceptTurn
  <2> QED
    BY <1>1, <2>1, <2>2, <2>3, GraphAssumption DEF TypeInv, Planned, Stored
<1>4. CASE Work
  <2>1. known' = known \/ \E e \in SUBSET ToolEvidence : known' = known \cup e
    BY <1>4
    DEF Work, AskAgain, StrayStarts, StrayEnds, LateCommit, ToolStarts, ToolReturns
  <2>2. \/ plan' = plan /\ late' = late
        \/ \E d \in late : plan' = Stored(d) /\ late' = late \ {d}
    BY <1>4
    DEF Work, AskAgain, StrayStarts, StrayEnds, LateCommit, ToolStarts, ToolReturns
  <2> QED
    BY <1>1, <2>1, <2>2, GraphAssumption DEF Stored
<1>5. CASE Over
  <2>1. known' = known /\ plan' = plan
    BY <1>5, OverEffect
  <2>2. late' = late \/ (state.next = "plan" /\ late' = late \cup {state.diagnosis})
    BY <1>5
    DEF Over, NodeFails, Cancelled, OutOfIterations, ModelFails, GiveUp, Return,
        RejectTurn, ToolRefused, ToolFails
  <2> QED
    BY <1>1, <2>1, <2>2 DEF TypeInv, Planned
<1> QED
  BY <1>2, <1>3, <1>4, <1>5, Steps

LEMMA NextTypes == TypeInv /\ [Next]_vars => TypeInv'
<1> SUFFICES ASSUME TypeInv, [Next]_vars PROVE TypeInv'
  OBVIOUS
<1>1. Typed(state') /\ Planned(state') /\ Typed(saved') /\ Planned(saved')
  BY SavedEffect, MoveTypes, MovePlanned DEF TypeInv
<1>2. /\ tools' \in Seq([phase : {"waiting", "running", "done"}, evidence : SUBSET Evidence])
      /\ known' \in SUBSET Evidence /\ plan' \in Diagnoses \cup {NoDiagnosis}
      /\ late' \in SUBSET Diagnoses
  BY ToolsType, StoreTypes DEF ToolCall
<1>3. running' \in BOOLEAN /\ outcome' \in Outcome
  <2>1. CASE Start \/ Persist \/ Crash \/ UNCHANGED vars
    <3>1. running' \in BOOLEAN
      BY <2>1, Zenon DEF Start, Persist, Crash, vars, TypeInv, TypeOK
    <3>2. outcome' \in Outcome
      BY <2>1, Zenon DEF Start, Persist, Crash, vars, TypeInv, TypeOK, Outcome
    <3> QED
      BY <3>1, <3>2
  <2>2. CASE Move \/ Work
    <3>1. running' = running /\ outcome' = outcome
      BY <2>2, MoveEffect, WorkEffect, Zenon
    <3> QED
      BY <3>1, Zenon DEF TypeInv, TypeOK
  <2>3. CASE Over
    <3>1. ~ running' /\ outcome' \in Outcome
      BY <2>3, OverEffect, Zenon
    <3>2. running' \in BOOLEAN
      <4>1. running' = FALSE
        BY <2>3, Zenon
        DEF Over, NodeFails, Cancelled, OutOfIterations, ModelFails, GiveUp, Return,
            RejectTurn, ToolRefused, ToolFails, Finish
      <4> QED
        BY <4>1, Zenon
    <3> QED
      BY <3>1, <3>2, Zenon
  <2> QED
    BY <2>1, <2>2, <2>3, Steps, Zenon
<1>4. steps' \in Nat /\ tries' \in Nat
  <2>1. CASE Start \/ Persist \/ Crash \/ UNCHANGED vars
    BY <2>1 DEF Start, Persist, Crash, vars, TypeInv, TypeOK
  <2>2. CASE Work
    BY <2>2, WorkEffect
    DEF Work, AskAgain, StrayStarts, StrayEnds, LateCommit, ToolStarts, ToolReturns,
        TypeInv, TypeOK
  <2> QED
    BY <2>1, <2>2, Steps, MoveEffect, OverEffect DEF TypeInv, TypeOK
<1>5. stray' \in [waiting : Nat, running : Nat]
  <2>1. stray \in [waiting : Nat, running : Nat] /\ TypeOK
    BY DEF TypeInv, TypeOK
  <2>2. CASE Start \/ Persist \/ Crash \/ UNCHANGED vars
    BY <2>1, <2>2 DEF Start, Persist, Crash, vars
  <2>3. CASE Work
    BY <2>1, <2>3
    DEF Work, AskAgain, StrayStarts, StrayEnds, LateCommit, ToolStarts, ToolReturns
  <2>4. CASE Over
    BY <2>1, <2>4, AbandonType
    DEF Over, NodeFails, Cancelled, OutOfIterations, ModelFails, GiveUp, Return,
        RejectTurn, ToolRefused, ToolFails
  <2> QED
    BY <2>1, <2>2, <2>3, <2>4, Steps, MoveEffect
<1>6. used' \in [runs : Nat, crashes : Nat]
  <2>1. CASE Start \/ Persist \/ Crash \/ UNCHANGED vars
    BY <2>1 DEF Start, Persist, Crash, vars, TypeInv, TypeOK
  <2> QED
    BY <2>1, Steps, MoveEffect, WorkEffect, OverEffect DEF TypeInv, TypeOK
<1> QED
  BY <1>1, <1>2, <1>3, <1>4, <1>5, <1>6 DEF TypeInv, TypeOK, Typed

LEMMA TypesInductive == Spec => []TypeInv
  BY InitTypes, NextTypes, PTL DEF Spec

\* Types of the channels, the checkpoint and the calls, on every run of every task.
THEOREM GraphTyping == Spec => []TypeOK
<1>1. TypeInv => TypeOK
  BY DEF TypeInv
<1> QED
  BY TypesInductive, <1>1, PTL

-----------------------------------------------------------------------------
(***************************************************************************)
(* The refinement of GroundedAdvice.  Evidence in a conversation was       *)
(* returned by a tool, in the checkpoint too, which a crash brings back;   *)
(* so a diagnosis that passed _validate_diagnosis stays grounded until its *)
(* plan is stored, be it by a later run or by a thread nobody awaits.      *)
(***************************************************************************)

EvidenceKnown(s, evidence) ==
  /\ s.metrics => MetricEvidence \subseteq evidence
  /\ \A i \in DOMAIN s.messages : s.messages[i].evidence \subseteq evidence

PlanGrounded(s, evidence) == s.next = "plan" => Advice!Grounded(s.diagnosis, evidence)

ChannelsGrounded(s, evidence) == EvidenceKnown(s, evidence) /\ PlanGrounded(s, evidence)

ResultsKnown == \A i \in DOMAIN tools : tools[i].phase = "done" => tools[i].evidence \subseteq known

LateGrounded == \A d \in late : d.patch /\ Advice!Grounded(d, known)

AdviceInv ==
  /\ TypeInv
  /\ ChannelsGrounded(state, known) /\ ChannelsGrounded(saved, known)
  /\ ResultsKnown /\ LateGrounded

\* More evidence refutes nothing.
LEMMA MoreEvidence ==
  ASSUME NEW a, NEW b, a \subseteq b, NEW s
  PROVE  /\ \A d : Advice!Grounded(d, a) => Advice!Grounded(d, b)
         /\ ChannelsGrounded(s, a) => ChannelsGrounded(s, b)
<1>1. \A d : Advice!Grounded(d, a) => Advice!Grounded(d, b)
  BY DEF Advice!Grounded
<1> QED
  BY <1>1 DEF ChannelsGrounded, EvidenceKnown, PlanGrounded

LEMMA InitAdvice == Init => AdviceInv
<1> SUFFICES ASSUME Init PROVE AdviceInv
  OBVIOUS
<1>1. TypeInv
  BY InitTypes
<1>2. DOMAIN <<UserMessage>> = {1} /\ <<UserMessage>>[1].evidence = {}
  BY DEF UserMessage
<1>3. ChannelsGrounded(InitialState, known)
  BY <1>2 DEF ChannelsGrounded, EvidenceKnown, PlanGrounded, InitialState
<1>4. tools = <<>> /\ late = {} /\ state = InitialState /\ saved = InitialState
  BY DEF Init
<1>5. DOMAIN tools = {}
  BY <1>4
<1> QED
  BY <1>1, <1>3, <1>4, <1>5 DEF AdviceInv, ResultsKnown, LateGrounded

\* What is known only grows.
LEMMA KnownGrows ==
  ASSUME [Next]_vars
  PROVE  known \subseteq known'
<1>1. CASE Start \/ Persist \/ Crash \/ UNCHANGED vars
  BY <1>1 DEF Start, Persist, Crash, vars
<1>2. CASE Move
  BY <1>2 DEF Move, Scope, Metrics, ToolsDone, Reflect, Validated, Plan, AcceptTurn
<1>3. CASE Work
  BY <1>3 DEF Work, AskAgain, StrayStarts, StrayEnds, LateCommit, ToolStarts, ToolReturns
<1>4. CASE Over
  BY <1>4, OverEffect
<1> QED
  BY <1>1, <1>2, <1>3, <1>4, Steps

\* A message without evidence adds none, whatever it is appended to.
LEMMA NothingAdded ==
  ASSUME NEW q \in Seq(Message), NEW m \in Message, m.evidence = {}, NEW k,
         \A i \in DOMAIN q : q[i].evidence \subseteq k
  PROVE  /\ Append(q, m) \in Seq(Message)
         /\ \A i \in DOMAIN Append(q, m) : Append(q, m)[i].evidence \subseteq k
<1> DEFINE p == Append(q, m)
<1>1. /\ p \in Seq(Message) /\ Len(p) = Len(q) + 1
      /\ \A i \in 1 .. Len(q) : p[i] = q[i]
      /\ p[Len(q) + 1] = m
  BY AppendProperties
<1>2. Len(q) \in Nat /\ DOMAIN q = 1 .. Len(q) /\ DOMAIN p = 1 .. Len(p)
  BY <1>1, LenProperties
<1> HIDE DEF p
<1>3. \A i \in DOMAIN p : i \in DOMAIN q \/ i = Len(q) + 1
  BY <1>1, <1>2
<1> QED
  BY <1>1, <1>2, <1>3 DEF p

\* What validation accepts is grounded in the conversation.
LEMMA ValidGrounded ==
  ASSUME AdviceInv, Valid
  PROVE  Advice!Grounded(state.diagnosis, known)
<1> DEFINE d == state.diagnosis
<1>1. CollectEvidence \subseteq known
  <2>1. \A m \in Range(state.messages) : m.evidence \subseteq known
    BY DEF AdviceInv, ChannelsGrounded, EvidenceKnown, Range
  <2> QED
    BY <2>1 DEF CollectEvidence, AdviceInv, ChannelsGrounded, EvidenceKnown
<1>2. \A finding \in d.findings : finding.cites \subseteq known
  BY <1>1 DEF Valid
<1> QED
  BY <1>2 DEF Valid, Advice!Grounded, Advice!Cited

LEMMA MoveGrounded ==
  ASSUME AdviceInv, Move
  PROVE  ChannelsGrounded(state', known')
<1>1. /\ Typed(state) /\ TypeOK /\ known \subseteq known'
      /\ ChannelsGrounded(state, known) /\ ChannelsGrounded(state, known')
  <2>1. [Next]_vars
    BY DEF Move, Next, Step
  <2>2. known \subseteq known'
    BY <2>1, KnownGrows
  <2> QED
    BY <2>2, MoreEvidence DEF AdviceInv, TypeInv
<1>2. state.messages \in Seq(Message)
  BY <1>1, Fields DEF Typed
<1>3. PlanGrounded(state', known')
  <2>1. ASSUME state'.next = "plan" PROVE Valid /\ state'.diagnosis = state.diagnosis
    BY <1>1, <2>1, MoveNext
  <2> QED
    BY <1>1, <2>1, ValidGrounded, MoreEvidence DEF PlanGrounded
<1>4. EvidenceKnown(state', known')
  <2>1. CASE Scope \/ Validated \/ Plan
    <3>1. state'.metrics = state.metrics /\ state'.messages = state.messages
      BY <1>1, <2>1 DEF Scope, Validated, Plan, Proceed, Typed, AgentState
    <3> QED
      BY <1>1, <3>1 DEF EvidenceKnown, ChannelsGrounded
  <2>2. CASE Metrics
    <3>1. /\ state'.messages = Append(state.messages, UserMessage)
          /\ MetricEvidence \subseteq known'
      BY <1>1, <2>2 DEF Metrics, Proceed, Typed, AgentState
    <3>2. UserMessage \in Message /\ UserMessage.evidence = {}
      BY MessageTypes DEF UserMessage
    <3> QED
      BY <1>1, <1>2, <3>1, <3>2, NothingAdded DEF EvidenceKnown, ChannelsGrounded
  <2>3. ASSUME NEW turn \in Turns, AcceptTurn(turn) PROVE EvidenceKnown(state', known')
    <3> DEFINE c == IF turn.submits # <<>> THEN <<Submit>> ELSE turn.calls
    <3>1. /\ state'.messages = Append(state.messages, AssistantMessage(c))
          /\ state'.metrics = state.metrics
      BY <1>1, <2>3 DEF AcceptTurn, Typed, AgentState
    <3>2. AssistantMessage(c) \in Message
      BY TurnTypes, MessageTypes DEF Turn
    <3>3. AssistantMessage(c).evidence = {}
      BY DEF AssistantMessage
    <3> HIDE DEF c
    <3> QED
      BY <1>1, <1>2, <3>1, <3>2, <3>3, NothingAdded DEF EvidenceKnown, ChannelsGrounded
  <2>4. CASE Reflect
    <3>1. /\ state'.messages = Append(state.messages \o Answer(state), UserMessage)
          /\ state'.metrics = state.metrics
      BY <1>1, <2>4, CorrectionType DEF Reflect, Proceed, Typed, AgentState
    <3> DEFINE q == state.messages \o Answer(state)
    <3>2. q \in Seq(Message) /\ \A i \in DOMAIN q : q[i].evidence \subseteq known'
      <4>1. CASE Answer(state) = <<>>
        <5>1. q = state.messages
          BY <1>2, <4>1, ConcatEmptySeq
        <5> QED
          BY <1>1, <1>2, <5>1 DEF EvidenceKnown, ChannelsGrounded
      <4>2. CASE Answer(state) = <<ToolMessage({})>>
        <5>1. ToolMessage({}) \in Message /\ ToolMessage({}).evidence = {}
          BY MessageTypes DEF ToolMessage
        <5>2. q = Append(state.messages, ToolMessage({}))
          BY <1>2, <4>2, <5>1, AppendIsConcat
        <5> QED
          BY <1>1, <1>2, <5>1, <5>2, NothingAdded DEF EvidenceKnown, ChannelsGrounded
      <4> QED
        BY <4>1, <4>2 DEF Answer
    <3>3. UserMessage \in Message /\ UserMessage.evidence = {}
      BY MessageTypes DEF UserMessage
    <3> HIDE DEF q
    <3>4. state'.messages = Append(q, UserMessage)
      BY <3>1 DEF q
    <3> QED
      BY <1>1, <3>1, <3>2, <3>3, <3>4, NothingAdded DEF EvidenceKnown, ChannelsGrounded
  <2>5. CASE ToolsDone
    <3>1. /\ state'.messages = state.messages \o Results
          /\ state'.metrics = state.metrics
          /\ \A i \in DOMAIN tools : tools[i].phase = "done"
      BY <1>1, <2>5 DEF ToolsDone, Proceed, Typed, AgentState, Results
    <3>2. /\ Results \in Seq(Message) /\ Len(Results) = Len(tools)
          /\ DOMAIN Results = DOMAIN tools
          /\ \A i \in DOMAIN tools : Results[i] = ToolMessage(tools[i].evidence)
      BY <1>1, ResultsType DEF TypeOK, ToolCall
    <3>3. \A i \in DOMAIN Results : Results[i].evidence \subseteq known'
      BY <1>1, <3>1, <3>2 DEF AdviceInv, ResultsKnown, ToolMessage
    <3> DEFINE q == state.messages \o Results
    <3>4. /\ Len(q) = Len(state.messages) + Len(Results)
          /\ \A i \in 1 .. Len(state.messages) + Len(Results) :
               q[i] = IF i <= Len(state.messages) THEN state.messages[i]
                      ELSE Results[i - Len(state.messages)]
          /\ q \in Seq(Message)
      <4>1. state.messages \in Seq(Message) /\ Results \in Seq(Message)
        BY <1>2, <3>2
      <4> QED
        BY <4>1, ConcatProperties
    <3>5. /\ DOMAIN q = 1 .. Len(q) /\ DOMAIN Results = 1 .. Len(Results)
          /\ DOMAIN state.messages = 1 .. Len(state.messages)
          /\ Len(state.messages) \in Nat /\ Len(Results) \in Nat
      <4>1. DOMAIN q = 1 .. Len(q)
        BY <3>4, LenProperties
      <4>2. DOMAIN Results = 1 .. Len(Results) /\ Len(Results) \in Nat
        BY <3>2, LenProperties
      <4>3. DOMAIN state.messages = 1 .. Len(state.messages) /\ Len(state.messages) \in Nat
        BY <1>2, LenProperties
      <4> QED
        BY <4>1, <4>2, <4>3
    <3> HIDE DEF q
    <3>6. \A i \in DOMAIN q : q[i].evidence \subseteq known'
      <4> SUFFICES ASSUME NEW i \in DOMAIN q PROVE q[i].evidence \subseteq known'
        OBVIOUS
      <4>1. CASE i <= Len(state.messages)
        BY <1>1, <3>4, <3>5, <4>1 DEF EvidenceKnown, ChannelsGrounded
      <4>2. CASE ~ (i <= Len(state.messages))
        <5>1. i - Len(state.messages) \in DOMAIN Results
          BY <3>4, <3>5, <4>2
        <5>2. q[i] = Results[i - Len(state.messages)]
          BY <3>4, <3>5, <4>2
        <5> QED
          BY <3>3, <5>1, <5>2
      <4> QED
        BY <4>1, <4>2
    <3> QED
      BY <1>1, <3>1, <3>6 DEF EvidenceKnown, ChannelsGrounded, q
  <2> QED
    BY <2>1, <2>2, <2>3, <2>4, <2>5 DEF Move
<1> QED
  BY <1>3, <1>4 DEF ChannelsGrounded

LEMMA ResultsStayKnown ==
  ASSUME AdviceInv, [Next]_vars
  PROVE  ResultsKnown'
<1>1. known \subseteq known'
  BY KnownGrows
<1>2. ASSUME tools' = tools PROVE ResultsKnown'
  BY <1>1, <1>2 DEF AdviceInv, ResultsKnown
<1>3. ASSUME tools' = <<>> PROVE ResultsKnown'
  <2>1. DOMAIN tools' = {}
    BY <1>3
  <2> QED
    BY <2>1 DEF ResultsKnown
<1>4. ASSUME NEW s, Typed(s), tools' = Gather(s) PROVE ResultsKnown'
  BY <1>4, GatherType DEF ResultsKnown
<1>5. CASE Work
  <2>1. CASE AskAgain \/ StrayStarts \/ StrayEnds \/ LateCommit
    BY <1>2, <2>1 DEF AskAgain, StrayStarts, StrayEnds, LateCommit
  <2>2. ASSUME NEW i \in DOMAIN tools, ToolStarts(i) PROVE ResultsKnown'
    <3>1. /\ DOMAIN tools' = DOMAIN tools
          /\ \A j \in DOMAIN tools \ {i} : tools'[j] = tools[j]
          /\ tools'[i] = [tools[i] EXCEPT !.phase = "running"]
      BY <2>2 DEF ToolStarts
    <3>2. i \in 1 .. Len(tools) /\ tools[i] \in ToolCall
      <4>1. tools \in Seq(ToolCall)
        BY DEF AdviceInv, TypeInv, TypeOK, ToolCall
      <4> QED
        BY <4>1, LenProperties, ElementOfSeq
    <3>3. tools'[i].phase = "running"
      BY <3>1, <3>2 DEF ToolCall
    <3> QED
      BY <1>1, <3>1, <3>3 DEF AdviceInv, ResultsKnown
  <2>3. ASSUME NEW i \in DOMAIN tools, ToolReturns(i) PROVE ResultsKnown'
    <3>1. PICK e \in SUBSET ToolEvidence :
            /\ tools' = [tools EXCEPT ![i] = [phase |-> "done", evidence |-> e]]
            /\ known' = known \cup e
      BY <2>3 DEF ToolReturns
    <3>2. /\ DOMAIN tools' = DOMAIN tools
          /\ \A j \in DOMAIN tools \ {i} : tools'[j] = tools[j]
          /\ tools'[i].evidence = e
      BY <3>1
    <3> QED
      BY <1>1, <3>1, <3>2 DEF AdviceInv, ResultsKnown
  <2> QED
    BY <1>5, <2>1, <2>2, <2>3 DEF Work
<1>6. CASE Move
  BY <1>4, <1>6, MoveEffect, MoveTypes DEF AdviceInv, TypeInv
<1>7. CASE Over
  BY <1>3, <1>7, OverEffect
<1>8. CASE Start
  BY <1>4, <1>8 DEF Start, AdviceInv, TypeInv
<1>9. CASE Persist \/ Crash \/ UNCHANGED vars
  BY <1>2, <1>3, <1>9 DEF Persist, Crash, vars
<1> QED
  BY <1>5, <1>6, <1>7, <1>8, <1>9, Steps

LEMMA LateStaysGrounded ==
  ASSUME AdviceInv, [Next]_vars
  PROVE  LateGrounded'
<1>1. \A d \in late : d.patch /\ Advice!Grounded(d, known')
  BY KnownGrows, MoreEvidence DEF AdviceInv, LateGrounded
<1>2. ASSUME late' \subseteq late PROVE LateGrounded'
  BY <1>1, <1>2 DEF LateGrounded
<1>3. CASE Start \/ Persist \/ Crash \/ UNCHANGED vars
  BY <1>2, <1>3 DEF Start, Persist, Crash, vars
<1>4. CASE Move
  BY <1>2, <1>4, MoveEffect
<1>5. CASE Work
  BY <1>2, <1>5
  DEF Work, AskAgain, StrayStarts, StrayEnds, LateCommit, ToolStarts, ToolReturns
<1>6. CASE Over
  <2>1. CASE Cancelled
    <3>1. CASE state.next = "plan" /\ state.diagnosis.patch
      <4>1. Advice!Grounded(state.diagnosis, known')
        BY <3>1, KnownGrows, MoreEvidence DEF AdviceInv, ChannelsGrounded, PlanGrounded
      <4>2. late' \subseteq late \cup {state.diagnosis}
        BY <2>1 DEF Cancelled
      <4> QED
        BY <1>1, <3>1, <4>1, <4>2 DEF LateGrounded
    <3>2. CASE ~ (state.next = "plan" /\ state.diagnosis.patch)
      BY <1>2, <2>1, <3>2 DEF Cancelled
    <3> QED
      BY <3>1, <3>2
  <2>2. CASE ~ Cancelled
    BY <1>2, <1>6, <2>2
    DEF Over, NodeFails, OutOfIterations, ModelFails, GiveUp, Return, RejectTurn,
        ToolRefused, ToolFails
  <2> QED
    BY <2>1, <2>2
<1> QED
  BY <1>3, <1>4, <1>5, <1>6, Steps

LEMMA NextAdvice == AdviceInv /\ [Next]_vars => AdviceInv'
<1> SUFFICES ASSUME AdviceInv, [Next]_vars PROVE AdviceInv'
  OBVIOUS
<1>1. TypeInv'
  BY NextTypes DEF AdviceInv
<1>2. ChannelsGrounded(state, known') /\ ChannelsGrounded(saved, known')
  BY KnownGrows, MoreEvidence DEF AdviceInv
<1>3. ChannelsGrounded(state', known') /\ ChannelsGrounded(saved', known')
  BY <1>2, SavedEffect, MoveGrounded
<1> QED
  BY <1>1, <1>3, ResultsStayKnown, LateStaysGrounded DEF AdviceInv

\* A diagnosis becomes the advice only where create_plan stores the task's first plan.
LEMMA AdviceStep == AdviceInv /\ [Next]_vars => [Advice!Next]_Advice!vars
<1> SUFFICES ASSUME AdviceInv, [Next]_vars PROVE [Advice!Next]_Advice!vars
  OBVIOUS
<1>1. known \subseteq known' /\ known' \in SUBSET Evidence
  BY KnownGrows, NextTypes DEF AdviceInv, TypeInv, TypeOK
<1>2. ASSUME plan' = plan PROVE [Advice!Next]_Advice!vars
  BY <1>1, <1>2 DEF Advice!Next, Advice!Learn, Advice!vars
<1>3. ASSUME NEW d \in Diagnoses, d.patch, Advice!Grounded(d, known), plan' = Stored(d),
             known' = known
      PROVE  [Advice!Next]_Advice!vars
  <2>1. CASE plan = NoDiagnosis
    BY <1>3, <2>1 DEF Stored, Advice!Next, Advice!Propose
  <2>2. CASE plan # NoDiagnosis
    BY <1>2, <1>3, <2>2 DEF Stored
  <2> QED
    BY <2>1, <2>2
<1>4. CASE Start \/ Persist \/ Crash \/ UNCHANGED vars
  BY <1>2, <1>4 DEF Start, Persist, Crash, vars
<1>5. CASE Over
  BY <1>2, <1>5, OverEffect
<1>6. CASE Work
  <2>1. CASE LateCommit
    <3>1. PICK d \in late : plan' = Stored(d) /\ known' = known
      BY <2>1 DEF LateCommit
    <3>2. d \in Diagnoses /\ d.patch /\ Advice!Grounded(d, known)
      BY DEF AdviceInv, LateGrounded, TypeInv, TypeOK
    <3> QED
      BY <1>3, <3>1, <3>2
  <2>2. CASE ~ LateCommit
    BY <1>2, <1>6, <2>2 DEF Work, AskAgain, StrayStarts, StrayEnds, ToolStarts, ToolReturns
  <2> QED
    BY <2>1, <2>2
<1>7. CASE Move
  <2>1. CASE Plan
    <3>1. state.next = "plan" /\ known' = known
      BY <2>1 DEF Plan, At
    <3>2. CASE state.diagnosis.patch
      <4>1. plan' = Stored(state.diagnosis)
        BY <2>1, <3>2 DEF Plan
      <4>2. state.diagnosis \in Diagnoses /\ Advice!Grounded(state.diagnosis, known)
        BY <3>1 DEF AdviceInv, TypeInv, Planned, ChannelsGrounded, PlanGrounded
      <4> QED
        BY <1>3, <3>1, <3>2, <4>1, <4>2
    <3>3. CASE ~ state.diagnosis.patch
      BY <1>2, <2>1, <3>3 DEF Plan
    <3> QED
      BY <3>2, <3>3
  <2>2. CASE ~ Plan
    BY <1>2, <1>7, <2>2 DEF Move, Scope, Metrics, ToolsDone, Reflect, Validated, AcceptTurn
  <2> QED
    BY <2>1, <2>2
<1> QED
  BY <1>4, <1>5, <1>6, <1>7, Steps

\* The loop implements GroundedAdvice: whatever the model answers, whenever runs fail, are
\* cut off, die and are retried, the merchant is asked about at most one change for the
\* task, from a diagnosis that cites nothing but evidence a tool really returned.
THEOREM ImplementsGroundedAdvice == Spec => AdviceGrounded
<1>1. Init => Advice!Init
  BY DEF Init, Advice!Init
<1> QED
  BY <1>1, InitAdvice, NextAdvice, AdviceStep, PTL DEF Spec, AdviceGrounded, Advice!Spec

-----------------------------------------------------------------------------
(***************************************************************************)
(* The limits.  Every superstep but the first two is paid for by an        *)
(* iteration, of which each buys at most two; every correction of the      *)
(* model is paid for by a reflection.  Iterations and reflections are      *)
(* channels, so that the checkpoint carries them from run to run.          *)
(***************************************************************************)

Users(q) == {i \in DOMAIN q : q[i].role = "user"}

Counted(s) ==
  /\ s.iteration <= MaxIterations /\ s.reflections <= MaxReflections
  /\ s.next \in {"scope", "metrics"} => ~ s.metrics
  /\ Cardinality(Users(s.messages)) = (IF s.metrics THEN 2 ELSE 1) + s.reflections

Ahead == [node \in Node |->
            CASE node = "scope" -> 0
              [] node \in {"metrics", "tools", "validate"} -> 1
              [] node \in {"model", "plan"} -> 2
              [] node \in {"approval", "end"} -> 3]

StepsPaid == steps <= 2 * state.iteration + Ahead[state.next]

LimitInv == TypeInv /\ Counted(state) /\ Counted(saved) /\ StepsPaid

LEMMA UsersFinite ==
  ASSUME NEW q \in Seq(Message)
  PROVE  /\ IsFiniteSet(Users(q)) /\ Cardinality(Users(q)) \in Nat
         /\ Len(q) \in Nat /\ DOMAIN q = 1 .. Len(q) /\ Len(q) + 1 \notin Users(q)
<1>1. DOMAIN q = 1 .. Len(q) /\ Len(q) \in Nat
  BY LenProperties
<1>2. IsFiniteSet(1 .. Len(q)) /\ Users(q) \in SUBSET (1 .. Len(q))
  BY <1>1, FS_Interval DEF Users
<1>3. Len(q) + 1 \notin Users(q)
  BY <1>1 DEF Users
<1> QED
  BY <1>1, <1>2, <1>3, FS_Subset, FS_CardinalityType

LEMMA UsersAppend ==
  ASSUME NEW q \in Seq(Message), NEW m \in Message
  PROVE  Cardinality(Users(Append(q, m)))
           = Cardinality(Users(q)) + (IF m.role = "user" THEN 1 ELSE 0)
<1> DEFINE p == Append(q, m)
<1>1. /\ p \in Seq(Message) /\ Len(p) = Len(q) + 1
      /\ \A i \in 1 .. Len(q) : p[i] = q[i]
      /\ p[Len(q) + 1] = m
  BY AppendProperties
<1>2. /\ Len(q) \in Nat /\ DOMAIN q = 1 .. Len(q) /\ DOMAIN p = 1 .. Len(q) + 1
  BY <1>1, LenProperties
<1> HIDE DEF p
<1>3. CASE m.role = "user"
  <2>1. Users(p) = Users(q) \cup {Len(q) + 1}
    BY <1>1, <1>2, <1>3 DEF Users
  <2> QED
    BY <1>3, <2>1, UsersFinite, FS_AddElement DEF p
<1>4. CASE m.role # "user"
  <2>1. Users(p) = Users(q)
    BY <1>1, <1>2, <1>4 DEF Users
  <2> QED
    BY <1>4, <2>1, UsersFinite DEF p
<1> QED
  BY <1>3, <1>4

LEMMA UsersConcat ==
  ASSUME NEW q \in Seq(Message), NEW r \in Seq(Message),
         \A i \in DOMAIN r : r[i].role # "user"
  PROVE  Users(q \o r) = Users(q)
<1> DEFINE p == q \o r
<1>1. /\ p \in Seq(Message) /\ Len(p) = Len(q) + Len(r)
      /\ \A i \in 1 .. Len(q) + Len(r) : p[i] = IF i <= Len(q) THEN q[i] ELSE r[i - Len(q)]
  BY ConcatProperties
<1>2. /\ Len(q) \in Nat /\ DOMAIN q = 1 .. Len(q) /\ DOMAIN p = 1 .. Len(p)
      /\ Len(r) \in Nat /\ DOMAIN r = 1 .. Len(r)
  BY <1>1, LenProperties
<1> HIDE DEF p
<1>3. ASSUME NEW i \in DOMAIN p, p[i].role = "user" PROVE i \in DOMAIN q /\ q[i] = p[i]
  <2>1. CASE i <= Len(q)
    BY <1>1, <1>2, <2>1
  <2>2. CASE ~ (i <= Len(q))
    <3>1. i - Len(q) \in DOMAIN r /\ p[i] = r[i - Len(q)]
      BY <1>1, <1>2, <2>2
    <3> QED
      BY <1>3, <3>1
  <2> QED
    BY <2>1, <2>2
<1>4. ASSUME NEW i \in DOMAIN q PROVE i \in DOMAIN p /\ p[i] = q[i]
  BY <1>1, <1>2
<1> QED
  BY <1>3, <1>4 DEF Users, p

\* What a move does to the counters.
LEMMA MoveCounts ==
  ASSUME LimitInv, Move
  PROVE  Counted(state') /\ StepsPaid'
<1>1. /\ Typed(state) /\ TypeOK /\ Counted(state) /\ Typed(state')
      /\ state.iteration \in Nat /\ state.reflections \in Nat /\ steps \in Nat
      /\ state.messages \in Seq(Message)
      /\ Cardinality(Users(state.messages)) \in Nat
  BY MoveTypes, Fields, UsersFinite DEF LimitInv, TypeInv, Typed, TypeOK
<1>2. steps' = steps + 1 /\ steps <= 2 * state.iteration + Ahead[state.next]
  BY MoveEffect DEF LimitInv, StepsPaid
<1>3. CASE Scope \/ Validated \/ Plan
  <2>1. /\ state'.metrics = state.metrics /\ state'.messages = state.messages
        /\ state'.iteration = state.iteration /\ state'.reflections = state.reflections
    BY <1>1, <1>3 DEF Scope, Validated, Plan, Proceed, Typed, AgentState
  <2>2. \/ state.next = "scope" /\ state'.next = "metrics"
        \/ state.next = "validate" /\ state'.next = "plan"
        \/ state.next = "plan" /\ state'.next \in {"approval", "end"}
    BY <1>1, <1>3 DEF Scope, Validated, Plan, Proceed, At, Typed, AgentState
  <2>3. Ahead[state'.next] = Ahead[state.next] + 1 /\ Ahead[state.next] \in Nat
    BY <2>2 DEF Ahead, Node
  <2>4. Counted(state')
    BY <1>1, <2>1, <2>2 DEF Counted
  <2>5. StepsPaid'
    BY <1>1, <1>2, <2>1, <2>3 DEF StepsPaid
  <2> QED
    BY <2>4, <2>5
<1>4. CASE Metrics
  <2>1. /\ state'.metrics = TRUE /\ state'.messages = Append(state.messages, UserMessage)
        /\ state'.iteration = state.iteration /\ state'.reflections = state.reflections
        /\ state.next = "metrics" /\ state'.next = "model"
    BY <1>1, <1>4 DEF Metrics, Proceed, At, Typed, AgentState
  <2>2. Cardinality(Users(state'.messages)) = Cardinality(Users(state.messages)) + 1
    BY <1>1, <2>1, MessageTypes, UsersAppend DEF UserMessage
  <2>3. Ahead[state'.next] = Ahead[state.next] + 1 /\ Ahead[state.next] \in Nat
    BY <2>1 DEF Ahead, Node
  <2>4. Cardinality(Users(state.messages)) = 1 + state.reflections
    BY <1>1, <2>1 DEF Counted
  <2>5. Counted(state')
    <3>1. Cardinality(Users(state'.messages)) = 2 + state.reflections
      BY <1>1, <2>2, <2>4
    <3> QED
      BY <1>1, <2>1, <3>1 DEF Counted
  <2>6. StepsPaid'
    BY <1>1, <1>2, <2>1, <2>3 DEF StepsPaid
  <2> QED
    BY <2>5, <2>6
<1>5. ASSUME NEW turn \in Turns, AcceptTurn(turn) PROVE Counted(state') /\ StepsPaid'
  <2> DEFINE c == IF turn.submits # <<>> THEN <<Submit>> ELSE turn.calls
  <2>1. /\ state'.metrics = state.metrics
        /\ state'.messages = Append(state.messages, AssistantMessage(c))
        /\ state'.iteration = state.iteration + 1 /\ state'.reflections = state.reflections
        /\ state.next = "model" /\ state'.next \in {"tools", "validate"}
        /\ state.iteration < MaxIterations
    BY <1>1, <1>5 DEF AcceptTurn, MayAsk, At, Typed, AgentState
  <2>2. AssistantMessage(c) \in Message /\ AssistantMessage(c).role # "user"
    <3>1. AssistantMessage(c) \in Message
      BY TurnTypes, MessageTypes DEF Turn
    <3> QED
      BY <3>1 DEF AssistantMessage
  <2> HIDE DEF c
  <2>3. Cardinality(Users(state'.messages)) = Cardinality(Users(state.messages))
    BY <1>1, <2>1, <2>2, UsersAppend
  <2>4. Ahead[state'.next] = 1 /\ Ahead[state.next] = 2
    BY <2>1 DEF Ahead, Node
  <2>5. state.iteration + 1 <= MaxIterations
    BY <1>1, <2>1, LimitsAssumption
  <2>6. Counted(state')
    BY <1>1, <2>1, <2>3, <2>5 DEF Counted
  <2>7. StepsPaid'
    BY <1>1, <1>2, <2>1, <2>4 DEF StepsPaid
  <2> QED
    BY <2>6, <2>7
<1>6. CASE ToolsDone
  <2>1. /\ state'.metrics = state.metrics /\ state'.messages = state.messages \o Results
        /\ state'.iteration = state.iteration /\ state'.reflections = state.reflections
        /\ state.next = "tools" /\ state'.next = "model"
    BY <1>1, <1>6 DEF ToolsDone, Proceed, At, Typed, AgentState, Results
  <2>2. Results \in Seq(Message) /\ \A i \in DOMAIN Results : Results[i].role # "user"
    BY <1>1, ResultsType DEF TypeOK, ToolCall, ToolMessage
  <2>3. Users(state'.messages) = Users(state.messages)
    BY <1>1, <2>1, <2>2, UsersConcat
  <2>4. Ahead[state'.next] = 2 /\ Ahead[state.next] = 1
    BY <2>1 DEF Ahead, Node
  <2>5. Counted(state')
    BY <1>1, <2>1, <2>3 DEF Counted
  <2>6. StepsPaid'
    BY <1>1, <1>2, <2>1, <2>4 DEF StepsPaid
  <2> QED
    BY <2>5, <2>6
<1>7. CASE Reflect
  <2> DEFINE q == state.messages \o Answer(state)
  <2>1. /\ state'.metrics = state.metrics /\ state'.messages = Append(q, UserMessage)
        /\ state'.iteration = state.iteration
        /\ state'.reflections = state.reflections + 1
        /\ state.next = "validate" /\ state'.next = "model"
        /\ state.reflections < MaxReflections
    BY <1>1, <1>7, CorrectionType DEF Reflect, Proceed, At, Typed, AgentState
  <2>2. /\ q \in Seq(Message) /\ Answer(state) \in Seq(Message)
        /\ \A i \in DOMAIN Answer(state) : Answer(state)[i].role # "user"
    BY <1>1, CorrectionType DEF Answer, ToolMessage
  <2>3. Users(q) = Users(state.messages)
    BY <1>1, <2>2, UsersConcat
  <2> HIDE DEF q
  <2>4. Cardinality(Users(state'.messages)) = Cardinality(Users(state.messages)) + 1
    BY <2>1, <2>2, <2>3, MessageTypes, UsersAppend DEF UserMessage
  <2>5. Ahead[state'.next] = 2 /\ Ahead[state.next] = 1
    BY <2>1 DEF Ahead, Node
  <2>6. state.reflections + 1 <= MaxReflections
    BY <1>1, <2>1, LimitsAssumption
  <2>7. /\ state'.metrics = state.metrics /\ state'.next = "model"
        /\ state.next = "validate" /\ state'.iteration = state.iteration
        /\ state'.reflections = state.reflections + 1 /\ state.reflections \in Nat
        /\ Counted(state)
    BY <1>1, <2>1
  <2>8. Counted(state')
    <3> DEFINE asked == IF state.metrics THEN 2 ELSE 1
    <3>1. Cardinality(Users(state.messages)) = asked + state.reflections
      BY <2>7 DEF Counted
    <3>2. asked \in Nat /\ asked = IF state'.metrics THEN 2 ELSE 1
      BY <2>7
    <3> HIDE DEF asked
    <3>3. Cardinality(Users(state'.messages)) = asked + state'.reflections
      BY <2>4, <2>7, <3>1, <3>2
    <3>4. state'.iteration <= MaxIterations /\ state'.reflections <= MaxReflections
      BY <2>6, <2>7 DEF Counted
    <3> QED
      BY <2>7, <3>2, <3>3, <3>4 DEF Counted
  <2>9. StepsPaid'
    <3>1. /\ state'.iteration = state.iteration /\ state.iteration \in Nat
          /\ steps \in Nat /\ steps' = steps + 1
          /\ steps <= 2 * state.iteration + Ahead[state.next]
      BY <1>1, <1>2, <2>1
    <3> QED
      BY <2>5, <3>1 DEF StepsPaid
  <2> QED
    BY <2>8, <2>9
<1> QED
  BY <1>3, <1>4, <1>5, <1>6, <1>7 DEF Move

LEMMA InitLimits == Init => LimitInv
<1> SUFFICES ASSUME Init PROVE LimitInv
  OBVIOUS
<1>1. Users(<<UserMessage>>) = {1}
  BY DEF Users, UserMessage
<1>2. Cardinality({1}) = 1
  BY FS_Singleton
<1>3. Counted(InitialState)
  BY <1>1, <1>2, LimitsAssumption DEF Counted, InitialState
<1>4. StepsPaid
  BY DEF StepsPaid, Init, InitialState, Ahead, Node
<1> QED
  BY <1>3, <1>4, InitTypes DEF LimitInv, Init

LEMMA NextLimits == LimitInv /\ [Next]_vars => LimitInv'
<1> SUFFICES ASSUME LimitInv, [Next]_vars PROVE LimitInv'
  OBVIOUS
<1>1. TypeInv' /\ state.next \in Node /\ state.iteration \in Nat
  BY NextTypes, Fields DEF LimitInv, TypeInv, Typed
<1>2. Counted(state') /\ Counted(saved')
  BY SavedEffect, MoveCounts DEF LimitInv
<1>3. StepsPaid'
  <2>1. CASE Move
    BY <2>1, MoveCounts
  <2>2. CASE Start \/ Persist \/ UNCHANGED vars \/ Work
    <3>1. steps' = steps /\ state' = state
      BY <2>2, WorkEffect DEF Start, Persist, vars
    <3> QED
      BY <3>1 DEF LimitInv, StepsPaid
  <2>3. CASE Over \/ Crash
    <3>1. steps' = 0
      BY <2>3, OverEffect DEF Crash
    <3>2. state'.next \in Node /\ state'.iteration \in Nat
      BY <1>1, Fields DEF TypeInv, Typed
    <3>3. Ahead[state'.next] \in Nat
      BY <3>2 DEF Ahead, Node
    <3> QED
      BY <3>1, <3>2, <3>3 DEF StepsPaid
  <2> QED
    BY <2>1, <2>2, <2>3, Steps
<1> QED
  BY <1>1, <1>2, <1>3 DEF LimitInv

\* No run meets LangGraph's recursion limit, and over all runs and retries of a task the
\* model is corrected at most max_reflections times.
THEOREM LoopAlwaysBounded == Spec => []LoopBounded
<1>1. LimitInv => LoopBounded
  <2> SUFFICES ASSUME LimitInv PROVE LoopBounded
    OBVIOUS
  <2>1. /\ state.next \in Node /\ state.iteration \in Nat /\ state.reflections \in Nat
        /\ steps \in Nat
    BY Fields DEF LimitInv, TypeInv, Typed, TypeOK
  <2>2. Ahead[state.next] \in 0 .. 3
    BY <2>1 DEF Ahead, Node
  <2>3. steps < Limit
    BY <2>1, <2>2, LimitsAssumption DEF LimitInv, StepsPaid, Counted, Limit
  <2>4. Corrections = Cardinality(Users(state.messages))
    BY DEF Corrections, Users
  <2>5. Corrections <= 2 + MaxReflections
    BY <2>1, <2>4, LimitsAssumption DEF LimitInv, Counted
  <2> QED
    BY <2>3, <2>5 DEF LoopBounded
<1> QED
  BY <1>1, InitLimits, NextLimits, PTL DEF Spec

-----------------------------------------------------------------------------
\* The semaphore of the read tools.

Running == {i \in DOMAIN tools : tools[i].phase = "running"}

ParallelInv == TypeInv /\ ParallelToolsBounded

LEMMA HoldingType ==
  ASSUME TypeInv
  PROVE  /\ tools \in Seq(ToolCall) /\ IsFiniteSet(Running)
         /\ Holding = Cardinality(Running) /\ Holding \in Nat
         /\ stray.running \in Nat /\ stray.waiting \in Nat
         /\ stray \in [waiting : Nat, running : Nat]
<1>1. tools \in Seq(ToolCall) /\ Running \in SUBSET DOMAIN tools
  BY DEF TypeInv, TypeOK, ToolCall, Running
<1>2. Holding = Cardinality(Running)
  BY DEF Holding, Running
<1> QED
  BY <1>1, <1>2, PhaseFinite DEF TypeInv, TypeOK

\* No call holds the semaphore where all are waiting or none are left.
LEMMA NoneHolding ==
  ASSUME TypeInv', \A i \in DOMAIN tools' : tools'[i].phase # "running"
  PROVE  Holding' = 0
<1>1. {i \in DOMAIN tools' : tools'[i].phase = "running"} = {}
  OBVIOUS
<1>2. Cardinality({}) = 0
  BY FS_EmptySet
<1> QED
  BY <1>1, <1>2 DEF Holding

LEMMA NextParallel == ParallelInv /\ [Next]_vars => ParallelInv'
<1> SUFFICES ASSUME ParallelInv, [Next]_vars PROVE ParallelToolsBounded'
  BY NextTypes DEF ParallelInv
<1>1. /\ TypeInv' /\ TypeInv /\ Holding + stray.running <= MaxParallelTools
      /\ MaxParallelTools \in Nat
  BY NextTypes, LimitsAssumption DEF ParallelInv, ParallelToolsBounded
<1>2. /\ tools \in Seq(ToolCall) /\ IsFiniteSet(Running)
      /\ Holding = Cardinality(Running) /\ Holding \in Nat
      /\ stray.running \in Nat /\ stray.waiting \in Nat
      /\ stray \in [waiting : Nat, running : Nat]
  BY <1>1, HoldingType
<1>3. ASSUME Holding' = 0, stray'.running <= stray.running, stray'.running \in Nat
      PROVE  ParallelToolsBounded'
  BY <1>1, <1>2, <1>3 DEF ParallelToolsBounded
<1>4. ASSUME tools' = tools, stray' = stray PROVE ParallelToolsBounded'
  BY <1>1, <1>4 DEF ParallelToolsBounded, Holding
<1>5. CASE Start
  <2>1. \A i \in DOMAIN tools' : tools'[i].phase # "running"
    BY <1>1, <1>5, GatherType DEF Start, TypeInv
  <2>2. stray' = stray
    BY <1>5 DEF Start
  <2> QED
    BY <1>1, <1>2, <1>3, <2>1, <2>2, NoneHolding
<1>6. CASE Move
  <2>1. stray' = stray /\ tools' = Gather(state') /\ Typed(state')
    BY <1>1, <1>6, MoveEffect DEF TypeInv
  <2>2. \A i \in DOMAIN tools' : tools'[i].phase # "running"
    BY <2>1, GatherType
  <2> QED
    BY <1>1, <1>2, <1>3, <2>1, <2>2, NoneHolding
<1>7. CASE Work
  <2>1. CASE AskAgain \/ LateCommit
    BY <1>4, <2>1 DEF AskAgain, LateCommit
  <2>2. CASE StrayStarts \/ StrayEnds
    <3>1. tools' = tools /\ Holding' = Holding
      BY <2>2 DEF StrayStarts, StrayEnds, Holding
    <3>2. \/ stray'.running = stray.running + 1 /\ Free
          \/ stray'.running = stray.running - 1
      BY <1>2, <2>2 DEF StrayStarts, StrayEnds
    <3> QED
      BY <1>1, <1>2, <3>1, <3>2 DEF Free, ParallelToolsBounded
  <2>3. ASSUME NEW i \in DOMAIN tools, ToolStarts(i) PROVE ParallelToolsBounded'
    <3>1. tools[i] \in ToolCall
      BY <1>2, LenProperties, ElementOfSeq
    <3>2. /\ DOMAIN tools' = DOMAIN tools
          /\ \A j \in DOMAIN tools \ {i} : tools'[j] = tools[j]
          /\ tools'[i].phase = "running" /\ tools[i].phase = "waiting"
          /\ stray' = stray /\ Free
      BY <2>3, <3>1 DEF ToolStarts, ToolCall
    <3>3. {j \in DOMAIN tools' : tools'[j].phase = "running"} = Running \cup {i}
      BY <3>2 DEF Running
    <3>4. i \notin Running
      BY <3>2 DEF Running
    <3>5. Holding' = Holding + 1
      <4>1. Cardinality(Running \cup {i}) = Cardinality(Running) + 1
        BY <1>2, <3>4, FS_AddElement
      <4> QED
        BY <1>2, <3>3, <4>1 DEF Holding
    <3>6. Holding + stray.running < MaxParallelTools
      BY <1>2, <3>2 DEF Free
    <3>7. Holding' + stray'.running <= MaxParallelTools
      BY <1>1, <1>2, <3>2, <3>5, <3>6
    <3> QED
      BY <3>7 DEF ParallelToolsBounded
  <2>4. ASSUME NEW i \in DOMAIN tools, ToolReturns(i) PROVE ParallelToolsBounded'
    <3>1. PICK e : tools' = [tools EXCEPT ![i] = [phase |-> "done", evidence |-> e]]
      BY <2>4 DEF ToolReturns
    <3>2. /\ DOMAIN tools' = DOMAIN tools
          /\ \A j \in DOMAIN tools \ {i} : tools'[j] = tools[j]
          /\ tools'[i].phase = "done" /\ tools[i].phase = "running"
          /\ stray' = stray
      BY <2>4, <3>1 DEF ToolReturns
    <3>3. {j \in DOMAIN tools' : tools'[j].phase = "running"} = Running \ {i}
      BY <3>2 DEF Running
    <3>4. i \in Running
      BY <3>2 DEF Running
    <3>5. Holding' = Holding - 1
      <4>1. Cardinality(Running \ {i}) = Cardinality(Running) - 1
        BY <1>2, <3>4, FS_RemoveElement
      <4> QED
        BY <1>2, <3>3, <4>1 DEF Holding
    <3> QED
      BY <1>1, <1>2, <3>2, <3>5 DEF ParallelToolsBounded
  <2> QED
    BY <1>7, <2>1, <2>2, <2>3, <2>4 DEF Work
<1>8. CASE Over
  <2>1. tools' = <<>> /\ Holding' = 0
    <3>1. tools' = <<>>
      BY <1>8, OverEffect
    <3>2. DOMAIN tools' = {}
      BY <3>1
    <3> QED
      BY <1>1, <3>1, <3>2, NoneHolding
  <2>2. CASE stray' = stray
    BY <1>2, <1>3, <2>1, <2>2
  <2>3. ASSUME NEW i \in DOMAIN tools, Abandon(i) PROVE ParallelToolsBounded'
    <3> DEFINE Others == {j \in DOMAIN tools \ {i} : tools[j].phase = "running"}
    <3>1. stray'.running = stray.running + Cardinality(Others)
      BY <2>3 DEF Abandon
    <3>2. Others \in SUBSET Running
      BY DEF Running
    <3>3. Cardinality(Others) <= Holding /\ Cardinality(Others) \in Nat
      BY <1>2, <3>2, FS_Subset, FS_CardinalityType
    <3> QED
      BY <1>1, <1>2, <2>1, <3>1, <3>3 DEF ParallelToolsBounded
  <2> QED
    BY <1>8, <2>2, <2>3
    DEF Over, NodeFails, Cancelled, OutOfIterations, ModelFails, GiveUp, Return,
        RejectTurn, ToolRefused, ToolFails
<1>9. CASE Crash
  <2>1. tools' = <<>> /\ stray'.running = 0
    BY <1>9 DEF Crash
  <2>2. DOMAIN tools' = {}
    BY <2>1
  <2> QED
    BY <1>1, <1>2, <1>3, <2>1, <2>2, NoneHolding
<1>10. CASE Persist \/ UNCHANGED vars
  BY <1>4, <1>10 DEF Persist, vars
<1> QED
  BY <1>5, <1>6, <1>7, <1>8, <1>9, <1>10, Steps

\* At most max_parallel_tools calls of read tools run at once, those a failed attempt left
\* behind counted in.
THEOREM ParallelToolsAlwaysBounded == Spec => []ParallelToolsBounded
<1>1. Init => ParallelInv
  <2> SUFFICES ASSUME Init PROVE ParallelInv
    OBVIOUS
  <2>1. {i \in DOMAIN tools : tools[i].phase = "running"} = {} /\ stray.running = 0
    BY DEF Init
  <2>2. Holding = 0
    BY <2>1, FS_EmptySet DEF Holding
  <2> QED
    BY <2>1, <2>2, InitTypes, LimitsAssumption DEF ParallelInv, ParallelToolsBounded
<1>2. ParallelInv => ParallelToolsBounded
  BY DEF ParallelInv
<1> QED
  BY <1>1, <1>2, NextParallel, PTL DEF Spec

-----------------------------------------------------------------------------
(***************************************************************************)
(* The report and the plan.  As long as the process has not died, a        *)
(* diagnosis whose plan is stored, or may yet be by a thread nobody        *)
(* awaits, is the one in the channels, and no node before plan runs again. *)
(***************************************************************************)

OfThisDiagnosis ==
  /\ state.next \notin {"plan", "approval", "end"} => plan = NoDiagnosis /\ late = {}
  /\ plan \in {NoDiagnosis, state.diagnosis} /\ late \subseteq {state.diagnosis}
  /\ state.next = "approval" => plan = state.diagnosis

ReportInv ==
  /\ TypeInv
  /\ outcome = "awaiting_approval" => state.next = "approval" /\ ~ running
  /\ used.crashes = 0 => OfThisDiagnosis

LEMMA NextReport == ReportInv /\ [Next]_vars => ReportInv'
<1> SUFFICES ASSUME ReportInv, [Next]_vars PROVE ReportInv'
  OBVIOUS
<1>1. /\ TypeInv /\ TypeInv' /\ used \in [runs : Nat, crashes : Nat]
      /\ Typed(state) /\ Planned(state)
  BY NextTypes DEF ReportInv, TypeInv, TypeOK
<1>2. CASE Start
  <2>1. /\ UNCHANGED <<state, plan, late, outcome>> /\ used'.crashes = used.crashes
        /\ outcome # "awaiting_approval"
    BY <1>1, <1>2 DEF Start
  <2> QED
    BY <1>1, <2>1 DEF ReportInv, OfThisDiagnosis
<1>3. CASE Persist \/ UNCHANGED vars
  <2>1. UNCHANGED <<state, plan, late, outcome, used, running>>
    BY <1>3 DEF Persist, vars
  <2> QED
    BY <1>1, <2>1 DEF ReportInv, OfThisDiagnosis
<1>4. CASE Crash
  <2>1. used'.crashes # 0 /\ outcome' = "none"
    BY <1>1, <1>4 DEF Crash
  <2> QED
    BY <1>1, <2>1 DEF ReportInv
<1>5. CASE Move
  <2>1. UNCHANGED <<outcome, used, late, running>> /\ running
    BY <1>5, MoveEffect
  <2>2. outcome # "awaiting_approval"
    BY <2>1 DEF ReportInv
  <2>3. ASSUME used.crashes = 0 PROVE OfThisDiagnosis'
    <3>1. OfThisDiagnosis
      BY <2>3 DEF ReportInv
    <3>2. CASE Plan
      <4>1. /\ state.next = "plan" /\ state'.diagnosis = state.diagnosis
            /\ state.diagnosis \in Diagnoses
            /\ \/ plan' = Stored(state.diagnosis) /\ state'.next = "approval"
               \/ plan' = plan /\ state'.next = "end"
        BY <1>1, <3>2 DEF Plan, Proceed, At, Typed, AgentState, Planned
      <4> QED
        BY <2>1, <3>1, <4>1, GraphAssumption DEF OfThisDiagnosis, Stored
    <3>3. CASE ~ Plan
      <4>1. plan' = plan
        BY <1>5, <3>3 DEF Move, Scope, Metrics, ToolsDone, Reflect, Validated, AcceptTurn
      <4>2. state.next \notin {"plan", "approval", "end"} /\ state'.next \notin {"approval", "end"}
        <5>1. CASE \E turn \in Turns : AcceptTurn(turn)
          BY <1>1, <5>1 DEF AcceptTurn, MayAsk, At, Typed, AgentState
        <5>2. CASE Scope \/ Metrics \/ ToolsDone \/ Validated
          BY <1>1, <5>2
          DEF Scope, Metrics, ToolsDone, Validated, Proceed, At, Typed, AgentState
        <5>3. CASE Reflect
          BY <1>1, <5>3, CorrectionType DEF Reflect, Proceed, At, Typed, AgentState
        <5> QED
          BY <1>5, <3>3, <5>1, <5>2, <5>3 DEF Move
      <4> QED
        BY <2>1, <3>1, <4>1, <4>2 DEF OfThisDiagnosis
    <3> QED
      BY <3>2, <3>3
  <2> QED
    BY <1>1, <2>1, <2>2, <2>3 DEF ReportInv
<1>6. CASE Work
  <2>1. UNCHANGED <<state, outcome, used, running>>
    BY <1>6, WorkEffect
  <2>2. ASSUME used.crashes = 0 PROVE OfThisDiagnosis'
    <3>1. OfThisDiagnosis
      BY <2>2 DEF ReportInv
    <3>2. CASE LateCommit
      <4>1. PICK d \in late : plan' = Stored(d) /\ late' = late \ {d}
        BY <3>2 DEF LateCommit
      <4> QED
        BY <2>1, <3>1, <4>1 DEF OfThisDiagnosis, Stored
    <3>3. CASE ~ LateCommit
      <4>1. plan' = plan /\ late' = late
        BY <1>6, <3>3
        DEF Work, AskAgain, StrayStarts, StrayEnds, ToolStarts, ToolReturns
      <4> QED
        BY <2>1, <3>1, <4>1 DEF OfThisDiagnosis
    <3> QED
      BY <3>2, <3>3
  <2> QED
    BY <1>1, <2>1, <2>2 DEF ReportInv
<1>7. CASE Over
  <2>1. UNCHANGED <<state, plan, used>> /\ ~ running'
    BY <1>7, OverEffect
  <2>2. late' = late \/ (state.next = "plan" /\ late' = late \cup {state.diagnosis})
    BY <1>7
    DEF Over, NodeFails, Cancelled, OutOfIterations, ModelFails, GiveUp, Return,
        RejectTurn, ToolRefused, ToolFails
  <2>3. outcome' = "awaiting_approval" => state.next = "approval"
    <3>1. CASE Return
      BY <3>1 DEF Return, Finish
    <3>2. CASE ~ Return
      BY <1>7, <3>2
      DEF Over, NodeFails, Cancelled, OutOfIterations, ModelFails, GiveUp, RejectTurn,
          ToolRefused, ToolFails, Finish
    <3> QED
      BY <3>1, <3>2
  <2>4. ASSUME used.crashes = 0 PROVE OfThisDiagnosis'
    BY <2>1, <2>2, <2>4 DEF ReportInv, OfThisDiagnosis
  <2> QED
    BY <1>1, <2>1, <2>3, <2>4 DEF ReportInv
<1> QED
  BY <1>2, <1>3, <1>4, <1>5, <1>6, <1>7, Steps

\* Unless the process died in between, the report the merchant reads with a plan is of the
\* diagnosis the plan was made from: also when a thread whose awaiter was cancelled stored it.
THEOREM ReportAlwaysMatchesPlan == Spec => []ReportMatchesPlan
<1>1. Init => ReportInv
  BY InitTypes DEF Init, ReportInv, OfThisDiagnosis, InitialState
<1>2. ReportInv => ReportMatchesPlan
  BY DEF ReportInv, OfThisDiagnosis, ReportMatchesPlan
<1> QED
  BY <1>1, <1>2, NextReport, PTL DEF Spec

-----------------------------------------------------------------------------
(***************************************************************************)
(* The conversation.  Where the model is asked every call is answered;     *)
(* while a turn is worked on it stands last, and its calls are those the   *)
(* tools node runs, or one submit_diagnosis, or none.                      *)
(***************************************************************************)

Answered(q, i) ==
  LET n == Len(q[i].calls)
  IN q[i].role = "assistant" =>
       /\ i + n <= Len(q)
       /\ \A j \in i + 1 .. i + n : q[j].role = "tool"
       /\ i + n < Len(q) => q[i + n + 1].role # "tool"

AllAnswered(q) == \A i \in DOMAIN q : Answered(q, i)

LastOpen(q) ==
  /\ q[Len(q)].role = "assistant"
  /\ \A i \in 1 .. Len(q) - 1 : Answered(q, i)

Conversation(s) ==
  /\ s.next \in {"scope", "metrics", "model"} => AllAnswered(s.messages)
  /\ s.next \in {"tools", "validate"} => LastOpen(s.messages)
  /\ s.next = "validate" => Last(s.messages).calls \in {<<>>, <<Submit>>}

OneCoroutineEach ==
  running /\ state.next = "tools" => DOMAIN tools = DOMAIN Last(state.messages).calls

TalkInv == TypeInv /\ Conversation(state) /\ Conversation(saved) /\ OneCoroutineEach

LEMMA CallsType ==
  ASSUME NEW q \in Seq(Message), NEW i \in DOMAIN q
  PROVE  /\ Len(q[i].calls) \in Nat /\ DOMAIN q[i].calls = 1 .. Len(q[i].calls)
         /\ Len(q) \in Nat /\ DOMAIN q = 1 .. Len(q)
<1>1. DOMAIN q = 1 .. Len(q) /\ Len(q) \in Nat
  BY LenProperties
<1>2. q[i].calls \in Seq(Calls \cup {Submit})
  <2>1. q[i] \in Message
    BY <1>1, ElementOfSeq
  <2> QED
    BY <2>1 DEF Message
<1> QED
  BY <1>1, <1>2, LenProperties

\* What was answered stays so when something that is no answer follows.
LEMMA StaysAnswered ==
  ASSUME NEW q \in Seq(Message), NEW m \in Message, m.role # "tool",
         NEW i \in DOMAIN q, Answered(q, i)
  PROVE  Answered(Append(q, m), i)
<1> DEFINE p == Append(q, m)
           n == Len(q[i].calls)
<1>1. /\ Len(p) = Len(q) + 1 /\ p[Len(q) + 1] = m
      /\ \A j \in 1 .. Len(q) : p[j] = q[j]
  BY AppendProperties
<1>2. n \in Nat /\ Len(q) \in Nat /\ DOMAIN q = 1 .. Len(q)
  BY CallsType
<1> HIDE DEF p
<1>3. p[i] = q[i]
  BY <1>1, <1>2
<1>4. ASSUME q[i].role = "assistant"
      PROVE  /\ i + n <= Len(p)
             /\ \A j \in i + 1 .. i + n : p[j].role = "tool"
             /\ i + n < Len(p) => p[i + n + 1].role # "tool"
  <2>1. /\ i + n <= Len(q) /\ \A j \in i + 1 .. i + n : q[j].role = "tool"
        /\ i + n < Len(q) => q[i + n + 1].role # "tool"
    BY <1>4 DEF Answered
  <2> HIDE DEF n
  <2> QED
    BY <1>1, <1>2, <2>1
<1> QED
  BY <1>3, <1>4 DEF Answered, p

\* A turn put at the end is open, another message leaves no call open.
LEMMA AnotherMessage ==
  ASSUME NEW q \in Seq(Message), NEW m \in Message, AllAnswered(q)
  PROVE  /\ m.role = "assistant" => LastOpen(Append(q, m))
         /\ m.role = "user" => AllAnswered(Append(q, m))
<1> DEFINE p == Append(q, m)
<1>1. p \in Seq(Message) /\ Len(p) = Len(q) + 1 /\ p[Len(q) + 1] = m
  BY AppendProperties
<1>2. Len(q) \in Nat /\ DOMAIN q = 1 .. Len(q) /\ DOMAIN p = 1 .. Len(p)
  BY <1>1, LenProperties
<1>3. m.role # "tool" => \A i \in 1 .. Len(q) : Answered(p, i)
  BY <1>2, StaysAnswered DEF AllAnswered
<1> HIDE DEF p
<1>4. m.role = "user" => Answered(p, Len(q) + 1)
  BY <1>1 DEF Answered
<1>5. \A i \in DOMAIN p : i \in 1 .. Len(q) \/ i = Len(q) + 1
  BY <1>1, <1>2
<1>6. m.role = "user" => AllAnswered(p)
  BY <1>3, <1>4, <1>5 DEF AllAnswered
<1>7. m.role = "assistant" => LastOpen(p)
  BY <1>1, <1>2, <1>3 DEF LastOpen
<1> QED
  BY <1>6, <1>7 DEF p

\* One answer for each call closes the last turn.
LEMMA ClosesTurn ==
  ASSUME NEW q \in Seq(Message), q # <<>>, LastOpen(q), NEW r \in Seq(Message),
         Len(r) = Len(Last(q).calls), \A i \in DOMAIN r : r[i].role = "tool"
  PROVE  (q \o r) \in Seq(Message) /\ AllAnswered(q \o r)
<1> DEFINE p == q \o r
           l == Len(q)
           k == Len(r)
<1>1. /\ p \in Seq(Message) /\ Len(p) = l + k
      /\ \A i \in 1 .. l + k : p[i] = IF i <= l THEN q[i] ELSE r[i - l]
  BY ConcatProperties
<1>2. /\ l \in Nat \ {0} /\ DOMAIN q = 1 .. l /\ k \in Nat /\ DOMAIN r = 1 .. k
      /\ DOMAIN p = 1 .. l + k
  BY <1>1, LenProperties, EmptySeq
<1> HIDE DEF p
<1>3. ASSUME NEW i \in 1 .. l - 1 PROVE Answered(p, i)
  <2> DEFINE n == Len(q[i].calls)
  <2>1. n \in Nat /\ p[i] = q[i] /\ Answered(q, i) /\ q[l].role = "assistant"
    <3>1. n \in Nat
      BY <1>2, CallsType
    <3> QED
      BY <1>1, <1>2, <3>1 DEF LastOpen
  <2>2. ASSUME q[i].role = "assistant"
        PROVE  /\ i + n < l /\ \A j \in i + 1 .. i + n : q[j].role = "tool"
               /\ q[i + n + 1].role # "tool"
    <3>1. /\ i + n <= l /\ \A j \in i + 1 .. i + n : q[j].role = "tool"
          /\ i + n < l => q[i + n + 1].role # "tool"
      BY <2>1, <2>2 DEF Answered
    <3> HIDE DEF n, l
    <3>2. i + n # l
      <4> SUFFICES ASSUME i + n = l PROVE FALSE
        OBVIOUS
      <4>1. l \in i + 1 .. i + n
        BY <1>2, <1>3, <2>1
      <4> QED
        BY <2>1, <3>1, <4>1
    <3> QED
      BY <1>2, <2>1, <3>1, <3>2
  <2> HIDE DEF n, l, k
  <2>3. ASSUME q[i].role = "assistant"
        PROVE  /\ i + n <= l + k /\ \A j \in i + 1 .. i + n : p[j].role = "tool"
               /\ p[i + n + 1].role # "tool"
    BY <1>1, <1>2, <2>1, <2>2, <2>3
  <2> QED
    BY <1>1, <2>1, <2>3 DEF Answered, n
<1>4. Answered(p, l)
  <2>1. Len(q[l].calls) = k /\ p[l] = q[l]
    BY <1>1, <1>2 DEF Last
  <2>2. \A j \in l + 1 .. l + k : p[j].role = "tool"
    <3> SUFFICES ASSUME NEW j \in l + 1 .. l + k PROVE p[j].role = "tool"
      OBVIOUS
    <3>1. j \in 1 .. l + k /\ ~ (j <= l) /\ j - l \in DOMAIN r
      BY <1>2
    <3> QED
      BY <1>1, <3>1
  <2>3. Len(p[l].calls) = k
    BY <2>1, Zenon
  <2>4. l + k <= Len(p) /\ ~ (l + k < Len(p))
    BY <1>1, <1>2
  <2> HIDE DEF l, k
  <2> QED
    BY <2>2, <2>3, <2>4, Zenon DEF Answered
<1>5. ASSUME NEW i \in l + 1 .. l + k PROVE Answered(p, i)
  <2>1. i \in 1 .. l + k /\ ~ (i <= l) /\ i - l \in DOMAIN r
    BY <1>2
  <2>2. p[i].role = "tool"
    BY <1>1, <2>1
  <2> QED
    BY <2>2 DEF Answered
<1>6. \A i \in DOMAIN p : i \in 1 .. l - 1 \/ i = l \/ i \in l + 1 .. l + k
  <2> HIDE DEF l, k
  <2> QED
    BY <1>2
<1> QED
  BY <1>1, <1>3, <1>4, <1>5, <1>6 DEF AllAnswered, p

LEMMA MoveConversation ==
  ASSUME TalkInv, Move
  PROVE  Conversation(state')
<1> DEFINE q == state.messages
<1>1. /\ Typed(state) /\ TypeOK /\ Conversation(state) /\ OneCoroutineEach
      /\ q \in Seq(Message) /\ q # <<>> /\ Len(q) \in Nat \ {0}
      /\ DOMAIN q = 1 .. Len(q)
  BY Fields DEF TalkInv, TypeInv, Typed
<1>2. CASE Scope \/ Validated \/ Plan
  <2>1. /\ state'.messages = q
        /\ \/ state.next = "scope" /\ state'.next = "metrics"
           \/ state'.next \in {"plan", "approval", "end"}
    BY <1>1, <1>2 DEF Scope, Validated, Plan, Proceed, At, Typed, AgentState
  <2> HIDE DEF q
  <2> QED
    BY <1>1, <2>1 DEF Conversation, q
<1>3. CASE Metrics
  <2>1. /\ state'.messages = Append(q, UserMessage) /\ state'.next = "model"
        /\ state.next = "metrics"
    BY <1>1, <1>3 DEF Metrics, Proceed, At, Typed, AgentState
  <2>2. AllAnswered(Append(q, UserMessage))
    <3>1. AllAnswered(q) /\ UserMessage.role = "user" /\ UserMessage \in Message
      BY <1>1, <2>1, MessageTypes DEF Conversation, UserMessage
    <3> QED
      BY <1>1, <3>1, AnotherMessage
  <2> QED
    BY <2>1, <2>2 DEF Conversation
<1>4. ASSUME NEW turn \in Turns, AcceptTurn(turn) PROVE Conversation(state')
  <2> DEFINE c == IF turn.submits # <<>> THEN <<Submit>> ELSE turn.calls
             m == AssistantMessage(c)
  <2>1. /\ state'.messages = Append(q, m) /\ state.next = "model"
        /\ state'.next \in {"tools", "validate"}
        /\ state'.next = "validate" => turn.calls = <<>>
    BY <1>1, <1>4 DEF AcceptTurn, MayAsk, At, Typed, AgentState
  <2>2. m \in Message
    BY TurnTypes, MessageTypes DEF Turn
  <2>3. m.role = "assistant" /\ m.calls = c
    BY DEF AssistantMessage
  <2>4. state'.next = "validate" => c \in {<<>>, <<Submit>>}
    BY <2>1
  <2> HIDE DEF c, m
  <2>5. LastOpen(Append(q, m))
    BY <1>1, <2>1, <2>2, <2>3, AnotherMessage DEF Conversation
  <2>6. Last(Append(q, m)) = m
    BY <1>1, <2>2, AppendProperties DEF Last
  <2> QED
    BY <2>1, <2>3, <2>4, <2>5, <2>6 DEF Conversation
<1>5. CASE ToolsDone
  <2>1. /\ state'.messages = q \o Results /\ state'.next = "model"
        /\ state.next = "tools" /\ running
    BY <1>1, <1>5 DEF ToolsDone, Proceed, At, Typed, AgentState, Results
  <2>2. /\ Results \in Seq(Message) /\ Len(Results) = Len(tools)
        /\ \A i \in DOMAIN Results : Results[i].role = "tool"
    BY <1>1, ResultsType DEF TypeOK, ToolCall, ToolMessage
  <2>3. Len(tools) = Len(Last(q).calls)
    <3>1. DOMAIN tools = DOMAIN Last(q).calls
      BY <1>1, <2>1 DEF OneCoroutineEach
    <3>2. DOMAIN tools = 1 .. Len(tools) /\ Len(tools) \in Nat
      BY <1>1, LenProperties DEF TypeOK
    <3>3. /\ DOMAIN Last(q).calls = 1 .. Len(Last(q).calls)
          /\ Len(Last(q).calls) \in Nat
      BY <1>1, CallsType DEF Last
    <3>4. \A a, b \in Nat : 1 .. a = 1 .. b => a = b
      <4> SUFFICES ASSUME NEW a \in Nat, NEW b \in Nat, 1 .. a = 1 .. b PROVE a = b
        OBVIOUS
      <4>1. \A i \in Int : i \in 1 .. a <=> i \in 1 .. b
        OBVIOUS
      <4> QED
        BY <4>1
    <3> QED
      BY <3>1, <3>2, <3>3, <3>4, Zenon
  <2>4. AllAnswered(q \o Results)
    BY <1>1, <2>1, <2>2, <2>3, ClosesTurn DEF Conversation
  <2> QED
    BY <2>1, <2>4 DEF Conversation
<1>6. CASE Reflect
  <2> DEFINE r == Answer(state)
             p == q \o r
  <2>1. /\ state'.messages = Append(p, UserMessage) /\ state'.next = "model"
        /\ state.next = "validate"
    BY <1>1, <1>6, CorrectionType DEF Reflect, Proceed, At, Typed, AgentState
  <2>2. /\ r \in Seq(Message) /\ \A i \in DOMAIN r : r[i].role = "tool"
        /\ Len(r) = IF Submit \in Range(Last(q).calls) THEN 1 ELSE 0
    BY <1>1, CorrectionType DEF Answer, ToolMessage
  <2>3. Len(r) = Len(Last(q).calls)
    <3>1. Last(q).calls \in {<<>>, <<Submit>>}
      BY <1>1, <2>1 DEF Conversation
    <3>2. /\ Range(<<>>) = {} /\ Len(<<>>) = 0
          /\ Range(<<Submit>>) = {Submit} /\ Len(<<Submit>>) = 1
      BY DEF Range
    <3> QED
      BY <2>2, <3>1, <3>2
  <2>4. p \in Seq(Message) /\ AllAnswered(p)
    BY <1>1, <2>1, <2>2, <2>3, ClosesTurn DEF Conversation
  <2>5. UserMessage \in Message /\ UserMessage.role = "user"
    BY MessageTypes DEF UserMessage
  <2> HIDE DEF p
  <2>6. AllAnswered(Append(p, UserMessage))
    BY <2>4, <2>5, AnotherMessage
  <2> QED
    BY <2>1, <2>6 DEF Conversation
<1> QED
  BY <1>2, <1>3, <1>4, <1>5, <1>6 DEF Move

LEMMA GatherDomain ==
  ASSUME NEW s, s.next = "tools"
  PROVE  DOMAIN Gather(s) = DOMAIN Last(s.messages).calls
  BY DEF Gather

LEMMA NextTalk == TalkInv /\ [Next]_vars => TalkInv'
<1> SUFFICES ASSUME TalkInv, [Next]_vars PROVE TalkInv'
  OBVIOUS
<1>1. TypeInv'
  BY NextTypes DEF TalkInv
<1>2. Conversation(state') /\ Conversation(saved')
  BY SavedEffect, MoveConversation DEF TalkInv
<1>3. OneCoroutineEach'
  <2>1. CASE Start
    BY <2>1, GatherDomain DEF Start, OneCoroutineEach
  <2>2. CASE Move
    BY <2>2, MoveEffect, GatherDomain DEF OneCoroutineEach
  <2>3. CASE Work
    <3>1. UNCHANGED <<state, running>>
      BY <2>3, WorkEffect
    <3>2. DOMAIN tools' = DOMAIN tools
      BY <2>3
      DEF Work, AskAgain, StrayStarts, StrayEnds, LateCommit, ToolStarts, ToolReturns
    <3> QED
      BY <3>1, <3>2 DEF TalkInv, OneCoroutineEach
  <2>4. CASE Over
    BY <2>4, OverEffect DEF OneCoroutineEach
  <2>5. CASE Crash
    BY <2>5 DEF Crash, OneCoroutineEach
  <2>6. CASE Persist \/ UNCHANGED vars
    BY <2>6 DEF Persist, vars, TalkInv, OneCoroutineEach
  <2> QED
    BY <2>1, <2>2, <2>3, <2>4, <2>5, <2>6, Steps
<1> QED
  BY <1>1, <1>2, <1>3 DEF TalkInv

\* Whenever the model is asked, every call of every assistant message is answered by a tool
\* message of its own before anything else is said, through retries, crashes and corrections.
THEOREM ConversationAlwaysAnswered == Spec => []ConversationAnswered
<1>1. Init => TalkInv
  <2> SUFFICES ASSUME Init PROVE TalkInv
    OBVIOUS
  <2>1. AllAnswered(<<UserMessage>>)
    BY DEF AllAnswered, Answered, UserMessage
  <2>2. Conversation(InitialState) /\ InitialState.next = "scope"
    BY <2>1 DEF Conversation, InitialState
  <2> QED
    BY <2>2, InitTypes DEF TalkInv, Init, OneCoroutineEach
<1>2. TalkInv => ConversationAnswered
  <2> SUFFICES ASSUME TalkInv, At("model") PROVE AllAnswered(state.messages)
    <3>1. AllAnswered(state.messages) /\ TalkInv => ConversationAnswered
      BY DEF AllAnswered, Answered, ConversationAnswered
    <3> QED
      BY <3>1 DEF ConversationAnswered
  <2> QED
    BY DEF TalkInv, Conversation, At
<1> QED
  BY <1>1, <1>2, NextTalk, PTL DEF Spec
-----------------------------------------------------------------------------
(***************************************************************************)
(* Repetition.  The channels only hold the last turn's calls and how often *)
(* they were asked for; they vouch for the conversation because a streak   *)
(* of equal turns that reaches its end is one of those calls, and no       *)
(* longer than counted.  A checkpoint has both or neither, so a crash      *)
(* takes the count back with the turns.                                    *)
(***************************************************************************)

ReadCalls(c) == c \notin {<<>>, <<Submit>>}

\* The turns from i to the end ask for c.
Streak(q, i, c) == \A k \in TurnsIn(q, i, Len(q)) : q[k].calls = c

TurnsCounted(s) ==
  \A i \in 1 .. Len(s.messages) : \A c :
    ReadCalls(c) /\ Streak(s.messages, i, c) =>
      \/ TurnsIn(s.messages, i, Len(s.messages)) = {}
      \/ /\ c = s.signature
         /\ Cardinality(TurnsIn(s.messages, i, Len(s.messages))) <= s.repeated

NeverStuck(q) ==
  \A i, j \in DOMAIN q :
    Cardinality(TurnsIn(q, i, j)) >= MaxRepeatedSteps => ~ Stuck(q, TurnsIn(q, i, j))

Vouched(s) == TurnsCounted(s) /\ NeverStuck(s.messages) /\ s.repeated < MaxRepeatedSteps

RepetitionInv == TypeInv /\ Vouched(state) /\ Vouched(saved)

LEMMA TurnsFinite ==
  ASSUME NEW q, NEW i \in Nat, NEW j \in Nat
  PROVE  IsFiniteSet(TurnsIn(q, i, j)) /\ Cardinality(TurnsIn(q, i, j)) \in Nat
<1>1. IsFiniteSet(i .. j) /\ TurnsIn(q, i, j) \subseteq i .. j
  BY FS_Interval DEF TurnsIn
<1> QED
  BY <1>1, FS_Subset, FS_CardinalityType

\* p continues q, and the turns of p are those of q.
Quietly(q, p) ==
  /\ Len(q) <= Len(p)
  /\ \A k \in 1 .. Len(q) : p[k] = q[k]
  /\ \A k \in Len(q) + 1 .. Len(p) : p[k].role # "assistant"

\* What is no turn changes neither the streaks nor how long they are.
LEMMA QuietTurns ==
  ASSUME NEW q \in Seq(Message), NEW p \in Seq(Message), Quietly(q, p),
         NEW i \in DOMAIN p, NEW j \in DOMAIN p
  PROVE  \/ TurnsIn(p, i, j) = {}
         \/ /\ i \in DOMAIN q
            /\ \E h \in DOMAIN q : TurnsIn(p, i, j) = TurnsIn(q, i, h)
            /\ j = Len(p) => TurnsIn(p, i, j) = TurnsIn(q, i, Len(q))
<1>1. /\ DOMAIN q = 1 .. Len(q) /\ Len(q) \in Nat
      /\ DOMAIN p = 1 .. Len(p) /\ Len(p) \in Nat
  BY LenProperties
<1>2. CASE i > Len(q)
  <2>1. \A k \in i .. j : k \in Len(q) + 1 .. Len(p)
    BY <1>1, <1>2
  <2> QED
    BY <2>1 DEF Quietly, TurnsIn
<1>3. CASE i <= Len(q)
  <2> DEFINE h == IF j <= Len(q) THEN j ELSE Len(q)
  <2>1. h \in DOMAIN q /\ i \in DOMAIN q
    BY <1>1, <1>3
  <2>2. \A k \in i .. h : k \in i .. j /\ k \in 1 .. Len(q)
    BY <1>1, <1>3
  <2>3. \A k \in i .. j : k \in i .. h \/ k \in Len(q) + 1 .. Len(p)
    BY <1>1, <1>3
  <2>4. j = Len(p) => h = Len(q)
    <3>1. Len(q) \in Nat /\ Len(p) \in Nat /\ Len(q) <= Len(p)
      BY <1>1, Zenon DEF Quietly
    <3>2. \A a, b \in Nat : a <= b /\ b <= a => a = b
      OBVIOUS
    <3> QED
      BY <3>1, <3>2, Zenon
  <2> HIDE DEF h
  <2>5. TurnsIn(p, i, j) = TurnsIn(q, i, h)
    BY <2>2, <2>3 DEF Quietly, TurnsIn
  <2> QED
    BY <2>1, <2>4, <2>5
<1> QED
  BY <1>1, <1>2, <1>3

LEMMA QuietVouched ==
  ASSUME NEW s, Typed(s), Vouched(s), NEW t, Typed(t), Quietly(s.messages, t.messages),
         t.signature = s.signature, t.repeated = s.repeated
  PROVE  Vouched(t)
<1> DEFINE q == s.messages
           p == t.messages
<1>1. /\ q \in Seq(Message) /\ DOMAIN q = 1 .. Len(q) /\ Len(q) \in Nat
      /\ p \in Seq(Message) /\ DOMAIN p = 1 .. Len(p) /\ Len(p) \in Nat
      /\ q # <<>> /\ p # <<>> /\ Len(p) \in DOMAIN p
  BY Fields DEF Typed
<1>2. \A h, i \in DOMAIN q : \A k \in TurnsIn(q, i, h) : p[k] = q[k]
  BY <1>1 DEF Quietly, TurnsIn
<1>3. Cardinality({}) = 0
  BY FS_EmptySet
<1> HIDE DEF q, p
<1>4. ASSUME NEW i \in DOMAIN p, NEW j \in DOMAIN p,
             Cardinality(TurnsIn(p, i, j)) >= MaxRepeatedSteps
      PROVE  ~ Stuck(p, TurnsIn(p, i, j))
  <2>1. TurnsIn(p, i, j) # {}
    BY <1>3, <1>4, LimitsAssumption
  <2>2. PICK h \in DOMAIN q : i \in DOMAIN q /\ TurnsIn(p, i, j) = TurnsIn(q, i, h)
    <3>1. q \in Seq(Message) /\ p \in Seq(Message) /\ Quietly(q, p)
      BY <1>1 DEF p, q
    <3> QED
      BY <2>1, <3>1, QuietTurns
  <2>3. ~ Stuck(q, TurnsIn(q, i, h))
    BY <1>4, <2>2 DEF Vouched, NeverStuck, q
  <2> QED
    BY <1>2, <2>2, <2>3 DEF Stuck
<1>5. ASSUME NEW i \in DOMAIN p, NEW c, ReadCalls(c), Streak(p, i, c),
             TurnsIn(p, i, Len(p)) # {}
      PROVE  c = t.signature /\ Cardinality(TurnsIn(p, i, Len(p))) <= t.repeated
  <2>1. i \in DOMAIN q /\ TurnsIn(p, i, Len(p)) = TurnsIn(q, i, Len(q))
    <3>1. /\ q \in Seq(Message) /\ p \in Seq(Message) /\ Quietly(q, p) /\ i \in DOMAIN p
          /\ Len(p) \in DOMAIN p
      BY <1>1, <1>5 DEF p, q
    <3>2. \/ TurnsIn(p, i, Len(p)) = {}
          \/ /\ i \in DOMAIN q
             /\ TurnsIn(p, i, Len(p)) = TurnsIn(q, i, Len(q))
      BY <3>1, QuietTurns
    <3> QED
      BY <1>5, <3>2, Zenon
  <2>2. Len(q) \in DOMAIN q
    BY <1>1, <2>1
  <2>3. Streak(q, i, c)
    BY <1>2, <1>5, <2>1, <2>2 DEF Streak
  <2> QED
    BY <1>1, <1>5, <2>1, <2>3 DEF Vouched, TurnsCounted, q
<1> QED
  BY <1>1, <1>4, <1>5 DEF Vouched, TurnsCounted, NeverStuck, p

\* A turn that was taken: the streak it continues or begins is counted.
LEMMA TurnVouched ==
  ASSUME TypeInv, Vouched(state), NEW turn \in Turns, AcceptTurn(turn), Typed(state')
  PROVE  Vouched(state')
<1> DEFINE q == state.messages
           p == state'.messages
           n == Len(q) + 1
           c == IF turn.submits # <<>> THEN <<Submit>> ELSE turn.calls
<1>1. /\ q \in Seq(Message) /\ DOMAIN q = 1 .. Len(q) /\ Len(q) \in Nat /\ q # <<>>
      /\ Len(q) \in DOMAIN q
  BY Fields DEF TypeInv, Typed
<1>2. /\ p = Append(q, AssistantMessage(c))
      /\ state'.repeated = Repetition(turn) /\ state'.signature = turn.calls
      /\ ~ LoopDetected(turn)
  BY DEF AcceptTurn, TypeInv, Typed, AgentState
<1>3. AssistantMessage(c) \in Message
  BY TurnTypes, MessageTypes DEF Turn
<1>4. /\ p \in Seq(Message) /\ Len(p) = n /\ DOMAIN p = 1 .. n
      /\ p[n] = AssistantMessage(c) /\ \A k \in 1 .. Len(q) : p[k] = q[k]
  BY <1>1, <1>2, <1>3, AppendProperties, LenProperties
<1>5. p[n].role = "assistant" /\ p[n].calls = c
  BY <1>4 DEF AssistantMessage
<1>6. Repetition(turn) \in Nat /\ Repetition(turn) < MaxRepeatedSteps
  <2>1. state.repeated \in Nat
    BY Fields DEF TypeInv, Typed
  <2>2. Repetition(turn) \in Nat
    BY <2>1 DEF Repetition
  <2>3. ~ (Repetition(turn) >= MaxRepeatedSteps)
    BY <1>2 DEF LoopDetected
  <2> QED
    BY <2>2, <2>3, LimitsAssumption
<1>7. ReadCalls(c) => c = turn.calls /\ turn.calls # <<>>
  BY DEF ReadCalls
<1> HIDE DEF p, c, q
<1>8. ASSUME NEW i \in DOMAIN q, NEW j \in DOMAIN q
      PROVE  TurnsIn(p, i, j) = TurnsIn(q, i, j) /\ \A k \in TurnsIn(p, i, j) : p[k] = q[k]
  BY <1>1, <1>4 DEF TurnsIn
<1>9. ASSUME NEW i \in DOMAIN q
      PROVE  TurnsIn(p, i, n) = TurnsIn(q, i, Len(q)) \cup {n}
  <2>1. \A k \in i .. n : k \in i .. Len(q) \/ k = n
    BY <1>1
  <2>2. \A k \in i .. Len(q) : k \in i .. n /\ k \in 1 .. Len(q)
    BY <1>1
  <2>3. n \in i .. n
    BY <1>1
  <2> HIDE DEF n
  <2> QED
    BY <1>4, <1>5, <2>1, <2>2, <2>3 DEF TurnsIn
<1>10. TurnsIn(p, n, n) = {n}
  BY <1>1, <1>5 DEF TurnsIn
<1>11. ASSUME NEW i \in DOMAIN p, NEW b, ReadCalls(b), Streak(p, i, b)
       PROVE  /\ b = turn.calls
              /\ Cardinality(TurnsIn(p, i, n)) <= Repetition(turn)
  <2>1. n \in TurnsIn(p, i, n)
    <3>1. i = n \/ i \in DOMAIN q
      BY <1>1, <1>4
    <3> QED
      BY <3>1, <1>9, <1>10
  <2>2. c = b /\ b = turn.calls /\ turn.calls # <<>>
    BY <1>4, <1>5, <1>7, <1>11, <2>1 DEF Streak
  <2>3. CASE i = n
    <3>1. Cardinality(TurnsIn(p, i, n)) = 1
      BY <1>10, <2>3, FS_Singleton
    <3>2. Repetition(turn) >= 1
      BY <2>2, Fields DEF Repetition, TypeInv, Typed
    <3> QED
      BY <2>2, <3>1, <3>2
  <2>4. CASE i \in DOMAIN q
    <3> DEFINE T == TurnsIn(q, i, Len(q))
    <3>1. TurnsIn(p, i, n) = T \cup {n} /\ n \notin T
      <4>1. n \notin i .. Len(q)
        BY <1>1, <2>4
      <4> QED
        BY <1>9, <2>4, <4>1 DEF TurnsIn
    <3>2. IsFiniteSet(T) /\ Cardinality(T) \in Nat
      BY <1>1, <2>4, TurnsFinite
    <3>3. Cardinality(TurnsIn(p, i, n)) = Cardinality(T) + 1
      BY <3>1, <3>2, FS_AddElement
    <3>4. Streak(q, i, b)
      <4>1. \A k \in T : p[k].calls = b /\ k \in 1 .. Len(q)
        BY <1>1, <1>4, <1>11, <2>4, <3>1 DEF Streak, TurnsIn
      <4> QED
        BY <1>4, <4>1 DEF Streak
    <3>5. T = {} \/ (b = state.signature /\ Cardinality(T) <= state.repeated)
      BY <1>1, <1>11, <2>4, <3>4 DEF Vouched, TurnsCounted, q
    <3>6. T = {} => Cardinality(T) = 0
      BY FS_EmptySet
    <3>7. state.repeated \in Nat
      BY Fields DEF TypeInv, Typed
    <3> HIDE DEF T
    <3>8. Cardinality(T) + 1 <= Repetition(turn)
      BY <2>2, <3>2, <3>5, <3>6, <3>7 DEF Repetition
    <3> QED
      BY <2>2, <3>3, <3>8
  <2> QED
    BY <1>1, <1>4, <2>3, <2>4
<1>12. ASSUME NEW i \in DOMAIN p, NEW j \in DOMAIN p,
              Cardinality(TurnsIn(p, i, j)) >= MaxRepeatedSteps,
              Stuck(p, TurnsIn(p, i, j))
       PROVE  FALSE
  <2>1. CASE j = n
    <3>1. n \in TurnsIn(p, i, n)
      <4>1. i = n \/ i \in DOMAIN q
        BY <1>1, <1>4
      <4> QED
        BY <4>1, <1>9, <1>10
    <3>2. ReadCalls(c) /\ Streak(p, i, c)
      BY <1>4, <1>5, <1>12, <2>1, <3>1 DEF Stuck, ReadCalls, Streak
    <3>3. Cardinality(TurnsIn(p, i, n)) <= Repetition(turn)
      BY <1>11, <3>2
    <3>4. Cardinality(TurnsIn(p, i, n)) \in Nat
      BY <1>1, <1>4, TurnsFinite
    <3> QED
      BY <1>6, <1>12, <2>1, <3>3, <3>4, LimitsAssumption
  <2>2. CASE j \in DOMAIN q /\ i \in DOMAIN q
    <3>1. /\ TurnsIn(p, i, j) = TurnsIn(q, i, j)
          /\ \A k \in TurnsIn(q, i, j) : p[k] = q[k]
      BY <1>8, <2>2
    <3>2. ~ Stuck(q, TurnsIn(q, i, j))
      BY <1>12, <2>2, <3>1 DEF Vouched, NeverStuck, q
    <3> QED
      BY <1>12, <3>1, <3>2 DEF Stuck
  <2>3. CASE j \in DOMAIN q /\ i = n
    <3>1. i .. j = {}
      BY <1>1, <2>3
    <3>2. Cardinality(TurnsIn(p, i, j)) = 0
      BY <3>1, FS_EmptySet DEF TurnsIn
    <3> QED
      BY <1>12, <3>2, LimitsAssumption
  <2> QED
    BY <1>1, <1>4, <2>1, <2>2, <2>3
<1> QED
  BY <1>2, <1>4, <1>6, <1>11, <1>12 DEF Vouched, TurnsCounted, NeverStuck, p

LEMMA MoveVouched ==
  ASSUME TypeInv, Vouched(state), Move
  PROVE  Vouched(state')
<1> DEFINE q == state.messages
<1>1. /\ Typed(state) /\ Typed(state') /\ TypeOK
      /\ q \in Seq(Message) /\ Len(q) \in Nat
  BY MoveTypes, Fields DEF TypeInv, Typed
<1>2. \A m \in Message : m.role # "assistant" => Quietly(q, Append(q, m))
  <2> SUFFICES ASSUME NEW m \in Message, m.role # "assistant"
               PROVE  Quietly(q, Append(q, m))
    OBVIOUS
  <2>1. /\ Len(Append(q, m)) = Len(q) + 1 /\ Append(q, m)[Len(q) + 1] = m
        /\ \A k \in 1 .. Len(q) : Append(q, m)[k] = q[k]
    BY <1>1, AppendProperties
  <2>2. \A k \in Len(q) + 1 .. Len(q) + 1 : k = Len(q) + 1
    BY <1>1
  <2> QED
    BY <1>1, <2>1, <2>2 DEF Quietly
<1>3. \A r \in Seq(Message) : (\A k \in DOMAIN r : r[k].role # "assistant") => Quietly(q, q \o r)
  <2> SUFFICES ASSUME NEW r \in Seq(Message), \A k \in DOMAIN r : r[k].role # "assistant"
               PROVE  Quietly(q, q \o r)
    OBVIOUS
  <2>1. /\ Len(q \o r) = Len(q) + Len(r)
        /\ \A k \in 1 .. Len(q) + Len(r) :
             (q \o r)[k] = IF k <= Len(q) THEN q[k] ELSE r[k - Len(q)]
    BY <1>1, ConcatProperties
  <2>2. Len(r) \in Nat /\ DOMAIN r = 1 .. Len(r)
    BY LenProperties
  <2>3. /\ \A k \in 1 .. Len(q) : k \in 1 .. Len(q) + Len(r) /\ k <= Len(q)
        /\ Len(q) <= Len(q) + Len(r)
    BY <1>1, <2>2
  <2>4. \A k \in Len(q) + 1 .. Len(q) + Len(r) :
          k \in 1 .. Len(q) + Len(r) /\ ~ (k <= Len(q)) /\ k - Len(q) \in DOMAIN r
    BY <1>1, <2>2
  <2>5. \A k \in 1 .. Len(q) : (q \o r)[k] = q[k]
    BY <2>1, <2>3
  <2>6. \A k \in Len(q) + 1 .. Len(q) + Len(r) : (q \o r)[k].role # "assistant"
    BY <2>1, <2>4
  <2> QED
    BY <2>1, <2>3, <2>5, <2>6, Zenon DEF Quietly
<1> HIDE DEF q
<1>4. CASE Scope \/ Validated \/ Plan
  <2>1. /\ state'.messages = q /\ state'.signature = state.signature
        /\ state'.repeated = state.repeated
    BY <1>1, <1>4 DEF Scope, Validated, Plan, Proceed, Typed, AgentState, q
  <2>2. Quietly(q, q)
    BY <1>1 DEF Quietly
  <2> QED
    BY <1>1, <2>1, <2>2, QuietVouched DEF q
<1>5. CASE Metrics
  <2>1. /\ state'.messages = Append(q, UserMessage) /\ state'.signature = state.signature
        /\ state'.repeated = state.repeated
    BY <1>1, <1>5 DEF Metrics, Proceed, Typed, AgentState, q
  <2>2. Quietly(q, Append(q, UserMessage))
    BY <1>2, MessageTypes DEF UserMessage
  <2> QED
    BY <1>1, <2>1, <2>2, QuietVouched DEF q
<1>6. CASE ToolsDone
  <2>1. /\ state'.messages = q \o Results /\ state'.signature = state.signature
        /\ state'.repeated = state.repeated
    BY <1>1, <1>6 DEF ToolsDone, Proceed, Typed, AgentState, Results, q
  <2>2. /\ Results \in Seq(Message) /\ \A k \in DOMAIN Results : Results[k].role # "assistant"
    BY <1>1, ResultsType DEF TypeOK, ToolCall, ToolMessage
  <2> QED
    BY <1>1, <1>3, <2>1, <2>2, QuietVouched DEF q
<1>7. CASE Reflect
  <2> DEFINE r == Answer(state)
             p == q \o r
  <2>1. /\ state'.messages = Append(p, UserMessage)
        /\ state'.signature = state.signature /\ state'.repeated = state.repeated
        /\ p \in Seq(Message) /\ r \in Seq(Message)
    BY <1>1, <1>7, CorrectionType DEF Reflect, Proceed, Typed, AgentState, q
  <2>2. \A k \in DOMAIN r : r[k].role # "assistant"
    BY DEF Answer, ToolMessage
  <2>3. Quietly(q, p)
    BY <1>3, <2>1, <2>2
  <2>4. UserMessage \in Message /\ UserMessage.role # "assistant"
    BY MessageTypes DEF UserMessage
  <2> HIDE DEF p, r
  <2>5. /\ Len(p) \in Nat /\ Len(Append(p, UserMessage)) = Len(p) + 1
        /\ Append(p, UserMessage)[Len(p) + 1] = UserMessage
        /\ \A k \in 1 .. Len(p) : Append(p, UserMessage)[k] = p[k]
    BY <2>1, <2>4, AppendProperties, LenProperties
  <2>6. /\ \A k \in 1 .. Len(q) : k \in 1 .. Len(p)
        /\ \A k \in Len(q) + 1 .. Len(p) + 1 : k = Len(p) + 1 \/ k \in Len(q) + 1 .. Len(p)
        /\ \A k \in Len(q) + 1 .. Len(p) : k \in 1 .. Len(p)
    BY <1>1, <2>3, <2>5 DEF Quietly
  <2>7. Len(q) <= Len(p) + 1
    BY <1>1, <2>3, <2>5 DEF Quietly
  <2>8. Quietly(q, Append(p, UserMessage))
    BY <2>3, <2>4, <2>5, <2>6, <2>7 DEF Quietly
  <2> QED
    BY <1>1, <2>1, <2>8, QuietVouched DEF q
<1>8. CASE \E turn \in Turns : AcceptTurn(turn)
  BY <1>1, <1>8, TurnVouched
<1> QED
  BY <1>4, <1>5, <1>6, <1>7, <1>8 DEF Move

\* No conversation has max_repeated_steps turns in a row that ask for the same calls, however
\* the turns are spread over runs, crashes and corrections.
THEOREM NeverStuckInRepetition == Spec => []NoStuckRepetition
<1>1. Init => RepetitionInv
  <2> SUFFICES ASSUME Init PROVE RepetitionInv
    OBVIOUS
  <2> DEFINE q == <<UserMessage>>
  <2>1. InitialState.messages = q /\ InitialState.repeated = 0
    BY DEF InitialState
  <2>2. Len(q) = 1 /\ DOMAIN q = 1 .. 1 /\ q[1].role # "assistant"
    BY DEF UserMessage
  <2>3. \A i, j \in 1 .. 1 : TurnsIn(q, i, j) = {}
    BY <2>2 DEF TurnsIn
  <2>4. Cardinality({}) = 0
    BY FS_EmptySet
  <2> HIDE DEF q
  <2>5. Vouched(InitialState)
    BY <2>1, <2>2, <2>3, <2>4, LimitsAssumption DEF Vouched, TurnsCounted, NeverStuck
  <2> QED
    BY <2>5, InitTypes DEF Init, RepetitionInv
<1>2. RepetitionInv /\ [Next]_vars => RepetitionInv'
  <2> SUFFICES ASSUME RepetitionInv, [Next]_vars PROVE RepetitionInv'
    OBVIOUS
  <2>1. Vouched(state') /\ Vouched(saved')
    BY SavedEffect, MoveVouched DEF RepetitionInv
  <2> QED
    BY <2>1, NextTypes DEF RepetitionInv
<1>3. RepetitionInv => NoStuckRepetition
  BY DEF RepetitionInv, Vouched, NeverStuck, NoStuckRepetition
<1> QED
  BY <1>1, <1>2, <1>3, PTL DEF Spec
=============================================================================
