------------------------- MODULE TaskCreationProofs -------------------------
(***************************************************************************)
(* TaskCreation's type invariant and KeyHonest, for any requests and TTL.  *)
(* KeyHonest is inductive once two facts are beside it: there is a name    *)
(* only while its TTL runs (NameLives), and a request that is about to     *)
(* delete the name has seen a record vanish, so the name has expired       *)
(* (DeleteAfterExpiry); with GetSeesKey for the command before.            *)
(***************************************************************************)
EXTENDS TaskCreation, TLAPS

NameLives == key = NoTask <=> keyTtl = 0

\* Until the name expires a request that found one holds the name.
GetSeesKey ==
  ~ expired => \A r \in Requests : pc[r] = "get" => key # NoTask /\ seen[r] = key

DeleteAfterExpiry == \A r \in Requests : pc[r] = "delete" => expired

IInv == TypeOK /\ NameLives /\ GetSeesKey /\ DeleteAfterExpiry /\ KeyHonest

LEMMA InitInv == Init => IInv
<1> SUFFICES ASSUME Init PROVE IInv
  OBVIOUS
<1> USE CreationAssumption DEF Init
<1>1. TypeOK
  <2>1. 0 \in 0 .. TaskTtl
    BY SMT
  <2> QED
    BY <2>1, Zenon DEF TypeOK
<1>2. \A r \in Requests : pc[r] = "script" /\ answer[r] = NoTask
  BY Zenon
<1> QED
  BY <1>1, <1>2, SMT DEF IInv, NameLives, GetSeesKey, DeleteAfterExpiry, KeyHonest

\* IInv is kept by every step.
LEMMA NextInv == IInv /\ [Next]_vars => IInv'
<1> SUFFICES ASSUME IInv, [Next]_vars PROVE IInv'
  OBVIOUS
<1> USE CreationAssumption
        DEF IInv, TypeOK, NameLives, GetSeesKey, DeleteAfterExpiry, KeyHonest
<1>1. ASSUME NEW r \in Requests, Create(r) PROVE IInv'
  BY <1>1, SMT DEF Create, Answer
<1>2. ASSUME NEW r \in Requests, Find(r) PROVE IInv'
  BY <1>2, SMT DEF Find
<1>3. ASSUME NEW r \in Requests, Get(r) PROVE IInv'
  BY <1>3, SMT DEF Get, Answer, Live
<1>4. ASSUME NEW r \in Requests, Delete(r) PROVE IInv'
  BY <1>4, SMT DEF Delete
<1>5. ASSUME NEW t \in Requests, Save(t) PROVE IInv'
  BY <1>5, SMT DEF Save, Live
<1>6. CASE Tick
  <2>1. /\ keyTtl' \in 0 .. TaskTtl /\ keyTtl' <= keyTtl
        /\ ttl' \in [Requests -> 0 .. TaskTtl]
        /\ \A t \in Requests : ttl'[t] = IF ttl[t] = 0 THEN 0 ELSE ttl[t] - 1
    BY <1>6, SMT DEF Tick
  <2>2. key' \in {key, NoTask} /\ (key' = NoTask <=> keyTtl' = 0)
    BY <1>6, SMT DEF Tick
  <2>3. key' # NoTask => key' = key /\ keyTtl' <= ttl'[key']
    BY <1>6, <2>1, <2>2, SMT DEF Tick
  <2>4. ~ expired' => ~ expired /\ key' = key
    <3>1. ~ expired' => ~ expired /\ ~ (key # NoTask /\ keyTtl' = 0)
      BY <1>6, Zenon DEF Tick
    <3> QED
      BY <1>6, <2>2, <3>1, SMT DEF Tick
  <2>5. TypeOK'
    BY <1>6, <2>1, <2>2, SMT DEF Tick
  <2> QED
    BY <1>6, <2>2, <2>3, <2>4, <2>5, SMT DEF Tick
<1>7. CASE UNCHANGED vars
  BY <1>7 DEF vars
<1> QED
  BY <1>1, <1>2, <1>3, <1>4, <1>5, <1>6, <1>7 DEF Next, Request

THEOREM Inductive == Spec => []IInv
  BY InitInv, NextInv, PTL DEF Spec

\* Types: in particular no TTL ever exceeds TaskTtl.
THEOREM Typing == Spec => []TypeOK
<1>1. IInv => TypeOK
  BY DEF IInv
<1> QED
  BY Inductive, <1>1, PTL

\* A name never outlives the record it names, and until it has expired every request
\* with the key is answered with the one task it names.
THEOREM OneTaskPerKey == Spec => []KeyHonest
<1>1. IInv => KeyHonest
  BY DEF IInv
<1> QED
  BY Inductive, <1>1, PTL
=============================================================================
