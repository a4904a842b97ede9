---------------------------- MODULE TaskCreation ----------------------------
(***************************************************************************)
(* RedisStore.create_task for requests that carry one Idempotency-Key.     *)
(* Two Redis keys with a TTL each say what a key stands for: the task id   *)
(* it names and the record of that task.  The script writes both; later    *)
(* saves renew the record only.  A request that finds a name without a     *)
(* record deletes the name and begins again.  Every request brings the     *)
(* fresh task id it would create, so a request stands for that task.       *)
(***************************************************************************)
EXTENDS Naturals

CONSTANTS
  Requests,    \* requests with the key, and the tasks they would create
  NoTask,
  TaskTtl      \* task_ttl_seconds, in ticks of the clock

ASSUME CreationAssumption == TaskTtl \in Nat \ {0} /\ NoTask \notin Requests

VARIABLES
  key,       \* the task id under idempotency_key
  keyTtl,    \* what is left of its TTL
  ttl,       \* ttl[t]: what is left of the record of t, 0 when there is none
  pc,        \* pc[r]: the next command of the request
  seen,      \* seen[r]: the id the script returned
  answer,    \* answer[r]: the task the request was answered with
  expired    \* history: the key has expired

vars == <<key, keyTtl, ttl, pc, seen, answer, expired>>

Live(t) == ttl[t] > 0

Init ==
  /\ key = NoTask /\ keyTtl = 0
  /\ ttl = [t \in Requests |-> 0]
  /\ pc = [r \in Requests |-> "script"]
  /\ seen = [r \in Requests |-> NoTask]
  /\ answer = [r \in Requests |-> NoTask]
  /\ expired = FALSE

Answer(r, t) ==
  /\ answer' = [answer EXCEPT ![r] = t]
  /\ pc' = [pc EXCEPT ![r] = "answered"]

\* Mutant: the name is looked for before the script, not within it.
CreateAnyway(r) ==
  /\ pc[r] = "script"
  /\ ttl' = [ttl EXCEPT ![r] = TaskTtl]
  /\ key' = r /\ keyTtl' = TaskTtl
  /\ Answer(r, r)
  /\ UNCHANGED <<seen, expired>>

\* The script finds no name: it stores the record and the name.
Create(r) ==
  /\ pc[r] = "script"
  /\ key = NoTask
  /\ ttl' = [ttl EXCEPT ![r] = TaskTtl]
  /\ key' = r /\ keyTtl' = TaskTtl
  /\ Answer(r, r)
  /\ UNCHANGED <<seen, expired>>

\* The script returns the name it finds.
Find(r) ==
  /\ pc[r] = "script"
  /\ key # NoTask
  /\ seen' = [seen EXCEPT ![r] = key]
  /\ pc' = [pc EXCEPT ![r] = "get"]
  /\ UNCHANGED <<key, keyTtl, ttl, answer, expired>>

\* get_task
Get(r) ==
  /\ pc[r] = "get"
  /\ IF Live(seen[r])
     THEN Answer(r, seen[r])
     ELSE pc' = [pc EXCEPT ![r] = "delete"] /\ UNCHANGED answer
  /\ UNCHANGED <<key, keyTtl, ttl, seen, expired>>

\* Mutant: the name is kept and the script tried again.
Retry(r) ==
  /\ pc[r] = "delete"
  /\ pc' = [pc EXCEPT ![r] = "get"]
  /\ UNCHANGED <<key, keyTtl, ttl, seen, answer, expired>>

\* DEL, whatever the key names by now, and create_task again.
Delete(r) ==
  /\ pc[r] = "delete"
  /\ key' = NoTask /\ keyTtl' = 0
  /\ pc' = [pc EXCEPT ![r] = "script"]
  /\ UNCHANGED <<ttl, seen, answer, expired>>

\* save_task and transition_task of a task somebody works on.
Save(t) ==
  /\ Live(t)
  /\ ttl' = [ttl EXCEPT ![t] = TaskTtl]
  /\ UNCHANGED <<key, keyTtl, pc, seen, answer, expired>>

\* Time passes; Redis drops what has expired.
Tick ==
  /\ keyTtl' = IF keyTtl = 0 THEN 0 ELSE keyTtl - 1
  /\ ttl' = [t \in Requests |-> IF ttl[t] = 0 THEN 0 ELSE ttl[t] - 1]
  /\ key' = IF keyTtl' = 0 THEN NoTask ELSE key
  /\ expired' = (expired \/ (key # NoTask /\ keyTtl' = 0))
  /\ UNCHANGED <<pc, seen, answer>>

Request(r) == Create(r) \/ Find(r) \/ Get(r) \/ Delete(r)

Next ==
  \/ \E r \in Requests : Request(r)
  \/ \E t \in Requests : Save(t)
  \/ Tick

Spec == Init /\ [][Next]_vars

\* Redis answers every command; clocks and saves need not go on.
FairSpec == Spec /\ \A r \in Requests : WF_vars(Request(r))

-----------------------------------------------------------------------------
TypeOK ==
  /\ key \in Requests \cup {NoTask} /\ keyTtl \in 0 .. TaskTtl
  /\ ttl \in [Requests -> 0 .. TaskTtl]
  /\ pc \in [Requests -> {"script", "get", "delete", "answered"}]
  /\ seen \in [Requests -> Requests \cup {NoTask}]
  /\ answer \in [Requests -> Requests \cup {NoTask}]
  /\ expired \in BOOLEAN

\* A name never outlives the record it names, and until it has expired every request
\* with the key is answered with the one task it names.
KeyHonest ==
  /\ key # NoTask => keyTtl <= ttl[key]
  /\ ~ expired => \A r \in Requests : answer[r] \in {NoTask, key}

\* Every request is answered: the recursion after a vanished record ends.
Answered == \A r \in Requests : <>(pc[r] = "answered")
=============================================================================
