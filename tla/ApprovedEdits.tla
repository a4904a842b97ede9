--------------------------- MODULE ApprovedEdits ---------------------------
(***************************************************************************)
(* What the commerce ledger promises a merchant, without versions, rows or *)
(* idempotency keys: a task may propose one edit of a product description, *)
(* the merchant sees the text it would replace and decides once, and an    *)
(* approved edit changes the product at most once and only while the       *)
(* product still carries the text the merchant was shown.                  *)
(***************************************************************************)
CONSTANTS
  Products,      \* products whose description can be edited
  Tasks,         \* diagnosis tasks, each proposes at most one edit
  Texts,         \* product descriptions
  InitialText,   \* [Products -> Texts], the descriptions before any edit
  NoEdit         \* a task that has proposed nothing

VARIABLES
  text,          \* text[p]: the description the shop shows for p
  edit           \* edit[t]: the edit of task t, or NoEdit

vars == <<text, edit>>

Stage == {"proposed", "approved", "rejected", "applied"}

Edit == [product : Products, before : Texts, after : Texts, stage : Stage]

TypeOK ==
  /\ text \in [Products -> Texts]
  /\ edit \in [Tasks -> Edit \cup {NoEdit}]

Init ==
  /\ text = InitialText
  /\ edit = [t \in Tasks |-> NoEdit]

\* The text shown as `before' may already be out of date when it is proposed.
Propose(t) ==
  /\ edit[t] = NoEdit
  /\ \E p \in Products, old \in Texts, new \in Texts :
       edit' = [edit EXCEPT ![t] = [product |-> p, before |-> old,
                                    after |-> new, stage |-> "proposed"]]
  /\ UNCHANGED text

Decide(t) ==
  /\ edit[t] # NoEdit
  /\ edit[t].stage = "proposed"
  /\ \E verdict \in {"approved", "rejected"} :
       edit' = [edit EXCEPT ![t].stage = verdict]
  /\ UNCHANGED text

Apply(t) ==
  /\ edit[t] # NoEdit
  /\ edit[t].stage = "approved"
  /\ text[edit[t].product] = edit[t].before
  /\ text' = [text EXCEPT ![edit[t].product] = edit[t].after]
  /\ edit' = [edit EXCEPT ![t].stage = "applied"]

Next == \E t \in Tasks : Propose(t) \/ Decide(t) \/ Apply(t)

Spec == Init /\ [][Next]_vars
=============================================================================
