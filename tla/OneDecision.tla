---------------------------- MODULE OneDecision -----------------------------
(***************************************************************************)
(* What a diagnosis task promises its merchant, without records, messages, *)
(* handlers or checkpoints: its change is decided once, by the merchant it *)
(* was offered to, and applied only as decided; and what the task reports  *)
(* is what became of the change.                                           *)
(***************************************************************************)
VARIABLES
  change,      \* none, planned, approve or reject as decided, applied
  offered,     \* whether the merchant has seen the change
  report       \* what the task says: awaiting_approval, completed, rejected,
               \* or "open", which promises nothing

vars == <<change, offered, report>>

Init == change = "none" /\ offered = FALSE /\ report = "open"

Propose == change = "none" /\ change' = "planned" /\ UNCHANGED <<offered, report>>

Offer == report = "awaiting_approval" /\ offered' = TRUE /\ UNCHANGED <<change, report>>

\* No decision is taken before the offer, twice, or behind a final report.
Decide ==
  /\ offered /\ change = "planned"
  /\ report \notin {"completed", "rejected"}
  /\ change' \in {"approve", "reject"}
  /\ UNCHANGED <<offered, report>>

Apply == change = "approve" /\ change' = "applied" /\ UNCHANGED <<offered, report>>

Open == report' = "open" /\ UNCHANGED <<change, offered>>

Ask ==
  /\ change # "none"
  /\ report' = "awaiting_approval"
  /\ UNCHANGED <<change, offered>>

\* A task whose change was offered completes only by applying it.
Complete ==
  /\ change # "approve" /\ (offered => change = "applied")
  /\ report' = "completed"
  /\ UNCHANGED <<change, offered>>

Refuse ==
  /\ change = "reject"
  /\ report' = "rejected"
  /\ UNCHANGED <<change, offered>>

Next == Propose \/ Offer \/ Decide \/ Apply \/ Open \/ Ask \/ Complete \/ Refuse

Spec == Init /\ [][Next]_vars
=============================================================================
