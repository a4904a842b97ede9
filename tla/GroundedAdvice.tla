--------------------------- MODULE GroundedAdvice ---------------------------
(***************************************************************************)
(* What the diagnosis loop promises about its advice: a change of the      *)
(* product is put before the merchant once, and only with a diagnosis that *)
(* cites nothing but evidence some tool really returned and that holds a   *)
(* fact about the content.                                                 *)
(***************************************************************************)
EXTENDS FiniteSets

CONSTANTS Evidence, Diagnoses, NoDiagnosis

VARIABLES
  known,     \* evidence returned by the metrics or by a tool
  advice     \* the diagnosis whose change the merchant is asked about

vars == <<known, advice>>

Cited(d) == UNION {finding.cites : finding \in d.findings}

Grounded(d, evidence) ==
  /\ Cited(d) \subseteq evidence
  /\ \A finding \in d.findings : finding.fact => finding.cites # {}
  /\ d.patch => \E finding \in d.findings : finding.fact /\ finding.content

Init == known = {} /\ advice = NoDiagnosis

Learn ==
  /\ known' \in SUBSET Evidence
  /\ known \subseteq known'
  /\ UNCHANGED advice

Propose(d) ==
  /\ advice = NoDiagnosis
  /\ d.patch
  /\ Grounded(d, known)
  /\ advice' = d
  /\ UNCHANGED known

Next == Learn \/ \E d \in Diagnoses : Propose(d)

Spec == Init /\ [][Next]_vars
=============================================================================
