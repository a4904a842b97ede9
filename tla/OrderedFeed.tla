---------------------------- MODULE OrderedFeed ----------------------------
(***************************************************************************)
(* What the event stream of a task promises to a subscriber that comes     *)
(* back with the last id it received: every event once, in the order they  *)
(* were added, and none left out unless MaxLength newer ones had been      *)
(* added by then.                                                          *)
(***************************************************************************)
EXTENDS Naturals, Sequences

CONSTANTS Subscribers, MaxLength

VARIABLES
  added,       \* how many events were added; an event is its place
  received     \* received[s]: the events subscriber s has seen

vars == <<added, received>>

Last(s) == IF received[s] = <<>> THEN 0 ELSE received[s][Len(received[s])]

Init ==
  /\ added = 0
  /\ received = [s \in Subscribers |-> <<>>]

Add == added' = added + 1 /\ UNCHANGED received

Receive(s) ==
  \E e \in Last(s) + 1 .. added :
    /\ \A missed \in Last(s) + 1 .. e - 1 : missed + MaxLength <= added
    /\ received' = [received EXCEPT ![s] = Append(@, e)]
    /\ UNCHANGED added

Next == Add \/ \E s \in Subscribers : Receive(s)

Spec == Init /\ [][Next]_vars
=============================================================================
