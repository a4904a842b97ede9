------------------------- MODULE MCCommerceLedger --------------------------
(* CommerceLedger with two tasks of one merchant competing for one product, *)
(* a third task of another merchant, and two pool threads.                  *)
EXTENDS CommerceLedger, TLC

CONSTANTS m1, m2, p1, p2, t1, t2, t3, x0, x1

MCMerchants == {m1, m2}
MCProducts  == {p1, p2}
MCTasks     == {t1, t2, t3}
MCTexts     == {x0, x1}

MCOwner        == p1 :> m1 @@ p2 :> m2
MCTaskMerchant == t1 :> m1 @@ t2 :> m1 @@ t3 :> m2
MCInitialText  == [p \in MCProducts |-> x0]

\* t1 and t2 have the same merchant, so they are interchangeable.
Interchangeable == Permutations({t1, t2}) \cup Permutations(Threads)
=============================================================================
