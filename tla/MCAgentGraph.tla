---------------------------- MODULE MCAgentGraph ----------------------------
EXTENDS AgentGraph

CONSTANTS m, e, x     \* evidence of the metrics, of the tools, of nobody

Fact(content, cites)  == [fact |-> TRUE, content |-> content, cites |-> cites]
Guess(content, cites) == [fact |-> FALSE, content |-> content, cites |-> cites]

\* A change backed by a tool, one backed by the metrics, one that has only an
\* invented id, and advice that changes nothing.
MCDiagnoses ==
  {[findings |-> {Fact(TRUE, {e})}, patch |-> TRUE],
   [findings |-> {Fact(TRUE, {m}), Guess(FALSE, {})}, patch |-> TRUE],
   [findings |-> {Fact(TRUE, {x}), Fact(FALSE, {m})}, patch |-> TRUE],
   [findings |-> {Guess(FALSE, {})}, patch |-> FALSE]}

\* Any clicks and orders up to 3, and the demonstration data.
MCWeeks ==
  LET Small == [impressions : {3}, clicks : 0 .. 3, orders : 0 .. 3]
      Week(i, c, o) == [impressions |-> i, clicks |-> c, orders |-> o]
  IN Small \X Small \cup {<<Week(1000, 40, 2), Week(800, 32, 1)>>}
=============================================================================
