--------------------------- MODULE MCAgentDirect ---------------------------
(* Small instances of AgentDirect for TLC: one broker session, two agents. *)
EXTENDS AgentDirect, TLC

CONSTANTS w1, a1, a2

OneSlot    == [s \in Sessions |-> 1]
BunWorkers == [s \in Sessions |-> "bun"]
Names      == [s \in Sessions |-> {"agent.invoke"}]

PowerBackoff == [r \in 0..20 |-> 2 * 2^r]

Invoke(a) == [task_name |-> "agent.invoke", task_type |-> "bun", priority |-> 0,
              max_retries |-> 1, agent |-> a]

ForFirst == {Invoke(a1)}
ForBoth  == {Invoke(a1), Invoke(a2)}
=============================================================================
