-------------------------- MODULE MCAgentRegistry --------------------------
(* Small instances of AgentRegistry for TLC. *)
EXTENDS AgentRegistry, TLC

\* Callers are interchangeable, and so are the ids of agents.
CallerSymmetry == Permutations(Callers)
Symmetry == Permutations(Callers) \union Permutations(Agents)

\* Bound: how many agents are spawned and resumed, enough to be refused a slot
\* where there is a limit and to run out of nicknames where there is none.
Starts == Cardinality(Agents \ fresh) + resumes
FewStarts == Starts <= IF limit = NoLimit THEN 2 ELSE 3
=============================================================================
