-------------------------- MODULE MCTurnLifecycle --------------------------
(* Bounds of the TurnLifecycle runs: how often the environment repeats each *)
(* of its operations.  Messages and mail are bounded by their sets.         *)
EXTENDS TurnLifecycle

Bound(interrupts, standalones, guardians, hosts, continuations) ==
    [interrupt |-> interrupts, standalone |-> standalones, guardian |-> guardians,
     host |-> hosts, continuation |-> continuations]

NoneRepeated                == Bound(0, 0, 0, 0, 0)
OneGuardian                 == Bound(0, 0, 1, 0, 0)
OneStandaloneOneGuardian    == Bound(0, 1, 1, 0, 0)
GoalSetThenInterrupt        == Bound(1, 0, 0, 1, 1)

\* Bound: a goal meets mail but no note, and the host sets it only where neither arrives.
GoalOrMail ==
    /\ goal # "none" => \A i \in Notes : fate[i] = "unsent"
    /\ ops["host"] > 0 => \A i \in Mail : fate[i] = "unsent"
============================================================================
