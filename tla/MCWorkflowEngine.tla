---------------------------- MODULE MCWorkflowEngine ----------------------------
(* Small instances of WorkflowEngine for TLC.                               *)
EXTENDS WorkflowEngine, TLC

CONSTANTS m1, m2, w1, w2, w3

OneMachine == [w \in Workflows |-> m1]
TwoMachines == [w \in Workflows |-> IF w = w3 THEN m2 ELSE m1]
TwoSteps == <<"configure_ntp", "deploy_os">>

(* Sessions are interchangeable, and so are workflows of one machine.       *)
Symmetric ==
  Permutations(Sessions) \cup
    {p \in Permutations(Workflows) : \A w \in Workflows : MachineOf[p[w]] = MachineOf[w]}
============================================================================
