----------------------- MODULE MCDeploymentLifecycle -----------------------
(* Model-checking instance of DeploymentLifecycle: each licence has one     *)
(* place, so that a machine that moves frees one another may take.          *)
EXTENDS DeploymentLifecycle, TLC

MCLimit == [l \in Licences |-> 1]

\* No property tells handlers, machines, licences or commands apart.
Symmetric ==
    Permutations(Handlers) \cup Permutations(Machines) \cup Permutations(Licences)
      \cup Permutations(Commands)
=============================================================================
