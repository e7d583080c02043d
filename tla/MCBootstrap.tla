---------------------------- MODULE MCBootstrap ----------------------------
(* Small instances of Bootstrap for TLC. *)
EXTENDS Bootstrap

CONSTANTS pg, x1, x2

Rule(phys) == [type |-> pg, phys |-> phys]

\* A type twice; a bad entry after a good one; an empty first entry before a
\* good one, with Consul disabled.
ThreePlans ==
    {[rules |-> <<Rule(x1), Rule(x2)>>, ms |-> x1, consul |-> TRUE],
     [rules |-> <<Rule(x2), [type |-> None, phys |-> x1]>>, ms |-> None,
      consul |-> TRUE],
     [rules |-> <<EmptyEntry, Rule(x2)>>, ms |-> None, consul |-> FALSE]}

\* The autoscaler goes before the deployment.
TwoResources == <<"hpa", "deployment">>
=============================================================================
