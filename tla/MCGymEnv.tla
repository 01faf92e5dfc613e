------------------------------ MODULE MCGymEnv ------------------------------
(* Small budgets, each of which some history of replies uses up first.     *)
EXTENDS GymEnv

MCBudget == [steps |-> 4, tool_calls |-> 5, sim |-> 6, format |-> 2, truncated |-> 2]
==============================================================================
