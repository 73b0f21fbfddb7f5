----------------------------- MODULE MCAgentTurn -----------------------------
EXTENDS AgentTurn, TLC

Symmetry == Permutations(Turns) \cup Permutations(Subs) \cup Permutations(Sessions)
              \cup Permutations(Messages)
============================================================================
