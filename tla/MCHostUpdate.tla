---------------------------- MODULE MCHostUpdate ----------------------------
EXTENDS HostUpdate, TLC
CONSTANTS r1, r2, r3
MCHeadOf == r1 :> 1 @@ r2 :> 1 @@ r3 :> 2
MCClassOf == r1 :> "APP_ONLY" @@ r2 :> "APP_ONLY" @@ r3 :> "FORWARD"
Sym == Permutations(Ops) \cup Permutations(Updates)
=============================================================================
