--------------------------- MODULE MCAccessAuthority ---------------------------
(* One person with memberships of two tenants and a colleague in the first: *)
(* two requests, two commands, one session that is open at the start.       *)
EXTENDS AccessAuthority, TLC

CONSTANTS u1, u2, m1, m2, m3, t1, t2, k1, k2, k3, c1, c2, o1, o2

MCMembers == {m1, m2, m3}
MCUserOf == m1 :> u1 @@ m2 :> u1 @@ m3 :> u2
MCTenantOf == m1 :> t1 @@ m2 :> t2 @@ m3 :> t1
MCIdOf == u1 :> 1 @@ u2 :> 2 @@ m1 :> 1 @@ m2 :> 2 @@ m3 :> 3
MCOpen == k1 :> m1

Symmetry == Permutations({k2, k3}) \cup Permutations({c1, c2}) \cup Permutations({o1, o2})
=============================================================================
