------------------------- MODULE MCFolderIngestion -------------------------
(***************************************************************************)
(* Small libraries.                                                        *)
(***************************************************************************)
EXTENDS FolderIngestion, TLC

CONSTANTS p1, p2, q1, q2, s1, s2, s3, x1, A, B, one, two

\* Two sessions scan one source, a third another with the same contents in
\* the opposite order; an edit can make two paths hold one content.
TwoSources == (one :> {p1, p2}) @@ (two :> {q1, q2})
Sorted == (p1 :> 1) @@ (p2 :> 2) @@ (q1 :> 1) @@ (q2 :> 2)
ThreeRoots == (s1 :> one) @@ (s2 :> one) @@ (s3 :> two)
Opposite == {(p1 :> A) @@ (p2 :> B) @@ (q1 :> B) @@ (q2 :> A)}
=============================================================================
