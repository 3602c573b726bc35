------------------------ MODULE MCPostgresEventBroker ------------------------
(* Two handlers, A and B, and the completion listener Home.  The application  *)
(* dispatches d1 to A, which answers with a request for B, a domained event   *)
(* and an event for a name that nobody registers; B answers Home.             *)
EXTENDS PostgresEventBroker, TLC

CONSTANTS A, B, H, Elsewhere, d1, p1, m1, u1, r1, dj, pj1, pj2, rj1, rj2

MCNames == {A, B, H}
MCEvents == {d1, p1, m1, u1, r1}
MCTo == (d1 :> A) @@ (p1 :> B) @@ (m1 :> B) @@ (u1 :> Elsewhere) @@ (r1 :> H)
MCCause == (d1 :> None) @@ (p1 :> d1) @@ (m1 :> d1) @@ (u1 :> d1) @@ (r1 :> p1)
MCDomained == {m1}
MCJobs == {dj, pj1, pj2, rj1, rj2}
MCEventOf == (dj :> d1) @@ (pj1 :> p1) @@ (pj2 :> p1) @@ (rj1 :> r1) @@ (rj2 :> r1)
MCRecreate == {A}
MCConcurrency == (A :> 0) @@ (B :> 2) @@ (H :> 0)
MCRetryLimit == (A :> 1) @@ (B :> 0) @@ (H :> 0)
=============================================================================
