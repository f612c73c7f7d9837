---------------------------- MODULE MCAppManager ----------------------------
(* Instances of AppManager for TLC. *)
EXTENDS AppManager, TLC

CONSTANTS s1, s2, s3, d1, d2, d3, d4, h1, h2, h3, A, B, C, a1, a2, a3, k1, k2, k3

\* s1 and s2 are successive processes of domain A that happen to have the same
\* source port.
TwoRunsOfA == (s1 :> A) @@ (s2 :> A) @@ (s3 :> B)
SharedAddress == (s1 :> a1) @@ (s2 :> a1) @@ (s3 :> a2)

HomeSwitches == (d1 :> {A}) @@ (d2 :> {B}) @@ (d3 :> {A})
HomeHosts == (h1 :> {A}) @@ (h2 :> {A}) @@ (h3 :> {B})

\* Two domains, between which switches and hosts move.
OneRunEach == (s1 :> A) @@ (s2 :> B)
TwoAddresses == (s1 :> a1) @@ (s2 :> a2)
RoamingSwitches == (d1 :> {A, B}) @@ (d2 :> {A, B})
RoamingHosts == (h1 :> {A, B}) @@ (h2 :> {A, B})
\* The two switches are alike there, and the two hosts.
Alike == Permutations({d1, d2}) \cup Permutations({h1, h2})

\* Domains A - B - C in a line, with two switches of B linked to A; each end
\* of a link reports it.
Fork == (s1 :> A) @@ (s2 :> B) @@ (s3 :> C)
ForkAddress == (s1 :> a1) @@ (s2 :> a2) @@ (s3 :> a3)
ForkSwitches == (d1 :> {A}) @@ (d2 :> {B}) @@ (d3 :> {B}) @@ (d4 :> {C})
ForkHosts == (h1 :> {A}) @@ (h3 :> {C})

Window(x, y, k) == [src |-> x, dst |-> y, link |-> k]
ForkWindows ==
    {<<Window(d2, d1, k1)>>, <<Window(d1, d2, k1), Window(d1, d3, k2), Window(d4, d2, k3)>>,
     <<Window(d2, d4, k3)>>}

HomeWindows == {<<Window(d1, d2, k1)>>}

NoWindows == {}
=============================================================================
