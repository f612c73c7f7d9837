---------------------------- MODULE MCForwarding ----------------------------
(* An instance of Forwarding for TLC. *)
EXTENDS Forwarding, TLC

CONSTANTS s1, s2, s3, h1, h2

\* Three switches in a line.
Line == {<<s1, s2>>, <<s2, s3>>}
\* Rules for h1, by its address.
ToFirst == [k \in {h1} |-> h1]
\* h1 moves from one end of the line to the other; h2 is a host of another domain,
\* whose frames come in over the window link and go on from switch to switch.
Plugs == (h1 :> {s1, s3}) @@ (h2 :> {})
\* Frames of h1 at s3 may be flooded to s1 by way of s2 before s1 knows that
\* this port leads to a switch.
Early == {<<s1, s2>>}
=============================================================================
