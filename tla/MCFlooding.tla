----------------------------- MODULE MCFlooding -----------------------------
(* Two networks in which messages go round. *)
EXTENDS Flooding

\* Node 4 is reached through 2 and 3.  That the originator is an MPR makes no difference.
Diamond ==
  [links : {{<<1, 2>>, <<1, 3>>, <<2, 4>>, <<3, 4>>}}, messages : {2}, known : {FALSE},
   mprs : {<<a, b, {4}, c, {}, {}>> : a \in {{2}, {2, 3}}, b \in {{1}, {4}}, c \in {{2}, {3}}}]

\* Nodes 4 and 5 hear 2 and 3, and each of these relies on another one to reach 6.
Crossed ==
  [links : {{<<1, 2>>, <<1, 3>>, <<2, 4>>, <<2, 5>>, <<3, 4>>, <<3, 5>>, <<4, 6>>, <<5, 6>>}},
   messages : {1}, known : BOOLEAN, mprs : {<<{2, 3}, {1, 4}, {1, 5}, {2}, {3}, {4}>>}]

MCNetworks == Diamond \cup Crossed
=============================================================================
