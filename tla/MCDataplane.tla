---------------------------- MODULE MCDataplane ----------------------------
(***************************************************************************)
(* Instances of Dataplane: an IPv4 and an IPv6 client, a second IPv4       *)
(* client, and managed addresses of both families.                         *)
(***************************************************************************)
EXTENDS Dataplane, TLC

CONSTANTS a, b, w, m4, m6, k1, k2, c1

OneMss == <<1, 3>>
AllMss == [s \in Client |-> IF s = a THEN 3 ELSE 1]

NoService == {}
\* A web server on a managed address; 1 is a cookie port.
WebServer == {[proto |-> "tcp", dst |-> [addr |-> m4, port |-> 1]]}

Secrets == Permutations({k1, k2})
=============================================================================
