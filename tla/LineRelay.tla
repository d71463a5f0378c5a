----------------------------- MODULE LineRelay -----------------------------
(***************************************************************************)
(* What a linear sensor network promises about its data, whatever the MAC  *)
(* loses, repeats or delays: a sensor originates data under a fresh        *)
(* identity, and a node gets data only from its neighbour on the side of   *)
(* the originator.                                                         *)
(***************************************************************************)
EXTENDS Naturals

CONSTANTS N,          \* number of sensors
          MaxDid      \* bound on the identities a sensor uses

Sensor == 1..N
Node   == 0..(N + 1)
DataId == 1..MaxDid

VARIABLE known        \* the data <<osid, did>> each node has

(* The neighbour of n that is nearer to sensor o. *)
Upstream(n, o) == IF o < n THEN n - 1 ELSE n + 1

Init == known = [n \in Node |-> {}]

Fresh(datum) == \A m \in Node : datum \notin known[m]

Originate(n) ==
  \E i \in DataId :
     /\ Fresh(<<n, i>>)
     /\ known' = [known EXCEPT ![n] = @ \cup {<<n, i>>}]

Hop(n, o) ==
  /\ o # n
  /\ \E datum \in known[Upstream(n, o)] :
       /\ datum[1] = o
       /\ known' = [known EXCEPT ![n] = @ \cup {datum}]

Next ==
  \/ \E n \in Sensor : Originate(n)
  \/ \E n \in Node, o \in Sensor : Hop(n, o)

Spec == Init /\ [][Next]_known
-----------------------------------------------------------------------------
Between(m, o, n) == (o <= m /\ m <= n) \/ (n <= m /\ m <= o)

(* No hop is skipped: what a node knows, every node between it and the     *)
(* originator knows.                                                       *)
PathComplete ==
  \A n, m \in Node : \A datum \in known[n] :
     Between(m, datum[1], n) => datum \in known[m]
=============================================================================
