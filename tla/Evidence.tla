------------------------------ MODULE Evidence ------------------------------
(***************************************************************************)
(* Evidence packets.  Each command of a chain reads packets that earlier   *)
(* commands printed, whichever files the operator names, and prints one of *)
(* its own.  Any command may be repeated, so there may be several versions *)
(* of every packet, and nothing but the checksums that one packet records  *)
(* of another tells which belong together.  shelf[kind] holds the versions *)
(* of a packet, a version is its place there, and a packet p records of    *)
(* kind k the version p.has[k].  The file name recorded beside a checksum  *)
(* says no more than the checksum does and is left out.                    *)
(***************************************************************************)
EXTENDS ExecutorReadiness

CONSTANT MaxExtra   \* bound: packets beyond the first of their kind, and troubles
ASSUME ExtraAssumption == MaxExtra \in Nat

VARIABLES
  shelf,   \* kind -> the versions of that packet
  extra    \* extras so far

\* f, but that x is mapped to v.
With(f, x, v) == [y \in DOMAIN f \union {x} |-> IF y = x THEN v ELSE f[y]]

At(kind, n) == shelf[kind][n]
Versions(kind) == DOMAIN shelf[kind]

\* line is no field of the packets: it collects the packets <<kind, version>>
\* that a packet rests on, on all the ways there are to it.
Lineage(from) ==
  UNION {At(k, from[k]).line \union {<<k, from[k]>>} : k \in DOMAIN from}
Accepted(next, has, epoch, status) ==
  [ok |-> TRUE, next |-> next, has |-> has, epoch |-> epoch, status |-> status, line |-> Lineage(has)]
Blocked(next) ==
  [ok |-> FALSE, next |-> next, has |-> <<>>, epoch |-> 0, status |-> "blocked", line |-> {}]

\* A packet is printed; beyond the first of its kind it is an extra.
Place(kind, packet) == [shelf EXCEPT ![kind] = Append(@, packet)]
Counts(kind) ==
  IF shelf[kind] = <<>> THEN UNCHANGED extra ELSE extra < MaxExtra /\ extra' = extra + 1
Issue(kind, packet) == shelf' = Place(kind, packet) /\ Counts(kind)

\* What a command prints: a blocked packet only when there is room for an extra.
Reply(kind, codes, accepted, table, other) ==
  /\ codes # {} => extra < MaxExtra
  /\ Issue(kind, IF codes = {} THEN accepted ELSE Blocked(Recommend(codes, "", table, other)))

\* All that a packet rests on is of one version; what an operator signed, kind
\* "sign", is no one packet.
OneLine(packet) ==
  \A p, q \in packet.line : p[1] = q[1] /\ p[1] # "sign" => p = q
=============================================================================
