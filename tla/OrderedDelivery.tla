-------------------------- MODULE OrderedDelivery --------------------------
(***************************************************************************)
(* What the sequence tracker promises its caller, with no wire numbers and *)
(* no network: of each vehicle's packets, numbered without wrap-around, it *)
(* lets through an increasing sequence, and may be told to start afresh    *)
(* (PROTOCOL.md:74-90).  TelemetryDedup implements it.                     *)
(***************************************************************************)
EXTENDS Integers

CONSTANTS
  Senders,    \* the vehicles
  Packets     \* the numbers of their packets

VARIABLE newest     \* the packet let through last, or None

None == -1

DeliveryInit == newest = [v \in Senders |-> None]

Deliver(v, n) ==
  /\ n > newest[v]
  /\ newest' = [newest EXCEPT ![v] = n]

StartAfresh(vs) == newest' = [v \in Senders |-> IF v \in vs THEN None ELSE newest[v]]

DeliveryNext ==
  \/ \E v \in Senders, n \in Packets : Deliver(v, n)
  \/ \E vs \in SUBSET Senders : StartAfresh(vs)

DeliverySpec == DeliveryInit /\ [][DeliveryNext]_newest
=============================================================================
