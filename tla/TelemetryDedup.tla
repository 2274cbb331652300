--------------------------- MODULE TelemetryDedup ---------------------------
(***************************************************************************)
(* The sequence tracker against the network it is made for.  A vehicle     *)
(* numbers its packets 0, 1, 2, ... and puts n modulo SeqSpace on the      *)
(* wire; UDP loses, duplicates and reorders packets, an old one arriving   *)
(* up to Skew packets late.  The tracker sees the wire numbers only.       *)
(*                                                                         *)
(* When a vehicle comes back from OFFLINE, rebooted or not, the registry   *)
(* calls Reset before the packet is offered; what was sent before that     *)
(* silence does not arrive any more.                                       *)
(***************************************************************************)
EXTENDS SequenceTracker

CONSTANTS
  Skew,         \* how far behind the newest packet one can arrive
  MaxSent       \* bound: packets a vehicle sends in one life

ASSUME SkewAssumption ==
  /\ Skew \in 1 .. HalfSpace
  /\ MaxSent \in Nat

VARIABLES
  sent,         \* packets the vehicle sent since it (re)booted
  oldest,       \* the first of them that may still arrive
  last          \* history: the packet last accepted, NotSeen after a reset

dedupVars == <<highWaterMark, sent, oldest, last>>

Larger(a, b) == IF a > b THEN a ELSE b

(* Packets that may (still) arrive, any number of times. *)
InFlight(v) == Larger(oldest[v], sent[v] - Skew) .. sent[v] - 1

DedupInit ==
  /\ SequenceInit
  /\ sent = [v \in VehicleIds |-> 0]
  /\ oldest = [v \in VehicleIds |-> 0]
  /\ last = [v \in VehicleIds |-> NotSeen]

(* Fewer than HalfSpace packets in a row are lost: at 100 Hz more take     *)
(* months, and the registry resets the mark after seconds of silence.      *)
Send(v) ==
  /\ sent[v] < MaxSent
  /\ last[v] # NotSeen => sent[v] - last[v] < HalfSpace
  /\ sent' = [sent EXCEPT ![v] = @ + 1]
  /\ UNCHANGED <<highWaterMark, oldest, last>>

(* Mutated form: the caller does not look at what Accept returns. *)
OfferUnasked(v, n) ==
  /\ Accept(v, n % SeqSpace)
  /\ last' = [last EXCEPT ![v] = n]
  /\ UNCHANGED <<sent, oldest>>

(* A packet arrives and is offered to the tracker. *)
Offer(v, n) ==
  /\ Accept(v, n % SeqSpace)
  /\ last' = [last EXCEPT ![v] = IF Accepts(v, n % SeqSpace) THEN n ELSE @]
  /\ UNCHANGED <<sent, oldest>>

(* OFFLINE -> ONLINE. *)
ReturnOnline(v, rebooted) ==
  /\ Reset(v)
  /\ sent' = [sent EXCEPT ![v] = IF rebooted THEN 0 ELSE @]
  /\ oldest' = [oldest EXCEPT ![v] = IF rebooted THEN 0 ELSE sent[v]]
  /\ last' = [last EXCEPT ![v] = NotSeen]

ForgetAll ==
  /\ ResetAll
  /\ last' = [v \in VehicleIds |-> NotSeen]
  /\ UNCHANGED <<sent, oldest>>

DedupNext ==
  \/ \E v \in VehicleIds :
       \/ Send(v)
       \/ \E n \in InFlight(v) : Offer(v, n)
       \/ \E rebooted \in BOOLEAN : ReturnOnline(v, rebooted)
  \/ ForgetAll

DedupSpec == DedupInit /\ [][DedupNext]_dedupVars

----------------------------------------------------------------------------
(* Every variable has its shape, and the mark is the wire number of the    *)
(* packet last accepted.                                                   *)
DedupTypeOK ==
  /\ highWaterMark \in [VehicleIds -> Seqs \cup {NotSeen}]
  /\ sent \in [VehicleIds -> 0 .. MaxSent]
  /\ oldest \in [VehicleIds -> 0 .. MaxSent]
  /\ last \in [VehicleIds -> 0 .. MaxSent - 1 \cup {NotSeen}]
  /\ \A v \in VehicleIds :
       highWaterMark[v] = IF last[v] = NotSeen THEN NotSeen ELSE last[v] % SeqSpace

(* Through any number of wrap-arounds, resets, losses and reorderings, the *)
(* tracker judges a packet as one who saw its unwrapped number would: it   *)
(* accepts exactly the packets newer than all it accepted ("seq > HWM:     *)
(* accept; seq <= HWM: drop", PROTOCOL.md:80), the first one included.     *)
AcceptsExactlyNewer ==
  \A v \in VehicleIds : \A n \in InFlight(v) :
    Accepts(v, n % SeqSpace) <=> n > last[v]

(* And so what the tracker lets through is an increasing sequence of each  *)
(* vehicle's packets, until it is told to forget: the specification that   *)
(* knows neither the wrap-around nor the network.                          *)
Delivery == INSTANCE OrderedDelivery WITH
  Senders <- VehicleIds, Packets <- 0 .. MaxSent - 1, newest <- last

ImplementsOrderedDelivery == Delivery!DeliverySpec
=============================================================================
