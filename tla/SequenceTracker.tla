-------------------------- MODULE SequenceTracker --------------------------
(***************************************************************************)
(* internal/protocol/sequence.go: the high-water mark kept per vehicle to  *)
(* tell new packets from duplicates and stale ones.  Each method is one    *)
(* critical section under SequenceTracker.mu.  Sequence numbers are uint32 *)
(* in the code, compared through int32: HalfSpace is 2^31 there.           *)
(***************************************************************************)
EXTENDS Integers

CONSTANTS
  VehicleIds,   \* vehicle ids
  HalfSpace     \* half the number of sequence numbers, a power of two

ASSUME HalfSpaceAssumption == HalfSpace \in Nat \ {0}

SeqSpace == 2 * HalfSpace
Seqs == 0 .. SeqSpace - 1

NotSeen == -1           \* the vehicle has no entry in the map

VARIABLE highWaterMark  \* the map, with NotSeen for a missing entry

SequenceInit == highWaterMark = [v \in VehicleIds |-> NotSeen]

(* Mutated form: the numbers are compared without wrap-around. *)
SeqAfterUnsigned(a, b) == a > b

(* seqAfter: a - b wraps like uint32, and is positive read as int32.       *)
SeqAfter(a, b) == LET diff == (a - b) % SeqSpace IN diff > 0 /\ diff < HalfSpace

Accepts(v, seq) == highWaterMark[v] = NotSeen \/ SeqAfter(seq, highWaterMark[v])

(* Accept: true moves the mark, false leaves it.                           *)
Accept(v, seq) ==
  highWaterMark' = [highWaterMark EXCEPT ![v] = IF Accepts(v, seq) THEN seq ELSE @]

Reset(v) == highWaterMark' = [highWaterMark EXCEPT ![v] = NotSeen]

ResetAll == highWaterMark' = [v \in VehicleIds |-> NotSeen]
=============================================================================
