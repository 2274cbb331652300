---------------------------- MODULE CommandLife ----------------------------
(***************************************************************************)
(* What the server promises of one command, with no tracker, router or     *)
(* socket in sight: a request that is taken in is either sent once and     *)
(* told "accepted", or it is told an error and never sent.  The vehicle    *)
(* answers only what was sent, and only what was not refused can be given  *)
(* up (PROTOCOL.md, "Delivery Flow").  CommandPath implements it.          *)
(***************************************************************************)

CONSTANT Requests    \* the requests that are ever taken in

VARIABLES
  life,      \* where each request is
  answered,  \* requests whose vehicle ack was passed on
  givenUp    \* requests whose time ran out

lifeVars == <<life, answered, givenUp>>

Stations == {"none", "taken", "sent", "accepted", "refused"}

LifeInit ==
  /\ life = [i \in Requests |-> "none"]
  /\ answered = {}
  /\ givenUp = {}

Moves(i, from, to) ==
  /\ life[i] = from
  /\ life' = [life EXCEPT ![i] = to]
  /\ UNCHANGED <<answered, givenUp>>

Take(i) == Moves(i, "none", "taken")
Transmit(i) == Moves(i, "taken", "sent")
TellAccepted(i) == Moves(i, "sent", "accepted")
TellError(i) == Moves(i, "taken", "refused")

Answer(i) ==
  /\ life[i] \in {"sent", "accepted"}
  /\ answered' = answered \cup {i}
  /\ UNCHANGED <<life, givenUp>>

GiveUp(i) ==
  /\ life[i] \in {"taken", "sent", "accepted"}
  /\ givenUp' = givenUp \cup {i}
  /\ UNCHANGED <<life, answered>>

(* What the server itself has to do with a request it took in.             *)
Proceed(i) == Transmit(i) \/ TellError(i) \/ TellAccepted(i)

LifeNext ==
  \E i \in Requests : Take(i) \/ Proceed(i) \/ Answer(i) \/ GiveUp(i)

(* Clients owe no request and vehicles no answer; the server owes a reply. *)
LifeFairness == \A i \in Requests : WF_lifeVars(Proceed(i))

LifeSafety == LifeInit /\ [][LifeNext]_lifeVars

LifeSpec == LifeSafety /\ LifeFairness
=============================================================================
