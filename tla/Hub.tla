-------------------------------- MODULE Hub --------------------------------
(***************************************************************************)
(* The WebSocket hub, internal/websocket/server.go and client.go: the      *)
(* broadcast queue and its loop, and for each connection a send queue, the *)
(* ReadPump goroutine that handles the client's messages, the WritePump    *)
(* goroutine that drains the queue, and the hello/welcome handshake.       *)
(*                                                                         *)
(* What is broadcast are the status frames of module FleetRegistry, one    *)
(* for each change of the fleet and numbered like it; `fleet` is the       *)
(* number of changes so far.                                               *)
(*                                                                         *)
(* Server.mu is held by the broadcast loop (for reading, while it sends),  *)
(* by Shutdown (while it closes clients), and within single steps here by  *)
(* register and unregister.  Client.Close is one step: nothing can happen  *)
(* between its three parts that could not happen before or after all.      *)
(***************************************************************************)
EXTENDS Integers, Sequences, FiniteSets

CONSTANTS
  Clients,          \* connections; each is opened once
  SendBuffer,       \* sendBufferSize, capacity of Client.send
  BroadcastBuffer,  \* capacity of Server.broadcast
  MaxFrames,        \* bound: changes of the fleet
  MaxMessages,      \* bound: messages of all clients
  MaxDisconnects    \* bound: connections that are down when another one dies

ASSUME HubAssumption ==
  /\ SendBuffer \in Nat \ {0} /\ BroadcastBuffer \in Nat \ {0}
  /\ MaxFrames \in Nat /\ MaxMessages \in Nat /\ MaxDisconnects \in Nat

VARIABLES
  fleet,       \* how many status transitions there were, each broadcast
  broadcast,   \* Server.broadcast
  loop,        \* broadcastLoop: where it is, its frame, the clients left
  server,      \* run() and Shutdown: "running", "cancelled", "down"
  clients,     \* Server.clients
  reader,      \* where each ReadPump is
  writer,      \* where each WritePump is
  conn,        \* the connection: "none", "up", or "down" for good
  send,        \* Client.send
  closed,      \* Client.closed, and with it the channel
  handshaked,  \* Client.handshaked
  panicked,    \* a send on a closed channel ended the process
  messages,    \* history: how many messages were received
  greeted,     \* history: was a welcome taken from the queue to be written?
  settled      \* history: the status frames queued for the client, those
               \* dropped because its queue or the broadcast queue was full,
               \* and those whose turn was over at its handshake

serverVars == <<fleet, broadcast, loop, server, clients>>
clientVars == <<reader, writer, conn, send, closed, handshaked, panicked,
                messages, greeted, settled>>
hubVars == <<serverVars, clientVars>>

FrameIds == 1 .. MaxFrames
StatusFrame(k) == [type |-> "status", id |-> k]
Frame(type) == [type |-> type, id |-> 0]
Frames == {StatusFrame(k) : k \in FrameIds}
            \cup {Frame(t) : t \in {"welcome", "error", "reply"}}

Idle == [at |-> "idle", frame |-> 0, rest |-> {}]

HubInit ==
  /\ fleet = 0 /\ broadcast = <<>> /\ loop = Idle
  /\ server = "running" /\ clients = {}
  /\ reader = [c \in Clients |-> "none"]
  /\ writer = [c \in Clients |-> "none"]
  /\ conn = [c \in Clients |-> "none"]
  /\ send = [c \in Clients |-> <<>>]
  /\ closed = [c \in Clients |-> FALSE]
  /\ handshaked = [c \in Clients |-> FALSE]
  /\ panicked = FALSE
  /\ messages = 0
  /\ greeted = [c \in Clients |-> FALSE]
  /\ settled = [c \in Clients |-> {}]

ReadLocked == loop.at = "sending"
Goto(c, s) == reader' = [reader EXCEPT ![c] = s]
Full(c) == Len(send[c]) = SendBuffer

----------------------------------------------------------------------------
(* Client.Send, and Close *)

Settle(c, f) == settled' = [settled EXCEPT ![c] = @ \cup ({f.id} \ {0})]

(* Mutated form: a full queue is waited for. *)
SendToBlocking(c, f) ==
  IF closed[c] THEN panicked' = TRUE /\ UNCHANGED <<send, settled>>
  ELSE /\ ~Full(c)
       /\ send' = [send EXCEPT ![c] = Append(@, f)]
       /\ Settle(c, f)
       /\ UNCHANGED panicked

(* Send never blocks: it queues the frame or drops it.  On a closed        *)
(* channel it panics, in spite of the default case.                        *)
SendTo(c, f) ==
  IF closed[c] THEN panicked' = TRUE /\ UNCHANGED <<send, settled>>
  ELSE /\ send' = IF Full(c) THEN send ELSE [send EXCEPT ![c] = Append(@, f)]
       /\ Settle(c, f)
       /\ UNCHANGED panicked

Close(c) ==
  /\ closed' = [closed EXCEPT ![c] = TRUE]
  /\ conn' = [conn EXCEPT ![c] = "down"]

----------------------------------------------------------------------------
(* A transition of the registry, and its callback's call of Broadcast.     *)
(* Broadcast never blocks either.                                          *)
Broadcast ==
  /\ fleet < MaxFrames
  /\ fleet' = fleet + 1
  /\ IF Len(broadcast) < BroadcastBuffer
       THEN broadcast' = Append(broadcast, fleet + 1) /\ UNCHANGED settled
       ELSE /\ settled' = [c \in Clients |->
                 IF handshaked[c] THEN settled[c] \cup {fleet + 1} ELSE settled[c]]
            /\ UNCHANGED broadcast
  /\ UNCHANGED <<loop, server, clients>>
  /\ UNCHANGED <<reader, writer, conn, send, closed, handshaked, panicked, messages,
                 greeted>>

----------------------------------------------------------------------------
(* broadcastLoop *)

LoopTake ==
  /\ loop.at = "idle"
  /\ broadcast # <<>>
  /\ broadcast' = Tail(broadcast)
  /\ loop' = [at |-> "taken", frame |-> Head(broadcast), rest |-> {}]
  /\ UNCHANGED <<fleet, server, clients, clientVars>>

LoopLock ==
  /\ loop.at = "taken"
  /\ loop' = [loop EXCEPT !.at = "sending", !.rest = clients]
  /\ UNCHANGED <<fleet, broadcast, server, clients, clientVars>>

(* Mutated form: the loop over the clients ends at the first that is not   *)
(* ready for the frame. *)
LoopSendGivesUp(c) ==
  /\ loop.at = "sending"
  /\ c \in loop.rest
  /\ IF handshaked[c]
       THEN SendTo(c, StatusFrame(loop.frame)) /\ loop' = [loop EXCEPT !.rest = @ \ {c}]
       ELSE UNCHANGED <<send, settled, panicked>> /\ loop' = [loop EXCEPT !.rest = {}]
  /\ UNCHANGED <<fleet, broadcast, server, clients>>
  /\ UNCHANGED <<reader, writer, conn, closed, handshaked, messages, greeted>>

LoopSend(c) ==
  /\ loop.at = "sending"
  /\ c \in loop.rest
  /\ loop' = [loop EXCEPT !.rest = @ \ {c}]
  /\ IF handshaked[c] THEN SendTo(c, StatusFrame(loop.frame))
                      ELSE UNCHANGED <<send, settled, panicked>>
  /\ UNCHANGED <<fleet, broadcast, server, clients>>
  /\ UNCHANGED <<reader, writer, conn, closed, handshaked, messages, greeted>>

LoopUnlock ==
  /\ loop.at = "sending" /\ loop.rest = {}
  /\ loop' = Idle
  /\ UNCHANGED <<fleet, broadcast, server, clients, clientVars>>

(* select takes either case when ctx is done and a frame waits.            *)
LoopStop ==
  /\ loop.at = "idle"
  /\ server # "running"
  /\ loop' = [Idle EXCEPT !.at = "stopped"]
  /\ UNCHANGED <<fleet, broadcast, server, clients, clientVars>>

LoopStep ==
  \/ LoopTake \/ LoopLock \/ LoopUnlock \/ LoopStop
  \/ \E c \in Clients : LoopSend(c)

----------------------------------------------------------------------------
(* ReadPump and handleMessage *)

ReaderOnly == UNCHANGED <<serverVars, writer, conn, closed, greeted>>

(* handleWebSocket: register, and start the pumps. *)
Connect(c) ==
  /\ conn[c] = "none"
  /\ server # "down" /\ ~ReadLocked
  /\ clients' = clients \cup {c}
  /\ conn' = [conn EXCEPT ![c] = "up"]
  /\ Goto(c, "reading")
  /\ writer' = [writer EXCEPT ![c] = "writing"]
  /\ UNCHANGED <<fleet, broadcast, loop, server>>
  /\ UNCHANGED <<send, closed, handshaked, panicked, messages, greeted, settled>>

(* The peer, the network, or a deadline. *)
Disconnect(c) ==
  /\ conn[c] = "up"
  /\ Cardinality({d \in Clients : conn[d] = "down"}) < MaxDisconnects
  /\ conn' = [conn EXCEPT ![c] = "down"]
  /\ UNCHANGED <<serverVars, reader, writer, send, closed, handshaked, panicked, messages,
                 greeted, settled>>

Receives(c) ==
  /\ reader[c] = "reading"
  /\ conn[c] = "up"
  /\ messages < MaxMessages
  /\ messages' = messages + 1

(* A message that is refused with an error frame: it does not parse, has a *)
(* wrong version or type, is a hello too many or a command too early.      *)
ReceiveRefused(c) ==
  /\ Receives(c)
  /\ SendTo(c, Frame("error"))
  /\ UNCHANGED <<reader, handshaked>>
  /\ ReaderOnly

(* Mutated form: the client counts as handshaked before the welcome. *)
ReceiveHelloEarly(c) ==
  /\ Receives(c)
  /\ ~handshaked[c]
  /\ handshaked' = [handshaked EXCEPT ![c] = TRUE]
  /\ Goto(c, "welcome")
  /\ UNCHANGED <<serverVars, writer, conn, send, closed, panicked, greeted, settled>>

(* handleHello up to the welcome frame: GetFleetSummary is taken here.     *)
ReceiveHello(c) ==
  /\ Receives(c)
  /\ ~handshaked[c]
  /\ Goto(c, "welcome")
  /\ UNCHANGED <<serverVars, writer, conn, send, closed, handshaked, panicked, greeted,
                 settled>>

(* `c.send <- welcome`: it waits for room, and panics on a closed channel. *)
SendWelcome(c) ==
  /\ reader[c] = "welcome"
  /\ IF closed[c] THEN panicked' = TRUE /\ UNCHANGED <<reader, send>>
     ELSE /\ ~Full(c)
          /\ send' = [send EXCEPT ![c] = Append(@, Frame("welcome"))]
          /\ Goto(c, "handshake")
          /\ UNCHANGED panicked
  /\ UNCHANGED <<handshaked, messages, settled>>
  /\ ReaderOnly

(* The frames whose turn at c is over. *)
PassedBy(c) ==
  (1 .. fleet) \ ({broadcast[i] : i \in DOMAIN broadcast}
     \cup IF loop.at = "taken" \/ c \in loop.rest THEN {loop.frame} ELSE {})

SetHandshaked(c) ==
  /\ reader[c] = "handshake"
  /\ handshaked' = [handshaked EXCEPT ![c] = TRUE]
  /\ settled' = [settled EXCEPT ![c] = @ \cup PassedBy(c)]
  /\ Goto(c, "reading")
  /\ UNCHANGED <<send, panicked, messages>>
  /\ ReaderOnly

(* handleCommand: Route (module CommandPath) runs between the two steps.   *)
ReceiveCommand(c) ==
  /\ Receives(c)
  /\ handshaked[c]
  /\ Goto(c, "routing")
  /\ UNCHANGED <<send, handshaked, panicked, settled>>
  /\ ReaderOnly

SendReply(c) ==
  /\ reader[c] = "routing"
  /\ SendTo(c, Frame("reply"))
  /\ Goto(c, "reading")
  /\ UNCHANGED <<handshaked, messages>>
  /\ ReaderOnly

(* ReadMessage fails; the deferred function follows. *)
ReadFails(c) ==
  /\ reader[c] = "reading"
  /\ conn[c] = "down"
  /\ Goto(c, "unregister")
  /\ UNCHANGED <<send, handshaked, panicked, messages, settled>>
  /\ ReaderOnly

(* Mutated form: the client closes before it unregisters. *)
UnregisterLate(c) ==
  /\ reader[c] = "unregister"
  /\ IF closed[c]
       THEN /\ ~ReadLocked
            /\ clients' = clients \ {c}
            /\ Goto(c, "gone")
            /\ UNCHANGED <<conn, closed>>
       ELSE /\ Close(c)
            /\ UNCHANGED <<clients, reader>>
  /\ UNCHANGED <<fleet, broadcast, loop, server>>
  /\ UNCHANGED <<writer, send, handshaked, panicked, messages, greeted, settled>>

(* Mutated form: the client stays in the set. *)
UnregisterKeeps(c) ==
  /\ reader[c] = "unregister"
  /\ Goto(c, "close")
  /\ UNCHANGED serverVars
  /\ UNCHANGED <<writer, conn, send, closed, handshaked, panicked, messages, 
                 greeted, settled>>

Unregister(c) ==
  /\ reader[c] = "unregister"
  /\ ~ReadLocked
  /\ clients' = clients \ {c}
  /\ Goto(c, "close")
  /\ UNCHANGED <<fleet, broadcast, loop, server>>
  /\ UNCHANGED <<writer, conn, send, closed, handshaked, panicked, messages, 
                 greeted, settled>>

CloseSelf(c) ==
  /\ reader[c] = "close"
  /\ Close(c)
  /\ Goto(c, "gone")
  /\ UNCHANGED <<serverVars, writer, send, handshaked, panicked, messages, 
                 greeted, settled>>

ReaderStep(c) ==
  \/ SendWelcome(c) \/ SetHandshaked(c) \/ SendReply(c)
  \/ ReadFails(c) \/ Unregister(c) \/ CloseSelf(c)

----------------------------------------------------------------------------
(* WritePump *)

WriterOnly == UNCHANGED <<serverVars, reader, closed, handshaked, panicked, messages,
                          settled>>

WriteFrame(c) ==
  /\ writer[c] = "writing"
  /\ conn[c] = "up"
  /\ send[c] # <<>>
  /\ send' = [send EXCEPT ![c] = Tail(@)]
  /\ greeted' = [greeted EXCEPT ![c] = @ \/ Head(send[c]) = Frame("welcome")]
  /\ UNCHANGED <<writer, conn>>
  /\ WriterOnly

(* A ping or the closing message fails, or the write of the frame that was *)
(* taken, which is lost: the pump ends and closes the connection.          *)
WriterEnds(c) ==
  /\ writer[c] = "writing"
  /\ conn[c] = "down"
  /\ writer' = [writer EXCEPT ![c] = "gone"]
  /\ \/ UNCHANGED <<send, greeted>>
     \/ /\ send[c] # <<>>
        /\ send' = [send EXCEPT ![c] = Tail(@)]
        /\ greeted' = [greeted EXCEPT ![c] = @ \/ Head(send[c]) = Frame("welcome")]
  /\ UNCHANGED conn
  /\ WriterOnly

WriterStep(c) == WriteFrame(c) \/ WriterEnds(c)

----------------------------------------------------------------------------
(* Shutdown *)

(* SIGINT or SIGTERM. *)
Cancel ==
  /\ server = "running"
  /\ server' = "cancelled"
  /\ UNCHANGED <<fleet, broadcast, loop, clients, clientVars>>

(* ListenAndServe returns, and Shutdown closes every client of the set in  *)
(* one critical section.  It leaves them in the set.                       *)
Shutdown ==
  /\ server = "cancelled"
  /\ ~ReadLocked
  /\ server' = "down"
  /\ closed' = [c \in Clients |-> closed[c] \/ c \in clients]
  /\ conn' = [c \in Clients |-> IF c \in clients THEN "down" ELSE conn[c]]
  /\ UNCHANGED <<fleet, broadcast, loop, clients>>
  /\ UNCHANGED <<reader, writer, send, handshaked, panicked, messages, greeted,
                 settled>>

----------------------------------------------------------------------------
(* A panic ends the process: nothing runs after it. *)
Running(A) == ~panicked /\ A

HubNext ==
  \/ Running(Broadcast)
  \/ Running(LoopStep)
  \/ Running(Cancel)
  \/ Running(Shutdown)
  \/ \E c \in Clients :
       \/ Running(Connect(c))
       \/ Running(Disconnect(c))
       \/ Running(ReceiveRefused(c))
       \/ Running(ReceiveHello(c))
       \/ Running(ReceiveCommand(c))
       \/ Running(ReaderStep(c))
       \/ Running(WriterStep(c))

HubSafety == HubInit /\ [][HubNext]_hubVars

(* Goroutines that can run do; a dead connection makes the next read fail  *)
(* (its deadline is pongWait), a write ends by writeWait.  Nobody owes a   *)
(* connection, a message or a signal.                                      *)
HubFairness ==
  /\ WF_hubVars(Running(LoopStep))
  /\ WF_hubVars(Running(Shutdown))
  /\ \A c \in Clients :
       /\ SF_hubVars(Running(ReaderStep(c)))
       /\ WF_hubVars(Running(WriterStep(c)))

HubSpec == HubSafety /\ HubFairness

----------------------------------------------------------------------------
(* Properties *)

(* Every variable has its shape; queues keep their capacity. *)
HubTypeOK ==
  /\ fleet \in 0 .. MaxFrames
  /\ broadcast \in Seq(FrameIds) /\ Len(broadcast) <= BroadcastBuffer
  /\ loop \in [at : {"idle", "taken", "sending", "stopped"}, frame : 0 .. MaxFrames,
               rest : SUBSET Clients]
  /\ server \in {"running", "cancelled", "down"}
  /\ clients \subseteq Clients
  /\ reader \in [Clients -> {"none", "reading", "welcome", "handshake", "routing",
                             "unregister", "close", "gone"}]
  /\ writer \in [Clients -> {"none", "writing", "gone"}]
  /\ conn \in [Clients -> {"none", "up", "down"}]
  /\ send \in [Clients -> Seq(Frames)] /\ \A c \in Clients : Len(send[c]) <= SendBuffer
  /\ closed \in [Clients -> BOOLEAN] /\ handshaked \in [Clients -> BOOLEAN]
  /\ panicked \in BOOLEAN
  /\ messages \in 0 .. MaxMessages
  /\ greeted \in [Clients -> BOOLEAN]
  /\ settled \in [Clients -> SUBSET FrameIds]

(* "The server responds with welcome ...  Only clients that have completed *)
(* the handshake receive subsequent broadcasts" (PROTOCOL.md:37): whatever *)
(* the loop does during the handshake, a client sees nothing but errors    *)
(* before its one welcome.                                                 *)
WelcomeFirst ==
  \A c \in Clients :
    LET welcomes == {i \in DOMAIN send[c] : send[c][i] = Frame("welcome")} IN
    /\ \A i \in DOMAIN send[c] :
         send[c][i].type \in {"status", "reply"} =>
           greeted[c] \/ \E j \in welcomes : j < i
    /\ Cardinality(welcomes) <= IF greeted[c] THEN 0 ELSE 1

(* While the server runs no goroutine sends on a channel that another one  *)
(* closed: ReadPump leaves the client set, which waits for the loop, before *)
(* it closes the channel.                                                  *)
NoPanicInService == server \in {"running", "cancelled"} => ~panicked

(* PROTOCOL.md marks status frames as not droppable (line 57) and calls    *)
(* them guaranteed (line 126), and the code drops them all the same, in    *)
(* two places: Broadcast at a full broadcast queue (server.go:128), Send   *)
(* at a full client queue.  Those two are the only ones: no frame is lost  *)
(* to a client that completed the handshake before the frame's turn because *)
(* another client came, went, was slow or not ready.  Queues keep their    *)
(* capacity (HubTypeOK).                                                   *)
OnItsWay(c, k) ==
  \/ \E i \in DOMAIN broadcast : broadcast[i] = k
  \/ loop.frame = k /\ (loop.at = "taken" \/ c \in loop.rest)

EveryFrameAccounted ==
  /\ HubTypeOK
  /\ \A c \in clients : handshaked[c] /\ ~panicked =>
       \A k \in 1 .. fleet :
         OnItsWay(c, k) \/ k \in settled[c]

(* A client that stopped reading cannot stall the others: the loop always  *)
(* gets through its queue and past every client, until the context is done. *)
InTheLoop(k) ==
  \/ \E i \in DOMAIN broadcast : broadcast[i] = k
  \/ loop.frame = k /\ loop.at \in {"taken", "sending"}

LoopNeverStalls == \A k \in FrameIds : InTheLoop(k) ~> (server # "running" \/ ~InTheLoop(k))

(* A dead connection is cleaned up: the client leaves the set and both its *)
(* pumps end.  The exception: a ReadPump that waits to queue the welcome   *)
(* while the queue is full of errors and the WritePump has ended waits for *)
(* ever, and so does the client's place in the set.                        *)
StuckInWelcome(c) == reader[c] = "welcome" /\ Full(c) /\ writer[c] = "gone"

DeadConnectionsLeave ==
  \A c \in Clients :
    (conn[c] = "down") ~> \/ reader[c] = "gone" /\ writer[c] = "gone" /\ c \notin clients
                          \/ StuckInWelcome(c)
                          \/ panicked
=============================================================================
