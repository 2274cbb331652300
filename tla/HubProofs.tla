----------------------------- MODULE HubProofs -----------------------------
(***************************************************************************)
(* Theorems about the WebSocket hub, for any number of connections, any    *)
(* capacity of the queues, and any number of frames and messages.          *)
(*                                                                         *)
(* The invariant has three parts beside the shapes: who may still send to  *)
(* a client and who may have closed it (ServiceInv), where the welcome is  *)
(* (WelcomeInv), and what became of each status frame (AccountInv).        *)
(***************************************************************************)
EXTENDS Hub, FiniteSetTheorems, TLAPS

(* One step of a goroutine, with the wrappers taken off. *)
HubStep ==
  \/ Broadcast \/ LoopTake \/ LoopLock \/ LoopUnlock \/ LoopStop \/ Cancel \/ Shutdown
  \/ \E c \in Clients :
       \/ LoopSend(c) \/ Connect(c) \/ Disconnect(c)
       \/ ReceiveRefused(c) \/ ReceiveHello(c) \/ ReceiveCommand(c)
       \/ SendWelcome(c) \/ SetHandshaked(c) \/ SendReply(c)
       \/ ReadFails(c) \/ Unregister(c) \/ CloseSelf(c)
       \/ WriteFrame(c) \/ WriterEnds(c)

LEMMA StepCases == [HubNext]_hubVars => (~panicked /\ HubStep) \/ UNCHANGED hubVars
<1> SUFFICES ASSUME HubNext PROVE ~panicked /\ HubStep
  OBVIOUS
<1>1. CASE Running(Broadcast) \/ Running(LoopStep) \/ Running(Cancel) \/ Running(Shutdown)
  BY <1>1 DEF Running, LoopStep, HubStep
<1>2. CASE \E c \in Clients :
       \/ Running(Connect(c)) \/ Running(Disconnect(c))
       \/ Running(ReceiveRefused(c)) \/ Running(ReceiveHello(c)) \/ Running(ReceiveCommand(c))
       \/ Running(ReaderStep(c)) \/ Running(WriterStep(c))
  BY <1>2 DEF Running, ReaderStep, WriterStep, HubStep
<1>3. QED
  BY <1>1, <1>2 DEF HubNext

----------------------------------------------------------------------------
(* Shapes *)

LEMMA FrameShapes ==
  /\ Frame("welcome") \in Frames /\ Frame("error") \in Frames /\ Frame("reply") \in Frames
  /\ \A k \in FrameIds : StatusFrame(k) \in Frames
BY DEF Frames, Frame, StatusFrame

(* The shapes by the goroutine that they belong to.                        *)
ServerShapes ==
  /\ fleet \in 0 .. MaxFrames
  /\ broadcast \in Seq(FrameIds) /\ Len(broadcast) <= BroadcastBuffer
  /\ loop \in [at : {"idle", "taken", "sending", "stopped"}, frame : 0 .. MaxFrames,
               rest : SUBSET Clients]
  /\ loop.at \in {"taken", "sending"} => loop.frame \in FrameIds
  /\ server \in {"running", "cancelled", "down"}
  /\ clients \subseteq Clients

PumpShapes ==
  /\ reader \in [Clients -> {"none", "reading", "welcome", "handshake", "routing",
                             "unregister", "close", "gone"}]
  /\ writer \in [Clients -> {"none", "writing", "gone"}]
  /\ conn \in [Clients -> {"none", "up", "down"}]

FlagShapes ==
  /\ closed \in [Clients -> BOOLEAN] /\ handshaked \in [Clients -> BOOLEAN]
  /\ panicked \in BOOLEAN
  /\ messages \in 0 .. MaxMessages
  /\ greeted \in [Clients -> BOOLEAN]

QueueShapes ==
  send \in [Clients -> Seq(Frames)] /\ \A c \in Clients : Len(send[c]) <= SendBuffer

HistoryShapes ==
  settled \in [Clients -> SUBSET FrameIds]

AllShapes == ServerShapes /\ PumpShapes /\ FlagShapes /\ QueueShapes /\ HistoryShapes

LEMMA Shapes == AllShapes => HubTypeOK
BY DEF AllShapes, HubTypeOK, ServerShapes, PumpShapes, FlagShapes, QueueShapes, HistoryShapes

LEMMA ServerStep == ASSUME ServerShapes, HubStep PROVE ServerShapes'
<1> USE HubAssumption DEF ServerShapes
<1>1. CASE Broadcast
  <2>1. fleet + 1 \in FrameIds /\ fleet' = fleet + 1
    BY <1>1 DEF Broadcast, FrameIds
  <2>2. broadcast' \in Seq(FrameIds) /\ Len(broadcast') <= BroadcastBuffer
    <3>1. CASE Len(broadcast) < BroadcastBuffer
      <4>1. broadcast' = Append(broadcast, fleet + 1)
        BY <1>1, <3>1 DEF Broadcast
      <4>2. QED
        BY <2>1, <3>1, <4>1
    <3>2. CASE ~(Len(broadcast) < BroadcastBuffer)
      BY <1>1, <3>2 DEF Broadcast
    <3>3. QED
      BY <3>1, <3>2
  <2>3. QED
    BY <1>1, <2>1, <2>2 DEF Broadcast, FrameIds
<1>2. CASE LoopTake
  <2>1. Tail(broadcast) \in Seq(FrameIds) /\ Len(Tail(broadcast)) <= BroadcastBuffer
        /\ Head(broadcast) \in FrameIds
    BY <1>2 DEF LoopTake
  <2>2. QED
    BY <1>2, <2>1 DEF LoopTake, FrameIds
<1>3. CASE LoopLock
  BY <1>3 DEF LoopLock
<1>4. CASE LoopUnlock \/ LoopStop
  BY <1>4 DEF LoopUnlock, LoopStop, Idle
<1>5. CASE Cancel \/ Shutdown
  BY <1>5 DEF Cancel, Shutdown
<1>6. ASSUME NEW c \in Clients, LoopSend(c) PROVE ServerShapes'
  BY <1>6 DEF LoopSend
<1>7. ASSUME NEW c \in Clients, Connect(c) \/ Unregister(c) PROVE ServerShapes'
  BY <1>7 DEF Connect, Unregister
<1>8. ASSUME NEW c \in Clients,
        \/ Disconnect(c) \/ ReceiveRefused(c) \/ ReceiveHello(c) \/ ReceiveCommand(c)
        \/ SendWelcome(c) \/ SetHandshaked(c) \/ SendReply(c)
        \/ ReadFails(c) \/ CloseSelf(c) \/ WriteFrame(c) \/ WriterEnds(c)
      PROVE UNCHANGED serverVars
  BY <1>8 DEF Disconnect, ReceiveRefused, ReceiveHello, ReceiveCommand, SendWelcome,
     SetHandshaked, SendReply, ReadFails, CloseSelf, WriteFrame, WriterEnds, ReaderOnly,
     WriterOnly
<1>9. UNCHANGED serverVars => ServerShapes'
  BY DEF serverVars
<1>10. QED
  BY <1>1, <1>2, <1>3, <1>4, <1>5, <1>6, <1>7, <1>8, <1>9 DEF HubStep

LEMMA PumpStep == ASSUME PumpShapes, HubStep PROVE PumpShapes'
<1> USE DEF PumpShapes, Goto, Close
<1>1. CASE \/ Broadcast \/ LoopTake \/ LoopLock \/ LoopUnlock \/ LoopStop \/ Cancel
           \/ \E c \in Clients : LoopSend(c)
  BY <1>1 DEF Broadcast, LoopTake, LoopLock, LoopUnlock, LoopStop, Cancel, LoopSend, clientVars
<1>2. CASE Shutdown
  BY <1>2 DEF Shutdown
<1>3. ASSUME NEW c \in Clients, Connect(c) \/ Disconnect(c) PROVE PumpShapes'
  BY <1>3 DEF Connect, Disconnect
<1>4. ASSUME NEW c \in Clients,
        ReceiveRefused(c) \/ ReceiveHello(c) \/ ReceiveCommand(c) \/ SendWelcome(c)
      PROVE PumpShapes'
  BY <1>4 DEF ReceiveRefused, ReceiveHello, ReceiveCommand, SendWelcome, ReaderOnly
<1>5. ASSUME NEW c \in Clients,
        \/ SetHandshaked(c) \/ SendReply(c) \/ ReadFails(c) \/ Unregister(c) \/ CloseSelf(c)
      PROVE PumpShapes'
  BY <1>5 DEF SetHandshaked, SendReply, ReadFails, Unregister, CloseSelf, ReaderOnly
<1>6. ASSUME NEW c \in Clients, WriteFrame(c) \/ WriterEnds(c) PROVE PumpShapes'
  BY <1>6 DEF WriteFrame, WriterEnds, WriterOnly
<1>7. QED
  BY <1>1, <1>2, <1>3, <1>4, <1>5, <1>6 DEF HubStep

LEMMA FlagStep == ASSUME FlagShapes, HubStep PROVE FlagShapes'
<1> USE HubAssumption DEF FlagShapes, Close, SendTo
<1>1. CASE Broadcast \/ LoopTake \/ LoopLock \/ LoopUnlock \/ LoopStop \/ Cancel
  BY <1>1 DEF Broadcast, LoopTake, LoopLock, LoopUnlock, LoopStop, Cancel, clientVars
<1>2. CASE Shutdown
  BY <1>2 DEF Shutdown
<1>3. ASSUME NEW c \in Clients, LoopSend(c) \/ Connect(c) \/ Disconnect(c) PROVE FlagShapes'
  BY <1>3 DEF LoopSend, Connect, Disconnect
<1>4. ASSUME NEW c \in Clients, ReceiveRefused(c) \/ ReceiveHello(c) \/ ReceiveCommand(c)
      PROVE FlagShapes'
  <2>1. messages' \in 0 .. MaxMessages
    BY <1>4 DEF ReceiveRefused, ReceiveHello, ReceiveCommand, Receives
  <2>2. panicked' \in BOOLEAN
    BY <1>4 DEF ReceiveRefused, ReceiveHello, ReceiveCommand
  <2>3. UNCHANGED <<closed, handshaked, greeted>>
    BY <1>4 DEF ReceiveRefused, ReceiveHello, ReceiveCommand, ReaderOnly
  <2>4. QED
    BY <2>1, <2>2, <2>3
<1>5. ASSUME NEW c \in Clients, SendWelcome(c) \/ SetHandshaked(c) \/ SendReply(c)
      PROVE FlagShapes'
  BY <1>5 DEF SendWelcome, SetHandshaked, SendReply, ReaderOnly
<1>6. ASSUME NEW c \in Clients, ReadFails(c) \/ Unregister(c) \/ CloseSelf(c)
      PROVE FlagShapes'
  BY <1>6 DEF ReadFails, Unregister, CloseSelf, ReaderOnly
<1>7. ASSUME NEW c \in Clients, WriteFrame(c) \/ WriterEnds(c) PROVE FlagShapes'
  <2>1. \E b \in BOOLEAN : greeted' = [greeted EXCEPT ![c] = b]
    BY <1>7 DEF WriteFrame, WriterEnds
  <2>2. QED
    BY <1>7, <2>1 DEF WriteFrame, WriterEnds, WriterOnly
<1>8. QED
  BY <1>1, <1>2, <1>3, <1>4, <1>5, <1>6, <1>7 DEF HubStep

(* Send keeps the queue within its capacity and drops what has no place.   *)
LEMMA Queued ==
  ASSUME QueueShapes, NEW c \in Clients, NEW f \in Frames, ~Full(c),
         send' = [send EXCEPT ![c] = Append(@, f)]
  PROVE  QueueShapes'
<1> USE HubAssumption DEF QueueShapes
<1>1. send[c] \in Seq(Frames) /\ Len(send[c]) \in Nat /\ Len(send[c]) < SendBuffer
  BY DEF Full
<1>2. PICK q : q = Append(send[c], f)
  OBVIOUS
<1>3. q \in Seq(Frames) /\ Len(q) = Len(send[c]) + 1
  BY <1>1, <1>2
<1>4. Len(q) <= SendBuffer
  BY <1>1, <1>3
<1>5. send' = [send EXCEPT ![c] = q]
  BY <1>2
<1>6. QED
  BY <1>3, <1>4, <1>5

LEMMA Drained ==
  ASSUME QueueShapes, NEW c \in Clients, send[c] # <<>>,
         send' = [send EXCEPT ![c] = Tail(@)]
  PROVE  QueueShapes'
<1> USE HubAssumption DEF QueueShapes
<1>1. PICK q : q = Tail(send[c])
  OBVIOUS
<1>2. send[c] \in Seq(Frames) /\ Len(send[c]) <= SendBuffer
  OBVIOUS
<1>3. q \in Seq(Frames) /\ Len(q) <= SendBuffer
  BY <1>1, <1>2
<1>4. send' = [send EXCEPT ![c] = q]
  BY <1>1
<1>5. QED
  BY <1>3, <1>4

LEMMA SentIsQueued ==
  ASSUME QueueShapes, NEW c \in Clients, NEW f \in Frames, SendTo(c, f)
  PROVE  QueueShapes'
<1>1. CASE closed[c] \/ Full(c)
  BY <1>1 DEF SendTo, QueueShapes
<1>2. CASE ~closed[c] /\ ~Full(c)
  BY <1>2, Queued DEF SendTo
<1>3. QED
  BY <1>1, <1>2

LEMMA QueueStep == ASSUME ServerShapes, QueueShapes, HubStep PROVE QueueShapes'
<1> USE FrameShapes
<1>1. UNCHANGED send => QueueShapes'
  BY DEF QueueShapes
<1>2. CASE \/ Broadcast \/ LoopTake \/ LoopLock \/ LoopUnlock \/ LoopStop \/ Cancel \/ Shutdown
  BY <1>1, <1>2
     DEF Broadcast, LoopTake, LoopLock, LoopUnlock, LoopStop, Cancel, Shutdown, clientVars
<1>3. ASSUME NEW c \in Clients, LoopSend(c) PROVE QueueShapes'
  <2>1. StatusFrame(loop.frame) \in Frames
    BY <1>3 DEF ServerShapes, LoopSend
  <2>2. QED
    BY <1>1, <1>3, <2>1, SentIsQueued DEF LoopSend
<1>4. ASSUME NEW c \in Clients,
        \/ Connect(c) \/ Disconnect(c) \/ ReceiveHello(c) \/ ReceiveCommand(c)
        \/ SetHandshaked(c) \/ ReadFails(c) \/ Unregister(c) \/ CloseSelf(c)
      PROVE UNCHANGED send
  BY <1>4 DEF Connect, Disconnect, ReceiveHello, ReceiveCommand, SetHandshaked, ReadFails,
     Unregister, CloseSelf
<1>5. ASSUME NEW c \in Clients, ReceiveRefused(c) \/ SendReply(c) PROVE QueueShapes'
  BY <1>5, SentIsQueued DEF ReceiveRefused, SendReply
<1>6. ASSUME NEW c \in Clients, SendWelcome(c) PROVE QueueShapes'
  BY <1>1, <1>6, Queued DEF SendWelcome
<1>7. ASSUME NEW c \in Clients, WriteFrame(c) PROVE QueueShapes'
  BY <1>7, Drained DEF WriteFrame
<1>8. ASSUME NEW c \in Clients, WriterEnds(c) PROVE QueueShapes'
  <2>1. CASE UNCHANGED send
    BY <1>8, <2>1 DEF QueueShapes
  <2>2. CASE send[c] # <<>> /\ send' = [send EXCEPT ![c] = Tail(@)]
    BY <2>2, Drained
  <2>3. QED
    BY <1>8, <2>1, <2>2 DEF WriterEnds
<1>9. QED
  BY <1>1, <1>2, <1>3, <1>4, <1>5, <1>6, <1>7, <1>8 DEF HubStep

LEMMA Settled ==
  ASSUME HistoryShapes, NEW c \in Clients, NEW f \in Frames, SendTo(c, f)
  PROVE  settled' \in [Clients -> SUBSET FrameIds]
<1>1. {f.id} \ {0} \subseteq FrameIds
  BY DEF Frames, StatusFrame, Frame
<1>2. QED
  BY <1>1 DEF SendTo, Settle, HistoryShapes

LEMMA HistoryStep == ASSUME ServerShapes, HistoryShapes, HubStep PROVE HistoryShapes'
<1> USE FrameShapes DEF HistoryShapes
<1>1. CASE Broadcast
  <2>1. fleet + 1 \in FrameIds
    BY <1>1, HubAssumption DEF Broadcast, ServerShapes, FrameIds
  <2>2. settled' \in [Clients -> SUBSET FrameIds]
    <3>1. CASE UNCHANGED settled
      BY <3>1
    <3>2. CASE settled' = [c \in Clients |->
                 IF handshaked[c] THEN settled[c] \cup {fleet + 1} ELSE settled[c]]
      BY <2>1, <3>2
    <3>3. QED
      BY <1>1, <3>1, <3>2 DEF Broadcast
  <2>3. QED
    BY <1>1, <2>2 DEF Broadcast
<1>2. CASE \/ LoopTake \/ LoopLock \/ LoopUnlock \/ LoopStop \/ Cancel \/ Shutdown
  BY <1>2 DEF LoopTake, LoopLock, LoopUnlock, LoopStop, Cancel, Shutdown, clientVars
<1>3. ASSUME NEW c \in Clients, LoopSend(c) PROVE HistoryShapes'
  <2>1. StatusFrame(loop.frame) \in Frames
    BY <1>3 DEF ServerShapes, LoopSend
  <2>2. QED
    BY <1>3, <2>1, Settled DEF LoopSend
<1>4. ASSUME NEW c \in Clients,
        \/ Connect(c) \/ Disconnect(c) \/ ReceiveHello(c) \/ ReceiveCommand(c)
        \/ SendWelcome(c) \/ ReadFails(c) \/ Unregister(c) \/ CloseSelf(c)
        \/ WriteFrame(c) \/ WriterEnds(c)
      PROVE UNCHANGED settled
  BY <1>4 DEF Connect, Disconnect, ReceiveHello, ReceiveCommand, SendWelcome, ReadFails,
     Unregister, CloseSelf, WriteFrame, WriterEnds, WriterOnly
<1>5. ASSUME NEW c \in Clients, ReceiveRefused(c) \/ SendReply(c) PROVE HistoryShapes'
  BY <1>5, Settled DEF ReceiveRefused, SendReply
<1>6. ASSUME NEW c \in Clients, SetHandshaked(c) PROVE HistoryShapes'
  <2>1. PassedBy(c) \subseteq FrameIds
    BY HubAssumption DEF PassedBy, FrameIds, ServerShapes
  <2>2. QED
    BY <1>6, <2>1 DEF SetHandshaked
<1>7. QED
  BY <1>1, <1>2, <1>3, <1>4, <1>5, <1>6 DEF HubStep

LEMMA ShapesStep == ASSUME AllShapes, HubStep PROVE AllShapes'
BY ServerStep, PumpStep, FlagStep, QueueStep, HistoryStep DEF AllShapes

LEMMA ShapesInit == HubInit => AllShapes
<1> SUFFICES ASSUME HubInit PROVE AllShapes
  OBVIOUS
<1> USE HubAssumption DEF HubInit, Idle
<1>1. ServerShapes
  BY DEF ServerShapes
<1>2. PumpShapes
  BY DEF PumpShapes
<1>3. FlagShapes
  <2>1. messages \in 0 .. MaxMessages
    OBVIOUS
  <2>2. closed \in [Clients -> BOOLEAN] /\ handshaked \in [Clients -> BOOLEAN]
        /\ panicked \in BOOLEAN /\ greeted \in [Clients -> BOOLEAN]
    OBVIOUS
  <2>3. QED
    BY <2>1, <2>2 DEF FlagShapes
<1>4. QueueShapes
  BY DEF QueueShapes
<1>5. HistoryShapes
  BY DEF HistoryShapes
<1>6. QED
  BY <1>1, <1>2, <1>3, <1>4, <1>5 DEF AllShapes

LEMMA ShapesStutter == AllShapes /\ UNCHANGED hubVars => AllShapes'
BY DEF AllShapes, ServerShapes, PumpShapes, FlagShapes, QueueShapes, HistoryShapes,
   hubVars, serverVars, clientVars

(* Every variable of the hub keeps its shape and every queue its capacity, *)
(* for any number of connections (server.go:64, client.go:49).             *)
THEOREM HubTypeCorrect == HubSafety => []HubTypeOK
<1>1. AllShapes /\ [HubNext]_hubVars => AllShapes'
  BY StepCases, ShapesStep, ShapesStutter
<1>2. QED
  BY <1>1, ShapesInit, Shapes, PTL DEF HubSafety

----------------------------------------------------------------------------
(* Who may send to a client, and who may have closed it                    *)

ClosedIsLeft ==
  \A c \in Clients :
    /\ closed[c] => server = "down" \/ (reader[c] = "gone" /\ c \notin clients)
    /\ reader[c] \in {"none", "close", "gone"} => c \notin clients
    /\ conn[c] = "none" => reader[c] = "none"

LoopInSet ==
  /\ loop.rest \subseteq clients
  /\ loop.at # "sending" => loop.rest = {}

ServiceInv == ClosedIsLeft /\ LoopInSet /\ (server # "down" => ~panicked)

LEMMA ServiceStep ==
  ASSUME AllShapes, ServiceInv, ~panicked, HubStep
  PROVE  ServiceInv'
<1> USE DEF ServiceInv
<1>0. ServerShapes /\ PumpShapes
  BY DEF AllShapes
<1>1. CASE Broadcast \/ Cancel
  BY <1>1 DEF Broadcast, Cancel, clientVars, ClosedIsLeft, LoopInSet
<1>2. CASE LoopTake \/ LoopLock \/ LoopUnlock \/ LoopStop
  <2>1. LoopInSet'
    <3>1. CASE LoopTake \/ LoopUnlock \/ LoopStop
      BY <3>1 DEF LoopTake, LoopUnlock, LoopStop, Idle, LoopInSet
    <3>2. CASE LoopLock
      <4>1. loop'.rest = clients /\ loop'.at = "sending" /\ clients' = clients
        BY <1>0, <3>2 DEF LoopLock, ServerShapes
      <4>2. QED
        BY <4>1 DEF LoopInSet
    <3>3. QED
      BY <1>2, <3>1, <3>2
  <2>2. QED
    BY <1>2, <2>1
       DEF LoopTake, LoopLock, LoopUnlock, LoopStop, clientVars, ClosedIsLeft
<1>3. CASE Shutdown
  BY <1>0, <1>3 DEF Shutdown, ClosedIsLeft, LoopInSet, ServerShapes, PumpShapes
<1>4. ASSUME NEW c \in Clients, LoopSend(c) PROVE ServiceInv'
  <2>1. LoopInSet'
    BY <1>0, <1>4 DEF LoopSend, LoopInSet, ServerShapes
  <2>2. server # "down" => ~closed[c]
    BY <1>4 DEF LoopSend, LoopInSet, ClosedIsLeft
  <2>3. server' # "down" => ~panicked'
    BY <1>4, <2>2 DEF LoopSend, SendTo
  <2>4. QED
    BY <1>4, <2>1, <2>3 DEF LoopSend, ClosedIsLeft
<1>5. ASSUME NEW c \in Clients, Connect(c) PROVE ServiceInv'
  BY <1>0, <1>5 DEF Connect, Goto, ReadLocked, ClosedIsLeft, LoopInSet, PumpShapes
<1>6. ASSUME NEW c \in Clients, Disconnect(c) PROVE ServiceInv'
  BY <1>0, <1>6 DEF Disconnect, serverVars, ClosedIsLeft, LoopInSet, PumpShapes
<1>7. ASSUME NEW c \in Clients,
        ReceiveRefused(c) \/ ReceiveHello(c) \/ ReceiveCommand(c) \/ SendWelcome(c)
        \/ SetHandshaked(c) \/ SendReply(c) \/ ReadFails(c)
      PROVE ServiceInv'
  <2>1. UNCHANGED <<serverVars, conn, closed>>
    BY <1>7 DEF ReceiveRefused, ReceiveHello, ReceiveCommand, SendWelcome, SetHandshaked,
       SendReply, ReadFails, ReaderOnly
  <2>2. /\ reader[c] \notin {"none", "close", "gone"}
        /\ \E r : r \notin {"none", "close", "gone"} /\ reader' = [reader EXCEPT ![c] = r]
    <3>1. UNCHANGED reader => reader' = [reader EXCEPT ![c] = reader[c]]
      BY <1>0 DEF PumpShapes
    <3>2. CASE ReceiveRefused(c) \/ ReceiveHello(c) \/ ReceiveCommand(c)
      BY <3>1, <3>2 DEF ReceiveRefused, ReceiveHello, ReceiveCommand, Receives, Goto
    <3>3. CASE SendWelcome(c) \/ SetHandshaked(c) \/ SendReply(c) \/ ReadFails(c)
      BY <3>1, <3>3 DEF SendWelcome, SetHandshaked, SendReply, ReadFails, Goto
    <3>4. QED
      BY <1>7, <3>2, <3>3
  <2>3. server # "down" => ~closed[c]
    BY <2>2 DEF ClosedIsLeft
  <2>4. server # "down" => ~panicked'
    BY <1>7, <2>3 DEF ReceiveRefused, ReceiveHello, ReceiveCommand, SendWelcome,
       SetHandshaked, SendReply, ReadFails, SendTo
  <2>5. ClosedIsLeft'
    BY <1>0, <2>1, <2>2 DEF ClosedIsLeft, serverVars, PumpShapes
  <2>6. QED
    BY <2>1, <2>4, <2>5 DEF LoopInSet, serverVars
<1>8. ASSUME NEW c \in Clients, Unregister(c) PROVE ServiceInv'
  BY <1>0, <1>8 DEF Unregister, Goto, ReadLocked, ClosedIsLeft, LoopInSet, PumpShapes
<1>9. ASSUME NEW c \in Clients, CloseSelf(c) PROVE ServiceInv'
  <2>1. FlagShapes
    BY DEF AllShapes
  <2>2. QED
    BY <1>0, <1>9, <2>1
       DEF CloseSelf, Close, Goto, serverVars, ClosedIsLeft, LoopInSet, PumpShapes, FlagShapes
<1>10. ASSUME NEW c \in Clients, WriteFrame(c) \/ WriterEnds(c) PROVE ServiceInv'
  BY <1>10 DEF WriteFrame, WriterEnds, WriterOnly, serverVars, ClosedIsLeft, LoopInSet
<1>11. QED
  BY <1>1, <1>2, <1>3, <1>4, <1>5, <1>6, <1>7, <1>8, <1>9, <1>10 DEF HubStep

LEMMA ServiceInit == HubInit => ServiceInv
BY DEF HubInit, Idle, ServiceInv, ClosedIsLeft, LoopInSet

LEMMA ServiceStutter == ServiceInv /\ UNCHANGED hubVars => ServiceInv'
BY DEF ServiceInv, ClosedIsLeft, LoopInSet, hubVars, serverVars, clientVars

(* While the server runs no goroutine sends on a channel that another one  *)
(* closed, however many clients come and go (client.go:102): a ReadPump    *)
(* leaves the set first, and waits there for the loop.                     *)
THEOREM ServiceIsSafe == HubSafety => []NoPanicInService
<1>1. AllShapes /\ ServiceInv /\ [HubNext]_hubVars => AllShapes' /\ ServiceInv'
  BY StepCases, ShapesStep, ShapesStutter, ServiceStep, ServiceStutter
<1>2. ServiceInv => NoPanicInService
  BY DEF ServiceInv, NoPanicInService
<1>3. QED
  BY <1>1, <1>2, ShapesInit, ServiceInit, PTL DEF HubSafety

----------------------------------------------------------------------------
(* Where the welcome is                                                    *)

IsWelcome(f) == f = Frame("welcome")
Promised(f) == f.type \in {"status", "reply"}
Holds(q) == \E i \in DOMAIN q : IsWelcome(q[i])

(* What a queue may hold when `g` says that the welcome left it.           *)
Ordered(q, g) ==
  /\ \A i \in DOMAIN q : Promised(q[i]) => g \/ \E j \in DOMAIN q : j < i /\ IsWelcome(q[j])
  /\ \A i, j \in DOMAIN q : IsWelcome(q[i]) /\ IsWelcome(q[j]) => i = j
  /\ g => ~Holds(q)

LEMMA OtherAppended ==
  ASSUME NEW q \in Seq(Frames), NEW f \in Frames, NEW g \in BOOLEAN, Ordered(q, g),
         ~IsWelcome(f), Promised(f) => g \/ Holds(q)
  PROVE  Ordered(Append(q, f), g) /\ (Holds(Append(q, f)) <=> Holds(q))
<1>1. PICK r : r = Append(q, f)
  OBVIOUS
<1>2. /\ Len(q) \in Nat /\ DOMAIN q = 1 .. Len(q) /\ DOMAIN r = 1 .. Len(q) + 1
      /\ r[Len(q) + 1] = f
      /\ \A i \in DOMAIN q : i \in DOMAIN r /\ r[i] = q[i] /\ i # Len(q) + 1
      /\ \A i \in DOMAIN r : i \in DOMAIN q \/ i = Len(q) + 1
  BY <1>1
<1>3. Holds(r) <=> Holds(q)
  BY <1>2 DEF Holds
<1>4. ASSUME NEW i \in DOMAIN r, Promised(r[i])
      PROVE  g \/ \E j \in DOMAIN r : j < i /\ IsWelcome(r[j])
  <2>1. CASE i \in DOMAIN q
    BY <1>2, <1>4, <2>1 DEF Ordered
  <2>2. CASE i = Len(q) + 1 /\ ~g
    <3>1. PICK j \in DOMAIN q : IsWelcome(q[j])
      BY <1>2, <1>4, <2>2 DEF Holds
    <3>2. j < i
      BY <1>2, <2>2
    <3>3. QED
      BY <1>2, <3>1, <3>2
  <2>3. QED
    BY <1>2, <2>1, <2>2
<1>5. \A i, j \in DOMAIN r : IsWelcome(r[i]) /\ IsWelcome(r[j]) => i = j
  BY <1>2 DEF Ordered
<1>6. QED
  BY <1>1, <1>3, <1>4, <1>5 DEF Ordered

LEMMA WelcomeAppended ==
  ASSUME NEW q \in Seq(Frames), Ordered(q, FALSE), ~Holds(q)
  PROVE  Ordered(Append(q, Frame("welcome")), FALSE) /\ Holds(Append(q, Frame("welcome")))
<1>1. PICK r : r = Append(q, Frame("welcome"))
  OBVIOUS
<1>2. /\ Len(q) \in Nat /\ DOMAIN q = 1 .. Len(q) /\ DOMAIN r = 1 .. Len(q) + 1
      /\ IsWelcome(r[Len(q) + 1])
      /\ \A i \in DOMAIN q : i \in DOMAIN r /\ r[i] = q[i]
      /\ \A i \in DOMAIN r : i \in DOMAIN q \/ i = Len(q) + 1
  BY <1>1, FrameShapes DEF IsWelcome
<1>3. ~Promised(r[Len(q) + 1])
  BY <1>2 DEF IsWelcome, Promised, Frame
<1>4. \A i \in DOMAIN q : ~IsWelcome(q[i]) /\ ~Promised(q[i])
  BY DEF Ordered, Holds
<1>5. Holds(r)
  BY <1>2 DEF Holds
<1>6. Ordered(r, FALSE)
  BY <1>2, <1>3, <1>4 DEF Ordered
<1>7. QED
  BY <1>1, <1>5, <1>6

LEMMA HeadTaken ==
  ASSUME NEW q \in Seq(Frames), q # <<>>, NEW g \in BOOLEAN, Ordered(q, g),
         NEW h \in BOOLEAN, h = (g \/ IsWelcome(Head(q)))
  PROVE  Ordered(Tail(q), h) /\ (h \/ Holds(Tail(q)) <=> g \/ Holds(q))
<1>1. PICK r : r = Tail(q)
  OBVIOUS
<1>2. /\ Len(q) \in Nat /\ DOMAIN q = 1 .. Len(q) /\ DOMAIN r = 1 .. Len(q) - 1
      /\ 1 \in DOMAIN q /\ Head(q) = q[1]
      /\ \A i \in DOMAIN r : i + 1 \in DOMAIN q /\ r[i] = q[i + 1]
      /\ \A i \in DOMAIN q : i = 1 \/ (i - 1 \in DOMAIN r /\ r[i - 1] = q[i])
  BY <1>1
<1>3. h \/ Holds(r) <=> g \/ Holds(q)
  <2>1. Holds(r) => Holds(q)
    BY <1>2 DEF Holds
  <2>2. Holds(q) => IsWelcome(q[1]) \/ Holds(r)
    BY <1>2 DEF Holds
  <2>3. IsWelcome(q[1]) => Holds(q)
    BY <1>2 DEF Holds
  <2>4. QED
    BY <1>2, <2>1, <2>2, <2>3
<1>4. ASSUME NEW i \in DOMAIN r, Promised(r[i]), ~h
      PROVE  \E j \in DOMAIN r : j < i /\ IsWelcome(r[j])
  <2>1. PICK j \in DOMAIN q : j < i + 1 /\ IsWelcome(q[j])
    BY <1>2, <1>4 DEF Ordered
  <2>2. j # 1
    BY <1>2, <1>4, <2>1
  <2>3. j - 1 \in DOMAIN r /\ IsWelcome(r[j - 1]) /\ j - 1 < i
    BY <1>2, <2>1, <2>2
  <2>4. QED
    BY <2>3
<1>5. ASSUME NEW i \in DOMAIN r, NEW j \in DOMAIN r, IsWelcome(r[i]), IsWelcome(r[j])
      PROVE  i = j
  <2>1. i + 1 = j + 1
    BY <1>2, <1>5 DEF Ordered
  <2>2. QED
    BY <1>2, <2>1
<1>6. h => ~Holds(r)
  <2>1. ASSUME IsWelcome(q[1]), NEW i \in DOMAIN r, IsWelcome(r[i]) PROVE FALSE
    <3>1. i + 1 = 1
      BY <1>2, <2>1 DEF Ordered
    <3>2. QED
      BY <1>2, <3>1
  <2>2. g => ~Holds(r)
    BY <1>2 DEF Ordered, Holds
  <2>3. QED
    BY <1>2, <2>1, <2>2 DEF Holds
<1>7. QED
  BY <1>1, <1>3, <1>4, <1>5, <1>6 DEF Ordered

(* The welcome is in the queue, or was, once the ReadPump queued it, and    *)
(* never before.                                                           *)
Greeting(r, h, g, q) ==
  /\ Ordered(q, g)
  /\ r \in {"none", "welcome"} => ~h
  /\ r = "routing" => h
  /\ h \/ r = "handshake" => g \/ Holds(q)
  /\ ~h /\ r \in {"none", "reading", "welcome"} => ~(g \/ Holds(q))

WelcomeInv == \A c \in Clients : Greeting(reader[c], handshaked[c], greeted[c], send[c])

(* A frame that Send queues or drops leaves the welcome where it is.       *)
LEMMA SentGreets ==
  ASSUME AllShapes, WelcomeInv, NEW c \in Clients, NEW f \in Frames, SendTo(c, f),
         ~IsWelcome(f), Promised(f) => handshaked[c]
  PROVE  /\ Ordered(send'[c], greeted[c]) /\ (Holds(send'[c]) <=> Holds(send[c]))
         /\ \A d \in Clients \ {c} : send'[d] = send[d]
<1>1. send \in [Clients -> Seq(Frames)] /\ greeted[c] \in BOOLEAN
  BY DEF AllShapes, QueueShapes, FlagShapes
<1>2. Greeting(reader[c], handshaked[c], greeted[c], send[c])
  BY DEF WelcomeInv
<1>3. CASE send' = send
  BY <1>2, <1>3 DEF Greeting
<1>4. CASE send' = [send EXCEPT ![c] = Append(@, f)]
  <2>1. Ordered(Append(send[c], f), greeted[c]) /\ (Holds(Append(send[c], f)) <=> Holds(send[c]))
    BY <1>1, <1>2, OtherAppended DEF Greeting
  <2>2. QED
    BY <1>1, <1>4, <2>1
<1>5. QED
  BY <1>3, <1>4 DEF SendTo

LEMMA WelcomeStep ==
  ASSUME AllShapes, ServiceInv, WelcomeInv, HubStep
  PROVE  WelcomeInv'
<1>0. /\ reader \in [Clients -> {"none", "reading", "welcome", "handshake", "routing",
                             "unregister", "close", "gone"}]
      /\ handshaked \in [Clients -> BOOLEAN] /\ greeted \in [Clients -> BOOLEAN]
      /\ send \in [Clients -> Seq(Frames)]
  BY DEF AllShapes, PumpShapes, FlagShapes, QueueShapes
<1>a. \A c \in Clients : Greeting(reader[c], handshaked[c], greeted[c], send[c])
  BY DEF WelcomeInv
<1>b. ASSUME NEW c \in Clients,
        \A d \in Clients \ {c} : /\ reader'[d] = reader[d] /\ handshaked'[d] = handshaked[d]
                                 /\ greeted'[d] = greeted[d] /\ send'[d] = send[d],
        Greeting(reader'[c], handshaked'[c], greeted'[c], send'[c])
      PROVE  WelcomeInv'
  <2>1. \A d \in Clients : Greeting(reader'[d], handshaked'[d], greeted'[d], send'[d])
    BY <1>a, <1>b
  <2>2. QED
    BY <2>1 DEF WelcomeInv
<1>1. CASE UNCHANGED <<reader, handshaked, greeted, send>>
  BY <1>1 DEF WelcomeInv
<1>2. CASE \/ Broadcast \/ LoopTake \/ LoopLock \/ LoopUnlock \/ LoopStop \/ Cancel \/ Shutdown
  BY <1>1, <1>2
     DEF Broadcast, LoopTake, LoopLock, LoopUnlock, LoopStop, Cancel, Shutdown, clientVars
<1>3. ASSUME NEW c \in Clients, LoopSend(c) PROVE WelcomeInv'
  <2>1. CASE handshaked[c]
    <3>1. StatusFrame(loop.frame) \in Frames /\ ~IsWelcome(StatusFrame(loop.frame))
      BY <1>3, FrameShapes
         DEF AllShapes, ServerShapes, LoopSend, IsWelcome, StatusFrame, Frame
    <3>2. SendTo(c, StatusFrame(loop.frame)) /\ UNCHANGED <<reader, handshaked, greeted>>
      BY <1>3, <2>1 DEF LoopSend
    <3>3. /\ Ordered(send'[c], greeted[c]) /\ (Holds(send'[c]) <=> Holds(send[c]))
          /\ \A d \in Clients \ {c} : send'[d] = send[d]
      BY <2>1, <3>1, <3>2, SentGreets
    <3>4. QED
      BY <1>a, <1>b, <3>2, <3>3 DEF Greeting
  <2>2. CASE ~handshaked[c]
    BY <1>1, <1>3, <2>2 DEF LoopSend
  <2>3. QED
    BY <2>1, <2>2
<1>4. ASSUME NEW c \in Clients, Connect(c) PROVE WelcomeInv'
  <2>1. reader[c] = "none"
    BY <1>4 DEF Connect, ServiceInv, ClosedIsLeft
  <2>2. UNCHANGED <<handshaked, greeted, send>> /\ reader' = [reader EXCEPT ![c] = "reading"]
    BY <1>4 DEF Connect, Goto
  <2>3. Greeting(reader'[c], handshaked'[c], greeted'[c], send'[c])
    BY <1>0, <1>a, <2>1, <2>2 DEF Greeting
  <2>4. QED
    BY <1>0, <1>b, <2>2, <2>3
<1>5. ASSUME NEW c \in Clients, Disconnect(c) PROVE WelcomeInv'
  BY <1>1, <1>5 DEF Disconnect
<1>6. ASSUME NEW c \in Clients, ReceiveRefused(c) PROVE WelcomeInv'
  <2>1. Frame("error") \in Frames /\ ~IsWelcome(Frame("error")) /\ ~Promised(Frame("error"))
    BY FrameShapes DEF IsWelcome, Promised, Frame
  <2>2. SendTo(c, Frame("error")) /\ UNCHANGED <<reader, handshaked, greeted>>
    BY <1>6 DEF ReceiveRefused, ReaderOnly
  <2>3. /\ Ordered(send'[c], greeted[c]) /\ (Holds(send'[c]) <=> Holds(send[c]))
        /\ \A d \in Clients \ {c} : send'[d] = send[d]
    BY <2>1, <2>2, SentGreets
  <2>4. QED
    BY <1>a, <1>b, <2>2, <2>3 DEF Greeting
<1>7. ASSUME NEW c \in Clients, ReceiveHello(c) \/ ReceiveCommand(c) PROVE WelcomeInv'
  <2>1. /\ UNCHANGED <<handshaked, greeted, send>> /\ reader[c] = "reading"
        /\ \/ ~handshaked[c] /\ reader' = [reader EXCEPT ![c] = "welcome"]
           \/ handshaked[c] /\ reader' = [reader EXCEPT ![c] = "routing"]
    BY <1>7 DEF ReceiveHello, ReceiveCommand, Receives, ReaderOnly, Goto
  <2>2. Greeting(reader'[c], handshaked'[c], greeted'[c], send'[c])
    BY <1>0, <1>a, <2>1 DEF Greeting
  <2>3. QED
    BY <1>0, <1>b, <2>1, <2>2
<1>8. ASSUME NEW c \in Clients, SendWelcome(c) PROVE WelcomeInv'
  <2>1. CASE closed[c]
    BY <1>1, <1>8, <2>1 DEF SendWelcome, ReaderOnly
  <2>2. CASE ~closed[c]
    <3>1. /\ UNCHANGED <<handshaked, greeted>> /\ reader[c] = "welcome"
          /\ reader' = [reader EXCEPT ![c] = "handshake"]
          /\ send' = [send EXCEPT ![c] = Append(@, Frame("welcome"))]
      BY <1>8, <2>2 DEF SendWelcome, ReaderOnly, Goto
    <3>2. ~handshaked[c] /\ greeted[c] = FALSE /\ ~Holds(send[c]) /\ Ordered(send[c], FALSE)
      BY <1>0, <1>a, <3>1 DEF Greeting
    <3>3. Ordered(send'[c], FALSE) /\ Holds(send'[c])
      BY <1>0, <3>1, <3>2, WelcomeAppended
    <3>4. Greeting(reader'[c], handshaked'[c], greeted'[c], send'[c])
      BY <1>0, <3>1, <3>2, <3>3 DEF Greeting
    <3>5. QED
      BY <1>0, <1>b, <3>1, <3>4
  <2>3. QED
    BY <2>1, <2>2
<1>9. ASSUME NEW c \in Clients, SetHandshaked(c) PROVE WelcomeInv'
  <2>1. /\ UNCHANGED <<greeted, send>> /\ reader[c] = "handshake"
        /\ reader' = [reader EXCEPT ![c] = "reading"]
        /\ handshaked' = [handshaked EXCEPT ![c] = TRUE]
    BY <1>9 DEF SetHandshaked, ReaderOnly, Goto
  <2>2. Greeting(reader'[c], handshaked'[c], greeted'[c], send'[c])
    BY <1>0, <1>a, <2>1 DEF Greeting
  <2>3. QED
    BY <1>0, <1>b, <2>1, <2>2
<1>10. ASSUME NEW c \in Clients, SendReply(c) PROVE WelcomeInv'
  <2>1. Frame("reply") \in Frames /\ ~IsWelcome(Frame("reply"))
    BY FrameShapes DEF IsWelcome, Frame
  <2>2. /\ SendTo(c, Frame("reply")) /\ UNCHANGED <<handshaked, greeted>>
        /\ reader[c] = "routing" /\ reader' = [reader EXCEPT ![c] = "reading"]
    BY <1>10 DEF SendReply, ReaderOnly, Goto
  <2>3. handshaked[c]
    BY <1>a, <2>2 DEF Greeting
  <2>4. /\ Ordered(send'[c], greeted[c]) /\ (Holds(send'[c]) <=> Holds(send[c]))
        /\ \A d \in Clients \ {c} : send'[d] = send[d]
    BY <2>1, <2>2, <2>3, SentGreets
  <2>5. Greeting(reader'[c], handshaked'[c], greeted'[c], send'[c])
    BY <1>0, <1>a, <2>2, <2>3, <2>4 DEF Greeting
  <2>6. QED
    BY <1>0, <1>b, <2>2, <2>4, <2>5
<1>11. ASSUME NEW c \in Clients, ReadFails(c) \/ Unregister(c) \/ CloseSelf(c) PROVE WelcomeInv'
  <2>1. /\ UNCHANGED <<handshaked, greeted, send>>
        /\ \E r \in {"unregister", "close", "gone"} : reader' = [reader EXCEPT ![c] = r]
    BY <1>11 DEF ReadFails, Unregister, CloseSelf, ReaderOnly, Goto
  <2>2. Greeting(reader'[c], handshaked'[c], greeted'[c], send'[c])
    BY <1>0, <1>a, <2>1 DEF Greeting
  <2>3. QED
    BY <1>0, <1>b, <2>1, <2>2
<1>12. ASSUME NEW c \in Clients, WriteFrame(c) \/ WriterEnds(c) PROVE WelcomeInv'
  <2>1. UNCHANGED <<reader, handshaked>>
    BY <1>12 DEF WriteFrame, WriterEnds, WriterOnly
  <2>2. CASE UNCHANGED <<greeted, send>>
    BY <1>1, <2>1, <2>2
  <2>3. CASE /\ send[c] # <<>>
             /\ send' = [send EXCEPT ![c] = Tail(@)]
             /\ greeted' = [greeted EXCEPT ![c] = @ \/ Head(send[c]) = Frame("welcome")]
    <3>1. /\ send' = [send EXCEPT ![c] = Tail(@)]
          /\ greeted' = [greeted EXCEPT ![c] = @ \/ IsWelcome(Head(send[c]))]
      BY <2>3 DEF IsWelcome
    <3>2. greeted'[c] \in BOOLEAN /\ greeted'[c] = (greeted[c] \/ IsWelcome(Head(send[c])))
      BY <1>0, <3>1 DEF IsWelcome
    <3>3. send'[c] = Tail(send[c])
      BY <1>0, <3>1
    <3>4. /\ Ordered(send'[c], greeted'[c])
          /\ greeted'[c] \/ Holds(send'[c]) <=> greeted[c] \/ Holds(send[c])
      <4>1. PICK q, g, h : q = send[c] /\ g = greeted[c] /\ h = greeted'[c]
        OBVIOUS
      <4>2. /\ q \in Seq(Frames) /\ q # <<>> /\ g \in BOOLEAN /\ Ordered(q, g)
            /\ h \in BOOLEAN /\ h = (g \/ IsWelcome(Head(q)))
        BY <1>0, <1>a, <2>3, <3>2, <4>1 DEF Greeting
      <4>3. Ordered(Tail(q), h) /\ (h \/ Holds(Tail(q)) <=> g \/ Holds(q))
        BY <4>2, HeadTaken
      <4>4. QED
        BY <3>3, <4>1, <4>3
    <3>5. Greeting(reader'[c], handshaked'[c], greeted'[c], send'[c])
      BY <1>a, <2>1, <3>4 DEF Greeting
    <3>6. QED
      BY <1>0, <1>b, <2>1, <3>1, <3>5
  <2>4. CASE WriteFrame(c)
    BY <2>3, <2>4 DEF WriteFrame
  <2>5. CASE WriterEnds(c)
    BY <2>2, <2>3, <2>5 DEF WriterEnds
  <2>6. QED
    BY <1>12, <2>4, <2>5
<1>13. QED
  BY <1>2, <1>3, <1>4, <1>5, <1>6, <1>7, <1>8, <1>9, <1>10, <1>11, <1>12 DEF HubStep

LEMMA WelcomeInit == HubInit => WelcomeInv
BY DEF HubInit, WelcomeInv, Greeting, Ordered, Holds

LEMMA WelcomeStutter == WelcomeInv /\ UNCHANGED hubVars => WelcomeInv'
BY DEF WelcomeInv, hubVars, clientVars

LEMMA WelcomeShown == AllShapes /\ WelcomeInv => WelcomeFirst
<1> SUFFICES ASSUME AllShapes, WelcomeInv, NEW c \in Clients,
                    NEW W, W = {i \in DOMAIN send[c] : send[c][i] = Frame("welcome")}
             PROVE  /\ \A i \in DOMAIN send[c] :
                         send[c][i].type \in {"status", "reply"} =>
                           greeted[c] \/ \E j \in W : j < i
                    /\ Cardinality(W) <= IF greeted[c] THEN 0 ELSE 1
  BY DEF WelcomeFirst
<1>1. Ordered(send[c], greeted[c])
  BY DEF WelcomeInv, Greeting
<1>2. W \subseteq DOMAIN send[c] /\ \A i \in DOMAIN send[c] : i \in W <=> IsWelcome(send[c][i])
  BY DEF IsWelcome
<1>3. \A i \in DOMAIN send[c] :
        send[c][i].type \in {"status", "reply"} => greeted[c] \/ \E j \in W : j < i
  BY <1>1, <1>2 DEF Ordered, Promised
<1>4. CASE W = {}
  BY <1>3, <1>4, FS_EmptySet
<1>5. CASE W # {}
  <2>1. PICK w : w \in W
    BY <1>5
  <2>2. W = {w} /\ ~greeted[c]
    BY <1>1, <1>2, <2>1 DEF Ordered, Holds
  <2>3. Cardinality(W) = 1
    BY <2>2, FS_Singleton
  <2>4. QED
    BY <1>3, <2>2, <2>3
<1>6. QED
  BY <1>4, <1>5

(* Whatever the loop does during the handshake, and however full the queue *)
(* is, a client sees nothing but errors before its one welcome             *)
(* (server.go:240, PROTOCOL.md:37).                                        *)
THEOREM WelcomeComesFirst == HubSafety => []WelcomeFirst
<1> DEFINE Inv == AllShapes /\ ServiceInv /\ WelcomeInv
<1>1. HubInit => Inv
  BY ShapesInit, ServiceInit, WelcomeInit
<1>2. Inv /\ [HubNext]_hubVars => Inv'
  BY StepCases, ShapesStep, ShapesStutter, ServiceStep, ServiceStutter, WelcomeStep, WelcomeStutter
<1>3. Inv => WelcomeFirst
  BY WelcomeShown
<1>4. QED
  BY <1>1, <1>2, <1>3, PTL DEF HubSafety

----------------------------------------------------------------------------
(* What became of each status frame                                        *)

Accounted(c) ==
  c \in clients /\ handshaked[c] /\ ~panicked =>
    \A k \in 1 .. fleet : OnItsWay(c, k) \/ k \in settled[c]

AccountInv == \A c \in Clients : Accounted(c)

LEMMA AccountStep ==
  ASSUME AllShapes, ServiceInv, WelcomeInv, AccountInv, HubStep
  PROVE  AccountInv'
<1>0. /\ fleet \in Nat /\ clients \subseteq Clients /\ broadcast \in Seq(FrameIds)
      /\ handshaked \in [Clients -> BOOLEAN]
      /\ settled \in [Clients -> SUBSET FrameIds]
      /\ loop \in [at : {"idle", "taken", "sending", "stopped"}, frame : 0 .. MaxFrames,
                   rest : SUBSET Clients]
  BY HubAssumption DEF AllShapes, ServerShapes, FlagShapes, HistoryShapes
<1>a. ASSUME UNCHANGED <<fleet, broadcast, loop>>,
             clients' \subseteq clients,
             \A d \in clients' : handshaked'[d] => handshaked[d],
             ~panicked' => ~panicked,
             \A d \in Clients : settled[d] \subseteq settled'[d]
      PROVE  AccountInv'
  <2>1. ASSUME NEW d \in Clients, d \in clients', handshaked'[d], ~panicked', NEW k \in 1 .. fleet
        PROVE  OnItsWay(d, k)' \/ k \in settled'[d]
    <3>1. OnItsWay(d, k) \/ k \in settled[d]
      BY <1>a, <2>1 DEF AccountInv, Accounted
    <3>2. OnItsWay(d, k) => OnItsWay(d, k)'
      BY <1>a DEF OnItsWay
    <3>3. QED
      BY <1>a, <3>1, <3>2
  <2>2. QED
    BY <1>a, <2>1 DEF AccountInv, Accounted
<1>b. ASSUME NEW c \in Clients, NEW f \in Frames, SendTo(c, f)
      PROVE  /\ ~panicked' => ~panicked
             /\ \A d \in Clients : settled[d] \subseteq settled'[d]
             /\ ~panicked' => \A k \in FrameIds : f.id = k => k \in settled'[c]
  BY <1>0, <1>b DEF SendTo, Settle, FrameIds
<1>1. CASE Broadcast
  <2>1. /\ fleet' = fleet + 1
        /\ UNCHANGED <<loop, clients, handshaked, panicked>>
    BY <1>1 DEF Broadcast
  <2>2. ASSUME NEW d \in Clients, d \in clients, handshaked[d], ~panicked, NEW k \in 1 .. fleet + 1
        PROVE  OnItsWay(d, k)' \/ k \in settled'[d]
    <3>1. k \in 1 .. fleet => OnItsWay(d, k) \/ k \in settled[d]
      BY <2>2 DEF AccountInv, Accounted
    <3>2. k \in 1 .. fleet \/ k = fleet + 1
      BY <1>0
    <3>3. CASE Len(broadcast) < BroadcastBuffer
      <4>1. broadcast' = Append(broadcast, fleet + 1) /\ settled' = settled
        BY <1>1, <3>3 DEF Broadcast
      <4>2. /\ \A i \in DOMAIN broadcast : i \in DOMAIN broadcast' /\ broadcast'[i] = broadcast[i]
            /\ \E i \in DOMAIN broadcast' : broadcast'[i] = fleet + 1
        <5>1. Len(broadcast) \in Nat /\ DOMAIN broadcast = 1 .. Len(broadcast)
              /\ DOMAIN broadcast' = 1 .. Len(broadcast) + 1
          BY <1>0, <4>1
        <5>2. Len(broadcast) + 1 \in DOMAIN broadcast'
              /\ broadcast'[Len(broadcast) + 1] = fleet + 1
          BY <1>0, <4>1, <5>1
        <5>3. \A i \in DOMAIN broadcast : i \in DOMAIN broadcast' /\ broadcast'[i] = broadcast[i]
          BY <1>0, <4>1, <5>1
        <5>4. QED
          BY <5>2, <5>3
      <4>3. OnItsWay(d, k) => OnItsWay(d, k)'
        BY <2>1, <4>2 DEF OnItsWay
      <4>4. k = fleet + 1 => OnItsWay(d, k)'
        BY <4>2 DEF OnItsWay
      <4>5. QED
        BY <2>1, <3>1, <3>2, <4>1, <4>3, <4>4
    <3>4. CASE ~(Len(broadcast) < BroadcastBuffer)
      <4>1. broadcast' = broadcast /\ settled'[d] = settled[d] \cup {fleet + 1}
        BY <1>1, <2>2, <3>4 DEF Broadcast
      <4>2. OnItsWay(d, k) => OnItsWay(d, k)'
        BY <2>1, <4>1 DEF OnItsWay
      <4>3. QED
        BY <2>1, <3>1, <3>2, <4>1, <4>2
    <3>5. QED
      BY <3>3, <3>4
  <2>3. QED
    BY <2>1, <2>2 DEF AccountInv, Accounted
<1>2. CASE LoopTake \/ LoopLock \/ LoopUnlock \/ LoopStop
  <2>1. UNCHANGED <<fleet, clients, handshaked, panicked, settled>>
    BY <1>2 DEF LoopTake, LoopLock, LoopUnlock, LoopStop, clientVars
  <2>2. ASSUME NEW d \in clients, NEW k, OnItsWay(d, k) PROVE OnItsWay(d, k)'
    <3>1. CASE LoopTake
      <4>1. /\ broadcast' = Tail(broadcast) /\ broadcast # <<>>
            /\ loop'.at = "taken" /\ loop'.frame = Head(broadcast)
        BY <3>1 DEF LoopTake
      <4>2. PICK i \in DOMAIN broadcast : broadcast[i] = k
        BY <2>2, <3>1 DEF LoopTake, OnItsWay, ServiceInv, LoopInSet
      <4>3. CASE i = 1
        BY <1>0, <4>1, <4>2, <4>3 DEF OnItsWay
      <4>4. CASE i # 1
        <5>1. i - 1 \in DOMAIN broadcast' /\ broadcast'[i - 1] = k
          BY <1>0, <4>1, <4>2, <4>4
        <5>2. QED
          BY <5>1 DEF OnItsWay
      <4>5. QED
        BY <4>3, <4>4
    <3>2. CASE LoopLock
      <4>1. broadcast' = broadcast /\ loop'.frame = loop.frame /\ loop'.rest = clients
        BY <1>0, <3>2 DEF LoopLock
      <4>2. QED
        BY <2>2, <4>1 DEF OnItsWay
    <3>3. CASE LoopUnlock \/ LoopStop
      <4>1. broadcast' = broadcast /\ loop.at # "taken" /\ loop.rest = {}
        BY <3>3 DEF LoopUnlock, LoopStop, ServiceInv, LoopInSet
      <4>2. QED
        BY <2>2, <4>1 DEF OnItsWay
    <3>4. QED
      BY <1>2, <3>1, <3>2, <3>3
  <2>3. QED
    BY <1>0, <2>1, <2>2 DEF AccountInv, Accounted
<1>3. CASE Cancel
  BY <1>0, <1>3, <1>a DEF Cancel, clientVars
<1>4. CASE Shutdown
  BY <1>0, <1>4, <1>a DEF Shutdown
<1>5. ASSUME NEW c \in Clients, LoopSend(c) PROVE AccountInv'
  <2>1. /\ UNCHANGED <<fleet, broadcast, clients, handshaked>>
        /\ loop'.at = loop.at /\ loop'.frame = loop.frame /\ loop'.rest = loop.rest \ {c}
        /\ loop.at = "sending" /\ c \in loop.rest
    BY <1>0, <1>5 DEF LoopSend
  <2>2. loop.frame \in FrameIds
    BY <2>1 DEF AllShapes, ServerShapes
  <2>3. /\ ~panicked' => ~panicked
        /\ \A d \in Clients : settled[d] \subseteq settled'[d]
        /\ handshaked[c] /\ ~panicked' => loop.frame \in settled'[c]
    <3>1. CASE handshaked[c]
      <4>1. StatusFrame(loop.frame) \in Frames /\ StatusFrame(loop.frame).id = loop.frame
        BY <2>2, FrameShapes DEF StatusFrame
      <4>2. SendTo(c, StatusFrame(loop.frame))
        BY <1>5, <3>1 DEF LoopSend
      <4>3. QED
        BY <1>b, <2>2, <4>1, <4>2
    <3>2. CASE ~handshaked[c]
      BY <1>5, <3>2 DEF LoopSend
    <3>3. QED
      BY <3>1, <3>2
  <2>4. ASSUME NEW d \in Clients, d \in clients, handshaked[d], ~panicked', NEW k \in 1 .. fleet
        PROVE  OnItsWay(d, k)' \/ k \in settled'[d]
    <3>1. OnItsWay(d, k) \/ k \in settled[d]
      BY <2>3, <2>4 DEF AccountInv, Accounted
    <3>2. CASE OnItsWay(d, k) /\ ~OnItsWay(d, k)'
      <4>1. d = c /\ k = loop.frame
        BY <2>1, <3>2 DEF OnItsWay
      <4>2. QED
        BY <2>3, <2>4, <4>1
    <3>3. QED
      BY <2>1, <2>3, <3>1, <3>2
  <2>5. QED
    BY <2>1, <2>4 DEF AccountInv, Accounted
<1>6. ASSUME NEW c \in Clients, Connect(c) PROVE AccountInv'
  <2>1. reader[c] = "none"
    BY <1>6 DEF Connect, ServiceInv, ClosedIsLeft
  <2>2. ~handshaked[c]
    BY <2>1 DEF WelcomeInv, Greeting
  <2>3. /\ UNCHANGED <<fleet, broadcast, loop, handshaked, panicked, settled>>
        /\ clients' = clients \cup {c}
    BY <1>6 DEF Connect
  <2>4. \A d \in Clients, k \in 1 .. fleet : OnItsWay(d, k) <=> OnItsWay(d, k)'
    BY <2>3 DEF OnItsWay
  <2>5. QED
    BY <2>2, <2>3, <2>4 DEF AccountInv, Accounted
<1>7. ASSUME NEW c \in Clients,
        \/ Disconnect(c) \/ ReceiveHello(c) \/ ReceiveCommand(c) \/ SendWelcome(c) \/ ReadFails(c)
        \/ Unregister(c) \/ CloseSelf(c) \/ WriteFrame(c) \/ WriterEnds(c)
      PROVE AccountInv'
  <2>1. /\ UNCHANGED <<fleet, broadcast, loop, handshaked, settled>>
        /\ clients' \subseteq clients /\ (~panicked' => ~panicked)
    BY <1>7 DEF Disconnect, ReceiveHello, ReceiveCommand, SendWelcome, ReadFails, Unregister,
       CloseSelf, WriteFrame, WriterEnds, ReaderOnly, WriterOnly, serverVars
  <2>2. QED
    BY <1>a, <2>1
<1>8. ASSUME NEW c \in Clients, ReceiveRefused(c) \/ SendReply(c) PROVE AccountInv'
  <2>1. UNCHANGED <<fleet, broadcast, loop, clients, handshaked>>
    BY <1>8 DEF ReceiveRefused, SendReply, ReaderOnly, serverVars
  <2>2. (~panicked' => ~panicked) /\ \A d \in Clients : settled[d] \subseteq settled'[d]
    BY <1>8, <1>b, FrameShapes DEF ReceiveRefused, SendReply
  <2>3. QED
    BY <1>a, <2>1, <2>2
<1>9. ASSUME NEW c \in Clients, SetHandshaked(c) PROVE AccountInv'
  <2>1. /\ UNCHANGED <<fleet, broadcast, loop, clients, panicked>>
        /\ handshaked' = [handshaked EXCEPT ![c] = TRUE]
        /\ settled' = [settled EXCEPT ![c] = @ \cup PassedBy(c)]
    BY <1>9 DEF SetHandshaked, ReaderOnly, serverVars
  <2>2. \A d \in Clients, k \in 1 .. fleet : OnItsWay(d, k) => OnItsWay(d, k)'
    BY <2>1 DEF OnItsWay
  <2>3. \A d \in Clients \ {c} : Accounted(d)'
    BY <1>0, <2>1, <2>2 DEF AccountInv, Accounted
  <2>4. ASSUME c \in clients, NEW k \in 1 .. fleet, k \notin PassedBy(c)
        PROVE  OnItsWay(c, k)
    BY <2>4 DEF PassedBy, OnItsWay
  <2>5. Accounted(c)'
    BY <1>0, <2>1, <2>2, <2>4 DEF Accounted
  <2>6. QED
    BY <2>3, <2>5 DEF AccountInv
<1>10. QED
  BY <1>1, <1>2, <1>3, <1>4, <1>5, <1>6, <1>7, <1>8, <1>9 DEF HubStep

LEMMA AccountInit == HubInit => AccountInv
BY DEF HubInit, AccountInv, Accounted

LEMMA AccountStutter == AccountInv /\ UNCHANGED hubVars => AccountInv'
BY DEF AccountInv, Accounted, OnItsWay, hubVars, serverVars, clientVars

(* The code drops status frames at two full queues (server.go:128 and      *)
(* client.go's Send), although PROTOCOL.md:57 and 126 say they are never   *)
(* dropped; nothing else, whatever the other clients do, loses a frame to  *)
(* a client that completed the handshake before its turn.                  *)
THEOREM FramesAreAccountedFor == HubSafety => []EveryFrameAccounted
<1> DEFINE Inv == AllShapes /\ ServiceInv /\ WelcomeInv /\ AccountInv
<1>1. HubInit => Inv
  BY ShapesInit, ServiceInit, WelcomeInit, AccountInit
<1>2. Inv /\ [HubNext]_hubVars => Inv'
  BY StepCases, ShapesStep, ShapesStutter, ServiceStep, ServiceStutter, WelcomeStep,
     WelcomeStutter, AccountStep, AccountStutter
<1>3. Inv => EveryFrameAccounted
  BY Shapes DEF AllShapes, ServerShapes, AccountInv, Accounted, EveryFrameAccounted
<1>4. QED
  BY <1>1, <1>2, <1>3, PTL DEF HubSafety
=============================================================================
