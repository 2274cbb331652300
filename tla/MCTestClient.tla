---------------------------- MODULE MCTestClient ----------------------------
(* TestClient on a small fleet and a few command lines. *)
EXTENDS TestClient

(* The flags' defaults (main.go:19-42). *)
Defaults ==
  [badVersion |-> FALSE, skipHello |-> FALSE, duration |-> FALSE, cmd |-> "",
   vid |-> "ugv", lat |-> 38, lng |-> -122, speed |-> 7, mode |-> "autonomous",
   ext |-> "husky", action |-> "", sensitivity |-> 75, burst |-> 0, wait |-> FALSE]

Cmd(c) == [Defaults EXCEPT !.cmd = c]
Husky(a) == [Cmd("ext") EXCEPT !.action = a]
Burst(c, n) == [Cmd(c) EXCEPT !.burst = n]

MCInvocations ==
  {[Defaults EXCEPT !.badVersion = TRUE, !.cmd = "stop"],
   [Defaults EXCEPT !.skipHello = TRUE],
   Defaults, [Defaults EXCEPT !.duration = TRUE],
   Cmd("goto"), [Cmd("set_mode") EXCEPT !.mode = "sport"], [Cmd("set_mode") EXCEPT !.wait = TRUE],
   Cmd("set_speed"), [Cmd("stop") EXCEPT !.vid = "uav"], [Cmd("stop") EXCEPT !.vid = "usv"],
   Cmd("dance"), Husky("setDriveMode"), Husky("setBumperSensitivity"),
   [Husky("setBumperSensitivity") EXCEPT !.sensitivity = -1], [Husky("triggerEStop") EXCEPT !.ext = "skydio"],
   [Cmd("goto") EXCEPT !.lat = 91], [Cmd("set_speed") EXCEPT !.speed = -1],
   Burst("stop", 2), Burst("set_mode", 2), [Burst("stop", 1) EXCEPT !.vid = "_client"]}

(* The default sensitivity, and the ends of what such a field holds.       *)
MCUint32 == {0, 75, 99}

(* One vehicle that advertised nothing, one that refuses to stop. *)
MCFleet ==
  [ugv |-> [legacy |-> TRUE, caps |-> [commands |-> {}, extensions |-> <<>>]],
   uav |-> [legacy |-> FALSE, caps |-> [commands |-> {"goto"}, extensions |-> <<>>]]]

(* A test client in another terminal; the Tower UI, with an altitude and   *)
(* no speed. *)
MCOtherCommands ==
  {Command("stop", "ugv", [commandId |-> BurstId(1)]),
   Command("goto", "uav", [commandId |-> 2,
                           destination |-> [lat |-> 38, lng |-> -122, altMsl |-> 120]])}
=============================================================================
