---------------------------- MODULE MCTestSender ----------------------------
(* TestSender with coarse headings and places, and few sequence numbers. *)
EXTENDS TestSender

Line(env, caps) ==
  [vid |-> "ugv", env |-> env, rate |-> 10, caps |-> caps, list |-> {"goto"},
   bytes |-> [vid |-> 3, type |-> 0, caps |-> 40]]

(* Too long for a heartbeat, and for both kinds of datagram. *)
MCCommandLines ==
  {Line("ground", "all"), Line("air", "no-stop"), Line("marine", "no-goto"),
   Line("space", "custom"),
   [Line("ground", "all") EXCEPT !.rate = 0], [Line("ground", "all") EXCEPT !.rate = -1],
   [Line("ground", "all") EXCEPT !.rate = MaxRate + 1],
   [Line("air", "all") EXCEPT !.bytes["type"] = MaxUDPFrameSize],
   [Line("marine", "all") EXCEPT !.bytes["vid"] = MaxUDPFrameSize]}
MCVehicles == {"ugv"}
MCLatitudes == {32, 34, 90, 91}
MCLongitudes == {-181, -180, -85, -81}
=============================================================================
