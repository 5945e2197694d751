------------------------------ MODULE MCPositions ------------------------------
(* Instances of Positions for TLC: a device creeps away in two steps, each of  *)
(* them around the one before, and comes back at once; a second is silent.     *)
EXTENDS Positions, TLC

CONSTANTS d1, d2, r1, r2

MCDevices == {d1, d2}

FixAt(t, place, address) ==
    [device |-> d1, time |-> t, latitude |-> place, longitude |-> -place, address |-> address]
Return  == FixAt(4, 0, FALSE)
MCFixes == {FixAt(1, 0, TRUE), FixAt(2, 1, FALSE), FixAt(3, 2, FALSE), Return}

Question(url, of, from, to) == [url |-> url, of |-> of, from |-> from, to |-> to]

(* All the past of a device, and a part of it.                                *)
PastAsks == {Question("devices/id/past-positions", d1, 0, 9),
             Question("devices/id/past-positions", d1, 2, 3)}

(* One request asks for the past; what the other asks besides shares nothing   *)
(* with it.  None stands for what Traccar does not know.                      *)
MCAsks == r1 :> PastAsks @@
          r2 :> PastAsks
                \cup {Question("devices/id/positions", d1, 0, 0), Question("positions/id", Return, 0, 0),
                      Question("positions?deviceId", d2, 0, 0)}
                \cup {Question(url, None, 0, 0) :
                         url \in {"devices", "devices/id", "devices?uniqueId", "positions",
                                  "positions/latest"}}
=============================================================================
