-------------------------------- MODULE MCStp --------------------------------
EXTENDS Stp
Network(lans) == [r \in Bridges \X Ports |-> lans[r[1]][r[2]]]
(* A triangle, two bridges on the same two LANs, and a bridge with two      *)
(* ports on one LAN.                                                        *)
Triangle == Network(<< <<1, 2>>, <<1, 3>>, <<2, 3>> >>)
Parallel == Network(<< <<1, 2>>, <<1, 2>>, <<2, 0>> >>)
Looped   == Network(<< <<1, 1>>, <<1, 0>>, <<1, 0>> >>)
MCOrders == {<<3, 2, 1>>}
MCLate == {{}, {<<1, 1>>}}
MCNetworks == {Triangle, Parallel, Looped}
=============================================================================
