--------------------------- MODULE MCBasicExamples ---------------------------
(* The three example pairs have nothing to do with each other: a behaviour   *)
(* is one of one pair.  Bounds for TLC: three clients, and as many datagrams *)
(* of an endpoint as it takes to be known, to start a thread and to be shown.*)
EXTENDS BasicTcp, BasicUdp, BasicVehicle

VARIABLE pair

Init == pair \in {"tcp", "udp", "vehicle"} /\ TcpInit /\ UdpInit /\ VehicleInit

NextTcp == pair = "tcp" /\ TcpNext /\ UNCHANGED <<pair, udpVars, vehicleVars>>
NextUdp == pair = "udp" /\ UdpNext /\ UNCHANGED <<pair, tcpVars, vehicleVars>>
NextVehicle == pair = "vehicle" /\ VehicleNext /\ UNCHANGED <<pair, tcpVars, udpVars>>

Next == NextTcp \/ NextUdp \/ NextVehicle

allVars == <<pair, tcpVars, udpVars, vehicleVars>>

(* The tcp server runs, and a client reads what has come.  The users type    *)
(* when they like, or not at all.                                            *)
Fairness ==
    /\ WF_allVars(NextTcp /\ TcpServer)
    /\ \A c \in Clients : WF_allVars(NextTcp /\ (ReadGreeting(c) \/ ReadEof(c)))

Spec == Init /\ [][Next]_allVars /\ Fairness
=============================================================================
