---------------------------- MODULE MCSocketWatch ----------------------------
(* Constants of the runs of SocketWatch.                                   *)
EXTENDS SocketWatch, TLC

CONSTANTS w1, w2, a, b

PortsOf == [w \in Watch |-> IF w = w1 THEN a ELSE b]

(* A server over IPv4 on one port, with or without a client, and one over  *)
(* IPv6 with a client on the other.                                        *)
Listings ==
    (a :> {{}, {<<"AF_INET", "TCP_LISTEN">>},
           {<<"AF_INET", "TCP_LISTEN">>, <<"AF_INET", "TCP_ESTABLISHED">>}}) @@
    (b :> {{}, {<<"AF_INET6", "TCP_LISTEN">>, <<"AF_INET6", "TCP_ESTABLISHED">>}})

AllTroubles == {"thread", "memory", "netlink", "busy"}
NoTrouble == {}
=============================================================================
