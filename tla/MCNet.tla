-------------------------------- MODULE MCNet --------------------------------
(***************************************************************************)
(* The descriptor table, one Socket and the TCP server, one after another: *)
(* a behaviour is one of a single part, the other two stay at one state of *)
(* their own, so that the state spaces add up and do not multiply.  What   *)
(* one part gives another is modelled where it is used.                    *)
(***************************************************************************)
EXTENDS Descriptors, Socket, Server

VARIABLE part

netVars == <<part, descVars, sockVars, srvVars>>

SomeSocket == family = "IPv4" /\ type = "TCP" /\ ~ssl /\ socks = 0
AllHooked == \A t \in Thread : hooked[t]

NetInit ==
  /\ part \in {"descriptors", "socket", "server"}
  /\ DescInit /\ SockInit /\ SrvInit
  /\ part # "descriptors" => AllHooked
  /\ part # "socket" => SomeSocket

NetNext ==
  \/ /\ part = "descriptors" /\ DescNext
     /\ UNCHANGED <<part, sockVars, srvVars>>
  \/ /\ part = "socket" /\ SockNext
     /\ UNCHANGED <<part, descVars, srvVars>>
  \/ /\ part = "server" /\ SrvNext
     /\ UNCHANGED <<part, descVars, sockVars>>

(* The other parts' workers have nothing to run: SrvFairness asks nothing. *)
NetSpec == NetInit /\ [][NetNext]_netVars /\ SrvFairness

(* The types of the three parts.                                           *)
NetTypeOK == DescTypeOK /\ SockTypeOK /\ SrvTypeOK
=============================================================================
