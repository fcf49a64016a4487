-------------------------------- MODULE Socket --------------------------------
(***************************************************************************)
(* One sylar::Socket or SSLSocket object (socket.cpp) in the hands of one  *)
(* thread: the descriptor it owns, whether it counts as connected, and the *)
(* addresses it remembers.  Descriptors the object has closed are given    *)
(* out again by the kernel, to it or to other parts of the program.        *)
(***************************************************************************)
EXTENDS Integers

CONSTANTS Descriptor,   \* descriptors, lowest free first
          MaxSocks      \* bound: descriptors the object gets in its life

ASSUME SockAssumption ==
  Descriptor \subseteq Nat \ {0} /\ Descriptor # {} /\ MaxSocks \in Nat \ {0}

NoSock == 0             \* stands for -1, a null pointer or no address

VARIABLES
  family, type, ssl,      \* "IPv4" or "UNIX", "TCP" or "UDP"; an SSLSocket
  m_sock, m_isConnected,
  m_localAddress,         \* the socket of the object it is from, or NoSock
  m_remoteAddress,        \* whether there is one
  m_ssl,                  \* the descriptor given to SSL_set_fd
  socks,                  \* which of its sockets the object is at
  owner,                  \* kernel: whose each descriptor is
  reopened,               \* ghost: opened again, and not by reconnect()
  crashed

stateVars == <<m_sock, m_isConnected, m_localAddress, m_remoteAddress, m_ssl>>
sockVars == <<family, type, ssl, stateVars, socks, owner, reopened, crashed>>
fixedVars == <<family, type, ssl>>

Lowest(own) ==
  CHOOSE d \in Descriptor : own[d] = "free" /\ \A e \in Descriptor : own[e] = "free" => d <= e

(* Created, with the descriptor still to come; created for UDP, with one,  *)
(* or none when socket() fails, and connected in either case; or returned  *)
(* by accept(): init() has set the descriptor and fetched both addresses,  *)
(* which for AF_UNIX goes through a null pointer.  A failed handshake      *)
(* destroys the new object.                                                *)
SockInit ==
  /\ family \in {"IPv4", "UNIX"} /\ type \in {"TCP", "UDP"} /\ ssl \in BOOLEAN
  /\ ssl => type = "TCP"
  /\ crashed = FALSE /\ reopened = FALSE
  /\ LET d == CHOOSE e \in Descriptor : \A g \in Descriptor : e <= g
         got == [e \in Descriptor |-> IF e = d THEN "self" ELSE "free"]
     IN  \/ /\ type = "TCP" \/ family = "UNIX"
            /\ m_sock = NoSock /\ m_isConnected = FALSE /\ socks = 0
            /\ m_localAddress = NoSock /\ m_remoteAddress = FALSE /\ m_ssl = NoSock
            /\ owner = [e \in Descriptor |-> "free"]
         \/ /\ type = "UDP" /\ family = "IPv4"
            /\ m_isConnected = TRUE /\ socks = 1
            /\ m_localAddress = NoSock /\ m_remoteAddress = FALSE /\ m_ssl = NoSock
            /\ \/ m_sock = d /\ owner = got
               \/ m_sock = NoSock /\ owner = [e \in Descriptor |-> "free"]
         \/ /\ type = "TCP" /\ family = "IPv4"
            /\ m_sock = d /\ m_isConnected = TRUE /\ socks = 1
            /\ m_localAddress = 1 /\ m_remoteAddress = TRUE
            /\ m_ssl = IF ssl THEN d ELSE NoSock
            /\ owner = got

(* Other parts of the program open and close descriptors.                  *)
Others ==
  /\ \E d \in Descriptor :
       \/ owner[d] = "free" /\ d = Lowest(owner) /\ owner' = [owner EXCEPT ![d] = "other"]
       \/ owner[d] = "other" /\ owner' = [owner EXCEPT ![d] = "free"]
  /\ UNCHANGED <<fixedVars, stateVars, socks, reopened, crashed>>

(* close(), of an object that may have no descriptor.                      *)
Dropped(own) == IF m_sock = NoSock THEN own ELSE [own EXCEPT ![m_sock] = "free"]

(* isValid(), or newSock() with a descriptor it got from the kernel.       *)
HasSock(d, own) ==
  \/ m_sock # NoSock /\ d = m_sock /\ own = owner /\ UNCHANGED socks
  \/ /\ m_sock = NoSock /\ socks < MaxSocks
     /\ \E e \in Descriptor : owner[e] = "free"
     /\ d = Lowest(owner) /\ own = [owner EXCEPT ![d] = "self"]
     /\ socks' = socks + 1

(* getLocalAddress(): what is remembered, else asked of the descriptor.    *)
Local(cached) == IF cached = NoSock THEN socks' ELSE cached

(* An address object for AF_UNIX is never made, but used.                  *)
FetchLocal(cached) ==
  IF cached = NoSock /\ family = "UNIX"
    THEN crashed' = TRUE /\ m_localAddress' = NoSock
    ELSE m_localAddress' = Local(cached) /\ UNCHANGED crashed

(* bind(): the descriptor stays when ::bind() fails.                       *)
Bind ==
  \E d \in Descriptor, own \in [Descriptor -> {"free", "self", "other"}] :
    /\ HasSock(d, own)
    /\ reopened' = (reopened \/ (m_sock = NoSock /\ socks > 0))
    /\ m_sock' = d /\ owner' = own
    /\ \/ FetchLocal(m_localAddress)
       \/ UNCHANGED <<m_localAddress, crashed>>
    /\ UNCHANGED <<fixedVars, m_isConnected, m_remoteAddress, m_ssl>>

(* connect() from a remembered local address: refused or timed out, it     *)
(* closes; an address of another family is refused with the descriptor     *)
(* open.  A failed TLS handshake returns false and leaves all as after a   *)
(* success.                                                                *)
Connecting(cached) ==
  \E d \in Descriptor, own \in [Descriptor -> {"free", "self", "other"}] :
    /\ HasSock(d, own)
    /\ m_remoteAddress' = TRUE
    /\ \/ /\ m_sock' = d /\ owner' = own
          /\ m_isConnected' = TRUE
          /\ FetchLocal(cached)
          /\ m_ssl' = IF ssl THEN d ELSE m_ssl
       \/ /\ m_sock' = NoSock /\ owner' = [own EXCEPT ![d] = "free"]
          /\ m_isConnected' = FALSE /\ m_localAddress' = cached
          /\ UNCHANGED <<m_ssl, crashed>>
       \/ /\ m_sock' = d /\ owner' = own
          /\ m_localAddress' = cached
          /\ UNCHANGED <<m_isConnected, m_ssl, crashed>>
    /\ UNCHANGED fixedVars

Connect ==
  /\ Connecting(m_localAddress)
  /\ reopened' = (reopened \/ (m_sock = NoSock /\ socks > 0))

(* reconnect() forgets the local address first.                            *)
Reconnect ==
  /\ m_remoteAddress
  /\ Connecting(NoSock)
  /\ UNCHANGED reopened

(* Mutant: close() leaves m_isConnected and m_sock as they are.            *)
Closed_Kept == UNCHANGED <<m_sock, m_isConnected>>

Closed == m_isConnected' = FALSE /\ m_sock' = NoSock

Close ==
  /\ m_isConnected \/ m_sock # NoSock
  /\ Closed
  /\ owner' = Dropped(owner)
  /\ UNCHANGED <<fixedVars, m_localAddress, m_remoteAddress, m_ssl, socks, reopened, crashed>>

SockNext == ~crashed /\ (Others \/ Bind \/ Connect \/ Reconnect \/ Close)

(* The descriptor that send(), sendTo(), recv() and recvFrom() use.        *)
Used == IF ssl THEN m_ssl ELSE IF m_isConnected THEN m_sock ELSE NoSock

-----------------------------------------------------------------------------
(* Types; only a Unix socket crashes (socket.cpp:336, 364).                *)
SockTypeOK ==
  /\ m_sock \in Descriptor \cup {NoSock} /\ m_isConnected \in BOOLEAN
  /\ m_localAddress \in 0 .. MaxSocks /\ m_remoteAddress \in BOOLEAN
  /\ m_ssl \in Descriptor \cup {NoSock}
  /\ socks \in 0 .. MaxSocks
  /\ owner \in [Descriptor -> {"free", "self", "other"}]
  /\ reopened \in BOOLEAN
  /\ crashed => family = "UNIX"

(* What is sent goes to the object's own descriptor, however often it was  *)
(* closed and others got the number (socket.cpp:242-317).  That of an      *)
(* SSLSocket does not: close() leaves m_ssl, with the number, as it is     *)
(* (socket.cpp:496, 500).                                                  *)
SendsToOwn == Used # NoSock /\ ~ssl => owner[Used] = "self"

(* The local address remembered is that of the descriptor in use, when     *)
(* the object is opened again by reconnect() alone (socket.cpp:175, 348).  *)
LocalIsOwn == m_sock # NoSock /\ m_localAddress # NoSock => m_localAddress = socks \/ reopened

(* Both at once.                                                           *)
SocketOwn == SendsToOwn /\ LocalIsOwn
=============================================================================
