-------------------------------- MODULE Address --------------------------------
(***************************************************************************)
(* sylar::Address (address.cpp): the host strings that Lookup() takes      *)
(* apart, "node[:service]", the text of an IPv6 address, the swapping of   *)
(* bytes on a little-endian machine and the order of addresses.            *)
(***************************************************************************)
EXTENDS Integers, Sequences, FiniteSets

CONSTANTS Sign,      \* what a host string is made of: "[", ":", "]" and others
          MaxHost,   \* bound on its length
          Ports

(* A port is a uint16_t.                                                   *)
Word == 0 .. 65535

ASSUME AddrAssumption ==
  {"[", ":", "]"} \subseteq Sign /\ MaxHost \in Nat /\ Ports \subseteq Word

VARIABLES
  host,              \* a string for Lookup()
  groups             \* the groups of an IPv6 address, by whether they are zero

addrVars == <<host, groups>>

AddrInit == host = <<>> /\ groups = [i \in 1 .. 8 |-> 0]

(* Any host and any address.                                               *)
AddrNext ==
  \/ /\ groups = [i \in 1 .. 8 |-> 0] /\ Len(host) < MaxHost
     /\ \E c \in Sign : host' = Append(host, c)
     /\ UNCHANGED groups
  \/ /\ host = <<>>
     /\ \E i \in 1 .. 8 : groups' = [groups EXCEPT ![i] = 1]
     /\ UNCHANGED host

-----------------------------------------------------------------------------
(* Where a sign stands first; 0 if nowhere.                                *)
Find(h, c) ==
  LET at == {i \in DOMAIN h : h[i] = c}
  IN  IF at = {} THEN 0 ELSE CHOOSE i \in at : \A k \in at : i <= k

Refused == [node |-> <<>>, service |-> <<>>]

(* What Lookup() hands to getaddrinfo(), if the node is not empty.  A ']'  *)
(* before the ':' makes the length of the service a huge one: it goes to   *)
(* the end.                                                                *)
Split(h) ==
  LET left == Find(h, "[")   mid == Find(h, ":")   right == Find(h, "]")
      end == IF right <= mid THEN Len(h) ELSE right - 1
  IN  IF left = 1 \/ (left # 0 /\ (mid = 0 \/ right = 0)) THEN Refused
      ELSE [node |-> IF left = 0 THEN h ELSE SubSeq(h, 1, left - 1),
            service |-> IF left = 0 THEN <<>> ELSE SubSeq(h, mid + 1, end)]

-----------------------------------------------------------------------------
Colon == -1

(* Mutant: a run of zeros is left out whether or not one was before.       *)
Skips_Always(a, i, used) == a[i] = 0

(* Zeros are left out until a run of them has been written as "::".        *)
Skips(a, i, used) == a[i] = 0 /\ ~used

(* IPv6Address::insert(), between the brackets.                            *)
Text6(a) ==
  LET from[p \in (1 .. 9) \X BOOLEAN] ==
        LET i == p[1]   used == p[2]
            first == i > 1 /\ a[i - 1] = 0 /\ ~used
        IN  IF i = 9 THEN IF ~used /\ a[8] = 0 THEN <<Colon, Colon>> ELSE <<>>
            ELSE IF Skips(a, i, used) THEN from[<<i + 1, used>>]
            ELSE (IF first THEN <<Colon>> ELSE <<>>) \o (IF i > 1 THEN <<Colon>> ELSE <<>>)
                   \o <<a[i]>> \o from[<<i + 1, used \/ first>>]
  IN  from[<<1, FALSE>>]

(* The numbers in a text, in order: the n-th has n of them up to it.       *)
Numbers(t) ==
  LET at == {n \in DOMAIN t : t[n] # Colon}
  IN  [n \in 1 .. Cardinality(at) |->
         t[CHOOSE p \in at : Cardinality({q \in at : q <= p}) = n]]

(* inet_pton(): the groups before and after "::", zeros between.           *)
Parse6(s) ==
  LET gaps == {i \in 1 .. Len(s) - 1 : s[i] = Colon /\ s[i + 1] = Colon}
      gap == CHOOSE i \in gaps : TRUE
      before == Numbers(SubSeq(s, 1, gap))
      after == Numbers(SubSeq(s, gap, Len(s)))
  IN  IF gaps = {} THEN Numbers(s)
      ELSE IF Cardinality(gaps) > 1 THEN <<>>
      ELSE before \o [i \in 1 .. 8 - Len(before) - Len(after) |-> 0] \o after

-----------------------------------------------------------------------------
ByteSwap(v) == (v % 256) * 256 + v \div 256

(* setPort() and the constructors keep the port swapped, getPort() swaps.  *)
GetPort(sin_port) == ByteSwap(sin_port)

(* memcmp(): the first byte that differs; n bytes are compared.            *)
Before(x, y, n) ==
  \E i \in 1 .. n : x[i] < y[i] /\ \A k \in 1 .. i - 1 : x[k] = y[k]

(* operator<: an address is its bytes, whose number tells the family, too. *)
Less(x, y) ==
  LET n == IF Len(x) < Len(y) THEN Len(x) ELSE Len(y)
  IN  Before(x, y, n) \/ (~Before(y, x, n) /\ Len(x) < Len(y))

-----------------------------------------------------------------------------
(* "node[:service]" is split as it says, if the node has no sign of its    *)
(* own (address.cpp:56): an IPv6 node is taken apart at its own colons.    *)
HostSplit ==
  \A n \in 1 .. Len(host) :
    LET node == SubSeq(host, 1, n)
        rest == SubSeq(host, n + 1, Len(host))
        service == SubSeq(rest, 3, Len(rest) - 1)
        Plain(t, signs) == \A i \in DOMAIN t : t[i] \notin signs
    IN  /\ Len(rest) >= 3 /\ rest[1] = "[" /\ rest[2] = ":" /\ rest[Len(rest)] = "]"
        /\ Plain(node, {"[", ":", "]"}) /\ Plain(service, {"]"})
        => Split(host) = [node |-> node, service |-> service]

(* The text of an IPv6 address is read as that address (address.cpp:267).  *)
TextRead6 == Parse6(Text6(groups)) = groups

PortsKept == \A p \in Ports : GetPort(ByteSwap(p)) = p

(* operator< orders addresses strictly and totally, those of different     *)
(* lengths too, so that they can be keys of maps (address.cpp:118).        *)
StrictOrder ==
  LET Addr == UNION {[1 .. n -> 0 .. 1] : n \in 1 .. 2}
  IN  \A x, y \in Addr :
        /\ Less(x, y) => ~Less(y, x)
        /\ x # y => Less(x, y) \/ Less(y, x)
        /\ \A z \in Addr : Less(x, y) /\ Less(y, z) => Less(x, z)

(* Hosts, texts, ports and the order.                                      *)
AddressSound == HostSplit /\ TextRead6 /\ PortsKept /\ StrictOrder
=============================================================================
