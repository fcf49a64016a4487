--------------------------- MODULE IOManagerProofs ---------------------------
(***************************************************************************)
(* Proofs about IOManager, for every number of descriptors, contexts,      *)
(* workers and clients, and every size of the pipe.                        *)
(*                                                                         *)
(* The argument: a call has its descriptor to itself, and an entry of the  *)
(* map has its context to itself, so a call disturbs one descriptor only.  *)
(* That one is in order before addEvent() and after it; what addEvent()    *)
(* leaves open between its two halves is said in AddingHolds.              *)
(***************************************************************************)
EXTENDS IOManager, TLAPS

-----------------------------------------------------------------------------
(* The inductive invariant.                                                *)

(* What epoll_wait gave a worker names a descriptor, a context and events. *)
Item == [ptr : Ctx, fd : Fd, events : SUBSET (Event \cup {"ERR"})]
Arrays == epvs \in [Worker -> SUBSET Item]

(* A call is about a descriptor with an entry, and no other call is.       *)
OneCall ==
  /\ \A k \in Client : cpc[k] # "free" => cfd[k] \in Fd /\ m_events[cfd[k]] # NoCtx
  /\ \A j, k \in Client :
       cpc[j] # "free" /\ cpc[k] # "free" /\ cfd[j] = cfd[k] => j = k

(* Every entry has a live context of its own.                              *)
OwnContext ==
  /\ \A f \in Fd : m_events[f] # NoCtx => m_events[f] \in live
  /\ \A f, g \in Fd : m_events[f] # NoCtx /\ m_events[f] = m_events[g] => f = g

(* The interest list points where the map points, and lists as ready only  *)
(* what it watches.                                                        *)
ThroughEntry ==
  \A f \in Fd :
    /\ mask[f] = {} => data[f] = NoCtx
    /\ mask[f] # {} => m_events[f] # NoCtx /\ data[f] = m_events[f]
ListedWatched == \A f \in Fd : listed[f] => mask[f] # {}

(* An entry whose EPOLL_CTL_ADD failed is an entry that is not watched.    *)
HalfUnwatched == \A f \in halfAdded : m_events[f] # NoCtx /\ mask[f] = {}

(* Outside addEvent() a descriptor is in order ...                         *)
Adding(f) == \E k \in Client : cpc[k] = "addCtl" /\ cfd[k] = f
InOrder(f) ==
  /\ mask[f] # {} <=> m_events[f] # NoCtx /\ f \notin halfAdded
  /\ mask[f] # {} => data[f] = m_events[f] /\ mask[f] = {events_now[m_events[f]]}
OrderUnlessAdding == \A f \in Fd : Adding(f) \/ InOrder(f)

(* ... and between the two halves of addEvent() the context is set to the  *)
(* event of the call, and epoll_ctl is about to be asked for an ADD exactly*)
(* when the entry is new.                                                  *)
AddingHolds ==
  \A k \in Client : cpc[k] = "addCtl" =>
    /\ events_now[m_events[cfd[k]]] = cev[k]
    /\ cop[k] = "ADD" => mask[cfd[k]] = {} /\ cfd[k] \notin halfAdded
    /\ cop[k] = "MOD" => (mask[cfd[k]] = {} <=> cfd[k] \in halfAdded)

MapInv == OneCall /\ OwnContext /\ ThroughEntry /\ HalfUnwatched
            /\ OrderUnlessAdding /\ AddingHolds

Inv == TypeOK /\ Arrays /\ ListedWatched /\ MapInv

(* Nothing is registered, nobody calls: the invariant holds at first.      *)
LEMMA InitInv == Init => Inv
PROOF
<1> SUFFICES ASSUME Init PROVE Inv
  OBVIOUS
<1> USE IOAssumption DEF Init
<1>1. TypeOK
  <2>1. /\ m_events \in [Fd -> Ctx \cup {NoCtx}]
        /\ events_now \in [Ctx -> Event] /\ slots \in [Ctx -> SUBSET Event]
        /\ live \subseteq Ctx
    BY DEF Event
  <2>2. /\ mask \in [Fd -> SUBSET Event] /\ data \in [Fd -> Ctx \cup {NoCtx}]
        /\ level \in [Fd -> SUBSET (Event \cup {"ERR"})] /\ listed \in [Fd -> BOOLEAN]
    OBVIOUS
  <2>3. /\ pipe \in 0 .. PipeCap /\ arrivals \in 0 .. MaxArrivals
        /\ queued \subseteq Fd \X Event /\ halfAdded \subseteq Fd
    OBVIOUS
  <2>b. pipeListed \in BOOLEAN /\ corrupt \in BOOLEAN
    OBVIOUS
  <2>4. /\ wpc \in [Worker -> {"wait", "handle", "tickle"}]
        /\ \A w \in Worker : \A i \in epvs[w] : i.ptr \in Ctx /\ i.fd \in Fd
        /\ hitPipe \in [Worker -> BOOLEAN]
    OBVIOUS
  <2>5. /\ cpc \in [Client -> {"free", "addCtl", "del", "delRun", "cancel", "change"}]
        /\ cfd \in [Client -> Fd \cup {NoFd}] /\ cev \in [Client -> Event]
        /\ cop \in [Client -> {"ADD", "MOD"}]
    BY DEF Event
  <2> QED
    BY <2>1, <2>2, <2>3, <2>4, <2>5, <2>b DEF TypeOK
<1>2. Arrays /\ ListedWatched
  BY DEF Arrays, ListedWatched
<1>3. OneCall /\ OwnContext /\ ThroughEntry
  BY DEF OneCall, OwnContext, ThroughEntry
<1>4. HalfUnwatched /\ OrderUnlessAdding /\ AddingHolds
  BY DEF HalfUnwatched, OrderUnlessAdding, InOrder, AddingHolds
<1> QED
  BY <1>1, <1>2, <1>3, <1>4 DEF Inv, MapInv

-----------------------------------------------------------------------------
(* The kernel, the workers and the scheduler leave map, interest list and  *)
(* calls alone.                                                            *)
LEMMA SameMap ==
  ASSUME MapInv, UNCHANGED <<mapVars, mask, data, clientVars, halfAdded>>
  PROVE  MapInv'
PROOF
<1> USE DEF mapVars, clientVars
<1>1. OneCall' /\ OwnContext' /\ ThroughEntry'
  BY DEF MapInv, OneCall, OwnContext, ThroughEntry
<1>2. HalfUnwatched' /\ OrderUnlessAdding' /\ AddingHolds'
  BY DEF MapInv, HalfUnwatched, OrderUnlessAdding, InOrder, Adding, AddingHolds
<1> QED
  BY <1>1, <1>2 DEF MapInv

(* Readiness, the pipe and callbacks that run.                             *)
LEMMA OutsideKeepsInv ==
  ASSUME Inv,
         \/ \E f \in Fd, e \in Event \cup {"ERR"} : Arrive(f, e)
         \/ OtherTickle
         \/ \E f \in Fd, e \in Event : RunCallback(f, e)
  PROVE  Inv'
PROOF
<1> USE IOAssumption DEF Inv, mapVars, epollVars, pipeVars, workerVars, clientVars
<1>1. ASSUME NEW f \in Fd, NEW e \in Event \cup {"ERR"}, Arrive(f, e) PROVE Inv'
  <2> USE <1>1 DEF Arrive
  <2>1. TypeOK' /\ Arrays'
    BY DEF TypeOK, Arrays
  <2>2. ListedWatched'
    BY DEF ListedWatched, TypeOK
  <2> QED
    BY <2>1, <2>2, SameMap
<1>2. ASSUME OtherTickle PROVE Inv'
  <2> USE <1>2 DEF OtherTickle
  <2>1. TypeOK' /\ Arrays' /\ ListedWatched'
    BY DEF TypeOK, Arrays, ListedWatched
  <2> QED
    BY <2>1, SameMap
<1>3. ASSUME NEW f \in Fd, NEW e \in Event, RunCallback(f, e) PROVE Inv'
  <2> USE <1>3 DEF RunCallback
  <2>1. TypeOK' /\ Arrays' /\ ListedWatched'
    BY DEF TypeOK, Arrays, ListedWatched
  <2> QED
    BY <2>1, SameMap
<1> QED
  BY <1>1, <1>2, <1>3

(* epoll_wait gives out the pointers of watched descriptors only.          *)
LEMMA WaitKeepsInv ==
  ASSUME Inv, NEW w \in Worker, Wait(w)
  PROVE  Inv'
PROOF
<1> USE DEF Inv, Wait, mapVars, epollVars, pipeVars, workerVars, clientVars
<1> DEFINE happened(f) == level[f] \cap (mask[f] \cup {"ERR"})
           given == {[ptr |-> data[f], fd |-> f, events |-> happened(f)] :
                       f \in {g \in {h \in Fd : listed[h]} : happened(g) # {}}}
<1>1. given \subseteq Item
  <2>1. ASSUME NEW f \in Fd, listed[f] PROVE data[f] \in Ctx
    BY <2>1 DEF ListedWatched, MapInv, ThroughEntry, TypeOK
  <2>2. ASSUME NEW f \in Fd PROVE happened(f) \in SUBSET (Event \cup {"ERR"})
    BY <2>2 DEF TypeOK
  <2> QED
    BY <2>1, <2>2 DEF Item
<1>2. epvs' = [epvs EXCEPT ![w] = given]
  OBVIOUS
<1> HIDE DEF given
<1>3. Arrays'
  BY <1>1, <1>2 DEF Arrays
<1>4. TypeOK'
  <2>1. \A v \in Worker : \A i \in epvs'[v] : i.ptr \in Ctx /\ i.fd \in Fd
    BY <1>3 DEF Arrays, Item
  <2> QED
    BY <2>1 DEF TypeOK
<1>5. ListedWatched'
  BY DEF ListedWatched
<1> QED
  BY <1>3, <1>4, <1>5, SameMap

(* The worker goes through what it was given.                              *)
LEMMA HandleKeepsInv ==
  ASSUME Inv, NEW w \in Worker,
         \/ HandlePipe(w) \/ Tickle(w) \/ Yield(w)
         \/ \E i \in epvs[w] : Widen(w, i) \/ \E e \in Event : Trigger(w, i, e)
  PROVE  Inv'
PROOF
<1> USE IOAssumption DEF Inv, mapVars, epollVars, pipeVars, workerVars, clientVars
<1>1. ASSUME HandlePipe(w) \/ Tickle(w) \/ Yield(w) PROVE Inv'
  <2> USE <1>1 DEF HandlePipe, BytesRead, Tickle, Yield
  <2>0. pipe' \in 0 .. PipeCap
    <3>1. pipe \in Nat /\ PipeCap \in Nat /\ pipe <= PipeCap
      BY DEF TypeOK
    <3> QED
      BY <3>1
  <2>1. TypeOK'
    BY <2>0 DEF TypeOK
  <2>2. Arrays' /\ ListedWatched'
    BY DEF Arrays, ListedWatched
  <2> QED
    BY <2>1, <2>2, SameMap
<1>2. ASSUME NEW i \in epvs[w], Widen(w, i) PROVE Inv'
  <2> USE <1>2 DEF Widen
  <2>0. i \in Item /\ events_now \in [Ctx -> Event]
    BY DEF Arrays, TypeOK
  <2>1. Arrays'
    <3>1. [i EXCEPT !.events = (@ \ {"ERR"}) \cup {events_now[i.ptr]}] \in Item
      BY <2>0 DEF Item
    <3> QED
      BY <3>1 DEF Arrays
  <2>2. TypeOK'
    <3>1. \A v \in Worker : \A j \in epvs'[v] : j.ptr \in Ctx /\ j.fd \in Fd
      BY <2>1 DEF Arrays, Item
    <3> QED
      BY <3>1 DEF TypeOK
  <2>3. ListedWatched'
    BY DEF ListedWatched
  <2> QED
    BY <2>1, <2>2, <2>3, SameMap
<1>3. ASSUME NEW i \in epvs[w], NEW e \in Event, Trigger(w, i, e) PROVE Inv'
  <2> USE <1>3 DEF Trigger
  <2>0. i \in Item
    BY DEF Arrays
  <2>1. Arrays'
    <3> DEFINE rest == IF i.events = {e} THEN {} ELSE {[i EXCEPT !.events = @ \ {e}]}
    <3>1. rest \subseteq Item
      BY <2>0 DEF Item
    <3>2. epvs' = epvs \/ epvs' = [epvs EXCEPT ![w] = (@ \ {i}) \cup rest]
      OBVIOUS
    <3> HIDE DEF rest, Trigger
    <3> QED
      BY <3>1, <3>2 DEF Arrays
  <2>2. TypeOK'
    <3>1. \A v \in Worker : \A j \in epvs'[v] : j.ptr \in Ctx /\ j.fd \in Fd
      BY <2>1 DEF Arrays, Item
    <3>2. queued' \subseteq Fd \X Event
      BY <2>0 DEF TypeOK, Item
    <3>3. wpc' \in [Worker -> {"wait", "handle", "tickle"}] /\ corrupt' \in BOOLEAN
      BY DEF TypeOK
    <3> HIDE DEF Trigger
    <3>4. UNCHANGED <<mapVars, epollVars, pipeVars, arrivals, hitPipe, clientVars, halfAdded>>
      BY DEF Trigger
    <3> QED
      BY <3>1, <3>2, <3>3, <3>4 DEF TypeOK
  <2>3. ListedWatched'
    BY DEF ListedWatched
  <2> QED
    BY <2>1, <2>2, <2>3, SameMap
<1> QED
  BY <1>1, <1>2, <1>3

-----------------------------------------------------------------------------
(* The calls.  Each one is about one descriptor, f; what it has to leave   *)
(* alone, and what it has to restore, is said once.                        *)

(* Another descriptor, with its context and its call, is as it was.        *)
Elsewhere(f) ==
  /\ \A g \in Fd \ {f} :
       /\ m_events'[g] = m_events[g] /\ mask'[g] = mask[g] /\ data'[g] = data[g]
       /\ g \in halfAdded' <=> g \in halfAdded
       /\ m_events[g] # NoCtx =>
            m_events[g] \in live' /\ events_now'[m_events[g]] = events_now[m_events[g]]
  /\ \A j \in Client : cpc[j] # "free" /\ cfd[j] # f =>
       cpc'[j] = cpc[j] /\ cfd'[j] = cfd[j] /\ cev'[j] = cev[j] /\ cop'[j] = cop[j]
  /\ \A j \in Client : cpc'[j] # "free" /\ cfd'[j] # f =>
       cpc[j] # "free" /\ cfd[j] = cfd'[j]

(* The entry of f, what epoll knows of it, and its order outside a call.   *)
EntryOf(f) ==
  /\ m_events[f] # NoCtx =>
       m_events[f] \in live /\ \A g \in Fd \ {f} : m_events[g] # m_events[f]
  /\ mask[f] = {} => data[f] = NoCtx
  /\ mask[f] # {} => m_events[f] # NoCtx /\ data[f] = m_events[f]
  /\ f \in halfAdded => m_events[f] # NoCtx /\ mask[f] = {}
  /\ (\A k \in Client : cpc[k] = "free" \/ cfd[k] # f) => InOrder(f)

(* The call k about f, if it goes on.                                      *)
CallOn(k, f) ==
  cpc[k] # "free" /\ cfd[k] = f =>
    /\ m_events[f] # NoCtx
    /\ \A j \in Client : cpc[j] # "free" /\ cfd[j] = f => j = k
    /\ IF cpc[k] = "addCtl"
         THEN /\ events_now[m_events[f]] = cev[k]
              /\ cop[k] = "ADD" => mask[f] = {} /\ f \notin halfAdded
              /\ cop[k] = "MOD" => (mask[f] = {} <=> f \in halfAdded)
         ELSE InOrder(f)

(* What a call restores for its descriptor holds for all of them.          *)
LEMMA LocalCall ==
  ASSUME Inv, TypeOK', NEW f \in Fd, Elsewhere(f),
         EntryOf(f)', \A k \in Client : CallOn(k, f)'
  PROVE  MapInv'
PROOF
<1> USE DEF Inv, MapInv
<1>c. \A k \in Client : cpc'[k] # "free" => cfd'[k] \in Fd \/ cfd'[k] = NoFd
  BY DEF TypeOK
<1>1. OneCall'
  <2>1. ASSUME NEW k \in Client, cpc'[k] # "free"
        PROVE  cfd'[k] \in Fd /\ m_events'[cfd'[k]] # NoCtx
    <3>1. CASE cfd'[k] = f
      BY <2>1, <3>1 DEF CallOn
    <3>2. CASE cfd'[k] # f
      BY <2>1, <3>2 DEF Elsewhere, OneCall
    <3> QED
      BY <3>1, <3>2
  <2>2. ASSUME NEW j \in Client, NEW k \in Client,
               cpc'[j] # "free", cpc'[k] # "free", cfd'[j] = cfd'[k]
        PROVE  j = k
    <3>1. CASE cfd'[k] = f
      BY <2>2, <3>1 DEF CallOn
    <3>2. CASE cfd'[k] # f
      BY <2>2, <3>2 DEF Elsewhere, OneCall
    <3> QED
      BY <3>1, <3>2
  <2> QED
    BY <2>1, <2>2 DEF OneCall
<1>2. OwnContext'
  BY DEF OwnContext, EntryOf, Elsewhere
<1>3. ThroughEntry' /\ HalfUnwatched'
  BY DEF ThroughEntry, HalfUnwatched, EntryOf, Elsewhere, TypeOK
<1>4. OrderUnlessAdding'
  <2>1. ASSUME NEW g \in Fd \ {f} PROVE Adding(g)' \/ InOrder(g)'
    <3>1. CASE Adding(g)
      BY <3>1 DEF Adding, Elsewhere
    <3>2. CASE InOrder(g)
      BY <3>2 DEF InOrder, Elsewhere
    <3> QED
      BY <3>1, <3>2 DEF OrderUnlessAdding
  <2>2. Adding(f)' \/ InOrder(f)'
    BY DEF Adding, EntryOf, CallOn
  <2> QED
    BY <2>1, <2>2 DEF OrderUnlessAdding
<1>5. AddingHolds'
  <2>1. ASSUME NEW k \in Client, cpc'[k] = "addCtl"
        PROVE  /\ events_now'[m_events'[cfd'[k]]] = cev'[k]
               /\ cop'[k] = "ADD" => mask'[cfd'[k]] = {} /\ cfd'[k] \notin halfAdded'
               /\ cop'[k] = "MOD" => (mask'[cfd'[k]] = {} <=> cfd'[k] \in halfAdded')
    <3>1. CASE cfd'[k] = f
      BY <2>1, <3>1 DEF CallOn
    <3>2. CASE cfd'[k] # f
      <4>1. /\ cpc[k] = "addCtl" /\ cfd'[k] = cfd[k] /\ cfd[k] \in Fd \ {f}
            /\ cev'[k] = cev[k] /\ cop'[k] = cop[k] /\ m_events[cfd[k]] # NoCtx
        BY <2>1, <3>2 DEF Elsewhere, OneCall
      <4> QED
        BY <4>1 DEF Elsewhere, AddingHolds
    <3> QED
      BY <3>1, <3>2
  <2> QED
    BY <2>1 DEF AddingHolds
<1> QED
  BY <1>1, <1>2, <1>3, <1>4, <1>5

(* Between calls, and in a call other than addEvent(), f is in order.      *)
LEMMA Orderly ==
  ASSUME Inv, NEW f \in Fd, ~Adding(f)
  PROVE  InOrder(f)
PROOF
  BY DEF Inv, MapInv, OrderUnlessAdding

(* A call that ends leaves its descriptor to the next.                     *)
LEMMA ReturnFrees ==
  ASSUME Inv, NEW k \in Client, cpc[k] # "free", Return(k)
  PROVE  /\ cpc' \in [Client -> {"free", "addCtl", "del", "delRun", "cancel", "change"}]
         /\ cfd' \in [Client -> Fd \cup {NoFd}] /\ cev' \in [Client -> Event]
         /\ cop' \in [Client -> {"ADD", "MOD"}]
         /\ cfd[k] \in Fd
         /\ \A j \in Client : cpc'[j] = "free" \/ cfd'[j] # cfd[k]
         /\ \A j \in Client : cpc[j] # "free" /\ cfd[j] # cfd[k] =>
              cpc'[j] = cpc[j] /\ cfd'[j] = cfd[j] /\ cev'[j] = cev[j] /\ cop'[j] = cop[j]
         /\ \A j \in Client : cpc'[j] # "free" /\ cfd'[j] # cfd[k] =>
              cpc[j] # "free" /\ cfd[j] = cfd'[j]
PROOF
<1> USE DEF Inv, MapInv, Return
<1>1. /\ cpc' \in [Client -> {"free", "addCtl", "del", "delRun", "cancel", "change"}]
      /\ cfd' \in [Client -> Fd \cup {NoFd}] /\ cev' \in [Client -> Event]
      /\ cop' \in [Client -> {"ADD", "MOD"}]
  BY DEF TypeOK, Event
<1>2. cfd[k] \in Fd
  BY DEF OneCall
<1>3. \A j \in Client : j # k =>
        cpc'[j] = cpc[j] /\ cfd'[j] = cfd[j] /\ cev'[j] = cev[j] /\ cop'[j] = cop[j]
  BY DEF TypeOK
<1>4. cpc'[k] = "free"
  BY DEF TypeOK
<1>5. \A j \in Client : j # k => cpc[j] = "free" \/ cfd[j] # cfd[k]
  BY DEF OneCall
<1> QED
  BY <1>1, <1>2, <1>3, <1>4, <1>5

(* addEvent() under the lock: a fresh context is nobody else's.            *)
LEMMA AddKeepsInv ==
  ASSUME Inv, NEW k \in Client, NEW f \in Fd, NEW e \in Event, Add(k, f, e)
  PROVE  Inv'
PROOF
<1> USE DEF Inv, Add, Enter, epollVars, pipeVars, workerVars
<1> DEFINE new == m_events[f] = NoCtx
           c == IF new THEN CHOOSE d \in Fresh : TRUE ELSE m_events[f]
<1>t. /\ m_events \in [Fd -> Ctx \cup {NoCtx}] /\ live \subseteq Ctx
      /\ events_now \in [Ctx -> Event] /\ slots \in [Ctx -> SUBSET Event]
      /\ cpc \in [Client -> {"free", "addCtl", "del", "delRun", "cancel", "change"}]
      /\ cfd \in [Client -> Fd \cup {NoFd}] /\ cev \in [Client -> Event]
      /\ cop \in [Client -> {"ADD", "MOD"}]
  BY DEF TypeOK
<1>c. /\ c \in Ctx /\ c # NoCtx
      /\ new => c \notin live
      /\ \A g \in Fd \ {f} : m_events[g] # c
  <2>1. CASE new
    <3>1. c \in Fresh
      BY <2>1
    <3>2. c \in Ctx /\ c \notin live
      BY <3>1 DEF Fresh
    <3> QED
      BY <2>1, <3>2, IOAssumption DEF MapInv, OwnContext
  <2>2. CASE ~new
    BY <1>t, <2>2 DEF MapInv, OwnContext
  <2> QED
    BY <2>1, <2>2
<1>s. /\ cpc' = [cpc EXCEPT ![k] = "addCtl"]
      /\ cfd' = [cfd EXCEPT ![k] = f] /\ cev' = [cev EXCEPT ![k] = e]
      /\ cop' = [cop EXCEPT ![k] = IF new THEN "ADD" ELSE "MOD"]
      /\ m_events' = [m_events EXCEPT ![f] = c]
      /\ live' = live \cup {c}
      /\ events_now' = [events_now EXCEPT ![c] = e]
      /\ slots' = [slots EXCEPT ![c] = IF new THEN {e} ELSE @ \cup {e}]
      /\ cpc[k] = "free" /\ ~InUse(f)
      /\ UNCHANGED <<epollVars, pipeVars, arrivals, workerVars, queued, halfAdded, corrupt>>
  <2>1. CASE new
    BY <2>1
  <2>2. CASE ~new
    <3>1. m_events[f] \in live
      BY <2>2 DEF MapInv, OwnContext
    <3> QED
      BY <1>t, <2>2, <3>1
  <2> QED
    BY <2>1, <2>2
<1>o. InOrder(f)
  <2>1. ~Adding(f)
    BY <1>s DEF Adding, InUse
  <2> QED
    BY <2>1, Orderly
<1> HIDE DEF c, Add, Enter
<1>1. TypeOK'
  <2>1. /\ cpc' \in [Client -> {"free", "addCtl", "del", "delRun", "cancel", "change"}]
        /\ cfd' \in [Client -> Fd \cup {NoFd}] /\ cev' \in [Client -> Event]
        /\ cop' \in [Client -> {"ADD", "MOD"}]
    BY <1>t, <1>s
  <2>2. /\ m_events' \in [Fd -> Ctx \cup {NoCtx}] /\ live' \subseteq Ctx
        /\ events_now' \in [Ctx -> Event]
    BY <1>t, <1>c, <1>s
  <2>3. slots' \in [Ctx -> SUBSET Event]
    BY <1>t, <1>c, <1>s
  <2> QED
    BY <1>s, <2>1, <2>2, <2>3 DEF TypeOK
<1>2. Arrays' /\ ListedWatched'
  BY <1>s DEF Arrays, ListedWatched
<1>3. Elsewhere(f)
  <2>1. \A g \in Fd \ {f} :
          /\ m_events'[g] = m_events[g] /\ mask'[g] = mask[g] /\ data'[g] = data[g]
          /\ g \in halfAdded' <=> g \in halfAdded
          /\ m_events[g] # NoCtx =>
               m_events[g] \in live' /\ events_now'[m_events[g]] = events_now[m_events[g]]
    BY <1>t, <1>c, <1>s DEF MapInv, OwnContext
  <2>2. \A j \in Client : j # k =>
          cpc'[j] = cpc[j] /\ cfd'[j] = cfd[j] /\ cev'[j] = cev[j] /\ cop'[j] = cop[j]
    BY <1>t, <1>s
  <2>3. cpc[k] = "free" /\ cfd'[k] = f
    BY <1>t, <1>s
  <2> QED
    BY <2>1, <2>2, <2>3 DEF Elsewhere
<1>4. EntryOf(f)'
  <2>1. m_events'[f] = c /\ c \in live' /\ \A g \in Fd \ {f} : m_events'[g] # c
    BY <1>t, <1>c, <1>s
  <2>2. cpc'[k] # "free" /\ cfd'[k] = f
    BY <1>t, <1>s
  <2>3. mask' = mask /\ data' = data /\ halfAdded' = halfAdded
    BY <1>s
  <2>4. /\ mask[f] = {} => data[f] = NoCtx
        /\ mask[f] # {} => data[f] = c
        /\ f \in halfAdded => mask[f] = {}
    BY DEF c, MapInv, ThroughEntry, HalfUnwatched
  <2> QED
    BY <1>c, <2>1, <2>2, <2>3, <2>4 DEF EntryOf
<1>5. ASSUME NEW j \in Client PROVE CallOn(j, f)'
  <2>1. CASE j # k
    BY <1>t, <1>s, <2>1 DEF CallOn, InUse
  <2>2. CASE j = k
    <3>1. m_events'[f] = c /\ c # NoCtx /\ events_now'[c] = e /\ cev'[k] = e
      BY <1>t, <1>c, <1>s
    <3>2. \A i \in Client : cpc'[i] # "free" /\ cfd'[i] = f => i = k
      BY <1>t, <1>s DEF InUse
    <3>3. cop'[k] = IF new THEN "ADD" ELSE "MOD"
      BY <1>t, <1>s
    <3>4. /\ cpc'[k] = "addCtl" /\ mask' = mask /\ halfAdded' = halfAdded
      BY <1>t, <1>s
    <3>5. /\ new => mask[f] = {} /\ f \notin halfAdded
          /\ ~new => (mask[f] = {} <=> f \in halfAdded)
      BY <1>o DEF InOrder, MapInv, HalfUnwatched
    <3> QED
      BY <2>2, <3>1, <3>2, <3>3, <3>4, <3>5 DEF CallOn
  <2> QED
    BY <2>1, <2>2
<1> QED
  BY <1>1, <1>2, <1>3, <1>4, <1>5, LocalCall

(* epoll_ctl without the lock: nobody else has touched the descriptor.     *)
LEMMA AddCtlKeepsInv ==
  ASSUME Inv, NEW k \in Client, AddCtl(k)
  PROVE  Inv'
PROOF
<1> USE DEF Inv, AddCtl, mapVars, epollVars, pipeVars, workerVars
<1>f. PICK f \in Fd : f = cfd[k]
  BY DEF MapInv, OneCall
<1>t. /\ m_events \in [Fd -> Ctx \cup {NoCtx}]
      /\ mask \in [Fd -> SUBSET Event] /\ data \in [Fd -> Ctx \cup {NoCtx}]
      /\ listed \in [Fd -> BOOLEAN] /\ halfAdded \subseteq Fd
      /\ cev \in [Client -> Event] /\ cop \in [Client -> {"ADD", "MOD"}]
  BY DEF TypeOK
<1>r. Return(k) /\ cpc[k] = "addCtl"
  OBVIOUS
<1>h. /\ m_events[f] # NoCtx /\ events_now[m_events[f]] = cev[k]
      /\ cop[k] = "ADD" => mask[f] = {} /\ f \notin halfAdded
      /\ cop[k] = "MOD" => (mask[f] = {} <=> f \in halfAdded)
  BY <1>f DEF MapInv, OneCall, AddingHolds
<1>n. \A g \in Fd \ {f} : m_events[g] # m_events[f]
  BY <1>h DEF MapInv, OwnContext
<1>c. UNCHANGED <<mapVars, pipeVars, arrivals, workerVars, queued, corrupt>>
  OBVIOUS
<1>1. CASE Register(f, cop[k], cev[k], m_events[f]) /\ halfAdded' = halfAdded
  <2>1. /\ mask' = [mask EXCEPT ![f] = {cev[k]}]
        /\ data' = [data EXCEPT ![f] = m_events[f]]
        /\ listed' = [listed EXCEPT ![f] = @ \/ level[f] \cap {cev[k], "ERR"} # {}]
        /\ level' = level /\ halfAdded' = halfAdded
        /\ f \notin halfAdded
    BY <1>1, <1>f, <1>t, <1>h DEF Register
  <2> HIDE DEF AddCtl
  <2>2. TypeOK'
    <3>1. mask' \in [Fd -> SUBSET Event] /\ data' \in [Fd -> Ctx \cup {NoCtx}]
      BY <1>t, <1>h, <2>1
    <3>2. listed' \in [Fd -> BOOLEAN]
      BY <1>t, <2>1
    <3> QED
      BY <1>r, <1>c, <2>1, <3>1, <3>2, ReturnFrees DEF TypeOK
  <2>3. Arrays' /\ ListedWatched'
    BY <1>t, <1>c, <2>1 DEF Arrays, ListedWatched
  <2>4. Elsewhere(f)
    BY <1>f, <1>r, <1>c, <1>t, <1>h, <2>1, ReturnFrees DEF Elsewhere, MapInv, OwnContext
  <2>5. EntryOf(f)'
    BY <1>c, <1>t, <1>h, <1>n, <2>1 DEF EntryOf, InOrder, MapInv, OwnContext
  <2>6. \A j \in Client : CallOn(j, f)'
    BY <1>f, <1>r, ReturnFrees DEF CallOn
  <2> QED
    BY <1>h, <2>2, <2>3, <2>4, <2>5, <2>6, LocalCall
<1>2. CASE /\ cop[k] = "ADD" \/ mask[f] = {}
           /\ halfAdded' = halfAdded \cup {f} /\ UNCHANGED epollVars
  <2>1. mask[f] = {}
    BY <1>2, <1>h
  <2>2. halfAdded' = halfAdded \cup {f} /\ UNCHANGED epollVars
    BY <1>2
  <2> HIDE DEF AddCtl
  <2>3. TypeOK'
    BY <1>r, <1>c, <1>t, <1>h, <2>2, ReturnFrees DEF TypeOK
  <2>4. Arrays' /\ ListedWatched'
    BY <1>c, <2>2 DEF Arrays, ListedWatched
  <2>5. Elsewhere(f)
    BY <1>f, <1>r, <1>c, <1>h, <2>2, ReturnFrees DEF Elsewhere, MapInv, OwnContext
  <2>6. EntryOf(f)'
    BY <1>c, <1>t, <1>h, <1>n, <2>1, <2>2
       DEF EntryOf, InOrder, MapInv, OwnContext, ThroughEntry
  <2>7. \A j \in Client : CallOn(j, f)'
    BY <1>f, <1>r, ReturnFrees DEF CallOn
  <2> QED
    BY <1>h, <2>3, <2>4, <2>5, <2>6, <2>7, LocalCall
<1> QED
  BY <1>1, <1>2, <1>f

(* The lookup of delEvent(), cancel() and changerEvent() finds an entry.   *)
LEMMA LookupKeepsInv ==
  ASSUME Inv, NEW k \in Client, NEW f \in Fd, NEW e \in Event,
         NEW l \in {"del", "delRun", "cancel", "change"}, Lookup(k, f, e, l)
  PROVE  Inv'
PROOF
<1> USE DEF Inv, Lookup, Enter, mapVars, epollVars, pipeVars, workerVars
<1>o. InOrder(f)
  <2>1. ~Adding(f)
    BY DEF Adding, InUse
  <2> QED
    BY <2>1, Orderly
<1>1. TypeOK'
  BY DEF TypeOK
<1>2. Arrays' /\ ListedWatched'
  BY DEF Arrays, ListedWatched
<1>3. Elsewhere(f)
  BY DEF Elsewhere, TypeOK, MapInv, OwnContext
<1>4. EntryOf(f)'
  BY <1>o DEF EntryOf, InOrder, MapInv, OwnContext, ThroughEntry, HalfUnwatched
<1>5. \A j \in Client : CallOn(j, f)'
  BY <1>o DEF CallOn, InOrder, InUse, TypeOK
<1> QED
  BY <1>1, <1>2, <1>3, <1>4, <1>5, LocalCall

(* delEvent() and cancel(): an entry leaves the map, the interest list and *)
(* the heap in one locked section, or stays in all of them.                *)
LEMMA DropKeepsInv ==
  ASSUME Inv, NEW k \in Client, Del(k) \/ Cancel(k)
  PROVE  Inv'
PROOF
<1> USE DEF Inv, Del, Cancel, Unregister, mapVars, epollVars, pipeVars, workerVars
<1>f. PICK f \in Fd : f = cfd[k]
  BY DEF MapInv, OneCall
<1>t. /\ m_events \in [Fd -> Ctx \cup {NoCtx}] /\ live \subseteq Ctx
      /\ mask \in [Fd -> SUBSET Event] /\ data \in [Fd -> Ctx \cup {NoCtx}]
      /\ level \in [Fd -> SUBSET (Event \cup {"ERR"})]
      /\ listed \in [Fd -> BOOLEAN] /\ halfAdded \subseteq Fd
  BY DEF TypeOK
<1>r. Return(k) /\ cpc[k] \in {"del", "delRun", "cancel"}
  OBVIOUS
<1>n. \A g \in Fd \ {f} : m_events[g] # NoCtx => m_events[g] # m_events[f]
  BY DEF MapInv, OwnContext
<1>o. InOrder(f) /\ m_events[f] # NoCtx
  <2>1. ~Adding(f)
    BY <1>f, <1>r DEF Adding, MapInv, OneCall
  <2>2. m_events[f] # NoCtx
    BY <1>f, <1>r DEF MapInv, OneCall
  <2> QED
    BY <2>1, <2>2, Orderly
<1>c. /\ UNCHANGED <<events_now, slots, pipeVars, arrivals, workerVars, queued>>
      /\ corrupt' \in BOOLEAN
  BY DEF TypeOK
<1>1. CASE /\ mask[f] = {}
           /\ UNCHANGED <<m_events, live, epollVars, halfAdded>>
  <2> HIDE DEF Del, Cancel
  <2>1. TypeOK'
    BY <1>r, <1>c, <1>1, ReturnFrees DEF TypeOK
  <2>2. Arrays' /\ ListedWatched'
    BY <1>c, <1>1 DEF Arrays, ListedWatched
  <2>3. Elsewhere(f)
    BY <1>f, <1>r, <1>c, <1>1, ReturnFrees DEF Elsewhere, MapInv, OwnContext
  <2>4. EntryOf(f)'
    BY <1>c, <1>o, <1>1
       DEF EntryOf, InOrder, MapInv, OwnContext, ThroughEntry, HalfUnwatched
  <2>5. \A j \in Client : CallOn(j, f)'
    BY <1>f, <1>r, ReturnFrees DEF CallOn
  <2> QED
    BY <2>1, <2>2, <2>3, <2>4, <2>5, LocalCall
<1>2. CASE /\ mask' = [mask EXCEPT ![f] = {}]
           /\ data' = [data EXCEPT ![f] = NoCtx]
           /\ listed' = [listed EXCEPT ![f] = FALSE]
           /\ level' \in [Fd -> SUBSET (Event \cup {"ERR"})]
           /\ live' = live \ {m_events[f]}
           /\ m_events' = [m_events EXCEPT ![f] = NoCtx]
           /\ halfAdded' = halfAdded \ {f}
  <2> HIDE DEF Del, Cancel
  <2>1. TypeOK'
    <3>1. /\ mask' \in [Fd -> SUBSET Event] /\ data' \in [Fd -> Ctx \cup {NoCtx}]
          /\ m_events' \in [Fd -> Ctx \cup {NoCtx}] /\ live' \subseteq Ctx
          /\ listed' \in [Fd -> BOOLEAN] /\ halfAdded' \subseteq Fd
      BY <1>t, <1>2
    <3> QED
      BY <1>r, <1>c, <1>2, <3>1, ReturnFrees DEF TypeOK
  <2>2. Arrays' /\ ListedWatched'
    BY <1>t, <1>c, <1>2 DEF Arrays, ListedWatched
  <2>3. Elsewhere(f)
    BY <1>f, <1>r, <1>c, <1>t, <1>n, <1>2, ReturnFrees DEF Elsewhere, MapInv, OwnContext
  <2>4. EntryOf(f)'
    BY <1>t, <1>2 DEF EntryOf, InOrder
  <2>5. \A j \in Client : CallOn(j, f)'
    BY <1>f, <1>r, ReturnFrees DEF CallOn
  <2> QED
    BY <2>1, <2>2, <2>3, <2>4, <2>5, LocalCall
<1>3. CASE Del(k)
  <2>1. CASE mask[f] = {}
    BY <1>1, <1>3, <1>f, <2>1
  <2>2. CASE mask[f] # {}
    <3>1. halfAdded' = halfAdded \ {f}
      BY <1>3, <1>o, <2>2 DEF InOrder
    <3>2. level' \in [Fd -> SUBSET (Event \cup {"ERR"})]
      BY <1>3, <1>t, <1>f, <2>2
    <3> QED
      BY <1>2, <1>3, <1>f, <2>2, <3>1, <3>2 DEF Freed, Erased
  <2> QED
    BY <2>1, <2>2
<1>4. CASE Cancel(k)
  BY <1>2, <1>4, <1>f, <1>t DEF Freed, Erased
<1> QED
  BY <1>3, <1>4

(* changerEvent(): context and interest list are set to the same event.    *)
LEMMA ChangeKeepsInv ==
  ASSUME Inv, NEW k \in Client, Change(k)
  PROVE  Inv'
PROOF
<1> USE DEF Inv, Change, mapVars, epollVars, pipeVars, workerVars
<1>f. PICK f \in Fd : f = cfd[k]
  BY DEF MapInv, OneCall
<1>t. /\ m_events \in [Fd -> Ctx \cup {NoCtx}] /\ events_now \in [Ctx -> Event]
      /\ mask \in [Fd -> SUBSET Event] /\ data \in [Fd -> Ctx \cup {NoCtx}]
      /\ listed \in [Fd -> BOOLEAN] /\ cev \in [Client -> Event]
  BY DEF TypeOK
<1>r. Return(k) /\ cpc[k] = "change"
  OBVIOUS
<1>n. /\ m_events[f] # NoCtx /\ m_events[f] \in Ctx
      /\ \A g \in Fd \ {f} : m_events[g] # m_events[f]
  BY <1>f, <1>t DEF MapInv, OneCall, OwnContext
<1>o. InOrder(f)
  <2>1. ~Adding(f)
    BY <1>f, <1>r DEF Adding, MapInv, OneCall
  <2> QED
    BY <2>1, Orderly
<1>s. /\ events_now' = [events_now EXCEPT ![m_events[f]] = cev[k]]
      /\ UNCHANGED <<m_events, slots, live, pipeVars, arrivals, workerVars,
                     queued, halfAdded, corrupt>>
  BY <1>f
<1>e. /\ mask' = [mask EXCEPT ![f] = IF mask[f] = {} THEN {} ELSE {cev[k]}]
      /\ data' = [data EXCEPT ![f] = IF mask[f] = {} THEN @ ELSE m_events[f]]
      /\ listed' \in [Fd -> BOOLEAN]
      /\ \A g \in Fd : listed'[g] => listed[g] \/ (g = f /\ mask[f] # {})
      /\ level' = level
  BY <1>f, <1>t DEF Register
<1> HIDE DEF Change
<1>1. TypeOK'
  <2>1. /\ mask' \in [Fd -> SUBSET Event] /\ data' \in [Fd -> Ctx \cup {NoCtx}]
        /\ events_now' \in [Ctx -> Event]
    BY <1>t, <1>n, <1>s, <1>e
  <2> QED
    BY <1>r, <1>s, <1>e, <2>1, ReturnFrees DEF TypeOK
<1>2. Arrays' /\ ListedWatched'
  BY <1>t, <1>s, <1>e DEF Arrays, ListedWatched
<1>3. Elsewhere(f)
  BY <1>f, <1>r, <1>t, <1>n, <1>s, <1>e, ReturnFrees DEF Elsewhere, MapInv, OwnContext
<1>4. EntryOf(f)'
  BY <1>t, <1>n, <1>o, <1>s, <1>e
     DEF EntryOf, InOrder, MapInv, OwnContext, ThroughEntry, HalfUnwatched
<1>5. \A j \in Client : CallOn(j, f)'
  BY <1>f, <1>r, ReturnFrees DEF CallOn
<1> QED
  BY <1>1, <1>2, <1>3, <1>4, <1>5, LocalCall

(* Every step keeps the invariant.                                         *)
LEMMA NextKeepsInv == Inv /\ [Next]_vars => Inv'
PROOF
<1> SUFFICES ASSUME Inv, [Next]_vars PROVE Inv'
  OBVIOUS
<1>1. CASE Next
  <2>1. CASE \/ \E f \in Fd, e \in Event \cup {"ERR"} : Arrive(f, e)
             \/ OtherTickle
             \/ \E f \in Fd, e \in Event : RunCallback(f, e)
    BY <2>1, OutsideKeepsInv
  <2>2. ASSUME NEW w \in Worker, InIdle(w) PROVE Inv'
    BY <2>2, WaitKeepsInv, HandleKeepsInv DEF InIdle
  <2>3. ASSUME NEW k \in Client, InCall(k) PROVE Inv'
    BY <2>3, AddCtlKeepsInv, DropKeepsInv, ChangeKeepsInv DEF InCall
  <2>4. ASSUME NEW k \in Client, NEW f \in Fd, NEW e \in Event,
               \/ Add(k, f, e)
               \/ \E l \in {"del", "delRun", "cancel", "change"} : Lookup(k, f, e, l)
        PROVE  Inv'
    BY <2>4, AddKeepsInv, LookupKeepsInv
  <2> QED
    BY <1>1, <2>1, <2>2, <2>3, <2>4 DEF Next
<1>2. CASE UNCHANGED vars
  <2> USE <1>2 DEF vars, Inv, mapVars, epollVars, pipeVars, workerVars, clientVars
  <2>1. TypeOK'
    BY DEF TypeOK
  <2>2. Arrays' /\ ListedWatched'
    BY DEF Arrays, ListedWatched
  <2> QED
    BY <2>1, <2>2, SameMap
<1> QED
  BY <1>1, <1>2

(* The invariant holds in every behaviour.                                 *)
LEMMA InvHolds == Spec => []Inv
PROOF
  BY InitInv, NextKeepsInv, PTL DEF Spec

-----------------------------------------------------------------------------
(* The theorems.                                                           *)

(* The variables keep their types; the pipe neither overflows nor is read  *)
(* below empty.                                                            *)
THEOREM TypeCorrect == Spec => []TypeOK
PROOF
<1>1. Inv => TypeOK
  BY DEF Inv
<1> QED
  BY InvHolds, <1>1, PTL

(* Between calls the map and the epoll interest list tell the same story.  *)
THEOREM InterestMatchesHolds == Spec => []InterestMatches
PROOF
<1>1. ASSUME Inv, NEW f \in Fd, ~InUse(f)
      PROVE  InOrder(f)
  BY <1>1, Orderly DEF Adding, InUse
<1>2. Inv => InterestMatches
  BY <1>1 DEF InterestMatches, InOrder
<1> QED
  BY InvHolds, <1>2, PTL

(* Neither epoll nor the map keeps a pointer to a context that was freed,  *)
(* not even while a call is under way.                                     *)
THEOREM NoDanglingInterestHolds == Spec => []NoDanglingInterest
PROOF
<1>1. Inv => NoDanglingInterest
  BY DEF Inv, MapInv, OwnContext, ThroughEntry, NoDanglingInterest
<1> QED
  BY InvHolds, <1>1, PTL

=============================================================================
