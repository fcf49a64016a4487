-------------------------------- MODULE Server --------------------------------
(***************************************************************************)
(* sylar::TcpServer (server.cpp): bind(), start(), stop(), the loop of     *)
(* startAccept(), the task that closes the listening sockets, and the      *)
(* clients it hands to handleClient().  Accepting, closing and handling    *)
(* are tasks of the same IOmanager, as in tests/test_server.cpp.  A task   *)
(* keeps its worker until it ends: accept() does not wait, so startAccept()*)
(* spins; handleClient() waits for a client that may stay silent.          *)
(*                                                                         *)
(* m_isStop and m_socks are shared without a lock.  Going on through a     *)
(* vector that another task clears is undefined, and stops the model.      *)
(***************************************************************************)
EXTENDS Integers, FiniteSets

CONSTANTS
  Listener,      \* addresses to listen on, and their Socket objects
  Client, SrvWorker,
  SrvFds,        \* descriptors
  MaxStops,      \* bound on stop()
  Restarts,      \* whether start() is called again after stop()
  Free, Other    \* a free descriptor; one of another part of the program

ASSUME SrvAssumption ==
  /\ SrvFds \subseteq Nat \ {0} /\ Cardinality(SrvFds) >= Cardinality(Listener)
  /\ MaxStops \in Nat /\ Restarts \in BOOLEAN
  /\ {Free, Other} \cap Listener = {}

VARIABLES
  m_isStop, m_socks,
  fails,         \* the vector the caller hands to bind(), time and again
  fd,            \* m_sock of each Socket; 0 stands for -1
  owns,          \* kernel: whose each descriptor is
  tasks,         \* the scheduler's tasks of this server
  job, at,       \* workers: the task each runs, and where it is
  left,          \* ... and the sockets a closing task has not come to
  client,        \* where each client is
  starts, stops,
  released,      \* the owner has let go, and the server is destroyed
  strayClose,    \* ghost: ::close() of a descriptor that is not the Socket's
  srvFault

listenVars == <<m_socks, fd, owns>>
workVars == <<tasks, job, at, left>>
countVars == <<starts, stops, released>>
srvVars == <<m_isStop, listenVars, fails, workVars, client, countVars, strayClose, srvFault>>

Idle == <<"idle", Free, 0>>

SrvInit ==
  /\ m_isStop = TRUE /\ m_socks = {} /\ fails = {}
  /\ fd = [l \in Listener |-> 0] /\ owns = [d \in SrvFds |-> Free]
  /\ tasks = {} /\ job = [w \in SrvWorker |-> Idle]
  /\ at = [w \in SrvWorker |-> <<"run">>] /\ left = [w \in SrvWorker |-> {}]
  /\ client = [c \in Client |-> <<"away", Free>>]
  /\ starts = 0 /\ stops = 0 /\ released = FALSE
  /\ strayClose = FALSE /\ srvFault = FALSE

(* Somebody holds a pointer to the Socket: m_socks, or a startAccept().    *)
Held(l) ==
  \/ l \in m_socks
  \/ \E t \in tasks \cup {job[w] : w \in SrvWorker} : t[1] = "accept" /\ t[2] = l

(* The steps that drop pointers: a Socket that nobody holds any more is    *)
(* destroyed, and ~Socket() closes what it still has.                      *)
Destroying ==
  LET gone == {l \in Listener : fd[l] # 0 /\ ~Held(l)'}
  IN  /\ fd' = [l \in Listener |-> IF l \in gone THEN 0 ELSE fd[l]]
      /\ owns' = [d \in SrvFds |-> IF \E l \in gone : fd[l] = d THEN Free ELSE owns[d]]
      /\ strayClose' = (strayClose \/ \E l \in gone : owns[fd[l]] # l)

Step(w, l) == at' = [at EXCEPT ![w] = l]
Ends(w) == job' = [job EXCEPT ![w] = Idle] /\ Step(w, <<"run">>) /\ UNCHANGED left

-----------------------------------------------------------------------------
(* The owner of the server.                                                *)

(* Mutant: only what failed this time counts.                              *)
Failed_Now(now, before) == now

(* fails is added to, and never emptied.                                   *)
Failed(now, before) == before \cup now

(* bind(): the sockets are made and bound one by one, an address in use    *)
(* fails, and they join those of earlier calls.  If fails is not empty at  *)
(* the end all of them go, the earlier ones too.  Only before stop().      *)
BindAll(addrs, now, before) ==
  /\ stops = 0 /\ ~released /\ \A l \in addrs \ now : ~Held(l)
  /\ fails' = before \cup now
  /\ UNCHANGED <<m_isStop, workVars, client, countVars, srvFault>>
  /\ IF Failed(now, before) # {} THEN m_socks' = {} /\ Destroying
     ELSE \E f \in [addrs -> {d \in SrvFds : owns[d] = Free}] :
            /\ \A k, l \in addrs : f[k] = f[l] => k = l
            /\ m_socks' = m_socks \cup addrs
            /\ fd' = [l \in Listener |-> IF l \in addrs THEN f[l] ELSE fd[l]]
            /\ owns' = [d \in SrvFds |->
                 IF \E l \in addrs : f[l] = d THEN CHOOSE l \in addrs : f[l] = d
                 ELSE owns[d]]
            /\ UNCHANGED strayClose

(* start(): a task for each socket, if there are any.                      *)
Start ==
  /\ m_isStop /\ ~released
  /\ \/ starts = 0
     \/ starts = 1 /\ Restarts
  /\ m_isStop' = FALSE /\ starts' = starts + 1
  /\ tasks' = tasks \cup {<<"accept", l, starts'>> : l \in m_socks}
  /\ UNCHANGED <<listenVars, fails, job, at, left, client, stops, released, strayClose, srvFault>>

(* stop(), any number of times.                                            *)
Stop ==
  /\ starts > 0 /\ stops < MaxStops /\ ~released
  /\ m_isStop' = TRUE /\ stops' = stops + 1
  /\ tasks' = tasks \cup {<<"close", Free, stops'>>}
  /\ UNCHANGED <<listenVars, fails, job, at, left, client, starts, released, strayClose, srvFault>>

(* ~TcpServer(), when no task holds a pointer to the server any more: it   *)
(* closes what stop() has not closed.                                      *)
Release ==
  /\ ~released /\ tasks = {} /\ \A w \in SrvWorker : job[w] = Idle
  /\ released' = TRUE /\ m_socks' = {}
  /\ UNCHANGED workVars /\ Destroying
  /\ UNCHANGED <<m_isStop, fails, client, starts, stops, srvFault>>

-----------------------------------------------------------------------------
(* The world.                                                              *)

(* A client connects to a socket that listens.                             *)
Arrives(c, l) ==
  /\ client[c][1] = "away" /\ fd[l] # 0 /\ owns[fd[l]] = l
  /\ client' = [client EXCEPT ![c] = <<"pending", l>>]
  /\ UNCHANGED <<m_isStop, listenVars, fails, workVars, countVars, strayClose, srvFault>>

(* Another part of the program opens a descriptor the server has closed.   *)
OtherOpens(d) ==
  /\ stops > 0 /\ owns[d] = Free
  /\ owns' = [owns EXCEPT ![d] = Other]
  /\ UNCHANGED <<m_isStop, m_socks, fd, fails, workVars, client, countVars, strayClose, srvFault>>

-----------------------------------------------------------------------------
(* The workers.                                                            *)

Take(w, t) ==
  /\ job[w] = Idle /\ t \in tasks
  /\ tasks' = tasks \ {t} /\ job' = [job EXCEPT ![w] = t]
  /\ Step(w, <<"begin">>)
  /\ left' = [left EXCEPT ![w] = IF t[1] = "close" THEN m_socks ELSE {}]
  /\ client' = IF t[1] = "client" THEN [client EXCEPT ![t[2]] = <<"handled", Free>>] ELSE client
  /\ UNCHANGED <<m_isStop, listenVars, fails, countVars, strayClose, srvFault>>

(* Mutant: a loop with nothing to stop it.                                 *)
Leaves_Never == FALSE

Leaves == m_isStop

(* The loop's test: out, or on to accept().                                *)
LoopTest(w) ==
  /\ job[w][1] = "accept" /\ at[w] = <<"begin">>
  /\ UNCHANGED <<m_isStop, m_socks, fails, tasks, client, countVars, srvFault>>
  /\ IF Leaves THEN Ends(w) /\ Destroying
     ELSE Step(w, <<"accept">>) /\ UNCHANGED <<job, left, fd, owns, strayClose>>

(* Mutant: a client accepted while the server stops is dropped.            *)
Handed_Running(c) == IF m_isStop THEN {} ELSE {<<"client", c, 0>>}

Handed(c) == {<<"client", c, 0>>}

(* accept() on the descriptor the Socket now has: a client becomes a task, *)
(* nothing pending and a bad descriptor are the same.                      *)
Accept(w) ==
  LET l == job[w][2]
      pending == {c \in Client : client[c] = <<"pending", l>>}
  IN  /\ job[w][1] = "accept" /\ at[w] = <<"accept">>
      /\ Step(w, <<"begin">>)
      /\ IF fd[l] # 0 /\ owns[fd[l]] = l /\ pending # {}
           THEN \E c \in pending :
                  /\ client' = [client EXCEPT ![c] = <<"accepted", Free>>]
                  /\ tasks' = tasks \cup Handed(c)
           ELSE UNCHANGED <<client, tasks>>
      /\ UNCHANGED <<m_isStop, listenVars, fails, job, left, countVars, strayClose, srvFault>>

(* handleClient() returns, if its client says something.                   *)
ClientDone(w) ==
  /\ job[w][1] = "client"
  /\ Ends(w)
  /\ UNCHANGED <<m_isStop, listenVars, fails, tasks, client, countVars, strayClose, srvFault>>

(* The closing task, for one socket: cancelAll() and ::close() of the      *)
(* descriptor it reads ...                                                 *)
CloseOne(w, l) ==
  /\ job[w][1] = "close" /\ at[w] = <<"begin">> /\ l \in left[w]
  /\ IF m_socks = {} THEN srvFault' = TRUE /\ UNCHANGED <<at, owns, strayClose>>
     ELSE /\ Step(w, <<"closed", l>>)
          /\ strayClose' = (strayClose \/ (fd[l] # 0 /\ owns[fd[l]] # l))
          /\ owns' = IF fd[l] = 0 THEN owns ELSE [owns EXCEPT ![fd[l]] = Free]
          /\ UNCHANGED srvFault
  /\ UNCHANGED <<m_isStop, m_socks, fd, fails, tasks, job, left, client, countVars>>

(* Mutant: m_sock is not reset.                                            *)
Reset_Not(l) == fd

Reset(l) == [fd EXCEPT ![l] = 0]

(* ... and then m_sock is set to -1.                                       *)
CloseSets(w, l) ==
  /\ at[w] = <<"closed", l>>
  /\ fd' = Reset(l)
  /\ left' = [left EXCEPT ![w] = @ \ {l}]
  /\ Step(w, <<"begin">>)
  /\ UNCHANGED <<m_isStop, m_socks, owns, fails, tasks, job, client, countVars,
                 strayClose, srvFault>>

(* m_socks.clear().                                                        *)
CloseEnds(w) ==
  /\ job[w][1] = "close" /\ at[w] = <<"begin">> /\ left[w] = {}
  /\ m_socks' = {}
  /\ Ends(w) /\ UNCHANGED tasks
  /\ Destroying
  /\ UNCHANGED <<m_isStop, fails, client, countVars, srvFault>>

-----------------------------------------------------------------------------
Runs(w) ==
  \/ \E t \in tasks : Take(w, t)
  \/ LoopTest(w) \/ Accept(w) \/ CloseEnds(w)
  \/ \E l \in Listener : CloseOne(w, l) \/ CloseSets(w, l)

SrvNext ==
  /\ ~srvFault
  /\ \/ \E addrs \in SUBSET Listener, before \in {fails, {}} :
          \E now \in SUBSET addrs : BindAll(addrs, now, before)
     \/ Start \/ Stop \/ Release
     \/ \E c \in Client, l \in Listener : Arrives(c, l)
     \/ \E d \in SrvFds : OtherOpens(d)
     \/ \E w \in SrvWorker : Runs(w) \/ ClientDone(w)

(* Workers run tasks; clients may stay silent, the owner may do nothing.   *)
SrvFairness == \A w \in SrvWorker : WF_srvVars(~srvFault /\ Runs(w))

-----------------------------------------------------------------------------
(* Types of the variables.                                                 *)
SrvTypeOK ==
  /\ m_isStop \in BOOLEAN /\ m_socks \subseteq Listener /\ fails \subseteq Listener
  /\ fd \in [Listener -> SrvFds \cup {0}]
  /\ owns \in [SrvFds -> Listener \cup {Free, Other}]
  /\ \A w \in SrvWorker : left[w] \subseteq Listener
  /\ \A c \in Client :
       client[c][1] \in {"away", "pending", "accepted", "handled"}
  /\ starts \in 0 .. 2 /\ stops \in 0 .. MaxStops /\ released \in BOOLEAN
  /\ strayClose \in BOOLEAN /\ srvFault \in BOOLEAN

(* The server has no socket after an address has failed, of this call or of*)
(* an earlier one, and none for ever if the caller keeps the vector        *)
(* (server.cpp:67), as tests/test_server.cpp:16 does; and until it starts  *)
(* what is open are its sockets: a bind() that fails leaves none behind.   *)
BindAllOrNothing ==
  /\ fails # {} => m_socks = {}
  /\ starts = 0 => \A l \in Listener : fd[l] # 0 <=> l \in m_socks

(* Only a second stop() makes the server close a descriptor that is not    *)
(* its own any more, or go on through a cleared vector (server.cpp:113,    *)
(* socket.cpp:236): one stop() does neither, whatever the accept loops do  *)
(* and however start() comes between.                                      *)
StrayNeedsTwoStops == strayClose \/ srvFault => stops >= 2

(* After stop() every socket gets closed, if the server is not started     *)
(* again, and some worker is not kept by a silent client (server.cpp:112). *)
AllSilent == \A w \in SrvWorker : job[w][1] = "client"

StopCloses ==
  (stops > 0 /\ m_isStop) ~>
    ((\A l \in Listener : fd[l] = 0) \/ ~m_isStop \/ AllSilent \/ srvFault)

(* A client that was accepted is handled, if workers are free again and    *)
(* again: the accept loops never give theirs up (server.cpp:82).           *)
AcceptedHandled ==
  \A c \in Client :
    []<>(\E w \in SrvWorker : job[w] = Idle) =>
      (client[c][1] = "accepted" ~> (client[c][1] = "handled" \/ srvFault))
=============================================================================
