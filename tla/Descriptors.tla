----------------------------- MODULE Descriptors -----------------------------
(***************************************************************************)
(* The table of descriptor contexts (fd_manager.cpp) and the hooked calls  *)
(* that keep it in step with the kernel's descriptors (hook.cpp): socket() *)
(* and accept() create, close() deletes, fcntl() and ioctl() keep two      *)
(* views of O_NONBLOCK.  The user sees the mode he asked for; the kernel's *)
(* flag is set on every socket, so that do_io() can wait in its own way.   *)
(*                                                                         *)
(* A thread may have its hooks switched off (set_hook_enable); accept(),   *)
(* fcntl() and ioctl() do not look at that.                                *)
(***************************************************************************)
EXTENDS Integers

CONSTANTS
  Thread,
  MaxFd,         \* descriptors are 0 .. MaxFd
  Slots,         \* first size of the table (64 in the code)
  MaxOpened,     \* bound: descriptors opened in one behaviour
  NoCtx

Fds == 0 .. MaxFd

ASSUME DescAssumption ==
  /\ MaxFd \in Nat /\ MaxOpened \in Nat
  /\ Slots \in Nat /\ Slots >= 2

VARIABLES
  open,          \* kernel: 0 for a free descriptor, else which opening it is
  opened,        \* how many openings there were
  isSocket, kernel,   \* kernel: its kind, and O_NONBLOCK
  table, size,   \* m_datas, and its size
  tpc, tfd,      \* threads: where they are, and with which descriptor
  hooked,        \* threads: t_hook_enable
  user,          \* ghost: the O_NONBLOCK the program asked for last
  born, ioctled, \* ghost: SOCK_NONBLOCK at creation; cleared by FIONBIO
  rawClosed      \* ghost: descriptors closed with hooks off

kernelVars == <<open, opened, isSocket, kernel>>
ghostVars == <<user, born, ioctled, rawClosed>>
threadVars == <<tpc, tfd, hooked>>
descVars == <<kernelVars, table, size, threadVars, ghostVars>>

DescInit ==
  /\ open = [f \in Fds |-> 0] /\ opened = 0
  /\ isSocket = [f \in Fds |-> FALSE] /\ kernel = [f \in Fds |-> FALSE]
  /\ table = [f \in Fds |-> NoCtx] /\ size = Slots
  /\ tpc = [t \in Thread |-> "idle"] /\ tfd = [t \in Thread |-> 0]
  /\ hooked \in [Thread -> BOOLEAN]
  /\ user = [f \in Fds |-> FALSE]
  /\ born = {} /\ ioctled = {} /\ rawClosed = {}

At(t, l, f) == tpc' = [tpc EXCEPT ![t] = l] /\ tfd' = [tfd EXCEPT ![t] = f] /\ UNCHANGED hooked
Quiet(f) == \A t \in Thread : tpc[t] # "idle" => tfd[t] # f

(* FdManager::get() without auto_create.                                   *)
Context(f) == IF f < size THEN table[f] ELSE NoCtx

(* What fcntl() and ioctl() take for a socket of theirs.                   *)
Managed(f) == Context(f) # NoCtx /\ Context(f).socket

(* The kernel gives out the lowest free descriptor.  accept() does not pass*)
(* O_NONBLOCK on; open() is not hooked.                                    *)
Open(t, call, nonblock) ==
  LET f == CHOOSE g \in Fds : open[g] = 0 /\ \A h \in Fds : open[h] = 0 => g <= h
  IN  /\ tpc[t] = "idle" /\ opened < MaxOpened
      /\ \E g \in Fds : open[g] = 0
      /\ call = "accept" => ~nonblock
      /\ opened' = opened + 1 /\ open' = [open EXCEPT ![f] = opened + 1]
      /\ isSocket' = [isSocket EXCEPT ![f] = call # "open"]
      /\ kernel' = [kernel EXCEPT ![f] = nonblock]
      /\ user' = [user EXCEPT ![f] = nonblock]
      /\ born' = IF nonblock THEN born \cup {f} ELSE born
      /\ IF call = "accept" \/ (call = "socket" /\ hooked[t])
           THEN At(t, "get", f) ELSE UNCHANGED threadVars
      /\ UNCHANGED <<table, size, ioctled, rawClosed>>

(* get() with auto_create looks under the shared lock ...                  *)
GetLook(t) ==
  LET f == tfd[t]
  IN  /\ tpc[t] = "get"
      /\ IF Context(f) # NoCtx THEN At(t, "idle", 0) ELSE At(t, "create", f)
      /\ UNCHANGED <<kernelVars, table, size, ghostVars>>

(* Mutant: the table grows to the descriptor's number.                     *)
Grown_Exact(f) == IF f >= size THEN f ELSE size

Grown(f) == IF f >= size THEN (f * 3) \div 2 ELSE size

(* ... and creates under the exclusive one, without another look; FdCtx()  *)
(* asks the kernel what the descriptor is, and sets O_NONBLOCK.            *)
GetCreate(t) ==
  LET f == tfd[t]
  IN  /\ tpc[t] = "create"
      /\ table' = [table EXCEPT ![f] =
           [of |-> open[f], socket |-> isSocket[f],
            userNonblock |-> FALSE, sysNonblock |-> isSocket[f]]]
      /\ kernel' = [kernel EXCEPT ![f] = @ \/ isSocket[f]]
      /\ size' = Grown(f)
      /\ At(t, "idle", 0)
      /\ rawClosed' = rawClosed \ {f}
      /\ UNCHANGED <<open, opened, isSocket, user, born, ioctled>>

(* Mutant: the user's flag is what goes to the kernel.                     *)
Masked_Not(f, b) == b

(* The kernel gets the flag the context wants.                             *)
Masked(f, b) == Context(f).sysNonblock

(* fcntl(F_SETFL), by any thread that has the descriptor.                  *)
SetFlags(t, f, b) ==
  /\ tpc[t] = "idle" /\ open[f] # 0
  /\ \A s \in Thread : tfd[s] = f => tpc[s] \notin {"get", "create"}
  /\ user' = [user EXCEPT ![f] = b] /\ born' = born \ {f}
  /\ IF Managed(f)
       THEN /\ table' = [table EXCEPT ![f].userNonblock = b]
            /\ kernel' = [kernel EXCEPT ![f] = Masked(f, b)]
       ELSE /\ kernel' = [kernel EXCEPT ![f] = b]
            /\ UNCHANGED table
  /\ ioctled' = IF kernel'[f] THEN ioctled \ {f} ELSE ioctled
  /\ UNCHANGED <<open, opened, isSocket, size, threadVars, rawClosed>>

(* ioctl(FIONBIO): the context learns it, and the kernel gets it as it is. *)
Ioctl(t, f, b) ==
  /\ tpc[t] = "idle" /\ open[f] # 0
  /\ \A s \in Thread : tfd[s] = f => tpc[s] \notin {"get", "create"}
  /\ user' = [user EXCEPT ![f] = b] /\ born' = born \ {f}
  /\ table' = IF Managed(f) THEN [table EXCEPT ![f].userNonblock = b] ELSE table
  /\ kernel' = [kernel EXCEPT ![f] = b]
  /\ ioctled' = IF b THEN ioctled \ {f} ELSE ioctled \cup {f}
  /\ UNCHANGED <<open, opened, isSocket, size, threadVars, rawClosed>>

(* close(): with hooks on and a context, the context goes first.           *)
CloseLook(t, f) ==
  /\ tpc[t] = "idle" /\ open[f] # 0 /\ Quiet(f)
  /\ At(t, IF hooked[t] /\ Context(f) # NoCtx THEN "del" ELSE "close", f)
  /\ rawClosed' = IF hooked[t] \/ Context(f) = NoCtx THEN rawClosed ELSE rawClosed \cup {f}
  /\ UNCHANGED <<kernelVars, table, size, user, born, ioctled>>

(* Mutant: the test on the size the wrong way round.                       *)
OutOfTable_Reversed(f) == size > f

(* The test del() makes; for f = size it would let an index pass that the  *)
(* table does not have.                                                    *)
OutOfTable(f) == size < f

CloseDelete(t) ==
  LET f == tfd[t]
  IN  /\ tpc[t] = "del"
      /\ table' = IF OutOfTable(f) THEN table ELSE [table EXCEPT ![f] = NoCtx]
      /\ At(t, "close", f)
      /\ UNCHANGED <<kernelVars, size, ghostVars>>

CloseKernel(t) ==
  /\ tpc[t] = "close"
  /\ open' = [open EXCEPT ![tfd[t]] = 0]
  /\ isSocket' = [isSocket EXCEPT ![tfd[t]] = FALSE]
  /\ kernel' = [kernel EXCEPT ![tfd[t]] = FALSE]
  /\ user' = [user EXCEPT ![tfd[t]] = FALSE]
  /\ born' = born \ {tfd[t]} /\ ioctled' = ioctled \ {tfd[t]}
  /\ At(t, "idle", 0)
  /\ UNCHANGED <<opened, table, size, rawClosed>>

DescNext ==
  \E t \in Thread :
    \/ GetLook(t) \/ GetCreate(t) \/ CloseDelete(t) \/ CloseKernel(t)
    \/ \E b \in BOOLEAN :
         \/ \E call \in {"socket", "accept", "open"} : Open(t, call, b)
         \/ \E f \in Fds : SetFlags(t, f, b) \/ Ioctl(t, f, b)
    \/ \E f \in Fds : CloseLook(t, f)

-----------------------------------------------------------------------------
(* fcntl(F_GETFL): the flag the program is shown.                          *)
Shown(f) == IF Managed(f) THEN Context(f).userNonblock ELSE kernel[f]

(* Types; every context is inside the table (fd_manager.cpp:104, 112).     *)
DescTypeOK ==
  /\ open \in [Fds -> 0 .. MaxOpened] /\ opened \in 0 .. MaxOpened
  /\ isSocket \in [Fds -> BOOLEAN] /\ kernel \in [Fds -> BOOLEAN]
  /\ \A f \in Fds : table[f] # NoCtx => f < size
  /\ tpc \in [Thread -> {"idle", "get", "create", "del", "close"}]
  /\ tfd \in [Thread -> Fds] /\ hooked \in [Thread -> BOOLEAN]
  /\ user \in [Fds -> BOOLEAN]
  /\ born \subseteq Fds /\ ioctled \subseteq Fds /\ rawClosed \subseteq Fds

(* A context in the table is that of the descriptor now open, never one    *)
(* left by an earlier descriptor of the same number (hook.cpp:417), unless *)
(* that was closed by a thread with its hooks off.                         *)
NoStaleContext ==
  \A f \in Fds : table[f] # NoCtx /\ table[f].of # open[f] => f \in rawClosed

(* Between calls, a descriptor with its own context shows the program the  *)
(* mode it asked for (SOCK_NONBLOCK at creation is forgotten: hook.cpp:248,*)
(* fd_manager.cpp:60), and its kernel flag is on, so that no hooked call   *)
(* blocks its worker in the kernel (not so after FIONBIO: hook.cpp:523).   *)
ModesAgree ==
  \A f \in Fds :
    open[f] # 0 /\ Quiet(f) /\ Context(f) # NoCtx /\ Context(f).of = open[f] =>
      /\ Shown(f) = user[f] \/ f \in born
      /\ kernel[f] \/ f \in ioctled
=============================================================================
