# A TLA+ model of sylar

`src/sylar` is a C++ server framework: worker threads that run callbacks as
tasks, coroutines that stand in for blocking calls, timers, an epoll-based I/O
manager, hooked system calls, and on top of them sockets, a TCP server, a
configuration store and a logger. This directory models its core, checks the
models with TLC and proves theorems about them with TLAPS.

## 1. Inventory

| part | state | operations | interacts with |
|---|---|---|---|
| Scheduler (`schedule.cpp`) | slots `m_task`, `task_number`, `m_stopping`, `schedule_mutex`, one coroutine per worker | `schedule` (one, range), `start`, `run`, `idle`, `stop`, `~Schedule` | starts `Thread`s; `idle` and `tickle` are overridden by `IOmanager` |
| Threads (`thread.cpp`) | id, callback, a semaphore; one static `g_mutex` | `Thread()`, `run`, `join`, `~Thread`, `wait`, `notify` | used by `Schedule::start` |
| Timers (`Timer.cpp`) | the set `m_timers`, each timer's `m_next`, `m_gap`, `m_cb`; `TimerRWMutex` | `addTimer`, `cancel`, `refresh`, `reset`, `GetNextTimerMs`, `GetExpiredCb` | workers in `IOmanager::idle` expire timers into `schedule` |
| I/O manager (`iomanager.cpp`) | `m_events`, the epoll interest list, the tickle pipe | `addEvent`, `delEvent`, `cancel`, `changerEvent`, `idle`, `tickle`, `stop` | is a `Schedule` and a `TimerManager`; raw context pointers in epoll |
| Hooks (`hook.cpp`) | per call: a flag on the stack, `timer_info` | `sleep`, `usleep`, `do_io`, `connect`, `close`, `fcntl`, `ioctl` | timers, events and the workers' `idle` |
| Descriptor contexts (`fd_manager.cpp`) | table of `FdCtx`, two views of `O_NONBLOCK` | `get`, `del` | hooks |
| TCP server (`server.cpp`) | listening sockets `m_socks`, `m_isStop`, the caller's `fails` | `bind`, `start`, `startAccept`, `stop`, `handleClient` | tasks of the scheduler |
| Sockets (`socket.cpp`) | descriptor, connected or not, remembered addresses, `m_ssl` | `bind`, `connect`, `reconnect`, `close`, `send`, `recv` | hooks |
| Addresses (`address.cpp`) | bytes of a `sockaddr` | `Lookup`, printing, order, prefix arithmetic | sockets |
| Configuration (`config.hpp`) | variables by name, values, listeners, members of all files | `Lookup`, `setValue`, `addlisten`, `LoadFileFromYaml` | logger |
| Logger (`logger.cpp`) | loggers by name, appenders, levels, the parsed pattern | `GetLogger`, `log`, `addAppender`, `delAppender`, `parsePattern` | everything |
| HTTP (`http/`) | request and response fields, lazily parsed parameters | getters, setters, `init`, `dump` | nothing yet |
| Utilities (`util.cpp`) | none | encoding, trimming | HTTP |

What is hard here is concurrency: workers share the slots, the timers and the
events, and most sections are split in two by a lock that is given up half way
(find, unlock, lock, erase). Shutdown decides from counters instead of from the
data. Wake-ups go through flags, a pipe and a condition variable. What makes
each part correct:

- scheduler: every accepted task runs once, none is lost at shutdown, workers
  leave only when nothing can come any more, the destructor returns;
- threads: the constructor returns after the hand-over, and does return; the
  object is not used after it is gone;
- timers: a callback is handed over once, expiry loses nothing, `cancel` takes
  out its own timer, a due timer fires;
- I/O manager: `m_events` and epoll agree, no freed context is reachable, an
  edge reaches its callback, tickling never blocks the workers;
- hooks: a call gets data that came in time; sleepers wake up; no callback
  touches the stack of a call that has returned;
- descriptor table: a context belongs to the descriptor now open, and the two
  views of `O_NONBLOCK` agree;
- sockets and server: only one's own descriptors are used and closed; `stop`
  closes every socket, an accepted client is handled;
- configuration and logger: one object per name, listeners and appenders are
  those that were added, no iteration over what another thread changes;
- HTTP and utilities: look-ups, sets and deletions in any order give what was
  said last; what is encoded can be decoded.

`PROJECT.json` lists the hazards line by line.

## 2. Plan

Written, in this order: `TaskPool`, `Schedule`, `ScheduleProofs` (the scheduler
is what all else runs on); `Thread`, `ThreadProofs`; `Timer`; `IOManager`;
`Hook` (the composition of workers, timers, events and task slots under the
calls that wait for them); `Descriptors`, `Socket`, `Server`; `Config`,
`Logger`, `Text`, `Http`, `Address`; then the proofs: the refinement of
`TaskPool` in `ScheduleProofs`, `TimerProofs`, `IOManagerProofs`, `NetProofs`,
`HookProofs`, `StoresProofs`, `TextProofs`.

To come, most important first:

1. Empty functions from timers as tasks that never run, in a composition of
   `Timer` with `Schedule`.
2. The prefix arithmetic of `address.cpp` against a reference definition.

Abstract specifications worth stating beside `TaskPool`: a table with one object
per key, for `Descriptors` and `Config`.

## 3. The modules

### Schedule, TaskPool

`Schedule` has the variables of the class under their names. A section under
the exclusive side of `schedule_mutex` is one action (`Insert`, `InsertRange`,
`Take`, `CountDown`); a section under the shared side is two (`IdleLock` and
`IdleTest`, `CheckLock` and `CheckTest`), because readers overlap and keep a
writer out. `m_stopping` is read in `schedule()` before the lock (`Ask`) and
written in `~Schedule()` without it (`Destroy`). The coroutine of `idle()` is
`idle_fiber`: resuming it after its end fails an assertion in Boost, which sets
`aborted`. `schedule_mutex` is a glibc rwlock, in which the holder of the write
side that asks for the read side gets EDEADLK: `StopRuns`. Line 76 of the source
assigns to `thread_id` where it means to compare, so pinning has no effect and
`Take` ignores it. The calls of a task's body are the actions `Ask`, `Insert`
and `InsertRange` of its worker between `Take` and `BodyEnds`.

`TaskPool` is the promise: accepted tasks wait, run and are done, once; the pool
closes when nothing waits or runs. `Schedule` implements it with
`Pool == INSTANCE TaskPool WITH ...` (`ImplementsPool`).

### Thread

`wait()` is `Lock`, then `Pass` or `Miss` and `Enqueue`; the gap between the last
two is the one in `condition_variable::wait` between predicate and block.
`notify()` is `Raise` and `Signal`, without `g_mutex`, as in the code. Spurious
wake-ups may happen, and no property relies on them.

### Timer

A thread is a worker in its loop (`PeekSize`, `PeekFirst`, `Collect`, `Deliver`,
`Rearm`) or a user of a timer. `cancel()`, `refresh()` and `reset()` find under
one lock (`Find`) and act under the next or under none (`Erase`, `RefreshErase`,
`RefreshErased`, `Clear`); the iterator they keep is `it`, `Stale` once another
thread has erased its node. `Found` is the comparator of the set: by `m_next`
only. `m_next` is unsigned and wraps at `Wrap`.

### IOManager

`addEvent` is `Add` (the locked part) and `AddCtl` (epoll_ctl, after the lock);
`delEvent`, `cancel` and `changerEvent` are `Lookup` and then `Del`, `Cancel` or
`Change`. A worker is `Wait`, then `HandlePipe`, `Widen` and `Trigger` for what
epoll_wait returned, with `Tickle` after each callback it schedules. epoll
(`Arrive`, and the ready list in `Register` and `Unregister`) is modelled from
its use: edge-triggered, one worker per edge, `data.ptr` a raw pointer. Other
parts of the program tickle through `OtherTickle`. The hand-over of timers in
`idle()` is in `Hook`; the shutdown is not modelled.

### Hook

A hooked call is a task that keeps its worker. It registers a timer, an event or
both and then polls (`PollEdges`, `PollTimer`: a turn of `idle()` from inside the
call) until `flag`, on its stack, is cleared by a callback. Callbacks are tasks,
run by a worker that is in `run()`: a call that waits hands callbacks over, but
runs none. `Begin`, `AddEvent`, `Arm`, `Resume`, `Finish` are `do_io()`; `Begin`,
`Assign`, `Resume` the sleeps; `Connect` and `Close` theirs. The callbacks are
`RunWake`, `RunSleepTimer` with `CancelOwn` (the second line of `usleep()`'s),
`RunTimeout` with `TimeoutDeletes`. What `Timer` and `IOManager` split into steps
is one step here, and slots are taken in any order. A callback that reaches for a
stack that is gone sets `fault`.

The timers of all calls are in one set, ordered by `m_next` (`due`) alone, and any
two may fall on one millisecond: `AddTimer` then refuses the second, and
`CancelTimer`, the `cancel()` of `connect()` and of `usleep()`, takes out whichever
timer is due then. `lost` records the calls this happened to.

### Descriptors, Socket, Server

`Descriptors`: `get()` with auto_create is `GetLook` and `GetCreate`, in two
locks; `close()` is `CloseLook`, `CloseDelete` and `CloseKernel`, since the
context goes before the descriptor. The kernel gives out the lowest free number.
`user`, `born`, `ioctled` and `rawClosed` record what was asked for.

`Socket` is one object in one thread, among descriptors that other parts of the
program open and close. `HasSock` is `isValid()` or `newSock()`; `Used` is the
descriptor `send()` and `recv()` go to: `m_ssl`'s for an `SSLSocket`.

`Server` has the tasks of one `TcpServer` on the scheduler's workers. The loop of
`startAccept()` is `LoopTest` and `Accept`; `accept()` on a non-blocking socket
whose hook waits in vain is the empty outcome of `Accept`. `CloseOne` and
`CloseSets` are the two halves of `Socket::close()` between which an accept loop
or another `stop()` may come; `BindAll` may be called again, before `start()` or
after it, and adds to the sockets that are there; `Destroying` is what happens when the last pointer
to a `Socket` goes; `Release` is `~TcpServer()`.

### Config, Logger, Http, Text, Address

`Config`: `Lookup()` is `LookBase`, `LookTyped` and `Insert`; `setValue()` is
`SetNotify` (the listeners, under the shared lock) and `Store`. A value is a pair
of which the equality of some types sees the first half (`SameValue`): that is
`logDefine::operator==`. `LoadFile` appends to `all_node` what `ListAllMember` lets
through: a member whose path has a letter that its test refuses is left out with
all below it, although `Lookup()` may allow the name (`Unlisted`: one with a space).
Then every entry is searched for in the registry, without the lock (`LookupBase`),
and applied (`Apply`); an insertion that meets the search sets `torn`.

`Logger`: the parser of patterns is one action per turn of its loop (`ParseItem`);
`delAppender()` is `DelFind` without the lock and `DelErase` under it; `log()` is
`LogBegin`, one `LogNext` per appender, and `LogEnd`, with no lock around the loop.
An appender may be added again while it is there; `delAppender()` takes out the
first place it has.

`Http`: one request; look-ups parse (`InitParams`) what has not been parsed.
`Text` and `Address` are functions, with a variable that holds their input.
`Pairs` in `Text` is the macro `PARSE_PARAM`.

`MCNet` and `MCStores` put several of these modules into one run: a behaviour is
one of a single part, the others stand still, so that the state spaces add up.

### Undefined behaviour

Where the code uses an iterator whose node is gone, changes a key inside the
set, races on a container without a lock, or reaches a freed object, C++ says
nothing of what follows. `Timer`, `IOManager` and `Thread` then set `corrupt`
(`Hook`: `fault`, `Server`: `srvFault`, `Logger`: `undefined`, `Config`: `torn`) and stop: safety
properties describe what holds up to that point, liveness properties name it
among the outcomes. These places are hazards in
`PROJECT.json`; some properties say which of them are reachable in what way
(`JoinIsEnough`, for instance, says when the semaphore can be used after it was
freed), and where no property can tell, the hazard says so. One is in every call:
`IOmanager::cancel()` goes on through the iterator it has just erased
(`iomanager.cpp:335`). `Cancel` then goes well, as it does with memory that was
freed but not used again, or sets `corrupt`.

## 4. The runs

| run | instance | shows |
|---|---|---|
| `schedule` | 2 workers, 3 tasks, destroy or stop | `Accounting`, `ReturnedDrained`, `OnlyStopAborts`, `DestroyedAllRan`; `DestroyReturns`, `AcceptedRuns`, `ImplementsPool` |
| `schedule_stop` | 2 workers, 2 tasks, stop | `NeverAborts` is violated: `stop()` runs `run()` with the lock held |
| `thread` | 2 owners, 3 threads | `HandedOver`, `JoinIsEnough` |
| `thread_wake` | the same | `NotifiedGoesOn` is violated: lost wake-up in the constructor |
| `timer` | 1 one-shot and 1 recurring timer, 2 threads | `HandedOnce`, `EmptyOnlyAfterReset`, `OnePlace`, `NothingVanishes`, `Fires` |
| `timer_cancel` | 2 timers, 1 thread | `CancelRemovesSelf` is violated: equal `m_next` |
| `iomanager` | 1 descriptor, 2 contexts, 2 workers, 1 client, 1 arrival | `InterestMatches`, `NoDanglingInterest` |
| `iomanager_live` | the same with 1 worker and a pipe of 2 bytes | `EdgeDispatched` |
| `iomanager_pipe` | the same | `PipeDrained` is violated: one byte per edge |
| `hook` | 2 workers, 7 programs of 2 calls, 2 arrivals, 2 milliseconds | `FaultCauses`, `TimerHeld`, `KeepsRegistration`; `SleeperWakes`, `DataReturned` |
| `net` | 2 threads, 3 descriptors, 3 openings; 1 socket object; 2 listeners, 2 workers, 1 client, 2 `stop()`, a restart | `NoStaleContext`, `ModesAgree`; `SocketOwn`; `BindAllOrNothing`, `StrayNeedsTwoStops`, `StopCloses`, `AcceptedHandled` |
| `stores` | 2 threads each on the configuration and a logger; patterns up to 7 characters; 7 changes of a request; texts up to 5, hosts up to 7 characters | `ConfigHolds`, `LoggerHolds`, `HttpHolds`, `TextHolds`, `AddressHolds` |

What the new properties say, where a name does not tell: `FaultCauses` lists the
only ways a callback can touch a stack that is gone, so that `sleep()` never does
and `read()` only after a second edge, after a timeout, or when another call has
begun on its descriptor. `TimerHeld` says that a sleeper loses its timer only to one
of the same millisecond; `SleeperWakes` and `DataReturned` name that loss among the
outcomes (finding 5). `DataReturned` holds although the flag is set after the event is
registered, because the timeout runs the callback once more. `StrayNeedsTwoStops`
says that one `stop()` is safe against accept loops and restarts, two are not.
`LoggerHolds` joins `PatternEnds` and `PatternKept` (the parser ends, and its
items are the pattern) with `LoggerKept`; `ConfigHolds` joins `OneVariable`,
`ListenersKnow`, `LoadedAll` and `Unreached`; `HttpHolds` joins `ParamsAsSaid` and
`CloseAgrees`; `TextHolds` joins the round trip of the encodings, which characters
stay as they are (`OnlyListedStay`), the trims and the pairs of `PARSE_PARAM`.

The bounds, and why they are enough to meet the interesting cases:

- `Schedule`: three tasks make slots free, reused and appended, a range that
  needs both, a task that schedules another while `~Schedule()` joins, and a
  task left over while both workers are busy. Two workers are what a stop test
  and a coroutine's end need to race. Each task is handed over once.
- `Thread`: two owners compete for `g_mutex`; three threads let one owner go on
  after another is stuck. `Wrap` (3) stands for 2^32 and is never reached.
- `Timer`: two timers and two intervals give equal keys and both orders; the
  clock runs from `StartTime` to `MaxTime`, so that both a timer that fires and
  one whose time never comes exist; `Wrap` (6) is above every sum and below a
  difference that goes negative. Two threads are what each split section needs.
- `IOManager`: the second context lets a descriptor be deleted and added again
  while a worker holds the first pointer; each context is allocated once.
  `MaxArrivals` bounds the network; further edges come from epoll_ctl on a
  descriptor that is ready. `PipeCap` is the pipe's 64 KiB scaled down.
- `Hook`: two calls on two workers can block them all, and that is for good: nobody
  is left to run what clears a flag (`AllBlocked`, which the liveness properties name
  among the outcomes). `connect()` never waits, so the programs that pair it with a
  sleep or a read leave a worker free to run callbacks, and those with `close()` do
  once it is through: there the liveness properties are not met by everyone waiting.
  `Programs` pairs the kinds that meet: two readers of a descriptor, a reader and a
  writer, a reader and a close, sleeps and reads beside `connect()`, whose `cancel()`
  may take their timers, and two sleeps. Calls outside the program never begin, so a
  reader beside a `connect()` has its descriptor to itself and no other call can
  excuse its faults. Two arrivals queue one callback twice; two milliseconds let any
  two timers fall together or apart, in both orders.
- `Descriptors`: the table starts at 2 of 3 descriptors (64 in the code), so that
  it grows; three openings reuse a number. `Server`: as many listeners as
  workers, so that accept loops can hold them all; `bind()` may be called
  again until the first `stop()`.
- `MaxPattern` 7 is the shortest pattern with two dates, or a brace before one;
  `Char` has every character the functions treat apart, two of the blanks and the
  `=` among them; `MaxText` 5 holds an escape with neighbours. Of the three names of
  the configuration one is refused by `Lookup()` and one by the loader. Six calls add
  an appender twice, delete it once and log.

Deadlock is not checked: each system may stop (destroyed scheduler, corrupt
state, a client that calls no more, a full pipe, bounds reached, inputs read to
their end).

Fairness. Every thread that can take a step does (weak fairness). A worker that
waits for the exclusive side of `schedule_mutex` gets it although readers come
and go (strong fairness): glibc's rwlock prefers readers and promises less, but
the readers of `idle()` hold the lock for a few instructions between which it is
free again and again. The same holds for `g_mutex` in `Thread`. In `Timer`, a
worker comes back to its loop however often timers are used in between, and the
clock goes on. In `Hook` and `Server` every worker runs (weak fairness on all
it can do: which task it takes is free), and while some worker polls, the time of
a timer comes; `AcceptedHandled` assumes besides that some worker is idle again
and again, since tasks are taken in any order there. Callers, clients, arrivals,
`Destroy` and `Stop` are under no fairness: nothing obliges them.

## 5. The proofs

All theorems are about the specification of the module they extend (`Spec`;
`NetSpec` of `MCNet`, `StoresSpec` of `MCStores`), for every value of the
constants under the modules' assumptions. These are weak: sets of workers, tasks
and timers of any size (finite where they are counted), values that stand for
nothing are not in those sets, a table starts with two descriptors or more, there
is a descriptor, a stored value and a level, a given parameter is not the absent
one. `Timer` assumes besides that the clock, with any interval added, stays below
`Wrap`: 64 bits of milliseconds do not run out, and the wrap it is about is that
of a difference below zero. TLC evaluates the assumptions in every run.

Between them the theorems state every safety and action property that a passing
run checks. The inductive invariants were checked by TLC first, on the runs'
instances or larger ones.

`ScheduleProofs`: `TypeCorrect`, `AccountingHolds`, `ReturnedDrainedHolds`,
`OnlyStopAbortsHolds`, `DestroyedAllRanHolds` and `ImplementsPoolHolds`. What a worker relies on when it leaves `run()` or lets its
coroutine end is "m_stopping and task_number = 0", seen under one lock and used
under another. It is stable only because of facts about other variables, which
make up the inductive invariant `Inv`: `task_number` counts exactly the occupied
slots and the busy workers (`Accounting`), so zero means that no body runs that
could schedule; a call past its look at `m_stopping` is made from a body or by an
owner that has not given the scheduler up (`CallsFromLivePlaces`); `m_stopping`
is set exactly when the owner has (`StoppingIsPast`); and so "stopping and zero",
once seen by a worker that left or whose coroutine ended, stays (`Settled`).
`Accounting` rests on lemmas about the slots: `Put` occupies one slot more
(`PutAddsOne`), `Vacate` one fewer (`VacateRemovesOne`).

For the refinement of `TaskPool` and for `DestroyedAllRan` counting is not enough;
each task is followed. The invariant `Places` says that a task some call was made with is refused, held by
its caller, in a slot, in a body or done, in one of these places and once. Then
each step is one of the pool's or a stutter (`StepIsPoolStep`), and when the
counter is zero and all workers are gone, what is left is refused or done.

`ThreadProofs`: `TypeCorrect`, `HandedOverHolds` and `JoinIsEnoughHolds`. The
invariant says that two owners never make the same thread (`OneMaker`), that the
fields tell how far `run()` is (`Fields`), and that the count is one exactly
between `Raise` and the constructor's return (`Handshake`).

`TimerProofs`: `TypeCorrect`, `HandedOnceHolds`, `EmptyOnlyAfterResetHolds`,
`OnePlaceHolds` and `NothingVanishesHolds`. They hold together or not at all: a
timer is handed over once because it is in one place, and is in one place because
an iterator that is not stale points into the set, so that `refresh()` takes out
what no other thread has in hand. `Batch`, the vector of `GetExpiredCb()`, is
defined by what it is (ordered, complete, one place for each) and not by a sorting
operator, which takes an operator as argument and means nothing to the provers.

`IOManagerProofs`: `TypeCorrect`, `InterestMatchesHolds`,
`NoDanglingInterestHolds`. A call has its descriptor to itself (`OneCall`: the
program's obligation, modelled in the guards), so a step disturbs one descriptor;
the invariant says what `addEvent()` leaves open between the map and epoll_ctl.

`HookProofs`: `TypeCorrect`, `FaultCausesHolds`, `TimerHeldAlways` and the action
property `KeepsRegistrationHolds`. `FaultCauses` alone is not inductive. What is missing is
where each kind of call may be (`ByKind`), that what is registered belongs to a
call that is under way (`Registered`), what a call has set up half way
(`HalfDone`), and that whoever returned used up a callback, or timed out, or
shared its descriptor (`WaitsAnswered`, with `Counted` bounding callbacks by
arrivals): only then is a callback that is left over a second one. For `TimerHeld`
it is enough that a timer leaves the set for the tasks or for a timer of its
`m_next`, and that `m_next` never changes.

`NetProofs`: `TypeCorrect` (`NetTypeOK`), `NoStaleContextHolds`,
`ModesAgreeHolds`, `SocketOwnHolds`, `BindAllOrNothingHolds` and
`StrayNeedsTwoStopsHolds`. In the table, a descriptor that a call has begun on is
that call's alone until it has left it. In the server, a single `stop()` means a
single closing task, which has the sockets to itself.

`StoresProofs`: `ConfigHoldsAlways`, `HttpHoldsAlways`, `LoggerHoldsAlways`. For
the configuration, what lies between two halves of a call is what its thread saw,
unless a second call came between, which the ghosts record (`LookInv`, `SetInv`);
a load leaves behind it the last value read so far of each name it lists
(`LoadInv`). For
the parser, the items cut the pattern into pieces, one behind the other (`Cut`);
that the recursive `Texts` of the property has the pattern in it follows by taking
a least counterexample. For
the logger, without overlap one thread at a time deletes, none logs meanwhile, the
vector is as it was told but for the place about to be erased (`AsTold`), and a
message that came to place p was written by those before p whose level let it
pass, once for each place (`Logging`).

`TextProofs`: `TextHoldsAlways` and `AddressHoldsAlways`. The invariant is no more
than that the inputs are texts and addresses; the work is in what the functions of
`Text` and `Address` compute for all of them. The library's induction theorems
take an operator as parameter and cannot be used, so induction is a fact about
sets: a set that has x whenever it has all of lower rank has everything, for its
complement would have a member of least rank (`ByRank`, `FromTheEnd`). A recursive
function equals its definition only if some function satisfies it: `PieceWiseExists`
makes one out of finite approximations for every function that goes through a text
piece by piece, which are both directions of the URL encoding and `PARSE_PARAM`;
`TableExists` does so for the text of an address. `RoundTrip`: an encoded text splits
into codes, each read as the character it was made of, so that an escape is never cut
or joined with its neighbour. `SegmentsHold`: each pair starts behind the separator
that ended the one before, so the pairs are those of the segments with a `=` in
ascending order. `ReadBack`: a text of an address is a head, at most one gap and a
tail (`OneGap`), and the reader fills in as many zeros as were left out
(`GapFilled`); it holds for any values of the groups, although the run's are 0 and 1.
`LessIs` and `LessOn` say that `operator<` is a strict order on bytes of any number
and value; the property states it for the addresses TLC enumerates.

Only model-checked: the liveness properties (`DestroyReturns`, `AcceptedRuns`,
`Fires`, `EdgeDispatched`, `SleeperWakes`, `DataReturned`,
`StopCloses`, `AcceptedHandled`), which with fairness and ENABLED are out of
TLAPS's reach. All theorems hold
up to the points where the models stop at undefined behaviour.

## 6. Findings

1. `schedule.cpp:130`: `stop()` enters `run()` with `schedule_mutex` held; the
   process ends, where the comment says that it helps to run the tasks and
   `tests/test_schedule.cpp:17` uses it to finish.
2. `thread.cpp:33`: `notify()` without the mutex loses the wake-up; the
   constructor, and `Schedule::start()`, may hang.
3. `Timer.cpp:23`: timers with the same `m_next` are one to the set, so `cancel()`
   of one that was never inserted removes the other.
4. `iomanager.cpp:264`: one byte of the tickle pipe is read per edge, where the
   comment says to read it all.
Findings 5 to 12 are met in runs that pass: the property admits the case by name
and says that there is no other.

5. `Timer.cpp:96` (run `hook`, `SleeperWakes`): a timer of the same millisecond as
   another is refused without a word, so a `sleep()` may never return, where the
   comment at `hook.cpp:175` adds the timer "to give notice".
6. `util.cpp:88` (run `stores`, `TextHolds`): the table leaves `=` unescaped, which
   the comment at `util.cpp:128` does not list.
7. `hook.cpp:210` (run `hook`, `FaultCauses`): the callback of `usleep()` and
   `nanosleep()` reads the sleeper's stack after it let the sleeper go.
8. `server.cpp:67` (run `net`, `BindAllOrNothing`): `fails` is never emptied, so
   the retry of `tests/test_server.cpp:16` never succeeds after a failure.
9. `socket.cpp:496` (`SocketOwn`): a closed `SSLSocket` goes on using the number
   of its old descriptor.
10. `fd_manager.cpp:60` (`ModesAgree`): `SOCK_NONBLOCK` is forgotten; besides,
   `FIONBIO` reaches the kernel unmasked (`hook.cpp:523`).
11. `config.hpp:46` (run `stores`, `ConfigHolds`): appenders are compared with
   themselves, so a change of appenders alone is never applied.
12. `logger.cpp:220` (`LoggerHolds`): a second date in a pattern, or a brace before
    the first, makes the parser go round for ever.

Smaller observations made on the way, stated in the modules' comments or admitted
by a property: `do_io()` overwrites the user's timeout with 1000 ms
(`hook.cpp:96`) and never returns on it; `close()` strands a reader that waits;
`connect()` returns 0 while the connection is in progress; sockets of `AF_UNIX`
crash in `getLocalAddress()` and `getRemoteAddress()` (`socket.cpp:336`); accept
loops spin on a descriptor of -1 after a restart; `Lookup()` refuses names with a
`j` (`config.hpp:464`) that the loader accepts, and accepts names with a space that
the loader passes over (`config.hpp:521`); a later file
applies the earlier ones again (`config.hpp:493`); `TrimRight()` loses the last
character (`util.cpp:213`); a segment without `=` joins the next name
(`http.cpp:221`); an IPv6 host is split at its own colons (`address.cpp:57`).

## 7. Not modelled

Out of scope: what items, values and addresses look like when printed or converted
from YAML (data formatting), `HttpResponse` and the enumerations of methods and
statuses (setters and tables), socket options, timeouts and certificates, the
resolver and interfaces (`getaddrinfo`, `getifaddrs`), names of threads and
servers, `build/` (generated). The shutdown of `IOmanager`: `stop()` sets
`m_stopping`, tickles and, with the lock given up, runs `run()`; `~IOmanager()` then
joins the threads that `~Schedule()` joins again, which throws in every run that
gets there. Within the modelled parts: null
callbacks handed to `schedule()`, overlapping calls of `addEvent` and `delEvent`
for one descriptor (`IOManager`), callbacks of `delEvent(activate)` that call back
into the manager, other than `connect()`'s, which `Hook` has; more than one loader
of configuration files at a time; concurrent use of one `Socket` or one request;
`stop()` of a server before its first `start()` and `bind()` after a `stop()`;
`cancelAllEvent` (no caller), thread names, and the counters nobody reads
(`m_number_event`).
