# A verification project for zcrt

zcrt is a small C runtime (schedules with worker threads, events, timers,
modules, containers, an ipc server) that runs on Linux, on win32 and inside the
Linux kernel. This directory holds TLA+ modules translated from its source, TLC
configurations that check them on small instances, and proofs checked by TLAPS.
`PROJECT.json` maps every definition to the lines it models and lists the runs,
the mutants, the findings, the hazards and the theorems.

## Inventory

| component | state | operations | hard parts |
|---|---|---|---|
| schedule (`zschedule.c`) | schedules with a size and a priority; threads with one job list per priority, head and tail pointers, free nodes, semaphore, `refCnt`, `run` | create, create_share, sendjob(_argn), delete, thread loop, module_init/delete | size check outside the mutex; wakeups; purge of one schedule out of shared lists; who stops a shared thread; self-freeing threads |
| kernel mutex (`zcrt_os_kernal.c`) | semaphore, `owner`, `recurse_count` | create, lock, unlock, trylock | owner and count are written outside the semaphore |
| ports (`zcrt_os_*.c`) | - | atomics, semaphores, mutexes, threads, memory | three different `zcrt_atom_dec`; uninitialized timeout on Linux |
| event manager (`zevent.c`) | a list per event, free list, `lastEvtid` | register(_ex), unregister, send(_ex), manage_init/delete | callbacks run under a recursive mutex and call back; `lastEvtid` is a guard outside the mutex |
| timer manager (`ztimer.c`) | timer list, free list, containers, rotor | container_new/delete, add, add_argn, delete, the sweep | the sweep reads the list without the mutex and restarts after each expiry |
| module (`zmodule.c`) | handles of the managers, thread list | new, delete, lock, unlock | deletion while threads are at work |
| ipc server (`zipc_server_os.c`, `zipc_server_kernal.c`) | clients, `jobcnt`, buffers, event hooks, three schedules | accept, receive, process, reply, event, delete | jobs that outlive their client; counters and buffers on error paths; loss of a connection with everything queued |
| ipc parser (`zipc_parse.c`) | output buffer, free buffers | check, dispatch, reply, hook, encode | error paths, what the reply says of them |
| ipc registry (`zipc_server.c`) | hash of components | register, unregister, lookup | no lock |
| tlv (`zipc_tlv.c`) | - | variable-length integers, zigzag, strings, arrays, tables | boundaries of each length, messages cut short |
| hash, array list, buffer (`zhash.c`, `zarraylist.c`, `zbuf.c`) | tables, cells, bytes | add, remove, lookup, grow, append, read | limits, growth, failed growth |
| kernel memory (`zcrt_mem_kernal.c`) | list of blocks | malloc, realloc, free | the list and the allocation are not changed together |
| log, helpers, strings | - | - | - |

How they meet: schedule threads, the event manager and the timer manager are
created by a module; the ipc server creates one schedule with a private thread
(`respondSch`), one that shares its thread (`evtSch`) and one on the common thread
(`sch`), hooks events and sends jobs; timer callbacks are expected to send jobs. A
client's message goes through `Buf`, is taken apart by `Tlv` and `ZipcParse`,
finds its component in `Registry` and comes back through `respondSch`. Everything
relies on the ports' mutex, which callers assume to be recursive.

What makes each part correct: a job that was accepted is run once, in order, or
dropped with its own schedule; a thread lives exactly as long as a schedule needs
it; sizes, nodes and buffers are accounted for; an event reaches everybody
registered for it; a timer runs once, neither late nor early; a mutex excludes and
lets its holder in again; a client is freed when, and only when, nothing names it;
a reply says what became of its request; what is encoded is what is decoded.

## Modules

| module | models | checked by | proved in |
|---|---|---|---|
| `Schedule` | `zschedule.c`, atomics and semaphore of the ports | `MCSchedule` | `ScheduleProofs` |
| `RecursiveMutex` | what `zcrt_mutex_*` promises | as a property of `KernelMutex` | `KernelMutexProofs` |
| `KernelMutex` | `zcrt_mutex_*` of the kernel port | `MCKernelMutex` | `KernelMutexProofs` |
| `Event` | `zevent.c` | `MCEvent` | `EventProofs` |
| `Timer` | `ztimer.c`, list and sweep | `MCTimer` | `TimerProofs` |
| `TimerContainer` | `ztimer.c`, container ids | `MCData` | `DataProofs` |
| `ZipcPool` | the ipc servers' buffers, and their schedules at what they promise | with the two below | `ZipcPoolProofs` |
| `ZipcServer` | `zipc_server_os.c` | `MCIpc` | `ZipcServerProofs` |
| `ZipcKernel` | `zipc_server_kernal.c` | `MCData` | `ZipcKernelProofs` |
| `ZipcParse` | `zipc_parse.c`: dispatch and replies | in `ZipcServer`, and `MCData` | |
| `Tlv` | `zipc_tlv.c`, the common header | `MCData` | |
| `ComponentMap` | what the registry promises | as a property of `Registry` | `DataProofs` |
| `Registry` | `zhash.c` as `zipc_server.c` uses it | `MCData` | `DataProofs` |
| `ByteStream` | what a buffer promises | as a property of `Buf` | `DataProofs` |
| `Buf` | `zbuf.c` | `MCData` | `DataProofs` |
| `ArrayList` | `zarraylist.c` | `MCData` | `DataProofs` |
| `KernelMem` | `zcrt_mem_kernal.c` | `MCData` | `DataProofs` |
| `ModuleShutdown` | `zmodule.c` and the ends of schedule threads | `MCData` | `DataProofs` |
| `DataParts` | `TimerContainer`, `ZipcKernel` and the five above, side by side | `MCData` | `DataProofs` |

Operators marked "Mutant" in the modules are not part of the specifications:
each is a plausible slip in the definition that follows it, and shows that a
property notices it. `fault` is, in every module that has one, undefined behaviour
or a failed assertion that has ended the execution; nothing is claimed after it.

### Schedule

Schedules are `Handles`, each created once by one of the `Calls`. A thread is
`ZThr` (the module's `zcrtthr`) or the handle of the selfThread schedule it was
made for. `que[t][p]` is a thread's job list, `tail[t][p]` its tail pointer, kept
apart because the code's purge lets them disagree. `freejobs` and `nodes` count
free and allocated job nodes. `fate[j]` records what became of a job.

An action is a stretch of code that no other thread can divide: `SendCheck` (the
unlocked test), `JobNew`, `InsertJob` (critical sections), `SemGive`;
`DeleteLock`, `PurgeJob`, `PurgeSkip`, `PurgeDone`, `DeleteDec`, `DeleteFree`;
`WorkerTop`, `WorkerWake` or `WorkerTimeout`, `WorkerGet`, `WorkerCall`,
`WorkerDrained`, `WorkerExit`. The purge takes a step per job although it holds
the mutex, since `sendjob` reads `cursize` without it. `Atomics` selects the port:
win32 (`interlocked`), kernel (decrement, then read), Linux (`stub`: nothing
happens, 0 is returned). `SemMax` is 1 for the win32 event. A callback that sends
or deletes is a client like any other. `Quiesce` says that a schedule is deleted
only while nobody is sending to it, which the header takes for granted.

### KernelMutex and RecursiveMutex

`LockTest`, `LockBump`, `LockClaim`, `LockDown` are the accesses of
`zcrt_mutex_lock`; `UnlockInner`, `UnlockClear`, `UnlockUp` those of
`zcrt_mutex_unlock`. `depth[p]` is what a caller sees: locks returned from and not
undone. `RecursiveMutex` is a specification over `depth` alone; `Implements`
is its instance.

### Event

Each thread has a stack of calls in progress, since callbacks run inside
`zcrt_event_send` with the recursive mutex held and may call the manager again.
A registration is two critical sections (`RegisterAlloc`, `RegisterInsert`); the
guard of `unregister` is a step before its critical section; a send sets
`lastEvtid` before the mutex and clears it after. `due` in a send's frame is what
it still has to call. When the heap is empty the node is NULL, and the code goes
on with it (`RegisterNoMem`). `ManageDelete` ends the manager and frees the nodes
of its lists.

### Timer and TimerContainer

Nodes are a heap of `next` pointers, because the sweep follows them without the
mutex. Time is counted in sweeps; `left` in ticks (`left < TIMER_TICK` is
`left = 0`). Two ghosts are the reference for early and late: `due`, the period less
one for each sweep that has visited the timer or is still to reach it, and
`expiries`, how many timers expired while it was on the list. `DeleteAnywhere = FALSE`
restricts `zcrt_timer_delete` to callbacks, which run on the timer thread.
A callback may add and delete as long as it runs, after the manager's deletion has
begun as well; `MaxCalls` bounds the operations, and with them the inner loop of the
sweep, which timers added with no time left could otherwise keep going for ever.
`TimerContainer` is the search for a free container id with its 16-bit counter; its
`IdMod` stands for 65536.

### ZipcServer

A client thread is `pc[c]`: its first buffer (`Start`), `Recv` of a whole request
with the increment of `jobcnt`, `Post`, which tests the size of `sch` without its
mutex (or is refused, when that is full or there is no memory for the job), `Insert`,
which puts the job when other client threads may have passed the same test,
`NextBuf`; `Leave` when the connection is lost or what arrives is refused; `Drained`
(the wait for `jobcnt`), `Unhook`, `Close`. `_zipc_msg_proc_job` on the common thread is
`ProcStart`, `ProcParse` (which asks `ZipcParse` what happens) and
`ProcDone`; `_zipc_buf_send_job` is `SendReply` and `SendEvent`, on one thread,
replies first; an event that is fired is a call of `_zipc_hookevent_cb` per
registration (`Fire`, `FireCall`, `FireEnd`), under the event manager's mutex; the
server thread is `Accept`, `AcceptAssign`, `AcceptFails`, `SetupFails`, and the
deletion `DeleteStart`, `DeleteBufs`, `DeleteFree`.

The schedules are queues of a capacity (`ZipcPool`) and the event manager a number
of registrations per client: what `Schedule` and `Event` are checked to promise.
`respondSch` is filled by the common thread only and `evtSch` under the event
manager's mutex, so that their test and insertion cannot be told apart from one step;
`sch` is filled by all client threads and may hold more than its size (`TypeOK` says how
many more, and the run reaches it).
`NBufs` is what the heap can give, so that every allocation may fail. `Quiesce`
lets the server be deleted only when all is quiet; `HookTwice = FALSE` keeps a
client from hooking an event it has hooked; both are what the code needs of its
users (see "Where the code and its words part"). `starved` remembers who lost a
reply to an empty heap.

### ZipcKernel

There are no connections: `nl_data_recv` (`Alloc`, `Check`, `Post`, `Insert`) runs in
the sender's context, and a job holds a pid. Between its steps `s_kipc` may become
NULL. `log.odd` counts the buffers that the code forgets; `BufsExact` says that
these are all. An assertion that fails only prints in the kernel (`zmacro.h:65`), so the
one of `zcrt_event_unregister` ends nothing here.

### ZipcParse and Tlv

Both are operators. A request of `ZipcParse` is what its parser can tell apart:
the application type, which of header, body and arguments can be read, and what
they name. A reply is the sequence of its parts. `Tlv` codes real bytes, but in
groups of `G` bits for numbers of `W` and `W64`; 2, 9 and 19 stand for 7, 32 and
64. As in the code, the last group of a number is not full (five groups of two bits
for nine, ten for nineteen), and every int can be enumerated. A message has a byte
`past` its end, because the code reads there.

### Registry over ComponentMap, Buf over ByteStream

Two refinements. `Registry` keeps the chains of the hash table, and a lookup that
visits one node at a time while the table changes; `ComponentMap` is a partial
function from names to components. One thread registers, and the memory for a node
is there. `Buf` keeps memory, its size and the lengths beside it, with growth that may
fail; `ByteStream` is a sequence and a position. `call`, a ghost of both, names each
call and what it was given: the stream's step is then fixed by it, so that an append
that loses, doubles or changes bytes, or a message that leaves some of an older one
behind, is no step of the stream.

### ArrayList, KernelMem, ModuleShutdown

`ArrayList` relates the cells to what was last stored in them (`stored`): a cell that
growth makes has to be 0 until somebody stores in it, one that `zarray_new` makes is
whatever the memory held. Once memory ran out, nothing is said of the array, whose
cells are then cleared through NULL.
`KernelMem` takes the list of blocks apart from the allocation it describes, with
threads in between; `Shrink` is off, because no caller reallocates to less.
`ModuleShutdown` is the walk of `zcrt_schedule_module_delete` along a list of
threads that take themselves out of it, without a lock: the walk is a step per thread,
and a thread that leaves finds its predecessor in one step and links it to what
follows in another.

### DataParts and MCData

`DataParts` puts the smaller parts side by side, each with variables of its own, and
states what each promises; `DataProofs` proves just these statements for all values
of the constants, and `MCData` checks them, with the coding and the parser, in one run.
`part` is chosen at the start and says which part the execution is about; the
others stay as they were created. So the state space is the sum of theirs, not the
product. An action of `MCData` is a step of one part, so that what holds of
each part's specification holds of the run's.

## Runs

Bounds: two clients are enough for each race found in the code (the check of one,
the update of the other); two jobs per client and sizes of one and two fill queues
and overfill them; two priorities are enough to order. Symmetry is used over
clients, threads, nodes and kinds of event, never where liveness is checked. The
longest run takes about three minutes on two cores. In `schedule_share` and
`schedule_race` the common thread serves no schedule; its turns change only its own
program counter and are left out (`QuietSpec`).

- `schedule_share`: `respondSch` and `evtSch` of the ipc server, win32 atomics,
  deleted in any order while jobs are sent; the first holds two jobs, so that two of
  one client wait in one list, the second one. `JobsServed` (no fault, no accepted job
  lost, no job on a thread that has ended), `RefCntExact`, `TailOK`, `RunInOrder`,
  `RunAtMostOnce`.
- `schedule_race`: Linux atomics, no quiescence, one list for two schedules; all
  faults occur, and `JobAccounting` (sizes and nodes), `NoLostWakeup` and
  `OvershootBound` hold up to them.
- `schedule_live`: `AcceptedJobsRun`, `StoppedThreadEnds`.
- `mutex_nest`: three threads, nesting three deep. Exclusion, the counts, the
  inductive invariant `IInv` of the proofs, the refinement of `RecursiveMutex`, and
  `WaitersEnter`: only a thread that has blocked on itself keeps others out for ever.
- `event_race`: two threads, two events (0 and 1), three nodes and five calls in all,
  so that the heap runs out, nodes are used again and a list has a middle; callbacks register
  and send again, and the manager may be deleted. They do not unregister: that is
  what the guard of `unregister` means to exclude (it does not, see below).
  `ListsSound`, `AllDueCalled`, and `GuardNamesSend`: for an event from 1 on the
  assertion of `unregister` fails only while that event is being sent, and when nothing
  is sent it fails for event 0 and no other.
- `timer_callback`: adds at any time, deletions from callbacks. `ListsSound`,
  `NeverLate`, `EarlyBound`, `TimersRun`, `ManagerEnds`.
- `ipc_serve`: two clients, of which one sends two messages (requests, hooks,
  unhooks) and the other one; three buffers, so that every allocation can fail;
  `sch` takes two jobs, and a third when both clients test its size at once,
  `respondSch` and `evtSch` one each, so that all three overflow; one event;
  connections lost at any time. `ClientOutlivesUses`:
  `jobcnt` is exact and nothing but a send job names a client that is freed;
  `BufsConserved`; `RepliesInOrder`; `ClientEnds`: a client whose connection is lost
  goes, unless it is in `starved`. The atomics are those of win32 and the kernel.
- `data`: each part to its own bounds.
  `container`: `IdMod = 32` with a table of 5 ids; like 1000 and 65536, 5 does not
  divide 32, so that the ids are out of step after the counter wraps, and the rotor
  goes through its whole range (`FailsOnlyWhenFull`, `NewReturns`).
  `buf`: up to six bytes of a buffer made for three, lengths of four bits, so that
  sums wrap, and bytes that can be told apart (`BufIsStream`). `array`: four cells,
  growth by none or two; `mem`: two threads, four addresses, two sizes (`HeapSound`).
  `registry`: five components, two
  of one name and three names in one chain (`RegistryIsMap`).
  `shutdown`: three threads, so that a neighbour of a neighbour leaves
  (`ShutdownTellsAll`). `netlink`: two processes, every kind of message, three
  buffers, full queues, the deletion at any time (`KernelSound`). `tlv`: every int,
  wide numbers on both sides of every power of two, strings, arrays, headers, each
  cut off anywhere (`TlvRoundTrip`). `parse`: every request (`ParseVerdict`).

Runs that end in a violation, each against a line of the repository (the findings
in `PROJECT.json` quote it): `schedule_tail`, `mutex_relock`, `timer_race`,
`ipc_sends` (a client is freed while a reply or an event still waits to be sent to
it: `jobcnt` does not count those). `mutex_relock` leaves `trylock` out
(`LockOnlySpec`), so that its trace is about two threads: the one that waits
overwrites the owner, and the holder's next lock waits for itself. A thread that took
the mutex with `trylock`, which does not write `owner`, would block on its own.

No run uses the kernel's `zcrt_atom_dec`; the theorems cover it.

Deadlock checking is off: in every model the system may rest, because the clients
have used up their calls or a fault has ended the execution.

## Where the code and its words part

Seen while modelling and kept in the models as the code has it, beside the four
findings above.

Runtime:

- `zcrt_os.h:47` says `zcrt_atom_dec` returns the value after the decrement. On
  Linux the atomics are stubs (`zcrt_os_linux.c:57`) that change nothing and return
  0: the first deletion of a shared schedule stops the thread of the others
  (`zschedule.c:76` counts them), and `jobcnt` of the ipc server is always 0, so that
  it protects nothing. The kernel port decrements and reads again, so two deletions
  can both see zero (`DecResult`).
- `zschedule.h:60` calls `maxsize` the most jobs of the queue. The unlocked check
  lets a schedule hold more; `OvershootBound` says how many more.
- `zschedule.h:66` lets a schedule share the thread of another; given a schedule
  that is itself a share, `zcrt_schedule_create_share` uses the common thread.
- `zcrt_schedule_module_delete` (`zschedule.c:513`) reads a thread's successor after
  telling the thread to stop, by when it may have freed itself; and the module, its
  event manager included, is freed 200 ms later whether or not threads still run.
- `zevent.c:194` asserts that a callback does not unregister from the event being
  sent, but a nested or another thread's send of another event overwrites `lastEvtid`
  (`zevent.c:234`), and then it can. `zevent.h:81` admits event 0, but `lastEvtid` is
  0 when nothing is being sent, so that `zcrt_event_unregister` of event 0 fails its
  assertion then (`GuardNamesSend`).
- `ztimer.h:55` gives a period in milliseconds. Each expiry restarts the sweep at
  the head, and the timers before it lose another tick: they run early, within
  `EarlyBound`. `zcrt_timercon_add_argn` checks the container and does not store it
  (`ztimer.c:341`); its timers expire without their callback.
- `zcrt_timer_container_new` does not return when all ids are in use and the rotor
  is within `ZTIMER_CONTAINER_MAX` of 65536 (`NewReturns` excludes just that).

Ipc server, user space:

- A request that finds no memory for its reply is never counted off
  (`zipc_server_os.c:158`), and its client thread never ends (`starved`).
- `zcrt_event_unregister` of a client that disconnects or unhooks while the event is
  being sent fails the assertion of `zevent.c:194`.
- A client that hooks an event twice is registered twice, and unregistered once when
  it ends: its callback is then called with a freed client.
- `client->thr` is written after the thread was started, when the client may be gone
  (`zipc_server_os.c:302`); the first buffer of a client thread is not tested (201).
- `zipc_server_delete` does not wait for clients (340-353); it frees the free list and
  leaves its head (326-339).
- A link message whose body cannot be read is answered without a message header, and
  the length that is then filled in overwrites the verdict (`zipc_parse.c:236`,
  `zipc_server_os.c:176`; `Framed`). The comment at `zipc_parse.c:346` says that the
  header of a reply is the serial number; the request flag is put as well.

Ipc server, kernel:

- A message that is refused (`zipc_server_kernal.c:156-172`), an empty reply and an
  event that cannot be encoded each lose a buffer.
- `nl_data_recv` reads `s_kipc` again after its test (179). At deletion only the
  process that sent last is unregistered; the callbacks of others stay, with the
  server that is freed.

Data:

- A number that is cut off is completed with the byte behind the message, or with two
  of them for a wide number; `zcrt_buf_getstr` and `zcrt_buf_get` add lengths that
  may wrap; `ztlv_get_ignore` takes the type and then calls a reader that takes it
  again.
- The growth of a buffer is not tested (a write through NULL), and a failed
  `zcrt_buf_init` leaves its length set; `zarray_decrease` of an empty array fails an
  assertion; the first cells of an array are not cleared.
- The kernel's `zcrt_realloc` copies the old size, also into less.
- The registry has no lock: two threads that register race, and a lookup that stands
  on a component being unregistered reads freed memory. It removes by name, whichever
  component is handed in.

## Fairness

Threads that can run are run: weak fairness for each schedule thread, the timer
thread and each call in progress that holds a mutex. No client has to make a
call. Callbacks return (they are the application's). For the kernel mutex, `down`
serves its waiters in turn (strong fairness of `LockDown`), and a thread leaves
each critical section some time, however many it nests in it (strong fairness of
the unlock at each depth); nobody has to lock. `WorkerTimeout` needs no fairness
of its own: `sem_take(sem, 100)` returns one way or the other.

In `ZipcServer` the common thread is run (`WF` of `Proc`) and a send of an event
comes to its end (`WF` of `Firing`). A client thread that has left its loop polls
`jobcnt` and waits for the event manager's mutex; strong fairness says that it is
let in when that is free again and again. Nothing is assumed of the respond thread,
of what clients send, of who fires events or deletes the server: a client must end
without them. In `MCData` only a search for a container id that was begun goes on.

## Proofs

`ScheduleProofs` proves for all constants satisfying `ScheduleAssumption`
(any number of clients, schedules, priorities, any port, any semaphore bound):

- `TypeCorrect`: `Spec => []TypeOK`. The one part of `TypeOK` that is more than a
  type, "a client inside sendjob has sent something", makes `JobOf` a job.
- `WakeupNeverLost`: `Spec => []NoLostWakeup`. It is inductive with `TypeOK` and
  `Linked` (calls are on created schedules, created schedules on created
  threads). The argument is `KeepWakeup`: a thread comes to rest only through
  `WorkerDrained`, which saw all lists empty under the mutex; a list becomes non-empty
  only in `InsertJob`, which leaves its client announced; and `SemGive` replaces that
  announcement by the semaphore.
- `OvershootBounded`: `Spec => []OvershootBound`. The invariant counts the jobs
  queued and the senders past the check; a sender enters only when
  `cursize < maxsize`, and then the excess is at most the other clients.

Its second part follows the jobs. No hypothesis but
`ScheduleAssumption`; any port, deletions at any time, faults included:

- `JobsRunOnce`: `Spec => []RunAtMostOnce`, and `JobsRunInOrder`:
  `Spec => RunInOrder`. Both come from `Placed`, which says where a job can be: what
  is in a list is in one place and `fate` says so (`ListsHold`, `QueuedIsListed`), a
  job comes from a send that its client has made (`SentOnly`), and what a worker has
  taken is behind everything of its client that ran and before everything that
  waits (`Running`). The order alone is not inductive: that a purge keeps it, and that
  a new job goes behind the others, needs all four.
- `BooksExact`: `Spec => []JobAccounting`. `Books` adds to the sizes and the nodes
  the terms for those who are between the critical sections (a client that has its node
  and not yet inserted it, a worker that has unlinked a job and not yet counted it
  off), which `JobAccounting` only states when nobody is.

Its third part is about deleting schedules while others are used. `DeleteInv`
says that a schedule is deleted by one client (`Deleters`), that who purges holds the
mutex (`Locking`), that behind the cursor of a purge there is nothing of its
schedule (`Swept`), and whose thread a private one is (`SelfOwn`).

- `RefCounted`: `Spec => []RefCntExact` if `Atomics # "stub"`. On Linux the count
  is never changed, so it is false there.
- `ThreadServed`: a live schedule has a running thread, if `Atomics = "interlocked"`.
  `LastRef` is the key: a deletion that has seen 0 left no schedule on the thread. With the
  kernel's atomics two deletions may both see it, and the second stops a thread twice.
- `TailRight`: `Spec /\ []ListsApart => []TailOK`. `ListsApart` says that no two
  schedules share both thread and priority; then a purge that begins at the head of a list
  never leaves it, which is the only place where the code's repair of the tail is right.
  Without it `TailOK` is false (run `schedule_tail`). `CallsKeepApart` shows that a
  condition on the calls (`CallsApart`) is enough for `ListsApart`, and the two
  selfThread schedules of the ipc server satisfy it.
- `AllJobsServed`: `Spec /\ []ListsApart => []JobsServed` if
  `Atomics = "interlocked"` and `Quiesce`. With `OnlyLive` (who is inside sendjob is so
  on a live schedule) and `Cleared` (a freed schedule has no job left), a job can only
  be lost by a wrong tail, and only the last deletion stops a thread. None of the three
  hypotheses can be left out: TLC finds `JobsServed` violated on the instance of
  `schedule_share` with the atomics of the kernel or of Linux, and without `Quiesce`, and with
  two schedules of one priority in `schedule_tail`.

`KernelMutexProofs` proves `Invariance` (`Spec => []IInv`) and from it `Exclusion`,
`CountBelongs` and `Refinement` (`Spec => Implements`). `Held`, the heart of `IInv`,
ties the semaphore to the depths and says that `owner` names a thread outside
`claim` and `down` only while that thread is inside; `BumpMeansHeld` that a thread
which found itself the owner is.

`EventProofs` is about any threads, events, registrations, callbacks and depth of
nesting; of the constants it needs that the heap gives finitely many nodes.

- `EventTypes`: `Spec => []TypeOK`. With it goes that `freesize` is the length of the
  free list, so that it is never counted below zero, and that the ghost numbers have a
  bound (`Bounded`): `NewestNo` is a maximum, which exists only for that reason.
- `ListsInOrder`: `Spec => [](ListsOrdered /\ NodesOnce)`, also where callbacks
  unregister. `OnePlace` says of every node that any two places that hold it are the
  same (the free list, the list of an event, a registration under way), that it has
  a place just when it is allocated, and that no list names it twice; a step either
  moves none (`NoneMoved`) or one (`NodeMoved`). `Counts` turns that into the
  cardinalities of `NodesOnce`. The order needs `OnePlace`: a registration writes to
  its node, which must not be one that is listed.
- `ListsKept`: `Spec => []ListsSound`, and `AllCalled`: `Spec => []AllDueCalled`, where
  no callback unregisters (`"unregister" \notin CallbackOps`). That is what the assertion
  of `zcrt_event_unregister` is for; it does not see to it (see above), and where a
  callback does unregister, the cursor of the send below it is left on a freed node.
  `Walks` is the invariant: the cursor is on its list, and all that is still due is
  of the send's type and behind it. Sends of other threads cannot be walking while a
  list is changed; those below on the same stack can, and `Kept` says what a
  callback's registration does to them: nodes stay, in their order. `Alone` says that a
  call to `unregister` has no such send below it.
- `GuardNames`: `Spec => []GuardNamesSend`. It quantifies over stacks, and is inductive
  with `Stacked` alone: every thread has a sequence of frames that name an operation
  and an event. Only `SendEnd` takes a send away, and it sets `lastEvtid` to 0, which is
  also what event 0 is called: the theorem says of that event what is true of it.

`ZipcServerProofs` proves four theorems of the user-space server, for any number
of clients, requests, buffers and events and any sizes of the schedules
(`ServerAssumption` and `PoolAssumption` say only that these are numbers):

- `ServerTypes`: `Spec => []TypeOK`. `Overshoot` counts, as in `OvershootBounded`, the
  jobs in `sch` and the threads that have passed the test of its size: a thread passes
  only while there is room, and then the others are fewer than the clients. `IType`
  types each group of variables, and says that a client in `post` or `insert` still
  has its buffer (unless a NULL buffer has ended the
  execution). That a reply answers something received (`last <= sent`) needs
  `Ordered`, so the two are proved together (`TypeInvariant`).
- `AnswersInOrder`: `Spec => RepliesInOrder`. `Ordered` is the inductive invariant:
  per client, serial numbers rise from the last reply over the replies that wait and
  the request being carried out to the requests that wait. It holds because there is
  one request at a time on the common thread and each queue keeps its order; refusals,
  dropped replies and the deletion only leave numbers out.
- `ClientsOutlive`: `Spec => []ClientOutlivesUses`, assuming `Atomics # "stub"` and
  `HookTwice = FALSE`; without the first a client is freed under its requests on
  Linux, without the second under its second registration. `Held` ties `jobcnt` to
  the requests queued, carried out and about to be posted, and says that a thread past
  its loop has none. `Hooked` says that a client's registrations, made and asked for,
  are at most one, that a registration is known to its thread (`isEventHooked`) and
  gone when that has unhooked. `Hooked` needs `Held`: a link message that is being
  parsed keeps its client's thread from its end. Both are about how many jobs of a
  queue are of a kind, so they rest on `CountSent` and `CountTaken`, what appending to
  a sequence and taking its head does to such a count.
- `BuffersKept`: `Spec => []BufsConserved`, with no hypothesis. What is counted are
  buffers, so the proof says first where each is: `Found(w)` gives every
  allocated buffer the one place that names it (a client, a queue, the request being
  carried out, the free list), and `Single` that no place names one twice. A step
  moves one buffer, `w` changes at that buffer, and the sum of the places' sizes
  follows from bijections (`BufsOfQueue`, `BufsOfClients`).

`TimerProofs` proves four theorems of `Timer` for any number of nodes, keys, periods,
clients and calls, all assuming `DeleteAnywhere = FALSE`; with deletions by other
threads an assertion of the sweep fails (`timer_race`):

- `TimerTypes`: `Spec => []TypeOK`.
- `TimerListsSound`: `Spec => []ListsSound`: no fault, both lists end, every
  allocated node is in one place, and the unlocked sweep stands on the list.
- `TimerNeverLate`: `Spec => []NeverLate`, and `TimerEarlyBound`:
  `Spec => []EarlyBound`.

The nodes are pointers, so the proof relates them to explicit lists. `Linked(next, h,
m, L)` says that the nodes from `h` on are `L[1]` to `L[m]`, each once, and
`RemovedList`, `AppendedList` and `PushedList` say what the three ways of the code to
write a pointer make of it. `ChainIs` says that the walk is then `L` and ends: the
recursive function of `Chain` has a solution (`ChainDef`), two solutions cannot
differ at a least place (`Least`), and a list is not longer than there are nodes.
The inductive invariant `IInv` says that there are such lists for the timers and for
the free nodes, apart from each other and from the nodes in hand (`Places`); that
`prev` is the node before the cursor unless the cursor is at the head (`Cursor`),
which is what an unlinking by the sweep relies on; and how time stands (`Times`):
with `v = 1` for a timer that the sweep under way has yet to come to and 0 for the
others, `left <= due + v`, so that none is late, and `due + v - left <= expiries`,
so that one that has expired is early by no more than that. An expiry sends the
sweep back to the head, which makes `v = 1` for the timers it had passed, and raises
their `expiries` with it. `IInv` names lists that TLC would have to search for; the
run checks what follows from it.

`ZipcPoolProofs` holds what the proofs of both ipc servers use of `ZipcPool`: what an
allocation returns, what a queue is after a job was put behind it or taken from its
head (`SentBehind`, `TailType`), and that a queue whose jobs carry different buffers
carries as many as it is long (`BufsOfQueue`).

`ZipcKernelProofs` is about the netlink server, for any processes, messages, buffers
and sizes of the schedules, and the deletion at any time; of the constants it assumes
only that `NBufs` is a number (`PoolAssumption`).

- `KernelAnswersInOrder`: `Spec => []InOrder`. `Ordered` says it queue by queue: serial
  numbers rise from the last reply over the replies that wait and the request being
  carried out to the requests that wait, up to the last one received (`Upto`). That
  last clause is what the receiving process needs, whose next number is above all.
- `KernelBuffers`: `Spec => []BufsExact`. As in `BuffersKept`, `Found(w)` gives each
  buffer its place and `Single` says that no place names one twice; here `w` has a
  place for the odd ones, which no variable names, and there are as many of them
  as `log.odd` has counted. So the leaks of the error paths are all there are.
- `KernelIsSound`: `Spec => []KernelSound`, which is the two together.

`DataProofs` takes the small data structures, each on its own.

- `ContainerTypes` and `RefusesOnlyWhenFull` (`Spec => []FailsOnlyWhenFull`), for any
  table and any range of the rotor beyond it. `Passed` is the invariant: no id between
  the rotor and the probe is usable. A search ends only after as many probes as the
  table has cells, and `Round` says that so many consecutive numbers leave every
  remainder. When the counter wraps, that interval is empty and the search begins
  anew, which is why a wrap does no harm to this property (it does to `NewReturns`).
- `MemListExact`: `KernelMem`'s `Spec => []MemExact`, for any threads, addresses and
  sizes. The list lags behind the memory while a thread is between the two, so
  `Belongs` says whose each pointer is: owned by one thread or in the hands of one,
  and a block about to be deleted is owned by who deletes it. Then no thread's block
  can be taken off under it (`Listed`, `Unique`).
- `ArrayCellsKept`: `ArrayList`'s `Spec => []ArrayKeeps`, for sizes and steps that are
  numbers. `AInv` adds to the property what was stored behind the cells there are
  (nothing, and they count as clear), without which growth would uncover cells of which
  nothing is known.
  `HeapIsSound` puts the two together as the run states them (`HeapSound`).
- `RegistryImplementsMap`: `Registry`'s `Spec => RegistryIsMap`, a refinement of
  `ComponentMap` with the exact count and the lookup that finds what stayed.
  `Chained` says that each node is in the chain of its key and each name once in it;
  so the first node of a name is its only one, and adding at the head and
  unlinking are an update and a removal of the map (`Holders`). `Ahead` is what makes
  a lookup right while others add and remove: it stands at or before every component
  of its name that was there when it began and still is; a removal keeps the order
  of those that stay (`OrderKept`). Hypothesis (`Named`): every component has a name, and
  NULL, a freed node and a component are three things.
- `BufImplementsStream`: `Buf`'s `Spec => BufIsStream`, a refinement of `ByteStream`
  with `offset <= len <= maxlen <= ` the memory there is (`LengthsNest`). `BufInv`
  says besides that what is in use are bytes. `Stored` relates the memory after a call to
  the bytes it was given, and `StreamStored` and `StreamRead` make a step of the stream
  of it. `Capacity` is the loop that doubles: it
  ends beyond what was asked for, which needs that among the powers of two that
  suffice there is a least one (`Least`, by well-foundedness of the numbers, instead of
  an induction). Hypothesis (`BufAssumed`): such a power fits the `W` bits of a length;
  with 32 bits it does for buffers of less than 2^31 - 1 bytes, beyond which the
  code's loop does not end.
- `AllThreadsTold`: `ModuleShutdown`'s `Spec => []ShutdownTellsAll`, for any number of
  threads from one on. `NoneSkipped` is the invariant: no link, not even one of a thread
  that has left the list, leads past a thread that was not told yet. Threads unlink
  themselves with no lock, and `Leaves` says why that is right as far as it is: only who
  was told leaves, and the predecessor it has found stays that until it has linked.

Only model-checked, and why:

- Every liveness property (`AcceptedJobsRun`, `StoppedThreadEnds`, `WaitersEnter`,
  `TimersRun`, `ManagerEnds`, `ClientEnds`, `NewReturns`): fairness is defined by
  `ENABLED`, which the prover does not reason about.
- `TlvRoundTrip`: what `Tlv` computes is defined by folds over bytes and by powers
  of two whose exponent varies; induction over data is beyond the prover, and its
  backends know nothing of such a power.
- `ParseVerdict`: it has no constant to quantify over; the run enumerates every request
  that the parser can tell apart.

## Not modelled

Logging, formatting and the tests; `zstr`; threads, sockets, files and memory of
the operating system beyond what is said above; the generated decoders; the
creation and deletion of components, and the deletion and enumeration of a hash
table, which are straight-line code of one thread. That a short `recv` is taken for
an error is part of `Leave`. Of the module, creation is not modelled: it is one
thread, before all others. A heap that is exhausted is modelled where the code does
not test for it or where it changes state.

## What is open

Every invariant and every refinement that a run checks is proved for all values of
the constants, but for `TlvRoundTrip` and `ParseVerdict`. Beyond these and liveness,
what is left is where the code leaves something to its users: a proof that callers
keep to `Quiesce`, `HookTwice = FALSE`, `DeleteAnywhere = FALSE` and `ListsApart`
would need the applications, which are not part of the repository.
