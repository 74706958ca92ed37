# OpenHPI daemon: a TLA+ verification project

OpenHPI implements the SA Forum Hardware Platform Interface. Clients link a
library (`baselib`) that forwards every HPI call to a daemon (`openhpid`); the
daemon keeps sessions, domains with their resources and alarms, and talks to
the hardware through plugins. This project models the daemon's core: what it
keeps, which threads work on it, and what its clients may rely on.

## 1. Inventory

| component | source | state | operations | works with |
|---|---|---|---|---|
| sessions | `openhpid/session.c` | session table, subscription flag, event queue and overflow status per session | open, close, subscribe, unsubscribe, queue, dequeue | service threads, event thread |
| event processing | `openhpid/event.c` | `oh_process_q` | harvest from handlers, process one event, log it, multiplex to sessions, quit event | RPT, alarm table, event log, sessions |
| domain, RPT | `openhpid/domain.c`, `utils/rpt_utils.c` | resources with handler id, flags and RDRs | add, overlay, remove | event processing, every HPI call |
| alarm table (DAT) | `openhpid/alarm.c` | list of alarms, next id, update count, overflow flag, file | add, remove, acknowledge, walk, detect from events, save, load | event processing, alarm and sensor calls |
| event log (DEL) | `utils/el_utils.c` | list of entries, next id, flags, file | append, read, clear, reset, save, load | event processing, event log calls |
| HPI calls | `openhpid/safhpi.c`, `openhpid/ohpi.c` | locals across several lock regions | one function per call | all of the above, handlers |
| threads | `openhpid/threaded.c`, `init.c` | stop flag, one mutex and condition per loop | discovery, harvest, event processing, wake, stop | handlers, `saHpiDiscover`, main thread |
| handler table | `openhpid/plugin.c`, `hotswap.c` | handlers and plugins with reference counts and locks | load, create, get, release, destroy, rounds | threads, HPI calls |
| connections | `openhpid/server.cpp`, `openhpid-posix.cpp` | sockets, thread pool, session per connection | accept, serve, stop | all HPI calls |
| client library | `baselib/session.cpp`, `transport/strmsock.cpp` | session objects with reference counts, a socket per thread and session | call with retries, open, close, finalize | connections |
| configuration | `openhpid/conf.c` | global parameters | read | everywhere |
| ipmidirect | `plugins/ipmidirect/*` | connection with queue and table of requests, MCs, sensors | send, read, time out, retry, reconnect; discovery, events | handler table, BMC |
| other plugins | `plugins/*` | their own resource cache | discover, events, instrument calls | handler table, `oh_process_q` |
| tools | `marshal`, `ssl`, `baselibs`, `cpp`, `hpi_shell`, `clients`, `snmp` | none that is shared | encode, encrypt, print | client library |

How they interact: a client thread sends a call over its own connection and
sends it once more when the connection breaks; a service thread per connection
runs the call; calls on a resource look its handler up and run its plugin under
the handler's lock. The harvest thread asks handlers for events, which they push
to `oh_process_q`; the event thread takes them one by one, holds the domain lock
while it changes RPT, DAT and DEL, and puts a copy into the queue of every
subscribed session; clients take them with `saHpiEventGet`. Locks: one for the
session table, one per domain, one per handler plus one for the handler table,
one mutex per background loop, one per IPMI connection; the glib queues have
their own.

What is hard: a queue is used after the lock of its session was released;
closing, flushing and blocked readers race; calls release the domain lock half
way and go on with what they read; a handler is destroyed while others wait for
its lock; events wait in a queue while what they are about changes; the files of
alarms and events lag behind the tables and may be cut short; condition
variables are waited on without predicates; requests are retried although they
were executed, answers come late, out of order or never; the daemon stops while
all of this runs. The full list, each item at its line, is `hazards` in
`PROJECT.json`.

What makes each part correct:

- sessions: no use of a dead queue, no leak, bounded, ordered and complete
  delivery, blocked callers come back; altogether, a simple stream of events;
- alarm table and event log: ids name one entry, limits hold, no sensor alarm
  outlives what the sensor's events tell, a walk misses nothing, a restart
  resumes safely;
- domain: RPT, published events and alarms agree with the handlers;
- threads: every caller returns, a stop completes, nothing is freed in use;
- handler table: a handler is freed exactly when unused, calls meet an open
  instance, a round visits every handler, no deadlock;
- connections and client library: objects live as long as they are used, both
  ends agree on the sessions, a reported success happened, a stop completes;
- IPMI connection: every request is in one place, gets its own answer or an
  error, and its caller returns.

## 2. Modules

| module | models | extends |
|---|---|---|
| `Session` | `session.c`, session/event calls of `safhpi.c`, multiplexing of `event.c` | |
| `Stream` | abstract: what sessions promise | |
| `SessionRefinement` | the mapping from `Session` to `Stream` | `Session` |
| `SessionProofs` | theorems about `Session`, the refinement of `Stream` | `SessionRefinement` |
| `Dat` | `struct oh_dat` and every change of it, as operators | |
| `Alarm` | the alarm calls, detection, a client's walk, restart | `Dat` |
| `AlarmProofs` | theorems about `Alarm` | `Alarm` |
| `Domain` | `process_event` on RPT and DAT, handlers, calls that race with it | `Dat` |
| `DomainProofs` | theorems about `Domain` | `Domain` |
| `EventLog` | the domain event log, its calls, a client's walk, restart | |
| `EventLogProofs` | theorems about `EventLog` | `EventLog` |
| `Threaded` | `threaded.c`, the stop of the daemon | |
| `ThreadedProofs` | theorems about `Threaded` | `Threaded` |
| `Handlers` | handler table, rounds, the dispatch of HPI calls, `oh_finit` | |
| `HandlersProofs` | theorems about `Handlers` | `Handlers` |
| `Rpc` | client sessions and `DoRpc`, connections, service threads, stop | |
| `RpcProofs` | theorems about `Rpc` | `Rpc` |
| `IpmiCon` | requests of the ipmidirect plugin over RMCP | |
| `IpmiConProofs` | theorems about `IpmiCon` | `IpmiCon` |
| `MC*` | instances for TLC | one each |

An operator marked `Mutant` is a plausible bug of the definition that follows
it; `PROJECT.json` says which property it must break. The specifications never
use it.

### Session

One step is one critical section of `oh_sessions.lock` or one operation of a
`GAsyncQueue`. `table`, `subscribed`, `eventq_status`, `eventq` are the fields of
`struct oh_session`; `refs` records who holds a reference on a queue. `th[t]`
is what service thread `t` is doing, with the locals of its call. The event
thread is `mpc`, `event`, `targets`: it takes a snapshot of the session list
(`ProcessEvent`), reads each subscription (`MuxCheck`), queues (`MuxQueue`).
Events are numbers in processing order; the last one is the quit event.
`queued`, `lost`, `popped`, `since` are history variables. `GAsyncQueue` is
external (glib): its length is the number of items minus the blocked threads, a
blocked pop looks into the queue a last time when its timeout ends.
Error returns that change nothing are disabled guards. A closing session's flags
are reset so that its state does not multiply; its id is never used again.

`Stream` has no threads, locks or reference counts: sessions are opened and
closed once, take in the event being published at most once and only while open,
and let events out in order. `SessionRefinement` maps the session table and the
ids given out to a session's life, the queue to what it holds, and the history
`popped` to what it has let out.

### Dat, Alarm

The list is a set: the code appends with increasing ids, and the invariant
`IdsBelowNext` shows that list order is id order. Severities are the values
0..4 of `SaHpiSeverityT`; an alarm keeps type, severity, resource, sensor (or
manufacturer) number, event state, acknowledgement. Texts, entity paths and
timestamps are left out; with timestamps goes the `INVALID_DATA` answer of
`saHpiAlarmGetNext`. `CountMod` stands for 2^32. Saving is part of the action
that adds an alarm, as in the code; `oh_alarms_to_file` truncates the file and
writes the alarms one by one, so any prefix may be what a crash or a full disk
leaves, and the old file stays when `fopen` fails (`Written`). `Restart` is any
stop or crash between two actions.
`IdsNeverReused` is claimed while the last save was complete: after a cut file,
ids above the cut are given out again.

`asserted` is history: the sensor states that hold as far as the processed
sensor events tell, an assertion, a deassertion or the `CurrentState` of an event
each by what it says and not by what the code does with it; a restart sets it
to what the file has. `NoStaleSensorAlarm` compares the table with it. It
promises no more, because the code does not: `RESOURCE_REMOVED` leaves the sensor
alarms of the resource (`alarm.c:534-539`; `NOT_PRESENT` takes them away), an
assertion that waits in `oh_process_q` when `saHpiSensorEnableSet` disables the
sensor raises its alarm afterwards, and removals are not saved, so that a
restart may restore an alarm that was gone.

### Domain

Every `process_event` is one action because the domain is locked throughout.
`saHpiResourceSeveritySet` is three actions and `saHpiResourceFailedRemove` two,
split where they release the lock (the variant without the handler's own
`resource_failed_remove`). The handler actions follow what
`plugins/test_agent` posts: ADDED or a hot swap event with all RDRs, FAILURE
and RESTORED with the entry, UPDATED per instrument, REMOVED or NOT_PRESENT;
INACCESSIBLE, repeated failures, hot swap events with equal states and events
without a resource entry, which other plugins post, are added. Sensor and OEM
events do not touch the RPT and are in `Alarm`. An event without an entry reaches
the alarms as in `oh_detect_resource_event_alarm`: a failure of a severity that
is no alarm changes nothing. `pubFailed` is what a subscriber
concludes from the published events; `removed` are resources a client removed
although the handler still has them.

`HealthyNotAlarmed` is stated for resources that are no FRUs: a failure event
without entry, for a resource the RPT does not know, raises an alarm, and a hot
swap event does not clear it as RESOURCE_ADDED does.

### EventLog

`list`, `nextid`, `overflow`, `enabled` are the fields of `oh_el`, `file` is what
is on disk. An entry keeps its id and the number of its event; what was logged
is left out. Actions are `oh_add_event_to_del`, the `saHpiEventLog*` calls and
`Restart`, which loads any prefix of the last save, or what was there before
when the file could not be opened. `walk` is a client that
follows `NextEntryId` or `PrevEntryId` with anything happening between two
reads. Only the domain's log is modelled; logs of resources belong to plugins.

### Threaded

`discovery_func` and `evtget_func` are the same loop; `loop[l]` is where each
is. The mutex is held from the beginning of a round until the sleep gives it up.
`Wake` is the lock, broadcast and wait of `oh_wake_discovery_thread`. The main
thread sets `signal_stop`, joins the event thread, then for each loop takes its
mutex, broadcasts, joins and frees. `ThreadedStop` waits for idle callers
because `oh_server_run` frees its thread pool with `wait` before `oh_finit`
runs (`Rpc` has that part). `g_cond_wait` may return without a broadcast; a
caller has no predicate that would make it wait again, so `Spurious` ends its
call early (a loop that wakes up early is the same as one whose timeout ends).
`served`, `crowded` and `startled` are history variables: what a caller has seen
of a round, whether another caller broadcast while it waited, whether its wait
ended spuriously.

### Handlers

`handlers`, `hnd`, `refcount`, `lock` are `oh_handlers` and the fields of
`struct oh_handler`; `freed` are the handlers `__delete_handler` has freed,
`domain` is who holds the domain lock. A thread gets a handler in two steps,
`Get` (count, under `oh_handlers.lock`) and `Lock`, because it may wait for the
handler's lock between them. Service threads run one of five requests: an
instrument call (the path of `sahpimacros.h`: domain lock, resource, handler,
domain released, plugin, handler released), `saHpiAutoInsertTimeoutSet` over all
handlers, `oHpiHandlerDestroy`, `oHpiHandlerRetry`, `oHpiInjectEvent`;
`oHpiHandlerCreate` is an action of its own. The background threads do rounds
with `oh_getnext_handler_id`. The main thread is `oh_finit`: close all handlers,
then stop the threads. `owed` is history: which handlers a round has still to
meet. What a plugin does inside its function is external.

### Rpc

A client thread runs one call at a time: `SessOpen`, `SessCall` (close, a
blocking event get, any other) or `SessFinalize`, then the steps of
`cSession::DoRpc` (write, connect, read, retry up to `RPC_ATTEMPTS`), then
`Return`, which updates and unreferences the session object. A connection has
the client's end `cup`, the daemon's end `sup`, and a request and a reply under
way; `Break` takes both ends down at different times (`Notice`). A reply cut
short overwrites the buffer the request is sent from (`bad`). A service thread
reads, executes, writes, records the session it owns after the reply was
written, and closes it at the end. `GetSock` may fail at any time
(`ConnectFails`). `Session` has the rest of the daemon's sessions.

The stop follows `sig_handler`, which first posts the quit event (`PostQuit`) and
then sets `stop` and closes the sockets (`RequestStop`). The event thread hands
the event to the sessions at any moment after it was posted (`MuxQuit`): behind
the events a queue already holds (`backlog`), and not to a session that is
unsubscribed or full. A blocking get ends with an event, with the quit event,
or when its session is found closed or unsubscribed; its client may call
again as long as `stop` is not set. `oh_server_run` waits for all service threads
(`ServerRunEnds`). `missed` is history: the sessions whose owner will find no
quit event.

Taken as given: the thread pool is unlimited, which is the default;
`saHpiFinalize` overlaps no other call of the program; each thread's socket is
kept by `g_private` until the thread drops it.

### IpmiCon

`m_outstanding`, `m_num_outstanding`, `m_current_seq`, `m_queue` and the flags
are the members of `cIpmiCon`. `th[t]` is a caller of `Cmd` with its
`cIpmiRequest`. The reader thread is split where it may wait for a caller's
condition variable (`sig`). The network loses, keeps back and reorders answers
within `Late` further requests. Time is abstract: a request may be found expired
at any round. Spurious wake-ups of `cond.Wait` (`thread.cpp:336`) are taken not to
happen: `Cmd` tests nothing after its wait (`ipmi_con.cpp:476`) and would delete
a request that is still in the table, against `OnePlace`. The bound `Late` is tight: with one more, sequence numbers come
round and `OwnAnswer` fails.

## 3. Runs

Passing:

- `session` (2 threads, 1 session, 2 events and the quit event, limit 1):
  `QueueFreed`, `QueueAlive`, `NoLeakedEvents`, `QueueBound`, `InOrder`,
  `UnsubscribedQueue`, `CloseReleasesWaiters`. Two threads are enough for a
  reader racing a closer or a flusher, the event thread is the third actor; the
  queue fills, overflows, and holds several events where threads were blocked.
  Sessions share nothing but the event thread's loop. The invariants are proved
  below for all sizes.
- `session_mux` (1 thread, 2 sessions, 2 events and the quit event, limit 1):
  `CompleteDelivery`, `ImplementsStream`. Two sessions make the loop over the
  snapshot matter, with one opened, closed or subscribed in the middle of it.
- `alarm` (1 resource, 1 sensor, 1 state, an alarming and another severity,
  size limit 2, user limit 1, ids up to 3): `IdsBelowNext`, `IdsNeverReused`,
  `Limits`, `NoStaleSensorAlarm`, `WalkComplete`. Three ids allow for an alarm
  that is removed, saved and loaded around a second one, and for a full table.
- `domain` (1 handler, 1 resource, FRU or not, 1 record, 3 queued events, 2
  alarm ids): `RptAgrees`, `FailuresPublished`, `HealthyNotAlarmed`. Resources do
  not influence each other in the code, so one is enough; three queued events
  let a client's removal fall between two events of the handler.
- `eventlog` (size 3, 7 events): `IdsNameEntries`, `WalkReadsNeighbours`,
  `OverflowTold`. Seven events fill the log twice over and leave one for after a
  restart; a walk of three entries has a middle that is overwritten.
- `threaded` (2 callers with 2 calls each, 2 timeouts, 1 spurious wake-up):
  `TypeOK`, `AloneWaitsForRound`, `FreedUnused`, `CallersReturn`,
  `StopCompletes`. A caller is alone, joined by the other one, or woken by
  nothing, before, during and after rounds of either cause.
- `handlers` (2 service threads, the harvest thread, 2 handlers, 1 of them from
  the configuration): `FreedWhenUnused`, `CallsMeetOpen`, `RoundComplete`,
  `CallsReturn`, `FinitCompletes`. Three threads compete for one handler, and a
  handler is created while another is destroyed. The discovery thread does the
  same rounds as the harvest thread.
- `rpc` (2 client threads, 1 session object, 4 connections, 4 calls, failures,
  breaks and stops together, 2 attempts as in the code): `ObjectsReferenced`,
  `UnownedUnknown`, `TableAgrees`, `ExecutedAsReported`, `CallsReturn`,
  `StopCompletes`. Four inputs are, for instance, an open, a close and a call that
  race, and a break; each thread may need a second connection. An open, two
  blocking gets and a stop are the cases in which the stop hangs: two gets at
  once on one session, or one after the other around the quit event.
- `ipmicon` (2 callers, 1 command, 3 sequence numbers, 2 of them in use at once,
  2 tries, 1 new session): `OnePlace`, `AssertionsHold`, `OwnAnswer`,
  `CallsReturn`. One sequence number is free at the fullest, as the code's
  limits guarantee (64 numbers, at most 32 requests); numbers come round after three
  requests; one command makes every late answer match, which is the worst case.

Deadlock is checked in `alarm` and `eventlog`. The other systems may stop: all
session ids are used up and the event thread has ended, no handler is left, the
daemon has stopped, the inputs are used up.

The run `threaded` checks the type invariant; those of the other modules are not
repeated in a run, section 5 proves all of them.

Runs that refute a statement of the repository (`findings` quotes it):

| run | statement | what happens |
|---|---|---|
| `session_overflow` | an overflow met by `saHpiEventGet` is returned | the second dequeue overwrites the status the first one read and cleared |
| `domain_orphans` | a destroyed handler's resources leave the RPT | an event queued before brings one back |
| `handlers_closed` | the handler's lock is exclusive and its references keep it from being destroyed | `oh_finit` closes an instance the harvest thread is inside of |

Noted while modelling, without a run of their own:

- `OPENHPI_EVT_QUEUE_LIMIT` 0 is "unlimited" for `openhpi.conf.example` (lines
  41-43), but the test of `session.c` makes it a limit of one event.
- Deleting one alarm does not count as an update of the DAT (`safhpi.c:1545`);
  deleting by severity does.
- Removed and acknowledged alarms are not saved (`alarm.c:266`), nor is a
  cleared event log; a restart brings them back.
- The removal of a failed resource raises a resource alarm (`alarm.c:536`).
- A second caller of `oh_wake_discovery_thread` wakes the first before a round
  has ended (`threaded.c:236`), and so does a spurious wake-up, although the
  comment above the function says "we wait until it does a round".
  `AloneWaitsForRound` states what holds.
- A removed resource keeps its sensor alarms, and a sensor that was just
  disabled may get one (section 2, Alarm).
- A retried call may be executed twice (`ExecutedAsReported` bounds it); after a
  lost reply to a close the client keeps an object for a session that is gone.
- A stop of the daemon hangs when a service thread waits on its own session for a
  quit event it will not find (`Stranded`): another thread of the session took
  it; the thread took it itself before `stop` was set, answered, and its client
  called again; the session was unsubscribed or its queue full when the event
  was handed out, or it was opened later. `StopCompletes` says that nothing else
  holds a stop up.
- A spurious wake-up in `cIpmiCon::Cmd` would delete a request that is in use.
- The event log's limit is tested with `==`: a file loaded under a lowered limit
  is longer than the limit for good. The model keeps the limit.
- `cIpmiConLan::Reconnect` does not look at `m_exit`, and `ReadResponse` looks
  into `m_outstanding` without the lock.
- `oHpiInjectEvent` may call a plugin with no instance when the handler failed to
  open; `CallsMeetOpen` is stated accordingly.

## 4. Fairness

`Session`: weak fairness of the event thread and of each step of a thread inside
a call, which includes the end of a blocked pop: it has a timeout of 5 s even
for `SAHPI_TIMEOUT_BLOCK`. Clients owe no calls.

`Threaded`: weak fairness of each loop, each caller inside a call, the end of
event processing and the main thread. A round is assumed to end, as the code
does; neither a timeout nor a spurious wake-up is owed, so `CallersReturn` and `StopCompletes` rest on
broadcasts alone. Mutexes are not assumed to be fair; with calls and timeouts
bounded by `MaxCalls` and `MaxTimeouts` a loop cannot overtake a caller forever.

`Handlers`: weak fairness of every thread inside a call or a round, and of the
main thread. Taking a lock is strongly fair: rounds leave seconds between
them, so one who waits for a handler meets it free and awake. Plugin functions
are assumed to return.

`Rpc`: while a client thread inside a call, a service thread or the stop can go
on, one of them does; `sig_handler`, once it has posted the quit event, goes on to
set `stop`, and the event thread gets to that event. Nobody owes a blocked `saHpiEventGet` an event, nor the
daemon the news that a connection broke; `CallsReturn` therefore excludes the
blocking get.

`IpmiCon`: weak fairness of the reader and of callers; strong fairness of a
request's expiry, which says that the clock runs. A new session is assumed to
succeed eventually, because the BMC comes back.

## 5. Proofs

All theorems hold for every value of the constants under the named assumptions
of the modules. Those are: sets whose elements are counted (`Threads`,
`Services`, `Clients`, `Callers`, `Resources`) are finite; a marker that is no
thread (`"session"`, `None`) is not in the set of threads; bounds and limits are
natural numbers, and `CountMod`, `Retries`, `RPC_ATTEMPTS`, `MaxOutstanding`
positive ones; there is at least one command; and `MaxOutstanding < MaxSeq`, as
with the code's 32 and 64. The bounds (`MaxEvents`, `MaxInputs`, ...) are
constants of the theorems too, of any size.

Every safety invariant of a passing run is a theorem, and so are every module's
type invariant and the refinement of `Stream`. In each module the inductive
invariant comes first, as a conjunction of named parts, then its preservation by
each action, then the theorems. TLC checked each invariant on the instance of the
component's run before it was proved.

`SessionProofs`:

- `TypeCorrect`: `Spec => []TypeOK`. Inductive invariant `TypeInv`: the types,
  and that the event thread has an event while it multiplexes.
- `QueuesAlive`: inductive invariant `RefInv`: a thread past its
  `g_async_queue_ref` is among the holders, an open session or one being
  finalized holds its own reference, and only one thread finalizes a session.
- `QueuesFreed`: inductive invariant `HeldInv`, the converse: every reference
  belongs to a thread inside a dequeue on that queue, to an open session or to the
  thread that closes it, and goes when that thread is done.
- `QueuesBounded`: `QueueBound` is inductive given `TypeInv`; a step that ends
  a blocked pop removes an event and a waiter together, which needs the
  cardinality facts of `FiniteSetTheorems`.
- `NothingLeaks`: inductive invariant `DrainInv`: while a closed session is
  drained its queue holds no more events than are left to drain plus one per
  blocked thread, and afterwards no more than one per blocked thread; a queue
  without references (`RefInv`) has no blocked threads.
- `OrderedDelivery`: inductive invariant `OrderInv`: queues are strictly
  increasing, above `popped` and not above `event`; the queues of the targets
  still to come hold only earlier events.
- `UnsubscribedHoldsOne`: inductive invariant `UnsubInv`: after a subscription
  ended only the event already decided on may still arrive.
- `DeliveryComplete`: inductive invariant `CompleteInv`: for a subscribed
  session every event since the subscription is accounted for as queued or lost,
  except the current one while the session is still to be visited.
- `SessionImplementsStream`: initial states map to initial states of `Stream`,
  and each action to the one action of `Stream` it implements or to a stutter.
  That an event is taken in at most once comes from `OrderInv`, that ids are
  given out in order and once from `CompleteInv`, that there is room from the
  test of the limit.

`ThreadedProofs`: `ThreadedTypeCorrect`, `NothingFreedInUse`,
`UndisturbedWaitsForRound`, from `IInv`: the types; `StopInv`, which ties the
main thread's place to the stop request, the idle callers and the loops that
have ended; `CallerInv`, which ties a waiting caller to how much of a round it has
seen. The number of spurious wake-ups is a constant of the theorems, like that of
timeouts.

`HandlersProofs`: `TypeCorrect`, `HandlersFreedWhenUnused`,
`HandlerCallsMeetOpen`, `RoundsComplete`. The invariant counts: `RefInv` says
that `refcount` is the number of threads that hold the handler, less the one
reference that `oh_destroy_handler` gives up when it takes it from the table.
`LockInv` (who works with a handler has its lock) and `DomainInv` (who holds the
domain lock) show that a thread which found the instance open still does when it
has its lock (`OpenInv`). `OwedInv` says that what a round still owes lies ahead
of the id it is at; `oh_getnext_handler_id` returns the least id above that, so
it skips none.

`EventLogProofs`: `TypeCorrect`, `EntriesNamedByIds`, `WalksReadNeighbours`,
`OverflowIsTold`. `Linked` is the shape of the list and of the file: consecutive
ids and consecutive events, up to the last. From it follow what a restart loads,
what an append drops and what an id leads to; `WalkInv` carries that from one read of
a client to the next.

`AlarmProofs`: `TypeCorrect`, `IdsOrdered`, `IdsFresh`, `LimitsHold`,
`SensorAlarmsCurrent`, `WalksComplete`. `TableInv` says of the list and of the file
alike that ids are distinct, lie in 1..`next_id`, and that the limits are kept:
a restart makes the list from the file. `NoStaleSensorAlarm` is inductive: a
removal takes away every alarm of the state, and `asserted` shrinks only where
an event does so. `SaveInv` says that a file written to its
end has the newest alarm, whence ids stay fresh; `WalkInv` that a client
has seen what it passed.

`DomainProofs`: `TypeCorrect`, `RptsAgree`, `FailuresArePublished`,
`HealthyAreNotAlarmed`. `RptAgrees` speaks of an empty queue only; the invariant
must say what the queue will do. `ReplayInv` does: the waiting events lead from
the RPT's view of a resource to its handler's, one view per event. A definition
that ran the queue would need induction over its length, so `Leads` asserts that a
sequence of such views exists; a post extends it at the end, `process_event`
takes its first element off. For a resource that a client has removed it starts at
the next announcement. `AnnounceInv` says that a FRU is announced only
when the RPT will not know it by then, which the order of a handler's events
ensures, and `PublishInv` that subscribers know exactly the resources that
are failed in the RPT.

`RpcProofs`: `TypeCorrect`, `ObjectsAreReferenced`, `ExecutionsReported`,
`UnownedAreUnknown`, `TablesAgree`. The invariant is built in layers. `Core`:
`WireInv` says which connection, socket and request belong to which client
thread, `ObjectInv` that a session object's count is the number of its users and
that one close of a session at most succeeds, `FreshInv` that nobody else knows an
object before it is listed. On it rest `DoneInv` (executions and requests
under way are no more than requests sent, and a success that is coming was
executed), `OwnInv` (a live session that a client knows is owned by a service
thread) and `CalmInv` (while nothing broke and nobody stopped, nothing is lost and
no two objects carry one session).

`IpmiConProofs`: `TypeCorrect`, `RequestsInOnePlace`, `CodeAssertionsHold`,
`AnswersAreOwn`. `PlaceInv` and `CountInv` keep queue, table and counter in
step. `NetInv` is why a late answer cannot meet a later request under its
number: its remaining life is at most one more than the number of free sequence
numbers that the search of `AddOutstanding` will meet before that number (`Gap`).
Each send uses up one of either; `MaxOutstanding < MaxSeq` ensures that there is a
free number. The bound `Late` on an answer's life enters here.

Only model-checked: the liveness properties `CloseReleasesWaiters`,
`CallersReturn`, `StopCompletes` (of `Threaded` and of `Rpc`), `CallsReturn` (of
`Handlers`, `Rpc` and `IpmiCon`) and `FinitCompletes`, because this prover does
neither fairness nor `ENABLED`. The refinement is not among them: `Stream` states
no fairness. The three refuted statements of section 3 are counterexamples of
TLC.

## 6. Not modelled

The models cover the daemon's core, the client's session layer and one plugin's
connection; by lines that is a small part of the repository. Most of the rest
are the other plugins (`snmp_bc`, `oa_soap`, `ov_rest`, `ilo2_ribcl`, `ipmi`,
`sysfs`, the simulators): tables that describe hardware and conversions of its
protocols, with little state of their own that a model could tell apart.

Also left out: loading and unloading of plugins and their reference counts; the
timers and instruments of `test_agent`; the RMCP session setup, authentication
and sequence windows; checks of parameters and capabilities in HPI calls, which
return without a change; configuration parsing, marshalling and encryption,
which are conversions; shell, bindings and tools, which forward and print; the
event logs of resources and `oh_el_prepend`, which plugins use. `oh_destroy_domain`
refuses the only domain there is, so domain lifetimes are left out. Pointers
read after an unlock whose value only selects an error (`safhpi.c:615`) have no
counterpart in models without addresses.

## 7. Plan

1. Theorems: shorter proofs where two actions repeat an argument (`RpcProofs`,
   `DomainProofs`); action properties that follow from the invariants, such as the
   order in which `ThreadedStop` and `oh_finit` tear down; the safety part of the
   liveness properties, that is, which states a caller can be stuck in.
2. Models: the timer thread of `test_agent`, plugin reference counts, the MC
   threads of `ipmidirect` (discovery, polling and hot swap of an MC).
