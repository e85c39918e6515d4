# Formal models of SHP

SHP is a home monitoring system for small Linux boards.  A *client* has sensors
on its pins, a *proxy* collects what clients report, a *head* shows it on a
screen.  The three programs are built from `src/src`; each talks to the next by
one TCP connection per message.  This directory holds TLA+ models of the three
programs, the TLC configurations that check them, and proofs for TLAPS.

Paths below are relative to the repository, with its root called `src/`.

    client main loop --- peek / send / remove ---> proxy worker    proxy main loop ---> head worker
      ^        |                                      |               ^                   |
      |      queue <- add - sensor threads            +--- queue -----+                 queue
      |                                                                                   |
    shp_client.sh (restart, install new_binary)                          head main loop: screen

## Inventory

**Message queue** (`src/src/queue.cpp`).  State: a `std::map` from ids to
messages, the last id, a mutex.  Operations: `add`, `peek`, `remove`, the
destructor.  Each of the three programs has one; several sensor threads (client)
or one working thread (proxy, head) add, the main thread peeks, uses the message
*without* the mutex, and removes it by its id.  Hard: the pointer used outside
the mutex, the teardown with threads that still add, ids that wrap.  Right means:
it is a FIFO queue, no message is used after its deletion, deleted twice or
forgotten, and a teardown ends.

**Client main loop and event sending** (`client_main.cpp`,
`client_process_{config,event}.cpp`).  State: `current_state` (RESET, VERSION,
CONFIG, READY, PROCESS).  Each state does one exchange; any failure ends the
program, and `shp_client.sh` starts it again at once.  Hard: exchanges
that fail after the server has acted; restarts.  Right means: events are not
shown twice or out of order, and the client gets back to PROCESS.

**Client sensor manager** (`client_sensor_manager.cpp`).  Creates the sensors of
the settings (types that it does not know are left out), activates them, turns on/off
callbacks into event messages for the queue, deletes the sensors.

**Client settings** (`client_config.cpp`).  State: `sensors_settings` and the
network settings, read from `shp_client.cfg`, once by `main` and once more by the
first function that asks for one of them.  Hard: the file may be edited or unreadable
between the two.  Right means: the sensors that run are those that the proxy is told of.

**Event sensors** (`sensors/sensor_event.cpp` and its subclasses).  State per
sensor: the flag `activated`, a thread.  The thread polls the flag, runs
`do_task`, reports, and is activated again from its own callback; the main thread
activates it first and deletes it at the end (`pthread_cancel`, `pthread_join`).
The flag has no lock.  Hard: order of setting up the pin and the flag, the order of
destruction, cancellation points.  Right means: a pin is set up before it is read,
reporting does not stop, the deletion ends and finds a whole object.

**DHT sensors** (`sensors/sensor_dht.cpp`).  A read is a request and some forty
busy waits for a change of the pin, then a checksum, then up to three retries.
Right means: unchecked data are not reported, and a read ends.

**Message exchange over TCP** (`socket*.cpp`).  `client_socket_class` connects
with retries, sends a request, waits for the answer, closes;
`server_socket_class` accepts one connection at a time with a backlog of one.
State: the two ends, what the kernel holds in between, how many bytes a call has
left to move and how much time.  Hard: bytes that come in pieces, timeouts, half-sent
requests, late answers, which end blocks.  Right means: a request is handled whole and
at most once, "ok" means the answer to it, every call ends, and a descriptor is closed
by its owner.

**Message format** (`message.cpp`, `message.hpp`).  A payload is a buffer of fields, each
with an id and a length; `add_field_to_message` makes it grow, `get_field_from_message`
goes through it.  Hard: unsigned arithmetic, fields that are missing.  Right means:
nothing outside the buffer is touched, and what is found is the first field with the id.

**Proxy** (`proxy_main.cpp`, `proxy_*.cpp`).  A working thread that serves
requests, and a main loop that forwards queued events to the head *and removes
them whatever the outcome*.  State: `config`, the queue, the directory of update
files.

**Head** (`head_main.cpp`, `head_*.cpp`).  A working thread that takes events and
a main loop that registers once at the start, then shows queued events in the row
whose pin matches.

**Configuration and registration** (`client_process_config.cpp`,
`proxy_config.cpp`, `proxy_register.cpp`, `head_config.cpp`).  The proxy keeps the
settings of the client that sent them last, the head those that the proxy had when
the head started.  Right means: settings of two clients never mix, rows show the
events of their sensors in order.

**Program update** (`client_process_version.cpp`, `proxy_version.cpp`,
`shp_client.sh`).  State: the program file, `new_binary`, the proxy's directory.
The client asks at each start whether there is a newer revision, unpacks it into
`new_binary` and exits; the script moves it over the program.  Hard: everything
that fails between two of these steps.  Right means: no downgrade, no endless
update, no half program.

**Actuators** (`sensors/actuator*.cpp`), **command stub** (`proxy_command.cpp`),
**logging, versions, error codes**, **server prototype** (`src/server`), **tests**
(`src/src/test`), **vendored libraries** (`src/src/external`): see "Not modelled".

`PROJECT.json` lists each component with its sources and modules, the hazards
with their lines, and which lines each definition stands for.

## Modules

| module | what it is |
|---|---|
| `Queue` | the `std::map` with its ids: insert, erase, first id, the increment that wraps |
| `QueueThreads` | `queue_class` with its mutex, its producers, its consumer and the client's teardown; one action per critical step |
| `FifoQueue` | abstract: a queue that producers put to, that is taken from, and is destroyed |
| `Message` | the buffer of fields: adding one, one turn of the search for one |
| `Exchange` | one exchange at both ends, in bytes: `select` and its timeouts, retries, descriptors, a stalled peer |
| `ExchangeOutcome` | abstract: handled whole and at most once, answered, or failed |
| `EventPath` | clients, proxy and head with their connections and queues; failures, timeouts, restarts |
| `EventDelivery` | abstract: what may be shown, once each, in order per client |
| `Configuration` | settings files, sensor manager, registration, the rows of the screen, restarts of all three programs |
| `ClientUpdate` | script, `process_version`, `decompress`, the proxy's choice of the file, the operator who fills its directory |
| `SensorThread` | the thread of an event sensor or DHT, its activation and its destruction |
| `MC*` | the small instances for TLC |
| `QueueProofs`, `ExchangeProofs`, `EventPathProofs`, `UpdateProofs`, `SensorProofs`, `ConfigurationProofs` | theorems and proofs |
| `ExchangeProgressProofs`, `EventProgressProofs` | more of them on top of the invariants of `ExchangeProofs` and `EventPathProofs`: progress, and what may get lost |

How they fit together: `QueueThreads` implements `FifoQueue` (checked and proved).
That is why `EventPath` and `Configuration` can have a sequence for each queue.
`Exchange` extends `Message` and implements `ExchangeOutcome` (checked and proved), which is
why `EventPath` can have a handful of steps for an exchange: connected, sent, handled,
answered, given up before or after.
`EventPath` implements `EventDelivery` (checked and proved).  `Configuration` has one step for
an exchange whose parts are in `EventPath`, and shows which row an event gets to.
`SensorThread` looks at the same threads as the producers of `QueueThreads`, from
the other side: what they do between two events.

### State and actions against the code

*QueueThreads.*  `pc[t]` says where a thread is; `Lock`/`Unlock` are the calls on
`map_mutex`; `AddBump`, `AddInsert` are the statements of `add`; `PeekRead` and
`RemoveDelete`/`RemoveErase` those of `peek` and `remove`; `UseDone`/`UseFailed` is
what the main thread does with the message between them.  Teardown is `CancelNext`
and `Join` for each sensor, then `DestroyPurge`.  A message is a number, never used
twice, so a dangling pointer shows.  `CancelPoints` are the places where a cancelled
thread may stop: the sleeps, and the prints before `add`; nothing inside `add` is one.
`added`, `removed`, `leaked` are history.

*Message and Exchange.*  A value is known by its length, a payload by the offsets of its
fields; `Alloc` is the growth of the buffer in arithmetic modulo `UintLimit`.  `at[side]` is the
call of `send_data` or `recv_data` that a side is in, or where else it is; `todo` the bytes
this call has yet to move and `tv` what `select` has left of its timeout.  `SendSome` and
`RecvSome` are one turn of the two loops, `TimeOut` is a `select` that returns 0, `PeerGone` a
`send` or `recv` that finds the other end closed.  `Tick` takes time from everybody who waits in
`select`, and nobody who is ready lets his timeout pass.  `HeaderCame` and
`RequestCame` are the two halves of `recv_message`; `handled` is set where the handler is
called.  `GetField` and `GetFieldGoesOn` are a handler that looks for any field.  The accepted
socket blocks (`Blocked`), because what is made non-blocking is the listening one; a `send` that
has begun waits outside `select` then (`WaitInSend`).  `CloseSocket` is the closing of
`socket_fd` with whatever number it holds: the constructor sets none.  `Stall` is an
initiator that stops running with its end open.

*EventPath.*  `exchange[i]` is where an initiator is with `connect` and
`send_and_receive`; `conns[s]` are the connections at a server, the accepted one
first; `worker[s]` is `working_thread`.  `Handle` puts an event into the queue before
`Reply` answers, as `process_message_event` does.  `Abandon` is what a failed
exchange leads to: a client goes down and its queue with it, the proxy drops the event
and goes on.  `ConnectFails`, `SendFails`, `AnswerTimesOut`, `ReceiveTimesOut`,
`ReplyFails` and `Restart` are the spontaneous failures.  RESET and READY do nothing
an exchange depends on and are part of the steps next to them.

*Configuration.*  `Received` is `process_message_configuration`, which the proxy and the
head share word for word: counts are always taken over, the arrays only when there are
sensors.  `Setup` is a start of a client up to CONFIG: it reads `shp_client.cfg` twice, and
`versions[c]` are the contents that file may have at either time; `Created` is `add_sensor`, which
knows four types of sensor and the LED.  `StartsAgain` is the exit and the script.  `Forward` is the proxy's main loop, `Show` the head's with
`show_message_event`.  `ConfigUnanswered`: the proxy took the settings but the client
did not hear of it.

*ClientUpdate.*  A file is a revision and how much of it there is.  `Choose` reads the
directory (`get_update_file`); `SendFile`/`OpenMissing` open the file later;
`DecompressDone`/`DecompressShort`/`InflateFails` are the outcomes of `decompress` for
the contents; `Install` and `Execute` are the script.  `Operator` is external.

*SensorThread.*  `SetupAgain`/`SetAgain` are `activate` called from the thread's own
callback, `ActivateSetup`/`ActivateSet` the same function called from `main`: one step
for `sensor_setup`, one for the flag, since nothing keeps the other thread out between
them.  `DestroyDerived`, `Cancel`, `Join` are the destructors, the derived class's
first; `Class(s)` is the class a virtual call reaches meanwhile.  `CheckGone` is the
call of a virtual function that the base class does not have, whose outcome is
undefined.  `Toggle` is the world.

Definitions whose comment starts with "Fault:" are wrong variants of the definition
that follows, for checking that a property notices them.  No specification uses them.

## Runs

Every run is finite because of the named bounds; none uses a state constraint or
symmetry.

| run | instance | question |
|---|---|---|
| `queue_client` | 2 sensor threads, 4 messages, consumer may fail | the inductive invariant; FIFO, ownership, no use after deletion, the teardown ends, every message is taken out |
| `event_failures` | 2 clients, 1 event each, 1 failure, a backlog of 1 | an answered event was taken, nobody waits for an answer that nobody will give, nor for ever in `connect`; without failure everything is shown |
| `event_recovery` | 1 client, 3 events, 2 failures | nothing shown twice or out of order, nothing lost before the first failure; the client recovers, and later events are shown |
| `configuration` | 2 clients, each with two versions of its file (2 sensors, 1 or none; one of an unknown type), a shared pin, 2 events, 2 faults | settings do not mix, the proxy has those that the client runs with, rows show events of their pin and only advance, no event strays from its way to its row |
| `exchange` | requests of up to two fields, answers with and without payload, one stall, 2 attempts | whole and at most once, fields in the buffer, bounded waits, descriptors, each step is progress, the server comes back |
| `exchange_blocked` | the same | *violated:* every call of the server times out |
| `update_faults` | 3 revisions, all kinds of fault, 3 of them | the inductive invariant (a working client is up to date); no downgrade, no circle; unless a file is spoilt the script goes on; if only exchanges fail, a restart brings the newest revision |
| `update_short` | one file seen half copied | *violated:* a restart is for a whole program |
| `update_disk` | one failed write | *violated:* what is installed is a whole program |
| `sensor_mixed` | an opto interrupter and a DHT of 2 pulses | no activation lost, pins set up, data checked, reporting goes on, deletion ends |
| `sensor_silent` | a DHT that may stop answering | *violated:* deletion ends |
| `sensor_gone` | a DHT | *violated:* the thread runs on a whole object |

### Why the bounds are enough

*Queue.*  Two producers can race for the mutex while the main thread holds a peeked
message; four messages make the queue hold two more behind that one.  The safety
properties are proved for any numbers, as long as ids do not wrap, which in reality they do
after 2^32 messages.

*Exchange.*  One unit is a few bytes.  A header takes two, the kernel holds three, an answer has
none or two, so a header and its payload do not fit at once: calls end in the middle, and
an answer can block.  Requests hold no field, one or two (`MaxPayload = 5`); two ids let a
search find the first, the second or none, or the first of two.  `UintLimit = 8` makes
`message_alloc_size * 4` wrap at the second field.  Timeouts of two and one let time run out in
a later turn of a loop than the first.  All of these are arbitrary in the theorems.

*Event path.*  Linux completes one connection more than the 1 that `listen` is given, which
is `Backlog = 2` in `event_recovery`.  `event_failures` has `Backlog = 1`, so that its two
clients and one connection that was given up are more than fit: one client waits in `connect`
while the worker still has to find out that nothing more will come on the connection it has.
One failure suffices for the cases "taken but not answered", "forwarded but not removed",
"half a request"; two let the second hit the recovery from the first.  Three events of
one client let one be in doubt, one behind it and one be reported after a restart.

*Configuration.*  Two sensors, one, and none are the cases in which arrays shrink, grow and
stay behind.  The two versions of a file share a sensor at different places of the list, and a
file can change between any two readings.  Two faults: the restart of the proxy and of the
head, in either order, or of a client between two versions.

*Update.*  Three revisions: the running one, the one chosen, and one published meanwhile.
Three faults let one fault spoil a file, another interrupt its installation, and a
third the repair.

*Sensors.*  Two pulses stand for forty: the first goes round the loop again, the last
leaves it.  `RETRY_COUNT` is the real one.  Opto interrupter and DHT are the two shapes
of `do_task` with waits; "button" (flame and reed too) differs from "opto" in the
polarity only, "pir" waits for nothing.  These two are covered by the theorems, not by a run.

### Fairness

Weak fairness on the steps of a thread means that the operating system goes on
scheduling it; nothing makes a sensor report, a client fail or a message get lost.
In particular:

- `QueueThreads`: strong fairness for taking the mutex.  The main thread sleeps half a
  second when it finds the queue empty, and `add` and `peek` hold the mutex for a few
  instructions, so nobody is starved.  Strong fairness of `Stop`: each turn of a
  sensor's loop passes a sleep, where a pending cancellation acts.  A DHT that never
  answers is the exception, which `SensorThread` shows.
- `EventPath`: each initiator, each worker, the restart by the script and the head's main
  loop.  The failures have none.  Without a spontaneous failure a timeout is
  not assumed to come, so `EventsAreShown` means that nobody *needs* one, and
  `EveryoneGetsConnected` that nobody needs to run out of attempts to connect.  The latter
  is for finitely many requests of the others (`MaxEvents`): nothing in the code queues
  those who wait outside a full backlog, so a stream of new connections could pass them by.
- `Exchange`: the two processes and the time; none for `Stall`, nor for `WaitInSend`, which
  changes nothing.
- `ClientUpdate`: the script, the client, the proxy's worker.
- `Configuration`: the two loops that pass on events, and the head's start.
- `SensorThread`: each thread, the main thread, and, if `DhtAnswers`, the pin of a DHT.
  `DhtAnswers` is FALSE for a sensor that is broken, disconnected, or faster than a
  thread that is preempted in the middle of a pulse.

### What the violated runs show

- `exchange_blocked`: `accept_client` "sets non-blocking mode" on the listening socket, and
  on Linux an accepted one does not inherit it.  A `send` of an answer larger than the
  kernel's buffer (an update file) to an initiator that has stalled never returns, and
  no timeout applies to it.  The worker is the only one: the server serves nobody from
  then on.  `ServerIsFreed` in `exchange` says that this is the only case.
- `update_short`: `decompress` returns `RESULT_OK` when the stream is cut off.  An update
  file that is still being copied is installed truncated, and then crashes for ever;
  if nothing was written, the script takes the empty file for a success and stops.
- `update_disk`: a failed write leaves part of `new_binary` behind, and the script
  installs whatever it finds.
- `sensor_silent`: `read_data` waits for each change of the pin without limit and without
  a cancellation point, so `delete` may hang in `pthread_join` and the script never gets
  its turn.
- `sensor_gone`: the thread is cancelled in the destructor of the base class, when the derived
  part has been destroyed; until then it may call `is_data_crc_valid`, which the
  base class does not have.

`sensor_mixed` still has `DeletionEnds`, for a DHT that answers; the difference between
it and `sensor_silent` is the one constant.

## Proofs

No theorem has an assumption other than those of the constants, named in the modules,
and those it states itself.

**QueueProofs.**  `TypeCorrect`, `MutexCorrect` and `TeardownIsQuiet` hold for any constants,
ids wrapping or not.  `Invariant` (the whole of `IInv`), `HeldMessageIsLive`,
`EveryMessageHasOneOwner`, `RemovedIsTheUsedOne` and `QueueIsFifo` assume
`MaxMessages < IdLimit`, without which they are false: once ids wrap, the oldest message
has not the lowest id, and the id 0, which `peek` returns for "empty", is given to a message.
None of the properties is inductive.  `HeldIsLive` needs that the peeked message is still in
the map (`Holding`), that only the main thread removes, that messages alive are those with
an owner (`LiveMessages`), and that no two entries are one message (`Creation`).  `Window`
says that the ids in the map are exactly the positions in `added` not yet removed; from it
follows the refinement mapping, which lists the map in the order of ids.
`MutexIsFreeForTeardown` is what `TeardownCompletes` rests on, from `MutualExclusion` and
`TeardownOrder` alone: no cancelled thread ends with the mutex, the main thread waits in
`pthread_join` without it, and the destructor of the queue finds it free.

**UpdateProofs.**  `UpdateInv` ties the proxy's choice to the version it was asked about
(`Looking`, `Looked`), the answer and `new_binary` to the running program (`Answered`,
`Waiting`).  From it: `UpdateTypes`, `ClientIsUpToDate`, `UpdatesDoNotMeet` and
`NeverDowngrades`, with every fault allowed.  `SupervisorNeverEnds` and `InstallsAreWhole`
are about behaviours without a fault of the kinds in `Spoiling` (so far, at each moment); with
any of them they are false, as the runs `update_short` and `update_disk` show for two of them.
They need that files, answers and what waits for the script are whole until then
(`WholeFiles`).  `OnlyTwoWaysToFoolTheClient` narrows this down for what the client itself
decides: a restart "for new version" is for less than a program only after an unfinished copy
or an unnoticed failure of a write (`Uncut`), never because of a kill, garbage, or a name
without a file.  So the claims that `update_short` and `update_disk` violate are proved up
to exactly the causes these runs show.

**ExchangeProofs.**  For any fields, lengths, timeouts and attempts.  `RequestInv` says that
the fields of a request lie one after the other and fill its payload, which needs that the
payload stays below `UintLimit`, while `message_alloc_size` may wrap as it likes.
`ReceivedInv` follows the bytes of the request to the server: what has come of the payload is
what the first bytes hold.  `SearchInv` says that no field before the place of a search has the
id it looks for.  `InitiatorInv` ties the outcome and the descriptor to the place of the
initiator, `AnswerInv` the answer to what is in flight, `TimeInv` the time waited to the time
left.  From these: `ExchangeTypes`, `BuffersHold`, `SearchesFindFirst`, `CallsWaitBounded`,
`StrayIsUnused`, and `ExchangeKeepsPromise`, the refinement of `ExchangeOutcome`: one step of it
or a stutter for each step of an exchange.

**ExchangeProgressProofs.**  `ExchangesEnd` is the safe half of "an exchange ends": `TurnsLeft`
counts the calls that the two sides have before them, `WorkLeft` what can still happen within one
(bytes to move, time to wait, attempts, fields to add and to look at); both are naturals, and
each step that changes anything lowers the first, or leaves it and lowers the second.  A loop that
gave `select` its whole timeout again, or a search that did not get on, would break it.
What is left to TLC is that the steps are taken.  `NothingLeftOver` counts the bytes
of each message at both ends and between them (`FlowInv`): what a side has sent and the other
not yet read is in flight, so an exchange that succeeds leaves nothing on its connection that a
later reader could take for the start of a message.  The same count gives `LargeAnswersBlock`: the
`send` that waits outside `select`, which `exchange_blocked` shows, takes an answer that the
kernel's buffer does not hold.

**EventPathProofs.**  For any clients, events, failures, restarts and backlog.  The invariant
orders what is on its way: of the events of one client, those shown are older than those in
the head's queue, these older than those on connections to the head, then those in the
proxy's queue, on connections to the proxy, and in the client's queue (`Screen`, `InLine`,
`Sorted`, `Behind`, with `Passed`: what is further has been taken before).  The one
exception is the event that its initiator is just sending: its peer may have it already.
That it is the only one rests on the connections: one that its initiator still listens
to is its current exchange (`Heard`), all others are left from exchanges that were given
up, and those end in a drop of the event or of the whole queue (`Underway`).  From it:
`EventPathTypes`, `OnlyOneInDoubt`, `AnsweredIsAccepted`, and `EventsAreDelivered`, the
refinement of `EventDelivery`.

**EventProgressProofs.**  What the liveness of the path rests on, for any constants.
`EventDelivery` lets events be lost, because failures lose them; `NoEventIsLost` says that
nothing else does: before the first failure or restart, each reported event is in a queue or on
the screen (`Handed`: what a server has taken is in its queue, or at the next one; no
connection is closed under an exchange).  `AnswersAreAwaited` holds whatever fails: an
initiator without an answer has an open connection with all that it has sent (`Attended`), and a
worker that waits for a request has an initiator that has yet to send it, so that the two never
wait for each other.  `EventsAreTakenOnce`: a server never puts an event into its queue that it
has put there before, since an initiator whose exchange failed does not send the event again.

**SensorProofs.**  `SensorTypes` and `DataAreChecked` follow from `Reading`, which ties
the retry counter to the number of reads and the data at each place of `do_task`.
`PinsAreInputs` takes `Prepared` as well: the pin of a sensor other than a DHT is an input
whenever its flag is set or about to be, and before its turn in `activate_sensors` its thread
is polling with the flag down.  It holds though nothing locks the flag.  From the same
invariant, `NoActivationIsLost`: the flag is never set while its thread is in `do_task`, which would
clear it, nor is a thread left polling a flag that nobody will set.  Of the teardown,
`ThreadsEndFirst` says that a sensor whose destructor has returned has no thread any more.

**ConfigurationProofs.**  `ConfigurationTypes` and `SettingsAreNotMixed` are inductive with the
types, and with the fact that what a client in CONFIG or PROCESS has is a version of its file.
`RowsAreRight` needs that the pin of a row is that of the sensor it names; pins may be shared.
`RowsNeverGoBack` needs an order on
everything on its way: what is in the head's queue is older than what is in the proxy's,
both are sorted, and rows are older than both.  `EventsNeverStray` puts the two together: between
faults, an event whose sensor has a row of the running head stays in one of the queues until the
row shows it, or a later one, whatever clients send their settings meanwhile.

**Only model-checked:** all liveness (`TeardownCompletes`, `Delivered`, `ClientsRecover`,
`LateEventsAreShown`, `EventsAreShown`, `EveryoneGetsConnected`, `EventsReachTheirRow`, `RestartBringsNewest`,
`KeepsReporting`, `DeletionEnds`, `ServerIsFreed`): with fairness it is out of the reach of the
prover, as is `ENABLED`.  What safety can say of it is proved: the measure of `ExchangesEnd`,
`NoEventIsLost`, `AnswersAreAwaited`, `EventsNeverStray`, `NoActivationIsLost`,
`MutexIsFreeForTeardown`.  Every invariant and every action property
of a run, and every refinement, is proved.  No module has a recursive operator.

## Not modelled, and why

- *Actuators*: single writes to a pin.  *Command stub*: prints and answers; nothing
  sends a command.  *Logging, versions, error codes*: text, except that prints are
  cancellation points.  *Server prototype*: unfinished, and no program talks to it.
  *Tests*: read as statements.  *Vendored libraries*: gtest, libconfig, wiringPi, zlib;
  modelled by what the code does with their results.
- *Incomplete entries of the settings file*: a sensor without a name, type or pin is
  counted and its memory left as it was, and a name that fills its buffer has no end.  What
  then happens is undefined.  Every entry of a list in `versions` is complete.
- *The network settings*: they are read and decide no step.
- *The conversion of DHT data*: nothing calls it.
- `setup_board` in the sensor manager: nothing calls it.

Things a reader should know about the models:

- The head registers once.  A client that starts after the head has no rows until
  the head starts again; `EventsReachTheirRow` is about clients that do.
- An event carries a pin, not a client.  Two clients that use the same pin write into
  each other's rows, as two do in `configuration`; `RowsShowTheirPin` says that the pin is
  all that can be mistaken.
- The time fields of events and of configurations are never used and left out.
- In `Exchange`, setting a socket non-blocking does not fail, and messages have ids that
  the receiver knows: those that the programs send.
- Events that are lost: `EventDelivery` allows it, because the code does it (a client
  that exits, a proxy that forwards in vain, any restart).  The liveness properties say
  when none is.

Seen in the code, and not covered by a property: arrays of the configuration that are
not freed when a new one comes; a message that is not deleted when its payload does not
arrive; a worker that spins when `bind` has failed.  `OnlyUnusedStray` says when `close`
is called for a descriptor that was never set (`socket_client.cpp:16`): only by an initiator that
had nothing to send or got no socket.

## Plan

Order of work, the most important behaviour first:

1. `Queue`, `QueueThreads`, `FifoQueue`, `QueueProofs` -- done.
2. `EventPath`, `EventDelivery`, `EventPathProofs` -- done.
3. `ClientUpdate`, `UpdateProofs` -- done.
4. `SensorThread`, `SensorProofs` -- done.
5. `Configuration`, `ConfigurationProofs` -- done.
6. `Message`, `Exchange`, `ExchangeOutcome`, `ExchangeProofs` -- done.
7. Progress and loss: `ExchangeProgressProofs`, `EventProgressProofs`, the safe halves of liveness in
   `QueueProofs`, `SensorProofs` and `ConfigurationProofs`, the causes of the violated
   claims in `UpdateProofs` -- done.
8. Incomplete entries of the settings file, as far as their memory is defined.
