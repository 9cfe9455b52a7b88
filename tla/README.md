# 3YP: a TLA+ verification of the temperature pipeline

The repository is a pipeline that carries temperature readings from battery
powered nodes to a database and a web page:

    node (RIOT, C) --6LoWPAN--> border router --> CoAP forward proxy (Python)
        --> CoAP server (Python, MongoDB) <-- shared database --> Flask server
    nodes' own /temp resource <-- CoAP-to-HTTP bridge (cron job) --> Flask server

This directory models its parts in TLA+, checks them with TLC, and proves the
most important facts with TLAPS. Every definition is translated from the source;
`PROJECT.json` maps each to its lines.

## Inventory

Paths are relative to `src/`; `node/` stands for
`project_workspace/3yp_node_coap_saul_puts/`.

| Part | State it keeps | Operations | What makes it correct |
|---|---|---|---|
| Backlog (`node/util.h`) | singly linked list, `uint16_t length` | `reading_add`, `reading_remove` | no reading lost, doubled or leaked; the cap holds; first in, first out |
| Posting (`node/util.c`) | the backlog, `epoch_offset`, sensor power | `get_reading`, `send_reading`, `update_epoch`, `set_period` | a reading leaves the backlog only when the server has it or the cap says so; an outage is made up for |
| Handler and timers (`node/main.c`) | message queue of 8, two self-re-arming xtimers | `handler_thread`, two timer callbacks, boot | no tick is lost for good; timestamps are right |
| Node resources (`node/coap_handler.c`) | the two periods, sensor power | GET/PUT `/period`, GET `/temp` | GET returns what PUT set; nobody cuts another's sensor power |
| Shell (`node/serial_commands.c`) | none of its own | `coap_post`, `coap_get`, `toggle_sensor` | does not disturb the handler thread |
| Forward proxy (`coap_forwarder`, `coapthon3/coapthon/forward_proxy`, `layers`) | transactions by host, port and mid; timers; one thread per datagram | dedup, forward, separate ACK, retransmit, purge | a request is forwarded once; a response belongs to its request |
| CoAP server (`coapthon3/coapthon/server`, `coap_server`) | transactions; `nodes` and `temp` in MongoDB | POST `/temp`, GET `/time` | a reading is stored once, under its node |
| Flask server (`flaskApp`) | the same collections and `leaderboard` | POST `/temp`, `/leaderboard` | as above; a user name is unique, a score never falls |
| Bridge (`coap-http/pipe.py`) | none | GET every node, POST every answer | an answer reaches the database |

How they interact: the node's handler thread posts one reading at a time with
`nanocoap_request`, which opens a UDP socket on a random port, sends up to five
times and takes the first datagram that comes back as the answer. The proxy
starts a thread per datagram, drops duplicates by (host, port, mid) and forwards
with a client of its own. The CoAP server starts a worker per request; the worker
calls MongoDB. Flask calls the same database from another process. Answers
travel back as result codes: 201 and 406 make the node forget the reading.

What is hard about it: the list is walked while it is being changed and its
nodes freed; two threads of the node can be in it without a lock; the counter
beside the list is not its length; requests are retried by four layers, each
with its own idea of a duplicate; two servers check and then insert in one
database without a unique index; the sensor's switch counts no users; two
timers that re-arm themselves share a queue that drops; the clock is the
difference of two clocks, one of which wraps; a client and a server of several
threads each meet at flags they read and use in two steps; resets and outages
happen at any time.

The hazards, each at its line and with the properties that cover it, are in
`PROJECT.json`.

## Modules

| Module | What it is |
|---|---|
| `ReadingList` | `reading_add` and `reading_remove` as operators on a sequence and a counter modulo `LEN_MOD`. Used by the two modules below. |
| `Outbox` | Abstract: what a node promises about its readings (a queue, and each reading's fate). |
| `SensorNode` | The handler thread: `get_reading` up to its loop, one action per turn of the loop, its end, reset, heap exhaustion, and the uplink as environment. Refines `Outbox`. |
| `ReadingHeap` | The same list one level down: cells, next pointers, `malloc` and `free`, and a thread nobody interrupts in the list. Refines `Outbox` when there is one thread. |
| `ReadingRace` | Extends `ReadingHeap` to both threads that call `get_reading`: `reading_add` and `reading_remove` taken apart at every read and write of shared memory, with RIOT's fixed priorities. |
| `SensorPower` | The sensor's power switch and any number of users that switch it on, sleep, read and switch it off; the shell's toggle. |
| `NodeThreads` | Extends `SensorPower` by the handler thread, its message queue, the two timers, PUT `/period` and reset, with time in ticks. |
| `EpochClock` | `update_epoch` and the stamps of readings, over wraps of the counter, late answers, garbage and reboots. |
| `ReadingStore` | Abstract: what the database promises the nodes. |
| `TempStore` | POST `/temp` of both servers, one action per database call, any number of workers, a request may die between any two calls. Refines `ReadingStore` when requests come one at a time. |
| `Nanocoap` | The node's side of an exchange (`nanocoap_request`) and the network between node and proxy. |
| `ForwardProxy` | Extends `Nanocoap` by the proxy: a thread per datagram, the table of transactions, the timer for late answers, the purge. |
| `Delivery` | Extends `ForwardProxy` by the readings the exchanges carry, the node's decision to delete one, and the server's two database calls per forwarded request. |
| `Upstream` | The call the proxy waits in: its client's three threads, and the server's listener, worker, lock and separate timer. |
| `SensorNodeProofs`, `ReadingHeapProofs`, `NodeThreadsProofs`, `EpochClockProofs`, `TempStoreProofs`, `DeliveryProofs`, `UpstreamProofs` | Lemmas and theorems, each about the module it is named after (`DeliveryProofs` about `ForwardProxy` too, `ReadingHeapProofs` about `ReadingRace` too). |
| `DataFacts` | The lemmas these share: removing from a sequence, division, least numbers, induction over a finite or numbered domain through sets. |
| `MC...` | Model values, symmetry; each `.cfg` is one run. |

A node is `SensorNode` (what happens to its readings), `NodeThreads` (when it
does anything, and with which power) and `EpochClock` (what it writes on a
reading). They are kept apart because they share no state that the others'
properties read: the backlog is touched by TEMP messages only, and how long a
message keeps the handler busy is left open in `NodeThreads`. The way to the
database is `Delivery` from the node to the server's two calls, `Upstream` one
level down for the hop from proxy to server, and `TempStore` one level down for
the database.

### How state corresponds to code

`SensorNode.list` is the static `reading_list`: `nodes` the chain from head to
tail, `length` the field. `temp` and `i` are the locals of `get_reading`. `pc`
says whether the thread is in `msg_receive`, in the loop, or halted by a fault
(the firmware is built with `DEVELHELP`, so a panic does not reboot).
`HEAP_NODES` is how many list nodes the heap can hold; `LEN_MOD` is 2^16.
`fate`, `batch`, `episode` and `wrapped` are history variables that no guard
reads. A reading is a name, and a name may be used again once its reading has
left the backlog, so runs of any length are explored with few names. Answers
other than 201 and 406 are one answer, `failed`: the code keeps the reading after
each of them. A sample that fails (`get_temp` returns `NULL`) changes nothing
the module keeps and is a stuttering step. In `SensorNode` no other thread
touches the list, so a freed node still holds its old `next`; `ReadingHeap` does
without that assumption and shows where it is true (`FreedNextIsLinked`).

`ReadingHeap.mem` keeps what a freed cell held: the allocator writes into the
first bytes of a freed node, over the temperature, and leaves `next` alone. The
program counter stops where the handler gives up the processor or frees: after
the tail was found (`link`), at the loop head, while it waits for the answer
(`wait`), and between `free` and `temp->next` (`advance`). Nobody else is in the
list there; its runs and theorems are about one thread. `stored` is the server,
as far as answers show.

`ReadingRace` is for two. The shell runs on the main thread, one priority level
above the handler (`main.c:136`), so `Runs` lets the handler step only while the
shell is blocked, and the shell can cut in between any two steps of the handler,
inside `reading_add` and `reading_remove` too. There a step is one read or write
of memory that the other thread may touch; `call` holds the parameter and the
locals of `reading_remove`. Where the code names a field twice (`list->head`
after `malloc`, `head->next` in the three lines after the search) a compiler may
read it once or twice, and the module allows both, as it does for the look at
`NULL` that comes after the use (`util.h:43`, `47`). `NULL` is address 0, where
flash begins: what a node's `next` would be lies in the vector table and is an
odd address (`FLASH`), and using it as a node is a hard fault, which halts. The
allocator is not interrupted, and it refuses to free what is free. `length` is
counted in one step, since a count lost only moves the next eviction. A name is
one reading only.

`SensorPower.powered` is what `saul_reg_write` of the switch last wrote;
`sampling` is where a user is between its ON and its OFF, with the quarter of a
second of `xtimer_usleep` between `settling` and the read. The OFF comes after a
good read only: the early returns of `get_temp` and `_temp_handler` skip it.
`steady` and `shared` are history.

`NodeThreads.left` is what remains of a timer; a callback re-arms its timer, so
`left` jumps back to `period`. `queue` is the handler's message queue, `work`
what the handler is doing. `msg_try_send` from the interrupt hands the message
to a handler that waits in `msg_receive`, else queues it, else drops it: the
return value is not looked at (`main.c:71`, `81`). The resource `/temp` and
`/period` run in the CoAP server's one thread (`coap`), so `PutPeriod` waits
until that thread does not sample. A PUT multiplies the payload by a million
modulo 2^32; what `strtoul` cannot read is 0. A period below xtimer's backoff is
not set but shot: the callback runs inside `xtimer_set`, on the stack of the
thread that called it (`util.c:261`, the CoAP server's), sets the timer, and is
run again inside that, until a stack is used up
(`sys/xtimer/xtimer_core.c:80-96`); the node halts (`halted`). `span`,
`quickest` and `dropped` are history, and say how long the handler has been busy.

`EpochClock.elapsed` is true time, `ztimer_now` the millisecond counter that
starts with the node and wraps. `update_epoch` is one step: what may come
between the answer's arrival and the new offset is some computation. `errno` is
one variable of the whole firmware, and no code sets
it back. Negative numbers stand for the unsigned arithmetic of `time_t`: offset
and counter are added again wherever the offset is used.

`TempStore.nodes` and `temp` are the two collections, `temp` as a bag, because
nothing in the database makes a row unique. A row carries, as a ghost, the
address it is a reading of. `find_one` without a sort returns the oldest match.
The CoAP server and Flask differ in the codes they answer only. A request that
lacks parameters never touches the database. `Abort` covers exceptions of the
driver and of `float(data['temp'])`, which in the CoAP server comes between the
two insertions, and the death of the server.

`Nanocoap.port`, `open` and `heard` are the sockets of the node. A datagram to
the proxy is its exchange, since nothing in it but its port tells the proxy
anything; `up` and `down` are what the network may still deliver, any number of
times. `ForwardProxy.table` is `_transactions`: host and message id do not vary
for a node, so a port is the key. A transaction is named by the thread that
made it; `tx` holds the fields of the object, which every thread that
works on it reads and writes. The steps of a thread end where another thread
may come between with effect: the lookup and the insertion, or the marking of
the transaction found and the second look that takes one, the two conditions
on the flags, the timer, the new response, the wait for the server, the reply.
A response that went out without a code stays "empty", as does an
acknowledgement: code 0 in both cases, and the node does not look at the type.
`Delivery.serves` follows the server's worker for one forwarded request; the
worker goes on when the proxy has given up. Two database calls stand for
`TempStore`'s: a reading is known by its name, so what `temp_store_refused`
shows about shared node numbers is left out here.

`Upstream.client` has the three threads of the CoAP client: the caller in
`queue.get`, the retransmission thread (`retry` counts, or says that it left its
loop or set `retransmit_stop` to `None`), and the receiver, between its look at
`retransmit_stop` and its use, and in its wait for the other thread. `queue` is
what was put there first: that is what the caller returns. `server` is the
transaction and its worker. The worker takes the transaction's lock in its first
step and gives it back in its last; the listener (`AcknowledgeDuplicate`) and the
separate timer (`TimerAcknowledges`) need it. The lock is an `RLock`, taken once
by each. `listener` is the thread that serves every client, with the request
whose lock it waits for, or dead. The retransmission thread of a CON response
holds the lock too; by then the request is acknowledged, and whoever waits for
the lock would find nothing to do. Its retransmissions are duplicates in `down`.

## Runs

| Run | Question | Bounds |
|---|---|---|
| `sensor_node` | Does the handler thread keep the ledger, walk the backlog it means to walk, keep the cap until the counter wraps, evict only late, implement `Outbox`, and catch up after an outage? | 5 names, cap 2, counter modulo 5, 2 posts per period, heap of 4; no symmetry |
| `reading_heap` | With one thread: is memory sound, is the read after free benign, does it implement `Outbox`? | 3 names, 3 cells, cap 2, modulo 4, 2 posts |
| `reading_race` | Is a reading dropped on an answer only if the server holds it when the shell's `coap_post` runs beside the handler? No: see findings. | 3 names, 2 cells, cap 2, modulo 4, 2 posts, two threads |
| `node_threads` | Does a lone user of the sensor have power, is a tick dropped only by a long wait, is a new period in force at once, is the sensor off again and again? | queue of 2, periods modulo 6 of 1 to 5 ticks, payloads 0, 1, 2, 4 of 2 ticks each, handler and `coap` as users, spans counted up to 5 ticks |
| `epoch_clock` | Are stamps accurate and in order, and does the clock come right again? | seconds of 3 ms, a counter modulo 10, answers up to 2 ms old, 24 ms |
| `temp_store` | What survives any interleaving of the two servers? | 2 addresses, 1 time, a CoAP and a Flask worker |
| `temp_store_seq` | What holds while requests come one at a time, and does it implement `ReadingStore`? | 2 addresses, 2 times, 1 worker, aborts anywhere |
| `temp_store_refused` | Is a refused reading really there? No: see findings. | 2 addresses, 2 times, 2 workers |
| `delivery` | Does the node delete only what is stored, and is every request acknowledged that the proxy takes in? | 2 exchanges, 2 ports, 2 threads, 2 readings |
| `delivery_reuse` | The same when a port is used again while the proxy's table still holds its last exchange. No: see findings. | 2 exchanges, 1 port, 2 threads, 2 readings |
| `upstream` | Is a request executed once, acknowledged without an answer only for a cause, does the call come back and the listener come free? | 1 request, 4 retransmissions |
| `upstream_listener` | Does the listener survive? No: see findings. | 1 request, 4 retransmissions |

Why the bounds are enough: a cap of 2 with 2 posts per period makes a backlog
that is longer than one batch, an eviction in the middle of an outage, and
removals of the head, of inner nodes and of the tail; a counter modulo 5 wraps
above the cap but within reach, and a heap of 4 is exhausted only past the cap. With the
real numbers (128, 65536, 8) these cases need the same steps, more often.
One name more than the heap holds means that a new reading always has a name.
Two workers are enough for every race between a check and an insertion; the
theorems lift what is proved to any number.

A queue of 2 fills and drops within a span of 5 ticks at the shortest periods;
the payloads give a period that wraps to a short one (4), one that is 0, and two
that are in order. A counter modulo 10 with seconds of 3 does not wrap at a full
second, as 2^32 does not at 1000; 24 ms are two wraps and a reboot. One request
is all a transaction knows of: requests meet in `Upstream` at the listener only,
and the theorems of `UpstreamProofs` hold for any number.

In `delivery` two threads are two datagrams of one exchange, which race
each other, or one each of two exchanges; two exchanges are a reading and its
retry, or two readings in flight. `PortReuse` says when the node may draw a
port again: `"forgotten"`, once neither the network nor the proxy has anything
left of its last exchange; `"quiet"`, once nothing of it is on its way or being
worked on, while the table still has its transaction; `"any"`, at once. The
code is the last (`_get_dyn_port` picks one of 16384 ports at random, without
even the check for open sockets, which the build leaves out). `delivery` is run
with the first. `delivery_reuse` is run with the second, to show what the table
alone does; with `"any"` an answer that is still in the network can be heard in
place of the new one, too, and TLC finds that first.

Deadlock is checked in the runs of `SensorNode`, `ReadingHeap`, `NodeThreads`
and `TempStore`, which never stop. In `Delivery` and `Upstream` requests, and in
`Delivery` threads, are used once, so that a behaviour ends when they are used
up; in `EpochClock` true time ends at `Horizon`.

### Fairness

`sensor_node`: the timer keeps sending TEMP messages, the
handler thread keeps running, and `nanocoap_request` gives up after five waits,
so `get_reading`, `Send` and `EndOfPeriod` are weakly fair. Nothing is assumed
of the uplink: `CatchesUp` is about behaviours in which it stays up in the end and the
node does not halt. Resets are not promised either.

`node_threads`: time passes, interrupts are served, and the handler's own steps
end. The users that come by request promise nothing, not even to go on once they
have switched the sensor on. `SwitchedOffAgain` is about behaviours in which the
node serves and drops no tick in the end and the sensor answers whenever it had
power throughout.

`epoch_clock`: an answer comes again and again; this is a promise of the
environment, and `ClockRecovers` says what the node makes of it.

`upstream`: Python runs every thread some time, and a handler ends, by an answer
or by an exception. The network promises nothing, and neither does the separate
timer, which no liveness property needs.

## What is proved

TLAPS checks these for every value of the constants that the named assumptions
allow. `CapAssumption`, `NodeAssumption`, `HeapAssumption`, `StoreAssumption`,
`ThreadsAssumption`, `ClockAssumption`, `NanocoapAssumption`, `ProxyAssumption`,
`DeliveryAssumption` and `UpstreamAssumption` say that a number is one, that a
period can be set, that the heap is finite, or that a name for "none" is not the
name of something. `SpanAssumption` is about a bound of the model, not of the
code: in a span as long as `SpanBound` the queue can fill, so that not counting
further loses nothing. Some theorems have a hypothesis of
their own, given with them: `OneThread`, `OneAtATime`, `PortReuse = "forgotten"`,
`RaceAssumption` (the threads are the two, and `FLASH` is no node), or finitely
many workers.

Every invariant, action property and refinement of the passing runs is a
theorem. Where a run has one thread or one worker, the theorem has it as its
hypothesis.

`SensorNodeProofs`. `TypeOK`, `Ledger`, `CapHolds`, `CursorFollowsBatch` and
`EvictsOnlyInLongEpisode`. None but the first is inductive. `IInv` adds
`EpisodeCounts` (the counter never exceeds the insertions of the episode, which
makes an eviction imply a long episode, and a wrap one too) and
`RestOfBatchIsTail` (what is left of the batch is the end of the list, shifted
by the number of nodes removed so far: this is why the cursor's successor,
read after a removal, is the right one). The lemmas about `reading_add` and
`reading_remove` at the top of the module say what they do to the sequence, to
its set of readings and to the counter; each action's lemma cites them. The same
facts give `NodeIsOutbox`: an insertion is the outbox's `Take` or `TakeAndEvict`,
an answer 201 or 406 its `Settle`, a reset its `LoseMemory`, and every other step
a stutter.

`ReadingHeapProofs`, for every heap, cap, width of the counter and set of
readings. Under `OneThread` the list is a chain
without a repeated cell (`HeapIsChain`), every cell is free, in the chain or in
the thread's hand, and what the thread holds between two steps is still true when
it uses it (`ThreadState`); from these follow `NoLeakNoDoubleUse`,
`FreedNextIsLinked` (the `next` read after `free` is a cell still linked, or the
end), `QueuedIsLinked`, `SettledIsStored`, `ImplementsOutbox` and `TypeOK`. `Linked` is a
recursive function whose domain is bounded by the heap: `LinkedIsChain` shows
that one function solves its equation on a chain, and that only one does.

With two threads in `ReadingRace` all of that fails, and so may the node: a
search that runs off the list reads from address 0, and what it finds there can
end up in a node's `next`. What is left is `NoWildPointer`, about the time until
a fault: the two writes of a `next` go into a node that `reading_add` has
filled, perhaps freed since, and so do the reads a request is made of. Its
invariant (`RaceInv`) is that every pointer held anywhere, and every `next` of a
filled node, is such a node, `NULL` or `FLASH`; it is kept because a node is
filled before it is linked and because each routine stops at `NULL` or faults at
`FLASH` before it would write. No run of the project checks `NoWildPointer`,
since the one run of the module ends at its counterexample; TLC finds no
violation of it in the complete state space of that run's constants.

`NodeThreadsProofs`, for any queue, periods and users. `AloneIsSteady` needs
`TogetherIsShared` (of two users that sample at the same time both know it), so
that a switch-off by one is never unnoticed by another. `NextTickWithinPeriod`
needs `DueWithinPeriod`, which also holds before the node serves.
`DropNeedsLongSpan` needs `TicksOfSpan`: what is in the queue and in the
handler's hands is at most the ticks that both timers can have fired since the
handler left `msg_receive`, the first of each when what was left of it has passed
and one more per shortest period of the span. A PUT that shortens a period
counts in full from the start of the span, which is why the property
speaks of the quickest one.

`EpochClockProofs`, for every length of a second, range of the counter, age of
an answer and start of the server's clock. `StampIsAccurate` needs
`OffsetIsFromAnswer`: the offset is the server's second at some moment within
`MAX_AGE` before it was set, less the node's second then. A stamp is then less
than a second ahead of true time, and less than two seconds and the answer's age
behind it (`NotAhead`, `NotBehind`); in whole seconds these are the bounds of the
property. `StampsKeepOrder` needs that the earlier stamp is not ahead of its own time
(`EarlierNotAhead`), which outlives a wrap or a reboot between the two readings.

`TempStoreProofs`, for any number of workers. `RowsBelongToRegisteredNodes` and
`NumberBelowPosition`; `IInv` adds what each worker has in hand (`HasRegistered`,
`CountIsNotAhead`), which stays true because the collections only grow. For
finitely many workers, `CopiesBounded`: once a row is there every count sees
it, so the copies there are and the workers about to insert one more are together
never more than the workers (`RoomForAll`). Under
the hypothesis `OneAtATime` (any two workers are the same), also `StoredOnce`,
`OneNumberEach` and the refinement `ImplementsReadingStore`: then numbers are
positions (`NumbersArePositions`), so a row that matches number and time is a
row of the same address (`MatchIsStored`), and what a lookup found is still true
when it is used (`LookupsHold`).

`DeliveryProofs`, for any number of exchanges, ports and threads. Of the proxy:
`AcknowledgedOrAttended` follows from `ThreadFacts` and `TransactionFacts`: the
thread that created a transaction keeps working on it, and from the moment it
has started a timer either that timer runs or the request is acknowledged. The
delicate step is the reply, which stops the timer that was started last,
perhaps another thread's: it is one on the same transaction, which the reply
acknowledges. `TypeOK`, `AcknowledgedOrAttended` and `DeliveryTypeOK` hold however
ports are used again. The steps of a thread that has a transaction are all cases of one lemma
(`MovePreserves`), which asks of a step that it takes nothing back (`Keeps`) and
answers only its own exchange (`OnlyAnswers`). With `PortReuse = "forgotten"`
also `UInv`: at most one exchange per port is alive anywhere, in the
network, in a thread or in the table, so a thread that finds a transaction in
the table finds one of its own exchange.

A delivery is a behaviour of the proxy (`DeliveryRunsTheProxy`), so what is
proved of the proxy holds of it. For
`SettledIsStored` the word "stored" is followed back from the node: an answer
that says so (`AnswersTrue`) came from a response that does (`ResponsesTrue`),
which the server gave after it counted or inserted a row (`ServerKnows`), and
`UInv` says that the exchange is the same at every link. No step of the proxy
invents such an answer or moves it to another exchange (`Honest`).

`UpstreamProofs`, for any number of requests and retransmissions.
`ExecutedOnce`, `EmptyNeedsCause` and `ListenerDeathNeedsCause`, from an
invariant that says which flags a transaction can have at each stage of its worker.

Only model-checked: the liveness properties (`CatchesUp`, `SwitchedOffAgain`,
`ClockRecovers`, `CallReturns`, `ListenerComesBack`). They rest on weak fairness,
whose definition contains `ENABLED`, which is out of the prover's reach. What
recursion there is in the modules proved about is a recursive function over
numbers or a cardinality; where a proof needs induction, `SetInduction` of
`DataFacts` gives it as a statement about a set of numbers.

## Findings

* `reading_race`: the shell command `coap_post` runs `get_reading` beside the
  handler thread without a lock. While one waits for an answer the other can
  settle the same reading, free its node and get that node from `malloc` for a
  new reading; the late answer then removes the new reading, which the server does
  not have. In the run a reading drops out of the list besides, because the
  shell's `reading_add` cuts into the handler's removal of the head.
* `temp_store_refused`: two nodes that register at once share a number, after
  which one's reading can be refused, and then deleted at its node, because of
  the other's.
* `delivery_reuse`: the node sends message id 1 and no token in every request,
  so the proxy knows two requests apart by their port only. In the run the answer
  to a stored reading is lost and the node gives up; the next request, with another
  reading, draws the same port within 247 s; the proxy takes it for a duplicate
  and resends the response of the transaction in its table, and the node deletes
  the reading although it was never forwarded. With one request every ten seconds that
  is one reading in about 660.
* `upstream_listener`: a duplicate of a request that was acknowledged before it
  had an answer ends the listener thread of the server, and with it the server.
  It takes a handler that raised or a duplicate that overtook the worker, and a
  response object that has no type yet.

Noted while modelling, without a run of their own:

* `reading_remove` does not decrement `length` when it removes the head
  (`util.h:34`). The counter overstates the list, so a short list is evicted from
  (`EvictsOnlyInLongEpisode` says how short); and it wraps, after which the list
  outgrows its cap (`CapHolds` is stated until then).
* A duplicate that marks a shared transaction before the first thread looks at it
  makes both threads of the proxy answer as for a duplicate, and the request is
  not forwarded. No reading is lost: the node takes an empty answer for a failure.
* While the queue stays full, a timer in step with the other can take every free
  place, so TEMP may starve behind EPOCH (`SwitchedOffAgain` excludes it).
* GET `/period` returns the period, which is in microseconds, times 10^6 modulo
  2^32 (`coap_handler.c:198`), not what was put; a payload that is not a number is
  taken for 0, which halts the node.
* A stamp may lag by the age of the answer, up to the whole time of
  retransmissions, where the node's README says one second.
* Until the first update after a boot readings are stamped with the seconds since
  boot. Those of two boots collide and the second is refused as already existing.
* One number out of range in a payload sets `errno` for good; after that no answer
  of the time server is accepted until a reset.

## Not modelled, and the plan

* The leaderboard of the Flask server (`leaderboard.py`). It shares nothing with
  the pipeline but the process: its POST counts and then inserts, as in
  `TempStore`, on a collection of its own, its DELETE and PATCH are one
  atomic call each.
* The bridge (`coap-http/pipe.py`): a sequential job that keeps nothing between
  runs. Its GET is the client's side of `Upstream`; a POST that fails ends the
  job, and the remaining readings of that round are not sent.
* GET `/period`, the LED and the transmission power, which nothing else reads.
* In CoAPthon3: observe, block transfer and multicast, which the program does not
  use; `receive_empty` of the proxy (the node sends no empty message).
* The vendored RIOT and OpenOCD beyond what the program uses, the earlier node
  prototypes, boards and reports, the JSON text of messages, the read-only
  dashboard, and security of any kind.

Every safety property, action property and refinement of the passing runs is
proved. What is left to prove is more than the runs ask: how far the list may
outgrow its cap once the counter has wrapped, and what remains true of the list
when two threads walk it, beyond `NoWildPointer`, which speaks of addresses only.
