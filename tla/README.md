# A TLA+ verification of libcperciva

libcperciva is a library of C components: a single-threaded event loop, the
network and buffering layers built on it, the data structures below it, and a
collection of cryptographic and system utilities.  This directory holds TLA+
modules translated from its code, TLC configurations that check them on small
instances, and TLAPS proofs that hold for every size.

The modules keep the control of the code (each guard, early return, failure
and the order of effects) and abstract its data: an event record, a pointer or
a callback is a model value, a time is two small numbers, a byte of a stream is
its number.  `PROJECT.json` maps
every definition to the lines it stands for.

## 1. The system

### Components, their state and their operations

| component (source) | state | operations | modelled by |
|---|---|---|---|
| event records (`events/events.c`, `events_internal.h`) | allocated records; the record the loop holds | `events_mkrec`, `events_freerec`, end of `doevent` | `EventRec` |
| network events (`events/events_network.c`, the clock of `events_network_selectstats.c`) | `S[]` and `fds[]`, which point at each other; `nfds`, `fds_alloc`, `fdscanpos` | register, cancel, select, get, shutdown | `EventsNetwork` |
| immediate events (`events/events_immediate.c`) | one list per priority, `minq` | register, cancel, get | `EventsImmediate`, `ImmediateQueue` (promise) |
| timer events (`events/events_timer.c`, `datastruct/timerqueue.c`) | timers with deadline and delay, the queue | register, cancel, reset, min, get, shutdown | `EventsTimer` |
| heap of pointers (`datastruct/ptrheap.c`) | array of pointers, record cookies | create, add, getmin, delete, deletemin, decrease, increase, increasemin, free | `PtrHeap`, `PriorityQueue` (promise) |
| event loop (`events/events.c`) | `interrupt_requested`, position in the loop | `events_run`, `events_spin`, `events_interrupt` | `EventLoop` |
| elastic array, queue, sequential map (`datastruct/elasticarray.c`, `elasticqueue.c`, `seqptrmap.c`) | sizes of data and buffer; a window of records; an offset and a length | init, resize, append, shrink, truncate, export; add, delete, get; add, get, getmin, delete | `ElasticArray`, `ElasticQueue`, `SeqPtrMap`, `PtrMap` (promise) |
| pools (`datastruct/mpool.h`) | a stack of free objects, two counters | malloc, free, at exit | `MPool` |
| connecting (`network/network_connect.c`) | one cookie per request: addresses left, socket, registered event, timer | start, event, timeout, cancel | `NetworkConnect`, `Request` (promise) |
| accepting (`network/network_accept.c`) | one cookie per request: its listening socket and event | start, event, cancel | `NetworkAccept`, `Request` (promise) |
| reading, writing (`network/network_read.c`, `network_write.c`) | one cookie per request: the buffer and how far it is filled or sent | start, event, cancel | `NetworkRead`, `NetworkWrite` |
| buffered reader (`netbuf/netbuf_read.c`) | buffer, positions, the read or immediate event under way | wait, peek, consume, cancel, free | `NetbufRead` |
| buffered writer (`netbuf/netbuf_write.c`) | queue of buffers, the one being written, reservation, failure | reserve, consume, write, free | `NetbufWrite` |
| TLS (`network_ssl/`, `netbuf/netbuf_ssl.c`) | a read and a write request, what each waits for, three events | open, read, write, cancel, close, `poke` | `NetworkSSL`, `Request` (promise) |
| HTTP client (`http/`) | what the request has open, the response so far, how its body ends | request, the callbacks of the parser, cancel | `Http` |
| processes (`util/fork_func.c`, `util/ipc_sync.c`) | two processes, the ends of a pipe each has | fork, wait; init, wait, signal, prep, done | `IpcSync` |
| random bytes (`crypto/crypto_entropy.c`, `util/entropy.c`) | generator with its count of pieces, device | read, instantiate, reseed, generate | `CryptoEntropy` |
| AES-CTR (`crypto/crypto_aesctr*.c`) | position in the stream, counter block, key stream | init, stream; software, AESNI and ARM code | `AesCtr` |
| hashes, HMAC, PBKDF2 (`alg/sha256.c`, `sha1.c`, `md5.c`) | count, buffer | init, update, final | `Hash` |
| JSON search (`util/json.c`) | none | `json_find` | `Json` |
| option parsing (`util/getopt.c`, `getopt.h`) | registered options, position in the command line | `GETOPT`, `GETOPT_SWITCH`, `optreset` | `Getopt` |
| ciphers, CRC, key exchange, CPU support, AWS signing, other utilities | none, or a cached flag | pure functions | not modelled |

### How they interact

Clients call the register and cancel functions of the three event sources, from
the main program or from inside a callback.  A registration allocates an event
record; `events_run_internal` asks the sources in turn for a record that can
run, calls its callback and frees the record.  The three sources never call
each other: they share only the pool of records and the record under way, and
they are interleaved by the loop and by callbacks, which may do anything to
any source while the loop is half-way through the results of one `poll`.
Timers are kept in a timer queue, which is a heap whose elements are told
their position (`setreccookie`) so that they can be deleted or moved later.
`events_interrupt` may be called by a signal handler at any instruction.  The
network layers are clients of the sources: each request registers events, and
promises its own client exactly one callback or a cancellation.

The buffered reader and writer are clients of `network_read` and
`network_write`, or of `network_ssl_read` and `network_ssl_write`, which
`netbuf_ssl.c` puts in their place by function pointers.  An HTTP request
connects, makes a reader and a writer on the socket or on a TLS connection over
it, and lets its parser run on whatever the reader has.  Records of events and
of requests come from pools; the event sources keep their arrays in elastic
arrays.  Random bytes are made with HMAC, from what the operating system gives.
The parsers, the hashes and the cipher stream have no callbacks.

### What is hard

* Callbacks change the arrays a scan is iterating over.  `clearbit` moves the
  last `pollfd` into a hole, perhaps across the scan position, with results of
  the poll on board.
* A descriptor that is cancelled and registered again in between must not
  inherit the old result.
* Registration fails half-way, after one of the two arrays has been written.
* `minq`, record cookies, `pollpos` and `fdscanpos` are cached positions, each
  stale if a single update is missed.
* `fdscanpos` and the loop of `ptrheap_create` count down in `size_t` and wrap.
* Signals: one that asks for an interrupt, one that does not, each arriving
  before, in or after `poll`; `poll` restarted after `EINTR`.
* Times: carries in `struct timeval`, rounding to milliseconds, a cap.
* Order: the loop mixes three sources with strict priorities and must still
  run something whenever something can run.
* Streams come in pieces: fewer bytes than asked for, the end of a line in two
  reads, the next part of a response behind this one.  Positions remembered
  from one piece to the next are stale when the buffer moves.
* Failures half-way: a reservation, a read, a reseeding, a shrinking array that
  fails after it has changed something.
* Client callbacks that start, cancel and close what is in the middle of calling
  them: `poke`, `docallback`, `fail`.
* Sizes that wrap, and lengths about the ends of blocks, buffers, bytes and
  words.
* A process that waits for another one that was killed.

`hazards` in `PROJECT.json` lists these line by line, with the property that
would fail if the code had it wrong.

### What makes each component correct

* *Network events*: the two arrays describe the same registrations; a result of
  `poll` reaches the event it was reported for, and no other; every record is
  in one place.
* *Immediate events*: strict priority and first come, first served inside one;
  NULL only when nothing is registered.
* *Timers*: never early, earliest first, deadlines exact, resets monotone.
* *Heap*: the minimum at the root, cookies current, no element lost.
* *Loop*: the documented order of sources, at least one event per run, nothing
  after a non-zero status or an interrupt, an interrupt and an expired timer
  both make it move.
* *Connecting and accepting*: one callback per request; no socket leaked or
  closed twice; no event left on a freed cookie or a closed socket.
* *Reader and writer*: the client sees the stream, no byte lost, doubled or
  reordered, however buffers move; what is lost after a failure or a
  cancellation is known; one failure callback.
* *TLS*: one callback per request, and none left without an event.
* *HTTP*: what the callback is given is what the server sent, however it was cut
  up, within the limit; everything is released; a complete response is
  answered.
* *Arrays, queues, maps*: an integer finds its pointer until it is deleted.
* *Pools*: no object in two hands, none forgotten.
* *Processes*: a wait ends once the other process has signalled or is gone.
* *Random bytes*: never made from a generator without enough fresh entropy.
* *AES-CTR, hashes*: the result depends on the bytes, not on how calls cut them.
* *Parsers*: the value of the first member of the name, and nothing read beyond
  the end; the options the command line means.

## 2. The modules

### EventRec

`recs` is the set of allocated records and `r` the one `events_run_internal`
holds.  The pool behind `events_mkrec` is an allocator that may fail.
`doevent_end` is the return of a callback: the record is freed *after* the
callback, so a callback sees its own record still allocated.

### EventsNetwork

`S`, `slen`, `fds`, `nfds`, `fds_alloc`, `fdscanpos` are the static variables
of the file; `inited` says that `S` is not NULL, and `running` that the
inter-select clock runs.  `fds` is a function on `0 .. nfds - 1`; the entries
above are garbage in the code.  `SIZE_MAX` stands for `(size_t)(-1)`, as "no
position" and as what `fdscanpos` wraps to.  `ready` is a history variable: the
pairs of descriptor and condition that `poll` has reported since the event was
registered.

Each function is one action for success and one for each distinct failure.
`events_network_register_fails` covers the failures after
`growsocketlist` or `growpollfd` has already changed something, and keeps what
they changed.  `clearbit` is split in three operators, one per variable it
writes.  `poll` is external: `PollResults` is any set of conditions poll may
report, requested ones and errors.  Its return with 0 descriptors is the empty
report.  `events_network_get` is one action although it is a loop: between two
iterations nothing else runs.  Only the position where the scan stops matters.

### EventsImmediate and ImmediateQueue

`heads` is a sequence of records per priority and `minq` the cached lower
bound.  `ImmediateQueue` is the promise, without `minq` and without lists'
nodes: a registered event is taken in order of priority and age.
`PromisedOrder` is `Spec` of that module.

### PtrHeap and PriorityQueue

Between the start of an operation and its end every iteration of `heapifyup`
and `heapify` is a step (`heapifyup_swap`, `heapify_swap`), and `finish`,
`create_next` and `create_done` do what follows the loop.  The positions of
the array are `0 .. nelems - 1`; the allocation below is an elastic array,
whose failure leaves the heap as it was.  `val` is what `compar` compares.
A user changes the value of an element only together with
`ptrheap_decrease` or `ptrheap_increase`, as `ptrheap.h` demands.
`PriorityQueue` is the promise: a set of elements with keys, of which `busy`
says that it is being rearranged, which changes no element and no key.

### EventsTimer

A timer is its record, its deadline `tv` and its delay `tv_orig`; `since`, a
history field, is the time it was registered or reset.  `USEC` is the number
of microseconds in a second (10^6 in the code) and the arithmetic on the two
fields is the code's.  The timer queue is a set here and `Earliest` any of its
minima: `PtrHeap` shows that the heap finds one.  The clock is external and
does not go backwards; the conversion of a `double` to a `struct timeval` in
`events_timer_register_double` is left out.

### EventLoop

Composes the three sources by EXTENDS: they share `recs` and `r`.  `pc` is the
statement of `events_run_internal` that is next, and each call of a source is
one action of it.  `poll` is not atomic: `StartPoll` enters it, and it leaves
by a result, a timeout, `EINTR` or a failure, with signals and clock ticks in
between.  `Client` is any operation of any source, in the main program or in
the callback under way; `Signal` and `OtherSignal` are signals whose handler
does and does not call `events_interrupt`.

### Request, NetworkConnect, NetworkAccept

`Request` is what `network.h` promises of every request: it ends with one
callback or with a cancellation.  `NetworkConnect` and `NetworkAccept` are shown
to implement it (`ConnectOneCallback`, `AcceptOneCallback`), and so is
`NetworkSSL` (`SslOneCallback`).

`NetworkConnect` has the fields of `struct connect_cookie` (`sas` as the number
of addresses left) and, of the event sources, the registered events: `writer`,
`timers`, `immediates`.  The event modules show what is assumed of them here, an
event runs at most once and not after its cancellation.  `open` are the
descriptors in use; the kernel gives any other one out, so that a number
closed a moment ago comes back for another attempt.  `held` are the sockets
that clients were handed.  Since one callback closes a socket, opens another
one and registers new events, the functions of the file are operators on a
record of the cookie, the events and the descriptors, `tryconnect` giving the
set of its outcomes, and `Install` makes such a record the next state.  The upstream
callback is open from `docallback` to `docallback_return`, and clients start,
cancel and close in between.

`NetworkAccept` is the same for `struct accept_cookie`, without the timer.

### NetworkRead, NetbufRead

Bytes of the peer's stream carry their numbers.  `mem` is the memory of the
reader's buffer, which `network_read` writes into, so that an overlap, a hole or
a byte copied from the wrong place shows as a wrong number; 0 is memory never
written.  `callback_buf_read` is the handler of the event with every outcome of
`recv` (which is external): some bytes, the end, a try-again, a failure, and a
registration that fails.  Its parameter is what the upstream callback is given,
NULL if it is not called, and the reader's `callback_read` takes the same value
in the same step.  `R` has the reader's fields; `want`, `consumed`, `due` and
`lost` are history: what the client asked for, took, was told of, and which
bytes `recv` delivered that a cancelled or failed wait has dropped.

### NetworkWrite, NetbufWrite

The same for writing; clients number the bytes they hand over, and `out` is what
`send` accepted.  `W` has the queue and the buffer being written, `space` is the
length of a reservation.  `netbuf_write_reserve_fails` leaves `reserved` set as
the code does; if a write ends then, `writbuf` fails its assertion and `launch` is
"abort".  `WriteLoop` runs only while no space is handed out, which `netbuf.h` has
the client see to.  `poke` takes the writer and the write cookie as they are in the
middle of its caller.  `Queued`, `Before` and `Run` say which part of the stream
the queue, the buffer being written and `out` are.  `launch` is history: what the last `network_write` that
was attempted came to, or the failed assertion.

### ElasticArray, ElasticQueue, SeqPtrMap, PtrMap

An elastic array is its two sizes, in bytes of a `size_t` that wraps at
`EA_SIZE_MAX + 1`; each function is the set of its outcomes, status and array,
so that the queue can build on it.  `ElasticQueue` adds the records and the
window; `SeqPtrMap` the integers.  `PtrMap` is the promise: a function from
integers to pointers.

### MPool

`allocs` is the stack.  `malloced` and `lent` are the objects that exist and that
clients hold.  A stack that cannot be enlarged, for want of memory or because its
size would overflow, has the object freed.

### NetworkSSL

`rop` and `wop` are the two requests with `needs_r` and `needs_w`.  `poke` is
three steps (`poke_read`, `poke_write`, `poke_setup`), because client code runs
in a callback between them: it may start, cancel and, with
`ClosesInCallback`, close.  `setupevents` is the whole function; in
`setupevents_fails` a registration fails and earlier effects stay.  The SSL
library is external and answers anything.  `reported` is history, that an error
was returned to the event loop; `stale`, that the connection `poke` works on
was closed meanwhile.

### Http

A response is a sequence of units: a head or a chunk's number is one, line ends
are two, and data is numbered.  The reader is external here: it answers a wait
with the data asked for or with more.  The parser's functions call one another in
tail position; each is a step, `hpc` names the next one, and "loop" is the
return to the event loop.  `h` has the fields of the cookie, `handles` what
exists of the connection attempt, socket, TLS connection, reader and writer.
`Meaning` is the reference: what a response means, without a parser.  A failed
assertion is the state "abort".  The responses are any the constant `Responses`
has: `HttpAssumption` says only that their parts are not empty, that a kind of
response without a body has no parts, and that the limits on a head and on the
line of a chunk leave room for the shortest ones (in the code 65536 and 256
bytes).

### AesCtr, Hash

The block cipher and the compression functions are abstract: a block of key
stream *is* the key, nonce and counter that are encrypted, and the state of a
hash *is* the sequence of blocks it has absorbed.  What is left is what the code
does about them: the counter's last byte incremented in place, the re-encoding
where it wraps, the split of calls; the buffer, the count in one or two words,
the padding.  The references are a counter from the position (`KeystreamExact`)
and the definition of the standards (`HashOf`, `HmacOf`, `DerivedOf` with `UOf`
for its iterated values, which `PBKDF2_U` computes).  `HashAssumption` has the
count of bits wrap between two blocks: 2^64 bits are a whole number of blocks of
512.

### CryptoEntropy, IpcSync

`CryptoEntropy` follows a call through every system call that may fail; `since`
is history, the pieces made since entropy was mixed in.  `IpcSync` has both
processes, the ends of the pipe each has open, and a kill at any time, also
between `fork` and the first `ipc_sync_wait`.

### Json, Getopt

`json_find` and its helpers, on documents over a small alphabet with their
members kept beside their text, so that the right answer is known without
parsing.  `Getopt` models the loop of macros: a first turn that visits the
switch line by line to register the options, then one option per turn;
`optreset` may be set at any turn.  The reference of `Json` is built with its
inputs; that of `Getopt` is `Meaning`, which reads a command line word by word as
`getopt.h` describes it: a letter, a packed option, a long one, the argument in
the word or behind it, the longest option that a word may name (`LineOf`, where
the code takes the first in the switch that fits).  `GetoptAssumption` is what
`getopt_register_opt` insists on: options are `-X` or `--foo`, and none is found
when it is registered.

### Modules for TLC and for proofs

`MCEventLoop` extends `EventLoop` with a symmetry set and what cannot be written
in a configuration.  `MCTimers`, `MCConnections` and `MCComponents` are sums: a
variable `which` chooses one of their modules in the initial state and the
behaviour is one of that module, the others staying put.  `MCTimers` has timer
events and the heap their queue is made of.  `MCComponents` has network events,
arrays and maps, pools, AES-CTR, hashes, random bytes and the parsers, which do not
interact.  `MCConnections` has the layers of a connection, each with the promise of the layer
below as its environment, and two modules that share nothing with these, immediate
events and `IpcSync`.  The reader and `network_read`, and the writer and `network_write`,
are one composition each, in which the callback of the lower layer and what the
upper one does in it are one step.

The theorems are in modules of their own: `EventsNetworkProofs`,
`EventsQueueProofs` (`EventsImmediate` and `EventsTimer`) and `PtrHeapProofs`;
`EventLoopProofs`, which extends `EventLoop` and the invariants of its three
sources; `NetworkProofs` about `NetworkAccept`, `NetworkSSL`,
`NetworkConnect`, `NetbufRead` and `NetbufWrite`; `HttpProofs` about `Http`;
`ComponentsProofs` about `MPool`, `ElasticArray`, `ElasticQueue`, `SeqPtrMap` and
`Getopt`;
and `CryptoProofs` about `CryptoEntropy`, `AesCtr` and `Hash`.

## 3. What TLC checks

| run | states | what it shows |
|---|---|---|
| `timers` | 31,018 | timers: order, exactness and monotonicity of deadlines (`TimersConsistent`, `WaitEndsAtDeadline`, `NeverEarlyEarliestFirst`, `ResetOnlyIncreases`); heap: every operation restores the heap property and the cookies (`HeapConsistent`), and the heap implements `PriorityQueue` (`KeepsElements`) |
| `loop` | 880,914 | the loop with all of its sources: ownership of records, priorities, at least one event per run, stopping |
| `loop_progress` | 339,600 | liveness, with two records: an interrupt ends the loop, an expired timer makes it move |
| `connections` | 157,652 | connecting: events, sockets and cookies match, whichever of the attempt and its timer comes first and whatever fails, every address is tried, a request with a timeout ends; connecting, accepting and TLS implement `Request`; the reader and the writer keep the stream; no TLS request is left without an event; an HTTP response is what was sent and is answered; immediate events implement `ImmediateQueue`; a wait for another process ends |
| `components` | 59,709 | network events: invariants 1 to 5 of the comment in `events_network.c`, the allocation, the records and the clock (`NetworkConsistent`), 6 as the code keeps it and no result of poll lost or invented (`ReportsKept`, `GetOnlyReported`); the map implements `PtrMap`; buffers fit, objects are accounted for; AES-CTR, hashes, random bytes and the two parsers against their references |

The state counts are after symmetry reduction where the configuration says
so, which is sound there: records and elements are only compared for equality
(`MinAtRoot` and the like compare their values).  Runs with liveness properties
use no symmetry.

### Disagreements between comments and code

Seven runs state what a comment or an assertion says and TLC finds it violated.

* `doc_interrupt`: `events_interrupt` is to halt the loop "after finishing the
  current event" and to be safe in a signal handler.  A signal that arrives
  after the loop has found no immediate event (in TLC's trace, just before
  `poll`) does not halt it until some event or timeout ends the `poll`, for
  nothing looks at `interrupt_requested` in between.  The property leaves
  interrupts that the main program or a callback requests out of account: its
  condition is that none is pending there.
* `doc_select_wait`: `events_network_select` is to wait "up to ${tv} time".
  After `EINTR` it polls again with the whole timeout.
* `doc_network_get`: `events_network_get` is to return NULL "if there are no such
  events available".  When a get, or a cancellation by a callback, has made the
  array shorter, `fdscanpos` may not be below `nfds`, and the next call returns
  NULL although lower entries still have results.  The loop polls again at once,
  so nothing is lost (`PriorityOrder`, `RunsOne`), at the price of a `poll`.
* `doc_json_cut`: `json_find` is to return `end` unless there is a valid object
  that "ends before or at" it.  It returns the value it was looking for as soon as
  it has come to it, whatever follows: of `{"a": t`, which is no object, it finds
  the value of `a`.  `JsonFinds` has two parts: `WholeFinds` says what `json.h` does of
  valid objects, `PrefixFinds` what the code does with the beginning of one.
* `doc_accept_error`: `network_accept` is to call back when "an error occurs".
  If there is no connection after all and the event cannot be registered
  again, `callback_accept` returns -1 to the loop and the request is left
  without an event and without a callback.

* `http_chunk_limit`: `addbody` asserts that what it adds fits the limit, and
  "the caller should make sure".  A chunk is read with its line end, of two
  bytes, but compared with the limit alone: a body that ends less than two bytes
  below the limit fails the assertion although `http.h` has it accepted.
* `ssl_close_in_callback`: `network_ssl_close` is forbidden only while requests
  are pending.  In the callback of the last request none is; `poke` then goes on
  with a connection that was freed.  The HTTP client closes in such a callback:
  `fail` and `docallback`, which it calls there, end with `http_request_cancel`.

The `connections` run excludes the last two causes, so as to check everything
else: its responses have no chunk that exceeds the limit by its line end only,
and `ClosesInCallback` is FALSE.  It also excludes network_ssl requests whose
start fails (`StartsFail`): `network_ssl_read` and `network_ssl_write` then return
an error but leave the request recorded, so that a later poke may run its
callback, which `SslOneCallback` does not allow.

Other observations, without a run:

* Invariant 6 of `events_network.c` is off by one as it is written,
  `j < fdscanpos` for every returned event: right after a poll the last one is
  *at* `fdscanpos`.  `NonePassed` states it as the code keeps it.
* A wait of the buffered reader that is cancelled, or that fails, after
  some of its bytes were read loses these bytes: a client that waits again sees
  a stream with a hole.  `ReadInOrder` accounts for them.
* After a reservation that failed, `reserved` stays set.  The client has no space
  that it could consume, so the end of a write that is under way fails the
  assertion at the top of `writbuf` (`launch` = "abort" in `NetbufWrite`), unless
  the client frees the writer first.
* The buffer of an elastic array exceeds four times the data by up to three
  bytes, by the rounding of `alloc / 4`, and without bound when `realloc` fails
  in `elasticarray_shrink`.
* Callbacks that keep registering immediate events, or a socket that stays
  ready, keep timers from running, as the documented priorities have it.

### The bounds

* `Recs`: three records are one in each of three sources, or one held by the
  loop and two to be swapped; four in `connections`, so that a list of three and
  another one of immediate events coexist.
* `MaxFd` = 3 in `components`: three descriptors with three records let
  `clearbit` move an entry down from a position that is neither the first nor the
  hole's neighbour.  In `loop` one descriptor, with its two conditions, suffices,
  since the arrays are checked on their own; `doc_network_get` has two.
* `InitAlloc` = 1 (16 in the code) makes the allocation double twice.
* `SIZE_MAX` = 15 only has to be larger than every position.
* `NPrio` = 3 of the code's 32 priorities: below, at and above `minq`.
* Heap: six elements are the fewest for which the pointer that replaces a
  deleted one can be smaller than its new parent; three keys give ties and
  both strict orders; creation from four pointers has an inner node with one
  and one with two children.
* `USEC` = 3 or 4, `MSEC` = 2, `INT_MAX` = 9: delays below a second, of a
  fraction of a millisecond and above a second, so that carries, borrows and
  rounding all happen.
* Connections: three requests on three descriptors, so that two of them can
  exchange a closed number, up to two addresses each, which has a first and a
  later attempt fail; `MaxStarts` lets cookies be used again.  Accepting:
  three cookies on two sockets.
* Reader: three bytes, a buffer of two that has to be moved and to grow for a
  wait of three, and waits of 0 and 1 that are answered at once.  Writer: six
  bytes in writes of one to three, with buffers of two: writes that share a
  buffer, fill one, and exceed it, with three buffers in the queue.
* TLS: three requests, so that a callback starts a new one while the other kind
  waits.
* HTTP: limits of 4 and 6 with bodies below, at and above each; a header may
  have 6 units and a chunk's line 4; `READMAX` = 2 makes a body take several
  waits; `HTTP_SIZE_MAX` = 6 makes lengths overflow; up to two interim
  responses.
* Elastic array: a `size_t` of 0 to 15 with records of 1 to 3 bytes, for which
  every product and doubling that can wrap does.  Map: two pointers and integers
  up to 6 move the window past its middle twice, with holes.
* Pool: four objects, a stack of one that doubles once (`MaxAlloc`), counters
  that wrap at 4.
* AES-CTR: blocks of 2 bytes and bytes of 3 values wrap the last byte of the
  counter several times within the 20 bytes of a stream; calls of up to 7 bytes
  cover part of a block, several blocks and both ends.
* Hashes: blocks of 4 bytes of which 1 is the count, and messages of up to 14
  bytes, cover every residue and three blocks; words of 16 values carry.  Keys
  are shorter than, as long as and longer than a block.
* Random bytes: pieces of 2 bytes, reseeding after 3, calls of up to 9 bytes:
  reseeding falls into a call, between calls and into the call after a failure.
* Processes: two signals and either process waiting.
* JSON: values that contain escaped quotes, brackets in strings, and nesting;
  documents of one member, and of two of which one is simple, cut anywhere.  Options: packed, with attached
  and separate arguments, long with `=`, unknown, a missing argument, `--`; TLC
  also checks `Meaning` against what is written down for each (`ReferenceRight`).
* `MaxTime` bounds the clock.  Clients ask for no deadline beyond it
  (`RoomFor`), and the clock passes it only for a `poll` that is waiting, so
  that no wait is cut short by the bound.  `OtherSignal` keeps the restarted
  wait within it: a behaviour has only finitely many signals that restart a
  timed `poll`, which `ExpiredMakesProgress` needs (an endless train of such
  signals does keep the loop in `poll`, which is `doc_select_wait`).

### Fairness

`LoopFairSpec` assumes weak fairness of `LoopStep` and of `ClockTick`: the
thread that runs the loop is scheduled, a callback returns, `poll` returns
once it has been interrupted or has timed out, and time passes.  Nothing is
assumed of sockets becoming ready, of clients, or of signals.  Callbacks
return some status, not a particular one.

`ConnectFairness` assumes that timers and immediate events are run
(each by weak fairness) and that upstream callbacks return, which is what the
loop gives as long as it is not kept busy by network events for ever; with
`MaxStarts` requests it is not.  Nothing is assumed of sockets.

`HttpFairness` assumes that the parser runs on, that a connection attempt ends
(it has a timeout in the operating system, and `TimeoutEnds` with one of its
own), and that data the server has sent arrives.  It does not assume that the
server ever closes the connection, which is why `CompleteAnswered` is about
responses that say where they end.  `IpcFairness` assumes that the kernel wakes a
reader that can read.  Other specifications have no fairness.

### Deadlock

`timers` and `loop` check deadlock, as do the runs of the loop besides: a client can
always do something.  `connections` and `components` do not: a request that has
ended, a process that has exited and a digest that was computed may be the end of
a behaviour.  That nobody waits for ever there is what `TimeoutEnds`,
`NoRequestStranded`, `CompleteAnswered` and `WaitEnds` say.

## 4. What is proved

TLAPS proves the following for every value of the constants: any number of
records, descriptors, priorities, requests, addresses, any sizes of buffers,
records, blocks and pools.  The assumptions are the named ASSUMEs of the
modules: `NULL` is not a record, cookie or time, `SIZE_MAX` exceeds every
position, sizes are naturals, and positive where the code divides by them or
allocates them, and options are such as can be registered.  TLC evaluates each of them on the runs.  Two theorems have a
hypothesis besides, named below.

*Network events* (`EventsNetworkProofs`).  The invariants of the comment are
not inductive one by one: that `fds[S[i].pollpos].fd = i` after `clearbit` has
moved an entry needs that no other descriptor points there, and that the
moved entry keeps its results needs that the scan has not passed these.
`IInv` is their conjunction together with the typing of the arrays, the
accounting of the records, the clock and the allocation.  `Arrays` is stated
over explicit arguments, since register and cancel pass through intermediate
arrays (after `growsocketlist`, after `growpollfd`) that are never a state.
One lemma per helper (`GrowOK`, `AddPollfdOK`, `SetMaskOK`, `ClearbitOK`,
`ScanOK`) shows that it preserves `Arrays`, one lemma per action puts these
together, and the theorems are

* `NetworkCorrect`: `NetworkConsistent`, from the types, arrays, records and
  clock below;
* `NetTypeCorrect`: type correctness;
* `ArraysCorrect`: invariants 1 to 5 of the comment, within the allocation;
* `ReportsCorrect`: no result of `poll` is lost or invented, and the scan, as it
  goes down, has passed none;
* `RecordsCorrect`: every record is registered once, or held by the loop;
* `ClockCorrect`: the clock stops with the last event;
* `GetCorrect`: `events_network_get` takes only reported events.

*Immediate events* (`EventsQueueProofs`).  `IInv` says that the lists below
`minq` are empty and that nodes and lists agree, with every record in one
place of one list.  From it follow `ListsCorrect`, `NullCorrect`, and
`ImplementsPromise`: every step of the lists is a step of `ImmediateQueue`.

*The heap* (`PtrHeapProofs`).  Between operations the array is a heap; in the
middle of one it is not, and `IInv` says where it may fail.  While element `i`
moves up, every edge but the one above `i` is in order, and the children of
`i` are in order with the parent of `i` (without which the exchange would
break the edges below).  While it moves down, every edge from a position at or
above `l` is in order except those below `i`; `l` is the next position of the
loop during `ptrheap_create` and 0 otherwise.  With this go that pointers are
distinct and that every element was told its position.  `HeapStaysConsistent`
(types, heap property, minimum at the root, cookies) follows, from
`HeapTypeCorrect` and `HeapCorrect`; that the
root is a minimum uses that every position but the root has a smaller one
above it.  `HeapKeepsElements` maps the positions of the array to the set of
`PriorityQueue`: exchanges leave it as it is.

*Timers* (`EventsQueueProofs`).  `IInv` adds to the types and the accounting of
records that a deadline is the sum, carry included, of the start and the
delay, and that the start is not in the future.  The second part is what makes
`events_timer_reset` increase the deadline (`ResetCorrect`): the same delay is
added to a later start, and addition is monotone (`PlusMonotone`).  Two lemmas
translate between the fields and microseconds: `MicrosPlus` (carry) and
`LaterMicros` (comparison).  From these follow `DeadlinesCorrect` and, with it,
`TimersCorrect` (`TimersConsistent`), `NeverEarlyCorrect` and `WaitCorrect`.

*The event loop* (`EventLoopProofs`).  `LoopIInv` is `Sources` and `Control`.
`Sources` puts together the invariants of the three sources, as they are proved
above, and `Owners`: the records of the three sources are disjoint, and together
with the one the loop holds they are the allocated ones.  That part alone is not
what the theorems about the order need: `Control` says what is known at each
step of `events_run_internal`.  From the first look at the immediate events until
the timers have been looked at there is none (`Quiet`, `Found`); a wait for the
timeout that `events_timer_min` led to is without end only if there is no timer,
and otherwise, unless it was capped, ends no sooner than some timer is due
(`TimeoutCovers`, where rounding is upward), which is still so for the time at
which `poll` gives up once it blocks (`WakeCovers`); and after a failed callback or
an interrupt that was seen the loop is on its way out (`Status`).  The signal handler may run
between any two of these steps.  It gives

* `LoopCorrect` (`LoopConsistent`): one owner for every record, through all
  registrations and cancellations by callbacks;
* `RunsOneCorrect`, `BlocksCorrect`: the two promises of `events.h` about when
  the loop returns with nothing done and when it sleeps;
* `PriorityCorrect`, `StopsCorrect`, `TimeoutCorrect`: the action properties about
  the order of the sources, stopping, and `poll` timing out.

*Requests on the network* (`NetworkProofs`).  `AcceptRefines`: `network_accept`
implements `Request`.  For TLS, what holds in the event loop (`SslEvents`) is
false between the steps of `poke`: events that are needed may be missing until it
is over, but none is kept for nobody, and a request `poke` has passed and that
could run was started since, by a callback, with an immediate event.  `SslControl`
says where the connection may be gone, and `SslIds` that a request is in one slot
and, while it is called back, in none.  From these follow `SslNoneStranded` (`NoRequestStranded`)
and `SslRefines`, under the hypothesis that no start of a request fails
(`~StartsFail`): the failure path of `network_ssl_read` leaves the request
recorded (hazard at `network_ssl.c:603`).  For `network_connect`, `ConnectIInv`
has one predicate, `Owns`, over the events, the sockets and the cookies that
wait; it is stated over explicit arguments, because `tryconnect` and `dofailed`
pass through cookies that have no event yet.  `Released` is what is left when
one cookie has given up its events, and `Tried` what a chain of attempts that
fail at once leads to.  It gives `ConnectEvents`, `ConnectSockets`,
`ConnectAddresses` and the refinement `ConnectRefines`.

*Buffered reading and writing* (`NetworkProofs`).  For the reader, `Stream` says
that the window `bufpos .. datalen` of the buffer is a run of the stream that
ends with the bytes received; `Pending` counts the bytes of a read under way,
which are in the buffer and not yet in `datalen`; `MemoryOK` bounds both by the
buffer, also while it is enlarged or its data moved.  This gives `ReaderCorrect`
(`ReadInOrder`).  For the writer, the queue, the buffer being written and what was
sent are one run of the stream (`Queued`, `Before`, `Run` of `NetbufWrite`); that
the writer never hands an empty buffer to `network_write` needs `OnlyLastEmpty`
(only the last buffer of the queue may be empty, while it is reserved) and, so
that the next step leaves none behind, `HasSpace` (what was reserved is there);
`NotForgotten` says that data waits only behind a write, unless the writer has
failed, the last buffer is reserved or a write could not be started.  `WriterCorrect` (`WriteInOrder`)
has the hypothesis `0 \notin WriteLens`: `network_write` asserts that it is given
something to write (`network_write.c:159`), and a client that consumes 0 bytes of
a reservation makes `netbuf_write` hand it an empty buffer.

*HTTP responses* (`HttpProofs`).  `ResponseCorrect` (`ResponseRight`) holds for
any set of responses: any number of interim ones, parts of any lengths, any
limit, and any way in which the bytes arrive.  The argument has three parts.
What a response looks like: `LaidOut` gives the place of every head, chunk line,
line end and byte of data in `Bytes(r)`, and `LaidOutOK` proves it of the
concatenation that defines `Bytes`.  What the searches of the parser find there:
`HeadEnds` says that the search for an empty line, begun where the last one left
off, finds the end of the head that is being read and no other, or that it has
not come yet; `ChunkLine` says the same of the line before a chunk.  And where the
parser stands: `At` says for each of its functions which head or chunk of the
response `pos` is in, how much of it is taken, and that the body so far is the
data of the response up to there, with the line end of the chunk that is read
along with its last bytes.  `ResponseRight` alone is not inductive, as it says
nothing of a body that is not given to anybody yet; `HttpIInv` adds `At`, both
for a parser that runs (`Parsing`) and for one that waits (`Waiting`), and that a
parser called with an error was so because of a failure, or of the end of a
stream that says nothing of its length (`Interrupted`).  Every step of the parser
calls back, goes on to another function, or waits; a lemma for each of these
(`ToCallback`, `ToParser`, `ToAwait`) says what is left to show for it.

*Pools, arrays, map* (`ComponentsProofs`).  `PoolCorrect`: `PoolAccounted` is
inductive with the types and a lower bound of the stack (`PoolIInv`).
`MapCorrect` and `MapRefines`: `QueueOK` ties the records of the queue to the
array beneath (its size is that of the records, and no more than half of them are
in front of the window), `Window` is what the map sees, and `Without` describes
the queue after records were dropped, moved in its array or not; the loop of `seqptrmap_delete`
that drops deleted records is a recursive function, and `IsAfter` says how far it
gets.

*Options* (`ComponentsProofs`).  `OptionsCorrect` (`OptionsRight`) holds for any
switch of valid options and any command lines.  That the first option which
`searchopt` finds is the longest that fits (`SearchFinds`) is because a longer
one that fits the same word must stand before a shorter one, as it could not have
been registered behind it (`LongerFirst`).  `Meanings` is a recursive function
whose argument grows; `MeaningsExist` and `MeaningsAre` show that there is one and
that it is this.  `Ahead` is the meaning of what is left of the command line from
the place of `getopt` on, be it between words or among packed letters, and
`GetoptTurn` says that a turn takes the first of it away or ends the loop
(`LetterTurn`, `LongTurn`, `TurnEnds`).  `GetoptIInv` adds that what the loop has
jumped to, the option in hand and `Ahead` make up the meaning of the whole line,
and, for the first turn, what is registered up to a line (`RegisteredTo`,
`MissingTo`).

*Entropy, keystream, hashes* (`CryptoProofs`).  `EntropyCorrect`: `EntropyFresh`
with what is known in the middle of a call (`EntropyIInv`).  `KeystreamCorrect`: between calls the counter, the buffered block
and the position agree (`Synced`); within a call, the bytes produced so far are
those of the positions passed (`Used`, `InCall`), and the wide code is entered only
at the start of a block (`Aligned`).  How many whole blocks a call generates is
again a recursive function.  `DigestsCorrect`: a context that has absorbed the
message `m` is `Ctx` of it, with `Blocks(m)`, the count `CountOf` that wraps, and
in its buffer (`Held`) the bytes behind the last whole block.  An update keeps
this whether it ends within the block (`AbsorbLess`) or not (`AbsorbMore`), and so
does the count, in one word or with a carry between two (`TwoWordsIs`).  The
padding is that of the standard in both forms, written in place in one block or
two (`PadFits`, `PadOverflows`) and as two more updates (`PadTwice`).  HMAC keeps two contexts,
one of the key and the message and one of the key alone (`HmacCtx`), and
`HashIInv` is these facts for the context of the program.  `DerivedKeysCorrect`
is about PBKDF2 for all passwords, salts, numbers of iterations and lengths: the
iterated values of code and standard agree (`BlocksOfKey`), and cutting the last
block before joining the blocks is cutting after it (`FlattenOK`, `CutAfter`).

These recursive functions are handled without an induction theorem, whose
parameter the provers cannot instantiate: the order on the naturals is
well-founded (`NatLessThanWellFounded`) and a set of counterexamples would have a
least element (`WFMin`, lemma `LeastNat`), which the definition excludes.

Only model-checked:

* what holds eventually (`InterruptReturns`, `ExpiredMakesProgress`, `TimeoutEnds`,
  `CompleteAnswered`, `WaitEnds`): the prover does not handle fairness;
* `JsonFinds`: `Json` is written with recursive operators, after the recursive
  functions of `json.c`, and the prover loses its arithmetic with these.

## 5. Plan

All components that keep state are modelled, and the invariants and action
properties of the runs are proved but for the last one above.  What is left:

* Timers on the real heap: the set of `EventsTimer` refined by `PtrHeap`.
* `json.c` again with recursive functions instead of recursive operators, so that
  `JsonFinds` could be proved as well.

## 6. Not modelled

* AES, the compression functions of the hashes, CRC32C, Diffie-Hellman: bit-level
  functions of large inputs with published vectors; a model would repeat them.
* RDRAND, CPU feature detection: what is mixed into the generator besides, and
  cached flags.
* AWS signing, address parsing and formatting, password input, logging and the
  other utilities: text and wrappers of system calls, no state that a model
  could tell more about than a test.
* The text of HTTP requests and of header fields: what `gotheaders` finds in a
  head is part of the response given.
* The statistics of `events_network_selectstats.c`: floating point; only when
  its clock runs is modelled.
* `events_shutdown` is an empty function.
* Memory: a record is allocated or it is not; the bytes of a structure and
  their lifetime are otherwise the compiler's.
