# Verification of jkdns

jkdns is a single-threaded network server in C for Linux: an event loop over
`epoll`, a TCP listener and a UDP socket, and two services on top of them, an
echo server and an echo proxy. This directory holds TLA+ models of its core, the
TLC runs that check them on small instances, and TLAPS proofs about them for
every value of their constants. Paths below are relative to `src/src/`.

## 1. The system

| component | source | state | operations |
|---|---|---|---|
| main loop | `main.c` | none of its own | start-up, then `process_events`, `process_timers` for ever |
| epoll backend | `os/linux/backends/epoll_backend.c` | epoll registrations, the timer heap, the shared client UDP socket | add / delete / enable / disable an event, add / delete a connection or socket, one batch of events, one sweep of the timers |
| timer heap | `core/time.c` | pool of timers, array of pointers to them | create, start, add, peek, pop |
| hash table | `core/ht.c`, `core/htt.c` | slots, size, tombstones | insert (with resize), lookup, delete |
| UDP write queue | `core/udp_wq.c` | array of events, head, hash table of cells | add, pop\_front, remove |
| UDP socket | `udp_socket/udp_socket.c`, `os/linux/udp_socket.c` | readable / writable flags, read buffer, connections, write queue | read loop, write loop, arm and disarm an event, delete a connection |
| network calls | `os/linux/net.c` | none | TCP receive and send loops, UDP receive and send |
| connections | `connection/connection.c` | events, error flag, handler data | make for TCP, for UDP, as a client; close |
| listener | `os/linux/listener.c` | listening socket | create, accept loop |
| echo handler | `echo/echo_handler.c` | context: buffer and timer pointer | read, write, stop, timeout |
| echo proxy handler | `echo/echo_proxy_handler.c` | context shared by two connections | read, write, error, timeout |
| settings, logger | `settings/`, `logger/` | options; output file | parse and validate; print |

Everything runs on one thread. `process_events` waits, then calls the handler of
each reported event in turn; handlers call back into the backend to arm and
disarm events. For UDP, arming a write event while the socket is writable runs
the *whole* write loop inside that call, so that handlers of other connections
run nested in a read handler. A context points straight into the timer pool; the
heap array points there too; freeing a context only clears a flag in its timer.
A failed `CHECK_INVARIANT` aborts the process.

What is hard in it: bare pointers whose target is freed by a nested handler or by
another event of the same batch; a heap whose keys are rewritten in place; a
table of keys kept beside an array that moves its elements; edge-triggered
readiness, which is reported once; searches that end only at an empty slot.
`PROJECT.json` lists these hazards line by line, with the properties that watch
each of them.

What makes each component correct: timers fire once, only for live contexts, and
not late; the table answers as a map and every search ends; the queue hands out
armed events of live connections, in turn; a connection is armed in one direction
and never in none; a context outlives every handler that uses it; over TCP no
edge is lost, and bytes come back in order or their connection ends. The proxy
lets a client and its remote speak in turns, tells each what the other said, in
order, and arms exactly one event of their context; what the UDP remotes' common
socket points to is alive. The settings mean what the arguments say.

## 2. Modules

| module | models | how |
|---|---|---|
| `TimerHeap` | `core/time.c`, `epoll_process_timers`, the use contexts make of their timer | one step per iteration of the two sift loops, one per handler |
| `EventLoop` | `main`, `epoll_process_events` | extends `TimerHeap`: the phases of the loop and the bound of the wait |
| `TimerHistory` | nothing more of the code | `EventLoop` with a history variable that names the timers restarted in place, for the properties that survive restarts |
| `HashTable` | `core/ht.c` | slots of a table, one step per slot copied by a resize |
| `KeyedMap` | what `HashTable` promises | a function from keys to values |
| `UdpWriteQueue` | `core/udp_wq.c` | operators on a queue, and the protocol they are used by |
| `UdpEcho` | `udp_socket.c`, the UDP half of `net.c`, `connection.c`, `echo_handler.c` | extends `UdpWriteQueue`: the thread's place in the read and write loops |
| `EchoTcp` | `listener.c`, the TCP half of `net.c`, `connection.c`, `echo_handler.c`, the registrations and batches of `epoll_backend.c` | the kernel's side and the server's side of each connection, the batch as a snapshot |
| `EchoProxy` | `echo_proxy_handler.c` over TCP, client connections of `connection.c`, `net.c`, `epoll_backend.c` | extends `EchoTcp`: two ends per context, one of four events armed |
| `Relay` | what `EchoProxy` promises | per context: whose turn it is, the bytes held |
| `UdpProxy` | the same handlers with a UDP remote: the client socket of `epoll_backend.c`, `udp_socket.c`, `net.c` | extends `UdpWriteQueue`: one socket, one table key and one queue key for all contexts |
| `Settings` | `settings.c`, the start in `main.c` | one step per option of the argument list |
| `ProxyServer` | `main`, and `create_context`'s choice of the remote | composes `Settings`, `EchoProxy` and `UdpProxy` |
| `*Proofs` | theorems about the module they are named after | `EventLoopProofs` proves `TimerHeap` too, `UdpEchoProofs` `UdpWriteQueue` |
| `LeastNumber` | nothing of the program | the lemma that a set of naturals has a least element |
| `MC*` | constants of the instances | |

### TimerHeap

`heap` is `th->data`, a sequence of pool slots; `timer` and `used` are the pool;
`handle[o]` is the bare pointer `ctx->timer` of context `o`. `StartTimer` is
`start_new_timer` with `jk_th_add`, `RestartTimer` is `reschedule_timer`, which
writes into the slot and leaves the array alone, `StopContext` is `stop_echo`.
`BeginSweep`, `SweepDiscard`, `SweepFire` and `EndSweep` are
`epoll_process_timers`. `Active` holds the contexts that restart their timer.

### EventLoop

`phase` is the thread's place in `for (;;)`; `wakeAt` is when `epoll_wait`
returns at the latest, `Forever` when the timeout came out negative, which
happens if the root expired after the sweep read the clock.

### TimerHistory

Every handler restarts its context's timer, so in the running program the array is
hardly ever a min-heap. `late` collects the timers that may expire after one below
them: a timer is late from its restart until a pop leaves it at its place or its slot
is freed, and a timer that climbs past a late one makes the pair late. A cell is
`Visible` if no late timer lies above it. What is claimed is claimed of visible
timers: the order (`OrderUpToRestarts`), that a sweep sees them
(`SweepReachesVisible`), that a bounded wait does not outlast them (`NoOversleep`).
`SilentContextsEnd` draws the conclusion for the program: a context that falls silent
is ended unless its timer stays hidden below a restarted one for ever, or
`epoll_wait` got a negative timeout and nothing wakes it. Both really happen, since
others may restart at the root for as long as they like; each hypothesis of the
property is needed, the run fails without it.

### HashTable

A table is a record of slots and the code's two counters. The distance from a
key's home slot stands for the probe loop; if there is no empty slot the loop
would not end and the operation is not enabled. A resize copies slot by slot.
`ValueOf` is the abstraction: the contents of the slots, however they are
searched; the refinement then says that the searches agree with it.

### UdpWriteQueue and UdpEcho

The queue's hash table is the map `HashTable` refines: address to cell. Removing
moves the last event into the freed cell and re-inserts that event's key, also
when it is the removed event itself, which leaves a stale key behind; the module
keeps that behaviour, and `beyond` records the read of `data[-1]` it leads to.
`UdpEcho` adds the socket and the handlers. `caller` is the read handler whose
`enable_event` started the nested write loop; `fault` is the first assertion that
failed, after which nothing runs. A connection is `Deaf` when it does not read and no
cell of the queue holds its write event: a full queue refuses the event, a stale key
makes `udp_wq_add` answer `JK_OCCUPIED`, which the caller takes for success. Its
datagrams are then dropped until its timer ends it. `DeafOnlyIfRefused` says that there
is no third cause, `StaleOnlyFromTail` that stale keys have one origin. The contexts and timers of `echo_handler.c` come
and go with their connection, hence `live` stands for both.

### EchoTcp

`sock[p]` is what the kernel knows of the connection of peer `p` (bytes to
receive, bytes the peer has not taken yet, closed, reset, on epoll's ready list),
`conn[p]` what the server knows (the armed event, the context and its buffer).
`Wait` takes the ready sockets as a batch, in which each is an event or an error;
peers go on while the handlers run, so an event may meet a socket that has since
been closed or reset. The receive and send loops of `net.c` are one step each.
`Read` and `ReadStops`, `Write` and `WriteStops` are the two outcomes of
`handle_echo_read` and `handle_echo_write`; `Timeout` is `handle_echo_timeout`,
possible at every sweep once there is a context, since the heap itself is the
matter of `TimerHeap`. Epoll looks at a socket anew when an event is armed
(`Polled`) and otherwise reports changes only. A batch of the code holds 512
events; the model's is never full.

### EchoProxy and Relay

The peers of `EchoTcp` are the ends here: clients, and for each its remote, paired
by `Other`. `conn[e].buf` is the buffer for end `e` (`to_client`, `to_remote`). The
first event of a client makes the remote (`Connecting`), whose handshake succeeds
or fails later (`Established`, `Refused`). The end that is not at work is registered
with an empty mask (`"idle"`), under which epoll reports errors only.
`ProxyRead` and `ProxyReadStops`, `ProxyWrite` and `ProxyWriteStops` are the outcomes
of `do_echo_read` and `do_echo_write`; the write step is that of `EchoTcp`, as the
code is. `StopPair` is `stop_echo_proxy`: both ends go, whichever called. Three things end
the model with a fault, as they end or undo the program: an error before there is a
context (`"context"`), an event of a batch whose connection an earlier handler
freed (`"stale"`), and `make_client_connection` failing at once (`"exit"`).
`R!Spec` reads the model as `Relay`: `TurnOf` from the armed event, `HeldBy` from
the buffers.

### UdpProxy

A context is named by its remote write event. `turn` is its armed event, `idle` the
age of its two timers, which every handler restarts together. `usock` is
`client_usock`: made for the first context (`AddConn`), released by its own timer
(`SocketExpires`). `holders` are the contexts whose connection points to the
*present* socket; acting on another one is a use after release (`UseReleased`).
`entry` is what the connection table holds for the one address all remotes have,
`wq` the queue, in which they all have one key. `upc` is the thread's place in
`client_udp_ev_handler`. `ClientRead` arms the remote's write event and, as the
code does, runs the write loop within the call; `caller` is the context whose call it
is. If the send fails there, the context is freed and `udp_add_event` goes on to read
its event (`LeaveWrites`, fault `"freed"`).

The module keeps what the code does with several contexts at a time: a later
context overwrites the entry of an earlier one, the first to end deletes it for
both; a second write event is
enabled but not queued; an answer goes to whichever context the table names. So two
contexts at a time are enough to fail
`CHECK_INVARIANT(res == JK_OK, "failed to remove connection from connections ht")`
(`udp_socket.c:232`): x opens, y opens and takes the entry, y ends and deletes it, x
ends. The model takes these steps (fault `"entry"`) and stops there as the program
does. This is a defect of the code that no violation run repeats; the run
`proxy_server` reaches it as it does the other faults, and its properties are those
that hold up to it. `SocketHoldsLive` and `AnswerHasSocket` say what the socket
points to through all of it. `LosesOnlyToAnother` says that contexts are harmed by
each other only: one that has its entry, and its place in the queue while it is to
write, keeps them unless another begins, ends or has the place.

### Settings and ProxyServer

An entry of the argument list is the name of an option and the text behind its `=`;
texts are known by the number `strtoll` reads in them; a port keeps its low 16 bits
(`PortSize`). `ParseArg` is one round of the
loop, which consumes one entry or two. `WellFormed` and `Meant` say what a list means
without walking through it, and `SettingsAsGiven` compares. `Start` and `StartFails`
are the rest of `main` up to the loop; every failure there ends it. `ProxyServer`
then lets one of the proxies run, by `settings["remote-use-udp"]`.

## 3. Runs

| run | instance | shows |
|---|---|---|
| `timer_heap` | the loop with three contexts, two restarting; pool of 4; clock to 3 | pool and array agree, pointers are never stale, no timeout after stop, the pool does not run dry before the array; order, sweep and wait are right for all timers that no restarted one hides |
| `timer_heap_order` | violation | one restart in place breaks the heap order |
| `timer_heap_exhausted` | violation | disabled timers fill the heap and a new context gets no timer |
| `event_loop` | two contexts, both restarting; pool of 3; an endless clock | a context that falls silent ends, but for the two ways the code loses a timeout |
| `hash_table` | four keys, homes at the last slot, the first and the third; capacities 4, 8, 16; two values | the table refines the map; searches end; counters and contents agree |
| `udp_echo` | four peers, queue of 3, eight bytes of buffer, datagrams of 0 or 1 byte | live events, one direction, write-loop CHECKs, packing; connections go deaf by refusal only, keys stale by one removal only |
| `udp_echo_last` | violation | `udp_wq_remove` on an empty queue |
| `udp_echo_buffer` | violation | the read buffer runs out of room |
| `udp_echo_freed` | violation | a read handler goes on with a context its nested write loop freed |
| `echo_tcp` | two peers, a buffer of 4, a send buffer of 2, four bytes per connection | no lost wake-up, no stale event, bytes in order, no false close, every byte is read |
| `proxy_server` | 1597 argument lists of up to six entries; TCP: a client and its remote, a buffer of 4, a send buffer of 2, four bytes per end; UDP: three contexts, timers of 2 and 4 ticks, three datagrams | the settings are as given; turns, refinement of `Relay`, one armed event, no false close, every client is heard; the shared socket points to live contexts, which only others deprive of it |
| `echo_tcp_error` | violation | a connection reset before its first byte is stopped without a context |

Bounds. `Capacity` 3 or 4 gives a heap of three levels, both children, and a pool
with reuse; more slots repeat these shapes. The clock bound is a guard of `Tick`
and of the restarts; in `event_loop` it would let restarts end for want of clock, so
there `MCEventLoop` moves the origin of time forward between two sweeps (`Rebase`):
the code only compares times, and what is past stays past. Capacity 4 lets one deletion trigger a resize,
8 is the first in which a tombstone is reused, and 16 is reached by a resize of a
table that holds tombstones and wrapped chains; `MaxCapacity` is a guard of
`InsertResizes`. In `UdpEcho` the only counter is the read buffer, which bounds
the datagrams of a behaviour at eight, enough for two rounds of every peer; the
queue is one cell short of the peers, so that it fills up and refuses the fourth (the
code has 128 cells and any number of peers). In `EchoTcp` four bytes fill the buffer
exactly, three do not and exceed the send buffer, so that overflow, partial writes
and rounds of several reads all occur; a peer that reconnects starts anew, and two
peers give a batch of two events and the listener. In `ProxyServer` the same sizes
hold for each end; one client is enough, since contexts over TCP share nothing but
the thread, which two peers of `EchoTcp` already contend for. Over UDP, where
contexts do share, three of them let one overwrite, one delete and one find the
entry missing. A tick is 2.5 s: `ECHO_TIMEOUT` is 2 and `CLIENT_USOCK_TIMEOUT` 4; the
second timer of a context, of 6 s, never comes first and is not there. Timers are
swept before time goes on; what the heap makes of that is in `TimerHeap`. The
socket's read buffer takes three datagrams until the CHECK in `udp_recv` fails, as
in `UdpEcho`. The argument lists are all of up to three entries and all
continuations, by up to two, of a list that starts the proxy.

Deadlock. The timer heap, the loop and the echo models stop by design: when the
clock reaches its bound or after a failed assertion. The hash table is checked
for deadlock.

Fairness. `SilentContextsEnd`, `BytesAreRead` and `ClientIsHeard` need it. In `EchoTcp` the thread
runs (`WF(Thread)`), and peers take what is sent to them (`WF(Take(p))`); a peer that
does not keeps its bytes in the buffer until the timer ends the connection, which
the model allows but does not promise. In `EventLoop` the thread is a loop without
blocking calls but `epoll_wait`, hence `WF(ThreadStep)`; time passes, hence
`WF(Clock)`. Nothing is assumed of the traffic: that it may break a wait without end is
a hypothesis of the property, where it can be read.
`ClientIsHeard` waits for the client's turn, so beside the thread and the peers'
`Take` it needs a remote that accepts or refuses (TCP's handshake ends one way or
the other) and that says something or closes when it is listened to (`Answer`); a
remote that stays silent is ended by the context's timer, which the model allows
but does not promise.

## 4. Proofs

The theorems are checked by TLAPS for every value of the constants, from the
named assumptions of the modules: capacities positive (that of the hash table a
power of two, as `ht_create` demands), `NULL` no integer and no member of the other
sets, delays and hashes natural; what the socket finds by an address is one connection
(`PeerAssumption`). No theorem has assumptions beyond these. Every safety invariant and action property of a passing
run, and each of the two refinements, is the statement of a theorem. That each module that
composes others takes their steps or leaves them alone is a lemma where it is used.

* `EventLoopProofs`, the pool. The invariant is the conjunction of the type, of pool
  and array agreeing, of the handles, and of two facts they need: the sift loops only
  permute the array, and a sweep's root is a used slot. `PoolSuffices` adds a
  counting argument: an injection from the positions of the array onto the used
  slots, so that a full pool means a full array.
* `EventLoopProofs`, the order (`OrderHoldsUpToRestarts`, `SweepsReachVisible`,
  `LoopNeverOversleeps`), with any restarts in place. A restart makes its timer late, so
  that nothing is claimed any more of the cells below it; and it moves the expiry away, never
  nearer, since a context always uses the same delay (`NotAhead`), so that the cell
  above it stays in order. `OrderUpToRestarts` speaks of the array between operations, so the
  invariant says what is in order while a loop runs: while a timer climbs, all but the
  cell it stands on against its parent; while one sinks, all but that cell against its
  children, which are compared with its parent instead. What a climbing timer passes may be
  late, which is why the pair becomes late with it. That the root is no later than
  any visible timer, on which the end of a sweep and the timeout of `epoll_wait` rely, is
  an argument along the parents: of the visible cells that are earlier than the root
  take the one with the least index; its parent is visible and earlier still.
  `LeastNumber` has that least index.
* `EventLoopProofs`, the loop. Each step of the loop is a step or a stutter of
  `TimerHeap`, so the theorems above carry over; the type invariant adds that a sweep
  runs in its phase only.
* `HashTableProofs`, for every hash function, set of keys, and initial capacity. The
  invariant (`HtInv`) says of each table that no key is in it twice, that no empty slot
  cuts the way from a key's home to its entry, that `tombstones` is exact and `size`
  not behind (`Sound`); that the two thresholds leave an unused slot (`Roomy`); and of
  a resize that the copy holds what the first `next` slots hold (`IsCopy`). The
  checked properties alone are not inductive: an insertion at a tombstone keeps
  entries reachable only because the ways to them are unbroken, and a search ends
  only because of the counters. The empty slot nearest to a key's home, where its
  search ends, is again a least element. One lemma writes a slot (`RewrittenSlots`),
  from which insertion, deletion and copying follow. `TableImplementsMap` is the
  refinement of `KeyedMap`: a call is a step of the map, a round of the copying
  loop a stutter. The bound `MaxCapacity` is only a guard, so the theorems hold for
  any.
* `UdpEchoProofs`, the queue. Packing is inductive only together with the head and the
  type: a removal is safe because the table names the right cell for every event
  that *is* in the array. It says nothing about other keys, which is why the stale
  keys do not break it.
* `UdpEchoProofs`, the socket. Each step of the socket is a step or a stutter of the
  queue's own specification (`WqSpec`), hence the queue's theorems hold of it; the rest
  of the invariant ties the queue, the armed events and the live connections
  together. For `UdpDeafOnlyIfRefused` one lemma each says whom an addition and a
  removal leave in the queue; for `UdpStaleOnlyFromTail`, that all but one of the
  queue's operations keep its table exact (`Exact`).
* `EchoTcpProofs`. Connections share no state, so the invariant is one formula on a
  peer's socket, connection and event, and a step is shown to keep it for its own
  peer. Beyond the checked properties it says that an event in the batch is never
  spurious: what made the socket ready stays until the handler runs. From that
  follow `NoFalseClose` and, with a partial write filling the send buffer, that no
  wake-up is lost. The bytes owed are a function of two counters, with a lemma for
  receiving more of them and one for sending a front part.
* `EchoProxyProofs`. The invariant is one formula on an end and what it must know of
  the other end of its context: their counters and buffers agree (`Counted`), exactly
  one of the two is at work (`Paired`), and an event in the batch is not spurious
  unless the other end's handler, which is over, has freed the connection
  (`Founded`). The first property alone is not inductive: that a buffer is empty when
  the turn passes follows from both the counters and the armed event. Refinement of
  `Relay` comes last, one clause for each action.
* `UdpProxyProofs`. All events have one key, since the key of `udp_wq` is
  the connection's address, the remote's for every context (`UdpProxyAssumption`), so the queue is empty or
  holds one event. A context that waits for an answer is at least as old as the last
  use of the socket (`UsedSince`); as its own timeout is the shorter one, it ends
  before the socket is released. `UdpProxyLosesOnlyToAnother` holds for any number of
  contexts at a time; it goes through the actions: each leaves the entry and the place in
  the queue of a context alone, ends it, or is another's doing.
* `ProxyServerProofs`. The loop over the arguments has read, of the entries before
  `at`, what they mean, and no word without its option. A step of the program is a step
  or a stutter of either proxy, so the theorems about them are theorems about it.

Model-checked only: the liveness properties (`SilentContextsEnd`, `BytesAreRead`,
`ClientIsHeard`), since the prover has no rule for fairness with `ENABLED`; and the
properties the findings refute, of which there is nothing to prove.

## 5. Findings

See `findings` of `PROJECT.json`: the heap order lost by restarts in place, the
exhausted heap, the re-inserted key of `udp_wq_remove`, the read buffer that only
shrinks, the context freed under its read handler, and the error that arrives
before there is a context. Two more defects show up in the models as faults without a
run of their own: the CHECK of `udp_socket.c:232` that fails with two contexts over UDP
(`UdpProxy` above), and the event that goes stale when one of a context's ends fails
in the batch of the other (`StaleEvent`).

## 6. Not modelled

The logger (output only) and the printing of the settings. Failing `calloc` is
modelled in the hash table, where the program goes on; elsewhere it ends the
process or, in `create_context`, the client's connection (`abort_echo_proxy`), and is
left out. The hash function is a constant: nothing depends on which one it is.
Clients of the proxy that come over UDP: they would need the server socket of
`UdpEcho` and a remote in one model, three state machines deep. The contents of the
UDP proxy's buffers, in particular what a send that would block leaves in them: it
returns -6, which `do_echo_write` subtracts, so later sends carry bytes beyond the
message; the model keeps the armed and queued event. Addresses: one that
`fill_address` cannot read, or a remote of IPv6 on the IPv4 sockets, ends the process at
the first client, as `ConnectFails` and `OpenFails` do. `epoll_ctl` and `fcntl` calls
that fail. Signals, but for an interrupted `epoll_wait`. In particular `tcp_send_buf` sends
without `MSG_NOSIGNAL` and no handler is set, so a send on a connection that was reset
can end the process with `SIGPIPE`; the models let the call return an error.
A failing `accept` changes no state but its own descriptor. The code behind `main`'s
endless loop, and functions without a caller (`udp_add_connection`, `close_logger`).

## 7. Plan

1. Core (done): timers, loop, table, queue, UDP echo, TCP echo.
2. Proxies and settings (done): `EchoProxy`, `Relay`, `UdpProxy`, `Settings`,
   `ProxyServer`.
3. Proofs (done): the eight modules of section 4.
4. Timers with restarts in place (done): `TimerHistory`.
5. What is left: the queue's table as an instance of `KeyedMap` rather than a function
   of its own; UDP clients of the proxy.
