# A TLA+ verification of tinypipewire

tinypipewire is a C library over PipeWire with two kinds of handle. A *stream*
captures or plays one medium; a *filter* is a node with any number of audio,
video, signal and event ports that one callback processes together. This
directory models the parts of the library where threads, memory and the server
meet, and the two programs of `src/utils/`; it checks the models with TLC and
proves what matters most with TLAPS.

Run the tools inside this directory:

    tlc -workers 2 -config FilterCycle.cfg MCFilterCycle
    tlapm FilterCycle_proofs.tla

`PROJECT.json` lists every run, maps each definition to the lines it models,
and gives, for every checked property, a mutation of the model (`Name_Bug` next
to `Name` in a module) that the property catches.

## 1. Inventory

### Threads

- *Application threads* call the API. Most calls take the handle's loop lock
  for part of their work; waiting (`timed_wait`) releases it.
- The *loop thread*, one per handle, receives the server's messages and runs
  the library's handlers and the error callback, always with the loop lock held.
- The *data thread* runs `pwf_filter_on_process()` / the stream's process
  function in real time. It never takes the loop lock. Staging only tries
  `push_lock`; a callback that pushes to an input port itself waits for it
  (`pwf_filter_port.c:97`, `pwf_filter_event.c:290`).
- The *server*, the other nodes and the session manager are external.

### Components

| component | state | operations | hard behaviour | correct when |
|---|---|---|---|---|
| filter cycle, push staging (`pwf_filter_process.c`, `pwf_filter_port.c`) | two blocks per port that a push and the cycle swap, `pushed_pending`, `held*`, `current_dmabuf_buf`, `update_seq`, the pool | push from any thread, stage, callback, requeue, hold, stop | trylock, pointers kept across cycles, small pools | data is whole, current, delivered once; no buffer lost or returned twice |
| event ports (`pwf_filter_event.c`) | pending and delivering arrays, decoded list, heap copies, output capacity | push input, push output, decode, encode, free | arrays swapped with stale entries, ownership of copies, a size limit per cycle | input is a FIFO delivered once; what was accepted is published; each copy is freed once |
| filter lifecycle and links (`pwf_filter.c`, `pwf_filter_port_link.c`) | state, one link proxy per input port, `loss_reported`, a wait record | start, stop (drain), link, unlink, handlers | state read without the lock, two signs of one loss, timeout against a late answer, calls from the error callback | a failed link leaves nothing, a loss is reported once, calls return |
| stream links (`pwf_stream_routing.c`) | one heap set of links, pointers into the registry | link, unlink, device removal | waits in the middle of a loop over borrowed pointers | all channels or none, gone with the device, paired in order |
| core and registry (`pwf_pw_core.c`) | pending sequence number, result, node and port arrays | connect, bind, sync, handlers | late answers, unrelated errors, array compaction | success means everything sent before arrived; the cache mirrors the graph |
| video enumeration (`pwf_video_enum.c`) | results collected on the caller's stack; a sorted list of rates per format | query, insert a rate | shares the sync and its errors; a full list | success means complete, each format with its fastest rates |
| stream lifecycle, capture, playback (`pwf_stream.c`, `pwf_stream_playback.c`, `pwf_buffer.c`, `pwf_rate_limit.c`) | state, DMABUF and drain flags, buffers, counters | configure, start, stop, drain, destroy, fill | two signs of a loss, drain timeout, teardown that calls handlers, clamp/floor/silence | callbacks run only when they may, a full cycle always goes out |
| byte ring of `pwf_stream_loopback` | cells, two positions, a count of dropped bytes | write (capture thread), read (playback thread) | no lock, positions read late and wrapping, overrun and underrun | no cell is shared, no byte is lost uncounted, channels stay in place |
| `pwf_record`, `pwf_stream_loopback` (`src/utils/`) | the file and its header, the ring, the contexts, the streams they opened | main, callbacks, signals | every call may fail, a signal at any step, callbacks that outlive a stop | callbacks have their data, nothing is left, the header is right where the file took everything, it ends |
| format setters and tables (`pwf_audio_format.c`, `pwf_video_format.c`, `pwf_spa_format.c`), DMABUF planes, logging | tables, a sink | set, look up, emit | none to speak of | — |

They interact as follows. A filter or stream owns a core connection and a
registry; `link` calls look up a target in the registry, which the loop thread
updates. The registry calls the stream back when a port appears or a node
leaves. Pushes and the cycle share `push_lock` only. A stop pauses the data
thread first, then requeues what hold retained, then drops the links. The
error callback runs inside a handler of the loop thread and may itself call
stop, start and unlink. The programs of `src/utils/` use the streams through
their two callbacks only; the ring is the one piece of memory that two data
threads share.

The hazards found in these components, each at its line and with the
properties that watch it, are in `PROJECT.json`.

## 2. Modules

| module | models | composed with |
|---|---|---|
| `PushMailbox` | abstract: a mailbox of one value per input port | implemented by `FilterCycle` |
| `FilterCycle` | the cycle over audio, video, signal ports, pushes, hold, DMABUF, stop and restart | — |
| `EventQueue` | abstract: a FIFO per input event port | implemented by `FilterEvents` |
| `FilterEvents` | event ports in the same cycle | — |
| `FilterLink` | filter lifecycle with destruction, links, error callback | — |
| `StreamLink` | a stream's links over the registry's array of ports | — |
| `VideoFormats` | what an enumerated format object says, and its list of rates | extended by `CoreSync` |
| `CoreSync` | round-trips, binding, the node cache, format queries | — |
| `StreamPromise` | abstract: when a stream calls its two callbacks | implemented by `Stream`, extended by `Clients` |
| `Stream` | one stream's configuration, start, drain, stop, destroy and loss, with its capture or playback cycle and the log limiter | — |
| `ByteFifo` | abstract: a bounded queue of bytes | implemented by `LoopbackRing` |
| `LoopbackRing` | the lock-free ring of `pwf_stream_loopback` | — |
| `Clients` | `pwf_record` and `pwf_stream_loopback` over streams that keep `StreamPromise` | extends `StreamPromise` |

`MC...` modules hold the instances that need definitions. `..._proofs` modules
hold the theorems of the module they are named after.

### FilterCycle

One number stands for the bytes of a push or frame; `size` and `pts`, which the
code copies next to the pointer, carry the same number. `mem[p]` holds what is
in each block and buffer of port `p`; a block being copied into is `Torn`, so
reading the wrong block at the wrong time shows. `pushed_data` and
`delivered_data` are the two heap blocks, named by address as in the code;
`realloc` is abstracted to overwriting in place.

`PushLock`, `PushCopy`, `PushDone` and `PushNoMemory` are
`pwf_filter_push_port_data()` by application threads or by the callback.
`CycleBegin`, one `Stage...` step per port, `StageEnd` and `CycleEnd` are
`pwf_filter_on_process()`. Its four ways to stage an input are `StagePushed`,
`StageFrame`, `StageEmptyFrame` and `StageNothing`. A failed `calloc` (more
than 8 ports) skips the cycle, which is a stuttering step.
`GraphFill` is the graph, external. `Stop` requires `cyc = "idle"`:
`pw_filter_set_active(false)` pauses between cycles, on which `pwf_filter.c:325`
relies.

An output buffer without data is dequeued and forgotten at
`pwf_filter_process.c:172`. `PoolConserved` therefore excepts output ports in
`UnmappedPorts`. For every other port it demands the whole pool.

### FilterEvents

`array[p]` keeps the entries of the two arrays, stale ones included, so that a
wrong length delivers or frees an old event. An event's number names the heap
copy of its payload; `heap` is the set of allocated copies. `Decode` goes
through the controls as `pwf_filter_event_decode()` does and keeps, control by
control (`Decoded`), known kinds and unknown control types (as
`PWF_EVENT_UNKNOWN`), and not malformed bodies. `EncodedSize` is additive, with
`Sequence0` for the frame of the sequence. `SizesAssumption` says that a buffer
has room for an empty sequence. Output events are pushed from the callback
only, as `pwf_filter.h:368-371` requires; the code also accepts them elsewhere,
where the next cycle forgets them (`pwf_filter_process.c:95`). Running out of
memory for the decoded list is not modelled; running out of it in a push is
(`PushNoMemory`, `PushOutputNoMemory`).

A push to an input port is `PushLock`, then `PushStep`. The callback makes it on
the data thread: with `PushCall` it begins to wait for `push_lock`, and while
`push_waits` says so it neither does anything else nor ends its cycle. Another
thread that waits is only the guard of `PushLock`, as nothing depends on when it
began to. `FilterCycle` has the same guard for all callers, since it claims
safety only and waiting adds no step.

### FilterLink

`inbox` is what the server sent and the loop has not handled. `link` and `fed`
are the server's side of a port: the filter's own link, and links of other
programs. A port has a format while either carries one. A message keeps what
caused it (`by`), which only the properties read. A released proxy has no
listener any more, so its messages are dropped, one by one (`Heard`). A link
that fails or whose device leaves is reported as `down` and, if the port loses
its format, as `cleared`, in either order.

Each step of an application call is split where the code takes or drops the
loop lock: `LinkCall` (checks), `LinkCreate` (under the lock), `LinkWake` or
`LinkTimeout`; `StopCall`, `StopDrain`, `StopLocked`, `StopRelease`;
`StartLocked`, `StartReturn`, as `RUNNING` is written after the lock is
dropped. A destroy is `DestroyCall`, which tests the state without the lock;
`DestroyStop`, the test of its own that the `pwf_filter_stop()` it calls makes,
and the stop's steps or the release of the links; then `DestroyRegistry` and
`DestroyTeardown`, with the staging memory freed between them (`freeing`), not
under the lock. The error callback may run between any two of these steps and
may stop the filter, start it, or unlink a port. `active` says whether the node
is active, hence whether `process()` may run. `restarted` records that the
callback started the filter after destroy's last look at its state
(`StateIsRead`); section 5 says what that leads to. Finding the target is one
nondeterministic outcome. Drain and timeouts may end at any moment. `link_lost`
is written and never read, so it is left out. The error callback is registered.

### StreamLink

Memory is explicit. `ports`, `n_ports` and `block` are the registry's array,
with the entries behind `n_ports` that compaction leaves, and the number of the
current allocation. `own` and `peer` are pointers: a block and a position.
`Deref` yields what is there now, or anything once the block was reallocated.
`set` is the heap set of links; freed, it reads as anything and forgets writes.
`orphans` are proxies that are alive but counted by no set.
`ListPorts` inserts each port of the node behind the last one listed whose
ordinal is not higher (`NotHigher`, `Inserted`), as
`pwf_pw_registry_list_ports()` does; a port's ordinal is its place in `OwnPorts`
or `DevicePorts`, which `StreamAssumption` says are sequences of distinct ports.
`OnPortMissed` is the announcement of a port for which there is no memory
(`pwf_pw_core.c:183-184`, `190-191`): it is in the graph (`missed`) and not in
the array, until its removal passes over it. That a node cannot be recorded is
one of the causes of `LinkRefused`. `RegistryMirrorsGraph` says that the list
names exactly the node's live ports that could be recorded, each once and by
ascending ordinal, whatever the array went through.

`LinkCall ... CountLink` are `pwf_stream_link()`, cut where the lock is taken
or waited on; `ReleaseRead`, `ReleaseClear`, `ReleaseDestroy` are
`pwf_stream_release_links()` on the application thread, `DestroySet` also on
the loop thread. Abstractions: one application thread; the
registry is bound already; a port is announced and removed at most once and ids
are not reused; own ports stay; the device's ports go before its node; a link
comes up only between live ports of the two nodes. Each unlocked list of ports
is one step, which is coarser than the code. Start and stop are one step each. A
second free of the set, possible when an unlink races the device's removal,
leaves the modelled state alone. The limit of 64 channels and the surplus
message are left out.

### CoreSync, VideoFormats

`requests` and `replies` are the two directions of the connection, in order.
`Sync` is `pwf_pw_core_sync_locked()` up to its wait, behind the requests of the
call it belongs to; `Wake`, `Timeout` end it. `OnDone`, `OnError`, `OnGlobal`,
`OnGlobalRemove`, `OnParam` are the handlers. A single thread calls: two would
add the same listener hook twice, which has no outcome to model. An error may
be that of any request, as the code does not look at its id or sequence number.

A format object is a record of what `pwf_video_enum_on_param()` reads of it: a
pixel format or none, and two SPA choices with their values. `Parses` says
whether it is counted, `Info` what is stored, `InsertFramerate` is the sorted
insertion into `fps[]`, `ParseFramerates` the loop around it. `IsFastest` says
what the list is for, by sets and order, from the header's "highest first; a
device offering more keeps its fastest rates". `MCCoreSync` states as an
assumption, which TLC evaluates, that every list of up to four values is parsed
so; section 4 proves it for every list. `EnumIsComplete` uses `IsFastest`.

### Stream

`direction` is chosen at the start. `pw` is the `pw_stream`: its state, whether
it is active, whether it has a format, and the kind of memory its buffers have.
Its changes are external, as is `drain`, the flush under way. Calls are cut like
those of `FilterLink`; a setter is `SetConfig` (which clears `use_dmabuf` before
it takes the lock), `Replace`, `Connect` or `ConnectFails`, and `ConfigReturn`.
`DestroyPw` calls the handlers, as `pw_stream_destroy()` does, for a cleared
format and for the disconnection. `Destroy` and `DestroyStop` are the two tests
of the state in a destroy, `pwf_stream.c:360` and `328`. `OnStateChanged`,
`OnFormat`, `OnFormatCleared`, `OnDrained` are the handlers. A capture cycle is
`CaptureBegin`, `GetPlanes`, `CaptureEnd`, or `CaptureSkip`; a playback cycle is
`PlaybackBegin`, `PlaybackEnd`, or `PlaybackUnusable`. `content` says of each
byte of a queued buffer whether this cycle's callback wrote it, silence did, or
nobody; for `PlaysWholeFrames` it also keeps what the device asked for (`asked`)
and how many whole frames the callback reported (`frames`).

The headers' rules are assumed: a format is set while the stream is not
running, and the stream is not configured or destroyed while its error callback
runs. The error callback does not start a stream that is being destroyed: it
would be reported lost again by the destruction. Time passes only while the
stream processes, as nothing else reads it; a tick is one frame. Targets,
roles, links and the pts are left out, and a format whose frame size is unknown,
which no setter accepts.

`Seen` maps a stream to `StreamPromise`: what the program that opened it knows.
The promise is weaker than one might expect, and no weaker than the code: a
stream whose loss was reported is not running but may still be active, so a
stop returns at once and data callbacks may begin afterwards.

### LoopbackRing

Every load of the other side's position, every byte and every store is a step
(`WriteLoad`, `WriteByte`, `WriteStore`, `ReadLoad`, `ReadByte`, `ReadStore`); a
load meets the last store, or still the one the load before it met. Positions
are counts; what the code computes from them is computed modulo `Wrap`, its
`SIZE_MAX + 1`. Captured bytes are numbered, so that a byte in the wrong place
shows. `RingAssumption` holds because `main()` makes the ring one second of
frames long (`pwf_stream_loopback.c:322`) and a captured buffer has whole
frames. A playback cycle may ask for any number of bytes: without a request it
is its whole region (`pwf_stream_playback.c:90-95`). The library then floors
what the callback reports (`38-39`), so the bytes of a partial frame have left
the ring and are not played; `cut` counts them.
`WrapAssumption` is what the code needs and does not state: either the positions
never wrap, or the capacity divides their range.

### Clients

`main()` is `todo`, the list of calls it has left; `Setup` makes it from the
command line, with a round of calls for every video stream (`EachVideo`). A
failing call replaces it with the cleanup of its path, as the
code's `goto` and returns do. `memory` is what exists of the file, the ring and
the video contexts; callbacks and signals come between any two calls. The
streams take the steps of `StreamPromise` and no others, one per handle.
`bytes_written` and the header's two sizes are modulo `Width`; `HeaderSize` is
the 36 that the first one adds. The sizes and formats an option selects are left
out unless the header or the acceptance of the options depends on them, and so
is everything printed.

Between `fwrite()` and the file lies stdio. `buffered` is what it has yet to
write, `written` what the file has got. At each call it may write any part of
what it has, and a write may fail (`Stdio`), with what it was to bring then lost;
`failed` remembers that. `Patch` is `fseek()`, whose result the code ignores, and
the second header: it replaces the first one if the buffer could be written out
and the output is a file, and goes behind the data otherwise, as on a pipe.
`Close` writes what is left, and its result is ignored too.

## 3. Runs

| run | instance | shows |
|---|---|---|
| `FilterCycle` | 3 ports: holding DMABUF input whose buffers may come without data, plain input, output; 2 threads and the callback pushing; 2 buffers per port; 3 numbers | `DeliveredIsWhole`, `HoldPresentsLatest`, `PoolConserved`, `SourceNotStarved`, `StagedCycleTakesAll`, `SeqCountsFresh`; refinement `PushesAreAMailbox` |
| `FilterEvents` | an input whose buffers may be unmapped, an output; 2 threads and the callback; 3 events of 2 sizes; buffers for none and some of them | `PayloadsOwnedOnce`, `IncomingAlive`, `AcceptedFits`, `PublishesAccepted`, `EventPoolConserved`; refinement `EventsAreAQueue`; liveness `CycleCompletes`, `EventDelivered` |
| `FilterLink` | 2 input ports, one also fed by others; 3 offers | `NoPartialLink`, `DestroyedIsQuiet`, `ReportedOncePerSource`, `LossIsReported`; liveness `CallsReturn` |
| `StreamLink` | stereo stream and device, one other port, capacity 3; memory may run out | `RegistryMirrorsGraph`, `NeverHalfWired`, `LinksNeverDangles`, `LossIsTold` |
| `CoreSync` | 2 nodes; two lists of format objects; 2 rates and 2 formats fit; 4 round-trips, 1 unrelated error | `SyncDelivers`, `EnumIsComplete` |
| `Stream` | both directions; 2 buffers of 3 bytes, frames of 2; requests of none, 1 and 2 frames; 3 cycles, 2 ticks, an interval of 1 | `ReportsAreLosses`, `PlaysWholeFrames`, `BuffersReturned`, `LogsAreAccounted`, `DrainedMeansPlayed`; refinement `KeepsPromise` |
| `LoopbackRing` | 4 bytes, frames of 2; chunks of 2 and 6, cycles of 2, 3 and 4; 18 bytes; positions modulo 8 | `CellsNotShared`, `BytesAccounted`, `ChannelsStayInPlace`; refinement `RingIsAFifo` |
| `Clients` | both programs, every accepted and refused command line, output to a file and to a pipe, writes that fail; 2 video streams; buffers of 1 and 2 bytes, 5 in all, a header of 1, fields that hold 0..3 | `CallbacksHaveData`, `NothingLeft`, `HeaderTellsLength`; liveness `EndsWhenTold` |
| `FilterLinkStop`, `StreamLinkLeft`, `StreamLinkPairs`, `CoreSyncBind` | as above or smaller | violations, section 5 |

**Bounds.** In `FilterCycle`, `MaxValue` = 3 lets a push overtake another, a
frame of the graph come between two pushes, and a third content arrive while
the first is held. Two buffers per pool are what hold needs: one retained, one
on its way. Two threads contend for the lock while the callback pushes too. An
output pool whose buffers come without data is in no run; the theorem
`PoolIsConserved` covers it. In `FilterEvents`, `MaxEvents` = 3 fills an array,
swaps it so that stale entries lie behind live ones, and still rejects an event.
`MaxOffers` = 3 is a link, a re-link and a link of another program.
`InitialCapacity` = 3 makes the third of five ports reallocate the array.
`MaxSyncs` = 4 is connect, a bind that times out, and two round-trips after it,
so a late answer meets a later sync; the sources of `MCCoreSync` have repeated
rates, more rates than fit, and objects that are not counted. In `Stream` a
region of 3 bytes holds a frame and a rest, a request is absent, fits or is
above the region, and three cycles over two ticks log, suppress and announce.
In `LoopbackRing` a chunk may exceed the ring, a cycle of 3 takes half a frame,
and 18 bytes wrap the positions twice and more. In `Clients` a recording of 4
bytes or more overflows the field of `Width` = 4, and one of 3 the field that
adds `HeaderSize`. Buffers and threads are symmetric in `FilterCycle`, buffers in
`Stream`; these runs have no liveness property.

**Deadlock.** Filters, streams and round-trips may come to rest (a handle is
destroyed, ports and devices come and go once, round-trips are bounded), so the
configurations of `FilterLink`, `FilterLinkStop`, `StreamLink`,
`StreamLinkLeft`, `StreamLinkPairs`, `CoreSync`, `CoreSyncBind` and `Stream`
switch the deadlock check off. `FilterCycle`, `FilterEvents`, `LoopbackRing` and
`Clients` keep it (`Clients` has a step of its own for a `main()` that returned).

**Fairness.** `FilterEvents!FairSpec` schedules the data thread, and the
callback's own pushes with it; an application thread may stall inside
`push_lock` for ever. Staging then still ends, as it only tries the lock. The
callback's own push waits for it and takes it once it is free (the second
fairness condition): `CycleCompletes` says that a cycle whose callback runs ends,
unless the callback is blocked for ever by a thread that never gives the lock
back (`Blocked`). `EventDelivered` assumes in addition that an owner of the lock
finishes its push. With unboundedly many pushes the trylock may fail for ever;
`MaxEvents` makes them finite, and the property claims no more. `FilterLink`
schedules the application thread inside a call and the loop thread, and lets
time pass (a timeout happens); it does not assume that the server answers.
`Clients` is strongly fair to `main()`, whose waits for a loop lock or for the
end of a cycle come true again and again, and assumes that callbacks return; it
assumes neither signals nor losses. `StreamLink`, `Stream`, `CoreSync`,
`FilterCycle` and `LoopbackRing` claim safety only.

**Refinements.** `PushesAreAMailbox` maps the two blocks of a port to the value
waiting in its mailbox; `EventsAreAQueue` the two arrays to a queue;
`RingIsAFifo` cells and positions to a bounded queue of bytes; `KeepsPromise` a
stream with its node, locks and drains to `StreamPromise`. `Clients` is built on
the last, so what it shows of the programs it shows over the streams of `Stream`.

## 4. Proofs

Each holds for every value of the constants that the named assumptions allow.
Every safety property that a passing run checks is proved: each invariant, each
action property, and the four refinements.

| module | obligations | theorems |
|---|---|---|
| `FilterCycle_proofs` | 1574 | `WholeDelivery`, `HoldKeepsLatest`, `PoolIsConserved`, `SourceIsFed`, `StagedCycleDeliversAll`, `SeqsAreCounted`, `BlocksRefineMailbox`, `TypeCorrect` |
| `FilterEvents_proofs` | 3319 | `PoolIsConserved`, `AcceptedIsPublished`, `PayloadsAreOwned`, `IncomingIsAlive`, `AcceptedHasRoom`, `ArraysRefineQueue`, `TypeCorrect` |
| `FilterLink_proofs` | 1311 | `NothingPartial`, `QuietDestroy`, `LossReported`, `ReportedOnce`, `TypeCorrect` |
| `StreamLink_proofs` | 1555 | `StreamIsWired`, `NoDanglingLinks`, `NoSilentLoss`, `RegistryIsExact`, `TypeCorrect` |
| `CoreSync_proofs` | 2818 | `SyncDelivered`, `EnumCompletes`, `ParsesFastest`, `TypeCorrect` |
| `Stream_proofs` | 1792 | `ReportsOnlyLosses`, `BuffersAreReturned`, `PlaysWhole`, `LogsAccounted`, `DrainPlays`, `PromiseKept`, `TypeCorrect` |
| `LoopbackRing_proofs` | 1414 | `NoCellShared`, `NoByteUnaccounted`, `ChannelsKeepPlace`, `RingRefinesFifo`, `TypeCorrect` |
| `Clients_proofs` | 2633 | `CallbacksAreFed`, `NothingIsLeft`, `HeaderIsRight`, `TypeCorrect` |

`PROJECT.json` says which property each theorem states.

**Induction over data.** Four operators are loops over a list:
`ParseFramerates`, `Decode`, `ListPorts` and `StillHeard`. The library's
induction theorems take an operator as a parameter, which the provers do not
instantiate. Induction over a *set* of numbers needs none: `NatMin` and
`SetInduction` follow from the well-foundedness of `<`, and `FoldExists` gives
`FoldLeft` its recursive function. What a loop computes is then proved by the
set of lengths up to which its invariant holds.

### FilterCycle

From `PortsAssumption`, `MemoryAssumption` and `ThreadsAssumption`. The
inductive invariant `IInv` says of the lock who holds it and when (`LockInv`),
and of each port:

- `StagingInv`: the two blocks differ; what is pending is whole unless a push
  is copying at this moment.
- `PoolInv`: each buffer is in one place; only a running, holding port
  has something held; only a staged port has something dequeued.
- `HeldInv`: what is held lies in the retained buffer or in the delivered
  block, and still has the content delivered last.
- `BuffersInv`: what a staged port presents lies there too and is whole.
- `OutputInv`: a mapped output port queues only buffers with data.

`DeliveredIsWhole` alone speaks of the callback only. That no push reaches the
block being read follows from the blocks being different *and* from the source
being `delivered_data`, which survives cycles in which nothing is staged
(`HeldInv`). That the graph does not refill it follows from the source being
retained, hence in neither `avail` nor `ready`. One lemma (`Frame`) covers all
ports that a step does not touch. `SourceIsFed` counts the buffers that `PoolInv`
names. `SeqsAreCounted` is an action property and compares each step's two
states. `BlocksRefineMailbox` needs `NumbersInv`: pushes are numbered in the
order in which the lock admits them, and the block the data thread reads is
older than the last published push exactly while that push waits.

### FilterEvents

From `EventPortsAssumption`, `SizesAssumption` and `GraphAssumption`. `IInv` is
the types, who holds the lock (`LockInv`), the shape of the arrays (`ArraysInv`:
two different ones, live entries within them), the payloads (`CellsInv`: the
live entries name exactly the allocated copies, each once), what is dequeued
(`DequeuedInv`), `EventPoolConserved`, what an output port has accepted
(`OutputInv`) and what an input port was pushed and delivered (`InputInv`:
pushed is delivered followed by what is pending). `CellsInv` is why a stale
entry is harmless: the lengths, not the entries, say who owns a copy.
`AcceptedHasRoom` adds `RoomInv`: from its staging to the end of the cycle an
output port measures pushes against the size of the buffer it dequeued, which
nobody changes meanwhile, and a port without a buffer accepts nothing.
`IncomingIsAlive` adds `ReadInv`: what an input port presents is nothing, what
it decoded from the buffer it dequeued, or entry by entry its delivering array,
whose copies `CellsInv` keeps allocated.

### FilterLink

From `LinkAssumption`. The invariants say who owns a wait and its answer
(`Owners`), what a running or stopping call implies for `state` and `active`
(`Starts`, `Ends`), and when a port's loss is still to be told (`Marks`).

`QuietDestroy` rests on `Ends`. A destroy that gets to its end has seen the
filter not running, by a test of its own or by stopping it, and released the
links; from then on only a start by the error callback makes it active again,
and the callback that `DestroyRegistry` waits for is the last. The theorem does
not say that this start cannot happen: `restarted` is in its statement.

`ReportedOnce` is about the order of messages. `OrderInv` says of a port with
neither mark (`Fresh`) that it has had no source yet: its link was not seen
active, a format it carries is announced in the inbox, and what could tell of a
loss comes behind that announcement. So the first sign of a loss finds the port
marked, and takes the mark away. The server's steps keep the order because a
link that fails had its format announced before (`ServerSends`); a release keeps
it because dropping messages does not reorder those that stay (`StillHeardIs`).
After the destruction nothing is owed (`Ends`). The inbox is typed in
`OrderInv`; `TypeOK` leaves it out.

### StreamLink

From `StreamAssumption`. `Owned` says which thread may still free the set, `Told`
that a lost link was reported, `RegistryInv` that the live part of the array has
no duplicates and names every announced port for which there was memory,
whatever block it is in. `RegistryIsExact`
adds, by induction over the array, that the insertions of `ListPorts` keep the
list sorted and lose no port.

`StreamIsWired` rests on `WiredInv`, in three parts. `PortsInv`: own ports do not
leave, a device with ports is there, and from when the own ports were awaited
they are all live. `ListsInv`: the own list is then as long as the stream has
channels (`OwnCount`, by counting: ordinals map the list one-to-one onto the
live ports), and as many pairs follow. `ProgressInv`: in between, the set holds a
proxy that was seen active for each channel before the present one (`Made`), and
a call that returned with a set left all of them in it (`Whole`). A failed channel
goes through the release, so no part of it survives the call.

### CoreSync

From `CoreAssumption`, `OffersAssumption` (a rate is a pair of naturals) and
`RatesAssumption`. What is in flight makes up for what the client does not have.
For a round-trip: the registry is bound before anything is asked through it
(`RegistryFirst`); a live node is cached or announced in `replies` (`GraphTold`);
an announcement that the server owed when the round-trip began comes before its
answer (`OwedFirst`); and an answer with the number of the present round-trip can
only be its own (`SeqsAreOld`), which is why a late answer ends nothing.
For a query (`QueryInv`): question, formats and end pass in order (`InOrder`), the
formats not yet collected are the next ones in `replies`, and those collected are
in the caller's array as far as it has room (`Arriving`). `ParsesFastest` is the
induction over a list of rates: an insertion keeps `FastestOf`.

### Stream

From `StreamAssumption`. `CallInv` says what a call may rely on while the other
threads run: a stream being configured or destroyed does not run, and its DMABUF
flag is off before its `pw_stream` goes, so taking it down reports nothing
(`QuietDestroy`). `PwInv` ties activity to the existence of the node.
`HoldingInv` and `ContentInv` follow a buffer through a cycle: empty until it is
written, made of whole frames and silence while it is queued, as many frames as
the callback reported and the cycle has room for, overrun or not (`PlaysWhole`). `LogInv` bounds
the lines by the interval of the last one, not of the present. `DrainInv` is the
least obvious: from when the answer of a drain is due until the call has seen
it, nothing new is queued, because the node stays drained or its source is gone
for good; a restart by the error callback, which resets the drain, needs the
second. `PromiseKept` maps each step to one step of `StreamPromise` or a stutter.

### LoopbackRing

From `RingAssumption` and `WrapAssumption`. `Positions` and `Lengths` bound what
each thread has loaded by what the other has stored, `Contents` says which byte
is in each cell between the two positions, `Numbers` that bytes enter in order.
`SmallMod`, `DivMod` and their like carry it to wrapped positions.
Neither assumption says anything of a cycle's size. `ChannelsKeepPlace` adds
`FramesInv`, which holds while `cut` = 0: whatever either thread has loaded,
counted or stored is a whole number of frames, except for what the cycle that
runs takes, so a byte in the ring is as far from its number as the frames
dropped before it. A cycle that ends with a partial frame makes `cut` positive
and ends the invariant for good.

### Clients

From `ClientsAssumption` and `HandlesAssumption`. Every call has a rank, its place
in the longest list a program can have, and `todo` is always ordered by it
(`InOrder`), whichever paths were joined. `SetupInv` says what `main()` still owes
before it waits: what a stream's callbacks read exists or is allocated before
the stream is created, and a video stream that is alive will be counted.
`CleanupInv` says it afterwards: a stream that is alive is destroyed by a call
that is left, memory that exists is freed by one, and the header of a recording
is written unless it was. `HeaderIsRight` adds what becomes of the bytes: unless
a write failed, what is counted is in the file or in stdio (`CountInv`), the
header that will be in place has the sizes for it (`Tells`), and nothing is left
in stdio after the close (`Written`). `HandlesInv` ties streams to memory. As destructions
rank before frees, a callback never meets freed memory.

### Model-checked only

The four liveness properties: `CycleCompletes` and `EventDelivered` of
`FilterEvents`, `CallsReturn` of `FilterLink`, `EndsWhenTold` of `Clients`.
Liveness under fairness needs `ENABLED`, which is beyond the prover. The four
violations of section 5 are counterexamples, which TLC finds.

## 5. Disagreements between the code and its documents

Each is a run that fails and an entry under "findings" in `PROJECT.json`.

1. `StopReleasesLinks`: `pwf_filter_port_link()` checks the state once,
   unlocked, before its round-trips. A stop from the error callback in between
   leaves a stopped filter with a link.
2. `NoneLeftBehind`: the device leaves while a channel negotiates; that channel
   is not counted yet, its proxy is never destroyed, and the waiting call goes
   on in freed memory.
3. `PairedByPosition`: pointers into the registry's array are used after waits;
   unrelated ports that leave and arrive redirect a channel.
4. `BindPopulates`: after a bind that failed or timed out, the next one succeeds
   at once with empty caches.

Also noticed, without a run:

- A format in flight resets `loss_reported` (`pwf_filter_port_link.c:249`,
  `pwf_filter.c:65`), so the application's own unlink may be reported as a lost
  source, which `docs/filters.md:198-200` excludes.
- Two threads inside round-trips of one handle add the same listener hook twice
  (`pwf_pw_core.c:257`).
- A renegotiation frees a pool while hold retains a buffer of it
  (`pwf_filter_process.c:161`), and `current_dmabuf_buf` is not `NULL` between
  cycles (`pwf_filter_internal.h:116-118`).
- Pool buffers without data are not returned (section 2).
- An unlink that races the device's removal may free the set of links twice
  (`pwf_stream_routing.c:223`).
- `pwf_filter_start()` and `pwf_stream_start()` write `RUNNING` after dropping
  the lock, so a loss in between goes unreported.
- A stream that reported a loss is `STOPPED` but its `pw_stream` stays active,
  so `pwf_stream_stop()` returns at once (`pwf_stream.c:328`) and callbacks may
  resume if a session manager links it again. `Clients` shows that the two
  programs bear it.
- A playback cycle whose callback overruns is to be emitted as silence
  (`docs/streams.md:215-216`, `pwf_stream.h:71-72`). The code logs it and plays
  what the callback wrote (`pwf_stream_playback.c:41-51`). `PlaysWholeFrames`
  says of these cycles too what the code does, against the documents. A floored
  size is to be logged (`docs/streams.md:211-212`) and is not (`38-39`).
- A push to an input port from the callback, which `docs/filters.md:34-36`
  allows, blocks the data thread on `push_lock` until another pusher is done
  (`pwf_filter_port.c:97`, `pwf_filter_event.c:290`), while
  `docs/filters.md:37-38` has the cycle never wait for a push and
  `pwf_filter.h:54` has the callback not block. `CycleCompletes` names this one
  case.
- Destroy tests the state without the lock, and the stop it calls tests it again
  (`pwf_filter.c:354`, `302-303`). An error callback that stops the filter and
  starts it again, the start behind the last of these tests, leaves it active
  while the staging memory is freed (`372-379`). `DestroyedIsQuiet` says that
  nothing else does.
- A playback cycle that asks for part of a frame, as one without a request may
  (`pwf_stream_playback.c:90-95`), takes bytes from the loopback's ring that are
  then floored away (`pwf_stream_loopback.c:95`, `pwf_stream_playback.c:38-39`):
  from there on every byte is in another channel. `ChannelsStayInPlace` says that
  nothing else does that.
- The header of a WAV file is "seeked back to 0 to patch in the final size"
  (`pwf_record.c:89-91`), but the result of `fseek()` is not looked at
  (`pwf_record.c:375`): on a pipe, or if flushing fails, the sizes stay 0 and a
  second header follows the data. Nor is that of `fclose()` (`378`), so a full
  disk may leave a file shorter than its header says, and `36 + data_size` wraps
  (`100`). `HeaderTellsLength` claims what is left.

## 6. Not modelled

- Examples and tests: clients of the library that make the calls the models'
  application threads make. Of the programs, a crash or a kill that leaves a
  file behind, and what is printed.
- Logging as such, format tables and argument checks, which keep no protocol;
  the building and parsing of SPA pods but for video formats; plane descriptors;
  the arithmetic of pts; global init counting.
- Setters that only store a value (target, role, autoconnect, properties); a
  format set while the stream runs, which the headers exclude.
- Lookups that read the registry's arrays unlocked while they change
  (`pwf_pw_core.c:382`), and two threads in one handle's round-trips: neither
  has a bounded set of outcomes.
- Renegotiation of a filter's pool while hold retains a buffer: what PipeWire
  does with the memory is outside this repository.
- Running out of memory for the decoded list of events.

## 7. Plan

All modules of section 2 are done. What is left, in order of importance:

1. Proofs: the types of what `TypeOK` leaves out and an invariant gives instead
   (the inbox of `FilterLink`, the lists of `StreamLink`, what `FilterEvents`
   decoded) as conjuncts of it.
2. A composition of `StreamLink` with `CoreSync`'s bind, so that a link meets a
   registry that is not populated.
3. A second application thread in `FilterLink` and `Stream`, as far as the
   headers allow one.
