---------------------------- MODULE FilterCycle ----------------------------
(***************************************************************************)
(* The processing cycle of a filter over its audio, video and signal ports *)
(* (pwf_filter_on_process), the pushes that feed its input ports from any  *)
(* thread (pwf_filter_push_port_data), and stop/restart.                   *)
(*                                                                         *)
(* Three kinds of process interleave:                                      *)
(*   - application threads, and the callback itself, that push;            *)
(*   - PipeWire's data thread, which stages one port per step, runs the    *)
(*     callback, and requeues what it dequeued;                            *)
(*   - the graph, which fills the buffers it owns and queues them.         *)
(*                                                                         *)
(* Event ports take the same cycle and the same lock through state of      *)
(* their own: module FilterEvents.                                         *)
(*                                                                         *)
(* Bytes are abstracted to one number per memory block.  Every push and    *)
(* every frame of the graph carries a number of its own, which stands for  *)
(* its bytes and, copied by value next to the pointer, for its size and    *)
(* pts.                                                                    *)
(*                                                                         *)
(* A definition Name_Bug next to Name is Name with a bug the code could    *)
(* have; nothing uses it, and a property below fails when it replaces Name. *)
(***************************************************************************)
EXTENDS Integers, FiniteSets

CONSTANTS
  NPorts,           \* the filter's ports are 1..NPorts, in the order of ports[]
  InPorts,          \* the input ports among them; the others are outputs
  HoldPorts,        \* input ports with hold_enabled
  DmabufPorts,      \* input ports with use_dmabuf
  UnmappedPorts,    \* ports whose pool may hand out a buffer without data
  Threads,          \* application threads that push
  Buffers,          \* the PipeWire buffers in each port's pool
  BlockA, BlockB,   \* the two heap blocks that push staging swaps between
  NULL,
  MaxValue          \* bound: pushes plus graph frames in a behaviour

Ports  == 1..NPorts
Blocks == {BlockA, BlockB}

ASSUME PortsAssumption ==
  /\ NPorts \in Nat \ {0}
  /\ InPorts \subseteq Ports
  /\ HoldPorts \subseteq InPorts
  /\ DmabufPorts \subseteq InPorts
  /\ UnmappedPorts \subseteq Ports

ASSUME MemoryAssumption ==
  /\ BlockA # BlockB
  /\ Blocks \cap Buffers = {}
  /\ NULL \notin Blocks \cup Buffers
  /\ MaxValue \in Nat

ASSUME ThreadsAssumption ==
  {"none", "cycle", "callback"} \cap Threads = {}

VARIABLES
  active,           \* pw_filter_set_active(): the graph runs the node's cycles
  (* push staging, guarded by push_lock *)
  push_lock,        \* its owner: "none", "cycle", or one of Callers
  push,             \* the push its owner is executing
  pushed_data,      \* block the next push writes
  delivered_data,   \* block the data thread reads
  pushed_pts,       \* pts (and size) of the last completed push
  pushed_pending,
  (* the data thread *)
  cyc,              \* where the cycle is: "idle", "stage", "callback"
  next,             \* the loop index i of the staging loop
  staged,           \* the result of pthread_mutex_trylock()
  buffers,          \* the buffers[] array handed to the callback
  dequeued,         \* the dequeued[] array
  update_seq,
  held, has_held, held_data, held_pts, held_dmabuf_buf,
  current_dmabuf_buf,
  (* the graph *)
  avail,            \* buffers the graph owns
  ready,            \* buffers queued for pw_filter_dequeue_buffer()
  mem,              \* contents of every block and buffer of every port
  (* bounding and history *)
  value,            \* numbers handed out so far
  latest            \* content of the last fresh delivery since a start

stagingVars == <<push_lock, push, pushed_data, delivered_data, pushed_pts,
                 pushed_pending>>
cycleVars   == <<cyc, next, staged>>
portVars    == <<buffers, dequeued, update_seq, held, has_held, held_data,
                 held_pts, held_dmabuf_buf, current_dmabuf_buf, latest>>
poolVars    == <<avail, ready>>

vars == <<active, stagingVars, cycleVars, portVars, poolVars, mem, value>>

----------------------------------------------------------------------------
(* Types *)

Empty == 0          \* a buffer without data; also "no value yet"
Torn  == -1         \* a block some push is half way through copying into
Blank == -2         \* a mapped output buffer

Contents == Nat \cup {Torn, Blank}
Callers  == Threads \cup {"callback"}
Pointer  == Blocks \cup Buffers \cup {NULL}

IdlePush == [phase |-> "idle", port |-> 1, val |-> 0]

\* One struct pwf_filter_port_buffer before anything is staged into it.
NoData == [data |-> NULL, pts |-> 0, fresh |-> FALSE, seq |-> 0]

StagingType ==
  /\ push_lock \in {"none", "cycle"} \cup Callers
  /\ push \in [phase : {"idle", "locked", "copying"}, port : Ports, val : Nat]
  /\ pushed_data \in [Ports -> Blocks]
  /\ delivered_data \in [Ports -> Blocks]
  /\ pushed_pts \in [Ports -> Nat]
  /\ pushed_pending \in [Ports -> BOOLEAN]

CycleType ==
  /\ active \in BOOLEAN
  /\ cyc \in {"idle", "stage", "callback"}
  /\ next \in 1..(NPorts + 1)
  /\ staged \in BOOLEAN

PresentType ==
  /\ buffers \in [Ports -> [data : Pointer, pts : Contents,
                            fresh : BOOLEAN, seq : Nat]]
  /\ dequeued \in [Ports -> Buffers \cup {NULL}]
  /\ current_dmabuf_buf \in [Ports -> Buffers \cup {NULL}]
  /\ update_seq \in [Ports -> Nat]
  /\ latest \in [Ports -> Contents]

HoldType ==
  /\ held \in [Ports -> Buffers \cup {NULL}]
  /\ has_held \in [Ports -> BOOLEAN]
  /\ held_data \in [Ports -> Pointer]
  /\ held_pts \in [Ports -> Contents]
  /\ held_dmabuf_buf \in [Ports -> Buffers \cup {NULL}]

PoolType ==
  /\ avail \in [Ports -> SUBSET Buffers]
  /\ ready \in [Ports -> SUBSET Buffers]
  /\ mem \in [Ports -> [Blocks \cup Buffers -> Contents]]
  /\ value \in 0..MaxValue

TypeOK == StagingType /\ CycleType /\ PresentType /\ HoldType /\ PoolType

Init ==
  /\ active = FALSE
  /\ push_lock = "none"
  /\ push = IdlePush
  /\ pushed_data = [p \in Ports |-> BlockA]
  /\ delivered_data = [p \in Ports |-> BlockB]
  /\ pushed_pts = [p \in Ports |-> 0]
  /\ pushed_pending = [p \in Ports |-> FALSE]
  /\ cyc = "idle"
  /\ next = 1
  /\ staged = FALSE
  /\ buffers = [p \in Ports |-> NoData]
  /\ dequeued = [p \in Ports |-> NULL]
  /\ update_seq = [p \in Ports |-> 0]
  /\ held = [p \in Ports |-> NULL]
  /\ has_held = [p \in Ports |-> FALSE]
  /\ held_data = [p \in Ports |-> NULL]
  /\ held_pts = [p \in Ports |-> 0]
  /\ held_dmabuf_buf = [p \in Ports |-> NULL]
  /\ current_dmabuf_buf = [p \in Ports |-> NULL]
  /\ avail = [p \in Ports |-> Buffers]
  /\ ready = [p \in Ports |-> {}]
  /\ mem = [p \in Ports |-> [m \in Blocks \cup Buffers |-> Empty]]
  /\ value = 0
  /\ latest = [p \in Ports |-> Empty]

----------------------------------------------------------------------------
(* pwf_filter_push_port_data().  A caller blocks until it owns push_lock,  *)
(* grows the block, copies into it, and publishes the copy.  The callback  *)
(* may push too: then the data thread itself is the caller, and waits for  *)
(* the lock.  Waiting is the guard of PushLock for each caller: it changes *)
(* nothing, so the safety properties below hold with it as without it.     *)
(* FilterEvents, which claims that cycles end, has the wait as a state.    *)

PushLock(c, p) ==
  /\ c = "callback" => cyc = "callback"
  /\ push_lock = "none"
  /\ value < MaxValue
  /\ push_lock' = c
  /\ push' = [phase |-> "locked", port |-> p, val |-> value + 1]
  /\ value' = value + 1
  /\ UNCHANGED <<active, pushed_data, delivered_data, pushed_pts,
                 pushed_pending, cycleVars, portVars, poolVars, mem>>

\* The block could not grow: PWF_ERR_NO_MEMORY, and what was staged stays.
PushNoMemory ==
  /\ push.phase = "locked"
  /\ push_lock' = "none"
  /\ push' = IdlePush
  /\ UNCHANGED <<active, pushed_data, delivered_data, pushed_pts,
                 pushed_pending, cycleVars, portVars, poolVars, mem, value>>

\* realloc() and memcpy() destroy what the block held before.
PushCopy ==
  /\ push.phase = "locked"
  /\ push' = [push EXCEPT !.phase = "copying"]
  /\ mem' = [mem EXCEPT ![push.port][pushed_data[push.port]] = Torn]
  /\ UNCHANGED <<active, push_lock, pushed_data, delivered_data, pushed_pts,
                 pushed_pending, cycleVars, portVars, poolVars, value>>

PushDone ==
  /\ push.phase = "copying"
  /\ mem' = [mem EXCEPT ![push.port][pushed_data[push.port]] = push.val]
  /\ pushed_pts' = [pushed_pts EXCEPT ![push.port] = push.val]
  /\ pushed_pending' = [pushed_pending EXCEPT ![push.port] = TRUE]
  /\ push_lock' = "none"
  /\ push' = IdlePush
  /\ UNCHANGED <<active, pushed_data, delivered_data, cycleVars, portVars,
                 poolVars, value>>

PushStep == PushNoMemory \/ PushCopy \/ PushDone

----------------------------------------------------------------------------
(* The graph.  On an input port it fills a buffer it owns with a frame, or *)
(* hands one over without data; on an output port it returns a buffer it   *)
(* has consumed.                                                           *)

GraphFill(p, b) ==
  /\ b \in avail[p]
  /\ avail' = [avail EXCEPT ![p] = @ \ {b}]
  /\ ready' = [ready EXCEPT ![p] = @ \cup {b}]
  /\ \/ /\ p \in InPorts
        /\ value < MaxValue
        /\ value' = value + 1
        /\ mem' = [mem EXCEPT ![p][b] = value + 1]
     \/ /\ p \notin InPorts
        /\ mem' = [mem EXCEPT ![p][b] = Blank]
        /\ UNCHANGED value
     \/ /\ p \in UnmappedPorts
        /\ mem' = [mem EXCEPT ![p][b] = Empty]
        /\ UNCHANGED value
  /\ UNCHANGED <<active, stagingVars, cycleVars, portVars>>

----------------------------------------------------------------------------
(* pwf_filter_on_process()                                                 *)

\* The trylock never waits: a push that holds the lock postpones staging.
CycleBegin ==
  /\ active
  /\ cyc = "idle"
  /\ cyc' = "stage"
  /\ next' = 1
  /\ staged' = (push_lock = "none")
  /\ push_lock' = IF push_lock = "none" THEN "cycle" ELSE push_lock
  /\ UNCHANGED <<active, push, pushed_data, delivered_data, pushed_pts,
                 pushed_pending, portVars, poolVars, mem, value>>

Staging(p) ==
  /\ cyc = "stage"
  /\ p = next
  /\ next' = next + 1
  /\ UNCHANGED <<active, push_lock, push, pushed_pts, cyc, staged, mem, value>>

\* queue_buffer() for what the cycle dequeued, and for what hold retained.
Returned_HeldToo(p) == {dequeued[p], held[p]} \ {NULL}
Returned(p) == {dequeued[p]} \ {NULL}

Released_Never(p) == {}
Released(p) == {held[p]} \ {NULL}

\* ++port->update_seq
NextSeq_Stuck(p) == update_seq[p]
NextSeq(p) == update_seq[p] + 1

\* New data d (a pointer, or the DMABUF buffer dm) with metadata m, in the
\* dequeued buffer b or, for a push, in none.  A holding port releases the
\* buffer it held and retains b instead; else b is requeued at cycle end.
Deliver(p, d, m, b, dm) ==
  /\ update_seq' = [update_seq EXCEPT ![p] = NextSeq(p)]
  /\ buffers' = [buffers EXCEPT ![p] =
        [data |-> d, pts |-> m, fresh |-> TRUE, seq |-> NextSeq(p)]]
  /\ current_dmabuf_buf' = [current_dmabuf_buf EXCEPT ![p] = dm]
  /\ latest' = [latest EXCEPT ![p] = m]
  /\ IF p \in HoldPorts
       THEN /\ avail' = [avail EXCEPT ![p] = @ \cup Released(p)]
            /\ held' = [held EXCEPT ![p] = b]
            /\ has_held' = [has_held EXCEPT ![p] = TRUE]
            /\ held_data' = [held_data EXCEPT ![p] = d]
            /\ held_pts' = [held_pts EXCEPT ![p] = m]
            /\ held_dmabuf_buf' = [held_dmabuf_buf EXCEPT ![p] = dm]
            /\ UNCHANGED dequeued
       ELSE /\ dequeued' = [dequeued EXCEPT ![p] = b]
            /\ UNCHANGED <<avail, held, has_held, held_data, held_pts,
                           held_dmabuf_buf>>

\* No new data; b is the dequeued buffer that carried none, if any.
Represent(p, b) ==
  /\ dequeued' = [dequeued EXCEPT ![p] = b]
  /\ IF has_held[p]
       THEN /\ buffers' = [buffers EXCEPT ![p] =
                  [data |-> held_data[p], pts |-> held_pts[p],
                   fresh |-> FALSE, seq |-> update_seq[p]]]
            /\ current_dmabuf_buf' =
                  [current_dmabuf_buf EXCEPT ![p] = held_dmabuf_buf[p]]
       ELSE /\ buffers' = [buffers EXCEPT ![p] =
                  [data |-> NULL, pts |-> 0,
                   fresh |-> FALSE, seq |-> update_seq[p]]]
            /\ current_dmabuf_buf' = [current_dmabuf_buf EXCEPT ![p] = NULL]
  /\ UNCHANGED <<update_seq, held, has_held, held_data, held_pts,
                 held_dmabuf_buf, latest, avail>>

PushWaits_Unlocked(p)   == pushed_pending[p]
PushWaits_Always(p)     == staged
PushWaits_FrameFirst(p) == staged /\ pushed_pending[p] /\ ready[p] = {}
PushWaits(p)            == staged /\ pushed_pending[p]

\* A staged push has priority over the graph.  The swap leaves the push side
\* the block this thread no longer reads.
StagePushed(p) ==
  /\ Staging(p)
  /\ p \in InPorts
  /\ PushWaits(p)
  /\ pushed_data' = [pushed_data EXCEPT ![p] = delivered_data[p]]
  /\ delivered_data' = [delivered_data EXCEPT ![p] = pushed_data[p]]
  /\ pushed_pending' = [pushed_pending EXCEPT ![p] = FALSE]
  /\ Deliver(p, pushed_data[p], pushed_pts[p], NULL, NULL)
  /\ UNCHANGED ready

\* A frame of the graph: by pointer, or through the accessor on DMABUF.
StageFrame(p, b) ==
  /\ Staging(p)
  /\ p \in InPorts
  /\ ~ PushWaits(p)
  /\ b \in ready[p]
  /\ mem[p][b] # Empty
  /\ ready' = [ready EXCEPT ![p] = @ \ {b}]
  /\ IF p \in DmabufPorts
       THEN Deliver(p, NULL, mem[p][b], b, b)
       ELSE Deliver(p, b, mem[p][b], b, NULL)
  /\ UNCHANGED <<pushed_data, delivered_data, pushed_pending>>

\* A buffer without data carries nothing new and goes back at cycle end.
StageEmptyFrame(p, b) ==
  /\ Staging(p)
  /\ p \in InPorts
  /\ ~ PushWaits(p)
  /\ b \in ready[p]
  /\ mem[p][b] = Empty
  /\ ready' = [ready EXCEPT ![p] = @ \ {b}]
  /\ Represent(p, b)
  /\ UNCHANGED <<pushed_data, delivered_data, pushed_pending>>

StageNothing(p) ==
  /\ Staging(p)
  /\ p \in InPorts
  /\ ~ PushWaits(p)
  /\ ready[p] = {}
  /\ Represent(p, NULL)
  /\ UNCHANGED <<pushed_data, delivered_data, pushed_pending, ready>>

\* An output buffer is kept for requeueing only if it has data to write to.
StageOutput(p) ==
  /\ Staging(p)
  /\ p \notin InPorts
  /\ \/ \E b \in ready[p] :
          /\ ready' = [ready EXCEPT ![p] = @ \ {b}]
          /\ IF mem[p][b] # Empty
               THEN /\ buffers' = [buffers EXCEPT ![p] =
                          [data |-> b, pts |-> 0, fresh |-> FALSE, seq |-> 0]]
                    /\ dequeued' = [dequeued EXCEPT ![p] = b]
               ELSE UNCHANGED <<buffers, dequeued>>
     \/ ready[p] = {} /\ UNCHANGED <<ready, buffers, dequeued>>
  /\ current_dmabuf_buf' = [current_dmabuf_buf EXCEPT ![p] = NULL]
  /\ UNCHANGED <<pushed_data, delivered_data, pushed_pending, update_seq, held,
                 has_held, held_data, held_pts, held_dmabuf_buf, latest, avail>>

StagePort(p) ==
  \/ StagePushed(p)
  \/ \E b \in Buffers : StageFrame(p, b) \/ StageEmptyFrame(p, b)
  \/ StageNothing(p)
  \/ StageOutput(p)

\* The lock is released before the callback runs.
StageEnd ==
  /\ cyc = "stage"
  /\ next = NPorts + 1
  /\ cyc' = "callback"
  /\ push_lock' = IF staged THEN "none" ELSE push_lock
  /\ UNCHANGED <<active, push, pushed_data, delivered_data, pushed_pts,
                 pushed_pending, next, staged, portVars, poolVars, mem, value>>

\* The callback returns and every dequeued buffer is requeued; buffers[] and
\* dequeued[] go out of scope.
CycleEnd ==
  /\ cyc = "callback"
  /\ push_lock # "callback"
  /\ cyc' = "idle"
  /\ next' = 1
  /\ staged' = FALSE
  /\ avail' = [p \in Ports |-> avail[p] \cup Returned(p)]
  /\ dequeued' = [p \in Ports |-> NULL]
  /\ buffers' = [p \in Ports |-> NoData]
  /\ UNCHANGED <<active, stagingVars, update_seq, held, has_held, held_data,
                 held_pts, held_dmabuf_buf, current_dmabuf_buf, latest, ready,
                 mem, value>>

CycleStep ==
  CycleBegin \/ (\E p \in Ports : StagePort(p)) \/ StageEnd \/ CycleEnd

----------------------------------------------------------------------------
(* pwf_filter_start() and pwf_filter_stop()                                *)

Start ==
  /\ ~ active
  /\ active' = TRUE
  /\ UNCHANGED <<stagingVars, cycleVars, portVars, poolVars, mem, value>>

\* set_active(false) pauses the node between cycles; held buffers go back and
\* hold starts afresh.  What is staged, and update_seq, survive.
Stop ==
  /\ active
  /\ cyc = "idle"
  /\ active' = FALSE
  /\ avail' = [p \in Ports |-> avail[p] \cup Released(p)]
  /\ held' = [p \in Ports |-> NULL]
  /\ has_held' = [p \in Ports |-> FALSE]
  /\ held_data' = [p \in Ports |-> NULL]
  /\ held_dmabuf_buf' = [p \in Ports |-> NULL]
  /\ current_dmabuf_buf' = [p \in Ports |-> NULL]
  /\ latest' = [p \in Ports |-> Empty]
  /\ UNCHANGED <<stagingVars, cycleVars, buffers, dequeued, update_seq,
                 held_pts, ready, mem, value>>

Next ==
  \/ \E c \in Callers, p \in InPorts : PushLock(c, p)
  \/ PushStep
  \/ \E p \in Ports, b \in Buffers : GraphFill(p, b)
  \/ CycleStep
  \/ Start
  \/ Stop

Spec == Init /\ [][Next]_vars

----------------------------------------------------------------------------
(* Safety *)

\* What the callback reads on input port p: the data pointer, or on a DMABUF
\* port the buffer behind the plane accessor.
Source(p) ==
  IF buffers[p].data # NULL THEN buffers[p].data ELSE current_dmabuf_buf[p]

\* What the callback reads is whole, and its size and pts belong to it: no
\* push, and no refill by the graph, touches a block from the moment it is
\* staged until the callback returns, fresh or held.
DeliveredIsWhole ==
  cyc = "callback" =>
    \A p \in InPorts :
      Source(p) # NULL => mem[p][Source(p)] = buffers[p].pts

\* Once a holding port has delivered something since the last start, every
\* callback gets its most recent content, whatever was swapped, requeued or
\* refilled since; a port that does not hold presents fresh data or none.
HoldPresentsLatest ==
  cyc = "callback" =>
    \A p \in InPorts :
      IF p \in HoldPorts
        THEN latest[p] # Empty =>
               Source(p) # NULL /\ mem[p][Source(p)] = latest[p]
        ELSE buffers[p].fresh <=> Source(p) # NULL

\* Places a buffer of p's pool can be in.  StageOutput forgets an output
\* buffer without data, so only pools that are mapped keep all of theirs.
KeepsPool(p) == p \in InPorts \/ p \notin UnmappedPorts

Retained(p) == {dequeued[p], held[p]} \ {NULL}

\* Every buffer of a port is in exactly one place: with the graph, queued, or
\* retained once as dequeued or held; none is requeued twice and none is lost
\* across hold, a push that replaces a held frame, an empty frame, or stop.
PoolConserved ==
  \A p \in Ports :
    /\ avail[p] \cap ready[p] = {}
    /\ (avail[p] \cup ready[p]) \cap Retained(p) = {}
    /\ dequeued[p] # NULL => dequeued[p] # held[p]
    /\ KeepsPool(p) => avail[p] \cup ready[p] \cup Retained(p) = Buffers

\* Between cycles hold keeps at most one buffer, so a pool with one buffer
\* more than the source needs still lets the source queue a frame; a stopped
\* filter keeps none.
SourceNotStarved ==
  cyc = "idle" =>
    \A p \in InPorts :
      /\ Cardinality(Buffers \ (avail[p] \cup ready[p])) <= 1
      /\ p \notin HoldPorts \/ ~ active => avail[p] \cup ready[p] = Buffers

\* A cycle that got the lock delivers every push staged before it: none is
\* left behind for the cycle after it.
StagedCycleTakesAll ==
  (cyc = "stage" /\ staged) =>
    \A p \in InPorts : p < next => ~ pushed_pending[p]

\* fresh and seq agree: seq advances by one with each new delivery, never with
\* a re-presented buffer, and survives a stop.
SeqCountsFresh ==
  [][\A p \in InPorts :
       /\ update_seq'[p] # update_seq[p] =>
            buffers'[p].fresh /\ update_seq'[p] = update_seq[p] + 1
       /\ buffers'[p] \notin {buffers[p], NoData} =>
            /\ buffers'[p].seq = update_seq'[p]
            /\ buffers'[p].fresh => update_seq'[p] # update_seq[p]]_vars

----------------------------------------------------------------------------
(* Refinement: a push takes effect when its copy starts, which no cycle can *)
(* observe before the copy is published.                                    *)

Mailbox == INSTANCE PushMailbox WITH
  Boxes <- InPorts,
  put <- [p \in InPorts |-> IF push.phase = "copying" /\ push.port = p
                              THEN push.val ELSE pushed_pts[p]],
  got <- [p \in InPorts |-> mem[p][delivered_data[p]]]

\* Each push is delivered at most once, in push order, and a cycle that takes
\* one takes the most recent.
PushesAreAMailbox == Mailbox!Spec
============================================================================
