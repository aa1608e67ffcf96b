---------------------------- MODULE FilterEvents ----------------------------
(***************************************************************************)
(* Event ports of a filter: events pushed to input ports from any thread   *)
(* and to output ports from the callback, the processing cycle over these  *)
(* ports, and the memory the staged events own.                            *)
(*                                                                         *)
(* This is pwf_filter_on_process() restricted to event ports: they share   *)
(* push_lock, the loop and its order with the ports of FilterCycle and     *)
(* nothing else.  Each pushed event has a number of its own, which names   *)
(* the heap copy of its payload.                                           *)
(*                                                                         *)
(* As in FilterCycle, nothing uses a definition Name_Bug: it is Name with  *)
(* a bug that a property below catches.                                    *)
(***************************************************************************)
EXTENDS Integers, Sequences, FiniteSets, SequencesExt

CONSTANTS
  NPorts,           \* the event ports are 1..NPorts, in the order of ports[]
  InPorts,          \* the input ports among them; the others are outputs
  UnmappedPorts,    \* ports whose pool may hand out a buffer without data
  Threads,          \* application threads that push
  Buffers,          \* the PipeWire buffers in each port's pool
  ArrayA, ArrayB,   \* the two arrays that pending/delivering swap between
  NULL,
  Sequence0,        \* encoded size of an empty control sequence
  Sizes,            \* what one event can add to it
  Capacities,       \* maxsize of the output buffers
  GraphSequences,   \* control sequences the graph may send
  MaxEvents         \* bound: events pushed in a behaviour

Ports  == 1..NPorts
Arrays == {ArrayA, ArrayB}

ASSUME EventPortsAssumption ==
  /\ NPorts \in Nat \ {0}
  /\ InPorts \subseteq Ports
  /\ UnmappedPorts \subseteq Ports
  /\ MaxEvents \in Nat
  /\ ArrayA # ArrayB
  /\ NULL \notin Buffers
  /\ {"none", "cycle", "callback"} \cap Threads = {}

\* An output buffer always has room for a sequence without events.
ASSUME SizesAssumption ==
  /\ Sequence0 \in Nat \ {0}
  /\ Sizes \subseteq Nat \ {0}
  /\ \A c \in Capacities : c \in Nat /\ c >= Sequence0

VARIABLES
  active,
  (* staging: input ports' pending_events are guarded by push_lock *)
  push_lock,
  push,             \* the event the owner of push_lock is pushing
  push_waits,       \* "callback" while the callback waits for push_lock
  array,            \* entries of each array of each port, live or stale
  pending_events, n_pending_events,
  delivering_events, n_delivering_events,
  heap,             \* events whose payload copy is allocated
  (* the data thread *)
  cyc, next, staged,
  incoming_events,  \* what pwf_filter_port_get_event() reads
  dequeued,
  event_output_capacity,
  (* the graph *)
  avail, ready,
  mapped,           \* buffers that have data
  content,          \* input: the control sequence in a buffer; output: the
                    \* events encoded into it
  maxsize,          \* of an output buffer
  (* bounding and history *)
  lastId,           \* events pushed so far
  pushed,           \* events each input port accepted
  delivered,        \* pushed events each input port's callback has seen
  accepted          \* events this cycle's callback pushed to output ports

arrayVars   == <<array, pending_events, n_pending_events, delivering_events,
                 n_delivering_events, heap>>
cycleVars   == <<cyc, next, staged, push_waits>>
portVars    == <<incoming_events, dequeued, event_output_capacity>>
poolVars    == <<avail, ready, mapped, content, maxsize>>
historyVars == <<pushed, delivered, accepted>>

vars == <<active, push_lock, push, arrayVars, cycleVars, portVars, poolVars,
          lastId, historyVars>>

----------------------------------------------------------------------------

Callers == Threads \cup {"callback"}
NoPush  == [port |-> 1, id |-> 0]

\* Control kinds the graph can put in a sequence, as the events they become.
Known     == -1     \* MIDI or OSC bytes, or a property in the vocabulary
Foreign   == -2     \* any other control type: delivered as PWF_EVENT_UNKNOWN
Malformed == -3     \* bytes that do not parse, a property outside it: skipped
Controls  == {Known, Foreign, Malformed}

\* pwf_filter_event_decode(), control by control
Decoded(events, c) == IF c = Malformed THEN events ELSE Append(events, c)
Decode(controls)   == FoldLeft(Decoded, <<>>, controls)

Entry == [id : Nat, size : Nat]
Ids(s) == [k \in 1..Len(s) |-> s[k].id]

\* The first n entries of an array, which are the live ones.
Live(p, a, n) == SubSeq(array[p][a], 1, n)
Pending(p)    == Live(p, pending_events[p], n_pending_events[p])
Delivering(p) == Live(p, delivering_events[p], n_delivering_events[p])

\* pwf_filter_event_encode(): the size a sequence of these events takes.
EncodedSize(s) ==
  Sequence0 + FoldLeft(LAMBDA sum, e : sum + e.size, 0, s)

ASSUME GraphAssumption == GraphSequences \subseteq Seq(Controls)

\* What a buffer carries: controls of the graph, or encoded events.
Contents == Seq(Nat \cup Controls)

ArrayType ==
  /\ array \in [Ports -> [Arrays -> Seq(Entry)]]
  /\ pending_events \in [Ports -> Arrays]
  /\ delivering_events \in [Ports -> Arrays]
  /\ n_pending_events \in [Ports -> Nat]
  /\ n_delivering_events \in [Ports -> Nat]
  /\ \A p \in Ports :
       /\ n_pending_events[p] <= Len(array[p][pending_events[p]])
       /\ n_delivering_events[p] <= Len(array[p][delivering_events[p]])
  /\ heap \subseteq 1..lastId

CycleType ==
  /\ active \in BOOLEAN
  /\ push_lock \in {"none", "cycle"} \cup Callers
  /\ push \in [port : Ports, id : Nat]
  /\ push_waits \in {"none", "callback"}
  /\ cyc \in {"idle", "stage", "callback"}
  /\ next \in 1..(NPorts + 1)
  /\ staged \in BOOLEAN
  /\ lastId \in 0..MaxEvents

PoolType ==
  /\ dequeued \in [Ports -> Buffers \cup {NULL}]
  /\ event_output_capacity \in [Ports -> Capacities \cup {0}]
  /\ avail \in [Ports -> SUBSET Buffers]
  /\ ready \in [Ports -> SUBSET Buffers]
  /\ mapped \in [Ports -> SUBSET Buffers]
  /\ content \in [Ports -> [Buffers -> Contents]]
  /\ maxsize \in [Ports -> [Buffers -> Capacities \cup {0}]]

HistoryType ==
  /\ pushed \in [Ports -> Seq(Nat)]
  /\ delivered \in [Ports -> Seq(Nat)]
  /\ accepted \in [Ports -> Seq(Nat)]

\* incoming_events holds what Decode() or Staged() makes.
TypeOK == ArrayType /\ CycleType /\ PoolType /\ HistoryType

Init ==
  /\ active = FALSE
  /\ push_lock = "none"
  /\ push = NoPush
  /\ push_waits = "none"
  /\ array = [p \in Ports |-> [a \in Arrays |-> <<>>]]
  /\ pending_events = [p \in Ports |-> ArrayA]
  /\ n_pending_events = [p \in Ports |-> 0]
  /\ delivering_events = [p \in Ports |-> ArrayB]
  /\ n_delivering_events = [p \in Ports |-> 0]
  /\ heap = {}
  /\ cyc = "idle"
  /\ next = 1
  /\ staged = FALSE
  /\ incoming_events = [p \in Ports |-> <<>>]
  /\ dequeued = [p \in Ports |-> NULL]
  /\ event_output_capacity = [p \in Ports |-> 0]
  /\ avail = [p \in Ports |-> Buffers]
  /\ ready = [p \in Ports |-> {}]
  /\ mapped = [p \in Ports |-> Buffers]
  /\ content = [p \in Ports |-> [b \in Buffers |-> <<>>]]
  /\ maxsize = [p \in Ports |-> [b \in Buffers |-> 0]]
  /\ lastId = 0
  /\ pushed = [p \in Ports |-> <<>>]
  /\ delivered = [p \in Ports |-> <<>>]
  /\ accepted = [p \in Ports |-> <<>>]

----------------------------------------------------------------------------
(* pwf_filter_port_push_event() *)

\* The entry goes behind the stale ones.
Appended_AfterStale(p, e) == [array EXCEPT ![p][pending_events[p]] = Append(@, e)]

\* pwf_filter_pending_event_append(): the entry goes after the live ones, over
\* whatever stale entry is there.
Appended(p, e) ==
  LET a == pending_events[p]
      n == n_pending_events[p]
  IN  [array EXCEPT ![p][a] = IF n < Len(@) THEN [@ EXCEPT ![n + 1] = e]
                                            ELSE Append(@, e)]

\* The callback is in its own code: it neither waits for push_lock nor has it.
InCallback ==
  /\ cyc = "callback"
  /\ push_waits = "none"
  /\ push_lock # "callback"

\* Input port, pushed from the callback: it runs on the data thread, which
\* from here on waits in pthread_mutex_lock() until PushLock("callback", p).
PushCall ==
  /\ InCallback
  /\ lastId < MaxEvents
  /\ push_waits' = "callback"
  /\ UNCHANGED <<active, push_lock, push, arrayVars, cyc, next, staged,
                 portVars, poolVars, lastId, historyVars>>

\* The bound leaves the callback that waits an event of its own.
Room(c) ==
  IF c = "callback" \/ push_waits = "none" THEN lastId < MaxEvents
                                          ELSE lastId + 1 < MaxEvents

\* Input port: the caller gets push_lock.  That another thread has to wait for
\* it is the guard: nothing depends on when it began to.
PushLock(c, p) ==
  /\ c = "callback" => push_waits = "callback"
  /\ push_lock = "none"
  /\ Room(c)
  /\ push_lock' = c
  /\ push_waits' = IF c = "callback" THEN "none" ELSE push_waits
  /\ push' = [port |-> p, id |-> lastId + 1]
  /\ lastId' = lastId + 1
  /\ UNCHANGED <<active, arrayVars, cyc, next, staged, portVars, poolVars,
                 historyVars>>

\* The array or the payload could not be allocated: PWF_ERR_NO_MEMORY.
PushNoMemory ==
  /\ push_lock \in Callers
  /\ push_lock' = "none"
  /\ push' = NoPush
  /\ UNCHANGED <<active, arrayVars, cycleVars, portVars, poolVars, lastId,
                 historyVars>>

PushAppend ==
  /\ push_lock \in Callers
  /\ LET p == push.port
     IN  /\ array' = Appended(p, [id |-> push.id, size |-> 0])
         /\ n_pending_events' = [n_pending_events EXCEPT ![p] = @ + 1]
         /\ pushed' = [pushed EXCEPT ![p] = Append(@, push.id)]
  /\ heap' = heap \cup {push.id}
  /\ push_lock' = "none"
  /\ push' = NoPush
  /\ UNCHANGED <<active, pending_events, delivering_events,
                 n_delivering_events, cycleVars, portVars, poolVars, lastId,
                 delivered, accepted>>

PushStep == PushNoMemory \/ PushAppend

\* The capacity check, made on the sequence the new event is already part of.
Fits_Before(p, e) == EncodedSize(Pending(p)) <= event_output_capacity[p]
Fits(p, e) == EncodedSize(Append(Pending(p), e)) <= event_output_capacity[p]

\* Output port, from the callback and so without a lock: the event is appended
\* and kept if the encoded sequence still fits, else popped again.
PushOutput(p, size) ==
  /\ InCallback
  /\ lastId < MaxEvents
  /\ lastId' = lastId + 1
  /\ LET e == [id |-> lastId + 1, size |-> size]
     IN  /\ array' = Appended(p, e)
         /\ IF Fits(p, e)
              THEN /\ n_pending_events' = [n_pending_events EXCEPT ![p] = @ + 1]
                   /\ heap' = heap \cup {e.id}
                   /\ accepted' = [accepted EXCEPT ![p] = Append(@, e.id)]
              ELSE UNCHANGED <<n_pending_events, heap, accepted>>
  /\ UNCHANGED <<active, push_lock, push, pending_events, delivering_events,
                 n_delivering_events, cycleVars, portVars, poolVars, pushed,
                 delivered>>

\* It could not be appended: PWF_ERR_NO_MEMORY, and nothing to pop.
PushOutputNoMemory ==
  /\ InCallback
  /\ lastId < MaxEvents
  /\ lastId' = lastId + 1
  /\ UNCHANGED <<active, push_lock, push, arrayVars, cycleVars, portVars,
                 poolVars, historyVars>>

----------------------------------------------------------------------------
(* The graph: sends a control sequence, or returns an output buffer *)

GraphFill(p, b) ==
  /\ b \in avail[p]
  /\ avail' = [avail EXCEPT ![p] = @ \ {b}]
  /\ ready' = [ready EXCEPT ![p] = @ \cup {b}]
  /\ \/ /\ p \in InPorts
        /\ \E s \in GraphSequences : content' = [content EXCEPT ![p][b] = s]
        /\ mapped' = [mapped EXCEPT ![p] = @ \cup {b}]
        /\ UNCHANGED maxsize
     \/ /\ p \notin InPorts
        /\ \E c \in Capacities : maxsize' = [maxsize EXCEPT ![p][b] = c]
        /\ content' = [content EXCEPT ![p][b] = <<>>]
        /\ mapped' = [mapped EXCEPT ![p] = @ \cup {b}]
     \/ /\ p \in UnmappedPorts
        /\ mapped' = [mapped EXCEPT ![p] = @ \ {b}]
        /\ UNCHANGED <<content, maxsize>>
  /\ UNCHANGED <<active, push_lock, push, arrayVars, cycleVars, portVars,
                 lastId, historyVars>>

----------------------------------------------------------------------------
(* pwf_filter_on_process() *)

CycleBegin_Blocks ==
  /\ active
  /\ cyc = "idle"
  /\ push_lock = "none"
  /\ cyc' = "stage"
  /\ next' = 1
  /\ staged' = TRUE
  /\ push_lock' = "cycle"
  /\ UNCHANGED <<active, push, push_waits, arrayVars, portVars, poolVars,
                 lastId, historyVars>>

\* The trylock never waits: a push that holds the lock postpones staging.
CycleBegin ==
  /\ active
  /\ cyc = "idle"
  /\ cyc' = "stage"
  /\ next' = 1
  /\ staged' = (push_lock = "none")
  /\ push_lock' = IF push_lock = "none" THEN "cycle" ELSE push_lock
  /\ UNCHANGED <<active, push, push_waits, arrayVars, portVars, poolVars,
                 lastId, historyVars>>

Staging(p) ==
  /\ cyc = "stage"
  /\ p = next
  /\ next' = next + 1
  /\ UNCHANGED <<active, push_lock, push, push_waits, cyc, staged, avail,
                 mapped, content, maxsize, lastId, pushed, accepted>>

PushWaits_GraphFirst(p) == staged /\ n_pending_events[p] > 0 /\ ready[p] = {}
PushWaits(p) == staged /\ n_pending_events[p] > 0

\* What a cycle delivers, or encodes, from the pending array.
Staged_WithStale(p) == Ids(array[p][pending_events[p]])
Staged(p) == Ids(Pending(p))

\* take_pending(), then load_delivering_as_incoming(): the arrays swap, and
\* what was pending is this cycle's input instead of a sequence of the graph.
StagePushed(p) ==
  /\ Staging(p)
  /\ p \in InPorts
  /\ PushWaits(p)
  /\ delivering_events' = [delivering_events EXCEPT ![p] = pending_events[p]]
  /\ pending_events' = [pending_events EXCEPT ![p] = delivering_events[p]]
  /\ n_delivering_events' = [n_delivering_events EXCEPT ![p] = n_pending_events[p]]
  /\ n_pending_events' = [n_pending_events EXCEPT ![p] = 0]
  /\ incoming_events' = [incoming_events EXCEPT ![p] = Staged(p)]
  /\ delivered' = [delivered EXCEPT ![p] = @ \o Staged(p)]
  /\ UNCHANGED <<array, heap, dequeued, event_output_capacity, ready>>

NothingPushed(p) == ~ PushWaits(p) /\ n_delivering_events[p] = 0

\* A sequence of the graph, decoded in place: the buffer is kept to cycle end.
StageSequence(p, b) ==
  /\ Staging(p)
  /\ p \in InPorts
  /\ NothingPushed(p)
  /\ b \in ready[p] \cap mapped[p]
  /\ ready' = [ready EXCEPT ![p] = @ \ {b}]
  /\ dequeued' = [dequeued EXCEPT ![p] = b]
  /\ incoming_events' = [incoming_events EXCEPT ![p] = Decode(content[p][b])]
  /\ UNCHANGED <<arrayVars, event_output_capacity, delivered>>

\* A dequeued buffer that dequeued[] does not remember is not requeued.
Forgets(p, b) ==
  /\ b \in ready[p] \ mapped[p]
  /\ ready' = [ready EXCEPT ![p] = @ \ {b}]

StageNothing(p) ==
  /\ Staging(p)
  /\ p \in InPorts
  /\ NothingPushed(p)
  /\ \/ ready[p] = {} /\ UNCHANGED ready
     \/ \E b \in Buffers : Forgets(p, b)
  /\ incoming_events' = [incoming_events EXCEPT ![p] = <<>>]
  /\ UNCHANGED <<arrayVars, dequeued, event_output_capacity, delivered>>

\* Pending output events are forgotten, not freed: there are none by now.  A
\* push is measured against the buffer dequeued here, or refused without one.
StageOutput(p) ==
  /\ Staging(p)
  /\ p \notin InPorts
  /\ n_pending_events' = [n_pending_events EXCEPT ![p] = 0]
  /\ \/ \E b \in ready[p] \cap mapped[p] :
          /\ ready' = [ready EXCEPT ![p] = @ \ {b}]
          /\ dequeued' = [dequeued EXCEPT ![p] = b]
          /\ event_output_capacity' =
               [event_output_capacity EXCEPT ![p] = maxsize[p][b]]
     \/ /\ \/ ready[p] = {} /\ UNCHANGED ready
           \/ \E b \in Buffers : Forgets(p, b)
        /\ event_output_capacity' = [event_output_capacity EXCEPT ![p] = 0]
        /\ UNCHANGED dequeued
  /\ UNCHANGED <<array, pending_events, delivering_events, n_delivering_events,
                 heap, incoming_events, delivered>>

StagePort(p) ==
  \/ StagePushed(p)
  \/ \E b \in Buffers : StageSequence(p, b)
  \/ StageNothing(p)
  \/ StageOutput(p)

StageEnd ==
  /\ cyc = "stage"
  /\ next = NPorts + 1
  /\ cyc' = "callback"
  /\ push_lock' = IF staged THEN "none" ELSE push_lock
  /\ UNCHANGED <<active, push, push_waits, arrayVars, next, staged, portVars,
                 poolVars, lastId, historyVars>>

\* The payloads clear_delivering() and clear_pending() free at cycle end.
Freed_Pending(p) == ToSet(Ids(Pending(p)))
Freed(p) ==
  ToSet(Ids(IF p \in InPorts THEN Delivering(p) ELSE Pending(p)))

\* The buffer it requeues.
Returned_InputOnly(p) == IF p \in InPorts THEN {dequeued[p]} \ {NULL} ELSE {}
Returned(p) == {dequeued[p]} \ {NULL}

\* The callback returns: delivered events are freed, output events are encoded
\* into the dequeued buffer and freed, and dequeued buffers are requeued.
CycleEnd ==
  /\ InCallback
  /\ cyc' = "idle"
  /\ next' = 1
  /\ staged' = FALSE
  /\ heap' = heap \ UNION {Freed(p) : p \in Ports}
  /\ n_delivering_events' = [p \in Ports |->
        IF p \in InPorts THEN 0 ELSE n_delivering_events[p]]
  /\ n_pending_events' = [p \in Ports |->
        IF p \in InPorts THEN n_pending_events[p] ELSE 0]
  /\ content' = [p \in Ports |-> [b \in Buffers |->
        IF p \notin InPorts /\ b = dequeued[p]
          THEN Staged(p) ELSE content[p][b]]]
  /\ avail' = [p \in Ports |-> avail[p] \cup Returned(p)]
  /\ dequeued' = [p \in Ports |-> NULL]
  /\ accepted' = [p \in Ports |-> <<>>]
  /\ UNCHANGED <<active, push_lock, push, push_waits, array, pending_events,
                 delivering_events, incoming_events, event_output_capacity,
                 ready, mapped, maxsize, lastId, pushed, delivered>>

CycleStep ==
  CycleBegin \/ (\E p \in Ports : StagePort(p)) \/ StageEnd \/ CycleEnd

----------------------------------------------------------------------------
(* pwf_filter_start() and pwf_filter_stop(): staged events survive a stop *)

SetActive(on) ==
  /\ active # on
  /\ cyc = "idle"
  /\ active' = on
  /\ UNCHANGED <<push_lock, push, arrayVars, cycleVars, portVars, poolVars,
                 lastId, historyVars>>

Next ==
  \/ PushCall
  \/ \E c \in Callers, p \in InPorts : PushLock(c, p)
  \/ PushStep
  \/ \E p \in Ports \ InPorts, size \in Sizes : PushOutput(p, size)
  \/ PushOutputNoMemory
  \/ \E p \in Ports, b \in Buffers : GraphFill(p, b)
  \/ CycleStep
  \/ \E on \in BOOLEAN : SetActive(on)

Spec == Init /\ [][Next]_vars

\* The data thread is scheduled, inside the callback's own pushes too: it
\* takes push_lock once that is free.  An application thread may stall
\* forever, even while it owns push_lock.
FairSpec ==
  /\ Spec
  /\ WF_vars(CycleStep)
  /\ WF_vars(\E p \in InPorts : PushLock("callback", p))
  /\ WF_vars(push_lock = "callback" /\ PushStep)

----------------------------------------------------------------------------
(* Safety *)

\* The events that own a payload, port by port.
Owned(p) == Ids(Pending(p)) \o Ids(Delivering(p))

\* Every payload has one owner and every owner an allocated payload: swapping
\* the arrays, popping a rejected event and freeing at cycle end neither leak
\* a copy nor free one twice.
PayloadsOwnedOnce ==
  /\ heap = UNION {ToSet(Owned(p)) : p \in Ports}
  /\ \A p \in Ports : IsInjective(Owned(p))
  /\ \A p, q \in Ports :
       p # q => ToSet(Owned(p)) \cap ToSet(Owned(q)) = {}

\* An event the callback reads still has its payload: a pushed one its heap
\* copy, a decoded one the buffer it was decoded from.
IncomingAlive ==
  cyc = "callback" =>
    \A p \in InPorts : \A k \in 1..Len(incoming_events[p]) :
      IF incoming_events[p][k] \in Controls
        THEN dequeued[p] # NULL
        ELSE incoming_events[p][k] \in heap

\* Output: what a push was told is accepted fits the buffer of this cycle, so
\* encoding at cycle end never truncates, and without a buffer nothing was.
AcceptedFits ==
  cyc = "callback" =>
    \A p \in Ports \ InPorts :
      /\ Ids(Pending(p)) = accepted[p]
      /\ dequeued[p] # NULL => EncodedSize(Pending(p)) <= maxsize[p][dequeued[p]]
      /\ dequeued[p] = NULL => accepted[p] = <<>>

\* The buffer that goes back to the graph carries the accepted events of this
\* cycle in push order, and no event of an earlier one.
PublishesAccepted ==
  [][\A p \in Ports \ InPorts :
       (dequeued[p] # NULL /\ dequeued'[p] = NULL) =>
         content'[p][dequeued[p]] = accepted[p]]_vars

\* A buffer is with the graph, queued, or dequeued, once, and comes back if it
\* has data.
EventPoolConserved ==
  \A p \in Ports :
    /\ avail[p] \cap ready[p] = {}
    /\ dequeued[p] \notin avail[p] \cup ready[p]
    /\ p \notin UnmappedPorts =>
         avail[p] \cup ready[p] \cup ({dequeued[p]} \ {NULL}) = Buffers

----------------------------------------------------------------------------
(* Refinement and liveness *)

Queue == INSTANCE EventQueue WITH
  Queues <- InPorts,
  Events <- 1..MaxEvents,
  pushed <- [p \in InPorts |-> pushed[p]],
  delivered <- [p \in InPorts |-> delivered[p]]

\* Input events are delivered in push order, exactly once, and a cycle that
\* delivers any delivers all that were pushed.
EventsAreAQueue == Queue!Spec

\* The data thread, in a push of its own, waits for another thread's.
Blocked == push_waits = "callback" /\ push_lock \in Threads

\* Staging never waits for a push: a filter that runs calls its callback even
\* if the thread that owns push_lock is never scheduled again.  The one thing
\* that keeps a cycle from ending is a callback that pushes to an input port
\* itself and finds the lock with a thread that never gives it back.
CycleCompletes ==
  /\ active ~> (cyc = "callback" \/ ~ active)
  /\ cyc = "callback" ~> (cyc = "idle" \/ []Blocked)

\* If the thread that owns push_lock also finishes its push, then an event
\* staged on an input port is delivered while the filter keeps running.  The
\* lock may be contended at some cycles, but pushes are finitely many
\* (MaxEvents).
EventDelivered ==
  WF_vars(PushStep) =>
    \A p \in InPorts :
      n_pending_events[p] > 0 ~> (n_pending_events[p] = 0 \/ ~ active)
============================================================================
