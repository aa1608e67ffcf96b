------------------------------- MODULE Stream -------------------------------
(***************************************************************************)
(* One capture or playback stream (pwf_stream.c, pwf_buffer.c,             *)
(* pwf_stream_dmabuf.c, pwf_stream_playback.c, pwf_rate_limit.c and the    *)
(* setters of its format): configuring, starting, draining, stopping and   *)
(* destroying it, losing its source, and its cycles.                       *)
(*                                                                         *)
(* The application thread's calls are cut where they take or drop the loop *)
(* lock.  The loop thread's handlers, and the error callback they call,    *)
(* run with the lock held.  The data thread never takes it; PipeWire       *)
(* changes a node's activity, drains and destroys between two cycles.      *)
(* A buffer's bytes are those of this cycle's callback, silence, or stale. *)
(* Time counts ticks, one frame of the format each.                        *)
(*                                                                         *)
(* Nothing uses a definition Name_Bug.                                     *)
(***************************************************************************)
EXTENDS Naturals, FiniteSetsExt

CONSTANTS
  Buffers,          \* the pool of the pw_stream
  NULL,
  FrameSize,        \* bytes_per_frame of the format
  RegionSize,       \* bytes in a buffer (maxsize)
  Requests,         \* frames the graph may ask for; 0: it does not say
  LogInterval,      \* PWF_LOG_INTERVAL_NS
  MaxClock,         \* bound: time
  MaxCycles         \* bound: calls of the process function

ASSUME StreamAssumption ==
  /\ NULL \notin Buffers
  /\ FrameSize \in Nat \ {0}
  /\ RegionSize \in Nat /\ RegionSize >= FrameSize
  /\ Requests \subseteq Nat
  /\ LogInterval \in Nat \ {0}
  /\ MaxClock \in Nat \ {0} /\ MaxCycles \in Nat

VARIABLES
  (* struct pwf_stream *)
  direction, state, format_set, use_dmabuf, drained,
  current_dmabuf_buf, dmabuf_retrieved,
  limiter,          \* per repeated condition: the last log, the suppressed
  (* the threads *)
  call,             \* the application thread
  loop,             \* the loop thread: "idle", or in the error callback
  cyc,              \* the data thread
  (* PipeWire *)
  pw,               \* pw_stream
  drain,            \* a flush with drain: "no", "asked", "done"
  drain_event,      \* .drained is due
  where,            \* each buffer: "free", "ready", "held", "queued"
  content,          \* each buffer: what the last cycle made of it
  clock, cycles,
  (* history *)
  lost,             \* the source was lost since the last start
  reports,          \* error callbacks since the last start
  refused, warned,  \* on this pw_stream: DMABUF format cleared; warned of it
  timedOut,         \* some drain of a playback stream timed out
  printed           \* per repeated condition: what the log says of it

flagVars   == <<format_set, use_dmabuf, drained>>
ownVars    == <<state, flagVars>>
drainVars  == <<drain, drain_event>>
nodeVars   == <<loop, pw, drainVars>>
warnVars   == <<refused, warned, timedOut>>
lossVars   == <<lost, reports, warnVars>>
dmabufVars == <<current_dmabuf_buf, dmabuf_retrieved>>
bufVars    == <<where, content>>
logVars    == <<limiter, printed>>
timeVars   == <<clock, cycles>>
threadVars == <<direction, ownVars, call, nodeVars, lossVars>>
cycleVars  == <<direction, dmabufVars, logVars, cyc, bufVars, timeVars>>
vars == <<threadVars, cycleVars>>

----------------------------------------------------------------------------

\* The conditions that would be logged every cycle.
Conditions == {"overrun", "unusable", "unretrieved"}

Bytes == {"app", "silence", "stale"}
Stale == [i \in 1..RegionSize |-> "stale"]
Nothing == [asked |-> 0, frames |-> 0, size |-> 0, bytes |-> Stale]

NoPw == [st |-> "none", active |-> FALSE, format |-> FALSE, memory |-> "none"]

Idle == [pc |-> "idle", op |-> "none", flag |-> FALSE]
NoCycle == [pc |-> "idle", buffer |-> NULL, requested |-> 0, started |-> 0]

StreamType ==
  /\ direction \in {"capture", "playback"}
  /\ state \in {"CREATED", "FORMAT_SET", "RUNNING", "STOPPED"}
  /\ format_set \in BOOLEAN /\ use_dmabuf \in BOOLEAN /\ drained \in BOOLEAN

CallType ==
  /\ call \in [pc : {"idle", "replace", "connect", "connected", "started", "stop",
                     "draining", "paused", "destroying", "teardown", "teardown_locked",
                     "destroyed"},
               op : {"none", "config", "start", "stop", "destroy"}, flag : BOOLEAN]
  /\ (call.pc = "idle") => call = Idle

NodeType ==
  /\ loop \in {"idle", "callback"}
  /\ pw \in [st : {"none", "connecting", "paused", "streaming", "error", "unconnected"},
             active : BOOLEAN, format : BOOLEAN,
             memory : {"none", "mapped", "unmapped", "dmabuf"}]
  /\ drain \in {"no", "asked", "done"} /\ drain_event \in BOOLEAN

BufferType ==
  /\ current_dmabuf_buf \in Buffers \cup {NULL} /\ dmabuf_retrieved \in BOOLEAN
  /\ cyc \in [pc : {"idle", "callback"}, buffer : Buffers \cup {NULL},
              requested : Requests \cup {0}, started : Nat]
  /\ where \in [Buffers -> {"free", "ready", "held", "queued"}]
  /\ content \in [Buffers -> [asked : Requests \cup {0}, frames : Nat, size : 0..RegionSize,
                              bytes : [1..RegionSize -> Bytes]]]

LogType ==
  /\ limiter \in [Conditions -> [last : Nat, suppressed : Nat]]
  /\ printed \in [Conditions -> [lines : Nat, announced : Nat, occurred : Nat]]
  /\ clock \in 1..MaxClock /\ cycles \in 0..MaxCycles

HistoryType ==
  /\ lost \in BOOLEAN /\ reports \in Nat
  /\ refused \in BOOLEAN /\ warned \in BOOLEAN /\ timedOut \in BOOLEAN

TypeOK ==
  /\ StreamType /\ CallType /\ NodeType /\ BufferType /\ LogType /\ HistoryType

Init ==
  /\ direction \in {"capture", "playback"}
  /\ state = "CREATED" /\ format_set = FALSE
  /\ use_dmabuf = FALSE /\ drained = FALSE
  /\ current_dmabuf_buf = NULL /\ dmabuf_retrieved = FALSE
  /\ limiter = [k \in Conditions |-> [last |-> 0, suppressed |-> 0]]
  /\ call = Idle /\ loop = "idle" /\ cyc = NoCycle
  /\ pw = NoPw /\ drain = "no" /\ drain_event = FALSE
  /\ where = [b \in Buffers |-> "free"]
  /\ content = [b \in Buffers |-> Nothing]
  /\ clock = 1 /\ cycles = 0
  /\ lost = FALSE /\ reports = 0 /\ refused = FALSE /\ warned = FALSE
  /\ timedOut = FALSE
  /\ printed = [k \in Conditions |-> [lines |-> 0, announced |-> 0, occurred |-> 0]]

Exists    == pw.st # "none"
LockFree  == loop = "idle"
BetweenCycles == cyc.pc = "idle"

----------------------------------------------------------------------------
(* Losing the source.  A handler reports it once, for a running stream;    *)
(* the error callback then runs on the same thread.                        *)

Report_Running ==
  IF state = "RUNNING"
    THEN loop' = "callback" /\ reports' = reports + 1 /\ UNCHANGED state
    ELSE UNCHANGED <<state, loop, reports>>

Report ==
  IF state = "RUNNING"
    THEN state' = "STOPPED" /\ loop' = "callback" /\ reports' = reports + 1
    ELSE UNCHANGED <<state, loop, reports>>

LostSource(old, new) ==
  new \in {"error", "unconnected"} /\ old \in {"streaming", "paused"}

\* pwf_stream_on_param_changed(): a capture stream only, and only with DMABUF.
Negotiates == direction = "capture" /\ use_dmabuf

\* pw_stream_destroy() may clear the format and disconnect, and the handlers
\* are called for both.
DestroyPw ==
  \E cleared \in {FALSE, pw.format} :
    /\ pw' = NoPw
    /\ drain' = "no" /\ drain_event' = FALSE
    /\ where' = [b \in Buffers |-> "free"]
    /\ content' = [b \in Buffers |-> Nothing]
    /\ warned' = (warned \/ (cleared /\ Negotiates))
    /\ IF LostSource(pw.st, "unconnected") \/ (cleared /\ Negotiates)
         THEN Report
         ELSE UNCHANGED <<state, loop, reports>>
    /\ UNCHANGED <<direction, dmabufVars, logVars, cyc, timeVars, lost, refused, timedOut>>

----------------------------------------------------------------------------
(* The application thread.  A format is set while the stream is not        *)
(* running, as the headers ask; the stream is not configured or destroyed  *)
(* by one thread while its error callback runs on another.                 *)

Goto(pc) == call' = [call EXCEPT !.pc = pc]

\* use_dmabuf is cleared before an older pw_stream is destroyed.
FlagAtReplace_Kept == use_dmabuf

FlagAtReplace == use_dmabuf /\ ~ Exists

SetConfig(dmabuf) ==
  /\ call = Idle /\ LockFree
  /\ state # "RUNNING"
  /\ dmabuf => direction = "capture"
  /\ call' = [pc |-> IF Exists THEN "replace" ELSE "connect", op |-> "config",
              flag |-> dmabuf]
  /\ use_dmabuf' = FlagAtReplace
  /\ UNCHANGED <<state, format_set, drained, nodeVars, cycleVars, lossVars>>

Replace ==
  /\ call.pc = "replace" /\ LockFree /\ BetweenCycles
  /\ DestroyPw
  /\ Goto("connect")
  /\ UNCHANGED flagVars

ConnectFails ==
  /\ call.pc = "connect" /\ LockFree
  /\ call' = Idle
  /\ UNCHANGED <<ownVars, nodeVars, cycleVars, lossVars>>

Connect ==
  /\ call.pc = "connect" /\ LockFree
  /\ pw' = [NoPw EXCEPT !.st = "connecting",
                        !.memory = IF call.flag THEN "unmapped" ELSE "mapped"]
  /\ use_dmabuf' = call.flag
  /\ refused' = FALSE /\ warned' = FALSE
  /\ Goto("connected")
  /\ UNCHANGED <<state, format_set, drained, loop, drainVars, cycleVars, lost, reports, timedOut>>

ConfigReturn ==
  /\ call.pc = "connected"
  /\ format_set' = TRUE
  /\ state' = "FORMAT_SET"
  /\ call' = Idle
  /\ UNCHANGED <<use_dmabuf, drained, nodeVars, cycleVars, lossVars>>

\* pw_stream_set_active(): activating ends a drain that is done, pausing any.
SetActive(on) ==
  /\ BetweenCycles
  /\ pw' = [pw EXCEPT !.active = on]
  /\ drain' = IF ~ on \/ drain = "done" THEN "no" ELSE drain
  /\ UNCHANGED drain_event

StartLocked ==
  /\ call = Idle /\ LockFree
  /\ format_set /\ Exists
  /\ SetActive(TRUE)
  /\ call' = [pc |-> "started", op |-> "start", flag |-> FALSE]
  /\ UNCHANGED <<ownVars, loop, cycleVars, lossVars>>

\* RUNNING is written after the lock is released.
StartReturn ==
  /\ call.pc = "started"
  /\ state' = "RUNNING"
  /\ lost' = FALSE /\ reports' = 0
  /\ call' = Idle
  /\ UNCHANGED <<flagVars, nodeVars, cycleVars, warnVars>>

\* Stopping a stream that is not running returns at once.
StopCall(wait) ==
  /\ call = Idle
  /\ state = "RUNNING"
  /\ call' = [pc |-> "stop", op |-> "stop", flag |-> wait]
  /\ UNCHANGED <<ownVars, nodeVars, cycleVars, lossVars>>

AtFlush_Kept == drained

AtFlush == FALSE    \* drained is reset under the lock, before the flush

StopFlush ==
  /\ call.pc = "stop" /\ call.flag /\ LockFree /\ BetweenCycles
  /\ drained' = AtFlush
  /\ drain' = "asked"
  /\ Goto("draining")
  /\ UNCHANGED <<state, format_set, use_dmabuf, loop, pw, drain_event, cycleVars, lossVars>>

Pause(late) ==
  /\ LockFree
  /\ SetActive(FALSE)
  /\ timedOut' = (timedOut \/ (late /\ direction = "playback"))
  /\ Goto("paused")
  /\ UNCHANGED <<ownVars, loop, cycleVars, lost, reports, refused, warned>>

StopNow     == call.pc = "stop" /\ ~ call.flag /\ Pause(FALSE)
StopDrained == call.pc = "draining" /\ drained /\ Pause(FALSE)
StopTimeout == call.pc = "draining" /\ Pause(TRUE)

\* STOPPED is written after the lock is released.
StopReturn ==
  /\ call.pc = "paused"
  /\ state' = "STOPPED"
  /\ call' = IF call.op = "destroy" THEN [call EXCEPT !.pc = "teardown"] ELSE Idle
  /\ UNCHANGED <<flagVars, nodeVars, cycleVars, lossVars>>

Destroy ==
  /\ call = Idle /\ LockFree
  /\ call' = [pc |-> IF state = "RUNNING" THEN "destroying" ELSE "teardown",
              op |-> "destroy", flag |-> FALSE]
  /\ UNCHANGED <<ownVars, nodeVars, cycleVars, lossVars>>

\* Its pwf_stream_stop() reads the state once more; the source may be lost between.
DestroyStop ==
  /\ call.pc = "destroying"
  /\ Goto(IF state = "RUNNING" THEN "stop" ELSE "teardown")
  /\ UNCHANGED <<ownVars, nodeVars, cycleVars, lossVars>>

\* pwf_stream_teardown()
Teardown ==
  /\ call.pc = "teardown"
  /\ use_dmabuf' = FALSE
  /\ Goto("teardown_locked")
  /\ UNCHANGED <<state, format_set, drained, nodeVars, cycleVars, lossVars>>

TeardownLocked ==
  /\ call.pc = "teardown_locked" /\ LockFree /\ BetweenCycles
  /\ DestroyPw
  /\ Goto("destroyed")
  /\ UNCHANGED flagVars

AppStep ==
  \/ \E on \in BOOLEAN : SetConfig(on) \/ StopCall(on)
  \/ Replace \/ Connect \/ ConnectFails \/ ConfigReturn
  \/ StartLocked \/ StartReturn
  \/ StopFlush \/ StopNow \/ StopDrained \/ StopTimeout \/ StopReturn
  \/ Destroy \/ DestroyStop \/ Teardown \/ TeardownLocked

----------------------------------------------------------------------------
(* The loop thread.  The changes of the pw_stream are external.            *)

Transitions ==
  {<<"connecting", "paused">>, <<"paused", "streaming">>, <<"streaming", "paused">>}
  \cup {"connecting", "paused", "streaming"} \X {"error"}
  \cup {"paused", "streaming"} \X {"unconnected"}

\* pwf_stream_on_state_changed()
OnStateChanged(new) ==
  /\ LockFree
  /\ <<pw.st, new>> \in Transitions
  /\ new = "streaming" => pw.active /\ pw.format
  /\ pw' = [pw EXCEPT !.st = new]
  /\ IF LostSource(pw.st, new) THEN lost' = TRUE /\ Report
                               ELSE UNCHANGED <<lost, state, loop, reports>>
  /\ UNCHANGED <<flagVars, call, drainVars, cycleVars, warnVars>>

\* pwf_stream_on_param_changed(): with a format, the DMABUF buffers are asked for.
OnFormat ==
  /\ LockFree
  /\ pw.st \in {"connecting", "paused", "streaming"}
  /\ ~ pw.format
  /\ pw' = [pw EXCEPT !.format = TRUE, !.memory = IF Negotiates THEN "dmabuf" ELSE @]
  /\ UNCHANGED <<ownVars, call, loop, drainVars, cycleVars, lossVars>>

OnFormatCleared ==
  /\ LockFree
  /\ Exists
  /\ pw' = [pw EXCEPT !.format = FALSE]
  /\ IF Negotiates
       THEN refused' = TRUE /\ warned' = TRUE /\ lost' = TRUE /\ Report
       ELSE UNCHANGED <<refused, warned, lost, state, loop, reports>>
  /\ UNCHANGED <<flagVars, call, drainVars, cycleVars, timedOut>>

OnDrained ==
  /\ LockFree
  /\ drain_event
  /\ drained' = TRUE
  /\ drain_event' = FALSE
  /\ UNCHANGED <<state, format_set, use_dmabuf, call, loop, pw, drain, cycleVars, lossVars>>

\* The error callback may start and stop the stream, without draining it.  It
\* does not start one that is being destroyed.
CallbackStart ==
  /\ loop = "callback" /\ call.op # "destroy"
  /\ format_set /\ Exists
  /\ SetActive(TRUE)
  /\ state' = "RUNNING"
  /\ lost' = FALSE /\ reports' = 0
  /\ UNCHANGED <<flagVars, call, loop, cycleVars, warnVars>>

CallbackStop ==
  /\ loop = "callback"
  /\ state = "RUNNING"
  /\ SetActive(FALSE)
  /\ state' = "STOPPED"
  /\ UNCHANGED <<flagVars, call, loop, cycleVars, lossVars>>

CallbackReturn ==
  /\ loop = "callback"
  /\ loop' = "idle"
  /\ UNCHANGED <<ownVars, call, pw, drainVars, cycleVars, lossVars>>

LoopStep ==
  \/ \E new \in {"paused", "streaming", "error", "unconnected"} : OnStateChanged(new)
  \/ OnFormat \/ OnFormatCleared \/ OnDrained
  \/ CallbackStart \/ CallbackStop \/ CallbackReturn

----------------------------------------------------------------------------
(* pwf_rate_limited() and the log line it admits, which tells how many     *)
(* occurrences were suppressed before it.                                  *)

Suppresses(l) == l.last # 0 /\ clock - l.last < LogInterval

Logged_KeepsCount(l) == [l EXCEPT !.last = clock]

\* The limiter after a line was logged.
Logged(l) == [last |-> clock, suppressed |-> 0]

Occurs(k) ==
  LET l == limiter[k] IN
  IF Suppresses(l)
    THEN /\ limiter' = [limiter EXCEPT ![k].suppressed = @ + 1]
         /\ printed' = [printed EXCEPT ![k].occurred = @ + 1]
    ELSE /\ limiter' = [limiter EXCEPT ![k] = Logged(l)]
         /\ printed' = [printed EXCEPT
              ![k] = [lines |-> @.lines + 1, announced |-> @.announced + l.suppressed,
                      occurred |-> @.occurred + 1]]

OccursIf(k, happened) == IF happened THEN Occurs(k) ELSE UNCHANGED logVars

----------------------------------------------------------------------------
(* The data thread: pwf_stream_on_process()                                *)

Streams == pw.st = "streaming" /\ pw.active

Processes(dir) ==
  /\ direction = dir
  /\ BetweenCycles
  /\ Streams /\ pw.format
  /\ cycles < MaxCycles
  /\ cycles' = cycles + 1

CaptureBegin(b) ==
  /\ Processes("capture")
  /\ where[b] = "ready"
  /\ pw.memory = IF use_dmabuf THEN "dmabuf" ELSE "mapped"
  /\ where' = [where EXCEPT ![b] = "held"]
  /\ cyc' = [NoCycle EXCEPT !.pc = "callback", !.buffer = b]
  /\ IF use_dmabuf THEN current_dmabuf_buf' = b /\ dmabuf_retrieved' = FALSE
                   ELSE UNCHANGED dmabufVars
  /\ UNCHANGED <<threadVars, logVars, content, clock>>

\* A buffer with nothing to read is queued back at once.
CaptureSkip(b) ==
  /\ Processes("capture")
  /\ where[b] = "ready"
  /\ where' = [where EXCEPT ![b] = "free"]
  /\ UNCHANGED <<threadVars, dmabufVars, logVars, cyc, content, clock>>

\* pwf_stream_get_dmabuf_planes() in the data callback
GetPlanes ==
  /\ cyc.pc = "callback"
  /\ current_dmabuf_buf # NULL
  /\ dmabuf_retrieved' = TRUE
  /\ UNCHANGED <<threadVars, current_dmabuf_buf, logVars, cyc, bufVars, timeVars>>

Current_Kept == current_dmabuf_buf

Current == NULL     \* cleared when the callback has returned

CaptureEnd ==
  /\ direction = "capture" /\ cyc.pc = "callback"
  /\ OccursIf("unretrieved", current_dmabuf_buf # NULL /\ ~ dmabuf_retrieved)
  /\ current_dmabuf_buf' = Current
  /\ where' = [where EXCEPT ![cyc.buffer] = "free"]
  /\ cyc' = NoCycle
  /\ UNCHANGED <<threadVars, dmabuf_retrieved, content, timeVars>>

----------------------------------------------------------------------------
(* The data thread: pwf_stream_on_process_playback()                       *)

PlaybackBegin(b, frames) ==
  /\ Processes("playback")
  /\ drain = "no"
  /\ where[b] = "free"
  /\ where' = [where EXCEPT ![b] = "held"]
  /\ cyc' = [pc |-> "callback", buffer |-> b, requested |-> frames, started |-> clock]
  /\ UNCHANGED <<threadVars, dmabufVars, logVars, content, clock>>

\* A buffer without a region to write is queued as it is.
PlaybackUnusable(b) ==
  /\ Processes("playback")
  /\ drain = "no"
  /\ where[b] = "free"
  /\ Occurs("unusable")
  /\ where' = [where EXCEPT ![b] = "queued"]
  /\ UNCHANGED <<threadVars, dmabufVars, cyc, content, clock>>

\* What the device asked for, or the whole region
Available(frames) ==
  IF frames > 0 THEN Min({frames * FrameSize, RegionSize}) ELSE RegionSize

\* The callback's bytes that count: clamped, and floored to whole frames
Filled(size, available) ==
  LET clamped == Min({size, available}) IN clamped - (clamped % FrameSize)

\* The region with the rest of the cycle silenced, or left as it was
Written_NoSilence(size, available) ==
  [i \in 1..RegionSize |-> IF i <= Filled(size, available) THEN "app" ELSE "stale"]

Written(size, available) ==
  [i \in 1..RegionSize |-> IF i <= Filled(size, available) THEN "app"
                           ELSE IF i <= available THEN "silence" ELSE "stale"]

\* A callback that ran past its budget is a line in the log and nothing else: what
\* it wrote goes out like that of any other cycle.
Overran(available) == clock - cyc.started > available \div FrameSize

\* `asked' and `frames' are history: the request, if there was room for it, and
\* the whole frames the callback reported.
PlaybackEnd(size) ==
  LET available == Available(cyc.requested) IN
  /\ direction = "playback" /\ cyc.pc = "callback"
  /\ OccursIf("overrun", Overran(available))
  /\ content' = [content EXCEPT ![cyc.buffer] =
       [asked |-> IF cyc.requested * FrameSize <= RegionSize THEN cyc.requested ELSE 0,
        frames |-> size \div FrameSize,
        size |-> available, bytes |-> Written(size, available)]]
  /\ where' = [where EXCEPT ![cyc.buffer] = "queued"]
  /\ cyc' = NoCycle
  /\ UNCHANGED <<threadVars, dmabufVars, timeVars>>

----------------------------------------------------------------------------
(* The graph and time, external *)

\* The source fills a buffer; the device has played one.  Time that passes while
\* the stream does not process makes no difference to it.
Fill(b) ==
  /\ direction = "capture" /\ Streams
  /\ where[b] = "free"
  /\ where' = [where EXCEPT ![b] = "ready"]
  /\ UNCHANGED <<threadVars, dmabufVars, logVars, cyc, content, timeVars>>

Play(b) ==
  /\ where[b] = "queued"
  /\ Streams
  /\ where' = [where EXCEPT ![b] = "free"]
  /\ content' = [content EXCEPT ![b] = Nothing]
  /\ UNCHANGED <<threadVars, dmabufVars, logVars, cyc, timeVars>>

\* A drain is done when nothing is left to play or to read.
DrainEnds ==
  /\ drain = "asked" /\ BetweenCycles
  /\ \A b \in Buffers : where[b] \notin {"ready", "queued"}
  /\ drain' = "done"
  /\ drain_event' = TRUE
  /\ UNCHANGED <<ownVars, call, loop, pw, cycleVars, lossVars>>

Tick ==
  /\ clock < MaxClock
  /\ Streams \/ ~ BetweenCycles
  /\ clock' = clock + 1
  /\ UNCHANGED <<threadVars, dmabufVars, logVars, cyc, bufVars, cycles>>

DataStep ==
  \/ \E b \in Buffers :
       \/ CaptureBegin(b) \/ CaptureSkip(b) \/ Fill(b)
       \/ PlaybackUnusable(b) \/ Play(b)
       \/ \E frames \in Requests : PlaybackBegin(b, frames)
  \/ GetPlanes \/ CaptureEnd
  \/ \E size \in 0..(RegionSize + 1) : PlaybackEnd(size)
  \/ DrainEnds \/ Tick

Next == AppStep \/ LoopStep \/ DataStep

Spec == Init /\ [][Next]_vars

----------------------------------------------------------------------------
(* Properties *)

\* A source lost while the stream runs is reported once, whether its state or
\* its format tells first, and the warning that DMABUF could not be negotiated
\* follows a format that the server cleared; what the application takes down
\* itself (configuring anew, destroying) brings neither.
ReportsAreLosses ==
  /\ reports <= 1 /\ (reports = 1 => lost)
  /\ warned => refused

\* A playback cycle goes out in the size the device asked for: every whole frame
\* the callback reported and there was room for, then silence, never a byte of an
\* older cycle.  That is so of a cycle whose callback overran its budget as well,
\* though docs/streams.md and pwf_stream.h have it emitted as silence.
PlaysWholeFrames ==
  \A b \in Buffers :
    LET c == content[b] IN
    where[b] = "queued" /\ c.size > 0 =>
      /\ c.size = IF c.asked > 0 THEN c.asked * FrameSize ELSE RegionSize
      /\ \E n \in 0..c.frames :
           /\ n * FrameSize <= c.size
           /\ n < c.frames => (n + 1) * FrameSize > c.size
           /\ \A i \in 1..c.size :
                c.bytes[i] = IF i <= n * FrameSize THEN "app" ELSE "silence"

\* Between cycles no buffer is held, so each one dequeued was queued again; the
\* descriptor the accessor reaches is always that of the buffer being delivered.
BuffersReturned ==
  /\ \A b \in Buffers : where[b] = "held" <=> (~ BetweenCycles /\ cyc.buffer = b)
  /\ current_dmabuf_buf # NULL => where[current_dmabuf_buf] = "held"

\* Every occurrence of a repeated condition is a log line, or is announced as
\* suppressed by a later line, once, or waits for the next one; and there is no
\* more than one line per interval.
LogsAreAccounted ==
  \A k \in Conditions :
    /\ printed[k].occurred =
         printed[k].lines + printed[k].announced + limiter[k].suppressed
    /\ printed[k].lines <= 1 + (clock - 1) \div LogInterval

\* pwf_stream_stop() with drain returns for a playback stream when all that was
\* queued has been played, unless that drain, or an earlier one whose answer may
\* still be on its way, timed out.
DrainedMeansPlayed ==
  [][StopDrained /\ direction = "playback" /\ ~ timedOut
       => \A b \in Buffers : where[b] # "queued"]_vars

\* What the program that opened the stream sees of it
Seen ==
  [st |-> IF call.pc = "destroyed" THEN "destroyed" ELSE "created",
   set |-> format_set, running |-> state = "RUNNING", active |-> pw.active,
   delivering |-> ~ BetweenCycles, reporting |-> ~ LockFree]

Promise == INSTANCE StreamPromise WITH
  Handles <- {"stream"}, handle <- [h \in {"stream"} |-> Seen]

\* To the program that opened it, the stream keeps StreamPromise: its callbacks
\* run when they may, through restarts from the error callback, replaced nodes,
\* drains and destruction.
KeepsPromise == Promise!PromiseSpec
============================================================================
