---------------------------- MODULE Stream_proofs ----------------------------
(***************************************************************************)
(* Theorems about Stream, for any pool, frame size, buffer size, requests  *)
(* and log interval.                                                       *)
(***************************************************************************)
EXTENDS Stream, TLAPS

USE StreamAssumption

----------------------------------------------------------------------------
(* Arithmetic *)

LEMMA MinOfTwo ==
  ASSUME NEW a \in Nat, NEW b \in Nat
  PROVE  /\ Min({a, b}) \in Nat /\ Min({a, b}) <= a /\ Min({a, b}) <= b
         /\ a <= b => Min({a, b}) = a
<1>1. \E m \in {a, b} : \A y \in {a, b} : m <= y
  <2>1. CASE a <= b
    BY <2>1
  <2>2. CASE ~ (a <= b)
    BY <2>2
  <2> QED BY <2>1, <2>2
<1>2. Min({a, b}) = CHOOSE m \in {a, b} : \A y \in {a, b} : m <= y
  BY DEF Min
<1> DEFINE m == CHOOSE m \in {a, b} : \A y \in {a, b} : m <= y
<1>3. m \in {a, b} /\ m <= a /\ m <= b
  BY <1>1
<1> QED BY <1>2, <1>3

LEMMA Whole ==
  ASSUME NEW c \in Nat
  PROVE  /\ c % FrameSize \in Nat
         /\ c % FrameSize <= c
         /\ c - (c % FrameSize) = (c \div FrameSize) * FrameSize
         /\ c \div FrameSize \in Nat
         /\ c < (c \div FrameSize + 1) * FrameSize
OBVIOUS

LEMMA OneMoreInterval ==
  ASSUME NEW n \in Nat, NEW m \in Nat, n - m >= LogInterval
  PROVE  n \div LogInterval >= 1 + m \div LogInterval
OBVIOUS

LEMMA IntervalsGrow ==
  ASSUME NEW n \in Nat, NEW m \in Nat, m <= n
  PROVE  m \div LogInterval <= n \div LogInterval
OBVIOUS

----------------------------------------------------------------------------
(* What the threads leave to each other *)

\* No call and no handler touches a cycle; a pw_stream is destroyed between two.
LEMMA CallFrame ==
  ASSUME AppStep \/ LoopStep
  PROVE  /\ UNCHANGED <<direction, dmabufVars, logVars, cyc, timeVars>>
         /\ UNCHANGED bufVars \/ (DestroyPw /\ BetweenCycles)
<1>1. CASE Replace \/ TeardownLocked
  BY <1>1 DEF Replace, TeardownLocked, DestroyPw
<1>2. CASE \E on \in BOOLEAN : SetConfig(on) \/ StopCall(on)
  BY <1>2 DEF SetConfig, StopCall, cycleVars
<1>3. CASE Connect \/ ConnectFails \/ ConfigReturn \/ StartLocked \/ StartReturn
  BY <1>3 DEF Connect, ConnectFails, ConfigReturn, StartLocked, StartReturn, cycleVars
<1>4. CASE StopFlush \/ StopNow \/ StopDrained \/ StopTimeout \/ StopReturn
  BY <1>4 DEF StopFlush, StopNow, StopDrained, StopTimeout, StopReturn, Pause, cycleVars
<1>5. CASE Destroy \/ DestroyStop \/ Teardown
  BY <1>5 DEF Destroy, DestroyStop, Teardown, cycleVars
<1>6. CASE \E new \in {"paused", "streaming", "error", "unconnected"} : OnStateChanged(new)
  BY <1>6 DEF OnStateChanged, cycleVars
<1>7. CASE OnFormat \/ OnFormatCleared \/ OnDrained
  BY <1>7 DEF OnFormat, OnFormatCleared, OnDrained, cycleVars
<1>8. CASE CallbackStart \/ CallbackStop \/ CallbackReturn
  BY <1>8 DEF CallbackStart, CallbackStop, CallbackReturn, cycleVars
<1> QED BY <1>1, <1>2, <1>3, <1>4, <1>5, <1>6, <1>7, <1>8 DEF AppStep, LoopStep

\* The data thread and the graph change nothing else, but that a flush is done.
LEMMA DataFrame ==
  ASSUME DataStep
  PROVE  UNCHANGED threadVars \/ (DrainEnds /\ UNCHANGED cycleVars)
<1>1. CASE \E b \in Buffers : CaptureBegin(b) \/ CaptureSkip(b) \/ Fill(b)
  BY <1>1 DEF CaptureBegin, CaptureSkip, Fill
<1>2. CASE \E b \in Buffers : PlaybackUnusable(b) \/ Play(b)
  BY <1>2 DEF PlaybackUnusable, Play
<1>3. CASE \E b \in Buffers, frames \in Requests : PlaybackBegin(b, frames)
  BY <1>3 DEF PlaybackBegin
<1>4. CASE GetPlanes \/ CaptureEnd \/ Tick
  BY <1>4 DEF GetPlanes, CaptureEnd, Tick
<1>5. CASE \E size \in 0..(RegionSize + 1) : PlaybackEnd(size)
  BY <1>5 DEF PlaybackEnd
<1>6. CASE DrainEnds
  BY <1>6 DEF DrainEnds
<1> QED BY <1>1, <1>2, <1>3, <1>4, <1>5, <1>6 DEF DataStep

LEMMA DrainFrame ==
  ASSUME DrainEnds
  PROVE  UNCHANGED <<ownVars, direction, call, loop, pw, lossVars, cycleVars>>
BY DEF DrainEnds, cycleVars

----------------------------------------------------------------------------
(* Types *)

LEMMA IdleType ==
  Idle \in [pc : {"idle", "replace", "connect", "connected", "started", "stop",
                "draining", "paused", "destroying", "teardown", "teardown_locked",
                "destroyed"},
           op : {"none", "config", "start", "stop", "destroy"}, flag : BOOLEAN]
BY DEF Idle

LEMMA NothingType ==
  Nothing \in [asked : Requests \cup {0}, frames : Nat, size : 0..RegionSize, bytes : [1..RegionSize -> Bytes]]
BY DEF Nothing, Stale, Bytes

LEMMA NoPwType ==
  NoPw \in [st : {"none", "connecting", "paused", "streaming", "error", "unconnected"},
           active : BOOLEAN, format : BOOLEAN,
           memory : {"none", "mapped", "unmapped", "dmabuf"}]
BY DEF NoPw

LEMMA TypeInit == Init => TypeOK
<1> SUFFICES ASSUME Init PROVE TypeOK
  OBVIOUS
<1>1. StreamType
  BY DEF Init, StreamType
<1>2. CallType
  BY DEF Init, CallType, Idle
<1>3. NodeType
  BY DEF Init, NodeType, NoPw
<1>4. BufferType
  <2>1. where \in [Buffers -> {"free", "ready", "held", "queued"}]
    BY DEF Init
  <2>2. content \in [Buffers -> [asked : Requests \cup {0}, frames : Nat, size : 0..RegionSize, bytes : [1..RegionSize -> Bytes]]]
    BY NothingType DEF Init
  <2>3. cyc \in [pc : {"idle", "callback"}, buffer : Buffers \cup {NULL},
                requested : Requests \cup {0}, started : Nat]
    BY DEF Init, NoCycle
  <2> QED BY <2>1, <2>2, <2>3 DEF Init, BufferType
<1>5. LogType
  BY DEF Init, LogType, Conditions
<1>6. HistoryType
  BY DEF Init, HistoryType
<1> QED BY <1>1, <1>2, <1>3, <1>4, <1>5, <1>6 DEF TypeOK

LEMMA ReportType ==
  ASSUME StreamType, NodeType, HistoryType, Report
  PROVE  /\ state' \in {"CREATED", "FORMAT_SET", "RUNNING", "STOPPED"}
         /\ loop' \in {"idle", "callback"} /\ reports' \in Nat
BY DEF Report, StreamType, NodeType, HistoryType

LEMMA DestroyPwType ==
  ASSUME TypeOK, DestroyPw
  PROVE  /\ state' \in {"CREATED", "FORMAT_SET", "RUNNING", "STOPPED"}
         /\ NodeType'
         /\ HistoryType'
         /\ where' \in [Buffers -> {"free", "ready", "held", "queued"}]
         /\ content' \in [Buffers -> [asked : Requests \cup {0}, frames : Nat, size : 0..RegionSize, bytes : [1..RegionSize -> Bytes]]]
<1>1. /\ state' \in {"CREATED", "FORMAT_SET", "RUNNING", "STOPPED"}
      /\ loop' \in {"idle", "callback"} /\ reports' \in Nat
  BY ReportType DEF DestroyPw, TypeOK, StreamType, NodeType, HistoryType
<1>2. NodeType'
  BY <1>1, NoPwType DEF DestroyPw, NodeType
<1>3. warned' \in BOOLEAN
  BY DEF DestroyPw, TypeOK, HistoryType, Negotiates
<1>4. HistoryType'
  BY <1>1, <1>3 DEF DestroyPw, TypeOK, HistoryType
<1>5. where' \in [Buffers -> {"free", "ready", "held", "queued"}]
  BY DEF DestroyPw
<1>6. content' \in [Buffers -> [asked : Requests \cup {0}, frames : Nat, size : 0..RegionSize, bytes : [1..RegionSize -> Bytes]]]
  BY NothingType DEF DestroyPw
<1> QED BY <1>1, <1>2, <1>4, <1>5, <1>6

LEMMA StreamTypeStep == TypeOK /\ [Next]_vars => StreamType'
<1> SUFFICES ASSUME TypeOK, [Next]_vars PROVE StreamType'
  OBVIOUS
<1> USE DEF StreamType, TypeOK, ownVars, flagVars
<1>1. CASE UNCHANGED vars
  BY <1>1 DEF vars, threadVars
<1>2. CASE DataStep
  BY <1>2, DataFrame, DrainFrame DEF threadVars
<1>3. CASE AppStep \/ LoopStep
  <2>1. direction' = direction
    BY <1>3, CallFrame
  <2>2. CASE Replace \/ TeardownLocked
    BY <2>1, <2>2, DestroyPwType DEF Replace, TeardownLocked
  <2>3. CASE \E on \in BOOLEAN : SetConfig(on) \/ StopCall(on)
    BY <2>1, <2>3 DEF SetConfig, StopCall, FlagAtReplace
  <2>4. CASE Connect
    BY <2>1, <2>4 DEF Connect, CallType
  <2>5. CASE ConnectFails \/ ConfigReturn \/ StartLocked \/ StartReturn \/ Destroy \/ DestroyStop \/ Teardown
    BY <2>1, <2>5 DEF ConnectFails, ConfigReturn, StartLocked, StartReturn, Destroy, DestroyStop, Teardown
  <2>6. CASE StopFlush \/ StopNow \/ StopDrained \/ StopTimeout \/ StopReturn
    BY <2>1, <2>6 DEF StopFlush, StopNow, StopDrained, StopTimeout, StopReturn, Pause, AtFlush
  <2>7. CASE \E new \in {"paused", "streaming", "error", "unconnected"} : OnStateChanged(new)
    BY <2>1, <2>7, ReportType DEF OnStateChanged
  <2>8. CASE OnFormat \/ OnFormatCleared \/ OnDrained
    BY <2>1, <2>8, ReportType DEF OnFormat, OnFormatCleared, OnDrained
  <2>9. CASE CallbackStart \/ CallbackStop \/ CallbackReturn
    BY <2>1, <2>9 DEF CallbackStart, CallbackStop, CallbackReturn
  <2> QED BY <1>3, <2>2, <2>3, <2>4, <2>5, <2>6, <2>7, <2>8, <2>9 DEF AppStep, LoopStep
<1> QED BY <1>1, <1>2, <1>3 DEF Next

LEMMA CallTypeStep == TypeOK /\ [Next]_vars => CallType'
<1> SUFFICES ASSUME TypeOK, [Next]_vars PROVE CallType'
  OBVIOUS
<1> USE DEF CallType, TypeOK
<1>1. CASE UNCHANGED vars
  BY <1>1 DEF vars, threadVars
<1>2. CASE DataStep
  BY <1>2, DataFrame, DrainFrame DEF threadVars
<1>3. CASE LoopStep
  BY <1>3 DEF LoopStep, OnStateChanged, OnFormat, OnFormatCleared, OnDrained,
     CallbackStart, CallbackStop, CallbackReturn
<1>4. CASE AppStep
  <2>1. CASE Replace \/ TeardownLocked
    BY <2>1 DEF Replace, TeardownLocked, Goto
  <2>2. CASE \E on \in BOOLEAN : SetConfig(on) \/ StopCall(on)
    BY <2>2 DEF SetConfig, StopCall
  <2>3. CASE Connect \/ DestroyStop \/ Teardown
    BY <2>3 DEF Connect, DestroyStop, Teardown, Goto
  <2>4. CASE ConnectFails \/ ConfigReturn \/ StartReturn
    BY <2>4, IdleType DEF ConnectFails, ConfigReturn, StartReturn
  <2>5. CASE StartLocked
    BY <2>5 DEF StartLocked
  <2>8. CASE Destroy
    <3>1. \E pc \in {"destroying", "teardown"} : call' = [pc |-> pc, op |-> "destroy", flag |-> FALSE]
      BY <2>8 DEF Destroy
    <3> QED BY <3>1
  <2>6. CASE StopFlush \/ StopNow \/ StopDrained \/ StopTimeout
    BY <2>6 DEF StopFlush, StopNow, StopDrained, StopTimeout, Pause, Goto
  <2>7. CASE StopReturn
    BY <2>7, IdleType DEF StopReturn
  <2> QED BY <1>4, <2>1, <2>2, <2>3, <2>4, <2>5, <2>6, <2>7, <2>8 DEF AppStep
<1> QED BY <1>1, <1>2, <1>3, <1>4 DEF Next

\* What pw_stream_set_active() makes of the node
LEMMA SetActiveType ==
  ASSUME NodeType, NEW on \in BOOLEAN, SetActive(on), loop' \in {"idle", "callback"}
  PROVE  NodeType'
<1>1. pw' \in [st : {"none", "connecting", "paused", "streaming", "error", "unconnected"},
             active : BOOLEAN, format : BOOLEAN,
             memory : {"none", "mapped", "unmapped", "dmabuf"}]
  BY DEF SetActive, NodeType
<1> QED BY <1>1 DEF SetActive, NodeType

LEMMA NodeTypeStep == TypeOK /\ [Next]_vars => NodeType'
<1> SUFFICES ASSUME TypeOK, [Next]_vars PROVE NodeType'
  OBVIOUS
<1> USE DEF TypeOK
<1>n. NodeType
  OBVIOUS
<1>1. CASE UNCHANGED vars
  BY <1>1 DEF vars, threadVars, nodeVars, drainVars, NodeType
<1>2. CASE DataStep
  BY <1>2, DataFrame, DrainFrame DEF threadVars, nodeVars, drainVars, DrainEnds, NodeType
<1>3. CASE LoopStep
  <2>1. CASE \E new \in {"paused", "streaming", "error", "unconnected"} : OnStateChanged(new)
    <3> PICK new \in {"paused", "streaming", "error", "unconnected"} : OnStateChanged(new)
      BY <2>1
    <3>1. loop' \in {"idle", "callback"}
      BY ReportType, <1>n DEF OnStateChanged, NodeType
    <3>2. pw' \in [st : {"none", "connecting", "paused", "streaming", "error", "unconnected"},
                 active : BOOLEAN, format : BOOLEAN,
                 memory : {"none", "mapped", "unmapped", "dmabuf"}]
      BY <1>n DEF OnStateChanged, NodeType
    <3> QED BY <3>1, <3>2, <1>n DEF OnStateChanged, NodeType, drainVars
  <2>2. CASE OnFormat
    BY <2>2, <1>n DEF OnFormat, NodeType, drainVars
  <2>3. CASE OnFormatCleared
    BY <2>3, <1>n, ReportType DEF OnFormatCleared, NodeType, drainVars
  <2>4. CASE OnDrained
    BY <2>4, <1>n DEF OnDrained, NodeType
  <2>5. CASE CallbackStart \/ CallbackStop
    BY <2>5, <1>n, SetActiveType DEF CallbackStart, CallbackStop, NodeType
  <2>6. CASE CallbackReturn
    BY <2>6, <1>n DEF CallbackReturn, NodeType, drainVars
  <2> QED BY <1>3, <2>1, <2>2, <2>3, <2>4, <2>5, <2>6 DEF LoopStep
<1>4. CASE AppStep
  <2>1. CASE Replace \/ TeardownLocked
    BY <2>1, DestroyPwType DEF Replace, TeardownLocked
  <2>2. CASE \E on \in BOOLEAN : SetConfig(on) \/ StopCall(on)
    BY <2>2, <1>n DEF SetConfig, StopCall, nodeVars, drainVars, NodeType
  <2>3. CASE Connect
    BY <2>3, <1>n, NoPwType DEF Connect, drainVars, NodeType
  <2>4. CASE ConnectFails \/ ConfigReturn \/ StartReturn \/ StopReturn \/ Destroy \/ DestroyStop \/ Teardown
    BY <2>4, <1>n DEF ConnectFails, ConfigReturn, StartReturn, StopReturn, Destroy, DestroyStop, Teardown,
       nodeVars, drainVars, NodeType
  <2>5. CASE StartLocked \/ StopNow \/ StopDrained \/ StopTimeout
    BY <2>5, <1>n, SetActiveType
       DEF StartLocked, StopNow, StopDrained, StopTimeout, Pause, NodeType
  <2>6. CASE StopFlush
    BY <2>6, <1>n DEF StopFlush, NodeType
  <2> QED BY <1>4, <2>1, <2>2, <2>3, <2>4, <2>5, <2>6 DEF AppStep
<1> QED BY <1>1, <1>2, <1>3, <1>4 DEF Next

LEMMA HistoryTypeStep == TypeOK /\ [Next]_vars => HistoryType'
<1> SUFFICES ASSUME TypeOK, [Next]_vars PROVE HistoryType'
  OBVIOUS
<1> USE DEF TypeOK, lossVars, warnVars
<1>n. HistoryType /\ StreamType /\ NodeType
  OBVIOUS
<1>1. CASE UNCHANGED vars
  BY <1>1, <1>n DEF vars, threadVars, HistoryType
<1>2. CASE DataStep
  BY <1>2, <1>n, DataFrame, DrainFrame DEF threadVars, HistoryType
<1>3. CASE LoopStep
  <2>1. CASE \E new \in {"paused", "streaming", "error", "unconnected"} : OnStateChanged(new)
    BY <2>1, <1>n, ReportType DEF OnStateChanged, HistoryType
  <2>2. CASE OnFormatCleared
    BY <2>2, <1>n, ReportType DEF OnFormatCleared, HistoryType
  <2>3. CASE OnFormat \/ OnDrained \/ CallbackStop \/ CallbackReturn
    BY <2>3, <1>n DEF OnFormat, OnDrained, CallbackStop, CallbackReturn, HistoryType
  <2>4. CASE CallbackStart
    BY <2>4, <1>n DEF CallbackStart, HistoryType
  <2> QED BY <1>3, <2>1, <2>2, <2>3, <2>4 DEF LoopStep
<1>4. CASE AppStep
  <2>1. CASE Replace \/ TeardownLocked
    BY <2>1, DestroyPwType DEF Replace, TeardownLocked
  <2>2. CASE \E on \in BOOLEAN : SetConfig(on) \/ StopCall(on)
    BY <2>2, <1>n DEF SetConfig, StopCall, HistoryType
  <2>3. CASE ConnectFails \/ ConfigReturn \/ StartLocked
    BY <2>3, <1>n DEF ConnectFails, ConfigReturn, StartLocked, HistoryType
  <2>6. CASE Connect
    BY <2>6, <1>n DEF Connect, HistoryType
  <2>7. CASE StartReturn
    BY <2>7, <1>n DEF StartReturn, HistoryType
  <2>4. CASE StopFlush \/ StopReturn \/ Destroy \/ DestroyStop \/ Teardown
    BY <2>4, <1>n DEF StopFlush, StopReturn, Destroy, DestroyStop, Teardown, HistoryType
  <2>5. CASE StopNow \/ StopDrained \/ StopTimeout
    BY <2>5, <1>n DEF StopNow, StopDrained, StopTimeout, Pause, HistoryType
  <2> QED BY <1>4, <2>1, <2>2, <2>3, <2>4, <2>5, <2>6, <2>7 DEF AppStep
<1> QED BY <1>1, <1>2, <1>3, <1>4 DEF Next

\* The log of one condition after it occurred, and of the others
LEMMA OccursType ==
  ASSUME LogType, NEW k \in Conditions, Occurs(k)
  PROVE  /\ limiter' \in [Conditions -> [last : Nat, suppressed : Nat]]
         /\ printed' \in [Conditions -> [lines : Nat, announced : Nat, occurred : Nat]]
<1> DEFINE l == limiter[k]
           p == printed[k]
<1>1. /\ l \in [last : Nat, suppressed : Nat]
      /\ p \in [lines : Nat, announced : Nat, occurred : Nat]
      /\ clock \in Nat
  BY DEF LogType
<1>2. /\ l.suppressed + 1 \in Nat /\ p.lines + 1 \in Nat /\ p.occurred + 1 \in Nat
      /\ p.announced + l.suppressed \in Nat
  BY <1>1
<1>3. CASE Suppresses(limiter[k])
  <2>1. limiter' = [limiter EXCEPT ![k] = [l EXCEPT !.suppressed = l.suppressed + 1]]
    BY <1>3 DEF Occurs
  <2>2. printed' = [printed EXCEPT ![k] = [p EXCEPT !.occurred = p.occurred + 1]]
    BY <1>3 DEF Occurs
  <2>3. [l EXCEPT !.suppressed = l.suppressed + 1] \in [last : Nat, suppressed : Nat]
    BY <1>1, <1>2
  <2>4. [p EXCEPT !.occurred = p.occurred + 1] \in [lines : Nat, announced : Nat, occurred : Nat]
    BY <1>1, <1>2
  <2> HIDE DEF l, p
  <2> QED BY <2>1, <2>2, <2>3, <2>4 DEF LogType
<1>4. CASE ~ Suppresses(limiter[k])
  <2>1. limiter' = [limiter EXCEPT ![k] = [last |-> clock, suppressed |-> 0]]
    BY <1>4 DEF Occurs, Logged
  <2>2. printed' = [printed EXCEPT ![k] = [lines |-> p.lines + 1,
                      announced |-> p.announced + l.suppressed, occurred |-> p.occurred + 1]]
    BY <1>4 DEF Occurs, LogType
  <2> HIDE DEF l, p
  <2> QED BY <1>1, <1>2, <2>1, <2>2 DEF LogType
<1> QED BY <1>3, <1>4

LEMMA LogTypeStep == TypeOK /\ [Next]_vars => LogType'
<1> SUFFICES ASSUME TypeOK, [Next]_vars PROVE LogType'
  OBVIOUS
<1> USE DEF timeVars, logVars
<1>n. LogType
  BY DEF TypeOK
<1>1. CASE UNCHANGED vars
  BY <1>1, <1>n DEF vars, cycleVars, LogType
<1>2. CASE AppStep \/ LoopStep
  BY <1>2, <1>n, CallFrame DEF LogType
<1>3. CASE DataStep
  <2>1. CASE \E b \in Buffers : CaptureBegin(b) \/ CaptureSkip(b) \/ Fill(b) \/ Play(b)
    BY <2>1, <1>n DEF CaptureBegin, CaptureSkip, Fill, Play, Processes, LogType
  <2>2. CASE \E b \in Buffers : PlaybackUnusable(b)
    BY <2>2, <1>n, OccursType DEF PlaybackUnusable, Processes, LogType, Conditions
  <2>3. CASE \E b \in Buffers, frames \in Requests : PlaybackBegin(b, frames)
    BY <2>3, <1>n DEF PlaybackBegin, Processes, LogType
  <2>4. CASE GetPlanes \/ Tick \/ DrainEnds
    BY <2>4, <1>n, DrainFrame DEF GetPlanes, Tick, cycleVars, LogType
  <2>5. CASE CaptureEnd
    BY <2>5, <1>n, OccursType DEF CaptureEnd, OccursIf, LogType, Conditions
  <2>6. CASE \E size \in 0..(RegionSize + 1) : PlaybackEnd(size)
    BY <2>6, <1>n, OccursType DEF PlaybackEnd, OccursIf, LogType, Conditions
  <2> QED BY <1>3, <2>1, <2>2, <2>3, <2>4, <2>5, <2>6 DEF DataStep
<1> QED BY <1>1, <1>2, <1>3 DEF Next

\* The request that a cycle is cut to, 0 when there is none or no room for it
Granted(frames) == IF frames * FrameSize <= RegionSize THEN frames ELSE 0

LEMMA AvailableFits ==
  ASSUME NEW frames \in Requests \cup {0}
  PROVE  /\ Available(frames) \in 0..RegionSize
         /\ Available(frames) = IF Granted(frames) > 0 THEN Granted(frames) * FrameSize
                                ELSE RegionSize
<1>1. frames \in Nat /\ frames * FrameSize \in Nat
  OBVIOUS
<1>2. frames > 0 => frames * FrameSize > 0
  BY <1>1
<1>3. CASE frames = 0
  BY <1>3 DEF Available, Granted
<1>4. CASE frames > 0 /\ frames * FrameSize <= RegionSize
  BY <1>1, <1>4, MinOfTwo DEF Available, Granted
<1>5. CASE frames > 0 /\ frames * FrameSize > RegionSize
  BY <1>1, <1>5, MinOfTwo DEF Available, Granted
<1> QED BY <1>1, <1>3, <1>4, <1>5

\* What the callback left is cut to whole frames.
LEMMA FilledIsWhole ==
  ASSUME NEW size \in Nat, NEW available \in Nat
  PROVE  /\ Filled(size, available) \in Nat /\ Filled(size, available) <= available
         /\ \E n \in 0..(size \div FrameSize) :
              /\ Filled(size, available) = n * FrameSize
              /\ n < size \div FrameSize => (n + 1) * FrameSize > available
<1> DEFINE c == Min({size, available})
<1>1. c \in Nat /\ c <= available /\ c <= size /\ (c = size \/ c = available)
  BY MinOfTwo
<1>2. Filled(size, available) = c - (c % FrameSize)
  BY DEF Filled
<1> HIDE DEF c
<1> DEFINE q == c \div FrameSize
           r == c % FrameSize
<1>3. /\ q \in Nat /\ r \in Nat /\ r <= c /\ c - r = q * FrameSize
      /\ c < (q + 1) * FrameSize
  BY <1>1, Whole
<1> HIDE DEF q, r
<1>4. q * FrameSize <= available /\ q * FrameSize \in Nat
  BY <1>1, <1>3
<1>5. Filled(size, available) = q * FrameSize
  BY <1>2, <1>3 DEF r
<1> DEFINE whole == size \div FrameSize
<1>6. whole \in Nat
  BY Whole
<1>7. q = whole \/ (c = available /\ q <= whole)
  <2>1. CASE c = size
    BY <2>1 DEF q
  <2>2. CASE c = available
    <3>1. size < (whole + 1) * FrameSize
      BY Whole
    <3> HIDE DEF whole
    <3>2. q * FrameSize < (whole + 1) * FrameSize
      BY <1>1, <1>3, <1>6, <3>1
    <3>3. ~ q > whole
      <4> SUFFICES ASSUME q > whole PROVE FALSE
        OBVIOUS
      <4>1. PICK k \in Nat : q = whole + 1 + k
        <5>1. q - whole - 1 \in Nat /\ q = whole + 1 + (q - whole - 1)
          BY <1>3, <1>6
        <5> QED BY <5>1
      <4> QED BY <4>1, <1>6, <3>2
    <3> QED BY <1>3, <1>6, <2>2, <3>3
  <2> QED BY <1>1, <2>1, <2>2
<1> HIDE DEF whole
<1>8. q \in 0..whole /\ (q < whole => (q + 1) * FrameSize > available)
  BY <1>1, <1>3, <1>6, <1>7
<1> QED BY <1>4, <1>5, <1>6, <1>8 DEF whole

LEMMA WrittenType ==
  ASSUME NEW size, NEW available
  PROVE  Written(size, available) \in [1..RegionSize -> Bytes]
BY DEF Written, Bytes

LEMMA BufferTypeStep == TypeOK /\ [Next]_vars => BufferType'
<1> SUFFICES ASSUME TypeOK, [Next]_vars PROVE BufferType'
  OBVIOUS
<1> USE DEF dmabufVars, bufVars
<1>n. BufferType /\ clock \in Nat
  BY DEF TypeOK, LogType
<1>1. CASE UNCHANGED vars
  BY <1>1, <1>n DEF vars, cycleVars, BufferType
<1>2. CASE AppStep \/ LoopStep
  BY <1>2, <1>n, CallFrame, DestroyPwType DEF BufferType
<1>3. CASE DataStep
  <2>1. CASE \E b \in Buffers : CaptureBegin(b)
    <3> PICK b \in Buffers : CaptureBegin(b)
      BY <2>1
    <3>1. cyc' \in [pc : {"idle", "callback"}, buffer : Buffers \cup {NULL},
                  requested : Requests \cup {0}, started : Nat]
      BY DEF CaptureBegin, NoCycle
    <3>2. where' \in [Buffers -> {"free", "ready", "held", "queued"}]
      BY <1>n DEF CaptureBegin, BufferType
    <3> QED BY <1>n, <3>1, <3>2 DEF CaptureBegin, BufferType
  <2>2. CASE \E b \in Buffers : CaptureSkip(b) \/ Fill(b) \/ PlaybackUnusable(b)
    BY <2>2, <1>n DEF CaptureSkip, Fill, PlaybackUnusable, BufferType
  <2>3. CASE \E b \in Buffers : Play(b)
    <3> PICK b \in Buffers : Play(b)
      BY <2>3
    <3>1. where' \in [Buffers -> {"free", "ready", "held", "queued"}]
      BY <1>n DEF Play, BufferType
    <3>2. content' \in [Buffers -> [asked : Requests \cup {0}, frames : Nat, size : 0..RegionSize, bytes : [1..RegionSize -> Bytes]]]
      BY <1>n, NothingType DEF Play, BufferType
    <3> QED BY <1>n, <3>1, <3>2 DEF Play, BufferType
  <2>4. CASE \E b \in Buffers, frames \in Requests : PlaybackBegin(b, frames)
    <3> PICK b \in Buffers, frames \in Requests : PlaybackBegin(b, frames)
      BY <2>4
    <3>1. cyc' \in [pc : {"idle", "callback"}, buffer : Buffers \cup {NULL},
                  requested : Requests \cup {0}, started : Nat]
      BY <1>n DEF PlaybackBegin
    <3>2. where' \in [Buffers -> {"free", "ready", "held", "queued"}]
      BY <1>n DEF PlaybackBegin, BufferType
    <3> QED BY <1>n, <3>1, <3>2 DEF PlaybackBegin, BufferType
  <2>5. CASE GetPlanes \/ Tick \/ DrainEnds
    BY <2>5, <1>n, DrainFrame DEF GetPlanes, Tick, cycleVars, BufferType
  <2>6. CASE CaptureEnd
    <3>1. cyc' \in [pc : {"idle", "callback"}, buffer : Buffers \cup {NULL},
                  requested : Requests \cup {0}, started : Nat]
      BY <2>6 DEF CaptureEnd, NoCycle
    <3>2. where' \in [Buffers -> {"free", "ready", "held", "queued"}]
      BY <2>6, <1>n DEF CaptureEnd, BufferType
    <3> QED BY <2>6, <1>n, <3>1, <3>2 DEF CaptureEnd, Current, BufferType
  <2>7. CASE \E size \in 0..(RegionSize + 1) : PlaybackEnd(size)
    <3> PICK size \in 0..(RegionSize + 1) : PlaybackEnd(size)
      BY <2>7
    <3>1. cyc' \in [pc : {"idle", "callback"}, buffer : Buffers \cup {NULL},
                  requested : Requests \cup {0}, started : Nat]
      BY DEF PlaybackEnd, NoCycle
    <3>2. where' \in [Buffers -> {"free", "ready", "held", "queued"}]
      BY <1>n DEF PlaybackEnd, BufferType
    <3> DEFINE available == Available(cyc.requested)
    <3>3. cyc.requested \in Requests \cup {0} /\ available \in 0..RegionSize
      BY <1>n, AvailableFits DEF BufferType
    <3>4. [asked |-> Granted(cyc.requested), frames |-> size \div FrameSize,
           size |-> available, bytes |-> Written(size, available)]
            \in [asked : Requests \cup {0}, frames : Nat, size : 0..RegionSize, bytes : [1..RegionSize -> Bytes]]
      <4>1. size \div FrameSize \in Nat
        BY Whole
      <4>2. Granted(cyc.requested) \in Requests \cup {0}
        BY <3>3 DEF Granted
      <4> QED BY <3>3, <4>1, <4>2, WrittenType
    <3>5. content' = [content EXCEPT ![cyc.buffer] =
             [asked |-> Granted(cyc.requested), frames |-> size \div FrameSize,
              size |-> available, bytes |-> Written(size, available)]]
      BY DEF PlaybackEnd, Granted
    <3> HIDE DEF available
    <3>6. content' \in [Buffers -> [asked : Requests \cup {0}, frames : Nat, size : 0..RegionSize, bytes : [1..RegionSize -> Bytes]]]
      BY <1>n, <3>4, <3>5 DEF BufferType
    <3> QED BY <1>n, <3>1, <3>2, <3>6 DEF PlaybackEnd, BufferType
  <2> QED BY <1>3, <2>1, <2>2, <2>3, <2>4, <2>5, <2>6, <2>7 DEF DataStep
<1> QED BY <1>1, <1>2, <1>3 DEF Next

LEMMA TypeStep == TypeOK /\ [Next]_vars => TypeOK'
BY StreamTypeStep, CallTypeStep, NodeTypeStep, BufferTypeStep, LogTypeStep,
   HistoryTypeStep DEF TypeOK

\* Every variable of a stream and its cycles keeps its type.
THEOREM TypeCorrect == Spec => []TypeOK
BY TypeInit, TypeStep, PTL DEF Spec

----------------------------------------------------------------------------
(* What a call keeps while the other threads run *)

\* A stream that is configured or destroyed does not run; its DMABUF flag is
\* cleared before its pw_stream goes; nothing happens to a destroyed one.
CallInv ==
  /\ call.pc \in {"replace", "connect", "connected"} => call.op = "config"
  /\ call.op = "config" => state # "RUNNING" /\ LockFree
  /\ call.pc = "destroying" => call.op = "destroy"
  /\ call.pc \in {"teardown", "teardown_locked", "destroyed"}
       => call.op = "destroy" /\ state # "RUNNING"
  /\ call.pc \in {"replace", "teardown_locked"} => ~ use_dmabuf
  /\ call.pc = "destroyed" => pw = NoPw /\ LockFree /\ BetweenCycles

LEMMA CallInvInit == Init => CallInv
BY DEF Init, CallInv, Idle

\* So taking a pw_stream down reports nothing.
LEMMA QuietDestroy ==
  ASSUME TypeOK, CallInv, DestroyPw, call.pc \in {"replace", "teardown_locked"}
  PROVE  UNCHANGED <<direction, state, loop, reports, warned, lost, refused, timedOut>>
<1>1. state # "RUNNING" /\ use_dmabuf = FALSE
  BY DEF CallInv, TypeOK, StreamType
<1>2. warned' = warned
  BY <1>1 DEF DestroyPw, Negotiates, TypeOK, HistoryType
<1>3. UNCHANGED <<state, loop, reports>>
  BY <1>1 DEF DestroyPw, Report
<1> QED BY <1>2, <1>3 DEF DestroyPw

LEMMA CallInvStep == TypeOK /\ CallInv /\ [Next]_vars => CallInv'
<1> SUFFICES ASSUME TypeOK, CallInv, [Next]_vars PROVE CallInv'
  OBVIOUS
<1> USE DEF CallInv, LockFree, BetweenCycles
<1>t. CallType
  BY DEF TypeOK
<1>1. CASE UNCHANGED vars
  BY <1>1 DEF vars, threadVars, ownVars, flagVars, nodeVars, cycleVars
<1>2. CASE DataStep
  <2>1. UNCHANGED <<call, state, loop, use_dmabuf, pw>>
    BY <1>2, DataFrame, DrainFrame DEF threadVars, ownVars, flagVars, nodeVars
  <2>2. pw = NoPw => ~ Streams
    BY DEF NoPw, Streams
  <2>3. cyc.pc = "idle" /\ ~ Streams => cyc'.pc = "idle"
    BY <1>2 DEF DataStep, CaptureBegin, CaptureSkip, Fill, PlaybackUnusable, Play, PlaybackBegin,
       Processes, GetPlanes, CaptureEnd, PlaybackEnd, DrainEnds, Tick, cycleVars
  <2> QED BY <2>1, <2>2, <2>3
<1>3. CASE LoopStep
  <2>1. UNCHANGED cyc
    BY <1>3, CallFrame
  <2>2. CASE \E new \in {"paused", "streaming", "error", "unconnected"} : OnStateChanged(new)
    BY <2>1, <2>2 DEF OnStateChanged, Transitions, NoPw, Report, flagVars
  <2>3. CASE OnFormat \/ OnDrained
    BY <2>1, <2>3 DEF OnFormat, OnDrained, NoPw, ownVars, flagVars
  <2>4. CASE OnFormatCleared
    BY <2>1, <2>4 DEF OnFormatCleared, Exists, NoPw, Report, flagVars
  <2>5. CASE CallbackStart
    BY <2>1, <2>5, <1>t DEF CallbackStart, flagVars, CallType
  <2>6. CASE CallbackStop
    BY <2>1, <2>6 DEF CallbackStop, flagVars
  <2>7. CASE CallbackReturn
    BY <2>1, <2>7 DEF CallbackReturn, ownVars, flagVars
  <2> QED BY <1>3, <2>2, <2>3, <2>4, <2>5, <2>6, <2>7 DEF LoopStep
<1>4. CASE AppStep
  <2>1. UNCHANGED cyc
    BY <1>4, CallFrame
  <2>2. CASE Replace
    BY <2>1, <2>2, <1>t, QuietDestroy DEF Replace, Goto, CallType, flagVars
  <2>3. CASE TeardownLocked
    BY <2>1, <2>3, <1>t, QuietDestroy DEF TeardownLocked, Goto, CallType, flagVars, DestroyPw
  <2>4. CASE \E on \in BOOLEAN : SetConfig(on)
    <3> PICK on \in BOOLEAN : SetConfig(on)
      BY <2>4
    <3>1. call'.op = "config" /\ call'.pc \in {"replace", "connect"}
      BY DEF SetConfig
    <3>2. call'.pc = "replace" => Exists
      BY DEF SetConfig
    <3>3. Exists => ~ use_dmabuf'
      BY DEF SetConfig, FlagAtReplace
    <3>4. state # "RUNNING" /\ LockFree /\ UNCHANGED <<state, loop>>
      BY DEF SetConfig, nodeVars
    <3> QED BY <3>1, <3>2, <3>3, <3>4
  <2>12. CASE \E on \in BOOLEAN : StopCall(on)
    BY <2>1, <2>12 DEF StopCall, nodeVars, ownVars, flagVars
  <2>5. CASE Connect
    BY <2>1, <2>5, <1>t DEF Connect, Goto, CallType
  <2>6. CASE ConnectFails \/ ConfigReturn \/ StartReturn
    BY <2>1, <2>6 DEF ConnectFails, ConfigReturn, StartReturn, Idle
  <2>7. CASE StartLocked
    BY <2>1, <2>7 DEF StartLocked, ownVars, flagVars
  <2>8. CASE StopFlush \/ StopNow \/ StopDrained \/ StopTimeout
    BY <2>1, <2>8, <1>t DEF StopFlush, StopNow, StopDrained, StopTimeout, Pause, Goto, CallType,
       ownVars, flagVars
  <2>9. CASE StopReturn
    BY <2>1, <2>9, <1>t DEF StopReturn, Idle, CallType, nodeVars, flagVars
  <2>10. CASE Destroy
    BY <2>1, <2>10 DEF Destroy, nodeVars, ownVars, flagVars
  <2>13. CASE DestroyStop
    BY <2>1, <2>13, <1>t DEF DestroyStop, Goto, CallType, nodeVars, ownVars, flagVars
  <2>11. CASE Teardown
    BY <2>1, <2>11, <1>t DEF Teardown, Goto, CallType, nodeVars
  <2> QED BY <1>4, <2>2, <2>3, <2>4, <2>5, <2>6, <2>7, <2>8, <2>9, <2>10, <2>11, <2>12, <2>13 DEF AppStep
<1> QED BY <1>1, <1>2, <1>3, <1>4 DEF Next

\* A stream has no pw_stream when it connects one, and without one is inactive.
PwInv ==
  /\ call.pc = "connect" => ~ Exists
  /\ ~ Exists => ~ pw.active

LEMMA PwInvInit == Init => PwInv
BY DEF Init, PwInv, Idle, Exists, NoPw

LEMMA PwInvStep == TypeOK /\ CallInv /\ PwInv /\ [Next]_vars => PwInv'
<1> SUFFICES ASSUME TypeOK, CallInv, PwInv, [Next]_vars PROVE PwInv'
  OBVIOUS
<1> USE DEF PwInv, Exists, nodeVars
<1>t. /\ CallType
      /\ pw \in [st : {"none", "connecting", "paused", "streaming", "error", "unconnected"},
                 active : BOOLEAN, format : BOOLEAN,
                 memory : {"none", "mapped", "unmapped", "dmabuf"}]
  BY DEF TypeOK, NodeType
\* Activating asks for a pw_stream, and nothing but destroying one takes it away.
<1>a. ASSUME NEW on \in BOOLEAN, SetActive(on), on => Exists,
             call'.pc = "connect" => call.pc = "connect"
      PROVE  PwInv'
  <2>1. pw'.st = pw.st /\ pw'.active = on
    BY <1>a, <1>t DEF SetActive
  <2> QED BY <1>a, <2>1
<1>1. CASE UNCHANGED vars
  BY <1>1 DEF vars, threadVars
<1>2. CASE DataStep
  BY <1>2, DataFrame, DrainFrame DEF threadVars
<1>3. CASE LoopStep
  <2>1. CASE \E new \in {"paused", "streaming", "error", "unconnected"} : OnStateChanged(new)
    BY <2>1, <1>t DEF OnStateChanged, Transitions
  <2>2. CASE OnFormat
    BY <2>2, <1>t DEF OnFormat
  <2>3. CASE OnFormatCleared
    BY <2>3, <1>t DEF OnFormatCleared
  <2>4. CASE OnDrained \/ CallbackReturn
    BY <2>4 DEF OnDrained, CallbackReturn
  <2>5. CASE CallbackStart
    BY <2>5, <1>a DEF CallbackStart
  <2>6. CASE CallbackStop
    BY <2>6, <1>a DEF CallbackStop
  <2> QED BY <1>3, <2>1, <2>2, <2>3, <2>4, <2>5, <2>6 DEF LoopStep
<1>4. CASE AppStep
  <2>1. CASE Replace \/ TeardownLocked
    BY <2>1 DEF Replace, TeardownLocked, DestroyPw, NoPw
  <2>2. CASE \E on \in BOOLEAN : SetConfig(on) \/ StopCall(on)
    BY <2>2 DEF SetConfig, StopCall
  <2>3. CASE Connect
    BY <2>3, <1>t DEF Connect, Goto, CallType, NoPw
  <2>4. CASE ConnectFails \/ ConfigReturn \/ StartReturn \/ StopReturn \/ Destroy \/ DestroyStop \/ Teardown
    BY <2>4, <1>t DEF ConnectFails, ConfigReturn, StartReturn, StopReturn, Destroy, DestroyStop, Teardown,
       Goto, Idle, CallType
  <2>5. CASE StartLocked
    BY <2>5, <1>a DEF StartLocked
  <2>6. CASE StopNow \/ StopDrained \/ StopTimeout
    <3>1. SetActive(FALSE) /\ call'.pc = "paused"
      BY <2>6, <1>t DEF StopNow, StopDrained, StopTimeout, Pause, Goto, CallType
    <3> QED BY <3>1, <1>a
  <2>7. CASE StopFlush
    BY <2>7, <1>t DEF StopFlush, Goto, CallType
  <2> QED BY <1>4, <2>1, <2>2, <2>3, <2>4, <2>5, <2>6, <2>7 DEF AppStep
<1> QED BY <1>1, <1>2, <1>3, <1>4 DEF Next

----------------------------------------------------------------------------
(* Reports *)

\* A running stream has reported nothing since it was started.
ReportsInv == ReportsAreLosses /\ (state = "RUNNING" => reports = 0)

LEMMA ReportsInvInit == Init => ReportsInv
BY DEF Init, ReportsInv, ReportsAreLosses

LEMMA ReportsInvStep == TypeOK /\ CallInv /\ ReportsInv /\ [Next]_vars => ReportsInv'
<1> SUFFICES ASSUME TypeOK, CallInv, ReportsInv, [Next]_vars PROVE ReportsInv'
  OBVIOUS
<1> USE DEF ReportsInv, ReportsAreLosses, lossVars, warnVars, ownVars
<1>t. reports \in Nat
  BY DEF TypeOK, HistoryType
<1>1. CASE UNCHANGED vars
  BY <1>1 DEF vars, threadVars
<1>2. CASE DataStep
  BY <1>2, DataFrame, DrainFrame DEF threadVars
<1>3. CASE LoopStep
  <2>1. CASE \E new \in {"paused", "streaming", "error", "unconnected"} : OnStateChanged(new)
    BY <2>1, <1>t DEF OnStateChanged, Report
  <2>2. CASE OnFormatCleared
    BY <2>2, <1>t DEF OnFormatCleared, Report
  <2>3. CASE OnFormat \/ OnDrained
    BY <2>3 DEF OnFormat, OnDrained
  <2>4. CASE CallbackStart
    BY <2>4 DEF CallbackStart
  <2>5. CASE CallbackStop
    BY <2>5 DEF CallbackStop
  <2>6. CASE CallbackReturn
    BY <2>6 DEF CallbackReturn
  <2> QED BY <1>3, <2>1, <2>2, <2>3, <2>4, <2>5, <2>6 DEF LoopStep
<1>4. CASE AppStep
  <2>1. CASE Replace \/ TeardownLocked
    BY <2>1, QuietDestroy DEF Replace, TeardownLocked
  <2>2. CASE \E on \in BOOLEAN : SetConfig(on) \/ StopCall(on)
    BY <2>2 DEF SetConfig, StopCall
  <2>3. CASE ConnectFails \/ StartLocked
    <3>1. UNCHANGED <<state, lost, reports, refused, warned>>
      BY <2>3 DEF ConnectFails, StartLocked
    <3> QED BY <3>1
  <2>7. CASE Connect
    BY <2>7 DEF Connect
  <2>8. CASE ConfigReturn
    BY <2>8 DEF ConfigReturn
  <2>4. CASE StartReturn
    BY <2>4 DEF StartReturn
  <2>5. CASE StopFlush \/ StopReturn \/ Destroy \/ DestroyStop \/ Teardown
    BY <2>5 DEF StopFlush, StopReturn, Destroy, DestroyStop, Teardown
  <2>6. CASE StopNow \/ StopDrained \/ StopTimeout
    <3>1. UNCHANGED <<state, lost, reports, refused, warned>>
      BY <2>6 DEF StopNow, StopDrained, StopTimeout, Pause
    <3> QED BY <3>1
  <2> QED BY <1>4, <2>1, <2>2, <2>3, <2>4, <2>5, <2>6, <2>7, <2>8 DEF AppStep
<1> QED BY <1>1, <1>2, <1>3, <1>4 DEF Next

----------------------------------------------------------------------------
(* Buffers *)

\* A cycle holds its buffer; only a capture cycle shows a descriptor.
HoldingInv ==
  /\ BuffersReturned
  /\ ~ BetweenCycles => cyc.buffer \in Buffers
  /\ current_dmabuf_buf # NULL => ~ BetweenCycles /\ direction = "capture"

LEMMA HoldingInvInit == Init => HoldingInv
BY DEF Init, HoldingInv, BuffersReturned, BetweenCycles, NoCycle

LEMMA HoldingInvStep == TypeOK /\ HoldingInv /\ [Next]_vars => HoldingInv'
<1> SUFFICES ASSUME TypeOK, HoldingInv, [Next]_vars PROVE HoldingInv'
  OBVIOUS
<1> USE DEF HoldingInv, BuffersReturned, BetweenCycles, dmabufVars, bufVars
<1>t. /\ where \in [Buffers -> {"free", "ready", "held", "queued"}]
      /\ cyc.pc \in {"idle", "callback"}
      /\ current_dmabuf_buf \in Buffers \cup {NULL}
  BY DEF TypeOK, BufferType
<1>1. CASE UNCHANGED vars
  BY <1>1 DEF vars, threadVars, cycleVars
<1>2. CASE AppStep \/ LoopStep
  <2>1. UNCHANGED <<direction, current_dmabuf_buf, cyc>>
    BY <1>2, CallFrame
  <2>2. CASE UNCHANGED where
    BY <2>1, <2>2
  <2>3. CASE DestroyPw /\ cyc.pc = "idle"
    BY <2>1, <2>3 DEF DestroyPw
  <2> QED BY <1>2, <2>2, <2>3, CallFrame
<1>3. CASE DataStep
  <2>d. direction' = direction
    BY <1>3, DataFrame, DrainFrame DEF threadVars
  <2>1. CASE \E b \in Buffers : CaptureBegin(b)
    <3> PICK b \in Buffers : CaptureBegin(b)
      BY <2>1
    <3>1. /\ cyc.pc = "idle" /\ direction = "capture" /\ where[b] = "ready"
          /\ where' = [where EXCEPT ![b] = "held"]
          /\ current_dmabuf_buf' \in {b, current_dmabuf_buf}
      BY DEF CaptureBegin, Processes
    <3>2. cyc'.pc = "callback" /\ cyc'.buffer = b
      BY DEF CaptureBegin, NoCycle
    <3> QED BY <1>t, <2>d, <3>1, <3>2
  <2>2. CASE \E b \in Buffers : CaptureSkip(b) \/ Fill(b) \/ PlaybackUnusable(b) \/ Play(b)
    <3> PICK b \in Buffers : CaptureSkip(b) \/ Fill(b) \/ PlaybackUnusable(b) \/ Play(b)
      BY <2>2
    <3>1. \E w \in {"free", "ready", "queued"} : where' = [where EXCEPT ![b] = w]
      BY DEF CaptureSkip, Fill, PlaybackUnusable, Play
    <3>2. where[b] # "held" /\ UNCHANGED <<cyc, current_dmabuf_buf>>
      BY DEF CaptureSkip, Fill, PlaybackUnusable, Play
    <3> QED BY <1>t, <2>d, <3>1, <3>2
  <2>3. CASE \E b \in Buffers, frames \in Requests : PlaybackBegin(b, frames)
    <3> PICK b \in Buffers, frames \in Requests : PlaybackBegin(b, frames)
      BY <2>3
    <3>1. /\ cyc.pc = "idle" /\ where[b] = "free"
          /\ where' = [where EXCEPT ![b] = "held"]
          /\ current_dmabuf_buf' = current_dmabuf_buf
          /\ cyc'.pc = "callback" /\ cyc'.buffer = b
      BY DEF PlaybackBegin, Processes
    <3> QED BY <1>t, <2>d, <3>1
  <2>4. CASE GetPlanes \/ Tick \/ DrainEnds
    BY <2>4, <2>d, DrainFrame DEF GetPlanes, Tick, cycleVars
  <2>5. CASE CaptureEnd \/ \E size \in 0..(RegionSize + 1) : PlaybackEnd(size)
    <3>1. cyc.pc = "callback" /\ cyc'.pc = "idle"
      <4>1. CASE CaptureEnd
        BY <4>1 DEF CaptureEnd, NoCycle
      <4>2. CASE \E size \in 0..(RegionSize + 1) : PlaybackEnd(size)
        BY <4>2 DEF PlaybackEnd, NoCycle
      <4> QED BY <2>5, <4>1, <4>2
    <3>2. \E w \in {"free", "queued"} : where' = [where EXCEPT ![cyc.buffer] = w]
      BY <2>5 DEF CaptureEnd, PlaybackEnd
    <3>3. current_dmabuf_buf' = NULL
      BY <2>5 DEF CaptureEnd, PlaybackEnd, Current
    <3> QED BY <1>t, <3>1, <3>2, <3>3
  <2> QED BY <1>3, <2>1, <2>2, <2>3, <2>4, <2>5 DEF DataStep
<1> QED BY <1>1, <1>2, <1>3 DEF Next

----------------------------------------------------------------------------
(* What goes out *)

Good(c) ==
  /\ c.size = IF c.asked > 0 THEN c.asked * FrameSize ELSE RegionSize
  /\ \E n \in 0..c.frames :
       /\ n * FrameSize <= c.size
       /\ n < c.frames => (n + 1) * FrameSize > c.size
       /\ \A i \in 1..c.size :
            c.bytes[i] = IF i <= n * FrameSize THEN "app" ELSE "silence"

\* A buffer is empty until a cycle writes it, and again when it was played.
ContentInv ==
  /\ \A b \in Buffers : where[b] # "queued" => content[b].size = 0
  /\ \A b \in Buffers : where[b] = "queued" /\ content[b].size > 0 => Good(content[b])

LEMMA ContentInvInit == Init => ContentInv
BY DEF Init, ContentInv, Nothing

\* What a playback cycle makes of the buffer it queues
LEMMA GoodWritten ==
  ASSUME NEW size \in Nat, NEW frames \in Requests \cup {0}
  PROVE  Good([asked |-> Granted(frames), frames |-> size \div FrameSize,
               size |-> Available(frames), bytes |-> Written(size, Available(frames))])
<1> DEFINE available == Available(frames)
           whole == size \div FrameSize
<1>1. /\ available \in 0..RegionSize
      /\ available = IF Granted(frames) > 0 THEN Granted(frames) * FrameSize ELSE RegionSize
  BY AvailableFits
<1> HIDE DEF available
<1>a. available \in Nat
  BY <1>1
<1>b. \E n \in 0..whole :
        /\ Filled(size, available) = n * FrameSize
        /\ n < whole => (n + 1) * FrameSize > available
  BY <1>a, FilledIsWhole, Zenon
<1> HIDE DEF whole
<1>2. PICK n \in 0..whole :
        /\ Filled(size, available) = n * FrameSize
        /\ n < whole => (n + 1) * FrameSize > available
  BY <1>b
<1>c. n * FrameSize <= available
  BY <1>a, <1>2, FilledIsWhole
<1>3. ASSUME NEW i \in 1..available
      PROVE  Written(size, available)[i] = IF i <= n * FrameSize THEN "app" ELSE "silence"
  BY <1>1, <1>2 DEF Written
<1>4. Good([asked |-> Granted(frames), frames |-> whole, size |-> available,
            bytes |-> Written(size, available)])
  BY <1>1, <1>2, <1>c, <1>3 DEF Good
<1> QED BY <1>4 DEF available, whole

LEMMA ContentInvStep == TypeOK /\ HoldingInv /\ ContentInv /\ [Next]_vars => ContentInv'
<1> SUFFICES ASSUME TypeOK, HoldingInv, ContentInv, [Next]_vars PROVE ContentInv'
  OBVIOUS
<1> USE DEF ContentInv, bufVars
<1>t. /\ where \in [Buffers -> {"free", "ready", "held", "queued"}]
      /\ content \in [Buffers -> [asked : Requests \cup {0}, frames : Nat, size : 0..RegionSize, bytes : [1..RegionSize -> Bytes]]]
  BY DEF TypeOK, BufferType
<1>1. CASE UNCHANGED vars
  BY <1>1 DEF vars, cycleVars
<1>2. CASE AppStep \/ LoopStep
  <2>1. CASE UNCHANGED <<where, content>>
    BY <2>1
  <2>2. CASE DestroyPw
    BY <2>2 DEF DestroyPw, Nothing
  <2> QED BY <1>2, <2>1, <2>2, CallFrame
<1>3. CASE DataStep
  <2>1. CASE \E b \in Buffers : CaptureBegin(b) \/ CaptureSkip(b) \/ Fill(b) \/ PlaybackUnusable(b)
    <3> PICK b \in Buffers : CaptureBegin(b) \/ CaptureSkip(b) \/ Fill(b) \/ PlaybackUnusable(b)
      BY <2>1
    <3>1. \E w \in {"free", "ready", "held", "queued"} : where' = [where EXCEPT ![b] = w]
      BY DEF CaptureBegin, CaptureSkip, Fill, PlaybackUnusable
    <3>2. where[b] # "queued" /\ UNCHANGED content
      BY DEF CaptureBegin, CaptureSkip, Fill, PlaybackUnusable
    <3> QED BY <1>t, <3>1, <3>2
  <2>2. CASE \E b \in Buffers : Play(b)
    BY <1>t, <2>2 DEF Play, Nothing
  <2>3. CASE \E b \in Buffers, frames \in Requests : PlaybackBegin(b, frames)
    BY <1>t, <2>3 DEF PlaybackBegin
  <2>4. CASE GetPlanes \/ Tick \/ DrainEnds
    BY <2>4, DrainFrame DEF GetPlanes, Tick, cycleVars
  <2>5. CASE CaptureEnd
    <3>1. where[cyc.buffer] = "held" /\ cyc.buffer \in Buffers
      BY <2>5 DEF CaptureEnd, HoldingInv, BuffersReturned, BetweenCycles
    <3>2. where' = [where EXCEPT ![cyc.buffer] = "free"] /\ UNCHANGED content
      BY <2>5 DEF CaptureEnd
    <3> QED BY <1>t, <3>1, <3>2
  <2>6. CASE \E size \in 0..(RegionSize + 1) : PlaybackEnd(size)
    <3> PICK size \in 0..(RegionSize + 1) : PlaybackEnd(size)
      BY <2>6
    <3>1. cyc.buffer \in Buffers /\ cyc.requested \in Requests \cup {0}
      BY DEF PlaybackEnd, HoldingInv, BetweenCycles, TypeOK, BufferType
    <3> DEFINE c == [asked |-> Granted(cyc.requested), frames |-> size \div FrameSize,
                     size |-> Available(cyc.requested),
                     bytes |-> Written(size, Available(cyc.requested))]
    <3>s. size \in Nat
      OBVIOUS
    <3>2. Good(c)
      BY <3>s, <3>1, GoodWritten, Zenon
    <3>3. /\ where' = [where EXCEPT ![cyc.buffer] = "queued"]
          /\ content' = [content EXCEPT ![cyc.buffer] = c]
      BY DEF PlaybackEnd, Granted
    <3> HIDE DEF c
    <3> QED BY <1>t, <3>1, <3>2, <3>3
  <2> QED BY <1>3, <2>1, <2>2, <2>3, <2>4, <2>5, <2>6 DEF DataStep
<1> QED BY <1>1, <1>2, <1>3 DEF Next

----------------------------------------------------------------------------
(* Logs *)

\* The count, and the last line's interval, of one condition at a time now
Accounted(l, p, now) ==
  /\ p.occurred = p.lines + p.announced + l.suppressed
  /\ l.last <= now
  /\ l.last = 0 => p.lines = 0
  /\ l.last > 0 => p.lines <= 1 + (l.last - 1) \div LogInterval

LogInv == \A k \in Conditions : Accounted(limiter[k], printed[k], clock)

LEMMA LogInvInit == Init => LogInv
BY DEF Init, LogInv, Accounted

\* A line, or one more suppressed
LEMMA OccursAccounted ==
  ASSUME LogType, LogInv, NEW k \in Conditions, Occurs(k)
  PROVE  \A j \in Conditions : Accounted(limiter'[j], printed'[j], clock)
<1> DEFINE l == limiter[k]
           p == printed[k]
<1>1. /\ l.last \in Nat /\ l.suppressed \in Nat
      /\ p.lines \in Nat /\ p.announced \in Nat /\ p.occurred \in Nat
      /\ clock \in Nat /\ clock >= 1
  BY DEF LogType
<1>2. Accounted(l, p, clock)
  BY DEF LogInv
<1>t. /\ limiter \in [Conditions -> [last : Nat, suppressed : Nat]]
      /\ printed \in [Conditions -> [lines : Nat, announced : Nat, occurred : Nat]]
  BY DEF LogType
<1>3. \A j \in Conditions \ {k} : limiter'[j] = limiter[j] /\ printed'[j] = printed[j]
  BY <1>t DEF Occurs
<1>4. CASE Suppresses(limiter[k])
  <2>1. /\ limiter'[k].last = l.last /\ limiter'[k].suppressed = l.suppressed + 1
        /\ printed'[k].lines = p.lines /\ printed'[k].announced = p.announced
        /\ printed'[k].occurred = p.occurred + 1
    BY <1>4, <1>t DEF Occurs
  <2> HIDE DEF l, p
  <2>2. Accounted(limiter'[k], printed'[k], clock)
    BY <1>1, <1>2, <2>1 DEF Accounted
  <2> QED BY <1>3, <2>2 DEF LogInv
<1>5. CASE ~ Suppresses(limiter[k])
  <2>1. /\ limiter'[k].last = clock /\ limiter'[k].suppressed = 0
        /\ printed'[k].lines = p.lines + 1
        /\ printed'[k].announced = p.announced + l.suppressed
        /\ printed'[k].occurred = p.occurred + 1
    BY <1>5, <1>t DEF Occurs, Logged
  <2>2. l.last = 0 \/ clock - l.last >= LogInterval
    BY <1>1, <1>5 DEF Suppresses
  <2> HIDE DEF l, p
  <2>3. p.lines + 1 <= 1 + (clock - 1) \div LogInterval
    <3>1. CASE l.last = 0
      <4>1. clock - 1 \in Nat
        BY <1>1
      <4>2. (clock - 1) \div LogInterval \in Nat
        BY <4>1
      <4> QED BY <1>2, <3>1, <4>2 DEF Accounted
    <3>2. CASE l.last > 0
      <4>1. l.last - 1 \in Nat /\ clock - 1 \in Nat /\ (clock - 1) - (l.last - 1) >= LogInterval
        BY <1>1, <2>2, <3>2
      <4>2. (clock - 1) \div LogInterval >= 1 + (l.last - 1) \div LogInterval
        BY <4>1, OneMoreInterval
      <4>3. (clock - 1) \div LogInterval \in Nat /\ (l.last - 1) \div LogInterval \in Nat
        BY <4>1
      <4> QED BY <1>1, <1>2, <3>2, <4>2, <4>3 DEF Accounted
    <3> QED BY <1>1, <3>1, <3>2
  <2>4. Accounted(limiter'[k], printed'[k], clock)
    BY <1>1, <1>2, <2>1, <2>3 DEF Accounted
  <2> QED BY <1>3, <2>4 DEF LogInv
<1> QED BY <1>4, <1>5

LEMMA LogInvStep == TypeOK /\ LogInv /\ [Next]_vars => LogInv'
<1> SUFFICES ASSUME TypeOK, LogInv, [Next]_vars PROVE LogInv'
  OBVIOUS
<1> USE DEF timeVars, logVars
<1>t. LogType
  BY DEF TypeOK
<1>1. CASE UNCHANGED <<logVars, clock>>
  BY <1>1 DEF LogInv
<1>2. CASE clock' = clock /\ \E k \in Conditions : Occurs(k)
  BY <1>t, <1>2, OccursAccounted DEF LogInv
<1>3. CASE Tick
  <2>1. clock' = clock + 1 /\ UNCHANGED <<limiter, printed>>
    BY <1>3 DEF Tick
  <2>2. \A k \in Conditions : limiter[k].last \in Nat /\ clock \in Nat
    BY <1>t DEF LogType
  <2> QED BY <2>1, <2>2 DEF LogInv, Accounted
<1>4. CASE UNCHANGED vars
  BY <1>1, <1>4 DEF vars, cycleVars
<1>5. CASE AppStep \/ LoopStep
  BY <1>1, <1>5, CallFrame
<1>6. CASE DataStep
  <2>1. CASE \E b \in Buffers : CaptureBegin(b) \/ CaptureSkip(b) \/ Fill(b) \/ Play(b)
    BY <1>1, <2>1 DEF CaptureBegin, CaptureSkip, Fill, Play
  <2>2. CASE \E b \in Buffers : PlaybackUnusable(b)
    BY <1>2, <2>2 DEF PlaybackUnusable, Conditions
  <2>3. CASE \E b \in Buffers, frames \in Requests : PlaybackBegin(b, frames)
    BY <1>1, <2>3 DEF PlaybackBegin
  <2>4. CASE GetPlanes \/ DrainEnds
    BY <1>1, <2>4, DrainFrame DEF GetPlanes, cycleVars
  <2>5. CASE CaptureEnd
    BY <1>1, <1>2, <2>5 DEF CaptureEnd, OccursIf, Conditions
  <2>6. CASE \E size \in 0..(RegionSize + 1) : PlaybackEnd(size)
    BY <1>1, <1>2, <2>6 DEF PlaybackEnd, OccursIf, Conditions
  <2> QED BY <1>3, <1>6, <2>1, <2>2, <2>3, <2>4, <2>5, <2>6 DEF DataStep
<1> QED BY <1>4, <1>5, <1>6 DEF Next

----------------------------------------------------------------------------
(* Drains *)

Dead == pw.st \in {"error", "unconnected"}

Drained == \A b \in Buffers : where[b] # "queued"

\* A playback stream's error callback means that its node is gone for good.
\* While no drain timed out, the answer under way is that of this drain; from
\* when it is due until the call has seen it, nothing new is queued.
DrainInv ==
  direction = "playback" =>
    /\ loop = "callback" => Dead
    /\ ~ timedOut =>
         /\ drain_event => call.pc = "draining" /\ ~ drained
         /\ drain = "asked" => call.pc = "draining" /\ ~ drained /\ ~ drain_event
         /\ drain_event \/ (drained /\ call.pc = "draining")
              => Drained /\ BetweenCycles /\ (drain = "done" \/ Dead)

LEMMA DrainInvInit == Init => DrainInv
BY DEF Init, DrainInv, Idle

LEMMA SameDirection == [Next]_vars => direction' = direction
<1>1. CASE UNCHANGED vars
  BY <1>1 DEF vars, threadVars
<1>2. CASE AppStep \/ LoopStep
  BY <1>2, CallFrame
<1>3. CASE DataStep
  BY <1>3, DataFrame, DrainFrame DEF threadVars
<1> QED BY <1>1, <1>2, <1>3 DEF Next

LEMMA DrainInvStep == TypeOK /\ CallInv /\ DrainInv /\ [Next]_vars => DrainInv'
<1> SUFFICES ASSUME TypeOK, CallInv, DrainInv, [Next]_vars, direction = "playback"
             PROVE  DrainInv'
  BY SameDirection DEF DrainInv
<1> USE DEF DrainInv, Dead, Drained, BetweenCycles, LockFree, bufVars, drainVars, flagVars,
        ownVars, warnVars, lossVars
<1>t. /\ CallType
      /\ where \in [Buffers -> {"free", "ready", "held", "queued"}]
      /\ pw \in [st : {"none", "connecting", "paused", "streaming", "error", "unconnected"},
                 active : BOOLEAN, format : BOOLEAN,
                 memory : {"none", "mapped", "unmapped", "dmabuf"}]
      /\ drained \in BOOLEAN /\ drain_event \in BOOLEAN /\ timedOut \in BOOLEAN
      /\ loop \in {"idle", "callback"}
  BY DEF TypeOK, NodeType, BufferType, StreamType, HistoryType
<1>1. CASE UNCHANGED vars
  BY <1>1 DEF vars, threadVars, cycleVars, nodeVars
<1>2. CASE DataStep
  <2>1. CASE DrainEnds
    BY <2>1, <1>t, DrainFrame DEF DrainEnds, cycleVars
  <2>2. CASE UNCHANGED threadVars
    <3>1. UNCHANGED <<loop, pw, timedOut, drained, drain, drain_event, call>>
      BY <2>2 DEF threadVars, nodeVars
    <3>2. (drain = "no" /\ Streams) \/ (Drained /\ BetweenCycles => Drained' /\ BetweenCycles')
      <4>1. CASE \E b \in Buffers : CaptureBegin(b) \/ CaptureSkip(b) \/ Fill(b)
        BY <4>1 DEF CaptureBegin, CaptureSkip, Fill, Processes
      <4>2. CASE \E b \in Buffers : Play(b)
        BY <4>2, <1>t DEF Play
      <4>3. CASE \E b \in Buffers : PlaybackUnusable(b) \/ \E f \in Requests : PlaybackBegin(b, f)
        BY <4>3 DEF PlaybackUnusable, PlaybackBegin, Processes
      <4>4. CASE GetPlanes \/ CaptureEnd \/ \E size \in 0..(RegionSize + 1) : PlaybackEnd(size)
        BY <4>4 DEF GetPlanes, CaptureEnd, PlaybackEnd
      <4>5. CASE Tick
        BY <4>5 DEF Tick
      <4>6. CASE DrainEnds
        BY <4>6, DrainFrame DEF cycleVars
      <4> QED BY <1>2, <4>1, <4>2, <4>3, <4>4, <4>5, <4>6 DEF DataStep
    <3>3. Streams => ~ Dead
      BY DEF Streams
    <3> QED BY <3>1, <3>2, <3>3
  <2> QED BY <1>2, <2>1, <2>2, DataFrame
<1>3. CASE LoopStep
  <2>1. UNCHANGED cyc
    BY <1>3, CallFrame
  <2>2. CASE \E new \in {"paused", "streaming", "error", "unconnected"} : OnStateChanged(new)
    <3> PICK new \in {"paused", "streaming", "error", "unconnected"} : OnStateChanged(new)
      BY <2>2
    <3>1. UNCHANGED <<drained, drain, drain_event, call, where, timedOut>>
      BY DEF OnStateChanged, cycleVars
    <3>2. ~ Dead /\ pw'.st = new
      BY <1>t DEF OnStateChanged, Transitions
    <3>3. loop' = "callback" => new \in {"error", "unconnected"}
      BY DEF OnStateChanged, Report, LostSource
    <3> QED BY <2>1, <3>1, <3>2, <3>3
  <2>3. CASE OnFormat
    BY <2>1, <2>3, <1>t DEF OnFormat, cycleVars
  <2>4. CASE OnFormatCleared
    BY <2>1, <2>4, <1>t DEF OnFormatCleared, Negotiates, cycleVars
  <2>5. CASE OnDrained
    BY <2>1, <2>5, <1>t DEF OnDrained, cycleVars
  <2>6. CASE CallbackStart
    BY <2>1, <2>6, <1>t DEF CallbackStart, SetActive, cycleVars
  <2>7. CASE CallbackStop
    BY <2>1, <2>7, <1>t DEF CallbackStop, SetActive, cycleVars
  <2>8. CASE CallbackReturn
    BY <2>1, <2>8, <1>t DEF CallbackReturn, cycleVars
  <2> QED BY <1>3, <2>2, <2>3, <2>4, <2>5, <2>6, <2>7, <2>8 DEF LoopStep
<1>4. CASE AppStep
  <2>1. UNCHANGED cyc
    BY <1>4, CallFrame
  <2>2. CASE Replace \/ TeardownLocked
    <3>1. call.pc \in {"replace", "teardown_locked"} /\ loop = "idle" /\ DestroyPw
          /\ drained' = drained /\ call'.pc # "draining"
      BY <2>2, <1>t DEF Replace, TeardownLocked, Goto, CallType
    <3>2. UNCHANGED <<loop, timedOut>>
      BY <3>1, QuietDestroy
    <3>3. drain' = "no" /\ drain_event' = FALSE
      BY <3>1 DEF DestroyPw
    <3> QED BY <3>1, <3>2, <3>3
  <2>3. CASE \E on \in BOOLEAN : SetConfig(on) \/ StopCall(on)
    <3>1. call = Idle /\ call'.pc # "draining"
          /\ UNCHANGED <<loop, pw, drained, drain, drain_event, where, timedOut>>
      BY <2>3 DEF SetConfig, StopCall, nodeVars, cycleVars
    <3> QED BY <2>1, <3>1 DEF Idle
  <2>4. CASE Connect
    <3>1. call.pc = "connect" /\ call'.pc = "connected" /\ loop = "idle"
          /\ UNCHANGED <<loop, drained, drain, drain_event, where, timedOut>>
      BY <2>4, <1>t DEF Connect, Goto, CallType, cycleVars
    <3> QED BY <2>1, <3>1
  <2>5. CASE ConnectFails \/ ConfigReturn \/ StartReturn \/ StopReturn \/ Destroy \/ DestroyStop \/ Teardown
    <3>1. call.pc # "draining" /\ call'.pc # "draining"
      BY <2>5, <1>t DEF ConnectFails, ConfigReturn, StartReturn, StopReturn, Destroy, DestroyStop, Teardown,
         Goto, Idle, CallType
    <3>2. UNCHANGED <<loop, pw, drained, drain, drain_event, where, timedOut>>
      BY <2>5 DEF ConnectFails, ConfigReturn, StartReturn, StopReturn, Destroy, DestroyStop, Teardown,
         nodeVars, cycleVars
    <3> QED BY <2>1, <3>1, <3>2
  <2>6. CASE StartLocked
    <3>1. call = Idle /\ call'.pc = "started" /\ loop = "idle"
          /\ UNCHANGED <<loop, drained, drain_event, where, timedOut>>
          /\ drain' \in {"no", drain}
      BY <2>6 DEF StartLocked, SetActive, cycleVars
    <3> QED BY <2>1, <3>1 DEF Idle
  <2>7. CASE StopFlush
    <3>1. call.pc = "stop" /\ call'.pc = "draining" /\ drained' = FALSE
          /\ UNCHANGED <<loop, pw, drain_event, where, timedOut>>
      BY <2>7, <1>t DEF StopFlush, Goto, AtFlush, CallType, cycleVars
    <3> QED BY <2>1, <3>1
  <2>8. CASE StopNow \/ StopDrained
    <3>1. (call.pc = "stop" \/ drained) /\ call'.pc = "paused" /\ loop = "idle"
          /\ UNCHANGED <<loop, drained, drain_event, where>>
          /\ drain' = "no"
      BY <2>8, <1>t DEF StopNow, StopDrained, Pause, SetActive, Goto, CallType, cycleVars
    <3>2. timedOut' = timedOut
      BY <2>8, <1>t DEF StopNow, StopDrained, Pause
    <3> QED BY <2>1, <3>1, <3>2
  <2>9. CASE StopTimeout
    BY <2>9 DEF StopTimeout, Pause
  <2> QED BY <1>4, <2>2, <2>3, <2>4, <2>5, <2>6, <2>7, <2>8, <2>9 DEF AppStep
<1> QED BY <1>1, <1>2, <1>3, <1>4 DEF Next

----------------------------------------------------------------------------
(* Theorems *)

IInv ==
  /\ TypeOK /\ CallInv /\ PwInv /\ ReportsInv /\ HoldingInv
  /\ ContentInv /\ LogInv /\ DrainInv

LEMMA Invariance == Spec => []IInv
<1>1. Init => IInv
  BY TypeInit, CallInvInit, PwInvInit, ReportsInvInit, HoldingInvInit, ContentInvInit, LogInvInit,
     DrainInvInit DEF IInv
<1>2. IInv /\ [Next]_vars => IInv'
  BY TypeStep, CallInvStep, PwInvStep, ReportsInvStep, HoldingInvStep, ContentInvStep, LogInvStep,
     DrainInvStep DEF IInv
<1> QED BY <1>1, <1>2, PTL DEF Spec

\* For any pool and any order of calls, losses and formats, the error callback
\* is called once per loss and start, and never for what the application takes
\* down itself.
THEOREM ReportsOnlyLosses == Spec => []ReportsAreLosses
<1>1. IInv => ReportsAreLosses
  BY DEF IInv, ReportsInv
<1> QED BY Invariance, <1>1, PTL

\* For any pool, a cycle queues the buffer it dequeued, and the accessor never
\* reaches the descriptor of another buffer, nor one of an earlier pw_stream.
THEOREM BuffersAreReturned == Spec => []BuffersReturned
<1>1. IInv => BuffersReturned
  BY DEF IInv, HoldingInv
<1> QED BY Invariance, <1>1, PTL

\* For any frame size, buffer size and request, what goes out is whole frames of
\* this cycle and then silence, as long as the device asked for.
THEOREM PlaysWhole == Spec => []PlaysWholeFrames
<1>1. IInv => PlaysWholeFrames
  BY DEF IInv, ContentInv, PlaysWholeFrames, Good
<1> QED BY Invariance, <1>1, PTL

\* For any interval, no occurrence of a repeated condition is lost to the log or
\* announced twice, and there is at most one line per interval.
THEOREM LogsAccounted == Spec => []LogsAreAccounted
<1>1. ASSUME LogType, LogInv PROVE LogsAreAccounted
  <2> SUFFICES ASSUME NEW k \in Conditions
               PROVE  /\ printed[k].occurred =
                           printed[k].lines + printed[k].announced + limiter[k].suppressed
                      /\ printed[k].lines <= 1 + (clock - 1) \div LogInterval
    BY DEF LogsAreAccounted
  <2>1. /\ limiter[k].last \in Nat /\ printed[k].lines \in Nat
        /\ clock - 1 \in Nat /\ clock \in Nat
    BY <1>1 DEF LogType
  <2>2. Accounted(limiter[k], printed[k], clock)
    BY <1>1 DEF LogInv
  <2>3. CASE limiter[k].last = 0
    <3>1. (clock - 1) \div LogInterval \in Nat
      BY <2>1
    <3> QED BY <2>1, <2>2, <2>3, <3>1 DEF Accounted
  <2>4. CASE limiter[k].last > 0
    <3>1. limiter[k].last - 1 \in Nat /\ limiter[k].last - 1 <= clock - 1
      BY <2>1, <2>2, <2>4 DEF Accounted
    <3>2. (limiter[k].last - 1) \div LogInterval <= (clock - 1) \div LogInterval
      BY <2>1, <3>1, IntervalsGrow
    <3>3. (limiter[k].last - 1) \div LogInterval \in Nat /\ (clock - 1) \div LogInterval \in Nat
      BY <2>1, <3>1
    <3> QED BY <2>1, <2>2, <2>4, <3>2, <3>3 DEF Accounted
  <2> QED BY <2>1, <2>3, <2>4
<1>2. IInv => LogsAreAccounted
  BY <1>1 DEF IInv, TypeOK
<1> QED BY Invariance, <1>2, PTL

\* For any pool, a stop with drain that saw its answer left nothing unplayed,
\* unless a drain timed out before: restarts, losses and replaced nodes between
\* the request and its answer change nothing in that.
THEOREM DrainPlays == Spec => DrainedMeansPlayed
<1>1. IInv /\ StopDrained /\ direction = "playback" /\ ~ timedOut
        => \A b \in Buffers : where[b] # "queued"
  BY DEF IInv, DrainInv, StopDrained, Drained
<1>2. IInv /\ [Next]_vars => [StopDrained /\ direction = "playback" /\ ~ timedOut
                                => \A b \in Buffers : where[b] # "queued"]_vars
  BY <1>1
<1> QED BY Invariance, <1>2, PTL DEF Spec, DrainedMeansPlayed

----------------------------------------------------------------------------
(* The promise *)

View == [h \in {"stream"} |-> Seen]

LEMMA SeenFields ==
  /\ View["stream"] = Seen
  /\ Seen.st = IF call.pc = "destroyed" THEN "destroyed" ELSE "created"
  /\ Seen.set = format_set /\ Seen.running = (state = "RUNNING")
  /\ Seen.active = pw.active
  /\ Seen.delivering = ~ BetweenCycles /\ Seen.reporting = ~ LockFree
BY DEF View, Seen

LEMMA SeenIsRecord ==
  /\ Seen = [st |-> Seen.st, set |-> Seen.set, running |-> Seen.running, active |-> Seen.active,
             delivering |-> Seen.delivering, reporting |-> Seen.reporting]
  /\ Seen' = [st |-> Seen'.st, set |-> Seen'.set, running |-> Seen'.running,
              active |-> Seen'.active, delivering |-> Seen'.delivering,
              reporting |-> Seen'.reporting]
BY DEF Seen

LEMMA CreatedIs ==
  Promise!Created = [st |-> "created", set |-> FALSE, running |-> FALSE, active |-> FALSE,
                     delivering |-> FALSE, reporting |-> FALSE]
<1> DEFINE Unused(st, no) == [st |-> st, set |-> no, running |-> no, active |-> no,
                              delivering |-> no, reporting |-> no]
<1>1. ASSUME NEW no
      PROVE  [Unused("none", no) EXCEPT !.st = "created"] = Unused("created", no)
  OBVIOUS
<1>2. \E no : no = FALSE
  BY Zenon
<1>3. PICK no : no = FALSE
  BY <1>2
<1>4. Promise!Absent = Unused("none", no)
  BY <1>3, Zenon DEF Promise!Absent
<1>5. Promise!Created = Unused("created", no)
  BY <1>1, <1>4 DEF Promise!Created
<1> QED BY <1>3, <1>5, Zenon

LEMMA InitKeeps == Init => Promise!PromiseInit
<1> SUFFICES ASSUME Init PROVE Promise!PromiseInit
  OBVIOUS
<1>1. /\ call.pc # "destroyed" /\ format_set = FALSE /\ (state = "RUNNING") = FALSE
      /\ pw.active = FALSE /\ (~ BetweenCycles) = FALSE /\ (~ LockFree) = FALSE
  BY DEF Init, Idle, NoPw, NoCycle, BetweenCycles, LockFree
<1>2. /\ Seen.st = "created" /\ Seen.set = FALSE /\ Seen.running = FALSE
      /\ Seen.active = FALSE /\ Seen.delivering = FALSE /\ Seen.reporting = FALSE
  BY <1>1 DEF Seen
<1>3. Seen = Promise!Created
  BY <1>2, SeenIsRecord, CreatedIs
<1> QED BY <1>3 DEF Promise!PromiseInit

LEMMA StepKeeps == IInv /\ [Next]_vars => [Promise!PromiseNext]_View
<1> SUFFICES ASSUME IInv, [Next]_vars PROVE Promise!PromiseNext \/ UNCHANGED View
  OBVIOUS
<1>t. TypeOK /\ CallInv
  BY DEF IInv
<1>c. /\ CallType /\ format_set \in BOOLEAN /\ loop \in {"idle", "callback"}
      /\ pw \in [st : {"none", "connecting", "paused", "streaming", "error", "unconnected"},
                 active : BOOLEAN, format : BOOLEAN,
                 memory : {"none", "mapped", "unmapped", "dmabuf"}]
      /\ cyc.pc \in {"idle", "callback"}
  BY <1>t DEF TypeOK, StreamType, NodeType, BufferType
<1> USE DEF View, Promise!Is, Promise!Alive
\* A step that leaves all of it is a stutter.
<1>s. ASSUME UNCHANGED <<format_set, state, loop>>, pw'.active = pw.active, cyc'.pc = cyc.pc,
             call'.pc = "destroyed" <=> call.pc = "destroyed"
      PROVE  UNCHANGED View
  BY <1>s DEF Seen, BetweenCycles, LockFree
<1>n. ASSUME Promise!Configured("stream") \/ Promise!Activate("stream")
               \/ Promise!Started("stream") \/ Promise!Pause("stream")
               \/ Promise!Stopped("stream") \/ Promise!Destroy("stream")
               \/ Promise!DataBegin("stream") \/ Promise!DataEnd("stream")
               \/ Promise!Report("stream") \/ Promise!Restart("stream")
               \/ Promise!Halt("stream") \/ Promise!ErrorEnd("stream")
      PROVE  Promise!PromiseNext
  BY <1>n DEF Promise!PromiseNext
<1>1. CASE UNCHANGED vars
  BY <1>1, <1>s DEF vars, threadVars, ownVars, flagVars, nodeVars, cycleVars
<1>2. CASE DataStep
  <2>1. UNCHANGED <<format_set, state, loop, pw, call>>
    BY <1>2, DataFrame, DrainFrame DEF threadVars, ownVars, flagVars, nodeVars
  <2>2. CASE cyc'.pc = cyc.pc
    BY <2>1, <2>2, <1>s
  <2>3. CASE cyc.pc = "idle" /\ cyc'.pc = "callback"
    <3>1. Streams
      BY <1>2, <2>3 DEF DataStep, CaptureBegin, CaptureSkip, Fill, PlaybackUnusable, Play,
         PlaybackBegin, Processes, GetPlanes, CaptureEnd, PlaybackEnd, DrainEnds, Tick, cycleVars
    <3>2. pw.active = TRUE /\ call.pc # "destroyed"
      BY <3>1, <1>c, <1>t DEF Streams, CallInv, NoPw
    <3>3. Seen' = [Seen EXCEPT !.delivering = TRUE]
      <4>1. /\ Seen'.st = Seen.st /\ Seen'.set = Seen.set /\ Seen'.running = Seen.running
            /\ Seen'.active = Seen.active /\ Seen'.delivering = TRUE
            /\ Seen'.reporting = Seen.reporting
        BY <2>1, <2>3 DEF Seen, BetweenCycles, LockFree
      <4> QED BY <4>1, SeenIsRecord
    <3>4. Promise!DataBegin("stream")
      BY <2>3, <3>2, <3>3 DEF Promise!DataBegin, Seen, BetweenCycles
    <3> QED BY <3>4, <1>n
  <2>4. CASE cyc.pc = "callback" /\ cyc'.pc = "idle"
    <3>1. Seen' = [Seen EXCEPT !.delivering = FALSE]
      <4>1. /\ Seen'.st = Seen.st /\ Seen'.set = Seen.set /\ Seen'.running = Seen.running
            /\ Seen'.active = Seen.active /\ Seen'.delivering = FALSE
            /\ Seen'.reporting = Seen.reporting
        BY <2>1, <2>4 DEF Seen, BetweenCycles, LockFree
      <4> QED BY <4>1, SeenIsRecord
    <3>2. Promise!DataEnd("stream")
      BY <2>4, <3>1, ZenonT(40) DEF Promise!DataEnd, Seen, BetweenCycles
    <3> QED BY <3>2, <1>n
  <2>5. cyc'.pc \in {"idle", "callback"}
    BY <1>t, BufferTypeStep DEF BufferType
  <2> QED BY <1>c, <2>2, <2>3, <2>4, <2>5
<1>3. CASE LoopStep
  <2>1. UNCHANGED <<cyc, format_set>> /\ UNCHANGED call
    <3>1. UNCHANGED <<call, format_set>>
      BY <1>3 DEF LoopStep, OnStateChanged, OnFormat, OnFormatCleared, OnDrained,
         CallbackStart, CallbackStop, CallbackReturn, flagVars, ownVars
    <3> QED BY <1>3, <3>1, CallFrame
  \* A handler that may report
  <2>2. ASSUME Report \/ UNCHANGED <<state, loop>>, LockFree, pw'.active = pw.active,
               call.pc # "destroyed"
        PROVE  Promise!PromiseNext \/ UNCHANGED View
    <3>1. CASE UNCHANGED <<state, loop>>
      BY <2>1, <2>2, <3>1, <1>s
    <3>2. CASE state = "RUNNING" /\ state' = "STOPPED" /\ loop' = "callback"
      <4>1. Seen' = [Seen EXCEPT !.running = FALSE, !.reporting = TRUE, !.active = Seen.active]
        <5>1. /\ Seen'.st = Seen.st /\ Seen'.set = Seen.set /\ Seen'.running = FALSE
              /\ Seen'.active = Seen.active /\ Seen'.delivering = Seen.delivering
              /\ Seen'.reporting = TRUE
          BY <2>1, <2>2, <3>2 DEF Seen, BetweenCycles, LockFree
        <5> QED BY <5>1, SeenIsRecord
      <4>2. Promise!Report("stream")
        BY <2>2, <3>2, <4>1, ZenonT(40) DEF Promise!Report, Seen, LockFree
      <4> QED BY <4>2, <1>n
    <3> QED BY <2>2, <3>1, <3>2 DEF Report
  <2>3. CASE \E new \in {"paused", "streaming", "error", "unconnected"} : OnStateChanged(new)
    <3>1. call.pc # "destroyed" /\ pw'.active = pw.active
      BY <2>3, <1>t, <1>c DEF OnStateChanged, Transitions, CallInv, NoPw
    <3>2. LockFree /\ (Report \/ UNCHANGED <<state, loop>>)
      BY <2>3 DEF OnStateChanged
    <3> QED BY <2>2, <3>1, <3>2
  <2>4. CASE OnFormat \/ OnDrained
    <3>1. UNCHANGED <<state, loop>> /\ pw'.active = pw.active
      BY <2>4, <1>c DEF OnFormat, OnDrained, ownVars
    <3> QED BY <2>1, <3>1, <1>s
  <2>5. CASE OnFormatCleared
    <3>1. call.pc # "destroyed" /\ pw'.active = pw.active
      BY <2>5, <1>t, <1>c DEF OnFormatCleared, Exists, CallInv, NoPw
    <3>2. LockFree /\ (Report \/ UNCHANGED <<state, loop>>)
      BY <2>5 DEF OnFormatCleared
    <3> QED BY <2>2, <3>1, <3>2
  <2>6. CASE CallbackStart
    <3>1. /\ loop = "callback" /\ loop' = loop /\ state' = "RUNNING" /\ pw'.active = TRUE
          /\ call.pc # "destroyed" /\ format_set = TRUE
      BY <2>6, <1>t, <1>c DEF CallbackStart, SetActive, CallInv
    <3>2. Seen' = [Seen EXCEPT !.running = TRUE, !.active = TRUE]
      <4>1. /\ Seen'.st = Seen.st /\ Seen'.set = Seen.set /\ Seen'.running = TRUE
            /\ Seen'.active = TRUE /\ Seen'.delivering = Seen.delivering
            /\ Seen'.reporting = Seen.reporting
        BY <2>1, <3>1 DEF Seen, BetweenCycles, LockFree
      <4> QED BY <4>1, SeenIsRecord
    <3>3. Promise!Restart("stream")
      BY <3>1, <3>2 DEF Promise!Restart, Seen, LockFree
    <3> QED BY <3>3, <1>n
  <2>7. CASE CallbackStop
    <3>1. /\ loop = "callback" /\ loop' = loop /\ state' = "STOPPED" /\ pw'.active = FALSE
          /\ call.pc # "destroyed" /\ cyc.pc = "idle"
      BY <2>7, <1>t, <1>c DEF CallbackStop, SetActive, CallInv, BetweenCycles, LockFree
    <3>2. Seen' = [Seen EXCEPT !.running = FALSE, !.active = FALSE]
      <4>1. /\ Seen'.st = Seen.st /\ Seen'.set = Seen.set /\ Seen'.running = FALSE
            /\ Seen'.active = FALSE /\ Seen'.delivering = Seen.delivering
            /\ Seen'.reporting = Seen.reporting
        BY <2>1, <3>1 DEF Seen, BetweenCycles, LockFree
      <4> QED BY <4>1, SeenIsRecord
    <3>3. Promise!Halt("stream")
      BY <3>1, <3>2 DEF Promise!Halt, Seen, LockFree, BetweenCycles
    <3> QED BY <3>3, <1>n
  <2>8. CASE CallbackReturn
    <3>1. loop = "callback" /\ loop' = "idle" /\ UNCHANGED <<state, pw>>
      BY <2>8 DEF CallbackReturn, ownVars
    <3>2. Seen' = [Seen EXCEPT !.reporting = FALSE]
      <4>1. /\ Seen'.st = Seen.st /\ Seen'.set = Seen.set /\ Seen'.running = Seen.running
            /\ Seen'.active = Seen.active /\ Seen'.delivering = Seen.delivering
            /\ Seen'.reporting = FALSE
        BY <2>1, <3>1 DEF Seen, BetweenCycles, LockFree
      <4> QED BY <4>1, SeenIsRecord
    <3>3. Promise!ErrorEnd("stream")
      BY <3>1, <3>2, ZenonT(40) DEF Promise!ErrorEnd, Seen, LockFree
    <3> QED BY <3>3, <1>n
  <2> QED BY <1>3, <2>3, <2>4, <2>5, <2>6, <2>7, <2>8 DEF LoopStep
<1>4. CASE AppStep
  <2>1. UNCHANGED cyc
    BY <1>4, CallFrame
  \* Pausing, or destroying the pw_stream of a stream that is configured
  <2>2. ASSUME UNCHANGED <<format_set, state, loop>>, pw'.active = FALSE, BetweenCycles,
               call.pc # "destroyed", call'.pc # "destroyed"
        PROVE  Promise!PromiseNext
    <3>1. Seen' = [Seen EXCEPT !.active = FALSE]
      <4>1. /\ Seen'.st = Seen.st /\ Seen'.set = Seen.set /\ Seen'.running = Seen.running
            /\ Seen'.active = FALSE /\ Seen'.delivering = Seen.delivering
            /\ Seen'.reporting = Seen.reporting
        BY <2>1, <2>2 DEF Seen, BetweenCycles, LockFree
      <4> QED BY <4>1, SeenIsRecord
    <3>2. Promise!Pause("stream")
      BY <2>2, <3>1 DEF Promise!Pause, Seen
    <3> QED BY <3>2, <1>n
  <2>3. CASE Replace
    <3>1. /\ call.pc = "replace" /\ call'.pc = "connect" /\ BetweenCycles /\ DestroyPw
          /\ UNCHANGED format_set
      BY <2>3, <1>c DEF Replace, Goto, CallType, flagVars
    <3>2. UNCHANGED <<state, loop>> /\ pw'.active = FALSE
      <4>1. UNCHANGED <<state, loop>>
        BY <3>1, <1>t, QuietDestroy
      <4>2. pw' = NoPw
        BY <3>1 DEF DestroyPw
      <4> QED BY <4>1, <4>2 DEF NoPw
    <3> QED BY <2>2, <3>1, <3>2
  <2>4. CASE TeardownLocked
    <3>1. /\ call.pc = "teardown_locked" /\ call'.pc = "destroyed" /\ BetweenCycles /\ DestroyPw
          /\ LockFree /\ UNCHANGED format_set /\ state # "RUNNING"
      BY <2>4, <1>c, <1>t DEF TeardownLocked, Goto, CallType, CallInv, flagVars
    <3>2. UNCHANGED <<state, loop>> /\ pw'.active = FALSE
      <4>1. UNCHANGED <<state, loop>>
        BY <3>1, <1>t, QuietDestroy
      <4>2. pw' = NoPw
        BY <3>1 DEF DestroyPw
      <4> QED BY <4>1, <4>2 DEF NoPw
    <3>3. /\ Seen'.st = "destroyed" /\ Seen'.set = Seen.set /\ Seen'.running = FALSE
          /\ Seen'.active = FALSE /\ Seen'.delivering = FALSE /\ Seen'.reporting = FALSE
      BY <2>1, <3>1, <3>2 DEF Seen, BetweenCycles, LockFree
    <3>4. Seen' = [Seen EXCEPT !.st = "destroyed", !.running = FALSE, !.active = FALSE]
      <4>1. Seen.delivering = FALSE /\ Seen.reporting = FALSE
        BY <3>1 DEF Seen
      <4> QED BY <3>3, <4>1, SeenIsRecord
    <3>5. Promise!Destroy("stream")
      BY <3>1, <3>4 DEF Promise!Destroy, Seen
    <3> QED BY <3>5, <1>n
  <2>5. CASE \E on \in BOOLEAN : SetConfig(on) \/ StopCall(on)
    <3>1. call.pc = "idle" /\ call'.pc # "destroyed" /\ UNCHANGED <<format_set, state, loop, pw>>
      BY <2>5 DEF SetConfig, StopCall, Idle, nodeVars, ownVars, flagVars
    <3> QED BY <2>1, <3>1, <1>s
  <2>6. CASE Connect
    <3>1. /\ call.pc = "connect" /\ call'.pc = "connected" /\ pw'.active = FALSE
          /\ UNCHANGED <<format_set, state, loop>>
      BY <2>6, <1>c DEF Connect, Goto, CallType, NoPw
    <3>2. pw.active = FALSE
      BY <3>1, <1>c DEF IInv, PwInv
    <3> QED BY <2>1, <3>1, <3>2, <1>s
  <2>7. CASE ConnectFails \/ StopFlush \/ Destroy \/ DestroyStop \/ Teardown
    <3>1. /\ call.pc # "destroyed" /\ call'.pc # "destroyed"
          /\ UNCHANGED <<format_set, state, loop, pw>>
      BY <2>7, <1>c DEF ConnectFails, StopFlush, Destroy, DestroyStop, Teardown, Goto, Idle, CallType,
         nodeVars, ownVars, flagVars
    <3> QED BY <2>1, <3>1, <1>s
  <2>8. CASE ConfigReturn
    <3>1. /\ call.pc = "connected" /\ call'.pc = "idle" /\ UNCHANGED <<loop, pw>>
          /\ format_set' = TRUE /\ state' = "FORMAT_SET"
      BY <2>8 DEF ConfigReturn, Idle, nodeVars
    <3>2. Seen' = [Seen EXCEPT !.set = TRUE, !.running = FALSE]
      <4>1. /\ Seen'.st = Seen.st /\ Seen'.set = TRUE /\ Seen'.running = FALSE
            /\ Seen'.active = Seen.active /\ Seen'.delivering = Seen.delivering
            /\ Seen'.reporting = Seen.reporting
        BY <2>1, <3>1 DEF Seen, BetweenCycles, LockFree
      <4> QED BY <4>1, SeenIsRecord
    <3>3. Promise!Configured("stream")
      BY <3>1, <3>2, ZenonT(40) DEF Promise!Configured, Seen
    <3> QED BY <3>3, <1>n
  <2>9. CASE StartLocked
    <3>1. /\ call.pc = "idle" /\ call'.pc = "started" /\ pw'.active = TRUE
          /\ format_set = TRUE /\ UNCHANGED <<format_set, state, loop>>
      BY <2>9, <1>c DEF StartLocked, SetActive, Idle, ownVars, flagVars
    <3>2. Seen' = [Seen EXCEPT !.active = TRUE]
      <4>1. /\ Seen'.st = Seen.st /\ Seen'.set = Seen.set /\ Seen'.running = Seen.running
            /\ Seen'.active = TRUE /\ Seen'.delivering = Seen.delivering
            /\ Seen'.reporting = Seen.reporting
        BY <2>1, <3>1 DEF Seen, BetweenCycles, LockFree
      <4> QED BY <4>1, SeenIsRecord
    <3>3. Promise!Activate("stream")
      BY <3>1, <3>2, ZenonT(40) DEF Promise!Activate, Seen
    <3> QED BY <3>3, <1>n
  <2>10. CASE StartReturn
    <3>1. /\ call.pc = "started" /\ call'.pc = "idle" /\ state' = "RUNNING"
          /\ UNCHANGED <<format_set, pw, loop>>
      BY <2>10 DEF StartReturn, Idle, nodeVars, flagVars
    <3>2. Seen' = [Seen EXCEPT !.running = TRUE]
      <4>1. /\ Seen'.st = Seen.st /\ Seen'.set = Seen.set /\ Seen'.running = TRUE
            /\ Seen'.active = Seen.active /\ Seen'.delivering = Seen.delivering
            /\ Seen'.reporting = Seen.reporting
        BY <2>1, <3>1 DEF Seen, BetweenCycles, LockFree
      <4> QED BY <4>1, SeenIsRecord
    <3>3. Promise!Started("stream")
      BY <3>1, <3>2, ZenonT(40) DEF Promise!Started, Seen
    <3> QED BY <3>3, <1>n
  <2>11. CASE StopNow \/ StopDrained \/ StopTimeout
    <3>1. /\ SetActive(FALSE) /\ call.pc \in {"stop", "draining"} /\ call'.pc = "paused"
          /\ UNCHANGED <<format_set, state, loop>>
      BY <2>11, <1>c DEF StopNow, StopDrained, StopTimeout, Pause, Goto, CallType, ownVars, flagVars
    <3>2. pw'.active = FALSE /\ BetweenCycles
      BY <3>1, <1>c DEF SetActive
    <3> QED BY <2>2, <3>1, <3>2
  <2>12. CASE StopReturn
    <3>1. /\ call.pc = "paused" /\ call'.pc # "destroyed" /\ state' = "STOPPED"
          /\ UNCHANGED <<format_set, pw, loop>>
      BY <2>12, <1>c DEF StopReturn, Idle, CallType, nodeVars, flagVars
    <3>2. Seen' = [Seen EXCEPT !.running = FALSE]
      <4>1. /\ Seen'.st = Seen.st /\ Seen'.set = Seen.set /\ Seen'.running = FALSE
            /\ Seen'.active = Seen.active /\ Seen'.delivering = Seen.delivering
            /\ Seen'.reporting = Seen.reporting
        BY <2>1, <3>1 DEF Seen, BetweenCycles, LockFree
      <4> QED BY <4>1, SeenIsRecord
    <3>3. Promise!Stopped("stream")
      BY <3>1, <3>2, ZenonT(40) DEF Promise!Stopped, Seen
    <3> QED BY <3>3, <1>n
  <2> QED BY <1>4, <2>3, <2>4, <2>5, <2>6, <2>7, <2>8, <2>9, <2>10, <2>11, <2>12 DEF AppStep
<1> QED BY <1>1, <1>2, <1>3, <1>4 DEF Next

\* For any pool, sizes and order of events, the detailed stream with its locks,
\* drains, buffers and replaced nodes implements StreamPromise, on which the
\* models of the programs rest.
THEOREM PromiseKept == Spec => KeepsPromise
BY Invariance, InitKeeps, StepKeeps, PTL DEF Spec, KeepsPromise, Promise!PromiseSpec, View
============================================================================
