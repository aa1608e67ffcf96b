------------------------ MODULE FilterEvents_proofs ------------------------
(* Theorems about FilterEvents: types, the pool of buffers, and what owns   *)
(* the payload copies.                                                      *)
EXTENDS FilterEvents, SequenceTheorems, WellFoundedInduction, TLAPS

USE DEF Ports, Arrays

----------------------------------------------------------------------------
(* The inductive invariant *)

\* The cycle has the lock while it stages, if it got it; the callback has it
\* only while it runs; an owner pushes an event nobody has yet, to an input.
LockInv ==
  /\ push_lock = "cycle" <=> (cyc = "stage" /\ staged)
  /\ push_lock = "callback" => cyc = "callback"
  /\ push_waits = "callback" => cyc = "callback"
  /\ push_lock \in Callers =>
       push.port \in InPorts /\ push.id \in 1..lastId /\ push.id \notin heap

\* Port p has nothing of a cycle yet.
Before(p) == cyc = "idle" \/ (cyc = "stage" /\ p >= next)

\* The arrays of a port are two; input events are delivered from staging to the
\* end of the cycle; output events exist while the callback runs.
ArraysInv ==
  \A p \in Ports :
    /\ pending_events[p] # delivering_events[p]
    /\ p \in InPorts => (Before(p) => n_delivering_events[p] = 0)
    /\ p \notin InPorts => n_delivering_events[p] = 0
    /\ p \notin InPorts => (cyc # "callback" => n_pending_events[p] = 0)

\* The live entries of an array, pending or delivering.
Count(p, a) ==
  IF a = pending_events[p] THEN n_pending_events[p] ELSE n_delivering_events[p]

IsLive(p, a, k) == p \in Ports /\ a \in Arrays /\ k \in 1..Count(p, a)

IdAt(p, a, k) == array[p][a][k].id

\* A live entry owns an allocated payload, an allocated payload has an owner,
\* and it has one.
CellsInv ==
  /\ \A p, a, k : IsLive(p, a, k) => IdAt(p, a, k) \in heap
  /\ \A h \in heap : \E p, a, k : IsLive(p, a, k) /\ IdAt(p, a, k) = h
  /\ \A p, a, k, q, b, j :
       IsLive(p, a, k) /\ IsLive(q, b, j) /\ IdAt(p, a, k) = IdAt(q, b, j)
         => p = q /\ a = b /\ k = j

\* A buffer is dequeued from staging to the end of the cycle; all have data in a
\* port whose pool hands out no others.
DequeuedInv ==
  \A p \in Ports :
    /\ Before(p) => dequeued[p] = NULL
    /\ p \notin UnmappedPorts => mapped[p] = Buffers

OutputInv == \A p \in Ports \ InPorts : Ids(Pending(p)) = accepted[p]

\* What was pushed to an input port and not delivered is pending.
InputInv == \A p \in InPorts : pushed[p] = delivered[p] \o Staged(p)

IInv ==
  /\ TypeOK /\ LockInv /\ ArraysInv /\ CellsInv
  /\ DequeuedInv /\ EventPoolConserved /\ OutputInv /\ InputInv

----------------------------------------------------------------------------
(* Sequences *)

LEMMA LiveEntries ==
  ASSUME NEW s \in Seq(Entry), NEW n \in Nat, n <= Len(s)
  PROVE  /\ Len(Ids(SubSeq(s, 1, n))) = n
         /\ Ids(SubSeq(s, 1, n)) \in Seq(Nat)
         /\ \A k \in 1..n : Ids(SubSeq(s, 1, n))[k] = s[k].id
<1>1. \A i \in 1..n : s[i] \in Entry
  BY ElementOfSeq, LenProperties
<1>2. /\ SubSeq(s, 1, n) \in Seq(Entry)
      /\ Len(SubSeq(s, 1, n)) = IF 1 <= n THEN n - 1 + 1 ELSE 0
      /\ \A i \in 1..n - 1 + 1 : SubSeq(s, 1, n)[i] = s[1 + i - 1]
  BY ONLY <1>1, n \in Nat, SubSeqProperties
<1>3. Len(SubSeq(s, 1, n)) = n /\ \A i \in 1..n : SubSeq(s, 1, n)[i] = s[i]
  BY <1>2
<1>4. Ids(SubSeq(s, 1, n)) = [k \in 1..n |-> s[k].id]
  BY <1>3 DEF Ids
<1>5. \A k \in 1..n : s[k].id \in Nat
  BY <1>1 DEF Entry
<1> QED BY <1>4, <1>5

\* What pwf_filter_pending_event_append() leaves: the live entries and behind
\* them the new one.
LEMMA AppendEntry ==
  ASSUME ArrayType, NEW p \in Ports, NEW e \in Entry
  PROVE  LET a == pending_events[p]
             n == n_pending_events[p]
             new == Appended(p, e)
         IN  /\ new \in [Ports -> [Arrays -> Seq(Entry)]]
             /\ \A q \in Ports : q # p => new[q] = array[q]
             /\ \A b \in Arrays : b # a => new[p][b] = array[p][b]
             /\ Len(new[p][a]) >= n + 1 /\ Len(new[p][a]) >= Len(array[p][a])
             /\ new[p][a][n + 1] = e
             /\ \A k \in 1..n : new[p][a][k] = array[p][a][k]
<1> DEFINE a == pending_events[p]
<1> DEFINE n == n_pending_events[p]
<1> DEFINE s == array[p][a]
<1> DEFINE t == IF n < Len(s) THEN [s EXCEPT ![n + 1] = e] ELSE Append(s, e)
<1>1. /\ a \in Arrays /\ n \in Nat /\ n <= Len(s) /\ s \in Seq(Entry)
      /\ array \in [Ports -> [Arrays -> Seq(Entry)]]
  BY DEF ArrayType
<1>2. Appended(p, e) = [array EXCEPT ![p][a] = t]
  BY DEF Appended
<1> HIDE DEF a, n, s
<1>3. /\ t \in Seq(Entry) /\ Len(t) >= n + 1 /\ Len(t) >= Len(s)
      /\ t[n + 1] = e /\ \A k \in 1..n : t[k] = s[k]
  <2>0. Len(s) \in Nat
    BY <1>1, LenProperties
  <2>1. CASE n < Len(s)
    <3>1. t = [s EXCEPT ![n + 1] = e]
      BY <2>1
    <3>2. t \in Seq(Entry) /\ Len(t) = Len(s)
      BY <1>1, <2>0, <2>1, <3>1, ExceptSeq
    <3>3. t[n + 1] = e /\ \A k \in 1..n : t[k] = s[k]
      BY <1>1, <2>0, <2>1, <3>1, ExceptSeq
    <3> QED BY <1>1, <2>0, <2>1, <3>2, <3>3
  <2>2. CASE ~ n < Len(s)
    <3>1. t = Append(s, e) /\ Len(s) = n
      BY <1>1, <2>0, <2>2
    <3> QED BY <1>1, <2>0, <3>1, AppendProperties
  <2> QED BY <2>1, <2>2
<1> HIDE DEF t
<1>4. Appended(p, e)[p][a] = t
  BY <1>1, <1>2
<1>5. Appended(p, e) \in [Ports -> [Arrays -> Seq(Entry)]]
  <2>1. array[p] \in [Arrays -> Seq(Entry)] /\ t \in Seq(Entry)
    BY <1>1, <1>3
  <2>2. [array[p] EXCEPT ![a] = t] \in [Arrays -> Seq(Entry)]
    BY ONLY <2>1
  <2>3. Appended(p, e) = [array EXCEPT ![p] = [array[p] EXCEPT ![a] = t]]
    BY ONLY <1>2
  <2> QED BY ONLY <1>1, <2>2, <2>3, p \in Ports
<1>6. /\ \A q \in Ports : q # p => Appended(p, e)[q] = array[q]
      /\ \A b \in Arrays : b # a => Appended(p, e)[p][b] = array[p][b]
  BY <1>1, <1>2
<1>7. s = array[p][a]
  BY DEF s
<1> QED BY <1>3, <1>4, <1>5, <1>6, <1>7 DEF a, n

----------------------------------------------------------------------------
(* Types *)

LEMMA InitType == Init => TypeOK
<1> SUFFICES ASSUME Init PROVE TypeOK
  OBVIOUS
<1>1. ArrayType
  <2>1. <<>> \in Seq(Entry) /\ Len(<<>>) = 0
    BY EmptySeq
  <2>2. /\ array \in [Ports -> [Arrays -> Seq(Entry)]]
        /\ \A p \in Ports : \A a \in Arrays : array[p][a] = <<>>
    BY <2>1 DEF Init
  <2>3. /\ pending_events \in [Ports -> Arrays] /\ delivering_events \in [Ports -> Arrays]
        /\ n_pending_events \in [Ports -> Nat] /\ n_delivering_events \in [Ports -> Nat]
        /\ \A p \in Ports : n_pending_events[p] = 0 /\ n_delivering_events[p] = 0
        /\ heap = {}
    BY DEF Init
  <2>4. \A p \in Ports : /\ n_pending_events[p] <= Len(array[p][pending_events[p]])
                         /\ n_delivering_events[p] <= Len(array[p][delivering_events[p]])
    BY <2>1, <2>2, <2>3
  <2> QED BY <2>2, <2>3, <2>4 DEF ArrayType
<1>2. CycleType
  <2>1. NPorts \in Nat \ {0} /\ MaxEvents \in Nat
    BY EventPortsAssumption
  <2>2. push \in [port : Ports, id : Nat]
    BY <2>1 DEF Init, NoPush
  <2>3. /\ push_lock = "none" /\ cyc = "idle" /\ next = 1 /\ lastId = 0
    BY DEF Init
  <2>4. active \in BOOLEAN /\ staged \in BOOLEAN
    BY DEF Init
  <2>5. next \in 1..(NPorts + 1) /\ lastId \in 0..MaxEvents
    BY <2>1, <2>3
  <2>6. cyc \in {"idle", "stage", "callback"} /\ push_lock \in {"none", "cycle"} \cup Callers
    BY <2>3
  <2>7. push_waits \in {"none", "callback"}
    BY DEF Init
  <2> QED BY <2>2, <2>4, <2>5, <2>6, <2>7 DEF CycleType
<1>3. PoolType
  <2>1. <<>> \in Contents
    BY EmptySeq DEF Contents
  <2>2. content \in [Ports -> [Buffers -> Contents]]
    BY <2>1 DEF Init
  <2> QED BY <2>2 DEF Init, PoolType
<1>4. HistoryType
  BY EmptySeq DEF Init, HistoryType
<1> QED BY <1>1, <1>2, <1>3, <1>4 DEF TypeOK

\* Variables that only the pushes and the handling of the arrays change.
LEMMA CycleTypeStep == IInv /\ [Next]_vars => CycleType'
<1> SUFFICES ASSUME IInv, [Next]_vars PROVE CycleType'
  OBVIOUS
<1>0. CycleType /\ NPorts \in Nat \ {0} /\ MaxEvents \in Nat
  BY EventPortsAssumption DEF IInv, TypeOK
<1>a. NoPush \in [port : Ports, id : Nat]
  BY <1>0 DEF NoPush
<1>1. ASSUME NEW c \in Callers, NEW p \in InPorts, PushLock(c, p) PROVE CycleType'
  <2>1. lastId + 1 \in 0..MaxEvents /\ lastId + 1 \in Nat /\ p \in Ports
    BY <1>0, <1>1, EventPortsAssumption DEF PushLock, Room, CycleType
  <2>2. push' \in [port : Ports, id : Nat]
    BY <1>1, <2>1 DEF PushLock
  <2>3. push_waits' \in {"none", "callback"}
    BY <1>0, <1>1 DEF PushLock, CycleType
  <2> QED BY <1>0, <1>1, <2>1, <2>2, <2>3 DEF PushLock, CycleType
<1>2. CASE PushStep
  <2>1. UNCHANGED <<active, push_waits, cyc, next, staged, lastId>> /\ push_lock' = "none" /\ push' = NoPush
    BY <1>2 DEF PushStep, PushNoMemory, PushAppend, cycleVars
  <2> QED BY <1>0, <1>a, <2>1 DEF CycleType
<1>3. ASSUME NEW p \in Ports \ InPorts, NEW size \in Sizes, PushOutput(p, size)
      PROVE  CycleType'
  <2>1. lastId' \in 0..MaxEvents
    BY <1>0, <1>3 DEF PushOutput, InCallback, CycleType
  <2>2. UNCHANGED <<active, push_lock, push, push_waits, cyc, next, staged>>
    BY <1>3 DEF PushOutput, InCallback, cycleVars
  <2> QED BY <1>0, <2>1, <2>2 DEF CycleType
<1>4. ASSUME NEW p \in Ports, NEW b \in Buffers, GraphFill(p, b) PROVE CycleType'
  <2>1. UNCHANGED <<active, push_lock, push, push_waits, cyc, next, staged, lastId>>
    BY <1>4 DEF GraphFill, cycleVars
  <2> QED BY <1>0, <2>1 DEF CycleType
<1>5. CASE CycleStep
  <2>1. CASE CycleBegin
    BY <1>0, <2>1 DEF CycleBegin, CycleType
  <2>2. ASSUME NEW p \in Ports, StagePort(p) PROVE CycleType'
    <3>1. Staging(p)
      BY <2>2 DEF StagePort, StagePushed, StageSequence, StageNothing, StageOutput
    <3>2. next' \in 1..(NPorts + 1)
      BY <1>0, <3>1 DEF Staging, CycleType
    <3> QED BY <1>0, <3>1, <3>2 DEF Staging, CycleType
  <2>3. CASE StageEnd
    BY <1>0, <2>3 DEF StageEnd, CycleType
  <2>4. CASE CycleEnd
    <3>1. UNCHANGED <<active, push_lock, push, push_waits, lastId>> /\ cyc' = "idle" /\ next' = 1
      BY <2>4 DEF CycleEnd, InCallback
    <3>2. staged' \in BOOLEAN
      BY <2>4 DEF CycleEnd, InCallback
    <3>3. next' \in 1..(NPorts + 1)
      BY <1>0, <3>1
    <3> QED BY <1>0, <3>1, <3>2, <3>3 DEF CycleType
  <2> QED BY <1>5, <2>1, <2>2, <2>3, <2>4 DEF CycleStep
<1>6. ASSUME NEW on \in BOOLEAN, SetActive(on) PROVE CycleType'
  <2>1. UNCHANGED <<push_lock, push, push_waits, cyc, next, staged, lastId>> /\ active' \in BOOLEAN
    BY <1>6 DEF SetActive, cycleVars
  <2> QED BY <1>0, <2>1 DEF CycleType
<1>p. CASE PushCall \/ PushOutputNoMemory
  <2>1. CASE PushCall
    <3>1. UNCHANGED <<active, push_lock, push, cyc, next, staged, lastId>> /\ push_waits' = "callback"
      BY <2>1 DEF PushCall
    <3> QED BY <1>0, <3>1 DEF CycleType
  <2>2. CASE PushOutputNoMemory
    <3>1. lastId' \in 0..MaxEvents
      BY <1>0, <2>2 DEF PushOutputNoMemory, CycleType
    <3>2. UNCHANGED <<active, push_lock, push, push_waits, cyc, next, staged>>
      BY <2>2 DEF PushOutputNoMemory, cycleVars
    <3> QED BY <1>0, <3>1, <3>2 DEF CycleType
  <2> QED BY <1>p, <2>1, <2>2
<1>7. CASE UNCHANGED vars
  <2>1. UNCHANGED <<active, push_lock, push, push_waits, cyc, next, staged, lastId>>
    BY <1>7 DEF vars, cycleVars
  <2> QED BY <1>0, <2>1 DEF CycleType
<1> QED BY <1>1, <1>2, <1>3, <1>4, <1>5, <1>6, <1>7, <1>p DEF Next

LEMMA AppendType ==
  ASSUME ArrayType, ArraysInv, NEW p \in Ports, NEW e \in Entry, array' = Appended(p, e),
         \/ n_pending_events' = [n_pending_events EXCEPT ![p] = @ + 1]
         \/ UNCHANGED n_pending_events,
         UNCHANGED <<pending_events, delivering_events, n_delivering_events>>,
         heap' \subseteq 1..lastId'
  PROVE  ArrayType'
<1>1. /\ array' \in [Ports -> [Arrays -> Seq(Entry)]]
      /\ \A q \in Ports : q # p => array'[q] = array[q]
      /\ \A b \in Arrays : b # pending_events[p] => array'[p][b] = array[p][b]
      /\ Len(array'[p][pending_events[p]]) >= n_pending_events[p] + 1
      /\ Len(array'[p][pending_events[p]]) >= Len(array[p][pending_events[p]])
  BY AppendEntry, ZenonT(40)
<1>2. n_pending_events \in [Ports -> Nat] /\ n_pending_events' \in [Ports -> Nat]
  BY DEF ArrayType
<1>3. ASSUME NEW q \in Ports
      PROVE  /\ n_pending_events'[q] <= Len(array'[q][pending_events[q]])
             /\ n_delivering_events[q] <= Len(array'[q][delivering_events[q]])
  <2>1. /\ n_pending_events[q] <= Len(array[q][pending_events[q]])
        /\ n_delivering_events[q] <= Len(array[q][delivering_events[q]])
        /\ delivering_events[q] \in Arrays /\ pending_events[q] \in Arrays
        /\ pending_events[q] # delivering_events[q]
        /\ n_pending_events[q] \in Nat
    BY DEF ArrayType, ArraysInv
  <2>2. n_pending_events'[q] = n_pending_events[q] \/ (q = p /\ n_pending_events'[q] = n_pending_events[q] + 1)
    BY <1>2
  <2>3. CASE q = p
    <3>1. Len(array'[p][pending_events[p]]) \in Nat
      BY <1>1, <2>1, <2>3, LenProperties
    <3> QED BY <1>1, <2>1, <2>2, <2>3, <3>1
  <2>4. CASE q # p
    BY <1>1, <2>1, <2>2, <2>4
  <2> QED BY <2>3, <2>4
<1>4. /\ pending_events \in [Ports -> Arrays] /\ delivering_events \in [Ports -> Arrays]
      /\ n_delivering_events \in [Ports -> Nat]
  BY DEF ArrayType
<1> QED BY <1>1, <1>2, <1>3, <1>4 DEF ArrayType

\* The arrays stay as they are, but for their counts: none grows.
LEMMA CountsType ==
  ASSUME ArrayType, UNCHANGED <<array, pending_events, delivering_events>>,
         n_pending_events' \in [Ports -> Nat], n_delivering_events' \in [Ports -> Nat],
         \A p \in Ports : /\ n_pending_events'[p] \in {0, n_pending_events[p]}
                          /\ n_delivering_events'[p] \in {0, n_delivering_events[p]},
         heap' \subseteq 1..lastId'
  PROVE  ArrayType'
<1>1. ASSUME NEW p \in Ports
      PROVE  /\ n_pending_events'[p] <= Len(array[p][pending_events[p]])
             /\ n_delivering_events'[p] <= Len(array[p][delivering_events[p]])
  <2>1. array[p][pending_events[p]] \in Seq(Entry) /\ array[p][delivering_events[p]] \in Seq(Entry)
    BY DEF ArrayType
  <2>2. Len(array[p][pending_events[p]]) >= 0 /\ Len(array[p][delivering_events[p]]) >= 0
    BY <2>1, LenProperties
  <2>3. /\ n_pending_events[p] <= Len(array[p][pending_events[p]])
        /\ n_delivering_events[p] <= Len(array[p][delivering_events[p]])
    BY DEF ArrayType
  <2> QED BY <2>2, <2>3
<1>2. /\ array \in [Ports -> [Arrays -> Seq(Entry)]]
      /\ pending_events \in [Ports -> Arrays] /\ delivering_events \in [Ports -> Arrays]
  BY DEF ArrayType
<1> QED BY <1>1, <1>2 DEF ArrayType

\* Staging reads and writes as its name says; a port is staged in its turn.
LEMMA StagingFacts ==
  ASSUME IInv, NEW p \in Ports, StagePort(p)
  PROVE  /\ Staging(p) /\ Before(p) /\ cyc = "stage"
         /\ n_delivering_events[p] = 0 /\ dequeued[p] = NULL
<1>1. Staging(p)
  BY DEF StagePort, StagePushed, StageSequence, StageNothing, StageOutput
<1>2. Before(p) /\ cyc = "stage"
  BY <1>1 DEF Staging, Before, IInv, TypeOK, CycleType
<1> QED BY <1>1, <1>2 DEF IInv, ArraysInv, DequeuedInv

LEMMA ArrayTypeStep == IInv /\ [Next]_vars => ArrayType'
<1> SUFFICES ASSUME IInv, [Next]_vars PROVE ArrayType'
  OBVIOUS
<1>0. ArrayType /\ ArraysInv /\ CycleType /\ LockInv /\ heap \subseteq 1..lastId /\ lastId \in Nat
  <2>1. ArrayType /\ ArraysInv /\ CycleType /\ LockInv
    BY DEF IInv, TypeOK
  <2>2. heap \subseteq 1..lastId
    BY <2>1 DEF ArrayType
  <2>3. lastId \in 0..MaxEvents /\ MaxEvents \in Nat
    BY <2>1, EventPortsAssumption DEF CycleType
  <2> QED BY <2>1, <2>2, <2>3
<1>1. ASSUME NEW c \in Callers, NEW p \in InPorts, PushLock(c, p) PROVE ArrayType'
  <2>1. UNCHANGED arrayVars /\ lastId' = lastId + 1
    BY <1>1 DEF PushLock
  <2>2. heap' \subseteq 1..lastId'
    BY <1>0, <2>1 DEF arrayVars
  <2> QED BY <1>0, <2>1, <2>2 DEF ArrayType, arrayVars
<1>2. CASE PushStep
  <2>1. CASE PushNoMemory
    BY <1>0, <2>1 DEF PushNoMemory, ArrayType, arrayVars
  <2>2. CASE PushAppend
    <3>1. push.port \in Ports /\ push.id \in 1..lastId /\ push.id \in Nat
      BY <1>0, <2>2 DEF PushAppend, LockInv, CycleType
    <3> DEFINE e == [id |-> push.id, size |-> 0]
    <3>2. e \in Entry
      BY <3>1 DEF Entry
    <3>3. heap' \subseteq 1..lastId'
      BY <1>0, <2>2, <3>1 DEF PushAppend
    <3>4. /\ array' = Appended(push.port, e)
          /\ n_pending_events' = [n_pending_events EXCEPT ![push.port] = @ + 1]
          /\ UNCHANGED <<pending_events, delivering_events, n_delivering_events>>
      BY <2>2 DEF PushAppend
    <3> QED BY ONLY <1>0, <3>1, <3>2, <3>3, <3>4, AppendType
  <2> QED BY <1>2, <2>1, <2>2 DEF PushStep
<1>3. ASSUME NEW p \in Ports \ InPorts, NEW size \in Sizes, PushOutput(p, size)
      PROVE  ArrayType'
  <2> DEFINE e == [id |-> lastId + 1, size |-> size]
  <2>1. e \in Entry
    BY <1>0, SizesAssumption DEF Entry
  <2>2. heap' \subseteq heap \cup {lastId + 1} /\ lastId' = lastId + 1
    BY <1>3 DEF PushOutput, InCallback
  <2>3. heap' \subseteq 1..lastId'
    BY <1>0, <2>2
  <2>4. /\ array' = Appended(p, e)
        /\ \/ n_pending_events' = [n_pending_events EXCEPT ![p] = @ + 1]
           \/ UNCHANGED n_pending_events
        /\ UNCHANGED <<pending_events, delivering_events, n_delivering_events>>
    BY <1>3 DEF PushOutput, InCallback
  <2> QED BY <1>0, <2>1, <2>3, <2>4, AppendType
<1>4. ASSUME NEW p \in Ports, NEW b \in Buffers, GraphFill(p, b) PROVE ArrayType'
  BY <1>0, <1>4 DEF GraphFill, ArrayType, arrayVars
<1>5. CASE CycleStep
  <2>1. CASE CycleBegin \/ StageEnd
    BY <1>0, <2>1 DEF CycleBegin, StageEnd, ArrayType, arrayVars
  <2>2. ASSUME NEW p \in Ports, StagePort(p) PROVE ArrayType'
    <3>0. heap' \subseteq 1..lastId'
      BY <1>0, <2>2 DEF StagePort, StagePushed, StageSequence, StageNothing, StageOutput,
                        Staging, arrayVars
    <3>1. CASE StagePushed(p)
      <4>1. /\ n_pending_events \in [Ports -> Nat] /\ n_delivering_events \in [Ports -> Nat]
            /\ pending_events \in [Ports -> Arrays] /\ delivering_events \in [Ports -> Arrays]
            /\ array \in [Ports -> [Arrays -> Seq(Entry)]]
        BY <1>0 DEF ArrayType
      <4>2. /\ delivering_events' = [delivering_events EXCEPT ![p] = pending_events[p]]
            /\ pending_events' = [pending_events EXCEPT ![p] = delivering_events[p]]
            /\ n_delivering_events' = [n_delivering_events EXCEPT ![p] = n_pending_events[p]]
            /\ n_pending_events' = [n_pending_events EXCEPT ![p] = 0]
            /\ array' = array
        BY <3>1 DEF StagePushed
      <4>3. /\ n_pending_events' \in [Ports -> Nat] /\ n_delivering_events' \in [Ports -> Nat]
            /\ pending_events' \in [Ports -> Arrays] /\ delivering_events' \in [Ports -> Arrays]
        BY <4>1, <4>2
      <4>4. ASSUME NEW q \in Ports
            PROVE  /\ n_pending_events'[q] <= Len(array[q][pending_events'[q]])
                   /\ n_delivering_events'[q] <= Len(array[q][delivering_events'[q]])
        <5>1. Len(array[q][delivering_events[q]]) >= 0
          BY <4>1, LenProperties
        <5>2. /\ n_pending_events[q] <= Len(array[q][pending_events[q]])
              /\ n_delivering_events[q] <= Len(array[q][delivering_events[q]])
          BY <1>0 DEF ArrayType
        <5> QED BY <4>1, <4>2, <5>1, <5>2
      <4> QED BY <3>0, <4>1, <4>2, <4>3, <4>4 DEF ArrayType
    <3>2. CASE \E b \in Buffers : StageSequence(p, b)
      BY <1>0, <3>0, <3>2 DEF StageSequence, ArrayType, arrayVars
    <3>3. CASE StageNothing(p)
      BY <1>0, <3>0, <3>3 DEF StageNothing, ArrayType, arrayVars
    <3>4. CASE StageOutput(p)
      <4>1. /\ UNCHANGED <<array, pending_events, delivering_events, n_delivering_events>>
            /\ n_pending_events' = [n_pending_events EXCEPT ![p] = 0]
        BY <3>4 DEF StageOutput
      <4>2. n_pending_events' \in [Ports -> Nat] /\ n_delivering_events' \in [Ports -> Nat]
        BY <1>0, <4>1 DEF ArrayType
      <4>3. \A q \in Ports : /\ n_pending_events'[q] \in {0, n_pending_events[q]}
                             /\ n_delivering_events'[q] \in {0, n_delivering_events[q]}
        BY <1>0, <4>1 DEF ArrayType
      <4> QED BY <1>0, <3>0, <4>1, <4>2, <4>3, CountsType
    <3> QED BY <2>2, <3>1, <3>2, <3>3, <3>4 DEF StagePort
  <2>3. CASE CycleEnd
    <3>1. /\ UNCHANGED <<array, pending_events, delivering_events>>
          /\ n_delivering_events' = [q \in Ports |->
               IF q \in InPorts THEN 0 ELSE n_delivering_events[q]]
          /\ n_pending_events' = [q \in Ports |->
               IF q \in InPorts THEN n_pending_events[q] ELSE 0]
          /\ heap' \subseteq heap /\ lastId' = lastId
      BY <2>3 DEF CycleEnd, InCallback
    <3>2. n_pending_events' \in [Ports -> Nat] /\ n_delivering_events' \in [Ports -> Nat]
      BY <1>0, <3>1 DEF ArrayType
    <3>3. \A q \in Ports : /\ n_pending_events'[q] \in {0, n_pending_events[q]}
                           /\ n_delivering_events'[q] \in {0, n_delivering_events[q]}
      BY <3>1
    <3>4. heap' \subseteq 1..lastId'
      BY <1>0, <3>1
    <3> QED BY <1>0, <3>1, <3>2, <3>3, <3>4, CountsType
  <2> QED BY <1>5, <2>1, <2>2, <2>3 DEF CycleStep
<1>6. ASSUME NEW on \in BOOLEAN, SetActive(on) PROVE ArrayType'
  BY <1>0, <1>6 DEF SetActive, ArrayType, arrayVars
<1>p. CASE PushCall \/ PushOutputNoMemory
  <2>1. UNCHANGED arrayVars /\ (lastId' = lastId \/ lastId' = lastId + 1)
    BY <1>p DEF PushCall, PushOutputNoMemory
  <2>2. heap' \subseteq 1..lastId'
    BY <1>0, <2>1 DEF arrayVars
  <2> QED BY <1>0, <2>1, <2>2 DEF ArrayType, arrayVars
<1>7. CASE UNCHANGED vars
  BY <1>0, <1>7 DEF vars, ArrayType, arrayVars
<1> QED BY <1>1, <1>2, <1>3, <1>4, <1>5, <1>6, <1>7, <1>p DEF Next

\* What a cycle takes from the pending array.
LEMMA StagedEntries ==
  ASSUME ArrayType, NEW p \in Ports
  PROVE  /\ Len(Staged(p)) = n_pending_events[p]
         /\ Staged(p) \in Seq(Nat) /\ Staged(p) \in Contents
         /\ \A k \in 1..n_pending_events[p] :
              Staged(p)[k] = array[p][pending_events[p]][k].id
<1>1. /\ array[p][pending_events[p]] \in Seq(Entry)
      /\ n_pending_events[p] \in Nat
      /\ n_pending_events[p] <= Len(array[p][pending_events[p]])
  BY DEF ArrayType
<1>2. Staged(p) = Ids(SubSeq(array[p][pending_events[p]], 1, n_pending_events[p]))
  BY DEF Staged, Pending, Live
<1>3. /\ Len(Staged(p)) = n_pending_events[p] /\ Staged(p) \in Seq(Nat)
      /\ \A k \in 1..n_pending_events[p] :
           Staged(p)[k] = array[p][pending_events[p]][k].id
  BY <1>1, <1>2, LiveEntries
<1> QED BY <1>3, SeqMonotonic DEF Contents

\* The pool's types, but for the contents of the buffers.
LEMMA PoolTypeStep == IInv /\ [Next]_vars => PoolType'
<1> SUFFICES ASSUME IInv, [Next]_vars PROVE PoolType'
  OBVIOUS
<1>0. PoolType /\ ArrayType
  BY DEF IInv, TypeOK
<1>f. ASSUME UNCHANGED <<portVars, poolVars>> PROVE PoolType'
  BY <1>0, <1>f DEF PoolType, portVars, poolVars
<1>1. ASSUME NEW c \in Callers, NEW p \in InPorts, PushLock(c, p) PROVE PoolType'
  BY <1>1, <1>f DEF PushLock
<1>2. CASE PushStep
  BY <1>2, <1>f DEF PushStep, PushNoMemory, PushAppend
<1>3. ASSUME NEW p \in Ports \ InPorts, NEW size \in Sizes, PushOutput(p, size)
      PROVE  PoolType'
  BY <1>3, <1>f DEF PushOutput, InCallback
<1>4. ASSUME NEW p \in Ports, NEW b \in Buffers, GraphFill(p, b) PROVE PoolType'
  <2>1. UNCHANGED <<dequeued, event_output_capacity>>
    BY <1>4 DEF GraphFill, portVars
  <2>2. avail' \in [Ports -> SUBSET Buffers] /\ ready' \in [Ports -> SUBSET Buffers]
    BY <1>0, <1>4 DEF GraphFill, PoolType
  <2>3. mapped' \in [Ports -> SUBSET Buffers]
    BY <1>0, <1>4 DEF GraphFill, PoolType
  <2>4. content' \in [Ports -> [Buffers -> Contents]]
    <3>1. \A s \in GraphSequences : s \in Contents
      BY GraphAssumption, SeqMonotonic DEF Contents
    <3>2. <<>> \in Contents
      BY EmptySeq DEF Contents
    <3>3. content' = content \/ \E s \in Contents : content' = [content EXCEPT ![p][b] = s]
      BY <1>4, <3>1, <3>2 DEF GraphFill
    <3> QED BY <1>0, <3>3 DEF PoolType
  <2>5. maxsize' \in [Ports -> [Buffers -> Capacities \cup {0}]]
    <3>1. maxsize' = maxsize \/ \E c \in Capacities : maxsize' = [maxsize EXCEPT ![p][b] = c]
      BY <1>4 DEF GraphFill
    <3> QED BY <1>0, <3>1 DEF PoolType
  <2> QED BY <1>0, <2>1, <2>2, <2>3, <2>4, <2>5 DEF PoolType
<1>5. CASE CycleStep
  <2>1. CASE CycleBegin \/ StageEnd
    BY <2>1, <1>f DEF CycleBegin, StageEnd
  <2>2. ASSUME NEW p \in Ports, StagePort(p) PROVE PoolType'
    <3>1. UNCHANGED <<avail, mapped, content, maxsize>>
      BY <2>2, StagingFacts DEF Staging
    <3>2. dequeued' \in [Ports -> Buffers \cup {NULL}]
      <4>1. dequeued' = dequeued \/ \E b \in Buffers : dequeued' = [dequeued EXCEPT ![p] = b]
        BY <1>0, <2>2 DEF StagePort, StagePushed, StageSequence, StageNothing, StageOutput, PoolType
      <4> QED BY <1>0, <4>1 DEF PoolType
    <3>3. ready' \in [Ports -> SUBSET Buffers]
      <4>1. ready' = ready \/ \E b \in Buffers : ready' = [ready EXCEPT ![p] = @ \ {b}]
        BY <1>0, <2>2 DEF StagePort, StagePushed, StageSequence, StageNothing, StageOutput,
                          Forgets, PoolType
      <4> QED BY <1>0, <4>1 DEF PoolType
    <3>4. event_output_capacity' \in [Ports -> Capacities \cup {0}]
      <4>1. \/ event_output_capacity' = event_output_capacity
            \/ \E c \in Capacities \cup {0} :
                 event_output_capacity' = [event_output_capacity EXCEPT ![p] = c]
        BY <1>0, <2>2 DEF StagePort, StagePushed, StageSequence, StageNothing, StageOutput, PoolType
      <4> QED BY <1>0, <4>1 DEF PoolType
    <3> QED BY <1>0, <3>1, <3>2, <3>3, <3>4 DEF PoolType
  <2>3. CASE CycleEnd
    <3>1. UNCHANGED <<event_output_capacity, ready, mapped, maxsize>>
      BY <2>3 DEF CycleEnd, InCallback
    <3>2. dequeued' \in [Ports -> Buffers \cup {NULL}]
      BY <2>3 DEF CycleEnd, InCallback
    <3>3. avail' \in [Ports -> SUBSET Buffers]
      <4>1. \A p \in Ports : Returned(p) \subseteq Buffers
        BY <1>0 DEF PoolType, Returned
      <4> QED BY <1>0, <2>3, <4>1 DEF CycleEnd, InCallback, PoolType
    <3>4. content' \in [Ports -> [Buffers -> Contents]]
      <4>1. \A p \in Ports : Staged(p) \in Contents
        BY <1>0, StagedEntries
      <4> QED BY <1>0, <2>3, <4>1 DEF CycleEnd, InCallback, PoolType
    <3> QED BY <1>0, <3>1, <3>2, <3>3, <3>4 DEF PoolType
  <2> QED BY <1>5, <2>1, <2>2, <2>3 DEF CycleStep
<1>6. ASSUME NEW on \in BOOLEAN, SetActive(on) PROVE PoolType'
  BY <1>6, <1>f DEF SetActive
<1>p. CASE PushCall \/ PushOutputNoMemory
  BY <1>p, <1>f DEF PushCall, PushOutputNoMemory
<1>7. CASE UNCHANGED vars
  BY <1>7, <1>f DEF vars
<1> QED BY <1>1, <1>2, <1>3, <1>4, <1>5, <1>6, <1>7, <1>p DEF Next

LEMMA HistoryTypeStep == IInv /\ [Next]_vars => HistoryType'
<1> SUFFICES ASSUME IInv, [Next]_vars PROVE HistoryType'
  OBVIOUS
<1>0. HistoryType /\ ArrayType /\ CycleType
  BY DEF IInv, TypeOK
<1>f. ASSUME UNCHANGED historyVars PROVE HistoryType'
  BY <1>0, <1>f DEF HistoryType, historyVars
<1>1. ASSUME NEW c \in Callers, NEW p \in InPorts, PushLock(c, p) PROVE HistoryType'
  BY <1>1, <1>f DEF PushLock
<1>2. CASE PushNoMemory
  BY <1>2, <1>f DEF PushNoMemory
<1>3. CASE PushAppend
  <2>1. push.port \in Ports /\ push.id \in Nat
    BY <1>0 DEF CycleType
  <2>2. pushed' = [pushed EXCEPT ![push.port] = Append(@, push.id)] /\ UNCHANGED <<delivered, accepted>>
    BY <1>3 DEF PushAppend
  <2>3. Append(pushed[push.port], push.id) \in Seq(Nat)
    BY <1>0, <2>1, AppendProperties DEF HistoryType
  <2> QED BY <1>0, <2>2, <2>3 DEF HistoryType
<1>4. ASSUME NEW p \in Ports \ InPorts, NEW size \in Sizes, PushOutput(p, size)
      PROVE  HistoryType'
  <2>1. lastId + 1 \in Nat
    BY <1>0, EventPortsAssumption DEF CycleType
  <2>2. Append(accepted[p], lastId + 1) \in Seq(Nat)
    BY <1>0, <2>1, AppendProperties DEF HistoryType
  <2>3. /\ UNCHANGED <<pushed, delivered>>
        /\ \/ accepted' = [accepted EXCEPT ![p] = Append(@, lastId + 1)]
           \/ accepted' = accepted
    BY <1>4 DEF PushOutput, InCallback
  <2> QED BY <1>0, <2>2, <2>3 DEF HistoryType
<1>5. ASSUME NEW p \in Ports, NEW b \in Buffers, GraphFill(p, b) PROVE HistoryType'
  BY <1>5, <1>f DEF GraphFill
<1>6. CASE CycleStep
  <2>1. CASE CycleBegin \/ StageEnd
    BY <2>1, <1>f DEF CycleBegin, StageEnd
  <2>2. ASSUME NEW p \in Ports, StagePort(p) PROVE HistoryType'
    <3>1. UNCHANGED <<pushed, accepted>>
      BY <2>2, StagingFacts DEF Staging
    <3>2. \/ delivered' = delivered
          \/ delivered' = [delivered EXCEPT ![p] = @ \o Staged(p)]
      BY <2>2 DEF StagePort, StagePushed, StageSequence, StageNothing, StageOutput
    <3>3. delivered[p] \o Staged(p) \in Seq(Nat)
      BY <1>0, StagedEntries, ConcatProperties DEF HistoryType
    <3> QED BY <1>0, <3>1, <3>2, <3>3 DEF HistoryType
  <2>3. CASE CycleEnd
    BY <1>0, <2>3, EmptySeq DEF CycleEnd, InCallback, HistoryType
  <2> QED BY <1>6, <2>1, <2>2, <2>3 DEF CycleStep
<1>7. ASSUME NEW on \in BOOLEAN, SetActive(on) PROVE HistoryType'
  BY <1>7, <1>f DEF SetActive
<1>p. CASE PushCall \/ PushOutputNoMemory
  BY <1>p, <1>f DEF PushCall, PushOutputNoMemory
<1>8. CASE UNCHANGED vars
  BY <1>8, <1>f DEF vars
<1> QED BY <1>1, <1>2, <1>3, <1>4, <1>5, <1>6, <1>7, <1>8, <1>p DEF Next, PushStep

----------------------------------------------------------------------------
(* The lock, the arrays' counts, and the pool *)

LEMMA CallersAreNot ==
  /\ "none" \notin Callers /\ "cycle" \notin Callers
  /\ "callback" \in Callers
BY EventPortsAssumption DEF Callers

\* Staging moves on to the next port and leaves the rest of the cycle alone.
LEMMA LockInvStep == IInv /\ [Next]_vars => LockInv'
<1> SUFFICES ASSUME IInv, [Next]_vars PROVE LockInv'
  OBVIOUS
<1>0. LockInv /\ CycleType /\ heap \subseteq 1..lastId /\ lastId \in Nat
  <2>1. LockInv /\ CycleType /\ heap \subseteq 1..lastId
    BY DEF IInv, TypeOK, ArrayType
  <2>2. lastId \in 0..MaxEvents /\ MaxEvents \in Nat
    BY <2>1, EventPortsAssumption DEF CycleType
  <2> QED BY <2>1, <2>2
<1>f. ASSUME UNCHANGED <<push_lock, push, push_waits, cyc, staged, lastId>>, heap' \subseteq heap
      PROVE  LockInv'
  BY <1>0, <1>f DEF LockInv
<1>1. ASSUME NEW c \in Callers, NEW p \in InPorts, PushLock(c, p) PROVE LockInv'
  <2>1. /\ push_lock = "none" /\ push_lock' = c /\ push' = [port |-> p, id |-> lastId + 1]
        /\ lastId' = lastId + 1 /\ UNCHANGED <<cyc, staged, heap>>
        /\ (push_waits' = "callback" => push_waits = "callback")
        /\ (c = "callback" => cyc = "callback")
    BY <1>0, <1>1 DEF PushLock, arrayVars, LockInv
  <2>2. push'.port \in InPorts /\ push'.id \in 1..lastId' /\ push'.id \notin heap'
    BY <1>0, <2>1
  <2>3. ~ (cyc = "stage" /\ staged)
    BY <1>0, <2>1 DEF LockInv
  <2> QED BY <1>0, <2>1, <2>2, <2>3, CallersAreNot DEF LockInv
<1>2. CASE PushStep
  <2>1. push_lock \in Callers /\ push_lock' = "none" /\ UNCHANGED <<push_waits, cyc, staged>>
    BY <1>2 DEF PushStep, PushNoMemory, PushAppend, cycleVars
  <2>2. ~ (cyc = "stage" /\ staged)
    BY <1>0, <2>1, CallersAreNot DEF LockInv
  <2> QED BY <1>0, <2>1, <2>2, CallersAreNot DEF LockInv
<1>3. ASSUME NEW p \in Ports \ InPorts, NEW size \in Sizes, PushOutput(p, size)
      PROVE  LockInv'
  <2>1. /\ UNCHANGED <<push_lock, push, push_waits, cyc, staged>> /\ lastId' = lastId + 1
        /\ heap' \subseteq heap \cup {lastId + 1}
    BY <1>3 DEF PushOutput, InCallback, cycleVars
  <2>2. push.id \in 1..lastId /\ push.id \notin heap
          => push.id \in 1..lastId' /\ push.id \notin heap'
    BY <1>0, <2>1
  <2> QED BY <1>0, <2>1, <2>2 DEF LockInv
<1>4. ASSUME NEW p \in Ports, NEW b \in Buffers, GraphFill(p, b) PROVE LockInv'
  BY <1>4, <1>f DEF GraphFill, arrayVars, cycleVars
<1>5. CASE CycleStep
  <2>1. CASE CycleBegin
    <3>1. /\ cyc = "idle" /\ cyc' = "stage" /\ staged' = (push_lock = "none")
          /\ push_lock' = (IF push_lock = "none" THEN "cycle" ELSE push_lock)
          /\ UNCHANGED <<push, push_waits, heap, lastId>>
      BY <2>1 DEF CycleBegin, arrayVars
    <3>2. push_lock # "cycle" /\ push_lock # "callback"
      BY <1>0, <3>1 DEF LockInv
    <3>3. CASE push_lock = "none"
      <4>1. staged' /\ push_lock' = "cycle" /\ cyc' = "stage"
        BY <3>1, <3>3
      <4> QED BY <1>0, <3>1, <4>1, CallersAreNot DEF LockInv
    <3>4. CASE push_lock # "none"
      <4>1. ~ staged' /\ push_lock' = push_lock
        BY <3>1, <3>4
      <4> QED BY <1>0, <3>1, <3>2, <4>1 DEF LockInv
    <3> QED BY <3>3, <3>4
  <2>2. ASSUME NEW p \in Ports, StagePort(p) PROVE LockInv'
    <3>1. UNCHANGED <<push_lock, push, push_waits, cyc, staged, lastId>>
      BY <2>2, StagingFacts DEF Staging
    <3>2. heap' = heap
      BY <2>2 DEF StagePort, StagePushed, StageSequence, StageNothing, StageOutput, arrayVars
    <3> QED BY <3>1, <3>2, <1>f
  <2>3. CASE StageEnd
    <3>1. /\ cyc = "stage" /\ cyc' = "callback" /\ UNCHANGED <<push, push_waits, heap, lastId>>
          /\ push_lock' = (IF staged THEN "none" ELSE push_lock)
      BY <2>3 DEF StageEnd, arrayVars
    <3>2. push_lock' # "cycle"
      BY <1>0, <3>1 DEF LockInv
    <3>3. push_lock' \in Callers => push_lock' = push_lock
      BY <3>1, CallersAreNot
    <3> QED BY <1>0, <3>1, <3>2, <3>3 DEF LockInv
  <2>4. CASE CycleEnd
    <3>1. /\ cyc = "callback" /\ cyc' = "idle" /\ push_lock # "callback"
          /\ push_waits = "none" /\ UNCHANGED <<push_lock, push, push_waits, lastId>> /\ heap' \subseteq heap
      BY <2>4 DEF CycleEnd, InCallback
    <3> QED BY <1>0, <3>1 DEF LockInv
  <2> QED BY <1>5, <2>1, <2>2, <2>3, <2>4 DEF CycleStep
<1>6. ASSUME NEW on \in BOOLEAN, SetActive(on) PROVE LockInv'
  BY <1>6, <1>f DEF SetActive, arrayVars, cycleVars
<1>p. CASE PushCall \/ PushOutputNoMemory
  <2>1. /\ UNCHANGED <<push_lock, push, cyc, staged, heap>>
        /\ lastId' = lastId \/ lastId' = lastId + 1
        /\ push_waits' = "callback" => push_waits = "callback" \/ cyc = "callback"
    BY <1>p DEF PushCall, PushOutputNoMemory, InCallback, arrayVars, cycleVars
  <2>2. push.id \in 1..lastId => push.id \in 1..lastId'
    BY <1>0, <2>1
  <2> QED BY <1>0, <2>1, <2>2 DEF LockInv
<1>7. CASE UNCHANGED vars
  BY <1>7, <1>f DEF vars, arrayVars, cycleVars
<1> QED BY <1>1, <1>2, <1>3, <1>4, <1>5, <1>6, <1>7, <1>p DEF Next

LEMMA ArraysInvStep == IInv /\ [Next]_vars => ArraysInv'
<1> SUFFICES ASSUME IInv, [Next]_vars PROVE ArraysInv'
  OBVIOUS
<1>0. ArraysInv /\ ArrayType /\ CycleType /\ LockInv
  BY DEF IInv, TypeOK
<1>t. /\ pending_events \in [Ports -> Arrays] /\ delivering_events \in [Ports -> Arrays]
      /\ n_pending_events \in [Ports -> Nat] /\ n_delivering_events \in [Ports -> Nat]
  BY <1>0 DEF ArrayType
<1>f. ASSUME UNCHANGED <<arrayVars, cyc, next>> PROVE ArraysInv'
  BY <1>0, <1>f DEF ArraysInv, Before, arrayVars
<1>1. ASSUME NEW c \in Callers, NEW p \in InPorts, PushLock(c, p) PROVE ArraysInv'
  BY <1>1, <1>f DEF PushLock
<1>2. CASE PushNoMemory
  BY <1>2, <1>f DEF PushNoMemory, cycleVars
<1>3. CASE PushAppend
  <2>1. push.port \in InPorts
    BY <1>0, <1>3 DEF PushAppend, LockInv
  <2>2. /\ n_pending_events' = [n_pending_events EXCEPT ![push.port] = @ + 1]
        /\ UNCHANGED <<pending_events, delivering_events, n_delivering_events, cyc, next, staged>>
    BY <1>3 DEF PushAppend, cycleVars
  <2> QED BY <1>0, <1>t, <2>1, <2>2 DEF ArraysInv, Before
<1>4. ASSUME NEW p \in Ports \ InPorts, NEW size \in Sizes, PushOutput(p, size)
      PROVE  ArraysInv'
  <2>1. /\ cyc = "callback"
        /\ UNCHANGED <<pending_events, delivering_events, n_delivering_events, cyc, next, staged>>
    BY <1>4 DEF PushOutput, InCallback, cycleVars
  <2> QED BY <1>0, <2>1 DEF ArraysInv, Before
<1>5. ASSUME NEW p \in Ports, NEW b \in Buffers, GraphFill(p, b) PROVE ArraysInv'
  BY <1>5, <1>f DEF GraphFill, cycleVars
<1>6. CASE CycleStep
  <2>1. CASE CycleBegin
    <3>1. /\ cyc = "idle" /\ cyc' = "stage" /\ next' = 1 /\ UNCHANGED arrayVars
      BY <2>1 DEF CycleBegin
    <3> QED BY <1>0, <3>1 DEF ArraysInv, Before, arrayVars
  <2>2. ASSUME NEW p \in Ports, StagePort(p) PROVE ArraysInv'
    <3>1. /\ cyc = "stage" /\ cyc' = cyc /\ p = next /\ next' = next + 1
          /\ n_delivering_events[p] = 0
      BY <2>2, StagingFacts DEF Staging
    <3>2. \A q \in Ports : Before(q)' => Before(q) /\ q # p
      BY <1>0, <3>1 DEF Before, CycleType
    <3>3. CASE StagePushed(p)
      <4>1. /\ p \in InPorts
            /\ delivering_events' = [delivering_events EXCEPT ![p] = pending_events[p]]
            /\ pending_events' = [pending_events EXCEPT ![p] = delivering_events[p]]
            /\ n_delivering_events' = [n_delivering_events EXCEPT ![p] = n_pending_events[p]]
            /\ n_pending_events' = [n_pending_events EXCEPT ![p] = 0]
        BY <3>3 DEF StagePushed
      <4>2. ASSUME NEW q \in Ports
            PROVE  /\ pending_events'[q] # delivering_events'[q]
                   /\ q # p => /\ n_delivering_events'[q] = n_delivering_events[q]
                               /\ n_pending_events'[q] = n_pending_events[q]
        BY <1>0, <1>t, <4>1 DEF ArraysInv
      <4> QED BY <1>0, <3>1, <3>2, <4>1, <4>2 DEF ArraysInv
    <3>4. CASE (\E b \in Buffers : StageSequence(p, b)) \/ StageNothing(p)
      <4>1. UNCHANGED arrayVars
        BY <3>4 DEF StageSequence, StageNothing
      <4> QED BY <1>0, <3>1, <3>2, <4>1 DEF ArraysInv, arrayVars
    <3>5. CASE StageOutput(p)
      <4>1. /\ n_pending_events' = [n_pending_events EXCEPT ![p] = 0]
            /\ UNCHANGED <<pending_events, delivering_events, n_delivering_events>>
        BY <3>5 DEF StageOutput
      <4> QED BY <1>0, <1>t, <3>1, <3>2, <4>1 DEF ArraysInv
    <3> QED BY <2>2, <3>3, <3>4, <3>5 DEF StagePort
  <2>3. CASE StageEnd
    <3>1. cyc' = "callback" /\ UNCHANGED arrayVars
      BY <2>3 DEF StageEnd
    <3> QED BY <1>0, <3>1 DEF ArraysInv, Before, arrayVars
  <2>4. CASE CycleEnd
    <3>1. /\ UNCHANGED <<pending_events, delivering_events>>
          /\ n_delivering_events' = [q \in Ports |->
               IF q \in InPorts THEN 0 ELSE n_delivering_events[q]]
          /\ n_pending_events' = [q \in Ports |->
               IF q \in InPorts THEN n_pending_events[q] ELSE 0]
      BY <2>4 DEF CycleEnd, InCallback
    <3> QED BY <1>0, <3>1 DEF ArraysInv
  <2> QED BY <1>6, <2>1, <2>2, <2>3, <2>4 DEF CycleStep
<1>7. ASSUME NEW on \in BOOLEAN, SetActive(on) PROVE ArraysInv'
  BY <1>7, <1>f DEF SetActive, cycleVars
<1>p. CASE PushCall \/ PushOutputNoMemory
  BY <1>p, <1>f DEF PushCall, PushOutputNoMemory, cycleVars
<1>8. CASE UNCHANGED vars
  BY <1>8, <1>f DEF vars, cycleVars
<1> QED BY <1>1, <1>2, <1>3, <1>4, <1>5, <1>6, <1>7, <1>8, <1>p DEF Next, PushStep

LEMMA PoolStep == IInv /\ [Next]_vars => DequeuedInv' /\ EventPoolConserved'
<1> SUFFICES ASSUME IInv, [Next]_vars PROVE DequeuedInv' /\ EventPoolConserved'
  OBVIOUS
<1>0. PoolType /\ CycleType /\ DequeuedInv /\ EventPoolConserved /\ NULL \notin Buffers
  BY EventPortsAssumption DEF IInv, TypeOK
<1>t. /\ dequeued \in [Ports -> Buffers \cup {NULL}]
      /\ avail \in [Ports -> SUBSET Buffers] /\ ready \in [Ports -> SUBSET Buffers]
  BY <1>0 DEF PoolType
<1>f. ASSUME UNCHANGED <<portVars, poolVars, cyc, next>>
      PROVE  DequeuedInv' /\ EventPoolConserved'
  BY <1>0, <1>f DEF DequeuedInv, EventPoolConserved, Before, portVars, poolVars
<1>1. ASSUME NEW c \in Callers, NEW p \in InPorts, PushLock(c, p)
      PROVE  DequeuedInv' /\ EventPoolConserved'
  BY <1>1, <1>f DEF PushLock
<1>2. CASE PushStep
  BY <1>2, <1>f DEF PushStep, PushNoMemory, PushAppend, cycleVars
<1>3. ASSUME NEW p \in Ports \ InPorts, NEW size \in Sizes, PushOutput(p, size)
      PROVE  DequeuedInv' /\ EventPoolConserved'
  BY <1>3, <1>f DEF PushOutput, cycleVars
<1>4. ASSUME NEW p \in Ports, NEW b \in Buffers, GraphFill(p, b)
      PROVE  DequeuedInv' /\ EventPoolConserved'
  <2>1. /\ b \in avail[p]
        /\ avail' = [avail EXCEPT ![p] = @ \ {b}] /\ ready' = [ready EXCEPT ![p] = @ \cup {b}]
        /\ UNCHANGED <<dequeued, cyc, next>>
    BY <1>4 DEF GraphFill, portVars, cycleVars
  <2>2. DequeuedInv'
    <3>1. \A q \in Ports : Before(q)' = Before(q) /\ dequeued'[q] = dequeued[q]
      BY <2>1 DEF Before
    <3>2. ASSUME NEW q \in Ports \ UnmappedPorts PROVE mapped'[q] = Buffers
      <4>1. mapped[q] = Buffers /\ mapped \in [Ports -> SUBSET Buffers]
        BY <1>0 DEF DequeuedInv, PoolType
      <4>2. \/ mapped' = [mapped EXCEPT ![p] = @ \cup {b}]
            \/ p \in UnmappedPorts /\ mapped' = [mapped EXCEPT ![p] = @ \ {b}]
        BY <1>4, Zenon DEF GraphFill
      <4> QED BY <4>1, <4>2, ZenonT(40)
    <3> QED BY <1>0, <3>1, <3>2 DEF DequeuedInv
  <2>3. EventPoolConserved'
    <3> SUFFICES ASSUME NEW q \in Ports
                 PROVE  /\ avail'[q] \cap ready'[q] = {}
                        /\ dequeued'[q] \notin avail'[q] \cup ready'[q]
                        /\ q \notin UnmappedPorts =>
                             avail'[q] \cup ready'[q] \cup ({dequeued'[q]} \ {NULL}) = Buffers
      BY DEF EventPoolConserved
    <3>1. /\ avail[q] \cap ready[q] = {}
          /\ dequeued[q] \notin avail[q] \cup ready[q]
          /\ q \notin UnmappedPorts =>
               avail[q] \cup ready[q] \cup ({dequeued[q]} \ {NULL}) = Buffers
      BY <1>0 DEF EventPoolConserved
    <3>2. CASE q = p
      <4>1. avail'[q] = avail[q] \ {b} /\ ready'[q] = ready[q] \cup {b} /\ dequeued'[q] = dequeued[q]
        BY <1>t, <2>1, <3>2
      <4> QED BY <2>1, <3>1, <3>2, <4>1
    <3>3. CASE q # p
      <4>1. avail'[q] = avail[q] /\ ready'[q] = ready[q] /\ dequeued'[q] = dequeued[q]
        BY <1>t, <2>1, <3>3
      <4> QED BY <3>1, <4>1
    <3> QED BY <3>2, <3>3
  <2> QED BY <2>2, <2>3
<1>5. CASE CycleStep
  <2>1. CASE CycleBegin
    <3>1. cyc = "idle" /\ UNCHANGED <<dequeued, avail, ready, mapped>>
      BY <2>1 DEF CycleBegin, portVars, poolVars
    <3> QED BY <1>0, <3>1 DEF DequeuedInv, Before, EventPoolConserved
  <2>2. ASSUME NEW p \in Ports, StagePort(p) PROVE DequeuedInv' /\ EventPoolConserved'
    <3>1. /\ cyc = "stage" /\ cyc' = cyc /\ p = next /\ next' = next + 1
          /\ dequeued[p] = NULL /\ avail' = avail /\ mapped' = mapped
      BY <2>2, StagingFacts DEF Staging
    <3>2. \A q \in Ports : Before(q)' => Before(q) /\ q # p
      BY <1>0, <3>1 DEF Before, CycleType
    <3>3. \/ UNCHANGED <<dequeued, ready>>
          \/ \E c \in ready[p] : /\ dequeued' = [dequeued EXCEPT ![p] = c]
                                 /\ ready' = [ready EXCEPT ![p] = @ \ {c}]
          \/ \E c \in ready[p] \ mapped[p] : /\ dequeued' = dequeued
                                             /\ ready' = [ready EXCEPT ![p] = @ \ {c}]
      BY <1>t, <2>2 DEF StagePort, StagePushed, StageSequence, StageNothing, StageOutput, Forgets
    <3>4. DequeuedInv'
      <4>1. \A q \in Ports : q # p => dequeued'[q] = dequeued[q]
        BY <1>t, <3>3
      <4> QED BY <1>0, <3>1, <3>2, <4>1 DEF DequeuedInv
    <3>5. CASE UNCHANGED <<dequeued, ready>>
      BY <1>0, <3>1, <3>5 DEF EventPoolConserved, DequeuedInv, Before
    <3>6. ASSUME NEW c \in ready[p], ready' = [ready EXCEPT ![p] = @ \ {c}],
                 \/ dequeued' = [dequeued EXCEPT ![p] = c]
                 \/ dequeued' = dequeued /\ p \in UnmappedPorts
          PROVE  EventPoolConserved'
      <4> SUFFICES ASSUME NEW q \in Ports
                   PROVE  /\ avail[q] \cap ready'[q] = {}
                          /\ dequeued'[q] \notin avail[q] \cup ready'[q]
                          /\ q \notin UnmappedPorts =>
                               avail[q] \cup ready'[q] \cup ({dequeued'[q]} \ {NULL}) = Buffers
        BY <3>1 DEF EventPoolConserved
      <4>1. /\ avail[q] \cap ready[q] = {}
            /\ dequeued[q] \notin avail[q] \cup ready[q]
            /\ q \notin UnmappedPorts =>
                 avail[q] \cup ready[q] \cup ({dequeued[q]} \ {NULL}) = Buffers
        BY <1>0 DEF EventPoolConserved
      <4>2. CASE q = p
        <5>1. /\ ready'[q] = ready[q] \ {c} /\ c \in Buffers
              /\ dequeued'[q] = c \/ (dequeued'[q] = NULL /\ q \in UnmappedPorts)
          BY <1>t, <3>1, <3>6, <4>2
        <5>2. NULL \notin avail[q] \cup ready[q]
          BY <1>0, <1>t
        <5> QED BY <1>0, <3>1, <4>1, <4>2, <5>1, <5>2
      <4>3. CASE q # p
        <5>1. ready'[q] = ready[q] /\ dequeued'[q] = dequeued[q]
          BY <1>t, <3>6, <4>3
        <5> QED BY <4>1, <5>1
      <4> QED BY <4>2, <4>3
    <3>7. \A c \in ready[p] \ mapped[p] : c \in ready[p] /\ p \in UnmappedPorts
      BY <1>0, <1>t DEF DequeuedInv
    <3> QED BY <3>3, <3>4, <3>5, <3>6, <3>7
  <2>3. CASE StageEnd
    <3>1. cyc' = "callback" /\ UNCHANGED <<dequeued, avail, ready, mapped>>
      BY <2>3 DEF StageEnd, portVars, poolVars
    <3> QED BY <1>0, <3>1 DEF DequeuedInv, Before, EventPoolConserved
  <2>4. CASE CycleEnd
    <3>1. /\ avail' = [q \in Ports |-> avail[q] \cup Returned(q)]
          /\ dequeued' = [q \in Ports |-> NULL] /\ ready' = ready /\ mapped' = mapped
      BY <2>4 DEF CycleEnd, InCallback
    <3>2. DequeuedInv'
      BY <1>0, <3>1 DEF DequeuedInv
    <3>3. EventPoolConserved'
      BY <1>0, <1>t, <3>1 DEF EventPoolConserved, Returned
    <3> QED BY <3>2, <3>3
  <2> QED BY <1>5, <2>1, <2>2, <2>3, <2>4 DEF CycleStep
<1>6. ASSUME NEW on \in BOOLEAN, SetActive(on) PROVE DequeuedInv' /\ EventPoolConserved'
  BY <1>6, <1>f DEF SetActive, cycleVars
<1>p. CASE PushCall \/ PushOutputNoMemory
  BY <1>p, <1>f DEF PushCall, PushOutputNoMemory, cycleVars
<1>7. CASE UNCHANGED vars
  BY <1>7, <1>f DEF vars, cycleVars
<1> QED BY <1>1, <1>2, <1>3, <1>4, <1>5, <1>6, <1>7, <1>p DEF Next

----------------------------------------------------------------------------
(* Who owns which payload *)

\* Entries die with their payloads, and the others stay where they are.
LEMMA CellsKept ==
  ASSUME CellsInv, heap' \subseteq heap,
         \A p, a, k : IsLive(p, a, k)' => IsLive(p, a, k) /\ IdAt(p, a, k)' = IdAt(p, a, k),
         \A p, a, k : IsLive(p, a, k) => (IdAt(p, a, k) \in heap' <=> IsLive(p, a, k)')
  PROVE  CellsInv'
<1>1. ASSUME NEW p, NEW a, NEW k, IsLive(p, a, k)' PROVE IdAt(p, a, k)' \in heap'
  BY <1>1
<1>2. ASSUME NEW h \in heap'
      PROVE  \E p, a, k : IsLive(p, a, k)' /\ IdAt(p, a, k)' = h
  <2>1. PICK p, a, k : IsLive(p, a, k) /\ IdAt(p, a, k) = h
    BY DEF CellsInv
  <2>2. IsLive(p, a, k)'
    BY <2>1
  <2> QED BY <2>1, <2>2
<1>3. ASSUME NEW p, NEW a, NEW k, NEW q, NEW b, NEW j,
             IsLive(p, a, k)', IsLive(q, b, j)', IdAt(p, a, k)' = IdAt(q, b, j)'
      PROVE  p = q /\ a = b /\ k = j
  <2>1. IsLive(p, a, k) /\ IsLive(q, b, j) /\ IdAt(p, a, k) = IdAt(q, b, j)
    BY <1>3
  <2> QED BY <2>1 DEF CellsInv
<1> QED BY <1>1, <1>2, <1>3 DEF CellsInv

\* An appended entry brings the payload it owns.
LEMMA CellAdded ==
  ASSUME IInv, NEW p \in Ports, NEW e \in Entry, e.id \notin heap,
         array' = Appended(p, e), heap' = heap \cup {e.id},
         n_pending_events' = [n_pending_events EXCEPT ![p] = @ + 1],
         UNCHANGED <<pending_events, delivering_events, n_delivering_events>>,
         NEW a0, a0 = pending_events[p], NEW n0, n0 = n_pending_events[p] + 1
  PROVE  CellsInv'
<1>0. CellsInv /\ ArrayType /\ ArraysInv
  BY DEF IInv, TypeOK
<1>t. /\ n_pending_events \in [Ports -> Nat] /\ n_delivering_events \in [Ports -> Nat]
      /\ pending_events \in [Ports -> Arrays] /\ a0 \in Arrays /\ n_pending_events[p] \in Nat
  BY <1>0 DEF ArrayType
<1>1. /\ \A q \in Ports : q # p => array'[q] = array[q]
      /\ \A b \in Arrays : b # a0 => array'[p][b] = array[p][b]
      /\ array'[p][a0][n0] = e
      /\ \A k \in 1..n_pending_events[p] : array'[p][a0][k] = array[p][a0][k]
  BY <1>0, AppendEntry
<1>2. ASSUME NEW q \in Ports, NEW b \in Arrays
      PROVE  Count(q, b)' = IF q = p /\ b = a0 THEN n0 ELSE Count(q, b)
  BY <1>t DEF Count
<1>3. Count(p, a0) = n_pending_events[p]
  BY DEF Count
<1>4. n0 = n_pending_events[p] + 1
  OBVIOUS
<1>5. ASSUME NEW q, NEW b, NEW k, IsLive(q, b, k)'
      PROVE  IsLive(q, b, k) \/ (q = p /\ b = a0 /\ k = n0)
  <2>1. q \in Ports /\ b \in Arrays /\ k \in 1..Count(q, b)'
    BY <1>5 DEF IsLive
  <2>2. CASE q = p /\ b = a0
    <3>1. k \in 1..n0
      BY <1>2, <2>1, <2>2
    <3>2. k \in 1..n_pending_events[p] \/ k = n0
      BY <1>t, <1>4, <3>1
    <3> QED BY <1>3, <2>1, <2>2, <3>2 DEF IsLive
  <2>3. CASE ~ (q = p /\ b = a0)
    BY <1>2, <2>1, <2>3 DEF IsLive
  <2> QED BY <2>2, <2>3
<1>6. ASSUME NEW q, NEW b, NEW k, IsLive(q, b, k)
      PROVE  /\ IsLive(q, b, k)' /\ IdAt(q, b, k)' = IdAt(q, b, k)
             /\ ~ (q = p /\ b = a0 /\ k = n0)
  <2>1. q \in Ports /\ b \in Arrays /\ k \in 1..Count(q, b)
    BY <1>6 DEF IsLive
  <2>2. CASE q = p /\ b = a0
    <3>1. k \in 1..n_pending_events[p]
      BY <1>3, <2>1, <2>2
    <3>2. k \in 1..n0 /\ k # n0
      BY <1>t, <1>4, <3>1
    <3> QED BY <1>1, <1>2, <2>1, <2>2, <3>1, <3>2 DEF IsLive, IdAt
  <2>3. CASE ~ (q = p /\ b = a0)
    <3>1. Count(q, b)' = Count(q, b)
      BY <1>2, <2>1, <2>3
    <3>2. array'[q][b] = array[q][b]
      BY <1>1, <2>1, <2>3
    <3> QED BY <2>1, <2>3, <3>1, <3>2 DEF IsLive, IdAt
  <2> QED BY <2>2, <2>3
<1>7. IsLive(p, a0, n0)' /\ IdAt(p, a0, n0)' = e.id
  <2>1. Count(p, a0)' = n0 /\ n0 \in 1..n0
    BY <1>t, <1>2, <1>4
  <2> QED BY <1>t, <1>1, <2>1 DEF IsLive, IdAt
<1>8. ASSUME NEW q, NEW b, NEW k, IsLive(q, b, k) PROVE IdAt(q, b, k) \in heap
  BY <1>0, <1>8 DEF CellsInv
<1>9. ASSUME NEW q, NEW b, NEW k, IsLive(q, b, k)' PROVE IdAt(q, b, k)' \in heap'
  BY <1>5, <1>6, <1>7, <1>8, <1>9
<1>10. ASSUME NEW h \in heap'
       PROVE  \E q, b, k : IsLive(q, b, k)' /\ IdAt(q, b, k)' = h
  <2>1. CASE h = e.id
    BY <1>7, <2>1
  <2>2. CASE h \in heap
    <3>1. PICK q, b, k : IsLive(q, b, k) /\ IdAt(q, b, k) = h
      BY <1>0, <2>2 DEF CellsInv
    <3> QED BY <1>6, <3>1
  <2> QED BY <2>1, <2>2
<1>11. ASSUME NEW q, NEW b, NEW k, NEW r, NEW c, NEW j,
              IsLive(q, b, k)', IsLive(r, c, j)', IdAt(q, b, k)' = IdAt(r, c, j)'
       PROVE  q = r /\ b = c /\ k = j
  <2>1. CASE IsLive(q, b, k) /\ IsLive(r, c, j)
    BY <1>0, <1>6, <1>11, <2>1 DEF CellsInv
  <2>2. CASE IsLive(q, b, k) /\ ~ IsLive(r, c, j)
    <3>1. IdAt(q, b, k)' \in heap /\ IdAt(r, c, j)' = e.id
      BY <1>5, <1>6, <1>7, <1>8, <1>11, <2>2
    <3> QED BY <1>11, <3>1
  <2>3. CASE ~ IsLive(q, b, k) /\ IsLive(r, c, j)
    <3>1. IdAt(r, c, j)' \in heap /\ IdAt(q, b, k)' = e.id
      BY <1>5, <1>6, <1>7, <1>8, <1>11, <2>3
    <3> QED BY <1>11, <3>1
  <2>4. CASE ~ IsLive(q, b, k) /\ ~ IsLive(r, c, j)
    BY <1>5, <1>11, <2>4
  <2> QED BY <2>1, <2>2, <2>3, <2>4
<1> QED BY <1>9, <1>10, <1>11 DEF CellsInv

\* A step that frees nothing and keeps the live entries of each array.
LEMMA CellsSame ==
  ASSUME CellsInv, heap' = heap,
         \A p \in Ports, a \in Arrays : Count(p, a)' = Count(p, a),
         \A p \in Ports, a \in Arrays : \A k \in 1..Count(p, a) : array'[p][a][k] = array[p][a][k]
  PROVE  CellsInv'
<1>1. \A p, a, k : IsLive(p, a, k)' <=> IsLive(p, a, k)
  BY DEF IsLive
<1>2. \A p, a, k : IsLive(p, a, k) => IdAt(p, a, k)' = IdAt(p, a, k)
  BY DEF IsLive, IdAt
<1>3. \A p, a, k : IsLive(p, a, k) => IdAt(p, a, k) \in heap
  BY DEF CellsInv
<1> QED BY <1>1, <1>2, <1>3, CellsKept

\* The payloads that the end of a cycle frees are those of the entries it drops.
LEMMA FreedCells ==
  ASSUME IInv, NEW p \in Ports
  PROVE  LET n == IF p \in InPorts THEN n_delivering_events[p] ELSE n_pending_events[p]
             a == IF p \in InPorts THEN delivering_events[p] ELSE pending_events[p]
         IN  Freed(p) = {IdAt(p, a, k) : k \in 1..n}
<1> DEFINE n == IF p \in InPorts THEN n_delivering_events[p] ELSE n_pending_events[p]
<1> DEFINE a == IF p \in InPorts THEN delivering_events[p] ELSE pending_events[p]
<1> DEFINE s == array[p][a]
<1>1. s \in Seq(Entry) /\ n \in Nat /\ n <= Len(s)
  BY DEF IInv, TypeOK, ArrayType
<1>2. Freed(p) = ToSet(Ids(SubSeq(s, 1, n)))
  BY DEF Freed, Delivering, Pending, Live
<1>3. \A k \in 1..n : IdAt(p, a, k) = s[k].id
  BY DEF IdAt
<1> HIDE DEF s, n, a
<1>4. /\ Len(Ids(SubSeq(s, 1, n))) = n
      /\ Ids(SubSeq(s, 1, n)) \in Seq(Nat)
      /\ \A k \in 1..n : Ids(SubSeq(s, 1, n))[k] = s[k].id
  BY <1>1, LiveEntries
<1>5. DOMAIN Ids(SubSeq(s, 1, n)) = 1..n
  BY <1>4, LenProperties
<1>6. ToSet(Ids(SubSeq(s, 1, n))) = {IdAt(p, a, k) : k \in 1..n}
  BY <1>3, <1>4, <1>5 DEF ToSet
<1> QED BY <1>2, <1>6 DEF n, a

LEMMA CellsStep == IInv /\ [Next]_vars => CellsInv'
<1> SUFFICES ASSUME IInv, [Next]_vars PROVE CellsInv'
  OBVIOUS
<1>0. CellsInv /\ ArrayType /\ ArraysInv /\ CycleType /\ LockInv
  BY DEF IInv, TypeOK
<1>t. /\ n_pending_events \in [Ports -> Nat] /\ n_delivering_events \in [Ports -> Nat]
      /\ pending_events \in [Ports -> Arrays] /\ delivering_events \in [Ports -> Arrays]
  BY <1>0 DEF ArrayType
<1>f. ASSUME UNCHANGED arrayVars PROVE CellsInv'
  <2>1. UNCHANGED <<array, heap, pending_events, n_pending_events, n_delivering_events>>
    BY <1>f DEF arrayVars
  <2> QED BY <1>0, <2>1, CellsSame DEF Count
<1>1. ASSUME NEW c \in Callers, NEW p \in InPorts, PushLock(c, p) PROVE CellsInv'
  BY <1>1, <1>f DEF PushLock
<1>2. CASE PushNoMemory
  BY <1>2, <1>f DEF PushNoMemory
<1>3. CASE PushAppend
  <2> DEFINE e == [id |-> push.id, size |-> 0]
  <2>1. push.port \in Ports /\ push.id \in Nat /\ push.id \notin heap
    BY <1>0, <1>3 DEF PushAppend, LockInv, CycleType
  <2>2. e \in Entry /\ e.id = push.id
    BY <2>1 DEF Entry
  <2>3. /\ array' = Appended(push.port, e) /\ heap' = heap \cup {push.id}
        /\ n_pending_events' = [n_pending_events EXCEPT ![push.port] = @ + 1]
        /\ UNCHANGED <<pending_events, delivering_events, n_delivering_events>>
    BY <1>3 DEF PushAppend
  <2> HIDE DEF e
  <2> QED BY <2>1, <2>2, <2>3, CellAdded
<1>4. ASSUME NEW p \in Ports \ InPorts, NEW size \in Sizes, PushOutput(p, size)
      PROVE  CellsInv'
  <2> DEFINE e == [id |-> lastId + 1, size |-> size]
  <2>1. lastId \in Nat /\ heap \subseteq 1..lastId
    BY <1>0, EventPortsAssumption DEF CycleType, ArrayType
  <2>2. e \in Entry /\ e.id = lastId + 1 /\ e.id \notin heap
    BY <2>1, SizesAssumption DEF Entry
  <2>3. /\ array' = Appended(p, e)
        /\ UNCHANGED <<pending_events, delivering_events, n_delivering_events>>
        /\ \/ /\ n_pending_events' = [n_pending_events EXCEPT ![p] = @ + 1]
              /\ heap' = heap \cup {e.id}
           \/ UNCHANGED <<n_pending_events, heap>>
    BY <1>4 DEF PushOutput, InCallback
  <2> HIDE DEF e
  <2>4. CASE /\ n_pending_events' = [n_pending_events EXCEPT ![p] = @ + 1]
             /\ heap' = heap \cup {e.id}
    BY <2>2, <2>3, <2>4, CellAdded
  <2>5. CASE UNCHANGED <<n_pending_events, heap>>
    <3>1. /\ \A q \in Ports : q # p => array'[q] = array[q]
          /\ \A b \in Arrays : b # pending_events[p] => array'[p][b] = array[p][b]
          /\ \A k \in 1..n_pending_events[p] :
               array'[p][pending_events[p]][k] = array[p][pending_events[p]][k]
      BY <1>0, <2>2, <2>3, AppendEntry
    <3>2. \A q \in Ports, b \in Arrays : Count(q, b)' = Count(q, b)
      BY <2>3, <2>5 DEF Count
    <3>3. Count(p, pending_events[p]) = n_pending_events[p]
      BY DEF Count
    <3>4. \A q \in Ports, b \in Arrays : \A k \in 1..Count(q, b) :
            array'[q][b][k] = array[q][b][k]
      BY <3>1, <3>3
    <3> QED BY <1>0, <2>5, <3>2, <3>4, CellsSame
  <2> QED BY <2>3, <2>4, <2>5
<1>5. ASSUME NEW p \in Ports, NEW b \in Buffers, GraphFill(p, b) PROVE CellsInv'
  BY <1>5, <1>f DEF GraphFill
<1>6. CASE CycleStep
  <2>1. CASE CycleBegin \/ StageEnd
    BY <2>1, <1>f DEF CycleBegin, StageEnd
  <2>2. ASSUME NEW p \in Ports, StagePort(p) PROVE CellsInv'
    <3>1. CASE StagePushed(p)
      <4>1. /\ delivering_events' = [delivering_events EXCEPT ![p] = pending_events[p]]
            /\ pending_events' = [pending_events EXCEPT ![p] = delivering_events[p]]
            /\ n_delivering_events' = [n_delivering_events EXCEPT ![p] = n_pending_events[p]]
            /\ n_pending_events' = [n_pending_events EXCEPT ![p] = 0]
            /\ UNCHANGED <<array, heap>>
        BY <3>1 DEF StagePushed
      <4>2. n_delivering_events[p] = 0
        BY <2>2, StagingFacts
      <4>3. ASSUME NEW q \in Ports, NEW b \in Arrays PROVE Count(q, b)' = Count(q, b)
        <5>1. pending_events[q] # delivering_events[q]
          BY <1>0 DEF ArraysInv
        <5>2. CASE q = p
          <6>1. /\ pending_events'[q] = delivering_events[q] /\ n_pending_events'[q] = 0
                /\ n_delivering_events'[q] = n_pending_events[q] /\ n_delivering_events[q] = 0
            BY <1>t, <4>1, <4>2, <5>2
          <6>2. b = pending_events[q] \/ b = delivering_events[q]
            BY <1>t, <5>1
          <6> QED BY <5>1, <6>1, <6>2 DEF Count
        <5>3. CASE q # p
          BY <1>t, <4>1, <5>3 DEF Count
        <5> QED BY <5>2, <5>3
      <4> QED BY <1>0, <4>1, <4>3, CellsSame
    <3>2. CASE (\E b \in Buffers : StageSequence(p, b)) \/ StageNothing(p)
      BY <3>2, <1>f DEF StageSequence, StageNothing
    <3>3. CASE StageOutput(p)
      <4>1. /\ n_pending_events' = [n_pending_events EXCEPT ![p] = 0] /\ p \notin InPorts
            /\ UNCHANGED <<array, pending_events, n_delivering_events, heap>>
        BY <3>3 DEF StageOutput
      <4>2. cyc = "stage"
        BY <2>2, StagingFacts
      <4>3. n_pending_events' = n_pending_events
        BY <1>0, <1>t, <4>1, <4>2 DEF ArraysInv
      <4> QED BY <1>0, <4>1, <4>3, CellsSame DEF Count
    <3> QED BY <2>2, <3>1, <3>2, <3>3 DEF StagePort
  <2>3. CASE CycleEnd
    <3>1. /\ UNCHANGED <<array, pending_events, delivering_events>>
          /\ n_delivering_events' = [q \in Ports |->
               IF q \in InPorts THEN 0 ELSE n_delivering_events[q]]
          /\ n_pending_events' = [q \in Ports |->
               IF q \in InPorts THEN n_pending_events[q] ELSE 0]
          /\ heap' = heap \ UNION {Freed(q) : q \in Ports}
      BY <2>3 DEF CycleEnd, InCallback
    <3> DEFINE Dropped(q, b) ==
          IF q \in InPorts THEN b = delivering_events[q] ELSE b = pending_events[q]
    <3>2. ASSUME NEW q \in Ports, NEW b \in Arrays
          PROVE  Count(q, b)' = IF Dropped(q, b) THEN 0 ELSE Count(q, b)
      <4>1. /\ pending_events[q] # delivering_events[q]
            /\ b = pending_events[q] \/ b = delivering_events[q]
            /\ q \notin InPorts => n_delivering_events[q] = 0
        BY <1>0, <1>t DEF ArraysInv
      <4> QED BY <3>1, <4>1 DEF Count
    <3>3. ASSUME NEW q \in Ports
          PROVE  Freed(q) = {x \in heap : \E b, k : /\ Dropped(q, b) /\ IsLive(q, b, k)
                                                    /\ IdAt(q, b, k) = x}
      <4> DEFINE n == IF q \in InPorts THEN n_delivering_events[q] ELSE n_pending_events[q]
      <4> DEFINE a == IF q \in InPorts THEN delivering_events[q] ELSE pending_events[q]
      <4>1. Freed(q) = {IdAt(q, a, k) : k \in 1..n}
        BY FreedCells
      <4>2. /\ a \in Arrays /\ Count(q, a) = n /\ \A b : Dropped(q, b) <=> b = a
        BY <1>0, <1>t DEF ArraysInv, Count
      <4> HIDE DEF n, a, Dropped
      <4>3. \A k : k \in 1..n <=> IsLive(q, a, k)
        BY <4>2 DEF IsLive
      <4>4. \A k : IsLive(q, a, k) => IdAt(q, a, k) \in heap
        BY <1>0 DEF CellsInv
      <4> QED BY <4>1, <4>2, <4>3, <4>4
    <3>4. ASSUME NEW q, NEW b, NEW k, IsLive(q, b, k)' PROVE IsLive(q, b, k) /\ ~ Dropped(q, b)
      <4>1. q \in Ports /\ b \in Arrays /\ k \in 1..Count(q, b)'
        BY <3>4 DEF IsLive
      <4>2. Count(q, b)' = IF Dropped(q, b) THEN 0 ELSE Count(q, b)
        BY <3>2, <4>1
      <4>3. ~ Dropped(q, b)
        <5> HIDE DEF Dropped
        <5> QED BY <4>1, <4>2
      <4> HIDE DEF Dropped
      <4> QED BY <4>1, <4>2, <4>3 DEF IsLive
    <3>5. ASSUME NEW q, NEW b, NEW k, IsLive(q, b, k), ~ Dropped(q, b) PROVE IsLive(q, b, k)'
      <4>1. q \in Ports /\ b \in Arrays /\ k \in 1..Count(q, b)
        BY <3>5 DEF IsLive
      <4>2. Count(q, b)' = Count(q, b)
        BY <3>2, <3>5, <4>1
      <4> QED BY <4>1, <4>2 DEF IsLive
    <3> HIDE DEF Dropped
    <3>6. ASSUME NEW q, NEW b, NEW k, IsLive(q, b, k)
          PROVE  IdAt(q, b, k) \in heap' <=> IsLive(q, b, k)'
      <4>1. IdAt(q, b, k) \in heap /\ q \in Ports
        BY <1>0, <3>6 DEF CellsInv, IsLive
      <4>2. CASE Dropped(q, b)
        <5>1. IdAt(q, b, k) \in Freed(q)
          BY <3>3, <3>6, <4>1, <4>2
        <5> QED BY <3>1, <3>4, <4>1, <4>2, <5>1
      <4>3. CASE ~ Dropped(q, b)
        <5>1. ASSUME NEW r \in Ports, IdAt(q, b, k) \in Freed(r) PROVE FALSE
          <6>1. \E c, j : Dropped(r, c) /\ IsLive(r, c, j) /\ IdAt(r, c, j) = IdAt(q, b, k)
            BY <3>3, <5>1
          <6>2. \A c, j : IsLive(r, c, j) /\ IdAt(r, c, j) = IdAt(q, b, k) => r = q /\ c = b
            BY <1>0, <3>6 DEF CellsInv
          <6> QED BY <4>3, <6>1, <6>2
        <5> QED BY <3>1, <3>5, <3>6, <4>1, <4>3, <5>1
      <4> QED BY <4>2, <4>3
    <3>7. \A q, b, k : IsLive(q, b, k)' => IsLive(q, b, k) /\ IdAt(q, b, k)' = IdAt(q, b, k)
      BY <3>1, <3>4 DEF IdAt
    <3>8. heap' \subseteq heap
      BY <3>1
    <3> QED BY <1>0, <3>6, <3>7, <3>8, CellsKept
  <2> QED BY <1>6, <2>1, <2>2, <2>3 DEF CycleStep
<1>7. ASSUME NEW on \in BOOLEAN, SetActive(on) PROVE CellsInv'
  BY <1>7, <1>f DEF SetActive
<1>p. CASE PushCall \/ PushOutputNoMemory
  BY <1>p, <1>f DEF PushCall, PushOutputNoMemory
<1>8. CASE UNCHANGED vars
  BY <1>8, <1>f DEF vars
<1> QED BY <1>1, <1>2, <1>3, <1>4, <1>5, <1>6, <1>7, <1>8, <1>p DEF Next, PushStep

----------------------------------------------------------------------------
(* What output pushes were told *)

\* Live entries that stay where they are are the same events.
LEMMA PendingSame ==
  ASSUME ArrayType, ArrayType', NEW p \in Ports,
         UNCHANGED <<pending_events, n_pending_events>>,
         \A k \in 1..n_pending_events[p] :
           array'[p][pending_events[p]][k] = array[p][pending_events[p]][k]
  PROVE  Staged(p)' = Staged(p)
<1> DEFINE s == array[p][pending_events[p]]
<1> DEFINE t == array'[p][pending_events[p]]
<1> DEFINE n == n_pending_events[p]
<1>1. s \in Seq(Entry) /\ n \in Nat /\ n <= Len(s)
  BY DEF ArrayType
<1>2. t \in Seq(Entry) /\ n <= Len(t)
  BY DEF ArrayType
<1>3. Staged(p) = Ids(SubSeq(s, 1, n)) /\ Staged(p)' = Ids(SubSeq(t, 1, n))
  BY DEF Staged, Pending, Live
<1>4. \A k \in 1..n : t[k] = s[k]
  OBVIOUS
<1> HIDE DEF s, t, n
<1>5. /\ Len(Ids(SubSeq(s, 1, n))) = n /\ Ids(SubSeq(s, 1, n)) \in Seq(Nat)
      /\ \A k \in 1..n : Ids(SubSeq(s, 1, n))[k] = s[k].id
  BY ONLY <1>1, LiveEntries
<1>6. /\ Len(Ids(SubSeq(t, 1, n))) = n /\ Ids(SubSeq(t, 1, n)) \in Seq(Nat)
      /\ \A k \in 1..n : Ids(SubSeq(t, 1, n))[k] = t[k].id
  BY ONLY <1>1, <1>2, LiveEntries
<1>7. \A k \in 1..n : Ids(SubSeq(t, 1, n))[k] = Ids(SubSeq(s, 1, n))[k]
  BY <1>4, <1>5, <1>6
<1>8. Ids(SubSeq(t, 1, n)) = Ids(SubSeq(s, 1, n))
  BY <1>5, <1>6, <1>7, SeqEqual
<1> QED BY <1>3, <1>8

\* An accepted event is the last of those that will be encoded.
LEMMA PendingAppended ==
  ASSUME ArrayType, ArrayType', NEW p \in Ports, NEW e \in Entry,
         array' = Appended(p, e), UNCHANGED pending_events,
         n_pending_events' = [n_pending_events EXCEPT ![p] = @ + 1]
  PROVE  Staged(p)' = Append(Staged(p), e.id)
<1> DEFINE s == array[p][pending_events[p]]
<1> DEFINE t == array'[p][pending_events[p]]
<1> DEFINE n == n_pending_events[p]
<1>1. s \in Seq(Entry) /\ n \in Nat /\ n <= Len(s)
  BY DEF ArrayType
<1>2. n_pending_events'[p] = n + 1
  BY DEF ArrayType
<1>3. t \in Seq(Entry) /\ n + 1 <= Len(t)
  BY <1>2, SMTT(30) DEF ArrayType
<1>4. Staged(p) = Ids(SubSeq(s, 1, n)) /\ Staged(p)' = Ids(SubSeq(t, 1, n + 1))
  BY <1>2 DEF Staged, Pending, Live
<1>5. t[n + 1] = e /\ \A k \in 1..n : t[k] = s[k]
  BY AppendEntry
<1> HIDE DEF s, t, n
<1> DEFINE u == Ids(SubSeq(s, 1, n))
<1> DEFINE v == Ids(SubSeq(t, 1, n + 1))
<1>6. Len(u) = n /\ u \in Seq(Nat) /\ \A k \in 1..n : u[k] = s[k].id
  BY ONLY <1>1, LiveEntries
<1>7. Len(v) = n + 1 /\ v \in Seq(Nat) /\ \A k \in 1..n + 1 : v[k] = t[k].id
  <2>1. n + 1 \in Nat
    BY <1>1
  <2> QED BY ONLY <1>3, <2>1, LiveEntries
<1> HIDE DEF u, v
<1>8. e.id \in Nat
  BY DEF Entry
<1>9. /\ Append(u, e.id) \in Seq(Nat) /\ Len(Append(u, e.id)) = n + 1
      /\ Append(u, e.id)[n + 1] = e.id /\ \A k \in 1..n : Append(u, e.id)[k] = u[k]
  BY <1>1, <1>6, <1>8, AppendProperties
<1>10. \A k \in 1..n + 1 : v[k] = Append(u, e.id)[k]
  <2> SUFFICES ASSUME NEW k \in 1..n + 1 PROVE v[k] = Append(u, e.id)[k]
    OBVIOUS
  <2>1. CASE k = n + 1
    BY <1>5, <1>7, <1>9, <2>1
  <2>2. CASE k # n + 1
    <3>1. k \in 1..n
      BY <1>1, <2>2
    <3> QED BY <1>5, <1>6, <1>7, <1>9, <3>1, ZenonT(40)
  <2> QED BY <2>1, <2>2
<1>11. v = Append(u, e.id)
  BY <1>7, <1>9, <1>10, SeqEqual
<1> QED BY <1>4, <1>11 DEF u, v

LEMMA EmptyIds ==
  ASSUME NEW s
  PROVE  Ids(SubSeq(s, 1, 0)) = <<>>
<1>1. SubSeq(s, 1, 0) = <<>>
  BY SubSeqEmpty
<1>2. Len(<<>>) = 0
  OBVIOUS
<1>3. Ids(<<>>) = [k \in 1..0 |-> <<>>[k].id]
  BY <1>2 DEF Ids
<1>4. [k \in 1..0 |-> <<>>[k].id] \in Seq(Nat) /\ Len([k \in 1..0 |-> <<>>[k].id]) = 0
  OBVIOUS
<1> QED BY <1>1, <1>3, <1>4, EmptySeq

LEMMA NothingStaged ==
  ASSUME NEW p \in Ports
  PROVE  /\ n_pending_events[p] = 0 => Staged(p) = <<>>
         /\ n_pending_events'[p] = 0 => Staged(p)' = <<>>
BY EmptyIds DEF Staged, Pending, Live

LEMMA OutputInvStep == IInv /\ [Next]_vars => OutputInv'
<1> SUFFICES ASSUME IInv, [Next]_vars, NEW p \in Ports \ InPorts
             PROVE  Staged(p)' = accepted'[p]
  BY DEF OutputInv, Staged
<1>0. /\ ArrayType /\ HistoryType /\ ArraysInv /\ CycleType /\ LockInv
      /\ Staged(p) = accepted[p]
  BY DEF IInv, TypeOK, OutputInv, Staged
<1>a. ArrayType' /\ ArraysInv'
  BY ArrayTypeStep, ArraysInvStep
<1>t. /\ n_pending_events \in [Ports -> Nat] /\ accepted \in [Ports -> Seq(Nat)]
      /\ pending_events \in [Ports -> Arrays]
  BY <1>0 DEF ArrayType, HistoryType
<1>f. ASSUME array'[p] = array[p], pending_events'[p] = pending_events[p],
             n_pending_events'[p] = n_pending_events[p], accepted'[p] = accepted[p]
      PROVE  Staged(p)' = accepted'[p]
  BY <1>0, <1>f DEF Staged, Pending, Live
<1>1. ASSUME NEW c \in Callers, NEW q \in InPorts, PushLock(c, q) PROVE Staged(p)' = accepted'[p]
  BY <1>1, <1>f DEF PushLock, arrayVars, historyVars
<1>2. CASE PushNoMemory
  BY <1>2, <1>f DEF PushNoMemory, arrayVars, historyVars
<1>3. CASE PushAppend
  <2> DEFINE e == [id |-> push.id, size |-> 0]
  <2>1. push.port \in Ports /\ push.port # p /\ push.id \in Nat
    BY <1>0, <1>3 DEF PushAppend, LockInv, CycleType
  <2>2. e \in Entry
    BY <2>1 DEF Entry
  <2>3. /\ array' = Appended(push.port, e)
        /\ n_pending_events' = [n_pending_events EXCEPT ![push.port] = @ + 1]
        /\ UNCHANGED <<pending_events, accepted>>
    BY <1>3 DEF PushAppend
  <2> HIDE DEF e
  <2>4. array'[p] = array[p]
    BY <1>0, <2>1, <2>2, <2>3, AppendEntry
  <2>5. n_pending_events'[p] = n_pending_events[p]
    BY <1>t, <2>1, <2>3
  <2> QED BY <1>f, <2>3, <2>4, <2>5
<1>4. ASSUME NEW q \in Ports \ InPorts, NEW size \in Sizes, PushOutput(q, size)
      PROVE  Staged(p)' = accepted'[p]
  <2> DEFINE e == [id |-> lastId + 1, size |-> size]
  <2>1. e \in Entry /\ e.id = lastId + 1
    BY <1>0, EventPortsAssumption, SizesAssumption DEF CycleType, Entry
  <2>2. /\ array' = Appended(q, e) /\ UNCHANGED pending_events
        /\ \/ /\ n_pending_events' = [n_pending_events EXCEPT ![q] = @ + 1]
              /\ accepted' = [accepted EXCEPT ![q] = Append(@, e.id)]
           \/ UNCHANGED <<n_pending_events, accepted>>
    BY <1>4 DEF PushOutput, InCallback
  <2> HIDE DEF e
  <2>3. CASE q # p
    <3>1. array'[p] = array[p]
      BY <1>0, <2>1, <2>2, <2>3, AppendEntry
    <3>2. n_pending_events'[p] = n_pending_events[p] /\ accepted'[p] = accepted[p]
      BY <1>t, <2>2, <2>3
    <3> QED BY <1>f, <2>2, <3>1, <3>2
  <2>4. CASE q = p /\ UNCHANGED <<n_pending_events, accepted>>
    <3>1. \A k \in 1..n_pending_events[p] :
            array'[p][pending_events[p]][k] = array[p][pending_events[p]][k]
      BY <1>0, <2>1, <2>2, <2>4, AppendEntry
    <3> QED BY <1>0, <1>a, <2>2, <2>4, <3>1, PendingSame
  <2>5. CASE /\ q = p
             /\ n_pending_events' = [n_pending_events EXCEPT ![q] = @ + 1]
             /\ accepted' = [accepted EXCEPT ![q] = Append(@, e.id)]
    <3>1. Staged(p)' = Append(Staged(p), e.id)
      BY <1>0, <1>a, <2>1, <2>2, <2>5, PendingAppended
    <3>2. accepted'[p] = Append(accepted[p], e.id)
      BY <1>t, <2>5
    <3> QED BY <1>0, <3>1, <3>2
  <2> QED BY <2>2, <2>3, <2>4, <2>5
<1>5. ASSUME NEW q \in Ports, NEW b \in Buffers, GraphFill(q, b) PROVE Staged(p)' = accepted'[p]
  BY <1>5, <1>f DEF GraphFill, arrayVars, historyVars
<1>6. CASE CycleStep
  <2>1. CASE CycleBegin \/ StageEnd
    BY <2>1, <1>f DEF CycleBegin, StageEnd, arrayVars, historyVars
  <2>2. ASSUME NEW q \in Ports, StagePort(q) PROVE Staged(p)' = accepted'[p]
    <3>1. accepted' = accepted /\ cyc = "stage"
      BY <2>2, StagingFacts DEF Staging
    <3>2. n_pending_events[p] = 0
      BY <1>0, <3>1 DEF ArraysInv
    <3>3. n_pending_events'[p] = 0
      <4>1. \/ n_pending_events' = n_pending_events
            \/ n_pending_events' = [n_pending_events EXCEPT ![q] = 0]
        BY <2>2 DEF StagePort, StagePushed, StageSequence, StageNothing, StageOutput, arrayVars
      <4> QED BY <1>t, <3>2, <4>1
    <3>4. Staged(p) = <<>>
      BY <3>2, NothingStaged
    <3>5. Staged(p)' = <<>>
      BY <3>3, NothingStaged
    <3> QED BY <1>0, <3>1, <3>4, <3>5
  <2>3. CASE CycleEnd
    <3>1. n_pending_events'[p] = 0 /\ accepted'[p] = <<>>
      BY <2>3 DEF CycleEnd, InCallback
    <3>2. Staged(p)' = <<>>
      BY <3>1, NothingStaged
    <3> QED BY <3>1, <3>2
  <2> QED BY <1>6, <2>1, <2>2, <2>3 DEF CycleStep
<1>7. ASSUME NEW on \in BOOLEAN, SetActive(on) PROVE Staged(p)' = accepted'[p]
  BY <1>7, <1>f DEF SetActive, arrayVars, historyVars
<1>p. CASE PushCall \/ PushOutputNoMemory
  BY <1>p, <1>f DEF PushCall, PushOutputNoMemory, arrayVars, historyVars
<1>8. CASE UNCHANGED vars
  BY <1>8, <1>f DEF vars, arrayVars, historyVars
<1> QED BY <1>1, <1>2, <1>3, <1>4, <1>5, <1>6, <1>7, <1>8, <1>p DEF Next, PushStep

----------------------------------------------------------------------------
(* What input pushes become *)

LEMMA ConcatAppend ==
  ASSUME NEW s \in Seq(Nat), NEW t \in Seq(Nat), NEW e \in Nat
  PROVE  Append(s \o t, e) = s \o Append(t, e)
<1>1. Append(s \o t, e) = (s \o t) \o <<e>> /\ Append(t, e) = t \o <<e>>
  BY ConcatProperties, AppendProperties
<1>2. <<e>> \in Seq(Nat)
  OBVIOUS
<1> QED BY <1>1, <1>2, ConcatAssociative

LEMMA InputInvStep == IInv /\ [Next]_vars => InputInv'
<1> SUFFICES ASSUME IInv, [Next]_vars, NEW p \in InPorts
             PROVE  pushed'[p] = delivered'[p] \o Staged(p)'
  BY DEF InputInv
<1>0. /\ ArrayType /\ HistoryType /\ ArraysInv /\ CycleType /\ LockInv
      /\ pushed[p] = delivered[p] \o Staged(p) /\ p \in Ports
  BY EventPortsAssumption DEF IInv, TypeOK, InputInv
<1>a. ArrayType'
  BY ArrayTypeStep
<1>t. /\ n_pending_events \in [Ports -> Nat] /\ pending_events \in [Ports -> Arrays]
      /\ pushed \in [Ports -> Seq(Nat)] /\ delivered \in [Ports -> Seq(Nat)]
  BY <1>0 DEF ArrayType, HistoryType
<1>s. Staged(p) \in Seq(Nat) /\ Len(Staged(p)) = n_pending_events[p]
  BY <1>0, StagedEntries
<1>f. ASSUME array'[p] = array[p], pending_events'[p] = pending_events[p],
             n_pending_events'[p] = n_pending_events[p],
             pushed'[p] = pushed[p], delivered'[p] = delivered[p]
      PROVE  pushed'[p] = delivered'[p] \o Staged(p)'
  BY <1>0, <1>f DEF Staged, Pending, Live
<1>1. ASSUME NEW c \in Callers, NEW q \in InPorts, PushLock(c, q)
      PROVE  pushed'[p] = delivered'[p] \o Staged(p)'
  BY <1>1, <1>f DEF PushLock, arrayVars, historyVars
<1>2. CASE PushNoMemory
  BY <1>2, <1>f DEF PushNoMemory, arrayVars, historyVars
<1>3. CASE PushAppend
  <2> DEFINE e == [id |-> push.id, size |-> 0]
  <2>1. push.port \in Ports /\ push.id \in Nat
    BY <1>0 DEF CycleType
  <2>2. e \in Entry /\ e.id = push.id
    BY <2>1 DEF Entry
  <2>3. /\ array' = Appended(push.port, e)
        /\ n_pending_events' = [n_pending_events EXCEPT ![push.port] = @ + 1]
        /\ pushed' = [pushed EXCEPT ![push.port] = Append(@, push.id)]
        /\ UNCHANGED <<pending_events, delivered>>
    BY <1>3 DEF PushAppend
  <2> HIDE DEF e
  <2>4. CASE push.port # p
    <3>1. array'[p] = array[p]
      BY <1>0, <2>1, <2>2, <2>3, <2>4, AppendEntry
    <3>2. n_pending_events'[p] = n_pending_events[p] /\ pushed'[p] = pushed[p]
      BY <1>t, <2>3, <2>4
    <3> QED BY <1>f, <2>3, <3>1, <3>2
  <2>5. CASE push.port = p
    <3>1. Staged(p)' = Append(Staged(p), e.id)
      BY <1>0, <1>a, <2>2, <2>3, <2>5, PendingAppended
    <3>2. pushed'[p] = Append(pushed[p], push.id)
      BY <1>0, <1>t, <2>3, <2>5
    <3>3. delivered[p] \in Seq(Nat)
      BY <1>0, <1>t
    <3>4. Append(delivered[p] \o Staged(p), push.id) = delivered[p] \o Append(Staged(p), push.id)
      BY ONLY <1>s, <2>1, <3>3, ConcatAppend
    <3> QED BY <1>0, <2>2, <2>3, <3>1, <3>2, <3>4
  <2> QED BY <2>4, <2>5
<1>4. ASSUME NEW q \in Ports \ InPorts, NEW size \in Sizes, PushOutput(q, size)
      PROVE  pushed'[p] = delivered'[p] \o Staged(p)'
  <2> DEFINE e == [id |-> lastId + 1, size |-> size]
  <2>1. e \in Entry
    BY <1>0, EventPortsAssumption, SizesAssumption DEF CycleType, Entry
  <2>2. /\ array' = Appended(q, e) /\ UNCHANGED <<pending_events, pushed, delivered>>
        /\ \/ n_pending_events' = [n_pending_events EXCEPT ![q] = @ + 1]
           \/ UNCHANGED n_pending_events
    BY <1>4 DEF PushOutput, InCallback
  <2> HIDE DEF e
  <2>3. array'[p] = array[p]
    BY <1>0, <2>1, <2>2, AppendEntry, ZenonT(40)
  <2>4. n_pending_events'[p] = n_pending_events[p]
    BY <1>0, <1>t, <2>2
  <2> QED BY <1>f, <2>2, <2>3, <2>4
<1>5. ASSUME NEW q \in Ports, NEW b \in Buffers, GraphFill(q, b)
      PROVE  pushed'[p] = delivered'[p] \o Staged(p)'
  BY <1>5, <1>f DEF GraphFill, arrayVars, historyVars
<1>6. CASE CycleStep
  <2>1. CASE CycleBegin \/ StageEnd
    BY <2>1, <1>f DEF CycleBegin, StageEnd, arrayVars, historyVars
  <2>2. ASSUME NEW q \in Ports, StagePort(q) PROVE pushed'[p] = delivered'[p] \o Staged(p)'
    <3>1. pushed' = pushed
      BY <2>2, StagingFacts DEF Staging
    <3>2. CASE StagePushed(q) /\ q = p
      <4>1. delivered'[p] = delivered[p] \o Staged(p) /\ n_pending_events'[p] = 0
        BY <1>0, <1>t, <3>2 DEF StagePushed
      <4>2. Staged(p)' = <<>>
        BY <1>0, <4>1, NothingStaged
      <4>3. pushed[p] \o <<>> = pushed[p]
        BY <1>0, <1>t, ConcatEmptySeq
      <4> QED BY <1>0, <3>1, <4>1, <4>2, <4>3
    <3>3. CASE StagePushed(q) /\ q # p
      BY <1>0, <1>t, <1>f, <3>1, <3>3 DEF StagePushed
    <3>4. CASE (\E b \in Buffers : StageSequence(q, b)) \/ StageNothing(q)
      BY <1>f, <3>1, <3>4 DEF StageSequence, StageNothing, arrayVars
    <3>5. CASE StageOutput(q)
      BY <1>0, <1>t, <1>f, <3>1, <3>5 DEF StageOutput
    <3> QED BY <2>2, <3>2, <3>3, <3>4, <3>5 DEF StagePort
  <2>3. CASE CycleEnd
    BY <1>0, <1>t, <1>f, <2>3 DEF CycleEnd, InCallback
  <2> QED BY <1>6, <2>1, <2>2, <2>3 DEF CycleStep
<1>7. ASSUME NEW on \in BOOLEAN, SetActive(on) PROVE pushed'[p] = delivered'[p] \o Staged(p)'
  BY <1>7, <1>f DEF SetActive, arrayVars, historyVars
<1>p. CASE PushCall \/ PushOutputNoMemory
  BY <1>p, <1>f DEF PushCall, PushOutputNoMemory, arrayVars, historyVars
<1>8. CASE UNCHANGED vars
  BY <1>8, <1>f DEF vars, arrayVars, historyVars
<1> QED BY <1>1, <1>2, <1>3, <1>4, <1>5, <1>6, <1>7, <1>8, <1>p DEF Next, PushStep

----------------------------------------------------------------------------
(* Theorems *)

LEMMA InitInv == Init => IInv
<1> SUFFICES ASSUME Init PROVE IInv
  OBVIOUS
<1>1. TypeOK
  BY InitType
<1>2. LockInv
  BY CallersAreNot DEF Init, LockInv
<1>3. ArraysInv
  BY EventPortsAssumption DEF Init, ArraysInv
<1>4. CellsInv
  <2>1. heap = {} /\ \A p \in Ports, a \in Arrays : Count(p, a) = 0
    BY DEF Init, Count
  <2>2. \A p, a, k : ~ IsLive(p, a, k)
    BY <2>1 DEF IsLive
  <2> QED BY <2>1, <2>2 DEF CellsInv
<1>5. DequeuedInv /\ EventPoolConserved
  BY EventPortsAssumption DEF Init, DequeuedInv, EventPoolConserved
<1>6. OutputInv
  <2>1. \A p \in Ports : n_pending_events[p] = 0 /\ accepted[p] = <<>>
    BY DEF Init
  <2> QED BY <2>1, NothingStaged DEF OutputInv, Staged
<1>7. InputInv
  <2>1. ASSUME NEW p \in InPorts PROVE pushed[p] = delivered[p] \o Staged(p)
    <3>1. p \in Ports /\ n_pending_events[p] = 0 /\ pushed[p] = <<>> /\ delivered[p] = <<>>
      BY EventPortsAssumption DEF Init
    <3>2. Staged(p) = <<>>
      BY <3>1, NothingStaged
    <3>3. <<>> \o <<>> = <<>>
      BY EmptySeq, ConcatEmptySeq
    <3> QED BY <3>1, <3>2, <3>3
  <2> QED BY <2>1 DEF InputInv
<1> QED BY <1>1, <1>2, <1>3, <1>4, <1>5, <1>6, <1>7 DEF IInv

LEMMA StepInv == IInv /\ [Next]_vars => IInv'
BY CycleTypeStep, ArrayTypeStep, PoolTypeStep, HistoryTypeStep, LockInvStep, ArraysInvStep,
   CellsStep, PoolStep, OutputInvStep, InputInvStep DEF IInv, TypeOK

LEMMA Invariance == Spec => []IInv
BY InitInv, StepInv, PTL DEF Spec

\* The types of every variable but incoming_events, which Decode() fills.
THEOREM TypeCorrect == Spec => []TypeOK
<1>1. IInv => TypeOK
  BY DEF IInv
<1> QED BY Invariance, <1>1, PTL

\* No buffer of an event port is lost or queued twice, with any pool, any
\* pushes and any stops: the cycle requeues what it dequeued.
THEOREM PoolIsConserved == Spec => []EventPoolConserved
<1>1. IInv => EventPoolConserved
  BY DEF IInv
<1> QED BY Invariance, <1>1, PTL

\* The buffer that a cycle requeues carries the events its callback was told
\* are accepted, in push order, for any number of ports and events.
THEOREM AcceptedIsPublished == Spec => PublishesAccepted
<1>1. ASSUME IInv, [Next]_vars, NEW p \in Ports \ InPorts, dequeued[p] # NULL, dequeued'[p] = NULL
      PROVE  content'[p][dequeued[p]] = accepted[p]
  <2>1. PoolType /\ NULL \notin Buffers /\ Staged(p) = accepted[p]
    BY <1>1, EventPortsAssumption DEF IInv, TypeOK, OutputInv, Staged
  <2>2. dequeued \in [Ports -> Buffers \cup {NULL}] /\ dequeued[p] \in Buffers
    BY <1>1, <2>1 DEF PoolType
  <2>3. ASSUME dequeued' = dequeued PROVE FALSE
    BY <1>1, <2>3
  <2>4. CASE CycleEnd
    BY <2>1, <2>2, <2>4 DEF CycleEnd, InCallback
  <2>5. ASSUME NEW q \in Ports, StagePort(q) PROVE FALSE
    <3>1. dequeued' = dequeued \/ \E b \in Buffers : dequeued' = [dequeued EXCEPT ![q] = b]
      BY <2>1, <2>5 DEF StagePort, StagePushed, StageSequence, StageNothing, StageOutput, PoolType
    <3> QED BY <1>1, <2>1, <2>2, <3>1
  <2>6. CASE CycleBegin \/ StageEnd \/ PushStep \/ UNCHANGED vars
    BY <2>3, <2>6 DEF CycleBegin, StageEnd, PushStep, PushNoMemory, PushAppend, vars, portVars
  <2>7. ASSUME NEW c \in Callers, NEW q \in InPorts, PushLock(c, q) PROVE FALSE
    BY <2>3, <2>7 DEF PushLock, portVars
  <2>8. ASSUME NEW q \in Ports \ InPorts, NEW size \in Sizes, PushOutput(q, size) PROVE FALSE
    BY <2>3, <2>8 DEF PushOutput, InCallback, portVars
  <2>9. ASSUME NEW q \in Ports, NEW b \in Buffers, GraphFill(q, b) PROVE FALSE
    BY <2>3, <2>9 DEF GraphFill, portVars
  <2>10. ASSUME NEW on \in BOOLEAN, SetActive(on) PROVE FALSE
    BY <2>3, <2>10 DEF SetActive, portVars
  <2>11. CASE PushCall \/ PushOutputNoMemory
    BY <2>3, <2>11 DEF PushCall, PushOutputNoMemory, portVars
  <2> QED BY <1>1, <2>4, <2>5, <2>6, <2>7, <2>8, <2>9, <2>10, <2>11 DEF Next, CycleStep
<1>2. IInv /\ [Next]_vars =>
        [\A p \in Ports \ InPorts :
           (dequeued[p] # NULL /\ dequeued'[p] = NULL) =>
             content'[p][dequeued[p]] = accepted[p]]_vars
  BY <1>1
<1> QED BY Invariance, <1>2, PTL DEF Spec, PublishesAccepted

\* The i-th event that port p owns, as a live entry.
LEMMA OwnedEntries ==
  ASSUME IInv, NEW p \in Ports
  PROVE  LET n == n_pending_events[p]
             m == n_delivering_events[p]
             w == Owned(p)
         IN  /\ DOMAIN w = 1..(n + m)
             /\ \A k \in 1..n : /\ IsLive(p, pending_events[p], k)
                                /\ w[k] = IdAt(p, pending_events[p], k)
             /\ \A k \in 1..m : /\ IsLive(p, delivering_events[p], k)
                                /\ w[n + k] = IdAt(p, delivering_events[p], k)
             /\ \A a, k : IsLive(p, a, k) =>
                  \/ a = pending_events[p] /\ k \in 1..n
                  \/ a = delivering_events[p] /\ k \in 1..m
<1> DEFINE n == n_pending_events[p]
<1> DEFINE m == n_delivering_events[p]
<1> DEFINE s == array[p][pending_events[p]]
<1> DEFINE t == array[p][delivering_events[p]]
<1> DEFINE u == Ids(SubSeq(s, 1, n))
<1> DEFINE v == Ids(SubSeq(t, 1, m))
<1>1. /\ s \in Seq(Entry) /\ n \in Nat /\ n <= Len(s)
      /\ t \in Seq(Entry) /\ m \in Nat /\ m <= Len(t)
      /\ pending_events[p] \in Arrays /\ delivering_events[p] \in Arrays
      /\ pending_events[p] # delivering_events[p]
  BY DEF IInv, TypeOK, ArrayType, ArraysInv
<1>2. Owned(p) = u \o v
  BY DEF Owned, Pending, Delivering, Live
<1>3. /\ \A k : IdAt(p, pending_events[p], k) = s[k].id
      /\ \A k : IdAt(p, delivering_events[p], k) = t[k].id
  BY DEF IdAt
<1>4. Count(p, pending_events[p]) = n /\ Count(p, delivering_events[p]) = m
  BY <1>1 DEF Count
<1> HIDE DEF s, t, n, m
<1>5. Len(u) = n /\ u \in Seq(Nat) /\ \A k \in 1..n : u[k] = s[k].id
  BY ONLY <1>1, LiveEntries
<1>6. Len(v) = m /\ v \in Seq(Nat) /\ \A k \in 1..m : v[k] = t[k].id
  BY ONLY <1>1, LiveEntries
<1> HIDE DEF u, v
<1>7. /\ u \o v \in Seq(Nat) /\ Len(u \o v) = n + m
      /\ \A i \in 1..(n + m) : (u \o v)[i] = IF i <= n THEN u[i] ELSE v[i - n]
  BY <1>5, <1>6, ConcatProperties
<1>8. DOMAIN (u \o v) = 1..(n + m)
  BY <1>7, LenProperties
<1>9. \A k \in 1..n : (u \o v)[k] = s[k].id
  BY <1>1, <1>5, <1>7
<1>10. ASSUME NEW k \in 1..m PROVE (u \o v)[n + k] = t[k].id
  <2>1. n + k \in 1..(n + m) /\ ~ n + k <= n /\ (n + k) - n = k
    BY <1>1
  <2> QED BY <1>6, <1>7, <2>1
<1>11. /\ \A k \in 1..n : IsLive(p, pending_events[p], k)
       /\ \A k \in 1..m : IsLive(p, delivering_events[p], k)
       /\ \A a, k : IsLive(p, a, k) =>
            \/ a = pending_events[p] /\ k \in 1..n
            \/ a = delivering_events[p] /\ k \in 1..m
  BY <1>1, <1>4 DEF IsLive
<1> QED BY <1>2, <1>3, <1>8, <1>9, <1>10, <1>11 DEF n, m

\* The events a port owns are its live entries.
LEMMA OwnedIds ==
  ASSUME IInv, NEW p \in Ports
  PROVE  \A x : x \in ToSet(Owned(p)) <=> \E a, k : IsLive(p, a, k) /\ IdAt(p, a, k) = x
<1> DEFINE n == n_pending_events[p]
<1> DEFINE m == n_delivering_events[p]
<1> DEFINE w == Owned(p)
<1>1. /\ DOMAIN w = 1..(n + m)
      /\ \A k \in 1..n : /\ IsLive(p, pending_events[p], k)
                         /\ w[k] = IdAt(p, pending_events[p], k)
      /\ \A k \in 1..m : /\ IsLive(p, delivering_events[p], k)
                         /\ w[n + k] = IdAt(p, delivering_events[p], k)
      /\ \A a, k : IsLive(p, a, k) =>
           \/ a = pending_events[p] /\ k \in 1..n
           \/ a = delivering_events[p] /\ k \in 1..m
  BY OwnedEntries
<1>2. n \in Nat /\ m \in Nat
  BY DEF IInv, TypeOK, ArrayType
<1> HIDE DEF n, m, w
<1>3. ASSUME NEW i \in DOMAIN w
      PROVE  \E a, k : IsLive(p, a, k) /\ IdAt(p, a, k) = w[i]
  <2>1. CASE i <= n
    <3>1. i \in 1..n
      BY <1>1, <1>2, <2>1
    <3> QED BY <1>1, <3>1
  <2>2. CASE ~ i <= n
    <3>1. i - n \in 1..m /\ n + (i - n) = i
      BY <1>1, <1>2, <2>2
    <3>2. IsLive(p, delivering_events[p], i - n) /\ w[i] = IdAt(p, delivering_events[p], i - n)
      BY <1>1, <3>1
    <3> QED BY <3>2
  <2> QED BY <2>1, <2>2
<1>4. ASSUME NEW a, NEW k, IsLive(p, a, k)
      PROVE  \E i \in DOMAIN w : w[i] = IdAt(p, a, k)
  <2>1. CASE a = pending_events[p] /\ k \in 1..n
    <3>1. k \in DOMAIN w
      BY <1>1, <1>2, <2>1
    <3> QED BY <1>1, <2>1, <3>1
  <2>2. CASE a = delivering_events[p] /\ k \in 1..m
    <3>1. n + k \in DOMAIN w
      BY <1>1, <1>2, <2>2
    <3> QED BY <1>1, <2>2, <3>1
  <2> QED BY <1>1, <1>4, <2>1, <2>2
<1>5. ToSet(w) = {w[i] : i \in DOMAIN w}
  BY DEF ToSet
<1> QED BY <1>3, <1>4, <1>5 DEF w

\* Every payload copy has one owner, and what an owner delivers, encodes or
\* frees is still allocated: for any ports, threads and number of events,
\* neither the swap of the arrays, nor an event that does not fit, nor the end
\* of a cycle leaks a copy or frees one twice.
THEOREM PayloadsAreOwned == Spec => []PayloadsOwnedOnce
<1>1. IInv => PayloadsOwnedOnce
  <2> SUFFICES ASSUME IInv PROVE PayloadsOwnedOnce
    OBVIOUS
  <2>0. CellsInv
    BY DEF IInv
  <2>1. heap = UNION {ToSet(Owned(p)) : p \in Ports}
    <3>1. ASSUME NEW h \in heap PROVE \E p \in Ports : h \in ToSet(Owned(p))
      <4>1. \E p, a, k : IsLive(p, a, k) /\ IdAt(p, a, k) = h
        BY <2>0 DEF CellsInv
      <4>2. \A p, a, k : IsLive(p, a, k) => p \in Ports
        BY DEF IsLive
      <4> QED BY <4>1, <4>2, OwnedIds
    <3>2. ASSUME NEW p \in Ports, NEW h \in ToSet(Owned(p)) PROVE h \in heap
      <4>1. \E a, k : IsLive(p, a, k) /\ IdAt(p, a, k) = h
        BY OwnedIds
      <4> QED BY <2>0, <4>1 DEF CellsInv
    <3> QED BY <3>1, <3>2
  <2>2. ASSUME NEW p \in Ports PROVE IsInjective(Owned(p))
    <3> DEFINE n == n_pending_events[p]
    <3> DEFINE m == n_delivering_events[p]
    <3> DEFINE w == Owned(p)
    <3> DEFINE a == pending_events[p]
    <3> DEFINE b == delivering_events[p]
    <3>1. /\ DOMAIN w = 1..(n + m)
          /\ \A k \in 1..n : IsLive(p, a, k) /\ w[k] = IdAt(p, a, k)
          /\ \A k \in 1..m : IsLive(p, b, k) /\ w[n + k] = IdAt(p, b, k)
      BY OwnedEntries
    <3>2. n \in Nat /\ m \in Nat /\ a # b
      BY DEF IInv, TypeOK, ArrayType, ArraysInv
    <3>3. /\ \A k, j : IsLive(p, a, k) /\ IsLive(p, a, j) /\ IdAt(p, a, k) = IdAt(p, a, j) => k = j
          /\ \A k, j : IsLive(p, b, k) /\ IsLive(p, b, j) /\ IdAt(p, b, k) = IdAt(p, b, j) => k = j
          /\ \A k, j : IsLive(p, a, k) /\ IsLive(p, b, j) => IdAt(p, a, k) # IdAt(p, b, j)
      BY <2>0, <3>2 DEF CellsInv
    <3> HIDE DEF n, m, w, a, b
    <3>4. \A i \in DOMAIN w : i \in 1..n \/ (i - n \in 1..m /\ n + (i - n) = i)
      BY <3>1, <3>2
    <3>5. ASSUME NEW i \in DOMAIN w, NEW j \in DOMAIN w, w[i] = w[j] PROVE i = j
      <4>1. CASE i \in 1..n /\ j \in 1..n
        BY <3>1, <3>3, <3>5, <4>1
      <4>2. CASE i \in 1..n /\ j \notin 1..n
        <5>1. w[j] = IdAt(p, b, j - n) /\ IsLive(p, b, j - n)
          BY <3>1, <3>4, <4>2
        <5>2. w[i] = IdAt(p, a, i) /\ IsLive(p, a, i)
          BY <3>1, <4>2
        <5>3. IdAt(p, a, i) # IdAt(p, b, j - n)
          BY ONLY <3>3, <5>1, <5>2
        <5> QED BY ONLY <3>5, <5>1, <5>2, <5>3
      <4>3. CASE i \notin 1..n /\ j \in 1..n
        <5>1. w[i] = IdAt(p, b, i - n) /\ IsLive(p, b, i - n)
          BY <3>1, <3>4, <4>3
        <5>2. w[j] = IdAt(p, a, j) /\ IsLive(p, a, j)
          BY <3>1, <4>3
        <5>3. IdAt(p, a, j) # IdAt(p, b, i - n)
          BY ONLY <3>3, <5>1, <5>2
        <5> QED BY ONLY <3>5, <5>1, <5>2, <5>3
      <4>4. CASE i \notin 1..n /\ j \notin 1..n
        <5>1. /\ w[i] = IdAt(p, b, i - n) /\ IsLive(p, b, i - n)
              /\ w[j] = IdAt(p, b, j - n) /\ IsLive(p, b, j - n)
          BY <3>1, <3>4, <4>4
        <5>2. i - n = j - n
          BY <3>3, <3>5, <5>1
        <5> QED BY <3>4, <4>4, <5>2
      <4> QED BY <4>1, <4>2, <4>3, <4>4
    <3> QED BY <3>5 DEF IsInjective, w
  <2>3. ASSUME NEW p \in Ports, NEW q \in Ports, p # q,
               NEW x \in ToSet(Owned(p)) \cap ToSet(Owned(q))
        PROVE  FALSE
    <3>1. \E a, k : IsLive(p, a, k) /\ IdAt(p, a, k) = x
      BY OwnedIds
    <3>2. \E a, k : IsLive(q, a, k) /\ IdAt(q, a, k) = x
      BY OwnedIds
    <3> QED BY <2>0, <2>3, <3>1, <3>2 DEF CellsInv
  <2> QED BY <2>1, <2>2, <2>3 DEF PayloadsOwnedOnce
<1> QED BY Invariance, <1>1, PTL

LEMMA InitIsQueue == Init => Queue!Init
BY EventPortsAssumption DEF Init, Queue!Init

LEMMA StepIsQueue == IInv /\ [Next]_vars => [Queue!Next]_(Queue!vars)
<1> SUFFICES ASSUME IInv, [Next]_vars
             PROVE  Queue!Next \/ UNCHANGED Queue!vars
  OBVIOUS
<1>0. ArrayType /\ CycleType /\ HistoryType /\ InputInv /\ LockInv /\ InPorts \subseteq Ports
  BY EventPortsAssumption DEF IInv, TypeOK
<1>f. ASSUME UNCHANGED <<pushed, delivered>> PROVE UNCHANGED Queue!vars
  BY <1>f DEF Queue!vars
<1>1. CASE PushAppend
  <2>1. push.port \in InPorts /\ push.id \in 1..MaxEvents
    BY <1>0, <1>1, EventPortsAssumption DEF PushAppend, LockInv, CycleType
  <2>2. pushed' = [pushed EXCEPT ![push.port] = Append(@, push.id)] /\ delivered' = delivered
    BY <1>1 DEF PushAppend
  <2>3. PICK q \in InPorts : q = push.port
    BY <2>1
  <2>4. PICK e \in 1..MaxEvents : e = push.id
    BY <2>1
  <2>5. [p \in InPorts |-> pushed'[p]]
          = [[p \in InPorts |-> pushed[p]] EXCEPT ![q] = Append(@, e)]
    BY <1>0, <2>2, <2>3, <2>4 DEF HistoryType
  <2>6. Queue!Push(q, e)
    BY <2>2, <2>5 DEF Queue!Push
  <2> QED BY <2>6 DEF Queue!Next
<1>2. ASSUME NEW q \in Ports, StagePort(q) PROVE Queue!Next \/ UNCHANGED Queue!vars
  <2>1. pushed' = pushed
    BY <1>2, StagingFacts DEF Staging
  <2>2. CASE StagePushed(q)
    <3>1. /\ q \in InPorts /\ n_pending_events[q] > 0
          /\ delivered' = [delivered EXCEPT ![q] = @ \o Staged(q)]
      BY <2>2 DEF StagePushed, PushWaits
    <3>2. Staged(q) \in Seq(Nat) /\ Len(Staged(q)) = n_pending_events[q]
      BY <1>0, StagedEntries
    <3>3. delivered[q] \in Seq(Nat) /\ delivered[q] \o Staged(q) = pushed[q]
      BY <1>0, <3>1 DEF HistoryType, InputInv
    <3>4. delivered[q] # pushed[q]
      <4>1. Staged(q) # <<>>
        BY <3>1, <3>2, EmptySeq
      <4> QED BY <3>2, <3>3, <4>1, ConcatEqualIffEmpty
    <3>5. [p \in InPorts |-> delivered'[p]]
            = [[p \in InPorts |-> delivered[p]] EXCEPT ![q] = pushed[q]]
      BY <1>0, <3>1, <3>3 DEF HistoryType
    <3>6. Queue!Deliver(q)
      BY <2>1, <3>1, <3>4, <3>5 DEF Queue!Deliver
    <3> QED BY <3>1, <3>6 DEF Queue!Next
  <2>3. CASE (\E b \in Buffers : StageSequence(q, b)) \/ StageNothing(q) \/ StageOutput(q)
    <3>1. delivered' = delivered
      BY <2>3 DEF StageSequence, StageNothing, StageOutput
    <3> QED BY <1>f, <2>1, <3>1
  <2> QED BY <1>2, <2>2, <2>3 DEF StagePort
<1>3. CASE CycleBegin \/ StageEnd \/ CycleEnd \/ PushNoMemory \/ UNCHANGED vars
  BY <1>3, <1>f DEF CycleBegin, StageEnd, CycleEnd, InCallback, PushNoMemory, vars, historyVars
<1>4. ASSUME NEW c \in Callers, NEW q \in InPorts, PushLock(c, q) PROVE UNCHANGED Queue!vars
  BY <1>4, <1>f DEF PushLock, historyVars
<1>5. ASSUME NEW q \in Ports \ InPorts, NEW size \in Sizes, PushOutput(q, size)
      PROVE  UNCHANGED Queue!vars
  BY <1>5, <1>f DEF PushOutput, InCallback
<1>6. ASSUME NEW q \in Ports, NEW b \in Buffers, GraphFill(q, b) PROVE UNCHANGED Queue!vars
  BY <1>6, <1>f DEF GraphFill, historyVars
<1>7. ASSUME NEW on \in BOOLEAN, SetActive(on) PROVE UNCHANGED Queue!vars
  BY <1>7, <1>f DEF SetActive, historyVars
<1>8. CASE PushCall \/ PushOutputNoMemory
  BY <1>8, <1>f DEF PushCall, PushOutputNoMemory, historyVars
<1> QED BY <1>1, <1>2, <1>3, <1>4, <1>5, <1>6, <1>7, <1>8 DEF Next, CycleStep, PushStep

\* The pending and delivering arrays of every input event port implement the
\* queue of EventQueue: events reach the callback in push order, once, and all
\* that wait reach it together, for any number of ports, threads and events.
THEOREM ArraysRefineQueue == Spec => EventsAreAQueue
<1>1. Init /\ [][Next]_vars /\ []IInv => Queue!Spec
  BY InitIsQueue, StepIsQueue, PTL DEF Queue!Spec
<1> QED BY <1>1, Invariance, PTL DEF Spec, EventsAreAQueue

----------------------------------------------------------------------------
(* Room in the output buffer *)

\* What a sequence of events takes, for the two shapes a first push needs.
LEMMA SizeOfNone ==
  ASSUME NEW s, DOMAIN s = {}
  PROVE  EncodedSize(s) = Sequence0
<1> DEFINE h == CHOOSE h : h = [t \in SUBSET (DOMAIN s) |->
         IF t = {} THEN 0 ELSE h[t \ {Max(t)}] + s[Max(t)].size]
           g == [t \in SUBSET (DOMAIN s) |-> 0]
<1>1. EncodedSize(s) = Sequence0 + h[DOMAIN s]
  BY DEF EncodedSize, FoldLeft, MapThenFoldSet
<1>2. g = [t \in SUBSET (DOMAIN s) |->
         IF t = {} THEN 0 ELSE g[t \ {Max(t)}] + s[Max(t)].size]
  <2>1. \A t \in SUBSET (DOMAIN s) : t = {}
    OBVIOUS
  <2> QED BY <2>1
<1> HIDE DEF g
<1>3. h = [t \in SUBSET (DOMAIN s) |->
         IF t = {} THEN 0 ELSE h[t \ {Max(t)}] + s[Max(t)].size]
  BY <1>2
<1> HIDE DEF h
<1>4. h[{}] = 0
  BY <1>3
<1> QED BY <1>1, <1>4, SizesAssumption

LEMMA SizeOfOne ==
  ASSUME NEW s, DOMAIN s = {1}, s[1].size \in Nat
  PROVE  EncodedSize(s) = Sequence0 + s[1].size
<1> DEFINE h == CHOOSE h : h = [t \in SUBSET (DOMAIN s) |->
         IF t = {} THEN 0 ELSE h[t \ {Max(t)}] + s[Max(t)].size]
           g == [t \in SUBSET (DOMAIN s) |-> IF t = {} THEN 0 ELSE s[1].size]
<1>1. EncodedSize(s) = Sequence0 + h[DOMAIN s]
  BY DEF EncodedSize, FoldLeft, MapThenFoldSet
<1>m. Max({1}) = 1
  BY DEF Max
<1>2. g = [t \in SUBSET (DOMAIN s) |->
         IF t = {} THEN 0 ELSE g[t \ {Max(t)}] + s[Max(t)].size]
  <2>1. \A t \in SUBSET (DOMAIN s) : t = {} \/ t = {1}
    OBVIOUS
  <2>2. g[{}] = 0 /\ g[{1}] = s[1].size /\ {1} \ {1} = {}
    OBVIOUS
  <2>3. ASSUME NEW t \in SUBSET (DOMAIN s)
        PROVE  g[t] = IF t = {} THEN 0 ELSE g[t \ {Max(t)}] + s[Max(t)].size
    <3> HIDE DEF g
    <3> QED BY <1>m, <2>1, <2>2
  <2> QED BY <2>3
<1> HIDE DEF g
<1>3. h = [t \in SUBSET (DOMAIN s) |->
         IF t = {} THEN 0 ELSE h[t \ {Max(t)}] + s[Max(t)].size]
  BY <1>2
<1> HIDE DEF h
<1>4. h[{}] = 0
  BY <1>3
<1>5. h[{1}] = h[{}] + s[1].size
  <2>1. {1} \ {1} = {} /\ {1} # {}
    OBVIOUS
  <2> QED BY <1>3, <1>m, <2>1
<1> QED BY <1>1, <1>4, <1>5, SizesAssumption

\* The live entries themselves, as PendingSame and PendingAppended have it of
\* their ids.
LEMMA LiveSeq ==
  ASSUME NEW s \in Seq(Entry), NEW n \in Nat, n <= Len(s)
  PROVE  /\ SubSeq(s, 1, n) \in Seq(Entry) /\ Len(SubSeq(s, 1, n)) = n
         /\ \A k \in 1..n : SubSeq(s, 1, n)[k] = s[k]
<1>1. \A i \in 1..n : s[i] \in Entry
  BY ElementOfSeq, LenProperties
<1>2. /\ SubSeq(s, 1, n) \in Seq(Entry)
      /\ Len(SubSeq(s, 1, n)) = IF 1 <= n THEN n - 1 + 1 ELSE 0
      /\ \A i \in 1..n - 1 + 1 : SubSeq(s, 1, n)[i] = s[1 + i - 1]
  BY ONLY <1>1, n \in Nat, SubSeqProperties
<1> QED BY <1>2

LEMMA LiveSame ==
  ASSUME ArrayType, ArrayType', NEW p \in Ports,
         pending_events'[p] = pending_events[p],
         n_pending_events'[p] = n_pending_events[p],
         \A k \in 1..n_pending_events[p] :
           array'[p][pending_events[p]][k] = array[p][pending_events[p]][k]
  PROVE  Pending(p)' = Pending(p)
<1> DEFINE s == array[p][pending_events[p]]
           t == array'[p][pending_events[p]]
           n == n_pending_events[p]
<1>1. s \in Seq(Entry) /\ n \in Nat /\ n <= Len(s)
  BY DEF ArrayType
<1>2. t \in Seq(Entry) /\ n <= Len(t)
  BY DEF ArrayType
<1>3. Pending(p) = SubSeq(s, 1, n) /\ Pending(p)' = SubSeq(t, 1, n)
  BY DEF Pending, Live
<1>4. \A k \in 1..n : t[k] = s[k]
  OBVIOUS
<1> HIDE DEF s, t, n
<1>5. /\ SubSeq(s, 1, n) \in Seq(Entry) /\ Len(SubSeq(s, 1, n)) = n
      /\ \A k \in 1..n : SubSeq(s, 1, n)[k] = s[k]
  BY ONLY <1>1, LiveSeq
<1>6. /\ SubSeq(t, 1, n) \in Seq(Entry) /\ Len(SubSeq(t, 1, n)) = n
      /\ \A k \in 1..n : SubSeq(t, 1, n)[k] = t[k]
  BY ONLY <1>1, <1>2, LiveSeq
<1>7. SubSeq(t, 1, n) = SubSeq(s, 1, n)
  BY <1>4, <1>5, <1>6, SeqEqual
<1> QED BY <1>3, <1>7

LEMMA LiveAppended ==
  ASSUME ArrayType, ArrayType', NEW p \in Ports, NEW e \in Entry,
         array' = Appended(p, e), UNCHANGED pending_events,
         n_pending_events' = [n_pending_events EXCEPT ![p] = @ + 1]
  PROVE  Pending(p)' = Append(Pending(p), e)
<1> DEFINE s == array[p][pending_events[p]]
           t == array'[p][pending_events[p]]
           n == n_pending_events[p]
<1>1. s \in Seq(Entry) /\ n \in Nat /\ n <= Len(s)
  BY DEF ArrayType
<1>2. n_pending_events'[p] = n + 1
  BY DEF ArrayType
<1>3. t \in Seq(Entry) /\ n + 1 <= Len(t)
  BY <1>2, SMTT(30) DEF ArrayType
<1>4. Pending(p) = SubSeq(s, 1, n) /\ Pending(p)' = SubSeq(t, 1, n + 1)
  BY <1>2 DEF Pending, Live
<1>5. t[n + 1] = e /\ \A k \in 1..n : t[k] = s[k]
  BY AppendEntry
<1> HIDE DEF s, t, n
<1> DEFINE u == SubSeq(s, 1, n)
           v == SubSeq(t, 1, n + 1)
<1>6. u \in Seq(Entry) /\ Len(u) = n /\ \A k \in 1..n : u[k] = s[k]
  BY ONLY <1>1, LiveSeq
<1>7. v \in Seq(Entry) /\ Len(v) = n + 1 /\ \A k \in 1..n + 1 : v[k] = t[k]
  <2>1. n + 1 \in Nat
    BY <1>1
  <2> QED BY ONLY <1>3, <2>1, LiveSeq
<1> HIDE DEF u, v
<1>9. /\ Append(u, e) \in Seq(Entry) /\ Len(Append(u, e)) = n + 1
      /\ Append(u, e)[n + 1] = e /\ \A k \in 1..n : Append(u, e)[k] = u[k]
  BY <1>1, <1>6, AppendProperties
<1>10. \A k \in 1..n + 1 : v[k] = Append(u, e)[k]
  <2> SUFFICES ASSUME NEW k \in 1..n + 1 PROVE v[k] = Append(u, e)[k]
    OBVIOUS
  <2>1. CASE k = n + 1
    BY <1>5, <1>7, <1>9, <2>1
  <2>2. CASE k # n + 1
    <3>1. k \in 1..n
      BY <1>1, <2>2
    <3> QED BY <1>5, <1>6, <1>7, <1>9, <3>1, ZenonT(40)
  <2> QED BY <2>1, <2>2
<1>11. v = Append(u, e)
  BY <1>7, <1>9, <1>10, SeqEqual
<1> QED BY <1>4, <1>11 DEF u, v

LEMMA NothingPending ==
  ASSUME ArrayType, NEW p \in Ports, n_pending_events[p] = 0
  PROVE  Len(Pending(p)) = 0 /\ Pending(p) \in Seq(Entry)
<1>1. Pending(p) = SubSeq(array[p][pending_events[p]], 1, 0)
  BY DEF Pending, Live
<1>2. array[p][pending_events[p]] \in Seq(Entry)
      /\ 0 <= Len(array[p][pending_events[p]])
  BY DEF ArrayType
<1> QED BY <1>1, <1>2, LiveSeq

\* From its staging to the end of the cycle, an output port measures pushes
\* against the buffer it dequeued, whose size nobody changes meanwhile.
RoomInv(p) ==
  /\ \A b \in ready[p] \cap mapped[p] : maxsize[p][b] \in Capacities
  /\ ~ Before(p) =>
       /\ event_output_capacity[p] =
            IF dequeued[p] = NULL THEN 0 ELSE maxsize[p][dequeued[p]]
       /\ dequeued[p] # NULL =>
            \A s : s = Pending(p) => EncodedSize(s) <= event_output_capacity[p]
  /\ dequeued[p] = NULL => n_pending_events[p] = 0

CapacityInv == \A p \in Ports \ InPorts : RoomInv(p)

\* A step that leaves an output port's buffer and its events alone.
LEMMA RoomKept ==
  ASSUME NEW p \in Ports, RoomInv(p),
         ready'[p] = ready[p], mapped'[p] = mapped[p], maxsize'[p] = maxsize[p],
         dequeued'[p] = dequeued[p],
         event_output_capacity'[p] = event_output_capacity[p],
         n_pending_events'[p] = n_pending_events[p],
         Pending(p)' = Pending(p), Before(p) => Before(p)'
  PROVE  RoomInv(p)'
<1> QED BY DEF RoomInv

LEMMA RoomPushed ==
  ASSUME IInv, CapacityInv, ArrayType', NEW p \in Ports \ InPorts,
         NEW q \in Ports \ InPorts, NEW size \in Sizes, PushOutput(q, size)
  PROVE  RoomInv(p)'
<1> DEFINE e == [id |-> lastId + 1, size |-> size]
<1>0. /\ ArrayType /\ ArrayType' /\ RoomInv(p) /\ size \in Nat \ {0}
      /\ n_pending_events \in [Ports -> Nat]
  BY SizesAssumption DEF IInv, TypeOK, CapacityInv, ArrayType
<1>1. e \in Entry /\ e.size = size
  BY <1>0, EventPortsAssumption DEF IInv, TypeOK, CycleType, Entry
<1>2. /\ cyc = "callback" /\ cyc' = cyc /\ array' = Appended(q, e)
      /\ UNCHANGED <<pending_events, dequeued, event_output_capacity, ready, mapped, maxsize>>
      /\ \/ /\ Fits(q, e)
            /\ n_pending_events' = [n_pending_events EXCEPT ![q] = @ + 1]
         \/ UNCHANGED n_pending_events
  BY DEF PushOutput, InCallback, cycleVars, portVars, poolVars
<1>3. Before(p) = FALSE /\ Before(p)' = FALSE
  BY <1>2 DEF Before
<1> HIDE DEF e
<1>4. CASE n_pending_events'[p] = n_pending_events[p]
  <2>1. \A k \in 1..n_pending_events[p] :
          array'[p][pending_events[p]][k] = array[p][pending_events[p]][k]
    BY <1>0, <1>1, <1>2, AppendEntry
  <2>2. Pending(p)' = Pending(p)
    BY <1>0, <1>2, <1>4, <2>1, LiveSame
  <2> QED BY <1>0, <1>2, <1>3, <1>4, <2>2, RoomKept
<1>5. CASE /\ q = p /\ Fits(p, e)
           /\ n_pending_events' = [n_pending_events EXCEPT ![p] = @ + 1]
  <2>1. Pending(p)' = Append(Pending(p), e)
    BY <1>0, <1>1, <1>2, <1>5, LiveAppended
  <2>3. EncodedSize(Append(Pending(p), e)) <= event_output_capacity[p]
    BY <1>5 DEF Fits
  <2>4. dequeued[p] # NULL
    <3> SUFFICES ASSUME dequeued[p] = NULL PROVE FALSE
      OBVIOUS
    <3>1. n_pending_events[p] = 0 /\ event_output_capacity[p] = 0
      BY <1>0, <1>3 DEF RoomInv
    <3> DEFINE u == Pending(p)
               v == Append(u, e)
    <3>2. u \in Seq(Entry) /\ Len(u) = 0
      BY <1>0, <3>1, NothingPending
    <3> HIDE DEF u
    <3>3. Len(v) = 1 /\ v[1] = e /\ v \in Seq(Entry)
      BY <1>1, <3>2, AppendProperties
    <3>4. DOMAIN v = {1} /\ v[1].size \in Nat /\ v[1].size > 0
      BY <1>0, <1>1, <3>3, LenProperties
    <3>7. EncodedSize(v) <= 0
      BY <2>3, <3>1 DEF u
    <3> HIDE DEF v
    <3>5. EncodedSize(v) = Sequence0 + v[1].size
      BY <3>4, SizeOfOne
    <3> QED BY <3>4, <3>5, <3>7, SizesAssumption
  <2>5. \A s : s = Pending(p)' => EncodedSize(s) <= event_output_capacity[p]
    BY <2>1, <2>3
  <2> QED BY <1>0, <1>2, <1>3, <2>4, <2>5 DEF RoomInv
<1> QED BY <1>0, <1>2, <1>4, <1>5

LEMMA RoomFilled ==
  ASSUME IInv, CapacityInv, NEW p \in Ports \ InPorts, NEW q \in Ports,
         NEW b \in Buffers, GraphFill(q, b)
  PROVE  RoomInv(p)'
<1>0. /\ PoolType /\ RoomInv(p)
      /\ dequeued[p] \notin avail[p] \cup ready[p]
  BY DEF IInv, TypeOK, CapacityInv, EventPoolConserved
<1>1. /\ b \in avail[q]
      /\ ready' = [ready EXCEPT ![q] = @ \cup {b}]
      /\ UNCHANGED <<array, pending_events, n_pending_events, dequeued,
                     event_output_capacity, cyc, next>>
  BY DEF GraphFill, arrayVars, portVars, cycleVars
<1>2. Pending(p)' = Pending(p) /\ (Before(p)' <=> Before(p))
  BY <1>1 DEF Pending, Live, Before
<1>3. CASE q # p
  <2>1. ready'[p] = ready[p]
    BY <1>1, <1>3
  <2>2. mapped'[p] = mapped[p]
    BY <1>0, <1>3 DEF GraphFill, PoolType
  <2>3. maxsize'[p] = maxsize[p]
    BY <1>0, <1>3 DEF GraphFill, PoolType
  <2> QED BY <1>0, <1>1, <1>2, <2>1, <2>2, <2>3, RoomKept
<1>4. CASE q = p
  <2>1. ready'[p] = ready[p] \cup {b} /\ b # dequeued[p]
    BY <1>0, <1>1, <1>4 DEF PoolType
  <2>2. \A d \in Buffers : d # b =>
          maxsize'[p][d] = maxsize[p][d] /\ (d \in mapped'[p] <=> d \in mapped[p])
    <3>1. \/ maxsize' = maxsize
          \/ \E c \in Capacities : maxsize' = [maxsize EXCEPT ![p][b] = c]
      BY <1>4 DEF GraphFill
    <3>2. \/ mapped' = [mapped EXCEPT ![p] = @ \cup {b}]
          \/ mapped' = [mapped EXCEPT ![p] = @ \ {b}]
      BY <1>4 DEF GraphFill
    <3>3. \A d \in Buffers : d # b => maxsize'[p][d] = maxsize[p][d]
      <4>1. CASE maxsize' = maxsize
        BY <4>1
      <4>2. ASSUME NEW c \in Capacities, maxsize' = [maxsize EXCEPT ![p][b] = c]
            PROVE  \A d \in Buffers : d # b => maxsize'[p][d] = maxsize[p][d]
        BY <1>0, <4>2 DEF PoolType
      <4> QED BY <3>1, <4>1, <4>2
    <3>4. \A d \in Buffers : d # b => (d \in mapped'[p] <=> d \in mapped[p])
      <4>0. mapped \in [Ports -> SUBSET Buffers]
        BY <1>0 DEF PoolType
      <4>1. CASE mapped' = [mapped EXCEPT ![p] = @ \cup {b}]
        BY <4>0, <4>1
      <4>2. CASE mapped' = [mapped EXCEPT ![p] = @ \ {b}]
        BY <4>0, <4>2
      <4> QED BY <3>2, <4>1, <4>2
    <3> QED BY <3>3, <3>4
  <2>3. b \in mapped'[p] => maxsize'[p][b] \in Capacities
    <3>1. CASE \E c \in Capacities : maxsize' = [maxsize EXCEPT ![p][b] = c]
      BY <1>0, <3>1 DEF PoolType
    <3>2. CASE mapped' = [mapped EXCEPT ![p] = @ \ {b}]
      BY <1>0, <3>2 DEF PoolType
    <3> QED BY <1>4, <3>1, <3>2 DEF GraphFill
  <2>4. \A d \in ready'[p] \cap mapped'[p] : maxsize'[p][d] \in Capacities
    <3>1. ready[p] \subseteq Buffers
      BY <1>0 DEF PoolType
    <3> QED BY <1>0, <2>1, <2>2, <2>3, <3>1 DEF RoomInv
  <2>5. dequeued[p] # NULL => maxsize'[p][dequeued[p]] = maxsize[p][dequeued[p]]
    BY <1>0, <2>1, <2>2 DEF PoolType
  <2> QED BY <1>0, <1>1, <1>2, <2>4, <2>5 DEF RoomInv
<1> QED BY <1>3, <1>4

LEMMA RoomStaged ==
  ASSUME IInv, CapacityInv, NEW p \in Ports \ InPorts, NEW q \in Ports, StagePort(q),
         ArrayType'
  PROVE  RoomInv(p)'
<1>0. /\ PoolType /\ ArrayType /\ CycleType /\ RoomInv(p) /\ p \in Ports
      /\ n_pending_events[p] = 0 /\ Staging(q) /\ Before(q) /\ cyc = "stage"
      /\ dequeued[q] = NULL
  BY StagingFacts DEF IInv, TypeOK, CapacityInv, ArraysInv
<1>t. /\ n_pending_events \in [Ports -> Nat] /\ pending_events \in [Ports -> Arrays]
      /\ ready \in [Ports -> SUBSET Buffers]
      /\ dequeued \in [Ports -> Buffers \cup {NULL}]
      /\ event_output_capacity \in [Ports -> Capacities \cup {0}]
  BY <1>0 DEF ArrayType, PoolType
<1>1. UNCHANGED <<mapped, maxsize, cyc>> /\ next' = next + 1 /\ q = next
  BY <1>0 DEF Staging
<1>2. CASE q # p
  <2>1. /\ ready'[p] = ready[p] /\ dequeued'[p] = dequeued[p]
        /\ event_output_capacity'[p] = event_output_capacity[p]
        /\ n_pending_events'[p] = n_pending_events[p]
        /\ array'[p] = array[p] /\ pending_events'[p] = pending_events[p]
    <3>1. CASE StagePushed(q)
      BY <1>2, <1>t, <3>1 DEF StagePushed
    <3>2. ASSUME NEW b \in Buffers, StageSequence(q, b)
          PROVE  /\ ready'[p] = ready[p] /\ dequeued'[p] = dequeued[p]
                 /\ event_output_capacity'[p] = event_output_capacity[p]
                 /\ n_pending_events'[p] = n_pending_events[p]
                 /\ array'[p] = array[p] /\ pending_events'[p] = pending_events[p]
      BY <1>2, <1>t, <3>2 DEF StageSequence, arrayVars
    <3>3. CASE StageNothing(q)
      BY <1>2, <1>t, <3>3 DEF StageNothing, Forgets, arrayVars
    <3>4. CASE StageOutput(q)
      BY <1>2, <1>t, <3>4 DEF StageOutput, Forgets
    <3> QED BY <1>0, <3>1, <3>2, <3>3, <3>4 DEF StagePort
  <2>2. Pending(p)' = Pending(p)
    BY <2>1 DEF Pending, Live
  <2>3. Before(p) => Before(p)'
    BY <1>0, <1>1, <1>2 DEF Before, CycleType
  <2> QED BY <1>0, <1>1, <2>1, <2>2, <2>3, RoomKept
<1>3. CASE q = p
  <2>1. StageOutput(p)
    BY <1>3 DEF StagePort, StagePushed, StageSequence, StageNothing
  <2>2. n_pending_events'[p] = 0
    BY <1>t, <2>1 DEF StageOutput
  <2>3. \A s : s = Pending(p)' => EncodedSize(s) = Sequence0
    <3>1. Len(Pending(p)') = 0 /\ Pending(p)' \in Seq(Entry)
      <4>1. Pending(p)' = SubSeq(array'[p][pending_events'[p]], 1, 0)
        BY <2>2 DEF Pending, Live
      <4>2. /\ array'[p][pending_events'[p]] \in Seq(Entry)
            /\ 0 <= Len(array'[p][pending_events'[p]])
        BY <2>2 DEF ArrayType
      <4> QED BY <4>1, <4>2, LiveSeq
    <3>2. DOMAIN (Pending(p)') = {}
      BY <3>1, LenProperties
    <3> QED BY <3>2, SizeOfNone
  <2>4. ready'[p] \subseteq ready[p]
    <3>1. \/ ready' = ready
          \/ \E b \in Buffers : ready' = [ready EXCEPT ![p] = @ \ {b}]
      <4>1. ASSUME NEW b, Forgets(p, b) PROVE ready' = [ready EXCEPT ![p] = @ \ {b}]
        BY <4>1 DEF Forgets
      <4>2. ready[p] \subseteq Buffers
        BY <1>0, <1>t
      <4> QED BY <2>1, <4>1, <4>2 DEF StageOutput
    <3>2. ASSUME NEW b \in Buffers, ready' = [ready EXCEPT ![p] = @ \ {b}]
          PROVE  ready'[p] \subseteq ready[p]
      BY <1>0, <1>t, <3>2
    <3> QED BY <3>1, <3>2
  <2>5. CASE \E b \in ready[p] \cap mapped[p] :
               /\ dequeued' = [dequeued EXCEPT ![p] = b]
               /\ event_output_capacity' = [event_output_capacity EXCEPT ![p] = maxsize[p][b]]
    <3>1. PICK b \in ready[p] \cap mapped[p] :
               /\ dequeued' = [dequeued EXCEPT ![p] = b]
               /\ event_output_capacity' = [event_output_capacity EXCEPT ![p] = maxsize[p][b]]
      BY <2>5
    <3>2. dequeued'[p] = b /\ event_output_capacity'[p] = maxsize[p][b] /\ b # NULL
      BY <1>t, <3>1, EventPortsAssumption
    <3>3. maxsize[p][b] \in Capacities
      BY <1>0, <3>1 DEF RoomInv
    <3>4. Sequence0 <= maxsize[p][b]
      BY <3>3, SizesAssumption
    <3> QED BY <1>0, <1>1, <2>2, <2>3, <2>4, <3>2, <3>4 DEF RoomInv
  <2>6. CASE dequeued' = dequeued
             /\ event_output_capacity' = [event_output_capacity EXCEPT ![p] = 0]
    <3>1. dequeued'[p] = NULL /\ event_output_capacity'[p] = 0
      BY <1>0, <1>3, <1>t, <2>6
    <3> QED BY <1>0, <1>1, <2>2, <2>4, <3>1 DEF RoomInv
  <2> QED BY <2>1, <2>5, <2>6 DEF StageOutput
<1> QED BY <1>2, <1>3

LEMMA CapacityStep == IInv /\ CapacityInv /\ [Next]_vars => CapacityInv'
<1> SUFFICES ASSUME IInv, CapacityInv, [Next]_vars, NEW p \in Ports \ InPorts
             PROVE  RoomInv(p)'
  BY DEF CapacityInv
<1>0. /\ ArrayType /\ CycleType /\ LockInv /\ RoomInv(p) /\ p \in Ports
  BY DEF IInv, TypeOK, CapacityInv
<1>a. ArrayType'
  BY ArrayTypeStep
<1>f. ASSUME UNCHANGED <<array, pending_events, n_pending_events, portVars, poolVars>>,
             Before(p) => Before(p)'
      PROVE  RoomInv(p)'
  <2>1. Pending(p)' = Pending(p)
    BY <1>f DEF Pending, Live
  <2> QED BY <1>0, <1>f, <2>1, RoomKept DEF portVars, poolVars
<1>1. ASSUME NEW c \in Callers, NEW q \in InPorts, PushLock(c, q) PROVE RoomInv(p)'
  BY <1>1, <1>f DEF PushLock, arrayVars, cycleVars, Before
<1>2. CASE PushNoMemory
  BY <1>2, <1>f DEF PushNoMemory, arrayVars, cycleVars, Before
<1>3. CASE PushAppend
  <2> DEFINE e == [id |-> push.id, size |-> 0]
  <2>1. push.port \in Ports /\ push.port # p /\ push.id \in Nat
    BY <1>0, <1>3 DEF PushAppend, LockInv, CycleType
  <2>2. e \in Entry
    BY <2>1 DEF Entry
  <2>3. /\ array' = Appended(push.port, e)
        /\ n_pending_events' = [n_pending_events EXCEPT ![push.port] = @ + 1]
        /\ UNCHANGED <<pending_events, cyc, next, portVars, poolVars>>
    BY <1>3 DEF PushAppend, cycleVars
  <2> HIDE DEF e
  <2>4. array'[p] = array[p]
    BY <1>0, <2>1, <2>2, <2>3, AppendEntry, ZenonT(40)
  <2>5. n_pending_events'[p] = n_pending_events[p]
    BY <1>0, <2>1, <2>3 DEF ArrayType
  <2>6. Pending(p)' = Pending(p) /\ (Before(p) => Before(p)')
    BY <2>3, <2>4, <2>5 DEF Pending, Live, Before
  <2> QED BY <1>0, <2>3, <2>5, <2>6, RoomKept DEF portVars, poolVars
<1>4. ASSUME NEW q \in Ports \ InPorts, NEW size \in Sizes, PushOutput(q, size)
      PROVE  RoomInv(p)'
  BY <1>a, <1>4, RoomPushed
<1>5. ASSUME NEW q \in Ports, NEW b \in Buffers, GraphFill(q, b) PROVE RoomInv(p)'
  BY <1>5, RoomFilled
<1>6. CASE CycleBegin
  <2>1. Before(p)'
    BY <1>0, <1>6 DEF CycleBegin, Before
  <2> QED BY <1>6, <1>f, <2>1 DEF CycleBegin, arrayVars
<1>7. ASSUME NEW q \in Ports, StagePort(q) PROVE RoomInv(p)'
  BY <1>7, <1>a, RoomStaged
<1>8. CASE StageEnd
  <2>1. ~ Before(p)
    BY <1>0, <1>8, EventPortsAssumption DEF StageEnd, Before
  <2> QED BY <1>8, <1>f, <2>1 DEF StageEnd, arrayVars
<1>9. CASE CycleEnd
  <2>1. /\ Before(p)' /\ n_pending_events'[p] = 0
        /\ UNCHANGED <<ready, mapped, maxsize>>
    BY <1>0, <1>9 DEF CycleEnd, InCallback, Before
  <2> QED BY <1>0, <2>1 DEF RoomInv
<1>10. ASSUME NEW on \in BOOLEAN, SetActive(on) PROVE RoomInv(p)'
  BY <1>10, <1>f DEF SetActive, arrayVars, cycleVars, Before
<1>11. CASE UNCHANGED vars
  BY <1>11, <1>f DEF vars, arrayVars, cycleVars, Before
<1>12. CASE PushCall \/ PushOutputNoMemory
  BY <1>12, <1>f DEF PushCall, PushOutputNoMemory, arrayVars, cycleVars, Before
<1> QED BY <1>1, <1>2, <1>3, <1>4, <1>5, <1>6, <1>7, <1>8, <1>9, <1>10, <1>11, <1>12
        DEF Next, PushStep, CycleStep

LEMMA CapacityInit == Init => CapacityInv
BY DEF Init, CapacityInv, RoomInv, Before

\* What a push was told is accepted fits the buffer of its cycle, and nothing
\* is accepted without one, for any sizes, capacities and number of events.
THEOREM AcceptedHasRoom == Spec => []AcceptedFits
<1>1. IInv /\ CapacityInv => AcceptedFits
  <2> SUFFICES ASSUME IInv, CapacityInv, cyc = "callback", NEW p \in Ports \ InPorts
               PROVE  /\ Ids(Pending(p)) = accepted[p]
                      /\ dequeued[p] # NULL =>
                           EncodedSize(Pending(p)) <= maxsize[p][dequeued[p]]
                      /\ dequeued[p] = NULL => accepted[p] = <<>>
    BY DEF AcceptedFits
  <2>1. RoomInv(p) /\ ~ Before(p) /\ Staged(p) = accepted[p]
    BY DEF CapacityInv, Before, IInv, OutputInv, Staged
  <2>2. dequeued[p] = NULL => accepted[p] = <<>>
    BY <2>1, NothingStaged DEF RoomInv
  <2> QED BY <2>1, <2>2 DEF RoomInv, Staged
<1> QED BY <1>1, CapacityInit, CapacityStep, Invariance, PTL DEF Spec

----------------------------------------------------------------------------
(* Decoding a sequence of the graph, by induction over its controls *)

LEMMA NatMin ==
  ASSUME NEW T \in SUBSET Nat, T # {}
  PROVE  \E x \in T : \A y \in T : x <= y
<1> DEFINE R == OpToRel(<, Nat)
<1>1. IsWellFoundedOn(R, Nat)
  BY NatLessThanWellFounded
<1> HIDE DEF R
<1>2. PICK x \in T : \A y \in T : ~ (<<y, x>> \in R)
  BY <1>1, WFMin
<1>3. \A y \in T : ~ (y < x)
  BY <1>2 DEF R, OpToRel
<1> QED BY <1>3

LEMMA SetInduction ==
  ASSUME NEW S, 0 \in S, \A n \in Nat : n \in S => n + 1 \in S
  PROVE  \A n \in Nat : n \in S
<1> SUFFICES ASSUME Nat \ S # {} PROVE FALSE
  OBVIOUS
<1>1. PICK x \in Nat \ S : \A y \in Nat \ S : x <= y
  BY NatMin
<1>2. x # 0 /\ x - 1 \in Nat
  BY <1>1
<1>3. x - 1 \in S
  BY <1>1, <1>2
<1>4. x = (x - 1) + 1
  BY <1>1
<1> QED BY <1>1, <1>2, <1>3, <1>4

LEMMA MaxIs ==
  ASSUME NEW n \in Nat, NEW t \in SUBSET (1..n), NEW m \in t, \A x \in t : x <= m
  PROVE  Max(t) = m
<1>1. \A k \in t : (\A y \in t : k >= y) => k = m
  OBVIOUS
<1> QED BY <1>1 DEF Max

IsFold(h, s, m) ==
  h = [t \in SUBSET (1..m) |->
         IF t = {} THEN <<>> ELSE Decoded(h[t \ {Max(t)}], s[Max(t)])]

LEMMA FoldExists ==
  ASSUME NEW s
  PROVE  \A m \in Nat : \E h : IsFold(h, s, m)
<1> DEFINE S == {m \in Nat : \E h : IsFold(h, s, m)}
<1>1. 0 \in S
  <2> DEFINE h == [t \in SUBSET (1..0) |-> <<>>]
  <2>1. IsFold(h, s, 0)
    <3>1. SUBSET (1..0) = {{}}
      OBVIOUS
    <3> QED BY <3>1 DEF IsFold
  <2> QED BY <2>1
<1>2. ASSUME NEW m \in Nat, m \in S PROVE m + 1 \in S
  <2>1. PICK h : IsFold(h, s, m)
    BY <1>2
  <2> DEFINE g == [t \in SUBSET (1..(m + 1)) |->
                     IF m + 1 \in t THEN Decoded(h[t \ {m + 1}], s[m + 1]) ELSE h[t]]
  <2> DEFINE e(t) == IF t = {} THEN <<>> ELSE Decoded(g[t \ {Max(t)}], s[Max(t)])
  <2>2. ASSUME NEW t \in SUBSET (1..(m + 1)) PROVE g[t] = e(t)
    <3>1. CASE m + 1 \in t
      <4>1. Max(t) = m + 1
        BY <3>1, MaxIs
      <4>2. t \ {m + 1} \in SUBSET (1..(m + 1)) /\ m + 1 \notin t \ {m + 1}
        OBVIOUS
      <4>3. g[t \ {m + 1}] = h[t \ {m + 1}]
        BY <4>2
      <4>4. g[t] = Decoded(h[t \ {m + 1}], s[m + 1])
        BY <3>1
      <4> HIDE DEF g
      <4> QED BY <3>1, <4>1, <4>3, <4>4
    <3>2. CASE m + 1 \notin t
      <4>1. t \in SUBSET (1..m)
        BY <3>2
      <4>2. g[t] = h[t]
        BY <3>2
      <4>3. h[t] = IF t = {} THEN <<>> ELSE Decoded(h[t \ {Max(t)}], s[Max(t)])
        BY <2>1, <4>1 DEF IsFold
      <4>4. m + 1 \notin t \ {Max(t)} /\ t \ {Max(t)} \in SUBSET (1..(m + 1))
        BY <3>2
      <4>5. g[t \ {Max(t)}] = h[t \ {Max(t)}]
        BY <4>4
      <4> HIDE DEF g
      <4> QED BY <4>2, <4>3, <4>5
    <3> QED BY <3>1, <3>2
  <2>3. g = [t \in SUBSET (1..(m + 1)) |-> e(t)]
    <3> HIDE DEF e
    <3> QED BY <2>2
  <2>4. IsFold(g, s, m + 1)
    <3> HIDE DEF g
    <3> QED BY <2>3 DEF IsFold
  <2> QED BY <2>4
<1> HIDE DEF S
<1>3. \A m \in Nat : m \in S
  BY <1>1, <1>2, SetInduction
<1> QED BY <1>3 DEF S

LEMMA FoldIs ==
  ASSUME NEW s \in Seq(Controls)
  PROVE  \E h : IsFold(h, s, Len(s)) /\ Decode(s) = h[1..Len(s)]
<1>1. DOMAIN s = 1..Len(s) /\ Len(s) \in Nat
  OBVIOUS
<1> DEFINE h == CHOOSE h : h = [t \in SUBSET (DOMAIN s) |->
         IF t = {} THEN <<>> ELSE Decoded(h[t \ {Max(t)}], s[Max(t)])]
<1>2. Decode(s) = h[DOMAIN s]
  BY DEF Decode, FoldLeft, MapThenFoldSet
<1>3. PICK g : IsFold(g, s, Len(s))
  BY <1>1, FoldExists
<1>4. IsFold(h, s, Len(s))
  BY <1>1, <1>3 DEF IsFold
<1> QED BY <1>1, <1>2, <1>4

\* Decoding makes events of controls, and of nothing else.
LEMMA DecodeIs ==
  ASSUME NEW s \in Seq(Controls)
  PROVE  Decode(s) \in Seq(Controls)
<1>1. Len(s) \in Nat /\ DOMAIN s = 1..Len(s)
  BY LenProperties
<1>2. PICK h : IsFold(h, s, Len(s)) /\ Decode(s) = h[1..Len(s)]
  BY FoldIs
<1> DEFINE S == {m \in Nat : m <= Len(s) => h[1..m] \in Seq(Controls)}
<1>3. 0 \in S
  <2>1. h[1..0] = <<>>
    BY <1>1, <1>2 DEF IsFold
  <2> QED BY <2>1, EmptySeq
<1>4. ASSUME NEW m \in Nat, m \in S PROVE m + 1 \in S
  <2> SUFFICES ASSUME m + 1 <= Len(s) PROVE h[1..(m + 1)] \in Seq(Controls)
    OBVIOUS
  <2>1. h[1..m] \in Seq(Controls)
    BY <1>1, <1>4
  <2>2. s[m + 1] \in Controls
    <3>1. m + 1 \in 1..Len(s)
      BY <1>1
    <3> QED BY ONLY <3>1, s \in Seq(Controls), ElementOfSeq
  <2>3. h[1..(m + 1)] = Decoded(h[1..m], s[m + 1])
    <3> DEFINE t == 1..(m + 1)
    <3>1. t \in SUBSET (1..Len(s)) /\ t # {} /\ m + 1 \in t
      <4> DEFINE n == Len(s)
      <4>1. n \in Nat /\ m \in Nat /\ m + 1 <= n
        BY <1>1
      <4> HIDE DEF n
      <4>2. t \in SUBSET (1..n)
        BY ONLY <4>1
      <4>3. m + 1 \in t
        BY ONLY <4>1
      <4> HIDE DEF t
      <4> QED BY <4>2, <4>3 DEF n
    <3>2. Max(t) = m + 1 /\ t \ {m + 1} = 1..m
      <4>1. m + 1 \in Nat /\ t \in SUBSET (1..(m + 1)) /\ \A x \in t : x <= m + 1
        BY ONLY m \in Nat
      <4>2. t \ {m + 1} = 1..m
        BY ONLY m \in Nat
      <4> HIDE DEF t
      <4>3. Max(t) = m + 1
        BY ONLY <3>1, <4>1, MaxIs
      <4> QED BY <4>2, <4>3
    <3>3. h[t] = IF t = {} THEN <<>> ELSE Decoded(h[t \ {Max(t)}], s[Max(t)])
      BY <3>1, <1>2 DEF IsFold
    <3> QED BY <3>1, <3>2, <3>3
  <2> HIDE DEF S
  <2>4. Append(h[1..m], s[m + 1]) \in Seq(Controls)
    BY ONLY <2>1, <2>2, AppendProperties
  <2> QED BY <2>1, <2>3, <2>4 DEF Decoded
<1>5. \A m \in Nat : m \in S
  <2> HIDE DEF S
  <2> QED BY <1>3, <1>4, SetInduction
<1> QED BY <1>1, <1>2, <1>5

----------------------------------------------------------------------------
(* What the callback reads *)

\* The graph's buffers hold controls.  After its staging an input port presents
\* nothing, or what it decoded from the buffer it dequeued, or the entries of
\* the delivering array, one by one.
ReadInv(p) ==
  /\ \A b \in Buffers : content[p][b] \in Seq(Controls)
  /\ Before(p)
     \/ incoming_events[p] = <<>>
     \/ (dequeued[p] # NULL /\ incoming_events[p] \in Seq(Controls))
     \/ /\ Len(incoming_events[p]) = n_delivering_events[p]
        /\ \A k \in 1..n_delivering_events[p] :
             incoming_events[p][k] = IdAt(p, delivering_events[p], k)

IncomingInv ==
  /\ incoming_events \in [Ports -> Contents]
  /\ \A p \in InPorts : ReadInv(p)

\* A step that leaves alone what an input port presents, and where it is.
LEMMA ReadKept ==
  ASSUME NEW p \in Ports, ReadInv(p),
         content'[p] = content[p], incoming_events'[p] = incoming_events[p],
         dequeued'[p] = dequeued[p],
         n_delivering_events'[p] = n_delivering_events[p],
         delivering_events'[p] = delivering_events[p],
         array'[p][delivering_events[p]] = array[p][delivering_events[p]],
         Before(p) => Before(p)'
  PROVE  ReadInv(p)'
BY DEF ReadInv, IdAt

LEMMA ReadStaged ==
  ASSUME IInv, IncomingInv, NEW p \in InPorts, NEW q \in Ports, StagePort(q)
  PROVE  ReadInv(p)'
<1>0. /\ PoolType /\ ArrayType /\ CycleType /\ ReadInv(p) /\ p \in Ports
      /\ Staging(q) /\ Before(q) /\ cyc = "stage"
  BY StagingFacts, EventPortsAssumption DEF IInv, TypeOK, IncomingInv
<1>t. /\ n_delivering_events \in [Ports -> Nat]
      /\ delivering_events \in [Ports -> Arrays]
      /\ dequeued \in [Ports -> Buffers \cup {NULL}]
      /\ incoming_events \in [Ports -> Contents]
  BY <1>0 DEF ArrayType, PoolType, IncomingInv
<1>1. UNCHANGED <<content, cyc>> /\ next' = next + 1 /\ q = next
  BY <1>0 DEF Staging
<1>d. \/ incoming_events' = incoming_events
      \/ \E s : incoming_events' = [incoming_events EXCEPT ![q] = s]
  BY DEF StagePort, StagePushed, StageSequence, StageNothing, StageOutput
<1>2. CASE q # p
  <2>0. incoming_events'[p] = incoming_events[p]
    <3>1. ASSUME NEW s, incoming_events' = [incoming_events EXCEPT ![q] = s]
          PROVE  incoming_events'[p] = incoming_events[p]
      BY <1>0, <1>2, <1>t, <3>1
    <3> QED BY <1>d, <3>1
  <2>1. /\ dequeued'[p] = dequeued[p]
        /\ n_delivering_events'[p] = n_delivering_events[p]
        /\ array'[p] = array[p] /\ delivering_events'[p] = delivering_events[p]
    <3>1. CASE StagePushed(q)
      BY <1>2, <1>t, <3>1 DEF StagePushed
    <3>2. ASSUME NEW b \in Buffers, StageSequence(q, b)
          PROVE  /\ dequeued'[p] = dequeued[p]
                 /\ n_delivering_events'[p] = n_delivering_events[p]
                 /\ array'[p] = array[p] /\ delivering_events'[p] = delivering_events[p]
      BY <1>2, <1>t, <3>2 DEF StageSequence, arrayVars
    <3>3. CASE StageNothing(q)
      BY <1>2, <1>t, <3>3 DEF StageNothing, arrayVars
    <3>4. CASE StageOutput(q)
      <4>1. UNCHANGED <<n_delivering_events, array, delivering_events>>
        BY <3>4 DEF StageOutput
      <4>2. dequeued' = dequeued \/ \E b : dequeued' = [dequeued EXCEPT ![q] = b]
        BY <3>4 DEF StageOutput
      <4>3. ASSUME NEW b, dequeued' = [dequeued EXCEPT ![q] = b]
            PROVE  dequeued'[p] = dequeued[p]
        BY <1>0, <1>2, <1>t, <4>3
      <4> QED BY <4>1, <4>2, <4>3
    <3> QED BY <3>1, <3>2, <3>3, <3>4 DEF StagePort
  <2>2. Before(p) => Before(p)'
    BY <1>0, <1>1, <1>2 DEF Before, CycleType
  <2> QED BY <1>0, <1>1, <2>0, <2>1, <2>2, ReadKept
<1>3. CASE q = p
  <2>0. \A b \in Buffers : content'[p][b] \in Seq(Controls)
    BY <1>0, <1>1 DEF ReadInv
  <2>1. CASE StagePushed(p)
    <3>1. /\ incoming_events'[p] = Staged(p)
          /\ n_delivering_events'[p] = n_pending_events[p]
          /\ delivering_events'[p] = pending_events[p] /\ array' = array
      BY <1>t, <1>0, <2>1 DEF StagePushed
    <3> QED BY <1>0, <2>0, <3>1, StagedEntries DEF ReadInv, IdAt
  <2>2. ASSUME NEW b \in Buffers, StageSequence(p, b) PROVE ReadInv(p)'
    <3>1. incoming_events'[p] = Decode(content[p][b]) /\ dequeued'[p] = b /\ b # NULL
      BY <1>t, <1>0, <2>2, EventPortsAssumption DEF StageSequence
    <3>2. content[p][b] \in Seq(Controls)
      BY <1>0 DEF ReadInv
    <3>3. incoming_events'[p] \in Seq(Controls)
      BY <3>1, <3>2, DecodeIs
    <3> QED BY <2>0, <3>1, <3>3 DEF ReadInv
  <2>3. CASE StageNothing(p)
    <3>1. incoming_events'[p] = <<>>
      BY <1>0, <1>t, <2>3 DEF StageNothing
    <3> QED BY <2>0, <3>1 DEF ReadInv
  <2>4. ~ StageOutput(p)
    BY DEF StageOutput
  <2> QED BY <1>3, <2>1, <2>2, <2>3, <2>4 DEF StagePort
<1> QED BY <1>2, <1>3

LEMMA IncomingType ==
  IInv /\ IncomingInv /\ [Next]_vars => (incoming_events \in [Ports -> Contents])'
<1> SUFFICES ASSUME IInv, IncomingInv, [Next]_vars
             PROVE  incoming_events' \in [Ports -> Contents]
  OBVIOUS
<1>0. incoming_events \in [Ports -> Contents] /\ ArrayType
  BY DEF IncomingInv, IInv, TypeOK
<1>c. Seq(Controls) \subseteq Contents /\ <<>> \in Contents
  <2>1. Seq(Controls) \subseteq Contents
    BY SeqMonotonic DEF Contents
  <2> QED BY <2>1, EmptySeq DEF Contents
<1>e. ASSUME NEW q \in Ports, NEW s \in Contents,
             incoming_events' = [incoming_events EXCEPT ![q] = s]
      PROVE  incoming_events' \in [Ports -> Contents]
  BY <1>0, <1>e
<1>1. ASSUME NEW q \in Ports, StagePort(q) PROVE incoming_events' \in [Ports -> Contents]
  <2>1. CASE StagePushed(q)
    <3>1. incoming_events' = [incoming_events EXCEPT ![q] = Staged(q)]
      BY <2>1 DEF StagePushed
    <3>2. Staged(q) \in Contents
      BY <1>0, StagedEntries
    <3> QED BY <1>0, <3>1, <3>2
  <2>2. ASSUME NEW b \in Buffers, StageSequence(q, b)
        PROVE  incoming_events' \in [Ports -> Contents]
    <3>1. /\ q \in InPorts
          /\ incoming_events' = [incoming_events EXCEPT ![q] = Decode(content[q][b])]
      BY <2>2 DEF StageSequence
    <3>2. Decode(content[q][b]) \in Contents
      BY <1>c, <3>1, DecodeIs DEF IncomingInv, ReadInv
    <3> QED BY <1>0, <3>1, <3>2
  <2>3. CASE StageNothing(q)
    BY <1>c, <1>e, <2>3 DEF StageNothing
  <2>4. CASE StageOutput(q)
    BY <1>0, <2>4 DEF StageOutput
  <2> QED BY <1>1, <2>1, <2>2, <2>3, <2>4 DEF StagePort
<1>2. ASSUME NEW c \in Callers, NEW q \in InPorts, PushLock(c, q)
      PROVE  incoming_events' = incoming_events
  BY <1>2 DEF PushLock, portVars
<1>3. ASSUME NEW q \in Ports \ InPorts, NEW size \in Sizes, PushOutput(q, size)
      PROVE  incoming_events' = incoming_events
  BY <1>3 DEF PushOutput, InCallback, portVars
<1>4. ASSUME NEW q \in Ports, NEW b \in Buffers, GraphFill(q, b)
      PROVE  incoming_events' = incoming_events
  BY <1>4 DEF GraphFill, portVars
<1>5. ASSUME NEW on \in BOOLEAN, SetActive(on) PROVE incoming_events' = incoming_events
  BY <1>5 DEF SetActive, portVars
<1>6. CASE PushStep \/ CycleBegin \/ StageEnd \/ CycleEnd \/ UNCHANGED vars
  BY <1>0, <1>6 DEF PushStep, PushNoMemory, PushAppend, CycleBegin, StageEnd, CycleEnd, InCallback,
                    portVars, vars
<1>7. CASE PushCall \/ PushOutputNoMemory
  BY <1>0, <1>7 DEF PushCall, PushOutputNoMemory, portVars
<1> QED BY <1>0, <1>1, <1>2, <1>3, <1>4, <1>5, <1>6, <1>7 DEF Next, CycleStep

LEMMA IncomingStep == IInv /\ IncomingInv /\ [Next]_vars => IncomingInv'
<1> SUFFICES ASSUME IInv, IncomingInv, [Next]_vars, NEW p \in InPorts
             PROVE  ReadInv(p)'
  BY IncomingType DEF IncomingInv
<1>0. /\ ArrayType /\ CycleType /\ PoolType /\ LockInv /\ ReadInv(p) /\ p \in Ports
      /\ pending_events[p] # delivering_events[p] /\ delivering_events[p] \in Arrays
  BY EventPortsAssumption DEF IInv, TypeOK, IncomingInv, ArraysInv, ArrayType
<1>f. ASSUME UNCHANGED <<array, delivering_events, n_delivering_events, content,
                         incoming_events, dequeued>>,
             Before(p) => Before(p)'
      PROVE  ReadInv(p)'
  BY <1>0, <1>f, ReadKept
<1>1. ASSUME NEW c \in Callers, NEW q \in InPorts, PushLock(c, q) PROVE ReadInv(p)'
  BY <1>1, <1>f DEF PushLock, arrayVars, cycleVars, portVars, poolVars, Before
<1>2. CASE PushNoMemory
  BY <1>2, <1>f DEF PushNoMemory, arrayVars, cycleVars, portVars, poolVars, Before
<1>a. ASSUME NEW q \in Ports, NEW e \in Entry, array' = Appended(q, e),
             UNCHANGED <<delivering_events, n_delivering_events, content,
                         incoming_events, dequeued, cyc, next>>
      PROVE  ReadInv(p)'
  <2>1. array'[p][delivering_events[p]] = array[p][delivering_events[p]]
    <3>1. CASE q = p
      BY <1>0, <1>a, <3>1, AppendEntry
    <3>2. CASE q # p
      BY <1>0, <1>a, <3>2, AppendEntry
    <3> QED BY <3>1, <3>2
  <2> QED BY <1>0, <1>a, <2>1, ReadKept DEF Before
<1>3. CASE PushAppend
  <2> DEFINE e == [id |-> push.id, size |-> 0]
  <2>1. push.port \in Ports /\ push.id \in Nat
    BY <1>0, <1>3 DEF PushAppend, LockInv, CycleType
  <2>2. e \in Entry
    BY <2>1 DEF Entry
  <2>3. /\ array' = Appended(push.port, e)
        /\ UNCHANGED <<delivering_events, n_delivering_events, content,
                       incoming_events, dequeued, cyc, next>>
    BY <1>3 DEF PushAppend, cycleVars, portVars, poolVars
  <2> HIDE DEF e
  <2> QED BY <1>a, <2>1, <2>2, <2>3
<1>4. ASSUME NEW q \in Ports \ InPorts, NEW size \in Sizes, PushOutput(q, size)
      PROVE  ReadInv(p)'
  <2> DEFINE e == [id |-> lastId + 1, size |-> size]
  <2>1. e \in Entry
    BY <1>0, SizesAssumption, EventPortsAssumption DEF Entry, CycleType
  <2>2. /\ array' = Appended(q, e)
        /\ UNCHANGED <<delivering_events, n_delivering_events, content,
                       incoming_events, dequeued, cyc, next>>
    BY <1>4 DEF PushOutput, InCallback, cycleVars, portVars, poolVars
  <2> HIDE DEF e
  <2> QED BY <1>a, <2>1, <2>2
<1>5. ASSUME NEW q \in Ports, NEW b \in Buffers, GraphFill(q, b) PROVE ReadInv(p)'
  <2>1. /\ UNCHANGED <<array, delivering_events, n_delivering_events, incoming_events,
                       dequeued, cyc, next>>
        /\ b \in avail[q]
    BY <1>5 DEF GraphFill, arrayVars, portVars, cycleVars
  <2>2. \/ content' = content
        \/ \E s \in GraphSequences : content' = [content EXCEPT ![q][b] = s]
        \/ q # p /\ content' = [content EXCEPT ![q][b] = <<>>]
    BY <1>5 DEF GraphFill
  <2>3. CASE content'[p] = content[p]
    BY <1>0, <2>1, <2>3, ReadKept DEF Before
  <2>4. ASSUME NEW s \in GraphSequences, q = p, content' = [content EXCEPT ![q][b] = s]
        PROVE  ReadInv(p)'
    <3>1. \A d \in Buffers : content'[p][d] \in Seq(Controls)
      <4>1. s \in Seq(Controls)
        BY GraphAssumption
      <4>2. content[p] \in [Buffers -> Contents] /\ content \in [Ports -> [Buffers -> Contents]]
        BY <1>0 DEF PoolType
      <4>3. content'[p] = [content[p] EXCEPT ![b] = s]
        BY <1>0, <2>4, <4>2
      <4> QED BY <1>0, <4>1, <4>2, <4>3 DEF ReadInv
    <3> QED BY <1>0, <2>1, <3>1 DEF ReadInv, Before, IdAt
  <2>5. \A s : q # p /\ content' = [content EXCEPT ![q][b] = s] => content'[p] = content[p]
    BY <1>0 DEF PoolType
  <2> QED BY <2>2, <2>3, <2>4, <2>5
<1>6. CASE CycleBegin
  <2>1. Before(p)'
    BY <1>0, <1>6 DEF CycleBegin, Before
  <2> QED BY <1>6, <1>f, <2>1 DEF CycleBegin, arrayVars, portVars, poolVars
<1>7. ASSUME NEW q \in Ports, StagePort(q) PROVE ReadInv(p)'
  BY <1>7, ReadStaged
<1>8. CASE StageEnd
  <2>1. ~ Before(p)
    BY <1>0, <1>8, EventPortsAssumption DEF StageEnd, Before
  <2> QED BY <1>8, <1>f, <2>1 DEF StageEnd, arrayVars, portVars, poolVars
<1>9. CASE CycleEnd
  <2>1. Before(p)'
    BY <1>9 DEF CycleEnd, InCallback, Before
  <2>2. \A b \in Buffers : content'[p][b] = content[p][b]
    BY <1>0, <1>9 DEF CycleEnd, InCallback
  <2> QED BY <1>0, <2>1, <2>2 DEF ReadInv
<1>10. ASSUME NEW on \in BOOLEAN, SetActive(on) PROVE ReadInv(p)'
  BY <1>10, <1>f DEF SetActive, arrayVars, cycleVars, portVars, poolVars, Before
<1>11. CASE UNCHANGED vars
  BY <1>11, <1>f DEF vars, arrayVars, cycleVars, portVars, poolVars, Before
<1>12. CASE PushCall \/ PushOutputNoMemory
  BY <1>12, <1>f DEF PushCall, PushOutputNoMemory, arrayVars, cycleVars, portVars, poolVars, Before
<1> QED BY <1>1, <1>2, <1>3, <1>4, <1>5, <1>6, <1>7, <1>8, <1>9, <1>10, <1>11, <1>12
        DEF Next, PushStep, CycleStep

LEMMA IncomingInit == Init => IncomingInv
<1>1. <<>> \in Seq(Controls) /\ <<>> \in Contents
  BY EmptySeq DEF Contents
<1> QED BY <1>1, EventPortsAssumption DEF Init, IncomingInv, ReadInv, Before

\* Whatever the callback reads is still there: a pushed event's copy is freed
\* only when the callback is over, and the buffer that decoded events point into
\* is kept as long, for any ports, sequences and number of events.
THEOREM IncomingIsAlive == Spec => []IncomingAlive
<1>1. IInv /\ IncomingInv => IncomingAlive
  <2> SUFFICES ASSUME IInv, IncomingInv, cyc = "callback", NEW p \in InPorts,
                      NEW k \in 1..Len(incoming_events[p])
               PROVE  IF incoming_events[p][k] \in Controls
                        THEN dequeued[p] # NULL
                        ELSE incoming_events[p][k] \in heap
    BY DEF IncomingAlive
  <2>0. ReadInv(p) /\ ~ Before(p) /\ p \in Ports /\ CellsInv /\ ArrayType /\ CycleType
    BY EventPortsAssumption DEF IncomingInv, Before, IInv, TypeOK
  <2>1. CASE incoming_events[p] = <<>>
    <3>1. Len(incoming_events[p]) = 0
      BY <2>1, EmptySeq
    <3> QED BY <3>1
  <2>2. CASE dequeued[p] # NULL /\ incoming_events[p] \in Seq(Controls)
    BY <2>2, ElementOfSeq
  <2>3. CASE /\ Len(incoming_events[p]) = n_delivering_events[p]
             /\ \A j \in 1..n_delivering_events[p] :
                  incoming_events[p][j] = IdAt(p, delivering_events[p], j)
    <3>1. k \in 1..n_delivering_events[p] /\ pending_events[p] # delivering_events[p]
          /\ delivering_events[p] \in Arrays
      BY <2>0, <2>3 DEF IInv, ArraysInv, ArrayType
    <3>2. IsLive(p, delivering_events[p], k)
      BY <2>0, <3>1 DEF IsLive, Count
    <3>3. incoming_events[p][k] \in heap
      BY <2>0, <2>3, <3>1, <3>2 DEF CellsInv
    <3>4. \A h \in heap : h > 0
      <4>1. heap \subseteq 1..lastId /\ lastId \in Nat
        BY <2>0, EventPortsAssumption DEF ArrayType, CycleType
      <4> QED BY ONLY <4>1
    <3>5. \A h \in heap : h \notin Controls
      <4>1. \A c \in Controls : ~ (c > 0)
        BY DEF Controls, Known, Foreign, Malformed
      <4> QED BY <3>4, <4>1
    <3> QED BY <3>3, <3>5
  <2> QED BY <2>0, <2>1, <2>2, <2>3 DEF ReadInv
<1> QED BY <1>1, IncomingInit, IncomingStep, Invariance, PTL DEF Spec
=============================================================================
