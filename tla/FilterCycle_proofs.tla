------------------------- MODULE FilterCycle_proofs -------------------------
(***************************************************************************)
(* Proofs about the processing cycle, for every set of ports, pools and    *)
(* threads.                                                                *)
(***************************************************************************)
EXTENDS FilterCycle, FiniteSetTheorems, TLAPS

(***************************************************************************)
(* Types.  Deliver and Represent are shared by the staging actions, so     *)
(* what they preserve is stated once.                                      *)
(***************************************************************************)

LEMMA DeliverType ==
  ASSUME PresentType, HoldType, PoolType, NEW p \in Ports, NEW d \in Pointer,
         NEW m \in Contents, NEW b \in Buffers \cup {NULL},
         NEW dm \in Buffers \cup {NULL}, Deliver(p, d, m, b, dm)
  PROVE  PresentType' /\ HoldType' /\ avail' \in [Ports -> SUBSET Buffers]
<1>1. buffers' \in [Ports -> [data : Pointer, pts : Contents,
                              fresh : BOOLEAN, seq : Nat]]
  BY DEF NextSeq, Released, PresentType, Deliver
<1>2. /\ update_seq' \in [Ports -> Nat]
      /\ latest' \in [Ports -> Contents]
      /\ current_dmabuf_buf' \in [Ports -> Buffers \cup {NULL}]
  BY DEF NextSeq, Released, PresentType, Deliver
<1>3. CASE p \in HoldPorts
  <2>1. dequeued' \in [Ports -> Buffers \cup {NULL}]
    BY <1>3 DEF NextSeq, Released, PresentType, Deliver
  <2>2. /\ held' \in [Ports -> Buffers \cup {NULL}]
        /\ has_held' \in [Ports -> BOOLEAN]
    BY <1>3 DEF NextSeq, Released, HoldType, Deliver
  <2>3. /\ held_data' \in [Ports -> Pointer]
        /\ held_pts' \in [Ports -> Contents]
        /\ held_dmabuf_buf' \in [Ports -> Buffers \cup {NULL}]
    BY <1>3 DEF NextSeq, Released, HoldType, Deliver
  <2>4. avail' = [avail EXCEPT ![p] = @ \cup ({held[p]} \ {NULL})]
    BY <1>3 DEF NextSeq, Released, Deliver
  <2>5. avail[p] \cup ({held[p]} \ {NULL}) \in SUBSET Buffers
    BY DEF HoldType, PoolType
  <2>6. avail' \in [Ports -> SUBSET Buffers]
    BY <2>4, <2>5 DEF PoolType
  <2> QED BY <1>1, <1>2, <2>1, <2>2, <2>3, <2>6 DEF PresentType, HoldType
<1>4. CASE p \notin HoldPorts
  <2>1. dequeued' \in [Ports -> Buffers \cup {NULL}]
    BY <1>4 DEF NextSeq, Released, PresentType, Deliver
  <2>2. HoldType' /\ avail' \in [Ports -> SUBSET Buffers]
    BY <1>4 DEF NextSeq, Released, HoldType, PoolType, Deliver
  <2> QED BY <1>1, <1>2, <2>1, <2>2 DEF PresentType
<1> QED BY <1>3, <1>4

LEMMA RepresentType ==
  ASSUME PresentType, HoldType, PoolType, NEW p \in Ports,
         NEW b \in Buffers \cup {NULL}, Represent(p, b)
  PROVE  PresentType' /\ HoldType' /\ avail' \in [Ports -> SUBSET Buffers]
<1>1. HoldType' /\ avail' \in [Ports -> SUBSET Buffers]
  BY DEF HoldType, PoolType, Represent
<1>2. /\ dequeued' \in [Ports -> Buffers \cup {NULL}]
      /\ update_seq' \in [Ports -> Nat]
      /\ latest' \in [Ports -> Contents]
  BY DEF PresentType, Represent
<1>3. CASE has_held[p]
  <2>1. current_dmabuf_buf' \in [Ports -> Buffers \cup {NULL}]
    BY <1>3 DEF PresentType, HoldType, Represent
  <2>2. buffers' \in [Ports -> [data : Pointer, pts : Contents,
                                fresh : BOOLEAN, seq : Nat]]
    <3>1. [data |-> held_data[p], pts |-> held_pts[p], fresh |-> FALSE,
           seq |-> update_seq[p]]
            \in [data : Pointer, pts : Contents, fresh : BOOLEAN, seq : Nat]
      BY DEF PresentType, HoldType
    <3>2. buffers' = [buffers EXCEPT ![p] =
             [data |-> held_data[p], pts |-> held_pts[p], fresh |-> FALSE,
              seq |-> update_seq[p]]]
      BY <1>3 DEF Represent
    <3> QED BY <3>1, <3>2 DEF PresentType
  <2> QED BY <1>1, <1>2, <2>1, <2>2 DEF PresentType
<1>4. CASE ~ has_held[p]
  <2>1. current_dmabuf_buf' \in [Ports -> Buffers \cup {NULL}]
    <3>1. current_dmabuf_buf' = [current_dmabuf_buf EXCEPT ![p] = NULL]
      BY <1>4 DEF Represent
    <3> QED BY <3>1 DEF PresentType
  <2>2. buffers' \in [Ports -> [data : Pointer, pts : Contents,
                                fresh : BOOLEAN, seq : Nat]]
    <3>1. [data |-> NULL, pts |-> 0, fresh |-> FALSE, seq |-> update_seq[p]]
            \in [data : Pointer, pts : Contents, fresh : BOOLEAN, seq : Nat]
      BY DEF PresentType, Pointer, Contents
    <3> QED BY <1>4, <3>1 DEF PresentType, Represent
  <2> QED BY <1>1, <1>2, <2>1, <2>2 DEF PresentType
<1> QED BY <1>3, <1>4

LEMMA GraphWrites ==
  ASSUME PoolType, NEW p \in Ports, NEW b \in Buffers, GraphFill(p, b)
  PROVE  \E w \in Contents : mem' = [mem EXCEPT ![p][b] = w]
BY MemoryAssumption, SMTT(30) DEF GraphFill, PoolType, Contents, Empty, Blank

LEMMA TypeInit == Init => TypeOK
<1> SUFFICES ASSUME Init PROVE TypeOK
  OBVIOUS
<1>1. StagingType
  <2>1. 1 \in Ports
    BY PortsAssumption DEF Ports
  <2> QED BY <2>1 DEF Init, StagingType, IdlePush, Blocks
<1>2. CycleType
  <2>1. active \in BOOLEAN /\ staged \in BOOLEAN
    BY DEF Init
  <2>2. cyc \in {"idle", "stage", "callback"} /\ next \in 1..(NPorts + 1)
    BY PortsAssumption DEF Init
  <2> QED BY <2>1, <2>2 DEF CycleType
<1>3. PresentType /\ HoldType
  <2>1. /\ NoData \in [data : Pointer, pts : Contents, fresh : BOOLEAN, seq : Nat]
        /\ NULL \in Pointer
        /\ 0 \in Contents /\ Empty \in Contents
    BY DEF NoData, Pointer, Contents, Empty
  <2>2. PresentType
    BY <2>1 DEF Init, PresentType
  <2>3. HoldType
    BY <2>1 DEF Init, HoldType
  <2> QED BY <2>2, <2>3
<1>4. PoolType
  BY MemoryAssumption DEF Init, PoolType, Contents, Empty
<1> QED BY <1>1, <1>2, <1>3, <1>4 DEF TypeOK

LEMMA TypeStep == TypeOK /\ [Next]_vars => TypeOK'
<1> SUFFICES ASSUME TypeOK, [Next]_vars PROVE TypeOK'
  OBVIOUS
<1> USE DEF TypeOK
<1>1. ASSUME NEW c \in Callers, NEW p \in InPorts, PushLock(c, p)
      PROVE  TypeOK'
  <2>1. StagingType'
    <3>1. push_lock' \in {"none", "cycle"} \cup Callers
      BY <1>1 DEF PushLock
    <3>2. push' \in [phase : {"idle", "locked", "copying"}, port : Ports, val : Nat]
      BY <1>1, PortsAssumption, MemoryAssumption DEF PushLock, PoolType
    <3>3. UNCHANGED <<pushed_data, delivered_data, pushed_pts, pushed_pending>>
      BY <1>1 DEF PushLock
    <3> QED BY <3>1, <3>2, <3>3 DEF StagingType
  <2>2. CycleType'
    BY <1>1 DEF CycleType, PushLock, cycleVars
  <2>3. PresentType'
    BY <1>1 DEF PresentType, PushLock, portVars
  <2>4. HoldType'
    BY <1>1 DEF HoldType, PushLock, portVars
  <2>5. PoolType'
    <3>1. value' \in 0..MaxValue
      BY <1>1, MemoryAssumption DEF PushLock, PoolType
    <3> QED BY <1>1, <3>1 DEF PushLock, PoolType, poolVars
  <2> QED BY <2>1, <2>2, <2>3, <2>4, <2>5
<1>2. CASE PushNoMemory
  <2>1. StagingType'
    <3>1. IdlePush \in [phase : {"idle", "locked", "copying"}, port : Ports,
                         val : Nat]
      BY PortsAssumption DEF IdlePush, Ports
    <3> QED BY <1>2, <3>1 DEF StagingType, PushNoMemory
  <2>2. CycleType'
    BY <1>2 DEF CycleType, PushNoMemory, cycleVars
  <2>3. PresentType'
    BY <1>2 DEF PresentType, PushNoMemory, portVars
  <2>4. HoldType'
    BY <1>2 DEF HoldType, PushNoMemory, portVars
  <2>5. PoolType'
    BY <1>2 DEF PoolType, PushNoMemory, poolVars
  <2> QED BY <2>1, <2>2, <2>3, <2>4, <2>5
<1>3. CASE PushCopy
  <2>1. StagingType'
    BY <1>3 DEF StagingType, PushCopy
  <2>2. CycleType'
    BY <1>3 DEF CycleType, PushCopy, cycleVars
  <2>3. PresentType'
    BY <1>3 DEF PresentType, PushCopy, portVars
  <2>4. HoldType'
    BY <1>3 DEF HoldType, PushCopy, portVars
  <2>5. PoolType'
    BY <1>3 DEF PoolType, StagingType, PushCopy, poolVars, Contents
  <2> QED BY <2>1, <2>2, <2>3, <2>4, <2>5
<1>4. CASE PushDone
  <2>1. StagingType'
    <3>1. IdlePush \in [phase : {"idle", "locked", "copying"}, port : Ports,
                         val : Nat]
      BY PortsAssumption DEF IdlePush, Ports
    <3> QED BY <1>4, <3>1 DEF StagingType, PushDone
  <2>2. CycleType'
    BY <1>4 DEF CycleType, PushDone, cycleVars
  <2>3. PresentType'
    BY <1>4 DEF PresentType, PushDone, portVars
  <2>4. HoldType'
    BY <1>4 DEF HoldType, PushDone, portVars
  <2>5. PoolType'
    BY <1>4 DEF PoolType, StagingType, PushDone, poolVars, Contents
  <2> QED BY <2>1, <2>2, <2>3, <2>4, <2>5
<1>5. ASSUME NEW p \in Ports, NEW b \in Buffers, GraphFill(p, b)
      PROVE  TypeOK'
  <2>1. StagingType'
    BY <1>5 DEF StagingType, GraphFill, stagingVars
  <2>2. CycleType'
    BY <1>5 DEF CycleType, GraphFill, cycleVars
  <2>3. PresentType'
    BY <1>5 DEF PresentType, GraphFill, portVars
  <2>4. HoldType'
    BY <1>5 DEF HoldType, GraphFill, portVars
  <2>5. PoolType'
    <3>1. PICK w \in Contents : mem' = [mem EXCEPT ![p][b] = w]
      BY <1>5, GraphWrites
    <3>2. mem' \in [Ports -> [Blocks \cup Buffers -> Contents]]
      BY <3>1 DEF PoolType
    <3>3. value' \in 0..MaxValue
      BY <1>5, MemoryAssumption DEF GraphFill, PoolType
    <3>4. /\ avail' \in [Ports -> SUBSET Buffers]
          /\ ready' \in [Ports -> SUBSET Buffers]
      BY <1>5 DEF GraphFill, PoolType
    <3> QED BY <3>2, <3>3, <3>4 DEF PoolType
  <2> QED BY <2>1, <2>2, <2>3, <2>4, <2>5
<1>6. CASE CycleBegin
  <2>1. StagingType'
    BY <1>6 DEF StagingType, CycleBegin, stagingVars
  <2>2. CycleType'
    <3>1. active' \in BOOLEAN /\ staged' \in BOOLEAN
      BY <1>6 DEF CycleType, CycleBegin
    <3>2. cyc' \in {"idle", "stage", "callback"} /\ next' \in 1..(NPorts + 1)
      BY <1>6, PortsAssumption DEF CycleBegin
    <3> QED BY <3>1, <3>2 DEF CycleType
  <2>3. PresentType'
    BY <1>6 DEF PresentType, CycleBegin, portVars
  <2>4. HoldType'
    BY <1>6 DEF HoldType, CycleBegin, portVars
  <2>5. PoolType'
    BY <1>6 DEF PoolType, CycleBegin, poolVars
  <2> QED BY <2>1, <2>2, <2>3, <2>4, <2>5
<1>7. ASSUME NEW p \in Ports, StagePushed(p)
      PROVE  TypeOK'
  <2>1. pushed_data[p] \in Pointer /\ pushed_pts[p] \in Contents
    BY DEF StagingType, Pointer, Contents
  <2>2. PresentType' /\ HoldType' /\ avail' \in [Ports -> SUBSET Buffers]
    BY <1>7, <2>1, DeliverType DEF StagePushed
  <2>3. StagingType'
    BY <1>7 DEF StagingType, StagePushed, Staging
  <2>4. CycleType'
    BY <1>7, PortsAssumption DEF CycleType, StagePushed, Staging, Ports
  <2>5. PoolType'
    BY <1>7, <2>2 DEF PoolType, StagePushed, Staging
  <2> QED BY <2>2, <2>3, <2>4, <2>5
<1>8. ASSUME NEW p \in Ports, NEW b \in Buffers, StageFrame(p, b)
      PROVE  TypeOK'
  <2>1. b \in Pointer /\ NULL \in Pointer /\ mem[p][b] \in Contents
    BY DEF PoolType, Pointer
  <2>2. PresentType' /\ HoldType' /\ avail' \in [Ports -> SUBSET Buffers]
    BY <1>8, <2>1, DeliverType DEF StageFrame
  <2>3. StagingType'
    BY <1>8 DEF StagingType, StageFrame, Staging
  <2>4. CycleType'
    BY <1>8, PortsAssumption DEF CycleType, StageFrame, Staging, Ports
  <2>5. PoolType'
    BY <1>8, <2>2 DEF PoolType, StageFrame, Staging
  <2> QED BY <2>2, <2>3, <2>4, <2>5
<1>9. ASSUME NEW p \in Ports, NEW b \in Buffers, StageEmptyFrame(p, b)
      PROVE  TypeOK'
  <2>2. PresentType' /\ HoldType' /\ avail' \in [Ports -> SUBSET Buffers]
    BY <1>9, RepresentType DEF StageEmptyFrame
  <2>3. StagingType'
    BY <1>9 DEF StagingType, StageEmptyFrame, Staging
  <2>4. CycleType'
    BY <1>9, PortsAssumption DEF CycleType, StageEmptyFrame, Staging, Ports
  <2>5. PoolType'
    BY <1>9, <2>2 DEF PoolType, StageEmptyFrame, Staging
  <2> QED BY <2>2, <2>3, <2>4, <2>5
<1>10. ASSUME NEW p \in Ports, StageNothing(p)
      PROVE  TypeOK'
  <2>2. PresentType' /\ HoldType' /\ avail' \in [Ports -> SUBSET Buffers]
    BY <1>10, RepresentType DEF StageNothing
  <2>3. StagingType'
    BY <1>10 DEF StagingType, StageNothing, Staging
  <2>4. CycleType'
    BY <1>10, PortsAssumption DEF CycleType, StageNothing, Staging, Ports
  <2>5. PoolType'
    BY <1>10, <2>2 DEF PoolType, StageNothing, Staging
  <2> QED BY <2>2, <2>3, <2>4, <2>5
<1>11. ASSUME NEW p \in Ports, StageOutput(p)
      PROVE  TypeOK'
  <2>1. PresentType'
    <3>1. /\ current_dmabuf_buf' \in [Ports -> Buffers \cup {NULL}]
          /\ update_seq' \in [Ports -> Nat]
          /\ latest' \in [Ports -> Contents]
      BY <1>11 DEF StageOutput, PresentType
    <3>2. CASE UNCHANGED <<buffers, dequeued>>
      BY <3>1, <3>2 DEF PresentType
    <3>3. ASSUME NEW b \in Buffers,
                 buffers' = [buffers EXCEPT ![p] =
                    [data |-> b, pts |-> 0, fresh |-> FALSE, seq |-> 0]],
                 dequeued' = [dequeued EXCEPT ![p] = b]
          PROVE  PresentType'
      <4>1. [data |-> b, pts |-> 0, fresh |-> FALSE, seq |-> 0]
              \in [data : Pointer, pts : Contents, fresh : BOOLEAN, seq : Nat]
        BY DEF Pointer, Contents
      <4>2. buffers' \in [Ports -> [data : Pointer, pts : Contents,
                                    fresh : BOOLEAN, seq : Nat]]
        BY <3>3, <4>1 DEF PresentType
      <4>3. dequeued' \in [Ports -> Buffers \cup {NULL}]
        BY <3>3 DEF PresentType
      <4> QED BY <3>1, <4>2, <4>3 DEF PresentType
    <3> QED BY <1>11, <3>2, <3>3 DEF StageOutput, PoolType
  <2>2. PresentType' /\ HoldType' /\ avail' \in [Ports -> SUBSET Buffers]
    BY <1>11, <2>1 DEF StageOutput, HoldType, PoolType
  <2>3. StagingType'
    BY <1>11 DEF StagingType, StageOutput, Staging
  <2>4. CycleType'
    BY <1>11, PortsAssumption DEF CycleType, StageOutput, Staging, Ports
  <2>5. PoolType'
    <3>1. ready' \in [Ports -> SUBSET Buffers]
      BY <1>11 DEF PoolType, StageOutput
    <3>2. UNCHANGED <<mem, value>>
      BY <1>11 DEF StageOutput, Staging
    <3> QED BY <2>2, <3>1, <3>2 DEF PoolType
  <2> QED BY <2>2, <2>3, <2>4, <2>5
<1>12. CASE StageEnd
  <2>1. StagingType'
    BY <1>12 DEF StagingType, StageEnd, stagingVars
  <2>2. CycleType'
    BY <1>12 DEF CycleType, StageEnd, cycleVars
  <2>3. PresentType'
    BY <1>12 DEF PresentType, StageEnd, portVars
  <2>4. HoldType'
    BY <1>12 DEF HoldType, StageEnd, portVars
  <2>5. PoolType'
    BY <1>12 DEF PoolType, StageEnd, poolVars
  <2> QED BY <2>1, <2>2, <2>3, <2>4, <2>5
<1>13. CASE CycleEnd
  <2>1. StagingType'
    BY <1>13 DEF Returned, StagingType, CycleEnd, stagingVars
  <2>2. CycleType'
    <3>1. active' \in BOOLEAN /\ staged' \in BOOLEAN
      BY <1>13 DEF Returned, CycleType, CycleEnd
    <3>2. cyc' \in {"idle", "stage", "callback"} /\ next' \in 1..(NPorts + 1)
      BY <1>13, PortsAssumption DEF Returned, CycleEnd
    <3> QED BY <3>1, <3>2 DEF CycleType
  <2>3. PresentType'
    <3>1. NoData \in [data : Pointer, pts : Contents, fresh : BOOLEAN, seq : Nat]
      BY DEF NoData, Pointer, Contents
    <3>2. /\ buffers' \in [Ports -> [data : Pointer, pts : Contents,
                                    fresh : BOOLEAN, seq : Nat]]
          /\ dequeued' \in [Ports -> Buffers \cup {NULL}]
      BY <1>13, <3>1 DEF Returned, CycleEnd
    <3> QED BY <1>13, <3>2 DEF Returned, PresentType, CycleEnd
  <2>4. HoldType'
    BY <1>13 DEF Returned, HoldType, CycleEnd
  <2>5. PoolType'
    <3>1. \A p \in Ports : avail[p] \cup ({dequeued[p]} \ {NULL}) \in SUBSET Buffers
      BY DEF PoolType, PresentType
    <3>2. avail' \in [Ports -> SUBSET Buffers]
      BY <1>13, <3>1 DEF Returned, CycleEnd
    <3> QED BY <1>13, <3>2 DEF Returned, PoolType, CycleEnd
  <2> QED BY <2>1, <2>2, <2>3, <2>4, <2>5
<1>14. CASE Start
  <2>1. StagingType'
    BY <1>14 DEF StagingType, Start, stagingVars
  <2>2. CycleType'
    BY <1>14 DEF CycleType, Start, cycleVars
  <2>3. PresentType'
    BY <1>14 DEF PresentType, Start, portVars
  <2>4. HoldType'
    BY <1>14 DEF HoldType, Start, portVars
  <2>5. PoolType'
    BY <1>14 DEF PoolType, Start, poolVars
  <2> QED BY <2>1, <2>2, <2>3, <2>4, <2>5
<1>15. CASE Stop
  <2>1. StagingType'
    BY <1>15 DEF Released, StagingType, Stop, stagingVars
  <2>2. CycleType'
    BY <1>15 DEF Released, CycleType, Stop, cycleVars
  <2>3. PresentType'
    <3>1. /\ current_dmabuf_buf' \in [Ports -> Buffers \cup {NULL}]
          /\ latest' \in [Ports -> Contents]
      BY <1>15 DEF Released, Stop, Contents, Empty
    <3> QED BY <1>15, <3>1 DEF Released, PresentType, Stop
  <2>4. HoldType'
    <3>1. /\ held' \in [Ports -> Buffers \cup {NULL}]
          /\ has_held' \in [Ports -> BOOLEAN]
      BY <1>15 DEF Released, Stop
    <3>2. /\ held_data' \in [Ports -> Pointer]
          /\ held_dmabuf_buf' \in [Ports -> Buffers \cup {NULL}]
      BY <1>15 DEF Released, Stop, Pointer
    <3> QED BY <1>15, <3>1, <3>2 DEF Released, HoldType, Stop
  <2>5. PoolType'
    <3>1. \A p \in Ports : avail[p] \cup ({held[p]} \ {NULL}) \in SUBSET Buffers
      BY DEF PoolType, HoldType
    <3>2. avail' \in [Ports -> SUBSET Buffers]
      BY <1>15, <3>1 DEF Released, Stop
    <3> QED BY <1>15, <3>2 DEF Released, PoolType, Stop
  <2> QED BY <2>1, <2>2, <2>3, <2>4, <2>5
<1>16. CASE UNCHANGED vars
  BY <1>16 DEF vars, stagingVars, cycleVars, portVars, poolVars, StagingType,
               CycleType, PresentType, HoldType, PoolType
<1> QED
  BY <1>1, <1>2, <1>3, <1>4, <1>5, <1>6, <1>7, <1>8, <1>9, <1>10, <1>11,
     <1>12, <1>13, <1>14, <1>15, <1>16
  DEF Next, PushStep, CycleStep, StagePort

\* Every variable keeps the type its C declaration gives it.
THEOREM TypeCorrect == Spec => []TypeOK
BY TypeInit, TypeStep, PTL DEF Spec

(***************************************************************************)
(* The inductive invariant.                                                *)
(***************************************************************************)

\* push_lock is held by the cycle exactly while it stages, and by a caller
\* exactly while its push runs.
LockInv ==
  /\ push_lock = "cycle" <=> (cyc = "stage" /\ staged)
  /\ push.phase # "idle" <=> push_lock \in Callers
  /\ push.phase # "idle" => push.port \in InPorts
  /\ cyc # "idle" => active

Copying(p) == push.phase = "copying" /\ push.port = p

StagedPort(p) == cyc = "callback" \/ (cyc = "stage" /\ p < next)

\* Push and data thread never share a block, and what is published is whole.
StagingInv(p) ==
  /\ pushed_data[p] # delivered_data[p]
  /\ pushed_pending[p] =>
       Copying(p) \/ mem[p][pushed_data[p]] = pushed_pts[p]
  /\ cyc = "stage" /\ staged /\ p \in InPorts /\ p < next => ~ pushed_pending[p]

\* Which buffers the data thread retains, and when.
PoolInv(p) ==
  /\ avail[p] \cap ready[p] = {}
  /\ (avail[p] \cup ready[p]) \cap Retained(p) = {}
  /\ dequeued[p] # NULL => dequeued[p] # held[p]
  /\ KeepsPool(p) => avail[p] \cup ready[p] \cup Retained(p) = Buffers
  /\ ~ has_held[p] => held[p] = NULL
  /\ has_held[p] => p \in HoldPorts /\ active
  /\ ~ StagedPort(p) => dequeued[p] = NULL

\* Where the content a holding port re-presents is, and that it is still the
\* one delivered last.
HeldSource(p) == IF held_data[p] # NULL THEN held_data[p] ELSE held_dmabuf_buf[p]

HeldInv(p) ==
  /\ has_held[p] =>
       /\ HeldSource(p) \in ({held[p]} \ {NULL}) \cup {delivered_data[p]}
       /\ mem[p][HeldSource(p)] = held_pts[p]
       /\ held_pts[p] = latest[p]
  /\ p \in HoldPorts /\ latest[p] # Empty => has_held[p]

\* What a staged port presents is whole, retained, and out of reach of pushes
\* and of the graph.
BuffersInv(p) ==
  StagedPort(p) =>
    /\ Source(p) # NULL =>
         /\ Source(p) \in Retained(p) \cup {delivered_data[p]}
         /\ mem[p][Source(p)] = buffers[p].pts
    /\ p \in HoldPorts /\ has_held[p] =>
         Source(p) # NULL /\ buffers[p].pts = latest[p]
    /\ p \notin HoldPorts => (buffers[p].fresh <=> Source(p) # NULL)

\* A mapped output port never has an unmapped buffer to dequeue.
OutputInv(p) ==
  p \notin InPorts \cup UnmappedPorts => \A b \in ready[p] : mem[p][b] # Empty

PortInv(p) ==
  /\ StagingInv(p)
  /\ PoolInv(p)
  /\ OutputInv(p)
  /\ p \in InPorts => HeldInv(p) /\ BuffersInv(p)

IInv == TypeOK /\ LockInv /\ \A p \in Ports : PortInv(p)

(***************************************************************************)
(* A step leaves PortInv of every port it does not touch alone.            *)
(***************************************************************************)

SamePool(p) ==
  /\ avail'[p] = avail[p]
  /\ ready'[p] = ready[p]
  /\ mem'[p] = mem[p]

SameStaging(p) ==
  /\ pushed_data'[p] = pushed_data[p]
  /\ delivered_data'[p] = delivered_data[p]
  /\ pushed_pts'[p] = pushed_pts[p]
  /\ pushed_pending'[p] = pushed_pending[p]

SamePresent(p) ==
  /\ buffers'[p] = buffers[p]
  /\ dequeued'[p] = dequeued[p]
  /\ current_dmabuf_buf'[p] = current_dmabuf_buf[p]
  /\ latest'[p] = latest[p]

SameHold(p) ==
  /\ held'[p] = held[p]
  /\ has_held'[p] = has_held[p]
  /\ held_data'[p] = held_data[p]
  /\ held_pts'[p] = held_pts[p]
  /\ held_dmabuf_buf'[p] = held_dmabuf_buf[p]

LEMMA Frame ==
  ASSUME NEW p \in Ports, PortInv(p),
         SamePool(p), SameStaging(p), SamePresent(p), SameHold(p),
         Copying(p) => Copying(p)',
         StagedPort(p)' <=> StagedPort(p),
         (cyc = "stage" /\ staged /\ p < next)'
            => cyc = "stage" /\ staged /\ p < next,
         active => active'
  PROVE  PortInv(p)'
<1>1. StagingInv(p)'
  BY DEF PortInv, StagingInv, SamePool, SameStaging
<1>2. PoolInv(p)'
  BY DEF PortInv, PoolInv, SamePool, SamePresent, SameHold, Retained
<1>3. ASSUME p \in InPorts PROVE HeldInv(p)'
  BY <1>3 DEF PortInv, HeldInv, HeldSource, SamePool, SameStaging, SamePresent,
              SameHold
<1>4. ASSUME p \in InPorts PROVE BuffersInv(p)'
  BY <1>4 DEF PortInv, BuffersInv, Source, Retained, SamePool, SameStaging,
              SamePresent, SameHold
<1>5. OutputInv(p)'
  BY DEF PortInv, OutputInv, SamePool
<1> QED BY <1>1, <1>2, <1>3, <1>4, <1>5 DEF PortInv

(***************************************************************************)
(* The lock.                                                               *)
(***************************************************************************)

LEMMA LockStep == TypeOK /\ LockInv /\ [Next]_vars => LockInv'
<1> SUFFICES ASSUME TypeOK, LockInv, [Next]_vars PROVE LockInv'
  OBVIOUS
<1> USE ThreadsAssumption DEF LockInv, Callers
<1>1. ASSUME NEW c \in Callers, NEW p \in InPorts, PushLock(c, p) PROVE LockInv'
  BY <1>1 DEF PushLock, cycleVars
<1>2. CASE PushNoMemory
  BY <1>2 DEF PushNoMemory, IdlePush, cycleVars
<1>3. CASE PushCopy
  BY <1>3 DEF PushCopy, cycleVars, TypeOK, StagingType
<1>4. CASE PushDone
  BY <1>4 DEF PushDone, IdlePush, cycleVars
<1>5. ASSUME NEW p \in Ports, NEW b \in Buffers, GraphFill(p, b) PROVE LockInv'
  BY <1>5 DEF GraphFill, stagingVars, cycleVars
<1>6. CASE CycleBegin
  BY <1>6 DEF CycleBegin
<1>7. ASSUME NEW p \in Ports, StagePort(p) PROVE LockInv'
  <2>1. Staging(p)
    BY <1>7 DEF StagePort, StagePushed, StageFrame, StageEmptyFrame,
                StageNothing, StageOutput
  <2> QED BY <2>1 DEF Staging
<1>8. CASE StageEnd
  BY <1>8 DEF StageEnd
<1>9. CASE CycleEnd
  BY <1>9 DEF Returned, CycleEnd, stagingVars
<1>10. CASE Start
  BY <1>10 DEF Start, stagingVars, cycleVars
<1>11. CASE Stop
  BY <1>11 DEF Released, Stop, stagingVars, cycleVars
<1>12. CASE UNCHANGED vars
  BY <1>12 DEF vars, stagingVars, cycleVars
<1> QED
  BY <1>1, <1>2, <1>3, <1>4, <1>5, <1>6, <1>7, <1>8, <1>9, <1>10, <1>11,
     <1>12
  DEF Next, PushStep, CycleStep

(***************************************************************************)
(* Pushes and the graph.                                                   *)
(***************************************************************************)

LEMMA PushLockPort ==
  ASSUME IInv, NEW q \in Ports, NEW c \in Callers, NEW p \in InPorts,
         PushLock(c, p)
  PROVE  PortInv(q)'
<1>1. SamePool(q) /\ SameStaging(q) /\ SamePresent(q) /\ SameHold(q)
  BY DEF PushLock, SamePool, SameStaging, SamePresent, SameHold, portVars,
         poolVars
<1>2. ~ Copying(q)
  BY ThreadsAssumption DEF PushLock, Copying, IInv, LockInv, Callers
<1>3. StagedPort(q)' <=> StagedPort(q)
  BY DEF PushLock, cycleVars, StagedPort
<1> QED BY <1>1, <1>2, <1>3, Frame DEF IInv, PushLock, cycleVars

LEMMA PushNoMemoryPort ==
  ASSUME IInv, NEW q \in Ports, PushNoMemory
  PROVE  PortInv(q)'
<1>1. SamePool(q) /\ SameStaging(q) /\ SamePresent(q) /\ SameHold(q)
  BY DEF PushNoMemory, SamePool, SameStaging, SamePresent, SameHold, portVars,
         poolVars
<1>2. ~ Copying(q)
  BY DEF PushNoMemory, Copying
<1>3. StagedPort(q)' <=> StagedPort(q)
  BY DEF PushNoMemory, cycleVars, StagedPort
<1> QED BY <1>1, <1>2, <1>3, Frame DEF IInv, PushNoMemory, cycleVars

\* A push writes only the block pushed_data names, which the data thread does
\* not present, hold, or read.
LEMMA PushWrite ==
  ASSUME IInv, NEW q \in Ports, NEW w \in Contents,
         q = push.port, q \in InPorts,
         mem' = [mem EXCEPT ![q][pushed_data[q]] = w],
         UNCHANGED <<active, pushed_data, delivered_data, cycleVars, portVars,
                     poolVars>>
  PROVE  PoolInv(q)' /\ HeldInv(q)' /\ BuffersInv(q)'
<1>1. /\ pushed_data[q] \in Blocks /\ delivered_data[q] \in Blocks
      /\ pushed_data[q] # delivered_data[q]
      /\ held[q] \in Buffers \cup {NULL} /\ dequeued[q] \in Buffers \cup {NULL}
  BY DEF IInv, PortInv, StagingInv, TypeOK, StagingType, PresentType, HoldType
<1>2. mem'[q][pushed_data[q]] = w
      /\ \A m \in (Blocks \cup Buffers) \ {pushed_data[q]} : mem'[q][m] = mem[q][m]
  BY <1>1 DEF IInv, TypeOK, PoolType
<1>3. /\ SamePresent(q) /\ SameHold(q)
      /\ avail'[q] = avail[q] /\ ready'[q] = ready[q]
      /\ delivered_data'[q] = delivered_data[q]
      /\ StagedPort(q)' <=> StagedPort(q)
      /\ active' = active
  BY DEF SamePresent, SameHold, portVars, poolVars, cycleVars, StagedPort
<1>4. \A m \in ({held[q], dequeued[q]} \ {NULL}) \cup {delivered_data[q]} :
         mem'[q][m] = mem[q][m]
  BY <1>1, <1>2, MemoryAssumption
<1>5. PoolInv(q)'
  BY <1>3 DEF IInv, PortInv, PoolInv, SamePresent, SameHold, Retained
<1>6. HeldInv(q)'
  BY <1>3, <1>4 DEF IInv, PortInv, HeldInv, HeldSource, SamePresent, SameHold
<1>7. BuffersInv(q)'
  BY <1>3, <1>4 DEF IInv, PortInv, BuffersInv, Source, Retained, SamePresent,
                    SameHold
<1> QED BY <1>5, <1>6, <1>7

LEMMA PushCopyPort ==
  ASSUME IInv, NEW q \in Ports, PushCopy
  PROVE  PortInv(q)'
<1>1. CASE q # push.port
  <2>1. SamePool(q) /\ SameStaging(q) /\ SamePresent(q) /\ SameHold(q)
    BY <1>1 DEF PushCopy, SamePool, SameStaging, SamePresent, SameHold,
                portVars, poolVars, IInv, TypeOK, PoolType
  <2>2. ~ Copying(q)
    BY <1>1 DEF Copying
  <2>3. StagedPort(q)' <=> StagedPort(q)
    BY DEF PushCopy, cycleVars, StagedPort
  <2> QED BY <2>1, <2>2, <2>3, Frame DEF IInv, PushCopy, cycleVars
<1>2. CASE q = push.port
  <2>1. q \in InPorts /\ Torn \in Contents
    BY <1>2 DEF PushCopy, IInv, LockInv, Contents
  <2>2. PoolInv(q)' /\ HeldInv(q)' /\ BuffersInv(q)'
    BY <1>2, <2>1, PushWrite DEF PushCopy
  <2>3. Copying(q)'
    BY <1>2 DEF PushCopy, Copying, IInv, TypeOK, StagingType
  <2>4. StagingInv(q)'
    BY <2>3 DEF IInv, PortInv, StagingInv, PushCopy, cycleVars
  <2> QED BY <2>1, <2>2, <2>4 DEF PortInv, OutputInv
<1> QED BY <1>1, <1>2

LEMMA PushDonePort ==
  ASSUME IInv, NEW q \in Ports, PushDone
  PROVE  PortInv(q)'
<1>1. CASE q # push.port
  <2>1. SamePool(q) /\ SameStaging(q) /\ SamePresent(q) /\ SameHold(q)
    BY <1>1 DEF PushDone, SamePool, SameStaging, SamePresent, SameHold,
                portVars, poolVars, IInv, TypeOK, PoolType, StagingType
  <2>2. ~ Copying(q)
    BY <1>1 DEF Copying
  <2>3. StagedPort(q)' <=> StagedPort(q)
    BY DEF PushDone, cycleVars, StagedPort
  <2> QED BY <2>1, <2>2, <2>3, Frame DEF IInv, PushDone, cycleVars
<1>2. CASE q = push.port
  <2>1. q \in InPorts /\ push.val \in Contents
    BY <1>2 DEF PushDone, IInv, LockInv, Contents, TypeOK, StagingType
  <2>2. PoolInv(q)' /\ HeldInv(q)' /\ BuffersInv(q)'
    BY <1>2, <2>1, PushWrite DEF PushDone
  <2>3. mem'[q][pushed_data'[q]] = pushed_pts'[q]
    BY <1>2 DEF PushDone, IInv, TypeOK, PoolType, StagingType
  <2>4. ~ (cyc = "stage" /\ staged)
    BY ThreadsAssumption DEF PushDone, IInv, LockInv, Callers
  <2>5. StagingInv(q)'
    BY <2>3, <2>4 DEF IInv, PortInv, StagingInv, PushDone, cycleVars
  <2> QED BY <2>1, <2>2, <2>5 DEF PortInv, OutputInv
<1> QED BY <1>1, <1>2

\* The graph writes only a buffer it owns.
LEMMA GraphFillPort ==
  ASSUME IInv, NEW q \in Ports, NEW p \in Ports, NEW b \in Buffers,
         GraphFill(p, b)
  PROVE  PortInv(q)'
<1>0. PICK w \in Contents : mem' = [mem EXCEPT ![p][b] = w]
  BY GraphWrites DEF IInv, TypeOK
<1>1. CASE q # p
  <2>1. SamePool(q) /\ SameStaging(q) /\ SamePresent(q) /\ SameHold(q)
    BY <1>0, <1>1 DEF GraphFill, SamePool, SameStaging, SamePresent, SameHold,
                portVars, stagingVars, IInv, TypeOK, PoolType
  <2>2. StagedPort(q)' <=> StagedPort(q)
    BY DEF GraphFill, cycleVars, StagedPort
  <2> QED BY <2>1, <2>2, Frame DEF IInv, GraphFill, cycleVars, stagingVars,
                                   Copying
<1>2. CASE q = p
  <2>1. /\ pushed_data[q] \in Blocks /\ delivered_data[q] \in Blocks
        /\ held[q] \in Buffers \cup {NULL}
        /\ dequeued[q] \in Buffers \cup {NULL}
        /\ b \in avail[q]
    BY <1>2 DEF IInv, TypeOK, StagingType, PresentType, HoldType, GraphFill
  <2>2. \A m \in (Blocks \cup Buffers) \ {b} : mem'[q][m] = mem[q][m]
    BY <1>0, <1>2 DEF IInv, TypeOK, PoolType
  <2>3. b \notin Retained(q)
    BY <2>1 DEF IInv, PortInv, PoolInv
  <2>4. \A m \in Retained(q) \cup Blocks : mem'[q][m] = mem[q][m]
    BY <2>1, <2>2, <2>3, MemoryAssumption DEF Retained
  <2>5. /\ SameStaging(q) /\ SamePresent(q) /\ SameHold(q)
        /\ StagedPort(q)' <=> StagedPort(q)
        /\ Copying(q)' <=> Copying(q)
        /\ active' = active
    BY DEF GraphFill, SameStaging, SamePresent, SameHold, StagedPort, Copying,
           stagingVars, cycleVars, portVars
  <2>6. /\ avail'[q] = avail[q] \ {b}
        /\ ready'[q] = ready[q] \cup {b}
    BY <1>2 DEF GraphFill, IInv, TypeOK, PoolType
  <2>7. StagingInv(q)'
    BY <2>1, <2>4, <2>5 DEF IInv, PortInv, StagingInv, SameStaging, GraphFill,
                            cycleVars
  <2>8. PoolInv(q)'
    BY <2>1, <2>3, <2>5, <2>6 DEF IInv, PortInv, PoolInv, SamePresent, SameHold,
                                  Retained
  <2>9. ASSUME q \in InPorts PROVE HeldInv(q)'
    BY <2>1, <2>4, <2>5, <2>9 DEF IInv, PortInv, HeldInv, HeldSource,
         SameStaging, SamePresent, SameHold, Retained
  <2>10. ASSUME q \in InPorts PROVE BuffersInv(q)'
    BY <2>1, <2>4, <2>5, <2>10 DEF IInv, PortInv, BuffersInv, Source, Retained,
         SameStaging, SamePresent, SameHold
  <2>11. OutputInv(q)'
    <3>1. ASSUME q \notin InPorts \cup UnmappedPorts PROVE mem'[q][b] # Empty
      BY <1>2, <3>1 DEF GraphFill, IInv, TypeOK, PoolType, Blank, Empty
    <3>2. \A m \in ready[q] : mem[q][m] = mem'[q][m] \/ m = b
      BY <2>2 DEF IInv, TypeOK, PoolType
    <3> QED BY <2>6, <3>1, <3>2 DEF IInv, PortInv, OutputInv
  <2> QED BY <2>7, <2>8, <2>9, <2>10, <2>11 DEF PortInv
<1> QED BY <1>1, <1>2

(***************************************************************************)
(* The cycle.                                                              *)
(***************************************************************************)

LEMMA CycleBeginPort ==
  ASSUME IInv, NEW q \in Ports, CycleBegin
  PROVE  PortInv(q)'
<1>1. SamePool(q) /\ SameStaging(q) /\ SamePresent(q) /\ SameHold(q)
  BY DEF CycleBegin, SamePool, SameStaging, SamePresent, SameHold, portVars,
         poolVars
<1>2. ~ StagedPort(q) /\ ~ StagedPort(q)' /\ ~ (q < next)'
  BY PortsAssumption DEF CycleBegin, StagedPort, Ports
<1> QED BY <1>1, <1>2, Frame DEF IInv, CycleBegin, Copying

LEMMA StageEndPort ==
  ASSUME IInv, NEW q \in Ports, StageEnd
  PROVE  PortInv(q)'
<1>1. SamePool(q) /\ SameStaging(q) /\ SamePresent(q) /\ SameHold(q)
  BY DEF StageEnd, SamePool, SameStaging, SamePresent, SameHold, portVars,
         poolVars
<1>2. StagedPort(q) /\ StagedPort(q)'
  BY PortsAssumption DEF StageEnd, StagedPort, Ports
<1> QED BY <1>1, <1>2, Frame DEF IInv, StageEnd, Copying

LEMMA StartPort ==
  ASSUME IInv, NEW q \in Ports, Start
  PROVE  PortInv(q)'
<1>1. SamePool(q) /\ SameStaging(q) /\ SamePresent(q) /\ SameHold(q)
  BY DEF Start, SamePool, SameStaging, SamePresent, SameHold, portVars,
         poolVars, stagingVars
<1>2. StagedPort(q)' <=> StagedPort(q)
  BY DEF Start, StagedPort, cycleVars
<1> QED BY <1>1, <1>2, Frame DEF IInv, Start, Copying, stagingVars, cycleVars

LEMMA CycleEndPort ==
  ASSUME IInv, NEW q \in Ports, CycleEnd
  PROVE  PortInv(q)'
<1>1. /\ SameStaging(q) /\ SameHold(q)
      /\ latest'[q] = latest[q] /\ ready'[q] = ready[q] /\ mem'[q] = mem[q]
      /\ active' = active
  BY DEF Returned, CycleEnd, SameStaging, SameHold, stagingVars
<1>2. /\ dequeued'[q] = NULL
      /\ avail'[q] = avail[q] \cup ({dequeued[q]} \ {NULL})
  BY DEF Returned, CycleEnd
<1>3. ~ StagedPort(q)' /\ cyc' = "idle"
  BY DEF Returned, CycleEnd, StagedPort
<1>4. StagingInv(q)'
  BY <1>1, <1>3 DEF Returned, IInv, PortInv, StagingInv, SameStaging, Copying, CycleEnd,
                    stagingVars
<1>5. PoolInv(q)'
  BY <1>1, <1>2 DEF IInv, PortInv, PoolInv, SameHold, Retained
<1>6. ASSUME q \in InPorts PROVE HeldInv(q)'
  BY <1>1, <1>6 DEF IInv, PortInv, HeldInv, HeldSource, SameStaging, SameHold
<1>7. OutputInv(q)'
  BY <1>1 DEF IInv, PortInv, OutputInv
<1> QED BY <1>3, <1>4, <1>5, <1>6, <1>7 DEF PortInv, BuffersInv

LEMMA StopPort ==
  ASSUME IInv, NEW q \in Ports, Stop
  PROVE  PortInv(q)'
<1>1. /\ SameStaging(q)
      /\ dequeued'[q] = dequeued[q] /\ ready'[q] = ready[q] /\ mem'[q] = mem[q]
  BY DEF Released, Stop, SameStaging, stagingVars
<1>2. /\ held'[q] = NULL /\ has_held'[q] = FALSE /\ latest'[q] = Empty
      /\ avail'[q] = avail[q] \cup ({held[q]} \ {NULL})
  BY DEF Released, Stop
<1>3. ~ StagedPort(q) /\ ~ StagedPort(q)' /\ cyc' = "idle"
  BY DEF Released, Stop, StagedPort, cycleVars
<1>4. StagingInv(q)'
  BY <1>1, <1>3 DEF Released, IInv, PortInv, StagingInv, SameStaging, Copying, Stop,
                    stagingVars
<1>5. PoolInv(q)'
  BY <1>1, <1>2, <1>3 DEF IInv, PortInv, PoolInv, Retained
<1>6. HeldInv(q)'
  BY <1>2 DEF HeldInv
<1>7. OutputInv(q)'
  BY <1>1 DEF IInv, PortInv, OutputInv
<1> QED BY <1>3, <1>4, <1>5, <1>6, <1>7 DEF PortInv, BuffersInv

(***************************************************************************)
(* Staging port p.                                                         *)
(***************************************************************************)

LEMMA StagingOther ==
  ASSUME IInv, NEW q \in Ports, NEW p \in Ports, q # p, StagePort(p)
  PROVE  PortInv(q)'
<1>1. Staging(p)
  BY DEF StagePort, StagePushed, StageFrame, StageEmptyFrame, StageNothing,
         StageOutput
<1>2. SamePool(q) /\ SameStaging(q) /\ SamePresent(q) /\ SameHold(q)
  <2>1. CASE StagePushed(p)
    BY <2>1
    DEF NextSeq, Released, StagePushed, Staging, Deliver, SamePool, SameStaging, SamePresent,
        SameHold, IInv, TypeOK, StagingType, PresentType, HoldType, PoolType
  <2>2. ASSUME NEW b \in Buffers, StageFrame(p, b)
        PROVE  SamePool(q) /\ SameStaging(q) /\ SamePresent(q) /\ SameHold(q)
    BY <2>2
    DEF NextSeq, Released, StageFrame, Staging, Deliver, SamePool, SameStaging, SamePresent,
        SameHold, IInv, TypeOK, StagingType, PresentType, HoldType, PoolType
  <2>3. ASSUME NEW b \in Buffers, StageEmptyFrame(p, b)
        PROVE  SamePool(q) /\ SameStaging(q) /\ SamePresent(q) /\ SameHold(q)
    BY <2>3
    DEF StageEmptyFrame, Staging, Represent, SamePool, SameStaging, SamePresent,
        SameHold, IInv, TypeOK, StagingType, PresentType, HoldType, PoolType
  <2>4. CASE StageNothing(p)
    BY <2>4
    DEF StageNothing, Staging, Represent, SamePool, SameStaging, SamePresent,
        SameHold, IInv, TypeOK, StagingType, PresentType, HoldType, PoolType
  <2>5. CASE StageOutput(p)
    BY <2>5
    DEF StageOutput, Staging, SamePool, SameStaging, SamePresent,
        SameHold, IInv, TypeOK, StagingType, PresentType, HoldType, PoolType
  <2> QED BY <2>1, <2>2, <2>3, <2>4, <2>5 DEF StagePort
<1>3. q < next' <=> q < next
  BY <1>1, PortsAssumption DEF Staging, IInv, TypeOK, CycleType, Ports
<1>4. StagedPort(q)' <=> StagedPort(q)
  BY <1>1, <1>3 DEF Staging, StagedPort
<1> QED BY <1>1, <1>2, <1>3, <1>4, Frame DEF IInv, Staging, Copying

\* A port about to be staged holds no buffer from this cycle yet, and the push
\* side is settled if the cycle owns the lock.
LEMMA BeforeStaging ==
  ASSUME IInv, NEW p \in Ports, Staging(p)
  PROVE  /\ dequeued[p] = NULL
         /\ StagedPort(p)'
         /\ active
         /\ staged => push.phase = "idle"
         /\ p < next'
         /\ mem' = mem /\ active' = active /\ push' = push /\ staged' = staged
<1>1. cyc = "stage" /\ next = p /\ next' = p + 1 /\ cyc' = "stage"
  BY DEF Staging
<1>2. ~ StagedPort(p) /\ StagedPort(p)' /\ p < next'
  BY <1>1, PortsAssumption DEF StagedPort, Ports
<1> QED
  BY <1>1, <1>2, ThreadsAssumption
  DEF IInv, LockInv, Callers, PortInv, PoolInv, Staging

\* Dequeueing b from a pool that lends out h: what is left where.
LEMMA PoolMove ==
  ASSUME NEW A, NEW R, NEW h, NEW b \in R \cup {NULL}, NULL \notin A \cup R,
         A \cap R = {}, (A \cup R) \cap ({h} \ {NULL}) = {}
  PROVE  /\ (A \cup ({h} \ {NULL})) \cap (R \ {b}) = {}
         /\ ((A \cup ({h} \ {NULL})) \cup (R \ {b})) \cap ({b} \ {NULL}) = {}
         /\ (A \cup (R \ {b})) \cap ({b, h} \ {NULL}) = {}
         /\ A \cup (R \ {b}) \cup ({b, h} \ {NULL}) = A \cup R \cup ({h} \ {NULL})
         /\ (A \cup ({h} \ {NULL})) \cup (R \ {b}) \cup ({b} \ {NULL})
              = A \cup R \cup ({h} \ {NULL})
         /\ b # NULL => b # h
BY Zenon

LEMMA PoolBefore ==
  ASSUME IInv, NEW p \in Ports, Staging(p)
  PROVE  /\ NULL \notin avail[p] \cup ready[p]
         /\ avail[p] \cap ready[p] = {}
         /\ (avail[p] \cup ready[p]) \cap ({held[p]} \ {NULL}) = {}
         /\ KeepsPool(p) =>
              avail[p] \cup ready[p] \cup ({held[p]} \ {NULL}) = Buffers
         /\ ~ has_held[p] => held[p] = NULL
         /\ has_held[p] => p \in HoldPorts
         /\ active /\ active' /\ StagedPort(p)'
<1>1. dequeued[p] = NULL /\ active /\ active' /\ StagedPort(p)'
  BY BeforeStaging
<1>2. Retained(p) = {held[p]} \ {NULL}
  BY <1>1 DEF Retained
<1>3. NULL \notin avail[p] \cup ready[p]
  BY MemoryAssumption DEF IInv, TypeOK, PoolType
<1> QED BY <1>1, <1>2, <1>3 DEF IInv, PortInv, PoolInv

\* What Deliver establishes at p: the content presented is whole and, on a
\* holding port, is from now on the content held.
LEMMA DeliverSelf ==
  ASSUME IInv, NEW p \in InPorts, NEW d \in Pointer, NEW m \in Contents,
         NEW b \in Buffers \cup {NULL}, NEW dm \in Buffers \cup {NULL},
         Staging(p), Deliver(p, d, m, b, dm),
         LET s == IF d # NULL THEN d ELSE dm
         IN  s # NULL /\ s \in ({b} \ {NULL}) \cup {delivered_data'[p]}
                      /\ mem[p][s] = m,
         b \in ready[p] \cup {NULL},
         ready'[p] = ready[p] \ {b}
  PROVE  PoolInv(p)' /\ HeldInv(p)' /\ BuffersInv(p)'
<1> DEFINE s == IF d # NULL THEN d ELSE dm
<1>0. p \in Ports
  BY PortsAssumption
<1>1. /\ dequeued[p] = NULL /\ StagedPort(p)' /\ active /\ active' /\ mem' = mem
  BY <1>0, BeforeStaging
<1>2. /\ buffers'[p].data = d /\ buffers'[p].pts = m /\ buffers'[p].fresh = TRUE
      /\ current_dmabuf_buf'[p] = dm /\ latest'[p] = m
  BY <1>0 DEF NextSeq, Released, Deliver, IInv, TypeOK, PresentType
<1>3. Source(p)' = s
  BY <1>2 DEF Source
<1>4. CASE p \in HoldPorts
  <2>1. /\ avail'[p] = avail[p] \cup ({held[p]} \ {NULL})
        /\ held'[p] = b /\ has_held'[p] = TRUE /\ dequeued'[p] = NULL
    BY <1>0, <1>1, <1>4 DEF NextSeq, Released, Deliver, IInv, TypeOK, PoolType, HoldType
  <2>2. /\ held_data'[p] = d /\ held_pts'[p] = m /\ held_dmabuf_buf'[p] = dm
    BY <1>0, <1>4 DEF NextSeq, Released, Deliver, IInv, TypeOK, HoldType
  <2>3. PoolInv(p)'
    <3>1. Retained(p)' = {b} \ {NULL}
      BY <2>1 DEF Retained
    <3>2. KeepsPool(p)' <=> KeepsPool(p)
      BY DEF KeepsPool
    <3> QED BY <1>0, <1>4, <2>1, <3>1, <3>2, PoolBefore, PoolMove DEF PoolInv
  <2>4. HeldSource(p)' = s
    BY <2>2 DEF HeldSource
  <2>5. HeldInv(p)'
    BY <1>1, <1>2, <2>1, <2>2, <2>4 DEF HeldInv
  <2>6. BuffersInv(p)'
    BY <1>1, <1>2, <1>3, <1>4, <2>1 DEF BuffersInv, Retained
  <2> QED BY <2>3, <2>5, <2>6
<1>5. CASE p \notin HoldPorts
  <2>1. /\ avail'[p] = avail[p] /\ dequeued'[p] = b /\ held'[p] = held[p]
        /\ has_held'[p] = has_held[p]
    BY <1>0, <1>5 DEF NextSeq, Released, Deliver, IInv, TypeOK, PresentType
  <2>2. ~ has_held[p] /\ held[p] = NULL
    BY <1>0, <1>5 DEF IInv, PortInv, PoolInv
  <2>3. PoolInv(p)'
    <3>1. Retained(p)' = {b, held[p]} \ {NULL}
      BY <2>1 DEF Retained
    <3>2. KeepsPool(p)' <=> KeepsPool(p)
      BY DEF KeepsPool
    <3> QED BY <1>0, <1>5, <2>1, <2>2, <3>1, <3>2, PoolBefore, PoolMove
            DEF PoolInv
  <2>4. HeldInv(p)'
    BY <1>5, <2>1, <2>2 DEF HeldInv
  <2>5. BuffersInv(p)'
    BY <1>1, <1>2, <1>3, <1>5, <2>1 DEF BuffersInv, Retained
  <2> QED BY <2>3, <2>4, <2>5
<1> QED BY <1>4, <1>5

\* What Represent establishes at p: the held content again, or nothing.
LEMMA RepresentSelf ==
  ASSUME IInv, NEW p \in InPorts, NEW b \in Buffers \cup {NULL},
         Staging(p), Represent(p, b),
         delivered_data'[p] = delivered_data[p],
         b \in ready[p] \cup {NULL},
         ready'[p] = ready[p] \ {b}
  PROVE  PoolInv(p)' /\ HeldInv(p)' /\ BuffersInv(p)'
<1>0. p \in Ports
  BY PortsAssumption
<1>1. /\ dequeued[p] = NULL /\ StagedPort(p)' /\ active /\ active' /\ mem' = mem
  BY <1>0, BeforeStaging
<1>2. /\ SameHold(p) /\ latest'[p] = latest[p] /\ avail'[p] = avail[p]
      /\ dequeued'[p] = b
  BY <1>0 DEF Represent, SameHold, IInv, TypeOK, PresentType
<1>3. PoolInv(p)'
  <2>1. Retained(p)' = {b, held[p]} \ {NULL}
    BY <1>2 DEF Retained, SameHold
  <2>2. KeepsPool(p)' <=> KeepsPool(p)
    BY DEF KeepsPool
  <2> QED BY <1>0, <1>2, <2>1, <2>2, PoolBefore, PoolMove
          DEF PoolInv, SameHold
<1>4. HeldInv(p)'
  BY <1>0, <1>1, <1>2 DEF IInv, PortInv, HeldInv, HeldSource, SameHold
<1>5. CASE has_held[p]
  <2>1. /\ buffers'[p].data = held_data[p] /\ buffers'[p].pts = held_pts[p]
        /\ current_dmabuf_buf'[p] = held_dmabuf_buf[p]
    BY <1>0, <1>5 DEF Represent, IInv, TypeOK, PresentType
  <2>2. Source(p)' = HeldSource(p)
    BY <2>1 DEF Source, HeldSource
  <2>3. /\ HeldSource(p) \in ({held[p]} \ {NULL}) \cup {delivered_data[p]}
        /\ mem[p][HeldSource(p)] = held_pts[p]
        /\ held_pts[p] = latest[p]
        /\ p \in HoldPorts
    BY <1>0, <1>5 DEF IInv, PortInv, HeldInv, PoolInv
  <2>4. HeldSource(p) # NULL
    BY <1>0, <2>3, MemoryAssumption DEF IInv, TypeOK, StagingType
  <2> QED
    BY <1>1, <1>2, <1>3, <1>4, <2>1, <2>2, <2>3, <2>4
    DEF BuffersInv, Retained, SameHold
<1>6. CASE ~ has_held[p]
  <2>1. /\ buffers'[p].data = NULL /\ buffers'[p].fresh = FALSE
        /\ current_dmabuf_buf'[p] = NULL
    BY <1>0, <1>6 DEF Represent, IInv, TypeOK, PresentType
  <2>2. Source(p)' = NULL /\ ~ has_held'[p]
    BY <1>2, <1>6, <2>1 DEF Source, SameHold
  <2> QED BY <1>3, <1>4, <2>1, <2>2 DEF BuffersInv
<1> QED BY <1>5, <1>6

LEMMA StagePushedSelf ==
  ASSUME IInv, NEW p \in Ports, StagePushed(p)
  PROVE  PortInv(p)'
<1>1. /\ Staging(p) /\ p \in InPorts /\ staged /\ pushed_pending[p]
      /\ Deliver(p, pushed_data[p], pushed_pts[p], NULL, NULL)
      /\ ready' = ready
  BY DEF StagePushed, PushWaits
<1>2. /\ pushed_data'[p] = delivered_data[p]
      /\ delivered_data'[p] = pushed_data[p]
      /\ pushed_pending'[p] = FALSE
  BY DEF StagePushed, IInv, TypeOK, StagingType
<1>3. push.phase = "idle"
  BY <1>1, BeforeStaging
<1>4. /\ pushed_data[p] # delivered_data[p]
      /\ mem[p][pushed_data[p]] = pushed_pts[p]
  BY <1>1, <1>3 DEF IInv, PortInv, StagingInv, Copying
<1>5. /\ pushed_data[p] \in Pointer /\ pushed_data[p] # NULL
      /\ pushed_pts[p] \in Contents
  BY MemoryAssumption DEF IInv, TypeOK, StagingType, Pointer, Contents
<1>6. NULL \notin ready[p] /\ ready'[p] = ready[p] \ {NULL}
  BY <1>1, PoolBefore
<1>7. PoolInv(p)' /\ HeldInv(p)' /\ BuffersInv(p)'
  BY <1>1, <1>2, <1>4, <1>5, <1>6, DeliverSelf
<1>8. StagingInv(p)'
  BY <1>2, <1>4 DEF StagingInv
<1> QED BY <1>1, <1>7, <1>8 DEF PortInv, OutputInv

LEMMA StageFrameSelf ==
  ASSUME IInv, NEW p \in Ports, NEW b \in Buffers, StageFrame(p, b)
  PROVE  PortInv(p)'
<1>1. /\ Staging(p) /\ p \in InPorts /\ b \in ready[p]
      /\ ~ (staged /\ pushed_pending[p])
  BY DEF StageFrame, PushWaits
<1>2. ready'[p] = ready[p] \ {b}
  BY DEF StageFrame, IInv, TypeOK, PoolType
<1>3. b \in Pointer /\ NULL \in Pointer /\ b # NULL /\ mem[p][b] \in Contents
  BY MemoryAssumption DEF IInv, TypeOK, PoolType, Pointer
<1>4. PoolInv(p)' /\ HeldInv(p)' /\ BuffersInv(p)'
  <2>1. CASE p \in DmabufPorts
    <3>1. Deliver(p, NULL, mem[p][b], b, b)
      BY <2>1 DEF StageFrame
    <3> QED BY <1>1, <1>2, <1>3, <3>1, DeliverSelf
  <2>2. CASE p \notin DmabufPorts
    <3>1. Deliver(p, b, mem[p][b], b, NULL)
      BY <2>2 DEF StageFrame
    <3> QED BY <1>1, <1>2, <1>3, <3>1, DeliverSelf
  <2> QED BY <2>1, <2>2
<1>5. StagingInv(p)'
  BY <1>1 DEF IInv, PortInv, StagingInv, StageFrame, Staging, Copying
<1> QED BY <1>1, <1>4, <1>5 DEF PortInv, OutputInv

LEMMA StageEmptyFrameSelf ==
  ASSUME IInv, NEW p \in Ports, NEW b \in Buffers, StageEmptyFrame(p, b)
  PROVE  PortInv(p)'
<1>1. /\ Staging(p) /\ p \in InPorts /\ b \in ready[p] /\ Represent(p, b)
      /\ ~ (staged /\ pushed_pending[p])
      /\ delivered_data'[p] = delivered_data[p]
  BY DEF StageEmptyFrame, PushWaits
<1>2. ready'[p] = ready[p] \ {b}
  BY DEF StageEmptyFrame, IInv, TypeOK, PoolType
<1>3. PoolInv(p)' /\ HeldInv(p)' /\ BuffersInv(p)'
  BY <1>1, <1>2, RepresentSelf
<1>4. StagingInv(p)'
  BY <1>1 DEF IInv, PortInv, StagingInv, StageEmptyFrame, Staging, Copying
<1> QED BY <1>1, <1>3, <1>4 DEF PortInv, OutputInv

LEMMA StageNothingSelf ==
  ASSUME IInv, NEW p \in Ports, StageNothing(p)
  PROVE  PortInv(p)'
<1>1. /\ Staging(p) /\ p \in InPorts /\ Represent(p, NULL)
      /\ ~ (staged /\ pushed_pending[p])
      /\ delivered_data'[p] = delivered_data[p]
      /\ ready'[p] = ready[p] \ {NULL}
  BY DEF StageNothing, PushWaits
<1>2. PoolInv(p)' /\ HeldInv(p)' /\ BuffersInv(p)'
  BY <1>1, RepresentSelf
<1>3. StagingInv(p)'
  BY <1>1 DEF IInv, PortInv, StagingInv, StageNothing, Staging, Copying
<1> QED BY <1>1, <1>2, <1>3 DEF PortInv, OutputInv

LEMMA StageOutputSelf ==
  ASSUME IInv, NEW p \in Ports, StageOutput(p)
  PROVE  PortInv(p)'
<1>1. Staging(p) /\ p \notin InPorts
  BY DEF StageOutput
<1>2. /\ held'[p] = held[p] /\ has_held'[p] = has_held[p]
      /\ avail'[p] = avail[p] /\ mem' = mem
  BY DEF StageOutput, Staging
<1>3. ~ has_held[p] /\ held[p] = NULL
  BY <1>1, PortsAssumption DEF IInv, PortInv, PoolInv
<1>4. StagingInv(p)'
  BY <1>1 DEF IInv, PortInv, StagingInv, StageOutput, Staging, Copying
<1>5. PoolInv(p)'
  <2>1. CASE ready'[p] = ready[p] /\ dequeued'[p] = dequeued[p]
    <3>1. Retained(p)' = {NULL, held[p]} \ {NULL}
      BY <1>1, <1>2, <2>1, BeforeStaging DEF Retained
    <3> QED
      BY <1>1, <1>2, <1>3, <2>1, <3>1, PoolBefore, BeforeStaging
      DEF PoolInv, KeepsPool
  <2>2. ASSUME NEW b \in ready[p], ready'[p] = ready[p] \ {b},
               \/ mem[p][b] # Empty /\ dequeued'[p] = b
               \/ mem[p][b] = Empty /\ dequeued'[p] = dequeued[p]
        PROVE  PoolInv(p)'
    <3>1. CASE dequeued'[p] = b
      <4>1. Retained(p)' = {b, held[p]} \ {NULL}
        BY <1>2, <3>1 DEF Retained
      <4>2. KeepsPool(p)' <=> KeepsPool(p)
        BY DEF KeepsPool
      <4> QED
        BY <1>2, <1>3, <2>2, <3>1, <4>1, <4>2, PoolBefore, PoolMove, <1>1
        DEF PoolInv
    <3>2. CASE mem[p][b] = Empty /\ dequeued'[p] = dequeued[p]
      <4>1. Retained(p)' = {NULL, held[p]} \ {NULL}
        BY <1>1, <1>2, <3>2, BeforeStaging DEF Retained
      <4>2. ~ KeepsPool(p)
        BY <1>1, <2>2, <3>2 DEF KeepsPool, IInv, PortInv, OutputInv
      <4> QED
        BY <1>1, <1>2, <1>3, <2>2, <3>2, <4>1, <4>2, PoolBefore, BeforeStaging
        DEF PoolInv, KeepsPool
    <3> QED BY <2>2, <3>1, <3>2
  <2> QED BY <2>1, <2>2 DEF StageOutput, IInv, TypeOK, PoolType, PresentType
<1>6. OutputInv(p)'
  BY <1>2 DEF IInv, PortInv, OutputInv, StageOutput, TypeOK, PoolType
<1> QED BY <1>1, <1>4, <1>5, <1>6 DEF PortInv

(***************************************************************************)
(* The invariant is inductive, and what follows from it.                   *)
(***************************************************************************)

LEMMA InvInit == Init => IInv
<1> SUFFICES ASSUME Init PROVE IInv
  OBVIOUS
<1>1. TypeOK
  BY TypeInit
<1>2. LockInv
  BY ThreadsAssumption DEF Init, LockInv, IdlePush, Callers
<1>3. ASSUME NEW p \in Ports PROVE PortInv(p)
  <2>1. StagingInv(p)
    BY MemoryAssumption DEF Init, StagingInv
  <2>2. PoolInv(p)
    BY DEF Init, PoolInv, Retained
  <2>3. HeldInv(p) /\ BuffersInv(p) /\ OutputInv(p)
    BY DEF Init, HeldInv, BuffersInv, OutputInv, StagedPort
  <2> QED BY <2>1, <2>2, <2>3 DEF PortInv
<1> QED BY <1>1, <1>2, <1>3 DEF IInv

LEMMA StagingStep ==
  ASSUME IInv, NEW q \in Ports, NEW p \in Ports, StagePort(p)
  PROVE  PortInv(q)'
<1>1. CASE q # p
  BY <1>1, StagingOther
<1>2. CASE q = p
  BY <1>2, StagePushedSelf, StageFrameSelf, StageEmptyFrameSelf,
     StageNothingSelf, StageOutputSelf DEF StagePort
<1> QED BY <1>1, <1>2

LEMMA InvStep == IInv /\ [Next]_vars => IInv'
<1> SUFFICES ASSUME IInv, [Next]_vars PROVE IInv'
  OBVIOUS
<1>1. TypeOK'
  BY TypeStep DEF IInv
<1>2. LockInv'
  BY LockStep DEF IInv
<1>3. ASSUME NEW q \in Ports PROVE PortInv(q)'
  <2>1. ASSUME NEW c \in Callers, NEW p \in InPorts, PushLock(c, p)
        PROVE  PortInv(q)'
    BY <2>1, PushLockPort
  <2>2. CASE PushStep
    BY <2>2, PushNoMemoryPort, PushCopyPort, PushDonePort DEF PushStep
  <2>3. ASSUME NEW p \in Ports, NEW b \in Buffers, GraphFill(p, b)
        PROVE  PortInv(q)'
    BY <2>3, GraphFillPort
  <2>4. CASE CycleStep
    BY <2>4, CycleBeginPort, StagingStep, StageEndPort, CycleEndPort
    DEF CycleStep
  <2>5. CASE Start
    BY <2>5, StartPort
  <2>6. CASE Stop
    BY <2>6, StopPort
  <2>7. CASE UNCHANGED vars
    <3>1. SamePool(q) /\ SameStaging(q) /\ SamePresent(q) /\ SameHold(q)
      BY <2>7 DEF vars, stagingVars, portVars, poolVars, SamePool, SameStaging,
                  SamePresent, SameHold
    <3>2. StagedPort(q)' <=> StagedPort(q)
      BY <2>7 DEF vars, cycleVars, StagedPort
    <3> QED BY <2>7, <3>1, <3>2, Frame DEF IInv, vars, cycleVars, stagingVars,
                                           Copying
  <2> QED BY <2>1, <2>2, <2>3, <2>4, <2>5, <2>6, <2>7 DEF Next
<1> QED BY <1>1, <1>2, <1>3 DEF IInv

LEMMA Invariance == Spec => []IInv
BY InvInit, InvStep, PTL DEF Spec

\* What a callback reads through a port's data pointer or plane accessor is
\* whole and belongs to the pts and size it comes with, for any number of
\* ports, pushing threads and buffers.
THEOREM WholeDelivery == Spec => []DeliveredIsWhole
<1>1. IInv => DeliveredIsWhole
  BY PortsAssumption
  DEF IInv, PortInv, BuffersInv, DeliveredIsWhole, StagedPort
<1> QED BY <1>1, Invariance, PTL

\* A holding port presents its most recent content at every callback; a port
\* that does not hold presents fresh data or none.
THEOREM HoldKeepsLatest == Spec => []HoldPresentsLatest
<1>1. IInv => HoldPresentsLatest
  <2> SUFFICES ASSUME IInv, cyc = "callback", NEW p \in InPorts
               PROVE  IF p \in HoldPorts
                        THEN latest[p] # Empty =>
                               Source(p) # NULL /\ mem[p][Source(p)] = latest[p]
                        ELSE buffers[p].fresh <=> Source(p) # NULL
    BY DEF HoldPresentsLatest
  <2>1. HeldInv(p) /\ BuffersInv(p) /\ StagedPort(p)
    BY PortsAssumption DEF IInv, PortInv, StagedPort
  <2> QED BY <2>1 DEF HeldInv, BuffersInv
<1> QED BY <1>1, Invariance, PTL

\* Hold, replacement by a push, empty frames and stop neither lose a buffer of
\* a port's pool nor requeue one twice.
THEOREM PoolIsConserved == Spec => []PoolConserved
<1>1. IInv => PoolConserved
  BY DEF IInv, PortInv, PoolInv, PoolConserved
<1> QED BY <1>1, Invariance, PTL

\* A cycle that gets push_lock leaves no staged push behind.
THEOREM StagedCycleDeliversAll == Spec => []StagedCycleTakesAll
<1>1. IInv => StagedCycleTakesAll
  BY PortsAssumption DEF IInv, PortInv, StagingInv, StagedCycleTakesAll
<1> QED BY <1>1, Invariance, PTL

\* Between cycles hold keeps at most one buffer of a port, and none on a port
\* that does not hold or on a stopped filter: a source whose pool is one buffer
\* larger than it needs can always queue a frame.
THEOREM SourceIsFed == Spec => []SourceNotStarved
<1>1. IInv => SourceNotStarved
  <2> SUFFICES ASSUME IInv, cyc = "idle", NEW p \in InPorts
               PROVE  /\ Cardinality(Buffers \ (avail[p] \cup ready[p])) <= 1
                      /\ p \notin HoldPorts \/ ~ active =>
                           avail[p] \cup ready[p] = Buffers
    BY DEF SourceNotStarved
  <2> DEFINE kept == Buffers \ (avail[p] \cup ready[p])
  <2>1. /\ p \in Ports /\ dequeued[p] = NULL
        /\ avail[p] \cup ready[p] \cup Retained(p) = Buffers
        /\ ~ has_held[p] => held[p] = NULL
        /\ has_held[p] => p \in HoldPorts /\ active
    BY PortsAssumption DEF IInv, PortInv, PoolInv, StagedPort, KeepsPool
  <2>2. Retained(p) = {held[p]} \ {NULL}
    BY <2>1 DEF Retained
  <2>3. kept = {} \/ kept = {held[p]}
    BY <2>1, <2>2
  <2>4. Cardinality(kept) <= 1
    <3>1. Cardinality({}) = 0 /\ Cardinality({held[p]}) = 1
      BY FS_EmptySet, FS_Singleton
    <3> HIDE DEF kept
    <3> QED BY <2>3, <3>1
  <2> QED BY <2>1, <2>2, <2>4
<1> QED BY <1>1, Invariance, PTL

(***************************************************************************)
(* Sequence numbers.                                                       *)
(***************************************************************************)

\* What SeqCountsFresh says of one port.
Counted(p) ==
  /\ update_seq'[p] # update_seq[p] =>
       buffers'[p].fresh /\ update_seq'[p] = update_seq[p] + 1
  /\ buffers'[p] \notin {buffers[p], NoData} =>
       /\ buffers'[p].seq = update_seq'[p]
       /\ buffers'[p].fresh => update_seq'[p] # update_seq[p]

LEMMA DeliverCounts ==
  ASSUME TypeOK, NEW p \in Ports, NEW d, NEW m, NEW b, NEW dm,
         Deliver(p, d, m, b, dm)
  PROVE  Counted(p)
<1>1. update_seq[p] \in Nat
  BY DEF TypeOK, PresentType
<1>2. update_seq'[p] = update_seq[p] + 1
  BY DEF Deliver, NextSeq, TypeOK, PresentType
<1>3. buffers'[p] = [data |-> d, pts |-> m, fresh |-> TRUE, seq |-> update_seq[p] + 1]
  BY DEF Deliver, NextSeq, TypeOK, PresentType
<1> QED BY <1>1, <1>2, <1>3 DEF Counted

LEMMA RepresentCounts ==
  ASSUME TypeOK, NEW p \in Ports, NEW b, Represent(p, b)
  PROVE  Counted(p)
<1>1. update_seq'[p] = update_seq[p]
  BY DEF Represent
<1>2. buffers'[p].fresh = FALSE /\ buffers'[p].seq = update_seq[p]
  BY DEF Represent, TypeOK, PresentType
<1> QED BY <1>1, <1>2 DEF Counted

LEMMA StagingCounts ==
  ASSUME TypeOK, NEW p \in InPorts, NEW q \in Ports, StagePort(q)
  PROVE  Counted(p)
<1>0. p \in Ports
  BY PortsAssumption
<1>1. CASE p # q
  <2>1. update_seq'[p] = update_seq[p] /\ buffers'[p] = buffers[p]
    <3>1. ASSUME NEW d, NEW m, NEW b, NEW dm, Deliver(q, d, m, b, dm)
          PROVE  update_seq'[p] = update_seq[p] /\ buffers'[p] = buffers[p]
      BY <1>0, <1>1, <3>1 DEF Deliver, TypeOK, PresentType
    <3>2. ASSUME NEW b, Represent(q, b)
          PROVE  update_seq'[p] = update_seq[p] /\ buffers'[p] = buffers[p]
      BY <1>0, <1>1, <3>2 DEF Represent, TypeOK, PresentType
    <3>3. CASE StageOutput(q)
      BY <1>0, <1>1, <3>3 DEF StageOutput, TypeOK, PresentType
    <3>4. CASE StagePushed(q)
      BY <3>1, <3>4 DEF StagePushed
    <3>5. ASSUME NEW b \in Buffers, StageFrame(q, b)
          PROVE  update_seq'[p] = update_seq[p] /\ buffers'[p] = buffers[p]
      <4>1. CASE q \in DmabufPorts
        BY <3>1, <3>5, <4>1 DEF StageFrame
      <4>2. CASE q \notin DmabufPorts
        BY <3>1, <3>5, <4>2 DEF StageFrame
      <4> QED BY <4>1, <4>2
    <3>6. ASSUME NEW b \in Buffers, StageEmptyFrame(q, b)
          PROVE  update_seq'[p] = update_seq[p] /\ buffers'[p] = buffers[p]
      BY <3>2, <3>6 DEF StageEmptyFrame
    <3>7. CASE StageNothing(q)
      BY <3>2, <3>7 DEF StageNothing
    <3> QED BY <3>3, <3>4, <3>5, <3>6, <3>7 DEF StagePort
  <2> QED BY <2>1 DEF Counted
<1>2. CASE p = q
  <2>1. CASE StagePushed(p)
    BY <1>0, <2>1, DeliverCounts DEF StagePushed
  <2>2. ASSUME NEW b \in Buffers, StageFrame(p, b) PROVE Counted(p)
    <3>1. CASE p \in DmabufPorts
      BY <1>0, <2>2, <3>1, DeliverCounts DEF StageFrame
    <3>2. CASE p \notin DmabufPorts
      BY <1>0, <2>2, <3>2, DeliverCounts DEF StageFrame
    <3> QED BY <3>1, <3>2
  <2>3. ASSUME NEW b \in Buffers, StageEmptyFrame(p, b) PROVE Counted(p)
    BY <1>0, <2>3, RepresentCounts DEF StageEmptyFrame
  <2>4. CASE StageNothing(p)
    BY <1>0, <2>4, RepresentCounts DEF StageNothing
  <2>5. ~ StageOutput(p)
    BY DEF StageOutput
  <2> QED BY <1>2, <2>1, <2>2, <2>3, <2>4, <2>5 DEF StagePort
<1> QED BY <1>1, <1>2

LEMMA StepCounts ==
  ASSUME TypeOK, Next, NEW p \in InPorts
  PROVE  Counted(p)
<1>0. p \in Ports
  BY PortsAssumption
<1>1. CASE update_seq' = update_seq /\ buffers' = buffers
  BY <1>1 DEF Counted
<1>2. ASSUME NEW c \in Callers, NEW q \in InPorts, PushLock(c, q) PROVE Counted(p)
  BY <1>1, <1>2 DEF PushLock, portVars
<1>3. CASE PushStep
  BY <1>1, <1>3 DEF PushStep, PushNoMemory, PushCopy, PushDone, portVars
<1>4. ASSUME NEW q \in Ports, NEW b \in Buffers, GraphFill(q, b) PROVE Counted(p)
  BY <1>1, <1>4 DEF GraphFill, portVars
<1>5. CASE CycleBegin \/ StageEnd \/ Start \/ Stop
  BY <1>1, <1>5 DEF CycleBegin, StageEnd, Start, Stop, portVars
<1>6. CASE CycleEnd
  <2>1. update_seq' = update_seq /\ buffers'[p] = NoData
    BY <1>0, <1>6 DEF CycleEnd
  <2> QED BY <2>1 DEF Counted
<1>7. ASSUME NEW q \in Ports, StagePort(q) PROVE Counted(p)
  BY <1>7, StagingCounts
<1> QED BY <1>2, <1>3, <1>4, <1>5, <1>6, <1>7 DEF Next, CycleStep

\* seq advances by one exactly with each fresh delivery, and a callback is
\* always given the current one.
THEOREM SeqsAreCounted == Spec => SeqCountsFresh
<1>1. TypeOK /\ [Next]_vars => [\A p \in InPorts : Counted(p)]_vars
  BY StepCounts
<1>2. Spec => [][\A p \in InPorts : Counted(p)]_vars
  BY <1>1, TypeCorrect, PTL DEF Spec
<1>3. [\A p \in InPorts : Counted(p)]_vars
        <=> [\A p \in InPorts :
               /\ update_seq'[p] # update_seq[p] =>
                    buffers'[p].fresh /\ update_seq'[p] = update_seq[p] + 1
               /\ buffers'[p] \notin {buffers[p], NoData} =>
                    /\ buffers'[p].seq = update_seq'[p]
                    /\ buffers'[p].fresh => update_seq'[p] # update_seq[p]]_vars
  BY DEF Counted
<1> QED BY <1>2, <1>3, PTL DEF SeqCountsFresh

(***************************************************************************)
(* A push port is a mailbox.  Pushes are numbered in the order the lock    *)
(* admits them, and the block the data thread reads is behind the last     *)
(* published push exactly while that push waits.                           *)
(***************************************************************************)

NumbersInv ==
  /\ push.phase # "idle" =>
       push.val <= value /\ pushed_pts[push.port] < push.val
  /\ \A p \in InPorts :
       LET got == mem[p][delivered_data[p]]
       IN  /\ pushed_pts[p] <= value
           /\ IF pushed_pending[p]
                THEN got \in Nat /\ got < pushed_pts[p]
                ELSE got = pushed_pts[p]

\* The values the refinement gives the mailbox's variables.
Put == [p \in InPorts |-> IF push.phase = "copying" /\ push.port = p
                            THEN push.val ELSE pushed_pts[p]]

Got == [p \in InPorts |-> mem[p][delivered_data[p]]]

\* A step that leaves staging and the two blocks of every port alone.
LEMMA BlocksKept ==
  ASSUME NumbersInv, push' = push, pushed_pts' = pushed_pts,
         pushed_pending' = pushed_pending, value <= value', value \in Nat,
         value' \in Nat, \A p \in InPorts : pushed_pts[p] \in Nat,
         push.val \in Nat,
         \A p \in InPorts :
           mem'[p][delivered_data'[p]] = mem[p][delivered_data[p]]
  PROVE  NumbersInv' /\ UNCHANGED <<Put, Got>>
<1>1. NumbersInv'
  <2>1. push'.phase # "idle" =>
          push'.val <= value' /\ pushed_pts'[push'.port] < push'.val
    BY DEF NumbersInv
  <2>2. ASSUME NEW p \in InPorts
        PROVE  LET got == mem'[p][delivered_data'[p]]
               IN  /\ pushed_pts'[p] <= value'
                   /\ IF pushed_pending'[p]
                        THEN got \in Nat /\ got < pushed_pts'[p]
                        ELSE got = pushed_pts'[p]
    BY DEF NumbersInv
  <2> QED BY <2>1, <2>2 DEF NumbersInv
<1>2. UNCHANGED <<Put, Got>>
  BY DEF Put, Got
<1> QED BY <1>1, <1>2

LEMMA NumbersType ==
  ASSUME TypeOK
  PROVE  /\ value \in Nat /\ push.val \in Nat
         /\ \A p \in InPorts :
              /\ p \in Ports /\ pushed_pts[p] \in Nat
              /\ pushed_data[p] \in Blocks /\ delivered_data[p] \in Blocks
BY PortsAssumption, MemoryAssumption DEF TypeOK, StagingType, PoolType

LEMMA NumbersInit == Init => NumbersInv /\ Mailbox!Init
<1> SUFFICES ASSUME Init PROVE NumbersInv /\ Mailbox!Init
  OBVIOUS
<1>1. \A p \in InPorts :
        /\ pushed_pts[p] = 0 /\ pushed_pending[p] = FALSE
        /\ mem[p][delivered_data[p]] = 0
  BY PortsAssumption DEF Init, Blocks, Empty
<1>2. push.phase = "idle" /\ value = 0
  BY DEF Init, IdlePush
<1> QED BY <1>1, <1>2 DEF NumbersInv, Mailbox!Init

\* A push that starts to copy is a Put; what it writes is not read by the
\* data thread.
LEMMA PushNumbers ==
  ASSUME IInv, NumbersInv, PushStep
  PROVE  NumbersInv' /\ (UNCHANGED <<Put, Got>> \/ \E p \in InPorts : Mailbox!Put(p))
<1> DEFINE q == push.port
           n == push.val
<1>0. /\ push.phase # "idle" /\ q \in InPorts /\ q \in Ports
      /\ n <= value /\ pushed_pts[q] < n
  BY PortsAssumption
  DEF PushStep, PushNoMemory, PushCopy, PushDone, NumbersInv, IInv, LockInv
<1>t. /\ value \in Nat /\ n \in Nat
      /\ \A p \in InPorts :
           /\ p \in Ports /\ pushed_pts[p] \in Nat
           /\ pushed_data[p] \in Blocks /\ delivered_data[p] \in Blocks
  BY NumbersType DEF IInv
<1>w. ASSUME NEW w \in Contents,
             mem' = [mem EXCEPT ![push.port][pushed_data[push.port]] = w],
             delivered_data' = delivered_data
      PROVE  Got' = Got
  <2>1. ASSUME NEW p \in InPorts
        PROVE  mem'[p][delivered_data'[p]] = mem[p][delivered_data[p]]
    <3>1. pushed_data[p] # delivered_data[p]
      BY <1>t DEF IInv, PortInv, StagingInv
    <3> QED BY <1>w, <1>t, <3>1 DEF IInv, TypeOK, PoolType
  <2> QED BY <2>1 DEF Got
<1>g. \A p \in InPorts : Got[p] = mem[p][delivered_data[p]]
  BY DEF Got
<1>h. (\A p \in InPorts : Got[p] = mem[p][delivered_data[p]])'
  BY DEF Got
<1>1. CASE PushNoMemory
  <2>1. NumbersInv'
    BY <1>1 DEF PushNoMemory, NumbersInv, IdlePush
  <2>2. UNCHANGED <<Put, Got>>
    BY <1>1 DEF PushNoMemory, Put, Got, IdlePush
  <2> QED BY <2>1, <2>2
<1>2. CASE PushCopy
  <2>1. /\ push' = [push EXCEPT !.phase = "copying"] /\ push.phase = "locked"
        /\ UNCHANGED <<delivered_data, pushed_pts, pushed_pending, value>>
        /\ mem' = [mem EXCEPT ![push.port][pushed_data[push.port]] = Torn]
    BY <1>2 DEF PushCopy
  <2>2. Got' = Got
    BY <1>w, <2>1 DEF Contents
  <2>3. push'.phase = "copying" /\ push'.port = q /\ push'.val = n
    BY <2>1 DEF IInv, TypeOK, StagingType
  <2>4. NumbersInv'
    BY <1>0, <1>g, <1>h, <2>1, <2>2, <2>3 DEF NumbersInv
  <2>5. Put' = [Put EXCEPT ![q] = n]
    BY <1>0, <2>1, <2>3 DEF Put
  <2>6. Put[q] = pushed_pts[q] /\ Put'[q] = n
    BY <1>0, <2>1, <2>3 DEF Put
  <2>7. PICK r \in InPorts : r = q
    BY <1>0
  <2>8. Mailbox!Put(r)
    BY <1>0, <1>t, <2>2, <2>5, <2>6, <2>7 DEF Mailbox!Put, Put, Got
  <2> QED BY <2>4, <2>8
<1>3. CASE PushDone
  <2>1. /\ push.phase = "copying" /\ push' = IdlePush
        /\ UNCHANGED <<delivered_data, value>>
        /\ mem' = [mem EXCEPT ![push.port][pushed_data[push.port]] = n]
        /\ pushed_pts' = [pushed_pts EXCEPT ![q] = n]
        /\ pushed_pending' = [pushed_pending EXCEPT ![q] = TRUE]
    BY <1>3 DEF PushDone
  <2>2. Got' = Got
    BY <1>w, <1>t, <2>1 DEF Contents
  <2>3. \A p \in InPorts :
          /\ pushed_pts'[p] = IF p = q THEN n ELSE pushed_pts[p]
          /\ pushed_pending'[p] = IF p = q THEN TRUE ELSE pushed_pending[p]
    BY <1>t, <2>1 DEF IInv, TypeOK, StagingType
  <2>4. ASSUME NEW p \in InPorts
        PROVE  /\ pushed_pts'[p] <= value
               /\ IF pushed_pending'[p]
                    THEN Got[p] \in Nat /\ Got[p] < pushed_pts'[p]
                    ELSE Got[p] = pushed_pts'[p]
    <3>1. Got[p] \in Nat /\ Got[p] <= pushed_pts[p] /\ pushed_pts[p] <= value
      BY <1>t, <1>g DEF NumbersInv
    <3>2. CASE p = q
      <4>1. pushed_pts'[p] = n /\ pushed_pending'[p] = TRUE
        BY <2>3, <3>2
      <4>2. Got[p] < n
        BY <1>0, <1>t, <3>1, <3>2
      <4> QED BY <1>0, <3>1, <4>1, <4>2
    <3>3. CASE p # q
      BY <1>g, <2>3, <3>3 DEF NumbersInv
    <3> QED BY <3>2, <3>3
  <2>5. NumbersInv'
    BY <1>h, <2>1, <2>2, <2>4 DEF NumbersInv, IdlePush
  <2>6. Put' = Put
    BY <2>1, <2>3 DEF Put, IdlePush
  <2> QED BY <2>2, <2>5, <2>6
<1> QED BY <1>1, <1>2, <1>3 DEF PushStep

\* Staging is Take on the port whose push waits, and nothing otherwise.
LEMMA StagingNumbers ==
  ASSUME IInv, NumbersInv, NEW q \in Ports, StagePort(q)
  PROVE  NumbersInv' /\ (UNCHANGED <<Put, Got>> \/ \E p \in InPorts : Mailbox!Take(p))
<1>t. /\ value \in Nat /\ push.val \in Nat
      /\ \A p \in InPorts :
           /\ p \in Ports /\ pushed_pts[p] \in Nat
           /\ pushed_data[p] \in Blocks /\ delivered_data[p] \in Blocks
  BY NumbersType DEF IInv
<1>0. /\ Staging(q) /\ mem' = mem /\ push' = push /\ pushed_pts' = pushed_pts
      /\ value' = value
  BY DEF StagePort, StagePushed, StageFrame, StageEmptyFrame, StageNothing,
         StageOutput, Staging
<1>1. CASE StagePushed(q)
  <2>1. /\ q \in InPorts /\ staged /\ pushed_pending[q]
        /\ delivered_data' = [delivered_data EXCEPT ![q] = pushed_data[q]]
        /\ pushed_pending' = [pushed_pending EXCEPT ![q] = FALSE]
    BY <1>1 DEF StagePushed, PushWaits
  <2>2. push.phase = "idle"
    BY <1>0, <2>1, BeforeStaging
  <2>3. mem[q][pushed_data[q]] = pushed_pts[q]
    BY <2>1, <2>2 DEF IInv, PortInv, StagingInv, Copying
  <2>4. /\ delivered_data'[q] = pushed_data[q] /\ pushed_pending'[q] = FALSE
        /\ \A p \in InPorts \ {q} : /\ delivered_data'[p] = delivered_data[p]
                                    /\ pushed_pending'[p] = pushed_pending[p]
    BY <1>t, <2>1 DEF IInv, TypeOK, StagingType
  <2>5. NumbersInv'
    <3>1. ASSUME NEW p \in InPorts
          PROVE  LET got == mem'[p][delivered_data'[p]]
                 IN  /\ pushed_pts'[p] <= value'
                     /\ IF pushed_pending'[p]
                          THEN got \in Nat /\ got < pushed_pts'[p]
                          ELSE got = pushed_pts'[p]
      <4>1. CASE p = q
        BY <1>0, <2>3, <2>4, <4>1 DEF NumbersInv
      <4>2. CASE p # q
        BY <1>0, <2>4, <4>2 DEF NumbersInv
      <4> QED BY <4>1, <4>2
    <3> QED BY <1>0, <2>2, <3>1 DEF NumbersInv
  <2>6. Put' = Put /\ Put[q] = pushed_pts[q]
    BY <1>0, <2>1, <2>2 DEF Put
  <2>7. Got' = [Got EXCEPT ![q] = Put[q]]
    <3>1. \A p \in InPorts : mem'[p][delivered_data'[p]]
                               = IF p = q THEN Put[q] ELSE mem[p][delivered_data[p]]
      BY <1>0, <2>3, <2>4, <2>6
    <3> QED BY <2>1, <3>1 DEF Got
  <2>8. Got[q] # Put[q]
    BY <1>t, <2>1, <2>6 DEF Got, NumbersInv
  <2>9. Mailbox!Take(q)
    BY <2>6, <2>7, <2>8 DEF Mailbox!Take, Put, Got
  <2> QED BY <2>1, <2>5, <2>9
<1>2. CASE delivered_data' = delivered_data /\ pushed_pending' = pushed_pending
  BY <1>0, <1>2, <1>t, BlocksKept
<1> QED
  BY <1>1, <1>2 DEF StagePort, StageFrame, StageEmptyFrame, StageNothing, StageOutput

LEMMA NumbersStep ==
  ASSUME IInv, NumbersInv, [Next]_vars
  PROVE  NumbersInv' /\ [Mailbox!Next]_(Mailbox!vars)
<1>t. /\ value \in Nat /\ push.val \in Nat
      /\ \A p \in InPorts :
           /\ p \in Ports /\ pushed_pts[p] \in Nat
           /\ pushed_data[p] \in Blocks /\ delivered_data[p] \in Blocks
  BY NumbersType DEF IInv
<1>s. ASSUME UNCHANGED <<Put, Got>> PROVE UNCHANGED Mailbox!vars
  BY <1>s DEF Mailbox!vars, Put, Got
<1>1. ASSUME NEW c \in Callers, NEW q \in InPorts, PushLock(c, q)
      PROVE  NumbersInv' /\ UNCHANGED Mailbox!vars
  <2>1. /\ push.phase = "idle" /\ push' = [phase |-> "locked", port |-> q, val |-> value + 1]
        /\ value' = value + 1
        /\ UNCHANGED <<delivered_data, pushed_pts, pushed_pending, mem>>
    BY <1>1, ThreadsAssumption DEF PushLock, IInv, LockInv, Callers
  <2>2. ASSUME NEW p \in InPorts
        PROVE  LET got == mem'[p][delivered_data'[p]]
               IN  /\ pushed_pts'[p] <= value'
                   /\ IF pushed_pending'[p]
                        THEN got \in Nat /\ got < pushed_pts'[p]
                        ELSE got = pushed_pts'[p]
    BY <1>t, <2>1 DEF NumbersInv
  <2>3. push'.val <= value' /\ pushed_pts'[push'.port] < push'.val
    BY <1>t, <2>1 DEF NumbersInv
  <2>4. UNCHANGED <<Put, Got>>
    BY <2>1 DEF Put, Got
  <2> QED BY <1>s, <2>2, <2>3, <2>4 DEF NumbersInv
<1>2. CASE PushStep
  <2>1. NumbersInv' /\ (UNCHANGED <<Put, Got>> \/ \E p \in InPorts : Mailbox!Put(p))
    BY <1>2, PushNumbers
  <2> QED BY <1>s, <2>1 DEF Mailbox!Next
<1>3. ASSUME NEW q \in Ports, NEW b \in Buffers, GraphFill(q, b)
      PROVE  NumbersInv' /\ UNCHANGED Mailbox!vars
  <2>1. PICK w \in Contents : mem' = [mem EXCEPT ![q][b] = w]
    BY <1>3, GraphWrites DEF IInv, TypeOK
  <2>2. /\ UNCHANGED <<push, delivered_data, pushed_pts, pushed_pending>>
        /\ value' \in {value, value + 1}
    BY <1>3 DEF GraphFill, stagingVars
  <2>3. ASSUME NEW p \in InPorts
        PROVE  mem'[p][delivered_data'[p]] = mem[p][delivered_data[p]]
    <3>1. delivered_data[p] # b
      BY <1>t, MemoryAssumption
    <3> QED BY <1>t, <2>1, <2>2, <3>1 DEF IInv, TypeOK, PoolType
  <2> QED BY <1>s, <1>t, <2>2, <2>3, BlocksKept
<1>4. ASSUME NEW q \in Ports, StagePort(q)
      PROVE  NumbersInv' /\ [Mailbox!Next]_(Mailbox!vars)
  <2>1. NumbersInv' /\ (UNCHANGED <<Put, Got>> \/ \E p \in InPorts : Mailbox!Take(p))
    BY <1>4, StagingNumbers
  <2> QED BY <1>s, <2>1 DEF Mailbox!Next
<1>5. CASE CycleBegin \/ StageEnd \/ CycleEnd \/ Start \/ Stop \/ UNCHANGED vars
  <2>1. UNCHANGED <<push, delivered_data, pushed_pts, pushed_pending, value, mem>>
    BY <1>5 DEF CycleBegin, StageEnd, CycleEnd, Start, Stop, vars, stagingVars
  <2> QED BY <1>s, <1>t, <2>1, BlocksKept
<1> QED BY <1>1, <1>2, <1>3, <1>4, <1>5 DEF Next, CycleStep

\* The two blocks, the swap and the trylock implement the mailbox of
\* PushMailbox: each push is delivered at most once, in push order, and a cycle
\* that takes one takes the most recent, for any number of threads and ports.
THEOREM BlocksRefineMailbox == Spec => PushesAreAMailbox
<1>1. Init /\ [][Next]_vars /\ []IInv => Mailbox!Spec
  BY NumbersInit, NumbersStep, PTL DEF Mailbox!Spec
<1> QED BY <1>1, Invariance, PTL DEF Spec, PushesAreAMailbox
=============================================================================
