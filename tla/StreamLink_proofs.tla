------------------------- MODULE StreamLink_proofs -------------------------
(***************************************************************************)
(* Proofs about a stream's links and the registry they are made from, for  *)
(* every stream, device, set of other ports and capacity.                  *)
(***************************************************************************)
EXTENDS StreamLink, FiniteSetTheorems, SequenceTheorems, WellFoundedInduction, TLAPS

(***************************************************************************)
(* The call, the set of links and the error callback.                      *)
(***************************************************************************)

LEMMA CallTypeInit == Init => CallType
<1> SUFFICES ASSUME Init PROVE CallType
  OBVIOUS
<1>1. set \in [st : {"live", "freed"}, n_links : Nat, proxies : SUBSET Nat,
              seen : SUBSET Nat, lost : SUBSET Nat]
  BY DEF Init, Freed, NewSet
<1>2. /\ state \in {"STOPPED", "RUNNING"} /\ links \in BOOLEAN /\ cb \in BOOLEAN
      /\ orphans \subseteq Nat
  BY DEF Init
<1>3. /\ app \in [pc : {"idle", "awaiting", "resolving", "listing", "pairing",
                       "linking", "waiting", "made", "reading", "clearing",
                       "destroying"},
                 i : Nat, res : {"OK", "FAILED"}]
      /\ outcome \in [res : {"none", "OK", "FAILED"},
                      since : {"none", "told", "unlinked"}]
  BY DEF Init, Idle
<1> QED BY <1>1, <1>2, <1>3 DEF CallType

LEMMA DestroySetType ==
  ASSUME CallType, DestroySet
  PROVE  /\ set' \in [st : {"live", "freed"}, n_links : Nat, proxies : SUBSET Nat,
                      seen : SUBSET Nat, lost : SUBSET Nat]
         /\ orphans' \subseteq Nat
BY DEF DestroySet, Freed, NewSet, CallType

LEMMA ReturnType ==
  ASSUME CallType, NEW res \in {"OK", "FAILED"}, Return(res)
  PROVE  /\ app' \in [pc : {"idle", "awaiting", "resolving", "listing", "pairing",
                            "linking", "waiting", "made", "reading", "clearing",
                            "destroying"},
                      i : Nat, res : {"OK", "FAILED"}]
         /\ outcome' \in [res : {"none", "OK", "FAILED"},
                          since : {"none", "told", "unlinked"}]
BY DEF Return, Idle, At, CallType

LEMMA AppType == CallType /\ (LinkCall \/ UnlinkCall \/ StartStop \/ AppStep) => CallType'
<1> SUFFICES ASSUME CallType, LinkCall \/ UnlinkCall \/ StartStop \/ AppStep
             PROVE  CallType'
  OBVIOUS
<1> USE DEF Goto, KeepLinks, AppLocal
<1>1. CASE LinkCall
  BY <1>1 DEF LinkCall, CallType
<1>2. CASE UnlinkCall
  BY <1>2 DEF UnlinkCall, CallType
<1>3. CASE StartStop
  BY <1>3 DEF StartStop, CallType, callVars
<1>4. CASE AwaitOwnPorts
  BY <1>4 DEF AwaitOwnPorts, CallType
<1>5. CASE AwaitTimeout
  BY <1>5, ReturnType DEF AwaitTimeout, CallType
<1>6. CASE ResolveTarget
  BY <1>6 DEF ResolveTarget, CallType
<1>7. CASE ListOwn
  BY <1>7 DEF ListOwn, CallType
<1>8. CASE ListPeer
  BY <1>8 DEF ListPeer, NewSet, CallType
<1>9. CASE LinkRefused
  BY <1>9, ReturnType DEF LinkRefused, CallType
<1>10. CASE LinkOne
  BY <1>10, SMTT(30) DEF LinkOne, CallType
<1>11. CASE LinkOneFails
  BY <1>11 DEF LinkOneFails, CallType
<1>12. CASE LinkOneWakes
  BY <1>12 DEF LinkOneWakes, CallType
<1>13. CASE CountLink
  <2>1. set' \in [st : {"live", "freed"}, n_links : Nat, proxies : SUBSET Nat,
                  seen : SUBSET Nat, lost : SUBSET Nat]
    BY <1>13 DEF CountLink, CallType
  <2>2. /\ app' \in [pc : {"idle", "awaiting", "resolving", "listing", "pairing",
                           "linking", "waiting", "made", "reading", "clearing",
                           "destroying"},
                     i : Nat, res : {"OK", "FAILED"}]
        /\ outcome' \in [res : {"none", "OK", "FAILED"},
                         since : {"none", "told", "unlinked"}]
    <3>1. CASE app.res = "FAILED"
      BY <1>13, <3>1 DEF CountLink, CallType
    <3>2. CASE app.res = "OK" /\ Return("OK")
      BY <3>2, ReturnType
    <3>3. CASE app' = [app EXCEPT !.pc = "linking", !.i = @ + 1] /\ UNCHANGED outcome
      <4>1. app.i + 1 \in Nat
        BY DEF CallType
      <4> QED BY <3>3, <4>1 DEF CallType
    <3> QED BY <1>13, <3>1, <3>2, <3>3 DEF CountLink
  <2> QED BY <1>13, <2>1, <2>2 DEF CountLink, CallType
<1>14. CASE ReleaseRead
  BY <1>14, ReturnType DEF ReleaseRead, CallType
<1>15. CASE ReleaseClear
  BY <1>15 DEF ReleaseClear, CallType
<1>16. CASE ReleaseDestroy
  BY <1>16, DestroySetType DEF ReleaseDestroy, Idle, CallType
<1> QED BY <1>1, <1>2, <1>3, <1>4, <1>5, <1>6, <1>7, <1>8, <1>9, <1>10, <1>11,
           <1>12, <1>13, <1>14, <1>15, <1>16 DEF AppStep

LEMMA LoopType ==
  ASSUME CallType, OnNodeRemoved \/ OnSourceLost \/ CallbackUnlink
                   \/ CallbackStartStop \/ CallbackReturn
  PROVE  CallType'
<1> USE DEF KeepLinks, callVars, registryVars
<1>1. CASE OnNodeRemoved
  BY <1>1, DestroySetType DEF OnNodeRemoved, DeviceLeaves, CallType
<1>2. CASE OnSourceLost
  BY <1>2 DEF OnSourceLost, CallType
<1>3. CASE CallbackUnlink
  BY <1>3, DestroySetType DEF CallbackUnlink, CallType
<1>4. CASE CallbackStartStop
  BY <1>4 DEF CallbackStartStop, CallType
<1>5. CASE CallbackReturn
  BY <1>5, ZenonT(40) DEF CallbackReturn, CallType
<1> QED BY <1>1, <1>2, <1>3, <1>4, <1>5

\* What the registry and the answers of the server leave alone
LEMMA GraphKeeps ==
  ASSUME NEW p \in Ports, OnPortAdded(p) \/ OnPortMissed(p) \/ OnPortRemoved(p)
  PROVE  UNCHANGED <<state, links, set, app, cb, orphans, outcome, device>>
BY DEF OnPortAdded, OnPortMissed, OnPortRemoved, KeepLinks, callVars

LEMMA LinkInfoKeeps ==
  ASSUME CallType, NEW c \in Channels, OnLinkInfo(c)
  PROVE  /\ CallType' /\ set'.st = set.st
         /\ UNCHANGED <<state, links, app, cb, orphans, outcome, registryVars>>
<1>1. c \in Nat
  BY StreamAssumption DEF Channels, N
<1> QED BY <1>1 DEF OnLinkInfo, CallType, callVars

LEMMA CallTypeStep == CallType /\ [Next]_vars => CallType'
<1>1. ASSUME CallType, NEW p \in Ports, OnPortAdded(p) \/ OnPortMissed(p) \/ OnPortRemoved(p)
      PROVE  CallType'
  BY <1>1, GraphKeeps DEF CallType
<1>2. ASSUME CallType, UNCHANGED vars
      PROVE  CallType'
  BY <1>2 DEF vars, callVars, CallType
<1> QED BY <1>1, <1>2, AppType, LoopType, LinkInfoKeeps DEF Next

(***************************************************************************)
(* Both threads free the set of links, one of them without the lock; a     *)
(* caller that will free it has cleared the pointer.                       *)
(***************************************************************************)
Owned ==
  /\ links => set.st = "live"
  /\ At("destroying") => ~ links

\* What a call has yet to say, and what was said behind its back
Told ==
  /\ At("idle") => app.i = 0
  /\ app.pc \in {"awaiting", "resolving", "listing", "pairing", "linking",
                 "waiting", "made"} => outcome.res = "none"
  /\ app.pc \in {"linking", "waiting", "made"} =>
       app.i > 0 /\ (links \/ outcome.since # "none")
  /\ app.pc \in {"reading", "clearing", "destroying"} =>
       IF app.i = 0 THEN outcome.since # "none" ELSE outcome.res = "none"
  /\ At("idle") /\ outcome.res = "OK" => links \/ outcome.since # "none"

CallInv == CallType /\ Owned /\ Told

LEMMA CallInvInit == Init => CallInv
<1> SUFFICES ASSUME Init PROVE Owned /\ Told
  BY CallTypeInit DEF CallInv
<1>1. ~ links /\ app.pc = "idle" /\ app.i = 0 /\ outcome.res = "none"
  BY DEF Init, Idle
<1> QED BY <1>1 DEF Owned, Told, At

LEMMA AppInv ==
  ASSUME CallInv, LinkCall \/ UnlinkCall \/ StartStop \/ AppStep
  PROVE  (Owned /\ Told)'
<1> USE DEF CallInv, CallType, At, Goto, KeepLinks, AppLocal
<1>1. CASE LinkCall
  BY <1>1 DEF LinkCall, Owned, Told
<1>2. CASE UnlinkCall
  BY <1>2 DEF UnlinkCall, Owned, Told
<1>3. CASE StartStop
  BY <1>3 DEF StartStop, Owned, Told, callVars
<1>4. CASE AwaitOwnPorts
  BY <1>4 DEF AwaitOwnPorts, Owned, Told
<1>5. CASE AwaitTimeout
  BY <1>5 DEF AwaitTimeout, Return, Idle, Owned, Told
<1>6. CASE ResolveTarget
  BY <1>6 DEF ResolveTarget, Owned, Told
<1>7. CASE ListOwn
  BY <1>7 DEF ListOwn, Owned, Told
<1>8. CASE ListPeer
  BY <1>8 DEF ListPeer, NewSet, Owned, Told
<1>9. CASE LinkRefused
  BY <1>9 DEF LinkRefused, Return, Idle, Owned, Told
<1>10. CASE LinkOne
  BY <1>10 DEF LinkOne, Owned, Told
<1>11. CASE LinkOneFails
  BY <1>11 DEF LinkOneFails, Owned, Told
<1>12. CASE LinkOneWakes
  BY <1>12 DEF LinkOneWakes, Owned, Told
<1>13. CASE CountLink
  <2>1. set'.st = set.st /\ links' = links /\ outcome'.since = outcome.since
    BY <1>13 DEF CountLink, Return
  <2>2. \/ app'.pc = "reading" /\ app'.i = app.i /\ outcome' = outcome
        \/ app'.pc = "linking" /\ app'.i = app.i + 1 /\ outcome' = outcome
        \/ app'.pc = "idle" /\ app'.i = 0
    <3>1. CASE app' = [app EXCEPT !.pc = "reading"] /\ UNCHANGED outcome
      BY <3>1
    <3>2. CASE app' = [app EXCEPT !.pc = "linking", !.i = @ + 1] /\ UNCHANGED outcome
      BY <3>2
    <3>3. CASE Return("OK")
      BY <3>3 DEF Return, Idle
    <3> QED BY <1>13, <3>1, <3>2, <3>3 DEF CountLink
  <2>3. app.pc = "made" /\ app.i \in Nat
    BY <1>13 DEF CountLink
  <2> QED BY <2>1, <2>2, <2>3 DEF Owned, Told
<1>14. CASE ReleaseRead
  BY <1>14 DEF ReleaseRead, Return, Idle, Owned, Told
<1>15. CASE ReleaseClear
  BY <1>15 DEF ReleaseClear, Owned, Told
<1>16. CASE ReleaseDestroy
  BY <1>16 DEF ReleaseDestroy, Idle, Owned, Told
<1> QED BY <1>1, <1>2, <1>3, <1>4, <1>5, <1>6, <1>7, <1>8, <1>9, <1>10, <1>11,
           <1>12, <1>13, <1>14, <1>15, <1>16 DEF AppStep

LEMMA LoopInv ==
  ASSUME CallInv, OnNodeRemoved \/ OnSourceLost \/ CallbackUnlink
                  \/ CallbackStartStop \/ CallbackReturn
  PROVE  (Owned /\ Told)'
<1> USE DEF CallInv, CallType, At, KeepLinks, callVars, registryVars
<1>1. CASE OnNodeRemoved
  BY <1>1 DEF OnNodeRemoved, DeviceLeaves, Owned, Told
<1>2. CASE OnSourceLost
  BY <1>2 DEF OnSourceLost, Owned, Told
<1>3. CASE CallbackUnlink
  BY <1>3 DEF CallbackUnlink, Owned, Told
<1>4. CASE CallbackStartStop
  BY <1>4 DEF CallbackStartStop, Owned, Told
<1>5. CASE CallbackReturn
  BY <1>5 DEF CallbackReturn, Owned, Told
<1> QED BY <1>1, <1>2, <1>3, <1>4, <1>5

LEMMA CallInvStep == CallInv /\ [Next]_vars => CallInv'
<1> SUFFICES ASSUME CallInv, [Next]_vars PROVE CallInv'
  OBVIOUS
<1>0. CallType'
  BY CallTypeStep DEF CallInv
<1>1. ASSUME NEW p \in Ports, OnPortAdded(p) \/ OnPortMissed(p) \/ OnPortRemoved(p)
      PROVE  (Owned /\ Told)'
  BY <1>1, GraphKeeps DEF CallInv, Owned, Told, At
<1>2. ASSUME NEW c \in Channels, OnLinkInfo(c)
      PROVE  (Owned /\ Told)'
  BY <1>2, LinkInfoKeeps DEF CallInv, Owned, Told, At
<1>3. ASSUME UNCHANGED vars
      PROVE  (Owned /\ Told)'
  <2>1. UNCHANGED <<links, set, app, outcome>>
    BY <1>3 DEF vars, callVars
  <2> QED BY <2>1 DEF CallInv, Owned, Told, At
<1> QED BY <1>0, <1>1, <1>2, <1>3, AppInv, LoopInv DEF Next, CallInv

LEMMA CallInvHolds == Spec => []CallInv
BY CallInvInit, CallInvStep, PTL DEF Spec

(***************************************************************************)
(* stream->links points to no freed set, whichever thread freed it.        *)
(***************************************************************************)
THEOREM NoDanglingLinks == Spec => []LinksNeverDangles
<1>1. CallInv => LinksNeverDangles
  BY DEF CallInv, Owned, LinksNeverDangles
<1> QED BY <1>1, CallInvHolds, PTL

(***************************************************************************)
(* A link that was made is not undone without a word.                      *)
(***************************************************************************)
THEOREM NoSilentLoss == Spec => []LossIsTold
<1>1. CallInv => LossIsTold
  BY DEF CallInv, Told, LossIsTold
<1> QED BY <1>1, CallInvHolds, PTL

(***************************************************************************)
(* The registry: the live entries of the array of ports are distinct, and  *)
(* they are the ports the graph has.                                       *)
(***************************************************************************)
Distinct == \A j, k \in 1..n_ports : ports[j] = ports[k] => j = k

RegistryInv == RegistryType /\ CacheIsExact /\ Distinct

\* The ports announced at the bind, in whatever order, and free entries
LEMMA InitialArray ==
  ASSUME NEW P \in SUBSET Ports, NEW s \in SetToSeqs(P)
  PROVE  /\ s \in Seq(P)
         /\ {s[k] : k \in 1..Len(s)} = P
         /\ \A j, k \in 1..Len(s) : s[j] = s[k] => j = k
<1> DEFINE D == 1..Cardinality(P)
<1>1. IsFiniteSet(P) /\ Cardinality(P) \in Nat
  <2>1. IsFiniteSet(Ports)
    BY StreamAssumption DEF Ports
  <2> QED BY <2>1, FS_Subset, FS_CardinalityType
<1>2. IsFiniteSet(D) /\ Cardinality(D) = Cardinality(P)
  BY <1>1, FS_Interval
<1>3. s \in [D -> P] /\ \A i, j \in D : i # j => s[i] # s[j]
  BY DEF SetToSeqs
<1>4. s \in Injection(D, P)
  BY <1>3 DEF Injection, IsInjective
<1>5. s \in Surjection(D, P)
  BY <1>1, <1>2, <1>4, FS_Injection
<1>6. s \in Seq(P) /\ Len(s) = Cardinality(P)
  BY <1>1, <1>3
<1> QED BY <1>3, <1>5, <1>6 DEF Surjection

LEMMA RegistryInit == Init => RegistryInv
<1> SUFFICES ASSUME Init PROVE RegistryInv
  OBVIOUS
<1>1. PICK P \in SUBSET Ports : \E s \in SetToSeqs(P) :
        /\ Len(s) <= InitialCapacity
        /\ ports = s \o [k \in 1..InitialCapacity - Len(s) |-> NULL]
        /\ n_ports = Len(s)
        /\ graph = [p \in Ports |-> IF p \in P THEN "live" ELSE "absent"]
  BY DEF Init, Ports
<1>2. PICK s \in SetToSeqs(P) :
        /\ Len(s) <= InitialCapacity
        /\ ports = s \o [k \in 1..InitialCapacity - Len(s) |-> NULL]
        /\ n_ports = Len(s)
        /\ graph = [p \in Ports |-> IF p \in P THEN "live" ELSE "absent"]
  BY <1>1
<1>3. /\ s \in Seq(P)
      /\ {s[k] : k \in 1..Len(s)} = P
      /\ \A j, k \in 1..Len(s) : s[j] = s[k] => j = k
  BY InitialArray
<1> DEFINE free == [k \in 1..InitialCapacity - Len(s) |-> NULL]
<1>4. InitialCapacity \in Nat \ {0} /\ Len(s) \in Nat
  BY <1>3, StreamAssumption
<1>5. free \in Seq(Ports \cup {NULL}) /\ Len(free) = InitialCapacity - Len(s)
  BY <1>2, <1>4
<1>6. s \in Seq(Ports \cup {NULL})
  BY <1>3
<1>7. /\ ports \in Seq(Ports \cup {NULL}) /\ Len(ports) = InitialCapacity
      /\ \A k \in 1..n_ports : ports[k] = s[k]
  BY <1>2, <1>4, <1>5, <1>6
<1>8. RegistryType
  BY <1>2, <1>4, <1>7 DEF Init, RegistryType
<1>9. CacheIsExact /\ Distinct
  BY <1>2, <1>3, <1>7 DEF CacheIsExact, Distinct
<1> QED BY <1>8, <1>9 DEF RegistryInv

LEMMA GrownArray ==
  ASSUME RegistryType
  PROVE  /\ Grown(ports) \in Seq(Ports \cup {NULL})
         /\ Len(Grown(ports)) > n_ports
         /\ \A k \in 1..n_ports : Grown(ports)[k] = ports[k]
<1> DEFINE free == [k \in 1..Len(ports) |-> NULL]
<1>1. free \in Seq(Ports \cup {NULL}) /\ Len(free) = Len(ports)
  BY DEF RegistryType
<1>2. CASE n_ports = Len(ports)
  BY <1>1, <1>2 DEF Grown, RegistryType
<1>3. CASE n_ports # Len(ports)
  BY <1>3 DEF Grown, RegistryType
<1> QED BY <1>2, <1>3

LEMMA AddedExact ==
  ASSUME RegistryInv, NEW p \in Ports, OnPortAdded(p)
  PROVE  RegistryInv'
<1> DEFINE g == Grown(ports)
<1>1. /\ g \in Seq(Ports \cup {NULL}) /\ Len(g) > n_ports
      /\ \A k \in 1..n_ports : g[k] = ports[k]
  BY GrownArray DEF RegistryInv
<1>2. /\ ports' = [g EXCEPT ![n_ports + 1] = p] /\ n_ports' = n_ports + 1
      /\ graph[p] = "absent" /\ graph' = [graph EXCEPT ![p] = "live"]
      /\ block' \in {block, block + 1} /\ device' = device
  BY DEF OnPortAdded
<1> HIDE DEF g
<1>3. n_ports \in Nat /\ graph \in [Ports -> {"absent", "live", "missed", "gone"}]
  BY DEF RegistryInv, RegistryType
<1>4. /\ ports' \in Seq(Ports \cup {NULL}) /\ Len(ports') = Len(g)
      /\ ports'[n_ports + 1] = p
      /\ \A k \in 1..n_ports : ports'[k] = ports[k]
  BY <1>1, <1>2, <1>3
<1>5. RegistryType'
  BY <1>1, <1>2, <1>3, <1>4 DEF RegistryInv, RegistryType
<1>6. p \notin {ports[k] : k \in 1..n_ports}
  BY <1>2 DEF RegistryInv, CacheIsExact
<1>7. Distinct'
  BY <1>2, <1>3, <1>4, <1>6 DEF RegistryInv, Distinct
<1>8. CacheIsExact'
  <2>1. {ports'[k] : k \in 1..n_ports'} = {ports[k] : k \in 1..n_ports} \cup {p}
    BY <1>2, <1>3, <1>4
  <2>2. {q \in Ports : graph'[q] = "live"} = {q \in Ports : graph[q] = "live"} \cup {p}
    BY <1>2, <1>3
  <2> QED BY <2>1, <2>2 DEF RegistryInv, CacheIsExact
<1> QED BY <1>5, <1>7, <1>8 DEF RegistryInv

LEMMA MissedExact ==
  ASSUME RegistryInv, NEW p \in Ports, OnPortMissed(p)
  PROVE  RegistryInv'
<1>1. /\ Grown(ports) \in Seq(Ports \cup {NULL}) /\ Len(Grown(ports)) > n_ports
      /\ \A k \in 1..n_ports : Grown(ports)[k] = ports[k]
  BY GrownArray DEF RegistryInv
<1>2. /\ ports \in Seq(Ports \cup {NULL}) /\ Len(ports) > 0
      /\ n_ports \in 0..Len(ports) /\ block \in Nat /\ device \in BOOLEAN
      /\ graph \in [Ports -> {"absent", "live", "missed", "gone"}]
  BY DEF RegistryInv, RegistryType
<1>3. /\ graph[p] = "absent" /\ graph' = [graph EXCEPT ![p] = "missed"]
      /\ n_ports' = n_ports /\ device' = device
      /\ ports' \in {ports, Grown(ports)} /\ block' \in {block, block + 1}
  BY DEF OnPortMissed
<1>4. /\ ports' \in Seq(Ports \cup {NULL}) /\ Len(ports') > 0
      /\ n_ports' \in 0..Len(ports')
      /\ \A k \in 1..n_ports : ports'[k] = ports[k]
  BY <1>1, <1>2, <1>3
<1>5. RegistryType'
  BY <1>2, <1>3, <1>4 DEF RegistryType
<1>6. {q \in Ports : graph'[q] = "live"} = {q \in Ports : graph[q] = "live"}
  BY <1>2, <1>3
<1>7. CacheIsExact' /\ Distinct'
  BY <1>3, <1>4, <1>6 DEF RegistryInv, CacheIsExact, Distinct
<1> QED BY <1>5, <1>7 DEF RegistryInv

\* A port that was missed leaves the array as it is.
LEMMA RemovedMissed ==
  ASSUME RegistryInv, NEW p \in Ports, OnPortRemoved(p), graph[p] # "live"
  PROVE  RegistryInv'
<1>1. /\ graph' = [graph EXCEPT ![p] = "gone"]
      /\ UNCHANGED <<ports, n_ports, block, device>>
  BY DEF OnPortRemoved
<1>2. graph \in [Ports -> {"absent", "live", "missed", "gone"}]
  BY DEF RegistryInv, RegistryType
<1>3. {q \in Ports : graph'[q] = "live"} = {q \in Ports : graph[q] = "live"}
  BY <1>1, <1>2
<1> QED BY <1>1, <1>2, <1>3 DEF RegistryInv, RegistryType, CacheIsExact, Distinct

LEMMA RemovedExact ==
  ASSUME RegistryInv, NEW p \in Ports, OnPortRemoved(p), graph[p] = "live"
  PROVE  RegistryInv'
<1>1. /\ ports' = Removed(ports, p) /\ n_ports' = n_ports - 1
      /\ graph[p] = "live" /\ graph' = [graph EXCEPT ![p] = "gone"]
      /\ UNCHANGED <<block, device>>
  BY DEF OnPortRemoved
<1>2. /\ n_ports \in Nat /\ n_ports <= Len(ports)
      /\ ports \in Seq(Ports \cup {NULL})
      /\ graph \in [Ports -> {"absent", "live", "missed", "gone"}]
  BY DEF RegistryInv, RegistryType
<1>3. \E k \in 1..n_ports : ports[k] = p
  BY <1>1 DEF RegistryInv, CacheIsExact
<1> DEFINE hole == CHOOSE k \in 1..n_ports : ports[k] = p
<1>4. hole \in 1..n_ports /\ ports[hole] = p /\ n_ports > 0
  BY <1>2, <1>3
<1>5. ports' = [ports EXCEPT ![hole] = ports[n_ports]]
  BY <1>1 DEF Removed
<1> HIDE DEF hole
<1>6. /\ ports' \in Seq(Ports \cup {NULL}) /\ Len(ports') = Len(ports)
      /\ \A k \in 1..n_ports : ports'[k] = IF k = hole THEN ports[n_ports] ELSE ports[k]
  BY <1>2, <1>4, <1>5
<1>7. RegistryType'
  BY <1>1, <1>2, <1>4, <1>6 DEF RegistryInv, RegistryType
<1>8. Distinct'
  BY <1>1, <1>2, <1>4, <1>6 DEF RegistryInv, Distinct
<1>9. CacheIsExact'
  <2>1. {ports'[k] : k \in 1..n_ports'} \subseteq {ports[k] : k \in 1..n_ports} \ {p}
    BY <1>1, <1>2, <1>4, <1>6, SMTT(30) DEF RegistryInv, Distinct
  <2>2. ASSUME NEW k \in 1..n_ports, ports[k] # p
        PROVE  \E j \in 1..n_ports' : ports'[j] = ports[k]
    <3>1. CASE k = n_ports
      <4>1. hole \in 1..n_ports'
        BY <1>1, <1>2, <1>4, <2>2, <3>1
      <4> QED BY <1>2, <1>4, <1>6, <3>1, <4>1
    <3>2. CASE k # n_ports
      <4>1. k \in 1..n_ports'
        BY <1>1, <1>2, <3>2
      <4> QED BY <1>4, <1>6, <2>2, <4>1
    <3> QED BY <3>1, <3>2
  <2>3. {q \in Ports : graph'[q] = "live"} = {q \in Ports : graph[q] = "live"} \ {p}
    BY <1>1, <1>2
  <2> QED BY <2>1, <2>2, <2>3 DEF RegistryInv, CacheIsExact
<1> QED BY <1>7, <1>8, <1>9 DEF RegistryInv

LEMMA RegistryStep == RegistryInv /\ [Next]_vars => RegistryInv'
<1> SUFFICES ASSUME RegistryInv, [Next]_vars PROVE RegistryInv'
  OBVIOUS
<1>1. CASE UNCHANGED <<ports, n_ports, block, graph>> /\ device' \in BOOLEAN
  BY <1>1 DEF RegistryInv, RegistryType, CacheIsExact, Distinct
<1>2. device \in BOOLEAN
  BY DEF RegistryInv, RegistryType
<1>3. CASE LinkCall \/ UnlinkCall \/ StartStop \/ AppStep
  BY <1>1, <1>2, <1>3
  DEF LinkCall, UnlinkCall, StartStop, AppStep, AwaitOwnPorts, AwaitTimeout,
      ResolveTarget, ListOwn, ListPeer, LinkRefused, LinkOne, LinkOneFails,
      LinkOneWakes, CountLink, ReleaseRead, ReleaseClear, ReleaseDestroy,
      AppLocal, registryVars
<1>4. ASSUME NEW c \in Channels, OnLinkInfo(c)
      PROVE  RegistryInv'
  BY <1>1, <1>2, <1>4 DEF OnLinkInfo, registryVars
<1>5. CASE OnNodeRemoved \/ OnSourceLost \/ CallbackUnlink \/ CallbackStartStop
           \/ CallbackReturn
  BY <1>1, <1>2, <1>5
  DEF OnNodeRemoved, DeviceLeaves, OnSourceLost, CallbackUnlink,
      CallbackStartStop, CallbackReturn, registryVars
<1>6. CASE UNCHANGED vars
  BY <1>1, <1>2, <1>6 DEF vars, registryVars
<1>7. ASSUME NEW p \in Ports, OnPortAdded(p) \/ OnPortMissed(p) \/ OnPortRemoved(p)
      PROVE  RegistryInv'
  BY <1>7, AddedExact, MissedExact, RemovedMissed, RemovedExact
<1> QED BY <1>3, <1>4, <1>5, <1>6, <1>7 DEF Next

(***************************************************************************)
(* Every variable but the lists keeps its type.                            *)
(***************************************************************************)
THEOREM TypeCorrect == Spec => []TypeOK
<1>1. CallInv /\ RegistryInv => TypeOK
  BY DEF CallInv, RegistryInv, TypeOK
<1> QED BY <1>1, CallInvHolds, RegistryInit, RegistryStep, PTL DEF Spec

(***************************************************************************)
(* Listing a node's ports: what pwf_pw_registry_list_ports() returns, by   *)
(* induction over the array of ports.                                      *)
(***************************************************************************)
LEMMA NatMin ==
  ASSUME NEW T \in SUBSET Nat, T # {}
  PROVE  \E x \in T : \A y \in T : x <= y
<1> DEFINE R == OpToRel(<, Nat)
<1>1. IsWellFoundedOn(R, Nat)
  BY NatLessThanWellFounded
<1> HIDE DEF R
<1>2. PICK x \in T : \A y \in T : ~ (<<y, x>> \in R)
  BY <1>1, WFMin
<1>3. \A y \in T : ~ (y < x)
  BY <1>2 DEF R, OpToRel
<1> QED BY <1>3

LEMMA SetInduction ==
  ASSUME NEW S, 0 \in S, \A n \in Nat : n \in S => n + 1 \in S
  PROVE  \A n \in Nat : n \in S
<1> SUFFICES ASSUME Nat \ S # {} PROVE FALSE
  OBVIOUS
<1>1. PICK x \in Nat \ S : \A y \in Nat \ S : x <= y
  BY NatMin
<1>2. x # 0 /\ x - 1 \in Nat
  BY <1>1
<1>3. x - 1 \in S
  BY <1>1, <1>2
<1>4. x = (x - 1) + 1
  BY <1>1
<1> QED BY <1>1, <1>2, <1>3, <1>4

LEMMA MaxIs ==
  ASSUME NEW t \in SUBSET Nat, NEW m \in t, \A x \in t : x <= m
  PROVE  Max(t) = m
<1>1. \A k \in t : (\A y \in t : k >= y) => k = m
  OBVIOUS
<1> QED BY <1>1 DEF Max

LEMMA MaxOf ==
  ASSUME NEW n \in Nat, NEW t \in SUBSET (0..n), t # {}
  PROVE  Max(t) \in t /\ \A x \in t : x <= Max(t)
<1> DEFINE T == {n - x : x \in t}
<1>1. T \in SUBSET Nat /\ T # {}
  <2>1. PICK x \in t : TRUE
    OBVIOUS
  <2>2. n - x \in T
    BY <2>1
  <2> QED BY <2>2
<1>2. PICK k \in T : \A y \in T : k <= y
  BY <1>1, NatMin
<1>3. PICK m \in t : k = n - m
  BY <1>2
<1>4. \A x \in t : n - x \in T
  OBVIOUS
<1> HIDE DEF T
<1>5. \A x \in t : x <= m
  BY <1>2, <1>3, <1>4
<1>6. t \in SUBSET Nat
  OBVIOUS
<1> QED BY <1>3, <1>5, <1>6, MaxIs

LEMMA JoinThree ==
  ASSUME NEW a \in Seq(Nat), NEW b \in Seq(Nat), NEW c \in Seq(Nat)
  PROVE  (a \o b) \o c = a \o (b \o c)
BY ONLY a \in Seq(Nat), b \in Seq(Nat), c \in Seq(Nat), ConcatAssociative, SMTT(30)

LEMMA InsertAtIs ==
  ASSUME NEW s \in Seq(Nat), NEW i \in 1..(Len(s) + 1), NEW e \in Nat
  PROVE  /\ InsertAt(s, i, e) \in Seq(Nat)
         /\ Len(InsertAt(s, i, e)) = Len(s) + 1
         /\ \A k \in 1..(Len(s) + 1) :
              InsertAt(s, i, e)[k] = IF k < i THEN s[k] ELSE IF k = i THEN e ELSE s[k - 1]
<1> DEFINE a == SubSeq(s, 1, i - 1)  b == SubSeq(s, i, Len(s))
           n == Len(s)
<1>0. n \in Nat /\ i \in 1..(n + 1) /\ Len(s) = n
  BY LenProperties
<1>1. /\ a \in Seq(Nat) /\ Len(a) = i - 1
      /\ \A k \in 1..(i - 1) : a[k] = s[k]
  BY SubSeqProperties
<1>2. /\ b \in Seq(Nat) /\ Len(b) = n + 1 - i
      /\ \A k \in 1..(n + 1 - i) : b[k] = s[i + k - 1]
  BY SubSeqProperties
<1>3. InsertAt(s, i, e) = a \o (<<e>> \o b)
  <2>1. InsertAt(s, i, e) = (a \o <<e>>) \o b
    BY DEF InsertAt
  <2> DEFINE u == <<e>>
  <2>2. u \in Seq(Nat)
    OBVIOUS
  <2> HIDE DEF a, b, u
  <2>3. (a \o u) \o b = a \o (u \o b)
    BY ONLY <1>1, <1>2, <2>2, JoinThree, ZenonT(40)
  <2> QED BY <2>1, <2>3, Zenon DEF u
<1> HIDE DEF a, b, n
<1>4. /\ <<e>> \o b \in Seq(Nat) /\ Len(<<e>> \o b) = n + 2 - i
      /\ (<<e>> \o b)[1] = e
      /\ \A k \in 2..(n + 2 - i) : (<<e>> \o b)[k] = b[k - 1]
  <2>1. <<e>> \in Seq(Nat) /\ Len(<<e>>) = 1 /\ <<e>>[1] = e
    OBVIOUS
  <2> DEFINE u == <<e>>
  <2> HIDE DEF u
  <2>2. /\ u \o b \in Seq(Nat) /\ Len(u \o b) = Len(u) + Len(b)
        /\ \A k \in 1..(Len(u) + Len(b)) :
             (u \o b)[k] = IF k <= Len(u) THEN u[k] ELSE b[k - Len(u)]
    BY ONLY <2>1, <1>2, ConcatProperties DEF u
  <2>3. Len(u) = 1 /\ u[1] = e
    BY <2>1 DEF u
  <2>4. /\ u \o b \in Seq(Nat) /\ Len(u \o b) = n + 2 - i
        /\ (u \o b)[1] = e
        /\ \A k \in 2..(n + 2 - i) : (u \o b)[k] = b[k - 1]
    <3>1. Len(u) + Len(b) = n + 2 - i /\ 1 \in 1..(Len(u) + Len(b)) /\ 1 <= Len(u)
      BY ONLY <2>3, <1>0, <1>2
    <3>2. ASSUME NEW k \in 2..(n + 2 - i) PROVE (u \o b)[k] = b[k - 1]
      <4>1. k \in 1..(Len(u) + Len(b)) /\ ~ (k <= Len(u)) /\ k - Len(u) = k - 1
        BY ONLY <2>3, <3>1, k \in 2..(n + 2 - i), <1>0
      <4> QED BY ONLY <4>1, <2>2
    <3> QED BY ONLY <2>2, <2>3, <3>1, <3>2
  <2> QED BY <2>4 DEF u
<1> DEFINE c == <<e>> \o b
<1> HIDE DEF c
<1>5. /\ a \o c \in Seq(Nat) /\ Len(a \o c) = Len(a) + Len(c)
      /\ \A k \in 1..(Len(a) + Len(c)) :
           (a \o c)[k] = IF k <= Len(a) THEN a[k] ELSE c[k - Len(a)]
  BY ONLY <1>1, <1>4, ConcatProperties DEF c
<1>6. /\ Len(c) = n + 2 - i /\ c[1] = e
      /\ \A k \in 2..(n + 2 - i) : c[k] = b[k - 1]
  BY <1>4 DEF c
<1>7. ASSUME NEW k \in 1..(n + 1)
      PROVE  (a \o c)[k] = IF k < i THEN s[k] ELSE IF k = i THEN e ELSE s[k - 1]
  <2>1. CASE k < i
    BY ONLY k \in 1..(n + 1), <2>1, <1>0, <1>1, <1>5, <1>6
  <2>2. CASE k = i
    <3>1. (a \o c)[k] = c[k - Len(a)] /\ k - Len(a) = 1
      BY ONLY k \in 1..(n + 1), <2>2, <1>0, <1>1, <1>5, <1>6, SMTT(30)
    <3> QED BY <3>1, <1>6, <2>2
  <2>3. CASE k > i
    <3> DEFINE j == k - i
    <3>1. /\ k - Len(a) = j + 1 /\ j + 1 \in 2..(n + 2 - i) /\ j \in 1..(n + 1 - i)
          /\ (j + 1) - 1 = j /\ i + j - 1 = k - 1 /\ ~ (k <= Len(a))
          /\ k \in 1..(Len(a) + Len(c))
      BY ONLY k \in 1..(n + 1), <2>3, <1>0, <1>1, <1>6
    <3> HIDE DEF j
    <3>2. (a \o c)[k] = c[j + 1]
      BY ONLY <3>1, <1>5
    <3>3. c[j + 1] = b[j]
      BY ONLY <3>1, <1>6
    <3>4. b[j] = s[k - 1]
      BY ONLY <3>1, <1>2
    <3> QED BY ONLY <2>3, <3>2, <3>3, <3>4, k \in 1..(n + 1), <1>0
  <2>4. k < i \/ k = i \/ k > i
    BY ONLY <1>0, k \in 1..(n + 1)
  <2> QED BY ONLY <2>1, <2>2, <2>3, <2>4, Zenon
<1>8. InsertAt(s, i, e) = a \o c
  BY <1>3 DEF c
<1>9. Len(a) + Len(c) = n + 1
  BY ONLY <1>0, <1>1, <1>6
<1> QED BY ONLY <1>0, <1>5, <1>7, <1>8, <1>9

\* The listing keeps what is in it apart from the entries of l: position j of
\* the array is in the list in front of position k if its ordinal is lower.
Sorted(owned, l, m) ==
  /\ l \in Seq(Nat)
  /\ \A j \in 1..Len(l) : l[j] \in 1..m /\ ports[l[j]] \in owned
  /\ \A k \in 1..m : ports[k] \in owned => \E j \in 1..Len(l) : l[j] = k
  /\ \A i, j \in 1..Len(l) : i < j => Ordinal(ports[l[i]]) < Ordinal(ports[l[j]])

\* One insertion: v is l with e put at i, where its ordinal r belongs, and o
\* tells the ordinals.
Inserts(n, l, v, i, o, e, r) ==
  /\ n \in Nat /\ i \in 1..(n + 1) /\ r \in Nat /\ o[e] = r
  /\ \A j \in 1..n : o[l[j]] \in Nat
  /\ \A j, k \in 1..n : j < k => o[l[j]] < o[l[k]]
  /\ \A j \in 1..n : j < i => o[l[j]] < r
  /\ \A j \in 1..n : j >= i => o[l[j]] > r
  /\ \A k \in 1..(n + 1) :
       v[k] = IF k < i THEN l[k] ELSE IF k = i THEN e ELSE l[k - 1]

LEMMA SortedInsert ==
  ASSUME NEW n, NEW l, NEW v, NEW i, NEW o, NEW e, NEW r, Inserts(n, l, v, i, o, e, r)
  PROVE  /\ \A k \in 1..(n + 1) : v[k] = e \/ \E j \in 1..n : v[k] = l[j]
         /\ \A j \in 1..n : \E k \in 1..(n + 1) : v[k] = l[j]
         /\ \E k \in 1..(n + 1) : v[k] = e
         /\ \A j, k \in 1..(n + 1) : j < k => o[v[j]] < o[v[k]]
<1> USE DEF Inserts
<1>1. ASSUME NEW k \in 1..(n + 1) PROVE v[k] = e \/ \E j \in 1..n : v[k] = l[j]
  <2>1. CASE k < i
    BY <2>1
  <2>2. CASE k > i
    <3>1. k - 1 \in 1..n /\ v[k] = l[k - 1]
      BY <2>2
    <3> QED BY <3>1
  <2>3. CASE k = i
    BY <2>3
  <2> QED BY <2>1, <2>2, <2>3
<1>2. ASSUME NEW j \in 1..n PROVE \E k \in 1..(n + 1) : v[k] = l[j]
  <2>1. CASE j < i
    BY <2>1
  <2>2. CASE j >= i
    <3>1. j + 1 \in 1..(n + 1) /\ v[j + 1] = l[(j + 1) - 1] /\ (j + 1) - 1 = j
      BY <2>2
    <3> QED BY <3>1
  <2> QED BY <2>1, <2>2
<1>3. v[i] = e
  OBVIOUS
<1>4. ASSUME NEW j \in 1..(n + 1), NEW k \in 1..(n + 1), j < k PROVE o[v[j]] < o[v[k]]
  <2>1. CASE k < i
    BY <1>4, <2>1
  <2>2. CASE k = i
    BY <1>4, <2>2
  <2>3. CASE k > i
    <3>1. k - 1 \in 1..n /\ k - 1 >= i /\ v[k] = l[k - 1]
      BY <2>3
    <3>2. o[v[k]] > r /\ o[v[k]] \in Nat
      BY <3>1
    <3>3. CASE j < i
      <4>1. v[j] = l[j] /\ j \in 1..n /\ o[l[j]] < r /\ o[l[j]] \in Nat
        BY <3>3
      <4> QED BY <3>2, <4>1
    <3>4. CASE j = i
      BY <3>2, <3>4
    <3>5. CASE j > i
      <4>1. j - 1 \in 1..n /\ v[j] = l[j - 1] /\ j - 1 < k - 1
        BY <1>4, <3>5
      <4> QED BY <3>1, <4>1
    <3> QED BY <3>3, <3>4, <3>5
  <2> QED BY <2>1, <2>2, <2>3
<1> QED BY <1>1, <1>2, <1>3, <1>4

\* Ordinals tell the ports of a node apart.
Apart(owned, m) ==
  \A j, k \in 1..m : ports[j] \in owned /\ ports[k] \in owned =>
    /\ Ordinal(ports[j]) \in Nat
    /\ Ordinal(ports[j]) = Ordinal(ports[k]) => j = k

LEMMA InsertedIs ==
  ASSUME NEW owned, NEW m \in Nat, NEW l, Sorted(owned, l, m), Apart(owned, m + 1)
  PROVE  Sorted(owned, Inserted(owned, l, m + 1), m + 1)
<1>1. CASE ports[m + 1] \notin owned
  <2>1. \A k \in 1..(m + 1) : ports[k] \in owned => k \in 1..m
    BY <1>1
  <2>2. 1..m \subseteq 1..(m + 1)
    OBVIOUS
  <2> QED BY <1>1, <2>1, <2>2 DEF Sorted, Inserted
<1>2. CASE ports[m + 1] \in owned
  <2> DEFINE o == [k \in 1..(m + 1) |-> Ordinal(ports[k])]
             n == Len(l)
             e == m + 1
             r == Ordinal(ports[m + 1])
             b == Max(NotHigher(l, m + 1))
             v == InsertAt(l, 1 + b, m + 1)
  <2>0. /\ l \in Seq(Nat) /\ n \in Nat /\ n = Len(l) /\ DOMAIN l = 1..n
        /\ \A j \in 1..n : l[j] \in 1..m /\ ports[l[j]] \in owned
        /\ 1..m \subseteq 1..(m + 1) /\ e \in 1..(m + 1) /\ e \notin 1..m
    BY LenProperties DEF Sorted
  <2>1. r \in Nat /\ o[e] = r
    BY <1>2, <2>0 DEF Apart
  <2>2. \A j \in 1..n : /\ o[l[j]] = Ordinal(ports[l[j]]) /\ o[l[j]] \in Nat
                        /\ o[l[j]] # r
    BY <1>2, <2>0 DEF Apart
  <2>3. \A j, k \in 1..n : j < k => o[l[j]] < o[l[k]]
    BY <2>0, <2>2 DEF Sorted
  <2>4. NotHigher(l, m + 1) = {0} \cup {j \in 1..n : o[l[j]] <= r}
    BY <2>0, <2>2 DEF NotHigher
  <2> HIDE DEF o, n, e, r
  <2>5. b \in {0} \cup {j \in 1..n : o[l[j]] <= r} /\ \A j \in 1..n : o[l[j]] <= r => j <= b
    <3> DEFINE B == {0} \cup {j \in 1..n : o[l[j]] <= r}
    <3>1. B \in SUBSET (0..n) /\ 0 \in B
      BY <2>0
    <3>2. b = Max(B)
      BY <2>4
    <3>3. \A j \in 1..n : o[l[j]] <= r => j \in B
      OBVIOUS
    <3> HIDE DEF B, b
    <3>4. Max(B) \in B /\ \A x \in B : x <= Max(B)
      BY ONLY <2>0, <3>1, MaxOf
    <3> QED BY <3>2, <3>3, <3>4 DEF B
  <2> DEFINE i == 1 + b
  <2> HIDE DEF b
  <2>6. i \in 1..(n + 1)
    BY <2>0, <2>5
  <2>7. ASSUME NEW j \in 1..n, j < i PROVE o[l[j]] < r
    <3>1. b \in 1..n /\ o[l[b]] <= r /\ j <= b
      BY <2>0, <2>5, <2>7
    <3>2. o[l[j]] <= o[l[b]]
      BY <2>0, <2>2, <2>3, <3>1, SMTT(30)
    <3> QED BY <2>1, <2>2, <3>1, <3>2
  <2>8. \A j \in 1..n : j >= i => o[l[j]] > r
    BY <2>0, <2>1, <2>2, <2>5
  <2>9. /\ v \in Seq(Nat) /\ Len(v) = n + 1
        /\ \A k \in 1..(n + 1) :
             v[k] = IF k < i THEN l[k] ELSE IF k = i THEN e ELSE l[k - 1]
    <3>1. i \in 1..(Len(l) + 1) /\ e \in Nat
      BY <2>0, <2>6
    <3>2. v = InsertAt(l, i, e)
      BY DEF e
    <3> HIDE DEF v, i
    <3>3. l \in Seq(Nat) /\ Len(l) = n
      BY <2>0
    <3>4. /\ InsertAt(l, i, e) \in Seq(Nat) /\ Len(InsertAt(l, i, e)) = Len(l) + 1
          /\ \A k \in 1..(Len(l) + 1) : InsertAt(l, i, e)[k] =
               IF k < i THEN l[k] ELSE IF k = i THEN e ELSE l[k - 1]
      BY ONLY <3>1, <3>3, InsertAtIs, ZenonT(40)
    <3> QED BY ONLY <3>2, <3>3, <3>4
  <2> HIDE DEF v, i
  <2>10. /\ \A k \in 1..(n + 1) : v[k] = e \/ \E j \in 1..n : v[k] = l[j]
         /\ \A j \in 1..n : \E k \in 1..(n + 1) : v[k] = l[j]
         /\ \E k \in 1..(n + 1) : v[k] = e
         /\ \A j, k \in 1..(n + 1) : j < k => o[v[j]] < o[v[k]]
    <3>1. n \in Nat /\ r \in Nat /\ o[e] = r
      BY <2>0, <2>1
    <3>2. \A j \in 1..n : o[l[j]] \in Nat
      BY <2>2
    <3>3. \A j \in 1..n : j < i => o[l[j]] < r
      BY <2>7
    <3>4. \A k \in 1..(n + 1) :
            v[k] = IF k < i THEN l[k] ELSE IF k = i THEN e ELSE l[k - 1]
      BY <2>9
    <3>5. Inserts(n, l, v, i, o, e, r)
      BY ONLY <2>3, <2>6, <2>8, <3>1, <3>2, <3>3, <3>4 DEF Inserts
    <3> QED BY <3>5, SortedInsert, ZenonT(40)
  <2>11. \A k \in 1..(n + 1) : v[k] \in 1..(m + 1) /\ ports[v[k]] \in owned
    BY <1>2, <2>0, <2>10, ZenonT(40) DEF e
  <2>12. \A k \in 1..(m + 1) : ports[k] \in owned => \E j \in 1..(n + 1) : v[j] = k
    <3>1. \A k \in 1..m : ports[k] \in owned => \E j \in 1..n : l[j] = k
      BY <2>0 DEF Sorted
    <3>2. \A k \in 1..(m + 1) : k \in 1..m \/ k = e
      BY DEF e
    <3> QED BY <2>10, <3>1, <3>2
  <2>13. \A j, k \in 1..(n + 1) : j < k => Ordinal(ports[v[j]]) < Ordinal(ports[v[k]])
    <3>1. \A k \in 1..(n + 1) : o[v[k]] = Ordinal(ports[v[k]])
      BY <2>11 DEF o
    <3> QED BY <2>10, <3>1
  <2>14. Inserted(owned, l, m + 1) = v
    BY <1>2 DEF Inserted, v, i, b
  <2> QED BY <2>9, <2>11, <2>12, <2>13, <2>14 DEF Sorted
<1> QED BY <1>1, <1>2

IsFold(h, owned, m) ==
  h = [t \in SUBSET (1..m) |->
         IF t = {} THEN <<>> ELSE Inserted(owned, h[t \ {Max(t)}], Max(t))]

LEMMA FoldExists ==
  ASSUME NEW owned
  PROVE  \A m \in Nat : \E h : IsFold(h, owned, m)
<1> DEFINE S == {m \in Nat : \E h : IsFold(h, owned, m)}
<1>1. 0 \in S
  <2> DEFINE h == [t \in SUBSET (1..0) |-> <<>>]
  <2>1. IsFold(h, owned, 0)
    <3>1. SUBSET (1..0) = {{}}
      OBVIOUS
    <3> QED BY <3>1 DEF IsFold
  <2> QED BY <2>1
<1>2. ASSUME NEW m \in Nat, m \in S PROVE m + 1 \in S
  <2>1. PICK h : IsFold(h, owned, m)
    BY <1>2
  <2> DEFINE g == [t \in SUBSET (1..(m + 1)) |->
                     IF m + 1 \in t THEN Inserted(owned, h[t \ {m + 1}], m + 1) ELSE h[t]]
  <2> DEFINE e(t) == IF t = {} THEN <<>> ELSE Inserted(owned, g[t \ {Max(t)}], Max(t))
  <2>2. ASSUME NEW t \in SUBSET (1..(m + 1)) PROVE g[t] = e(t)
    <3>1. CASE m + 1 \in t
      <4>1. Max(t) = m + 1
        <5>1. t \in SUBSET Nat /\ \A x \in t : x <= m + 1
          OBVIOUS
        <5> QED BY <3>1, <5>1, MaxIs
      <4>2. t \ {m + 1} \in SUBSET (1..(m + 1)) /\ m + 1 \notin t \ {m + 1}
        OBVIOUS
      <4>3. g[t \ {m + 1}] = h[t \ {m + 1}]
        BY <4>2
      <4>4. g[t] = Inserted(owned, h[t \ {m + 1}], m + 1)
        BY <3>1
      <4> HIDE DEF g
      <4> QED BY <3>1, <4>1, <4>3, <4>4
    <3>2. CASE m + 1 \notin t
      <4>1. t \in SUBSET (1..m)
        BY <3>2
      <4>2. g[t] = h[t]
        BY <3>2
      <4>3. h[t] = IF t = {} THEN <<>> ELSE Inserted(owned, h[t \ {Max(t)}], Max(t))
        BY <2>1, <4>1 DEF IsFold
      <4>4. m + 1 \notin t \ {Max(t)} /\ t \ {Max(t)} \in SUBSET (1..(m + 1))
        BY <3>2
      <4>5. g[t \ {Max(t)}] = h[t \ {Max(t)}]
        BY <4>4
      <4> HIDE DEF g
      <4> QED BY <4>2, <4>3, <4>5
    <3> QED BY <3>1, <3>2
  <2>3. g = [t \in SUBSET (1..(m + 1)) |-> e(t)]
    <3> HIDE DEF e
    <3> QED BY <2>2
  <2>4. IsFold(g, owned, m + 1)
    <3> HIDE DEF g
    <3> QED BY <2>3 DEF IsFold
  <2> QED BY <2>4
<1> HIDE DEF S
<1>3. \A m \in Nat : m \in S
  BY <1>1, <1>2, SetInduction
<1> QED BY <1>3 DEF S

\* The list is one of pointers into the current block of the array.
LEMMA ListedIs ==
  ASSUME NEW owned, n_ports \in Nat, Apart(owned, n_ports)
  PROVE  \E l : /\ Sorted(owned, l, n_ports)
               /\ ListPorts(owned) = [j \in DOMAIN l |-> [block |-> block, at |-> l[j]]]
<1> DEFINE n == n_ports
           s == [k \in 1..n_ports |-> k]
           h == CHOOSE h : h = [t \in SUBSET (DOMAIN s) |->
                  IF t = {} THEN <<>> ELSE Inserted(owned, h[t \ {Max(t)}], s[Max(t)])]
           l == h[DOMAIN s]
<1>1. ListPorts(owned) = [j \in DOMAIN l |-> [block |-> block, at |-> l[j]]]
  BY DEF ListPorts, FoldLeft, MapThenFoldSet
<1>2. IsFold(h, owned, n) /\ DOMAIN s = 1..n
  <2>1. PICK g : IsFold(g, owned, n)
    BY FoldExists
  <2>2. ASSUME NEW t \in SUBSET (1..n), t # {} PROVE s[Max(t)] = Max(t)
    <3>1. t \in SUBSET (0..n)
      OBVIOUS
    <3>2. Max(t) \in t
      BY <2>2, <3>1, MaxOf
    <3> QED BY <3>2
  <2>3. DOMAIN s = 1..n
    OBVIOUS
  <2> HIDE DEF s
  <2>4. \A f : f = [t \in SUBSET (DOMAIN s) |->
                  IF t = {} THEN <<>> ELSE Inserted(owned, f[t \ {Max(t)}], s[Max(t)])]
             <=> IsFold(f, owned, n)
    <3> SUFFICES ASSUME NEW f
                 PROVE  [t \in SUBSET (DOMAIN s) |->
                          IF t = {} THEN <<>> ELSE Inserted(owned, f[t \ {Max(t)}], s[Max(t)])]
                        = [t \in SUBSET (1..n) |->
                          IF t = {} THEN <<>> ELSE Inserted(owned, f[t \ {Max(t)}], Max(t))]
      BY DEF IsFold
    <3> QED BY <2>2, <2>3
  <2> QED BY <2>1, <2>3, <2>4
<1> HIDE DEF h, s
<1> DEFINE S == {m \in Nat : m <= n => Sorted(owned, h[1..m], m)}
<1>3. 0 \in S
  <2>1. h[1..0] = <<>>
    BY <1>2 DEF IsFold
  <2>2. <<>> \in Seq(Nat) /\ Len(<<>>) = 0
    BY EmptySeq
  <2> DEFINE none == <<>>
  <2>3. none \in Seq(Nat) /\ Len(none) = 0
    BY <2>2
  <2> HIDE DEF none
  <2>4. Sorted(owned, none, 0)
    BY <2>3 DEF Sorted
  <2> QED BY <2>1, <2>4 DEF none
<1>4. ASSUME NEW m \in Nat, m \in S PROVE m + 1 \in S
  <2> SUFFICES ASSUME m + 1 <= n PROVE Sorted(owned, h[1..(m + 1)], m + 1)
    OBVIOUS
  <2>1. Sorted(owned, h[1..m], m)
    BY <1>4
  <2>2. Apart(owned, m + 1)
    <3>1. 1..(m + 1) \subseteq 1..n_ports
      OBVIOUS
    <3> QED BY <3>1 DEF Apart
  <2>3. h[1..(m + 1)] = Inserted(owned, h[1..m], m + 1)
    <3> DEFINE t == 1..(m + 1)
    <3>1. t \in SUBSET (1..n) /\ m + 1 \in t
      OBVIOUS
    <3>2. Max(t) = m + 1 /\ t \ {m + 1} = 1..m
      <4>1. m + 1 \in Nat /\ t \in SUBSET Nat /\ \A x \in t : x <= m + 1
        BY ONLY m \in Nat
      <4>2. t \ {m + 1} = 1..m
        BY ONLY m \in Nat
      <4> HIDE DEF t
      <4>3. Max(t) = m + 1
        BY ONLY <3>1, <4>1, MaxIs
      <4> QED BY <4>2, <4>3
    <3> HIDE DEF t, n
    <3>3. h[t] = IF t = {} THEN <<>> ELSE Inserted(owned, h[t \ {Max(t)}], Max(t))
      BY <3>1, <1>2 DEF IsFold
    <3> QED BY <3>1, <3>2, <3>3 DEF t
  <2> QED BY <2>1, <2>2, <2>3, InsertedIs
<1>5. \A m \in Nat : m \in S
  <2> HIDE DEF S
  <2> QED BY <1>3, <1>4, SetInduction
<1>6. Sorted(owned, h[1..n], n)
  BY <1>5
<1> QED BY <1>1, <1>2, <1>6

\* Ordinals: a port's is its place among the ports of its node.
LEMMA NodeOrdinals ==
  ASSUME NEW node \in {OwnPorts, DevicePorts}
  PROVE  /\ node \in Seq(ToSet(node)) /\ Len(node) \in Nat /\ DOMAIN node = 1..Len(node)
         /\ \A i, j \in 1..Len(node) : node[i] = node[j] => i = j
         /\ \A i \in 1..Len(node) : Ordinal(node[i]) = i
<1> DEFINE n == Len(OwnPorts)  m == Len(DevicePorts)
           both == OwnPorts \o DevicePorts
           T == ToSet(OwnPorts) \cup ToSet(DevicePorts)
<1>1. /\ OwnPorts \in Seq(ToSet(OwnPorts)) /\ DevicePorts \in Seq(ToSet(DevicePorts))
      /\ IsInjective(both)
  BY StreamAssumption
<1>2. /\ n \in Nat /\ m \in Nat /\ DOMAIN OwnPorts = 1..n /\ DOMAIN DevicePorts = 1..m
  BY <1>1, LenProperties
<1>3. OwnPorts \in Seq(T) /\ DevicePorts \in Seq(T)
  <2>1. \A i \in 1..n : OwnPorts[i] \in T
    BY <1>1, <1>2, ElementOfSeq
  <2>2. \A i \in 1..m : DevicePorts[i] \in T
    BY <1>1, <1>2, ElementOfSeq
  <2> HIDE DEF T
  <2> QED BY <1>1, <1>2, <2>1, <2>2
<1> HIDE DEF T
<1>4. /\ both \in Seq(T) /\ Len(both) = n + m
      /\ \A i \in 1..(n + m) : both[i] = IF i <= n THEN OwnPorts[i] ELSE DevicePorts[i - n]
  BY <1>3, ConcatProperties
<1>5. DOMAIN both = 1..(n + m)
  BY <1>4, LenProperties
<1> HIDE DEF both, n, m
<1>6. \A i, j \in 1..(n + m) : both[i] = both[j] => i = j
  BY <1>1, <1>5 DEF IsInjective
<1>7. \A i \in 1..n : i \in 1..(n + m) /\ both[i] = OwnPorts[i]
  BY <1>2, <1>4
<1>8. ASSUME NEW i \in 1..m PROVE n + i \in 1..(n + m) /\ both[n + i] = DevicePorts[i]
  <2>1. n + i \in 1..(n + m) /\ ~ (n + i <= n) /\ (n + i) - n = i
    BY <1>2
  <2> QED BY <1>4, <2>1
<1>9. \A i, j \in 1..n : OwnPorts[i] = OwnPorts[j] => i = j
  BY <1>6, <1>7
<1>10. ASSUME NEW i \in 1..m, NEW j \in 1..m, DevicePorts[i] = DevicePorts[j] PROVE i = j
  <2>1. n + i = n + j
    BY <1>6, <1>8, <1>10
  <2> QED BY <1>2, <2>1
<1>11. ASSUME NEW i \in 1..n, NEW j \in 1..m PROVE OwnPorts[i] # DevicePorts[j]
  <2>1. i # n + j
    BY <1>2
  <2> QED BY <1>6, <1>7, <1>8, <2>1
<1>12. ASSUME NEW i \in 1..n PROVE Ordinal(OwnPorts[i]) = i
  <2>1. \A k \in (1..n) \cup (1..m) :
          ((k \in 1..n /\ OwnPorts[k] = OwnPorts[i])
           \/ (k \in 1..m /\ DevicePorts[k] = OwnPorts[i])) <=> k = i
    BY <1>9, <1>11
  <2> QED BY <1>2, <2>1 DEF Ordinal
<1>13. ASSUME NEW i \in 1..m PROVE Ordinal(DevicePorts[i]) = i
  <2>1. \A k \in (1..n) \cup (1..m) :
          ((k \in 1..n /\ OwnPorts[k] = DevicePorts[i])
           \/ (k \in 1..m /\ DevicePorts[k] = DevicePorts[i])) <=> k = i
    BY <1>10, <1>11
  <2> QED BY <1>2, <2>1 DEF Ordinal
<1>14. CASE node = OwnPorts
  BY <1>1, <1>2, <1>9, <1>12, <1>14 DEF n
<1>15. CASE node = DevicePorts
  BY <1>1, <1>2, <1>10, <1>13, <1>15 DEF m
<1> QED BY <1>14, <1>15

LEMMA InNode ==
  ASSUME NEW node \in {OwnPorts, DevicePorts}
  PROVE  \A p : p \in ToSet(node) <=> \E i \in 1..Len(node) : node[i] = p
BY NodeOrdinals, Zenon DEF ToSet

LEMMA ApartIs ==
  ASSUME RegistryInv, NEW node \in {OwnPorts, DevicePorts}
  PROVE  n_ports \in Nat /\ Apart(ToSet(node), n_ports)
<1>1. n_ports \in Nat /\ Distinct
  BY DEF RegistryInv, RegistryType
<1>2. ASSUME NEW p \in ToSet(node), NEW q \in ToSet(node)
      PROVE  Ordinal(p) \in Nat /\ (Ordinal(p) = Ordinal(q) => p = q)
  <2>1. PICK i \in 1..Len(node) : node[i] = p
    BY InNode
  <2>2. PICK j \in 1..Len(node) : node[j] = q
    BY InNode
  <2>3. Ordinal(p) = i /\ Ordinal(q) = j
    BY <2>1, <2>2, NodeOrdinals
  <2> QED BY <2>1, <2>2, <2>3
<1>3. Apart(ToSet(node), n_ports)
  BY <1>1, <1>2 DEF Apart, Distinct
<1> QED BY <1>1, <1>3

\* What a node's list names: its live ports, each once, by ascending ordinal.
LEMMA ListNames ==
  ASSUME RegistryInv, NEW node \in {OwnPorts, DevicePorts}
  PROVE  LET list   == ListPorts(ToSet(node))
             listed == [j \in DOMAIN list |-> ports[list[j].at]]
         IN  /\ Len(list) \in Nat /\ DOMAIN list = 1..Len(list)
             /\ DOMAIN listed = 1..Len(list)
             /\ \A p : (p \in ToSet(node) /\ graph[p] = "live")
                         <=> \E j \in 1..Len(list) : listed[j] = p
             /\ \A i, j \in 1..Len(list) : i < j => Ordinal(listed[i]) < Ordinal(listed[j])
<1> DEFINE owned == ToSet(node)
           list == ListPorts(owned)
           listed == [j \in DOMAIN list |-> ports[list[j].at]]
<1>1. n_ports \in Nat /\ Apart(owned, n_ports)
  BY ApartIs
<1> HIDE DEF owned
<1>2. PICK l : /\ Sorted(owned, l, n_ports)
               /\ list = [j \in DOMAIN l |-> [block |-> block, at |-> l[j]]]
  BY <1>1, ListedIs
<1>3. l \in Seq(Nat) /\ DOMAIN l = 1..Len(l) /\ Len(l) \in Nat
  BY <1>2, LenProperties DEF Sorted
<1>4. /\ list = [j \in 1..Len(l) |-> [block |-> block, at |-> l[j]]]
      /\ DOMAIN list = 1..Len(l) /\ Len(list) = Len(l)
  BY <1>2, <1>3
<1>5. /\ DOMAIN listed = 1..Len(l)
      /\ \A j \in 1..Len(l) : listed[j] = ports[l[j]]
  BY <1>4
<1> HIDE DEF list, listed
<1>6. ASSUME NEW p PROVE (p \in owned /\ graph[p] = "live")
                           <=> \E j \in 1..Len(l) : listed[j] = p
  <2>0. p \in owned => p \in Ports
    BY DEF owned, Ports
  <2>1. ASSUME p \in owned, graph[p] = "live" PROVE \E j \in 1..Len(l) : listed[j] = p
    <3>1. PICK k \in 1..n_ports : ports[k] = p
      BY <2>0, <2>1 DEF RegistryInv, CacheIsExact
    <3>2. PICK j \in 1..Len(l) : l[j] = k
      BY <1>2, <2>1, <3>1 DEF Sorted
    <3> QED BY <1>5, <3>1, <3>2
  <2>2. ASSUME NEW j \in 1..Len(l), listed[j] = p PROVE p \in owned /\ graph[p] = "live"
    <3>1. l[j] \in 1..n_ports /\ ports[l[j]] = p /\ p \in owned
      BY <1>2, <1>5, <2>2 DEF Sorted
    <3> QED BY <3>1 DEF RegistryInv, CacheIsExact
  <2> QED BY <2>1, <2>2
<1>7. \A i, j \in 1..Len(l) : i < j => Ordinal(listed[i]) < Ordinal(listed[j])
  BY <1>2, <1>5 DEF Sorted
<1> QED BY <1>3, <1>4, <1>5, <1>6, <1>7 DEF list, listed, owned

(***************************************************************************)
(* Whatever the order in which ports come and go, the array holds the      *)
(* graph's ports, and a node's list is its cached ports by ordinal.          *)
(***************************************************************************)
THEOREM RegistryIsExact == Spec => []RegistryMirrorsGraph
<1>1. RegistryInv => RegistryMirrorsGraph
  <2> SUFFICES ASSUME RegistryInv PROVE RegistryMirrorsGraph
    OBVIOUS
  <2>1. ASSUME NEW node \in {OwnPorts, DevicePorts}
        PROVE  LET list   == ListPorts(ToSet(node))
                   listed == [j \in DOMAIN list |-> ports[list[j].at]]
               IN  /\ ToSet(listed) = {p \in ToSet(node) : graph[p] = "live"}
                   /\ \A i, j \in DOMAIN listed :
                        i < j => Ordinal(listed[i]) < Ordinal(listed[j])
    <3> DEFINE list == ListPorts(ToSet(node))
               listed == [j \in DOMAIN list |-> ports[list[j].at]]
    <3>1. /\ DOMAIN listed = 1..Len(list)
          /\ \A p : (p \in ToSet(node) /\ graph[p] = "live")
                      <=> \E j \in 1..Len(list) : listed[j] = p
          /\ \A i, j \in 1..Len(list) : i < j => Ordinal(listed[i]) < Ordinal(listed[j])
      BY ListNames
    <3> HIDE DEF listed, list
    <3>2. ToSet(listed) = {listed[j] : j \in 1..Len(list)}
      BY <3>1 DEF ToSet
    <3>3. ToSet(listed) = {p \in ToSet(node) : graph[p] = "live"}
      BY <3>1, <3>2
    <3> QED BY <3>1, <3>3 DEF listed, list
  <2> QED BY <2>1 DEF RegistryInv, RegistryMirrorsGraph
<1> QED BY <1>1, RegistryInit, RegistryStep, PTL DEF Spec

(***************************************************************************)
(* A list is as long as the node has live ports.                           *)
(***************************************************************************)
LEMMA OwnCount ==
  ASSUME RegistryInv
  PROVE  LET L == Len(ListPorts(ToSet(OwnPorts)))
         IN  /\ L \in Nat
             /\ L >= N => \A p \in ToSet(OwnPorts) : graph[p] = "live"
             /\ (\A p \in ToSet(OwnPorts) : graph[p] = "live") => L = N
<1> DEFINE list == ListPorts(ToSet(OwnPorts))
           listed == [j \in DOMAIN list |-> ports[list[j].at]]
           L == Len(list)
           A == {i \in 1..N : graph[OwnPorts[i]] = "live"}
           f == [j \in 1..L |-> Ordinal(listed[j])]
<1>1. /\ L \in Nat
      /\ \A p : (p \in ToSet(OwnPorts) /\ graph[p] = "live")
                  <=> \E j \in 1..L : listed[j] = p
      /\ \A i, j \in 1..L : i < j => Ordinal(listed[i]) < Ordinal(listed[j])
  BY ListNames
<1> HIDE DEF list, listed, L
<1>2. N \in Nat /\ \A i \in 1..N : Ordinal(OwnPorts[i]) = i
  BY NodeOrdinals DEF N
<1>3. \A p : p \in ToSet(OwnPorts) <=> \E i \in 1..N : OwnPorts[i] = p
  BY InNode DEF N
<1>4. ASSUME NEW j \in 1..L PROVE f[j] \in A
  <2>1. listed[j] \in ToSet(OwnPorts) /\ graph[listed[j]] = "live"
    BY <1>1
  <2>2. PICK i \in 1..N : OwnPorts[i] = listed[j]
    BY <1>3, <2>1
  <2> QED BY <1>2, <2>1, <2>2
<1>5. ASSUME NEW i \in A PROVE \E j \in 1..L : f[j] = i
  <2>1. OwnPorts[i] \in ToSet(OwnPorts) /\ graph[OwnPorts[i]] = "live"
    BY <1>3
  <2>2. PICK j \in 1..L : listed[j] = OwnPorts[i]
    BY <1>1, <2>1
  <2> QED BY <1>2, <2>2
<1>6. \A i, j \in 1..L : f[i] = f[j] => i = j
  <2>1. \A i \in 1..L : Ordinal(listed[i]) \in Nat
    BY <1>2, <1>4
  <2> QED BY <1>1, <2>1
<1> HIDE DEF A, f
<1>7. f \in Surjection(1..L, A) /\ f \in Injection(1..L, A)
  <2>1. f \in [1..L -> A]
    BY <1>4 DEF f
  <2> QED BY <1>5, <1>6, <2>1 DEF Surjection, Injection, IsInjective
<1>8. /\ IsFiniteSet(1..L) /\ Cardinality(1..L) = L
      /\ IsFiniteSet(1..N) /\ Cardinality(1..N) = N
  <2>1. /\ 1 \in Int /\ L \in Int /\ N \in Int
        /\ (IF 1 > L THEN 0 ELSE L - 1 + 1) = L /\ (IF 1 > N THEN 0 ELSE N - 1 + 1) = N
    BY <1>1, <1>2
  <2> QED BY <2>1, FS_Interval
<1>9. Cardinality(A) = L
  BY <1>7, <1>8, FS_Surjection
<1>10. A \in SUBSET (1..N)
  BY DEF A
<1>11. L <= N /\ (L = N => A = 1..N)
  <2>1. /\ Cardinality(A) <= Cardinality(1..N)
        /\ Cardinality(1..N) = Cardinality(A) => 1..N = A
    <3> HIDE DEF N
    <3> QED BY <1>8, <1>10, FS_Subset
  <2> QED BY <1>8, <1>9, <2>1
<1>12. L >= N => \A p \in ToSet(OwnPorts) : graph[p] = "live"
  BY <1>1, <1>2, <1>3, <1>11 DEF A
<1>13. (\A p \in ToSet(OwnPorts) : graph[p] = "live") => L = N
  <2> SUFFICES ASSUME \A p \in ToSet(OwnPorts) : graph[p] = "live" PROVE L = N
    OBVIOUS
  <2>1. A = 1..N
    BY <1>3 DEF A
  <2> QED BY <1>8, <1>9, <2>1
<1> QED BY <1>1, <1>12, <1>13 DEF L, list

LEMMA PeerCount ==
  ASSUME RegistryInv
  PROVE  LET L == Len(ListPorts(ToSet(DevicePorts)))
         IN  L \in Nat /\ (L > 0 => \E p \in ToSet(DevicePorts) : graph[p] = "live")
<1> DEFINE list == ListPorts(ToSet(DevicePorts))
           listed == [j \in DOMAIN list |-> ports[list[j].at]]
<1>1. /\ Len(list) \in Nat
      /\ \A p : (p \in ToSet(DevicePorts) /\ graph[p] = "live")
                  <=> \E j \in 1..Len(list) : listed[j] = p
  BY ListNames
<1> HIDE DEF list, listed
<1>2. Len(list) > 0 => 1 \in 1..Len(list)
  BY <1>1
<1> QED BY <1>1, <1>2 DEF list

(***************************************************************************)
(* A stream is wired in full.  Where a call stands says what it has done:  *)
(* the stream's own ports are all there before they are listed, so that    *)
(* every channel gets a link; a listed port of the device means that the   *)
(* device is there; and while the set is there, the links before the one   *)
(* at hand are counted and came up.                                        *)
(***************************************************************************)
Linking == app.pc \in {"linking", "waiting", "made"}

PortsInv ==
  /\ \A p \in ToSet(OwnPorts) : graph[p] # "gone"
  /\ (\E p \in ToSet(DevicePorts) : graph[p] = "live") => device
  /\ links => device
  /\ app.pc \in {"resolving", "listing"} =>
       \A p \in ToSet(OwnPorts) : graph[p] = "live"

ListsInv ==
  /\ app.pc \in {"awaiting", "resolving", "listing", "pairing"} => ~ links
  /\ At("pairing") \/ Linking => Len(own) = N
  /\ Linking => PairPorts(Len(own), Len(peer)) = N /\ app.i \in Channels

\* Of the set of links: what the call at pc, with the link i and its result,
\* has made of it
Made(pc, i, res) ==
  /\ set.n_links = i - 1
  /\ \A c \in 1..(i - 1) : c \in set.proxies /\ c \in set.seen
  /\ \A c \in set.proxies : c \in 1..i
  /\ pc = "waiting" => i \in set.proxies
  /\ pc = "made" /\ res = "OK" => i \in set.proxies /\ i \in set.seen

Whole ==
  /\ set.n_links = N
  /\ set.proxies = Channels
  /\ Channels \subseteq set.seen

ProgressInv ==
  /\ Linking /\ links => Made(app.pc, app.i, app.res)
  /\ At("idle") /\ links => Whole

WiredInv == PortsInv /\ ListsInv /\ ProgressInv

LEMMA WiredInit == Init => WiredInv
<1> SUFFICES ASSUME Init PROVE WiredInv
  OBVIOUS
<1>1. app.pc = "idle" /\ ~ links /\ device
  BY DEF Init, Idle
<1>2. \A p \in ToSet(OwnPorts) : graph[p] # "gone"
  <2>1. PICK P : graph = [p \in Ports |-> IF p \in P THEN "live" ELSE "absent"]
    BY DEF Init
  <2>2. ToSet(OwnPorts) \subseteq Ports
    BY DEF Ports
  <2> QED BY <2>1, <2>2
<1> QED BY <1>1, <1>2 DEF WiredInv, PortsInv, ListsInv, ProgressInv, Linking, At

\* Steps that touch neither the call nor the ports, and take links away at most
LEMMA WiredKeeps ==
  ASSUME WiredInv, UNCHANGED <<app, own, peer, graph>>,
         \/ UNCHANGED <<links, set, device>>
         \/ ~ links' /\ UNCHANGED device
         \/ ~ links' /\ \A p \in ToSet(DevicePorts) : graph[p] # "live"
  PROVE  WiredInv'
<1>1. (links' => links /\ set' = set /\ device' = device) /\ app' = app
      /\ own' = own /\ peer' = peer /\ graph' = graph
  OBVIOUS
<1>2. PortsInv'
  BY <1>1 DEF WiredInv, PortsInv
<1>3. ListsInv'
  BY <1>1 DEF WiredInv, ListsInv, Linking, At
<1>4. ProgressInv'
  BY <1>1 DEF WiredInv, ProgressInv, Made, Whole, Linking, At
<1> QED BY <1>2, <1>3, <1>4 DEF WiredInv

LEMMA LoopWired ==
  ASSUME WiredInv, StartStop \/ OnNodeRemoved \/ OnSourceLost \/ CallbackUnlink
                   \/ CallbackStartStop \/ CallbackReturn \/ UNCHANGED vars
  PROVE  WiredInv'
<1> USE DEF KeepLinks, callVars, registryVars
<1>1. CASE OnNodeRemoved
  <2>1. UNCHANGED <<app, own, peer, graph>> /\ ~ links'
        /\ \A p \in ToSet(DevicePorts) : graph[p] # "live"
    BY <1>1 DEF OnNodeRemoved, DeviceLeaves, InGraph
  <2> QED BY <2>1, WiredKeeps
<1>2. CASE CallbackUnlink
  BY <1>2, WiredKeeps DEF CallbackUnlink
<1>3. CASE StartStop \/ OnSourceLost \/ CallbackStartStop \/ CallbackReturn \/ UNCHANGED vars
  BY <1>3, WiredKeeps
  DEF StartStop, OnSourceLost, CallbackStartStop, CallbackReturn, vars
<1> QED BY <1>1, <1>2, <1>3

LEMMA GraphWired ==
  ASSUME RegistryInv, WiredInv, NEW p \in Ports, OnPortAdded(p) \/ OnPortMissed(p) \/ OnPortRemoved(p)
  PROVE  WiredInv'
<1>1. UNCHANGED <<links, set, app, own, peer, device>>
  BY DEF OnPortAdded, OnPortMissed, OnPortRemoved, KeepLinks, callVars
<1>2. \A q \in ToSet(OwnPorts) \cup ToSet(DevicePorts) :
        \/ graph'[q] = graph[q]
        \/ graph'[q] = "live" /\ (q \in ToSet(DevicePorts) => device)
        \/ graph'[q] = "gone" /\ q \notin ToSet(OwnPorts)
        \/ graph[q] = "absent" /\ graph'[q] = "missed"
  <2>1. graph \in [Ports -> {"absent", "live", "missed", "gone"}]
    BY DEF RegistryInv, RegistryType
  <2>2. ToSet(OwnPorts) \cup ToSet(DevicePorts) \subseteq Ports
    BY DEF Ports
  <2>3. CASE OnPortAdded(p)
    BY <2>1, <2>2, <2>3 DEF OnPortAdded
  <2>4. CASE OnPortMissed(p)
    BY <2>1, <2>2, <2>4 DEF OnPortMissed
  <2>5. CASE OnPortRemoved(p)
    BY <2>1, <2>2, <2>5 DEF OnPortRemoved
  <2> QED BY <2>3, <2>4, <2>5
<1>3. PortsInv'
  <2>1. \A q \in ToSet(OwnPorts) : graph'[q] # "gone"
    BY <1>2 DEF WiredInv, PortsInv
  <2>2. (\E q \in ToSet(DevicePorts) : graph'[q] = "live") => device
    BY <1>2 DEF WiredInv, PortsInv
  <2>3. (\A q \in ToSet(OwnPorts) : graph[q] = "live")
          => \A q \in ToSet(OwnPorts) : graph'[q] = "live"
    BY <1>2
  <2> QED BY <1>1, <2>1, <2>2, <2>3 DEF WiredInv, PortsInv
<1>4. ListsInv' /\ ProgressInv'
  BY <1>1 DEF WiredInv, ListsInv, ProgressInv, Made, Whole, Linking, At
<1> QED BY <1>3, <1>4 DEF WiredInv

LEMMA InfoWired ==
  ASSUME CallType, WiredInv, NEW c \in Channels, OnLinkInfo(c)
  PROVE  WiredInv'
<1>1. /\ UNCHANGED <<links, app, own, peer, graph, device>>
      /\ set'.n_links = set.n_links /\ set'.proxies = set.proxies
      /\ set.seen \subseteq set'.seen
  BY DEF OnLinkInfo, CallType, callVars, registryVars
<1>2. PortsInv' /\ ListsInv'
  BY <1>1 DEF WiredInv, PortsInv, ListsInv, Linking, At
<1>3. ProgressInv'
  BY <1>1 DEF WiredInv, ProgressInv, Made, Whole, Linking, At
<1> QED BY <1>2, <1>3 DEF WiredInv

LEMMA AppWired ==
  ASSUME CallInv, RegistryInv, WiredInv, LinkCall \/ UnlinkCall \/ AppStep
  PROVE  WiredInv'
<1>0. /\ UNCHANGED <<graph, device>>
      /\ links' => links \/ ListPeer
  BY DEF LinkCall, UnlinkCall, AppStep, AwaitOwnPorts, AwaitTimeout, ResolveTarget,
         ListOwn, ListPeer, LinkRefused, LinkOne, LinkOneFails, LinkOneWakes,
         CountLink, ReleaseRead, ReleaseClear, ReleaseDestroy, AppLocal, KeepLinks,
         registryVars
\* A step that is no part of wiring: it leaves no links, or starts to release them
<1>1. ASSUME app'.pc \in {"idle", "reading", "clearing", "destroying"},
             app'.pc = "idle" => ~ links', links' => links
      PROVE  WiredInv'
  BY <1>0, <1>1 DEF WiredInv, PortsInv, ListsInv, ProgressInv, Linking, At
\* A step before the set of links is there
<1>2. ASSUME app'.pc \in {"awaiting", "resolving", "listing", "pairing"}, ~ links',
             app'.pc \in {"resolving", "listing"} =>
               \A p \in ToSet(OwnPorts) : graph[p] = "live",
             app'.pc = "pairing" => Len(own') = N
      PROVE  WiredInv'
  BY <1>0, <1>2 DEF WiredInv, PortsInv, ListsInv, ProgressInv, Linking, At
\* A step from one link to the next
<1>3. ASSUME app'.pc \in {"linking", "waiting", "made"}, Len(own') = N,
             PairPorts(Len(own'), Len(peer')) = N, app'.i \in Channels,
             links' => device /\ Made(app.pc, app.i, app.res)'
      PROVE  WiredInv'
  <2>1. PortsInv'
    BY <1>0, <1>3 DEF WiredInv, PortsInv
  <2> QED BY <1>3, <2>1 DEF WiredInv, ListsInv, ProgressInv, Linking, At
<1>4. /\ app.pc \in {"idle", "awaiting", "resolving", "listing", "pairing",
                     "linking", "waiting", "made", "reading", "clearing",
                     "destroying"}
      /\ app.i \in Nat
      /\ app \in [pc : {"idle", "awaiting", "resolving", "listing", "pairing",
                         "linking", "waiting", "made", "reading", "clearing",
                         "destroying"},
                  i : Nat, res : {"OK", "FAILED"}]
  BY DEF CallInv, CallType
<1>5. links => set.st = "live" /\ device
  BY DEF CallInv, Owned, WiredInv, PortsInv
<1>6. N \in Nat /\ N > 0
  BY NodeOrdinals, StreamAssumption DEF N
<1>7. CASE LinkCall
  BY <1>2, <1>4, <1>7 DEF LinkCall, Goto, KeepLinks
<1>8. CASE UnlinkCall
  BY <1>1, <1>4, <1>8 DEF UnlinkCall, Goto, KeepLinks
<1>9. CASE AwaitOwnPorts
  <2>1. \A p \in ToSet(OwnPorts) : graph[p] = "live"
    BY <1>9, OwnCount DEF AwaitOwnPorts
  <2> QED BY <1>2, <1>4, <1>9, <2>1
          DEF AwaitOwnPorts, Goto, At, KeepLinks, WiredInv, ListsInv
<1>10. CASE AwaitTimeout \/ LinkRefused
  <2>1. app'.pc = "idle"
    BY <1>10 DEF AwaitTimeout, LinkRefused, Return, Idle
  <2>2. ~ links /\ links' = links
    BY <1>10 DEF AwaitTimeout, LinkRefused, At, KeepLinks, WiredInv, ListsInv
  <2> QED BY <1>1, <2>1, <2>2
<1>11. CASE ResolveTarget
  BY <1>2, <1>4, <1>11
  DEF ResolveTarget, Goto, At, KeepLinks, WiredInv, ListsInv, PortsInv
<1>12. CASE ListOwn
  <2>1. Len(own') = N
    <3>1. \A p \in ToSet(OwnPorts) : graph[p] = "live"
      BY <1>12 DEF ListOwn, At, WiredInv, PortsInv
    <3> QED BY <1>12, <3>1, OwnCount DEF ListOwn
  <2> QED BY <1>2, <1>4, <1>12, <2>1 DEF ListOwn, Goto, At, KeepLinks, WiredInv, ListsInv
<1>13. CASE ListPeer
  <2>1. Len(own) = N /\ own' = own
    BY <1>13 DEF ListPeer, At, WiredInv, ListsInv
  <2>2. peer' = ListPorts(ToSet(DevicePorts)) /\ PairPorts(Len(own), Len(peer')) > 0
    BY <1>13 DEF ListPeer
  <2>3. Len(peer') \in Nat
    BY <2>2, PeerCount
  <2>4. PairPorts(Len(own'), Len(peer')) = N /\ Len(peer') > 0
    BY <1>6, <2>1, <2>2, <2>3 DEF PairPorts
  <2>5. device
    BY <2>2, <2>4, PeerCount DEF WiredInv, PortsInv
  <2>6. app'.pc = "linking" /\ app'.i = 1 /\ app'.res = "OK"
        /\ set'.n_links = 0 /\ set'.proxies = {} /\ set'.seen = {}
    BY <1>13 DEF ListPeer, NewSet
  <2>7. 1 \in Channels /\ 1 - 1 = 0 /\ 1..0 = {}
    BY <1>6 DEF Channels
  <2>8. Made(app.pc, app.i, app.res)'
    BY <2>6, <2>7 DEF Made
  <2> QED BY <1>3, <2>1, <2>4, <2>5, <2>6, <2>7, <2>8
<1>14. ASSUME Linking
       PROVE  /\ Len(own) = N /\ PairPorts(Len(own), Len(peer)) = N /\ app.i \in Channels
              /\ links => Made(app.pc, app.i, app.res)
  BY <1>14 DEF WiredInv, ListsInv, ProgressInv
<1>15. CASE LinkOne
  <2>1. app' = [app EXCEPT !.pc = "waiting"] /\ At("linking") /\ Linking
        /\ UNCHANGED <<links, own, peer>>
    BY <1>15 DEF LinkOne, Goto, At, Linking
  <2>2. links => set' = [set EXCEPT !.proxies = @ \cup {app.i}]
    BY <1>5, <1>15 DEF LinkOne
  <2>3. app'.pc = "waiting" /\ app'.i = app.i
    BY <1>4, <2>1
  <2>4. ASSUME links PROVE Made(app.pc, app.i, app.res)'
    <3>1. /\ set'.n_links = set.n_links /\ set'.seen = set.seen
          /\ set'.proxies = set.proxies \cup {app.i}
      BY <2>2, <2>4 DEF CallInv, CallType
    <3>2. app.i \in 1..app.i
      BY <2>1, <1>6, <1>14 DEF Channels
    <3> QED BY <1>14, <2>1, <2>3, <2>4, <3>1, <3>2 DEF Made
  <2> QED BY <1>3, <1>5, <1>14, <2>1, <2>3, <2>4
<1>16. CASE LinkOneFails
  <2>1. app' = [app EXCEPT !.pc = "made", !.res = "FAILED"] /\ Linking
        /\ UNCHANGED <<links, set, own, peer>>
    BY <1>16 DEF LinkOneFails, KeepLinks, At, Linking
  <2>2. app'.pc = "made" /\ app'.i = app.i /\ app'.res = "FAILED"
    BY <1>4, <2>1
  <2>3. links => Made(app.pc, app.i, app.res)'
    BY <1>14, <2>1, <2>2 DEF Made
  <2> QED BY <1>3, <1>5, <1>14, <2>1, <2>2, <2>3
<1>17. CASE LinkOneWakes
  <2>1. PICK res \in {"OK", "FAILED"} :
          /\ (res = "OK" /\ set.st = "live") => app.i \in set.seen \ set.lost
          /\ app' = [app EXCEPT !.pc = "made", !.res = res]
    BY <1>17 DEF LinkOneWakes
  <2>2. At("waiting") /\ Linking /\ UNCHANGED <<links, set, own, peer>>
    BY <1>17 DEF LinkOneWakes, KeepLinks, At, Linking
  <2>3. app'.pc = "made" /\ app'.i = app.i /\ app'.res = res
    BY <1>4, <2>1
  <2>4. links => Made(app.pc, app.i, app.res)'
    BY <1>5, <1>14, <2>1, <2>2, <2>3 DEF Made, At
  <2> QED BY <1>3, <1>5, <1>14, <2>2, <2>3, <2>4
<1>18. CASE CountLink
  <2>1. At("made") /\ Linking /\ links' = links
    BY <1>18 DEF CountLink, At, Linking
  <2>2. links => /\ set'.n_links = app.i /\ set'.proxies = set.proxies
                 /\ set'.seen = set.seen
    BY <1>5, <1>18 DEF CountLink, CallInv, CallType
  <2>3. app.i \in 1..N /\ PairPorts(Len(own), Len(peer)) = N
    BY <1>14, <2>1 DEF Channels
  <2>4. CASE app.res = "FAILED"
    <3>1. app'.pc = "reading"
      BY <1>4, <1>18, <2>4 DEF CountLink, Goto
    <3> QED BY <1>1, <2>1, <3>1
  <2>5. ASSUME links, app.res = "OK"
        PROVE  /\ \A c \in 1..app.i : c \in set'.proxies /\ c \in set'.seen
               /\ \A c \in set'.proxies : c \in 1..app.i
    <3>1. \A c \in 1..app.i : c \in 1..(app.i - 1) \/ c = app.i
      BY <2>3
    <3>2. Made(app.pc, app.i, app.res) /\ app.pc = "made"
      BY <1>14, <2>1, <2>5 DEF At
    <3> QED BY <2>2, <2>5, <3>1, <3>2 DEF Made
  <2>6. CASE /\ app.res = "OK" /\ app.i < PairPorts(Len(own), Len(peer))
             /\ app' = [app EXCEPT !.pc = "linking", !.i = @ + 1]
             /\ UNCHANGED <<own, peer>>
    <3>1. app'.pc = "linking" /\ app'.i = app.i + 1 /\ app'.i \in Channels
      <4>1. app'.pc = "linking" /\ app'.i = app.i + 1
        BY <1>4, <2>6
      <4>2. app.i + 1 \in 1..N
        <5>1. N \in Nat
          BY NodeOrdinals DEF N
        <5> HIDE DEF N
        <5> QED BY <1>4, <2>3, <2>6, <5>1
      <4> QED BY <4>1, <4>2 DEF Channels
    <3>2. ASSUME links PROVE Made(app.pc, app.i, app.res)'
      <4>1. app'.i - 1 = app.i /\ \A c \in 1..app.i : c \in 1..app'.i
        BY <2>3, <3>1
      <4> QED BY <2>2, <2>5, <2>6, <3>1, <3>2, <4>1 DEF Made
    <3> QED BY <1>3, <1>5, <1>14, <2>1, <2>6, <3>1, <3>2
  <2>7. CASE app.res = "OK" /\ app.i = PairPorts(Len(own), Len(peer)) /\ Return("OK")
    <3>1. app'.pc = "idle"
      BY <2>7 DEF Return, Idle
    <3>2. links' => Whole'
      BY <2>1, <2>2, <2>3, <2>5, <2>7 DEF Whole, Channels
    <3> QED BY <1>0, <1>5, <2>1, <3>1, <3>2
            DEF WiredInv, PortsInv, ListsInv, ProgressInv, Linking, At
  <2> QED BY <1>18, <2>4, <2>6, <2>7 DEF CountLink
<1>19. CASE ReleaseRead
  <2>1. links' = links
    BY <1>19 DEF ReleaseRead, KeepLinks
  <2>2. CASE links
    <3>1. app' = [app EXCEPT !.pc = "clearing"]
      BY <1>19, <2>2 DEF ReleaseRead, Goto
    <3>2. app'.pc = "clearing"
      BY <1>4, <3>1
    <3> QED BY <1>1, <2>1, <2>2, <3>2
  <2>3. CASE ~ links
    <3>1. app'.pc = "idle"
      BY <1>19, <2>3 DEF ReleaseRead, Return, Idle
    <3> QED BY <1>1, <2>1, <2>3, <3>1
  <2> QED BY <2>2, <2>3
<1>20. CASE ReleaseClear
  BY <1>1, <1>4, <1>20 DEF ReleaseClear, Goto
<1>21. CASE ReleaseDestroy
  <2>1. ~ links /\ links' = links /\ app'.pc = "idle"
    BY <1>21 DEF ReleaseDestroy, Idle, CallInv, Owned, At
  <2> QED BY <1>1, <2>1
<1> QED BY <1>7, <1>8, <1>9, <1>10, <1>11, <1>12, <1>13, <1>15, <1>16, <1>17, <1>18,
           <1>19, <1>20, <1>21 DEF AppStep

LEMMA WiredStep == CallInv /\ RegistryInv /\ WiredInv /\ [Next]_vars => WiredInv'
<1> SUFFICES ASSUME CallInv, RegistryInv, WiredInv, [Next]_vars PROVE WiredInv'
  OBVIOUS
<1>1. CallType
  BY DEF CallInv
<1> QED BY <1>1, AppWired, LoopWired, GraphWired, InfoWired DEF Next

(***************************************************************************)
(* Outside the calls, linked means that every channel owns a counted link  *)
(* that came up and that the device is there.                              *)
(***************************************************************************)
THEOREM StreamIsWired == Spec => []NeverHalfWired
<1>1. WiredInv => NeverHalfWired
  BY DEF WiredInv, PortsInv, ProgressInv, Whole, NeverHalfWired
<1> QED BY <1>1, CallInvInit, CallInvStep, RegistryInit, RegistryStep, WiredInit,
           WiredStep, PTL DEF Spec
=============================================================================
