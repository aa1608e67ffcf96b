------------------------- MODULE FilterLink_proofs -------------------------
(***************************************************************************)
(* Proofs about a filter's lifecycle and links, for every set of ports.    *)
(***************************************************************************)
EXTENDS FilterLink, FiniteSetTheorems, SequenceTheorems, WellFoundedInduction, TLAPS

(***************************************************************************)
(* What the steps that share Release, Report and Handles leave alone.      *)
(***************************************************************************)

LEMMA ReleaseType ==
  ASSUME TypeOK, NEW P, NEW by, Release(P, by)
  PROVE  /\ link_proxy' \in [Ports -> BOOLEAN]
         /\ link_state_seen_active' \in [Ports -> BOOLEAN]
         /\ loss_reported' \in [Ports -> BOOLEAN]
         /\ link' \in [Ports -> {"none", "negotiating", "formatted", "up", "dead"}]
         /\ unreported' \in [Ports -> BOOLEAN]
         /\ fed' \in [Ports -> BOOLEAN]
         /\ offers' \in 0..MaxOffers
<1>1. link_proxy' \in [Ports -> BOOLEAN] /\ unreported' \in [Ports -> BOOLEAN]
  BY DEF Release
<1>2. /\ link_state_seen_active' \in [Ports -> BOOLEAN]
      /\ loss_reported' \in [Ports -> BOOLEAN]
  BY DEF Release
<1>3. link' \in [Ports -> {"none", "negotiating", "formatted", "up", "dead"}]
  BY DEF Release, TypeOK
<1>4. fed' \in [Ports -> BOOLEAN] /\ offers' \in 0..MaxOffers
  BY DEF Release, TypeOK
<1> QED BY <1>1, <1>2, <1>3, <1>4

LEMMA NoWaitType ==
  /\ NoWait \in [done : BOOLEAN,
                 result : {"OK", "INVALID_FORMAT", "CONNECT_FAILED"}]
  /\ NoWait.done <=> NoWait.result # "CONNECT_FAILED"
<1>1. NoWait.done = FALSE /\ NoWait.result = "CONNECT_FAILED"
  BY DEF NoWait
<1>2. NoWait \in [done : BOOLEAN,
                 result : {"OK", "INVALID_FORMAT", "CONNECT_FAILED"}]
  BY DEF NoWait
<1> QED BY <1>1, <1>2

LEMMA TypeInit == Init => TypeOK
<1> SUFFICES ASSUME Init PROVE TypeOK
  OBVIOUS
<1>1. app \in [pc : Places, port : Ports \cup {NULL}]
  BY DEF Init, Idle, Places
<1>2. /\ wait \in [done : BOOLEAN,
                   result : {"OK", "INVALID_FORMAT", "CONNECT_FAILED"}]
      /\ wait.done <=> wait.result # "CONNECT_FAILED"
  BY NoWaitType DEF Init
<1>3. offers \in 0..MaxOffers
  BY LinkAssumption DEF Init
<1> QED BY <1>1, <1>2, <1>3 DEF Init, TypeOK

\* A step of the application thread that releases nothing
LEMMA QuietType ==
  ASSUME TypeOK, NoRelease, UNCHANGED cb,
         state' \in {"CREATED", "RUNNING", "STOPPED"}, active' \in BOOLEAN,
         NEW pc \in Places,
         NEW port \in Ports \cup {NULL},
         app' = [pc |-> pc, port |-> port], destroying' \in BOOLEAN, restarted' \in BOOLEAN,
         wait' \in {wait, NoWait}, linked' \in [Ports -> BOOLEAN]
  PROVE  TypeOK'
<1>1. app' \in [pc : Places, port : Ports \cup {NULL}]
  OBVIOUS
<1>2. /\ wait' \in [done : BOOLEAN,
                    result : {"OK", "INVALID_FORMAT", "CONNECT_FAILED"}]
      /\ wait'.done <=> wait'.result # "CONNECT_FAILED"
  BY NoWaitType DEF TypeOK
<1> QED BY <1>1, <1>2 DEF TypeOK, NoRelease, portVars, serverVars

\* A step that releases the links of P
LEMMA ReleasingType ==
  ASSUME TypeOK, NEW P, NEW by, Release(P, by), UNCHANGED cb,
         state' \in {"CREATED", "RUNNING", "STOPPED"}, active' \in BOOLEAN,
         NEW pc \in Places,
         NEW port \in Ports \cup {NULL},
         app' = [pc |-> pc, port |-> port], destroying' \in BOOLEAN, restarted' \in BOOLEAN,
         wait' \in {wait, NoWait}, linked' \in [Ports -> BOOLEAN]
  PROVE  TypeOK'
<1>1. app' \in [pc : Places, port : Ports \cup {NULL}]
  OBVIOUS
<1>2. /\ wait' \in [done : BOOLEAN,
                    result : {"OK", "INVALID_FORMAT", "CONNECT_FAILED"}]
      /\ wait'.done <=> wait'.result # "CONNECT_FAILED"
  BY NoWaitType DEF TypeOK
<1>3. cb' \in Ports \cup {NULL}
  BY DEF TypeOK
<1> QED BY <1>1, <1>2, <1>3, ReleaseType DEF TypeOK

LEMMA AppCallType ==
  ASSUME TypeOK, AppCall
  PROVE  TypeOK'
<1>0. app = [pc |-> app.pc, port |-> app.port] /\ app.port \in Ports \cup {NULL}
  BY DEF TypeOK
<1>1. CASE StartLocked
  <2>1. app' = [pc |-> "starting", port |-> app.port]
    BY <1>0, <1>1 DEF StartLocked, Goto
  <2> QED BY <1>0, <1>1, <2>1, QuietType DEF StartLocked, TypeOK, Places
<1>2. CASE StopCall
  <2>1. app' = [pc |-> "stopping", port |-> app.port]
    BY <1>0, <1>2 DEF StopCall, Goto
  <2> QED BY <1>0, <1>2, <2>1, QuietType DEF StopCall, TypeOK, Places
<1>3. CASE DestroyCall
  <2>1. \E pc \in {"destroying", "releasing"} : app' = [pc |-> pc, port |-> app.port]
    BY <1>0, <1>3 DEF DestroyCall, Goto
  <2> QED BY <1>0, <1>3, <2>1, QuietType DEF DestroyCall, TypeOK, Places
<1>4. ASSUME NEW p \in Ports, LinkCall(p)
      PROVE  TypeOK'
  <2>1. linked' \in [Ports -> BOOLEAN]
    BY <1>4 DEF LinkCall, TypeOK, Places
  <2> QED BY <1>4, <2>1, QuietType DEF LinkCall, TypeOK, Places
<1>5. ASSUME NEW p \in Ports, UnlinkCall(p)
      PROVE  TypeOK'
  BY <1>5, QuietType DEF UnlinkCall, TypeOK, Places
<1> QED BY <1>1, <1>2, <1>3, <1>4, <1>5 DEF AppCall

LEMMA AppStepType ==
  ASSUME TypeOK, AppStep
  PROVE  TypeOK'
<1>0. app = [pc |-> app.pc, port |-> app.port] /\ app.port \in Ports \cup {NULL}
  BY DEF TypeOK
<1>1. CASE StartReturn
  BY <1>1, QuietType DEF StartReturn, Return, Idle, TypeOK, Places
<1>2. CASE StopDrain
  <2>1. app' = [pc |-> "draining", port |-> app.port]
    BY <1>0, <1>2 DEF StopDrain, Goto
  <2> QED BY <1>0, <1>2, <2>1, QuietType DEF StopDrain, TypeOK, Places
<1>3. CASE StopLocked
  <2>1. app' = [pc |-> "releasing", port |-> app.port]
    BY <1>0, <1>3 DEF StopLocked, Goto
  <2> QED BY <1>0, <1>3, <2>1, QuietType DEF StopLocked, TypeOK, Places
<1>4. CASE StopRelease
  <2>1. \E pc \in {"tearing", "idle"}, port \in Ports \cup {NULL} :
          app' = [pc |-> pc, port |-> port]
    BY <1>0, <1>4 DEF StopRelease, Goto, Return, Idle
  <2> QED BY <1>4, <2>1, ReleasingType DEF StopRelease, TypeOK, Places
<1>5. CASE LinkUnresolved
  BY <1>5, QuietType DEF LinkUnresolved, Return, Idle, TypeOK, Places
<1>6. CASE LinkCreate
  <2>1. app' = [pc |-> "waiting", port |-> app.port]
    BY <1>0, <1>6 DEF LinkCreate, Goto
  <2>2. /\ link_proxy' \in [Ports -> BOOLEAN]
        /\ link_state_seen_active' \in [Ports -> BOOLEAN]
        /\ link' \in [Ports -> {"none", "negotiating", "formatted", "up", "dead"}]
    BY <1>6 DEF LinkCreate, TypeOK, Places
  <2>5. offers' \in 0..MaxOffers
    BY <1>6, LinkAssumption DEF LinkCreate, TypeOK, Places
  <2>3. /\ wait' \in [done : BOOLEAN,
                      result : {"OK", "INVALID_FORMAT", "CONNECT_FAILED"}]
        /\ wait'.done <=> wait'.result # "CONNECT_FAILED"
    BY <1>6, NoWaitType DEF LinkCreate
  <2>4. app' \in [pc : Places, port : Ports \cup {NULL}]
    BY <1>0, <2>1 DEF Places
  <2> QED BY <1>6, <2>2, <2>3, <2>4, <2>5 DEF LinkCreate, TypeOK, Places
<1>7. CASE LinkWake
  <2>1. linked' \in [Ports -> BOOLEAN]
    BY <1>7 DEF LinkWake, TypeOK, Places
  <2> QED BY <1>7, <2>1, QuietType, ReleasingType DEF LinkWake, Return, Idle, TypeOK, Places
<1>8. CASE LinkTimeout
  BY <1>8, ReleasingType DEF LinkTimeout, Return, Idle, TypeOK, Places
<1>9. CASE UnlinkLocked
  BY <1>9, ReleasingType DEF UnlinkLocked, Return, Idle, TypeOK, Places
<1>10. CASE DestroyTeardown
  <2>1. app' = [pc |-> "gone", port |-> app.port]
    BY <1>0, <1>10 DEF DestroyTeardown, Goto
  <2>2. app' \in [pc : Places, port : Ports \cup {NULL}]
    BY <1>0, <2>1 DEF Places
  <2> QED BY <1>10, <2>2 DEF DestroyTeardown, TypeOK, portVars, serverVars
<1>11. CASE DestroyStop
  <2>1. \E pc \in {"stopping", "tearing"} : app' = [pc |-> pc, port |-> app.port]
    BY <1>0, <1>11 DEF DestroyStop, Goto
  <2> QED BY <1>0, <1>11, <2>1, QuietType DEF DestroyStop, TypeOK, Places
<1>12. CASE DestroyRegistry
  <2>1. app' = [pc |-> "freeing", port |-> app.port]
    BY <1>0, <1>12 DEF DestroyRegistry, Goto
  <2> QED BY <1>0, <1>12, <2>1, QuietType DEF DestroyRegistry, TypeOK, Places
<1> QED BY <1>1, <1>2, <1>3, <1>4, <1>5, <1>6, <1>7, <1>8, <1>9, <1>10, <1>11, <1>12
        DEF AppStep

\* A handler, which may call the error callback
LEMMA LoopType ==
  ASSUME TypeOK, LoopStep
  PROVE  TypeOK'
<1> DEFINE WaitType == /\ wait \in [done : BOOLEAN,
                            result : {"OK", "INVALID_FORMAT", "CONNECT_FAILED"}]
                       /\ wait.done <=> wait.result # "CONNECT_FAILED"
           HandlerType == /\ link_state_seen_active \in [Ports -> BOOLEAN]
                          /\ loss_reported \in [Ports -> BOOLEAN]
                          /\ unreported \in [Ports -> BOOLEAN]
                          /\ cb \in Ports \cup {NULL}
<1>1. ASSUME NEW p \in Ports, NEW kind, Handles(p, kind), WaitType', HandlerType'
      PROVE  TypeOK'
  BY <1>1 DEF Handles, TypeOK, serverVars
<1>2. ASSUME NEW p \in Ports, Report(p)
      PROVE  /\ loss_reported' \in [Ports -> BOOLEAN]
             /\ unreported' \in [Ports -> BOOLEAN]
             /\ cb' \in Ports \cup {NULL}
  BY <1>2 DEF Report, TypeOK
<1>3. WaitType /\ HandlerType
  BY DEF TypeOK
<1>4. ASSUME NEW r \in {"OK", "INVALID_FORMAT"}, Answer(r)
      PROVE  WaitType'
  <2>1. wait'.done = TRUE /\ wait'.result = r
    BY <1>4 DEF Answer
  <2>2. wait' \in [done : BOOLEAN,
                   result : {"OK", "INVALID_FORMAT", "CONNECT_FAILED"}]
    BY <1>4 DEF Answer
  <2> QED BY <2>1, <2>2
<1>5. ASSUME NEW p \in Ports, OnFormat(p)
      PROVE  TypeOK'
  <2>1. HandlerType' /\ WaitType'
    BY <1>3, <1>5 DEF OnFormat
  <2> QED BY <1>1, <1>5, <2>1 DEF OnFormat
<1>6. ASSUME NEW p \in Ports, OnCleared(p)
      PROVE  TypeOK'
  <2>1. HandlerType' /\ WaitType'
    BY <1>2, <1>3, <1>6 DEF OnCleared
  <2> QED BY <1>1, <1>6, <2>1 DEF OnCleared
<1>7. ASSUME NEW p \in Ports, OnLinkUp(p)
      PROVE  TypeOK'
  <2>1. HandlerType'
    BY <1>3, <1>7 DEF OnLinkUp
  <2>2. WaitType'
    BY <1>3, <1>4, <1>7 DEF OnLinkUp
  <2> QED BY <1>1, <1>7, <2>1, <2>2 DEF OnLinkUp
<1>8. ASSUME NEW p \in Ports, OnLinkDown(p)
      PROVE  TypeOK'
  <2>1. WaitType'
    BY <1>3, <1>4, <1>8 DEF OnLinkDown
  <2>2. HandlerType'
    BY <1>2, <1>3, <1>8 DEF OnLinkDown
  <2> QED BY <1>1, <1>8, <2>1, <2>2 DEF OnLinkDown
<1>9. CASE CallbackReturn
  BY <1>9 DEF CallbackReturn, NoRelease, TypeOK, portVars, serverVars, appVars
<1> QED BY <1>5, <1>6, <1>7, <1>8, <1>9 DEF LoopStep

LEMMA CallbackType ==
  ASSUME TypeOK, Callback
  PROVE  TypeOK'
<1>0. app = [pc |-> app.pc, port |-> app.port] /\ app.port \in Ports \cup {NULL}
      /\ app.pc \in Places
  BY DEF TypeOK
<1>1. CASE CallbackStop
  BY <1>0, <1>1, ReleasingType, ZenonT(40) DEF CallbackStop, TypeOK, appVars
<1>2. CASE CallbackStart
  BY <1>0, <1>2, QuietType DEF CallbackStart, TypeOK, appVars
<1>3. ASSUME NEW p \in Ports, CallbackUnlink(p)
      PROVE  TypeOK'
  BY <1>0, <1>3, ReleasingType DEF CallbackUnlink, TypeOK, appVars
<1> QED BY <1>1, <1>2, <1>3 DEF Callback

LEMMA ServerType ==
  ASSUME TypeOK, NEW p \in Ports, ServerStep(p)
  PROVE  TypeOK'
<1>1. link' \in [Ports -> {"none", "negotiating", "formatted", "up", "dead"}]
  BY DEF ServerStep, TypeOK
<1>2. fed' \in [Ports -> BOOLEAN]
  BY DEF ServerStep, TypeOK
<1>3. offers' \in 0..MaxOffers
  BY LinkAssumption DEF ServerStep, TypeOK
<1>4. UNCHANGED <<state, active, portVars, appVars, cb, linked, unreported, restarted>>
  BY DEF ServerStep
<1> QED BY <1>1, <1>2, <1>3, <1>4 DEF TypeOK, portVars, appVars

LEMMA TypeStep == TypeOK /\ [Next]_vars => TypeOK'
<1>1. ASSUME TypeOK, UNCHANGED vars
      PROVE  TypeOK'
  BY <1>1 DEF TypeOK, vars, portVars, appVars, serverVars
<1> QED BY <1>1, AppCallType, AppStepType, LoopType, CallbackType, ServerType DEF Next

(***************************************************************************)
(* Every variable keeps its type; the inbox holds what Msg() makes.        *)
(***************************************************************************)
THEOREM TypeCorrect == Spec => []TypeOK
BY TypeInit, TypeStep, PTL DEF Spec

(***************************************************************************)
(* Who may own a proxy, when process() may run, and what is left of both   *)
(* once the filter is being destroyed.                                     *)
(***************************************************************************)
Owners ==
  \A p \in Ports : link_proxy[p] => linked[p] \/ (At("waiting") /\ app.port = p)

Starts == active => state = "RUNNING" \/ At("starting")

\* After destroy's last look at the state only the error callback can start the
\* filter; the callback cannot begin to run while the filter does not.  Between
\* its two looks a filter that stops running releases its links.
Ends ==
  /\ destroying => app.pc \in {"destroying", "stopping", "releasing", "tearing",
                               "freeing", "gone"}
  /\ At("destroying") \/ At("tearing") \/ At("freeing") \/ At("gone") => destroying
  /\ StateIsRead => restarted \/ state # "RUNNING"
  /\ At("freeing") => restarted \/ cb = NULL
  /\ At("gone") => cb = NULL /\ inbox = <<>>
  /\ At("destroying") => state = "RUNNING" \/ \A p \in Ports : ~ link_proxy[p]
  /\ At("tearing") \/ At("freeing") \/ At("gone") => \A p \in Ports : ~ link_proxy[p]

Inv == TypeOK /\ Owners /\ Starts /\ Ends

LEMMA InvInit == Init => Inv
BY TypeInit DEF Init, Inv, Owners, Starts, Ends, StateIsRead, At, Idle

LEMMA AppCallInv ==
  ASSUME Inv, AppCall
  PROVE  (Owners /\ Starts /\ Ends)'
<1> USE DEF Inv, At, Goto, LockFree, NoRelease, portVars
<1>0. app.pc' = app'.pc /\ app.port' = app'.port
  OBVIOUS
<1>1. CASE StartLocked
  BY <1>1 DEF StartLocked, TypeOK, Owners, Starts, Ends, StateIsRead
<1>2. CASE StopCall
  BY <1>2 DEF StopCall, TypeOK, Owners, Starts, Ends, StateIsRead
<1>3. CASE DestroyCall
  BY <1>3 DEF DestroyCall, TypeOK, Owners, Starts, Ends, StateIsRead
<1>4. ASSUME NEW p \in Ports, LinkCall(p)
      PROVE  (Owners /\ Starts /\ Ends)'
  BY <1>4 DEF LinkCall, TypeOK, Owners, Starts, Ends, StateIsRead
<1>5. ASSUME NEW p \in Ports, UnlinkCall(p)
      PROVE  (Owners /\ Starts /\ Ends)'
  BY <1>5 DEF UnlinkCall, TypeOK, Owners, Starts, Ends, StateIsRead
<1> QED BY <1>1, <1>2, <1>3, <1>4, <1>5 DEF AppCall

LEMMA AppStepInv ==
  ASSUME Inv, AppStep
  PROVE  (Owners /\ Starts /\ Ends)'
<1> USE DEF Inv, At, Goto, Return, Idle, LockFree, NoRelease, portVars
<1>1. CASE StartReturn
  BY <1>1 DEF StartReturn, TypeOK, Owners, Starts, Ends, StateIsRead
<1>2. CASE StopDrain
  BY <1>2 DEF StopDrain, TypeOK, Owners, Starts, Ends, StateIsRead
<1>3. CASE StopLocked
  BY <1>3 DEF StopLocked, TypeOK, Owners, Starts, Ends, StateIsRead
<1>4. CASE StopRelease
  <2>1. \A p \in Ports : ~ link_proxy'[p]
    BY <1>4 DEF StopRelease, Release
  <2> QED BY <1>4, <2>1 DEF StopRelease, TypeOK, Owners, Starts, Ends, StateIsRead
<1>5. CASE LinkUnresolved
  BY <1>5 DEF LinkUnresolved, TypeOK, Owners, Starts, Ends, StateIsRead
<1>6. CASE LinkCreate
  BY <1>6 DEF LinkCreate, TypeOK, Owners, Starts, Ends, StateIsRead
<1>7. CASE LinkWake
  <2>1. CASE wait.result = "OK"
    BY <1>7, <2>1 DEF LinkWake, TypeOK, Owners, Starts, Ends, StateIsRead
  <2>2. CASE wait.result # "OK"
    <3>1. \A p \in Ports : link_proxy'[p] => link_proxy[p] /\ p # app.port
      BY <1>7, <2>2 DEF LinkWake, Release
    <3> QED BY <1>7, <2>2, <3>1 DEF LinkWake, TypeOK, Owners, Starts, Ends, StateIsRead
  <2> QED BY <2>1, <2>2
<1>8. CASE LinkTimeout
  <2>1. \A p \in Ports : link_proxy'[p] => link_proxy[p] /\ p # app.port
    BY <1>8 DEF LinkTimeout, Release
  <2> QED BY <1>8, <2>1 DEF LinkTimeout, TypeOK, Owners, Starts, Ends, StateIsRead
<1>9. CASE UnlinkLocked
  <2>1. \A p \in Ports : link_proxy'[p] => link_proxy[p] /\ p # app.port
    BY <1>9 DEF UnlinkLocked, Release
  <2> QED BY <1>9, <2>1 DEF UnlinkLocked, TypeOK, Owners, Starts, Ends, StateIsRead
<1>10. CASE DestroyTeardown
  BY <1>10 DEF DestroyTeardown, TypeOK, Owners, Starts, Ends, StateIsRead
<1>11. CASE DestroyStop
  BY <1>11 DEF DestroyStop, TypeOK, Owners, Starts, Ends, StateIsRead
<1>12. CASE DestroyRegistry
  BY <1>12 DEF DestroyRegistry, TypeOK, Owners, Starts, Ends, StateIsRead
<1> QED BY <1>1, <1>2, <1>3, <1>4, <1>5, <1>6, <1>7, <1>8, <1>9, <1>10, <1>11, <1>12
        DEF AppStep

\* The handlers leave the application and the proxies alone, and call the error
\* callback only while the filter runs.
LEMMA LoopInv ==
  ASSUME Inv, LoopStep
  PROVE  (Owners /\ Starts /\ Ends)'
<1>1. UNCHANGED <<state, active, app, destroying, link_proxy, linked, restarted>>
  BY DEF LoopStep, OnFormat, OnCleared, OnLinkUp, OnLinkDown, Handles,
         CallbackReturn, NoRelease, portVars, appVars
<1>2. cb' \in {cb, NULL} \/ state = "RUNNING"
  BY DEF LoopStep, OnFormat, OnCleared, OnLinkUp, OnLinkDown, Report, Claimable,
         CallbackReturn
<1>3. ~ At("gone")
  BY DEF LoopStep, OnFormat, OnCleared, OnLinkUp, OnLinkDown, Handles,
         CallbackReturn, Inv, Ends
<1> QED BY <1>1, <1>2, <1>3 DEF Inv, Owners, Starts, Ends, StateIsRead, At

\* What the error callback does, at any point of a destroy but its end.
LEMMA CallbackInv ==
  ASSUME Inv, Callback
  PROVE  (Owners /\ Starts /\ Ends)'
<1>1. cb # NULL /\ UNCHANGED <<app, destroying, cb, linked>>
  BY DEF Callback, CallbackStop, CallbackStart, CallbackUnlink, appVars
<1>2. \A p \in Ports : link_proxy'[p] => link_proxy[p]
  BY DEF Callback, CallbackStop, CallbackStart, CallbackUnlink, Release,
         NoRelease, portVars
<1>3. ~ At("gone")
  BY <1>1 DEF Inv, Ends
<1>4. CASE CallbackStop
  <2>1. /\ state' = "STOPPED" /\ ~ active' /\ restarted' = restarted
        /\ \A p \in Ports : ~ link_proxy'[p]
    BY <1>4 DEF CallbackStop, Release
  <2> QED BY <1>1, <1>2, <1>3, <2>1 DEF Inv, Owners, Starts, Ends, StateIsRead, At
<1>5. CASE CallbackStart
  <2>1. /\ state' = "RUNNING"
        /\ restarted \/ StateIsRead => restarted'
    BY <1>5 DEF CallbackStart
  <2> QED BY <1>1, <1>2, <1>3, <2>1 DEF Inv, Owners, Starts, Ends, StateIsRead, At
<1>6. ASSUME NEW q \in Ports, CallbackUnlink(q)
      PROVE  (Owners /\ Starts /\ Ends)'
  <2>1. UNCHANGED <<state, active, restarted>>
    BY <1>6 DEF CallbackUnlink
  <2> QED BY <1>1, <1>2, <1>3, <2>1 DEF Inv, Owners, Starts, Ends, StateIsRead, At
<1> QED BY <1>4, <1>5, <1>6 DEF Callback

LEMMA InvStep == Inv /\ [Next]_vars => Inv'
<1> SUFFICES ASSUME Inv, [Next]_vars PROVE Inv'
  OBVIOUS
<1>1. TypeOK'
  BY TypeStep DEF Inv
<1>2. ASSUME NEW p \in Ports, ServerStep(p)
      PROVE  (Owners /\ Starts /\ Ends)'
  BY <1>2 DEF ServerStep, portVars, appVars, Inv, Owners, Starts, Ends, StateIsRead, At
<1>3. CASE UNCHANGED vars
  <2>1. UNCHANGED <<state, active, link_proxy, app, destroying, cb, inbox, linked, restarted>>
    BY <1>3 DEF vars, portVars, appVars
  <2> QED BY <1>1, <2>1 DEF Inv, Owners, Starts, Ends, StateIsRead, At
<1> QED BY <1>1, <1>2, <1>3, AppCallInv, AppStepInv, LoopInv, CallbackInv DEF Next, Inv

LEMMA InvHolds == Spec => []Inv
BY InvInit, InvStep, PTL DEF Spec

(***************************************************************************)
(* A call that fails leaves no link behind, whatever the server and the    *)
(* error callback do during its wait.                                      *)
(***************************************************************************)
THEOREM NothingPartial == Spec => []NoPartialLink
<1>1. Inv => NoPartialLink
  BY DEF Inv, Owners, NoPartialLink
<1> QED BY <1>1, InvHolds, PTL

(***************************************************************************)
(* A filter that is freed owns no link, and the memory of its ports is     *)
(* freed when process() cannot run and the error callback is over, unless  *)
(* the callback started the filter after destroy's last look at its state. *)
(***************************************************************************)
THEOREM QuietDestroy == Spec => []DestroyedIsQuiet
<1>1. Inv => DestroyedIsQuiet
  BY DEF Inv, Starts, Ends, StateIsRead, At, DestroyedIsQuiet
<1> QED BY <1>1, InvHolds, PTL

(***************************************************************************)
(* Every loss of a running filter is told: a source that is still to be    *)
(* reported is never marked as reported, and nothing but a handler takes a *)
(* message out of the inbox while the application does nothing.            *)
(***************************************************************************)
Marks == \A p \in Ports : ~ (unreported[p] /\ loss_reported[p])

LEMMA ReleaseMarks ==
  ASSUME Marks, NEW P, NEW by, Release(P, by)
  PROVE  Marks'
BY DEF Marks, Release

LEMMA MarksStep == TypeOK /\ Marks /\ [Next]_vars => Marks'
<1> SUFFICES ASSUME TypeOK, Marks, [Next]_vars PROVE Marks'
  OBVIOUS
<1>1. CASE UNCHANGED <<unreported, loss_reported>>
  BY <1>1 DEF Marks
<1>2. CASE NoRelease
  BY <1>1, <1>2 DEF NoRelease, portVars
<1>3. ASSUME NEW p \in Ports, Report(p)
      PROVE  Marks'
  BY <1>3 DEF Report, TypeOK, Marks
<1>4. CASE AppCall
  BY <1>2, <1>4 DEF AppCall, StartLocked, StopCall, DestroyCall, LinkCall, UnlinkCall
<1>5. CASE AppStep
  BY <1>1, <1>2, <1>5, ReleaseMarks
  DEF AppStep, StartReturn, StopDrain, StopLocked, StopRelease, LinkUnresolved,
      LinkCreate, LinkWake, LinkTimeout, UnlinkLocked, DestroyStop, DestroyRegistry,
      DestroyTeardown, portVars
<1>6. CASE LoopStep
  <2>1. ASSUME NEW p \in Ports, OnFormat(p)
        PROVE  Marks'
    BY <2>1 DEF OnFormat, TypeOK, Marks
  <2> QED BY <1>1, <1>2, <1>3, <1>6, <2>1
          DEF LoopStep, OnCleared, OnLinkUp, OnLinkDown, CallbackReturn
<1>7. CASE Callback
  BY <1>2, <1>7, ReleaseMarks DEF Callback, CallbackStop, CallbackStart, CallbackUnlink
<1>8. ASSUME NEW p \in Ports, ServerStep(p)
      PROVE  Marks'
  BY <1>1, <1>8 DEF ServerStep, portVars
<1>9. CASE UNCHANGED vars
  BY <1>1, <1>9 DEF vars, portVars
<1> QED BY <1>4, <1>5, <1>6, <1>7, <1>8, <1>9 DEF Next

\* The steps of a call move the application on; the server's change its links.
LEMMA OnlyHandlersHandle ==
  ASSUME TypeOK, Next, NEW p \in Ports, Handles(p, "cleared")
  PROVE  OnCleared(p)
<1>0. cb = NULL /\ UNCHANGED <<app, serverVars>>
  BY DEF Handles
<1>1. ~ AppCall
  BY <1>0 DEF AppCall, StartLocked, StopCall, DestroyCall, LinkCall, UnlinkCall,
              At, Goto, TypeOK
<1>2. ~ AppStep
  BY <1>0 DEF AppStep, StartReturn, StopDrain, StopLocked, StopRelease,
              LinkUnresolved, LinkCreate, LinkWake, LinkTimeout, UnlinkLocked,
              DestroyStop, DestroyRegistry, DestroyTeardown, At, Goto, Return, Idle, TypeOK
<1>3. ~ Callback
  BY <1>0 DEF Callback, CallbackStop, CallbackStart, CallbackUnlink
<1>4. ASSUME NEW q \in Ports, ServerStep(q)
      PROVE  FALSE
  BY <1>0, <1>4 DEF ServerStep, serverVars, TypeOK
<1>5. LoopStep
  BY <1>1, <1>2, <1>3, <1>4 DEF Next
<1> QED BY <1>0, <1>5 DEF LoopStep, OnFormat, OnCleared, OnLinkUp, OnLinkDown,
                          CallbackReturn, Handles

THEOREM LossReported == Spec => LossIsReported
<1> DEFINE Tells == \A p \in Ports :
                      (/\ Handles(p, "cleared")
                       /\ Head(inbox).by = "server"
                       /\ unreported[p]
                       /\ state = "RUNNING") => cb' = p
<1>1. Init => Marks
  BY DEF Init, Marks
<1>2. TypeOK /\ Marks /\ Next => Tells
  BY OnlyHandlersHandle DEF OnCleared, Report, Claimable, Marks
<1>3. TypeOK /\ Marks /\ [Next]_vars => [Tells]_vars
  BY <1>2
<1> QED BY <1>1, <1>3, MarksStep, TypeCorrect, PTL DEF Spec, LossIsReported

(***************************************************************************)
(* No loss is told before there was a source: the messages of a port are   *)
(* in order.  A port that has neither mark has had no source yet, and what *)
(* tells of the loss of one comes behind what tells of its format.         *)
(***************************************************************************)
Message == [port : Ports, kind : {"format", "cleared", "up", "down"},
            by : {"server", "app", "failure"}]

Is(m, p, kinds)  == m.port = p /\ m.kind \in kinds
HasFormat(s, p)  == \E j \in 1..Len(s) : Is(s[j], p, {"format"})
OrderedTo(s, p, n) ==
  \A k \in 1..n : Is(s[k], p, {"cleared", "up"}) =>
    \E j \in 1..n : j < k /\ Is(s[j], p, {"format"})
Ordered(s, p) == OrderedTo(s, p, Len(s))

Fresh(p) == ~ unreported[p] /\ ~ loss_reported[p]

Awaits(p) ==
  /\ ~ link_state_seen_active[p]
  /\ Carries(p) \/ fed[p] => HasFormat(inbox, p)
  /\ Ordered(inbox, p)

OrderInv ==
  /\ inbox \in Seq(Message)
  /\ ~ At("gone") => \A p \in Ports : Fresh(p) => Awaits(p)

LEMMA NatMin ==
  ASSUME NEW T \in SUBSET Nat, T # {}
  PROVE  \E x \in T : \A y \in T : x <= y
<1> DEFINE R == OpToRel(<, Nat)
<1>1. IsWellFoundedOn(R, Nat)
  BY NatLessThanWellFounded
<1> HIDE DEF R
<1>2. PICK x \in T : \A y \in T : ~ (<<y, x>> \in R)
  BY <1>1, WFMin
<1>3. \A y \in T : ~ (y < x)
  BY <1>2 DEF R, OpToRel
<1> QED BY <1>3

LEMMA SetInduction ==
  ASSUME NEW S, 0 \in S, \A n \in Nat : n \in S => n + 1 \in S
  PROVE  \A n \in Nat : n \in S
<1> SUFFICES ASSUME Nat \ S # {} PROVE FALSE
  OBVIOUS
<1>1. PICK x \in Nat \ S : \A y \in Nat \ S : x <= y
  BY NatMin
<1>2. x # 0 /\ x - 1 \in Nat
  BY <1>1
<1>3. x - 1 \in S
  BY <1>1, <1>2
<1>4. x = (x - 1) + 1
  BY <1>1
<1> QED BY <1>1, <1>2, <1>3, <1>4

LEMMA MaxIs ==
  ASSUME NEW t \in SUBSET Nat, NEW m \in t, \A x \in t : x <= m
  PROVE  Max(t) = m
<1>1. \A k \in t : (\A y \in t : k >= y) => k = m
  OBVIOUS
<1> QED BY <1>1 DEF Max

LEMMA MaxOf ==
  ASSUME NEW n \in Nat, NEW t \in SUBSET (0..n), t # {}
  PROVE  Max(t) \in t /\ \A x \in t : x <= Max(t)
<1> DEFINE T == {n - x : x \in t}
<1>1. T \in SUBSET Nat /\ T # {}
  <2>1. PICK x \in t : TRUE
    OBVIOUS
  <2>2. n - x \in T
    BY <2>1
  <2> QED BY <2>2
<1>2. PICK k \in T : \A y \in T : k <= y
  BY <1>1, NatMin
<1>3. PICK m \in t : k = n - m
  BY <1>2
<1>4. \A x \in t : n - x \in T
  OBVIOUS
<1> HIDE DEF T
<1>5. \A x \in t : x <= m
  BY <1>2, <1>3, <1>4
<1>6. t \in SUBSET Nat
  OBVIOUS
<1> QED BY <1>3, <1>5, <1>6, MaxIs

\* What is left of the first m messages of s, when the proxies of O are gone:
\* those of other ports, in their order
Left(O, s, l, m) ==
  /\ l \in Seq(Message)
  /\ \A p \in Ports \ O :
       /\ \A k \in 1..m : Is(s[k], p, {"format"}) => HasFormat(l, p)
       /\ OrderedTo(s, p, m) => Ordered(l, p)

LEMMA OneMore ==
  ASSUME NEW l \in Seq(Message), NEW e \in Message
  PROVE  /\ Append(l, e) \in Seq(Message) /\ Len(Append(l, e)) = Len(l) + 1
         /\ Len(l) \in Nat
         /\ \A k \in 1..Len(l) : Append(l, e)[k] = l[k]
         /\ Append(l, e)[Len(l) + 1] = e
BY AppendProperties, LenProperties

LEMMA LeftNext ==
  ASSUME NEW O, NEW s \in Seq(Message), NEW m \in Nat, m + 1 <= Len(s),
         NEW l, Left(O, s, l, m)
  PROVE  Left(O, s, Heard(O, l, s[m + 1]), m + 1)
<1> DEFINE e == s[m + 1]
<1>1. e \in Message /\ Len(s) \in Nat
  BY LenProperties, ElementOfSeq
<1> HIDE DEF e
<1>2. ASSUME NEW p, OrderedTo(s, p, m + 1) PROVE OrderedTo(s, p, m)
  <2>1. \A k \in 1..m : k \in 1..(m + 1)
    OBVIOUS
  <2>2. \A k \in 1..m, j \in 1..(m + 1) : j < k => j \in 1..m
    OBVIOUS
  <2> QED BY <1>2, <2>1, <2>2 DEF OrderedTo
<1>3. \A k \in 1..(m + 1) : k \in 1..m \/ k = m + 1
  OBVIOUS
<1>4. CASE e.port \in O /\ e.kind \in LinkInfo
  <2>1. Heard(O, l, e) = l
    BY <1>4 DEF Heard
  <2>2. \A p \in Ports \ O : ~ Is(e, p, {"format"})
    BY <1>4 DEF Is
  <2> QED BY <1>2, <1>3, <2>1, <2>2 DEF Left, e
<1>5. CASE ~ (e.port \in O /\ e.kind \in LinkInfo)
  <2> DEFINE v == Append(l, e)  n == Len(l)
  <2>1. Heard(O, l, e) = v
    BY <1>5 DEF Heard
  <2>2. /\ v \in Seq(Message) /\ Len(v) = n + 1 /\ n \in Nat
        /\ \A k \in 1..n : v[k] = l[k]
        /\ v[n + 1] = e
    BY <1>1, OneMore DEF Left
  <2> HIDE DEF v, n
  <2>3. /\ \A k \in 1..n : k \in 1..(n + 1) /\ k < n + 1
        /\ n + 1 \in 1..(n + 1)
        /\ \A k \in 1..(n + 1) : k \in 1..n \/ k = n + 1
    BY <2>2
  <2>4. ASSUME NEW p, HasFormat(l, p) PROVE HasFormat(v, p)
    BY <2>2, <2>3, <2>4 DEF HasFormat, n
  <2>5. ASSUME NEW p \in Ports \ O, NEW k \in 1..(m + 1), Is(s[k], p, {"format"})
        PROVE  HasFormat(v, p)
    <3>1. CASE k \in 1..m
      BY <2>4, <2>5, <3>1 DEF Left
    <3>2. CASE k = m + 1
      BY <2>2, <2>3, <2>5, <3>2 DEF HasFormat, e
    <3> QED BY <1>3, <3>1, <3>2
  <2>6. ASSUME NEW p \in Ports \ O, OrderedTo(s, p, m + 1)
        PROVE  Ordered(v, p)
    <3>1. Ordered(l, p)
      BY <1>2, <2>6 DEF Left
    <3>2. ASSUME NEW k \in 1..n, Is(v[k], p, {"cleared", "up"})
          PROVE  \E j \in 1..(n + 1) : j < k /\ Is(v[j], p, {"format"})
      <4>1. PICK j \in 1..n : j < k /\ Is(l[j], p, {"format"})
        BY <2>2, <3>1, <3>2 DEF Ordered, OrderedTo, n
      <4> QED BY <2>2, <2>3, <4>1
    <3>3. ASSUME Is(e, p, {"cleared", "up"})
          PROVE  \E j \in 1..(n + 1) : j < n + 1 /\ Is(v[j], p, {"format"})
      <4>1. m + 1 \in 1..(m + 1)
        OBVIOUS
      <4>2. PICK i \in 1..(m + 1) : i < m + 1 /\ Is(s[i], p, {"format"})
        BY <2>6, <3>3, <4>1 DEF OrderedTo, e
      <4>3. HasFormat(l, p)
        BY <1>3, <4>2 DEF Left
      <4>4. PICK j \in 1..n : Is(l[j], p, {"format"})
        BY <4>3 DEF HasFormat, n
      <4> QED BY <2>2, <2>3, <4>4
    <3> QED BY <2>2, <2>3, <3>2, <3>3 DEF Ordered, OrderedTo
  <2> QED BY <2>1, <2>2, <2>5, <2>6 DEF Left, e
<1> QED BY <1>4, <1>5

IsFold(h, O, s, m) ==
  h = [t \in SUBSET (1..m) |->
         IF t = {} THEN <<>> ELSE Heard(O, h[t \ {Max(t)}], s[Max(t)])]

LEMMA FoldExists ==
  ASSUME NEW O, NEW s
  PROVE  \A m \in Nat : \E h : IsFold(h, O, s, m)
<1> DEFINE S == {m \in Nat : \E h : IsFold(h, O, s, m)}
<1>1. 0 \in S
  <2> DEFINE h == [t \in SUBSET (1..0) |-> <<>>]
  <2>1. IsFold(h, O, s, 0)
    <3>1. SUBSET (1..0) = {{}}
      OBVIOUS
    <3> QED BY <3>1 DEF IsFold
  <2> QED BY <2>1
<1>2. ASSUME NEW m \in Nat, m \in S PROVE m + 1 \in S
  <2>1. PICK h : IsFold(h, O, s, m)
    BY <1>2
  <2> DEFINE g == [t \in SUBSET (1..(m + 1)) |->
                     IF m + 1 \in t THEN Heard(O, h[t \ {m + 1}], s[m + 1]) ELSE h[t]]
  <2> DEFINE e(t) == IF t = {} THEN <<>> ELSE Heard(O, g[t \ {Max(t)}], s[Max(t)])
  <2>2. ASSUME NEW t \in SUBSET (1..(m + 1)) PROVE g[t] = e(t)
    <3>1. CASE m + 1 \in t
      <4>1. Max(t) = m + 1
        <5>1. t \in SUBSET Nat /\ \A x \in t : x <= m + 1
          OBVIOUS
        <5> QED BY <3>1, <5>1, MaxIs
      <4>2. t \ {m + 1} \in SUBSET (1..(m + 1)) /\ m + 1 \notin t \ {m + 1}
        OBVIOUS
      <4>3. g[t \ {m + 1}] = h[t \ {m + 1}]
        BY <4>2
      <4>4. g[t] = Heard(O, h[t \ {m + 1}], s[m + 1])
        BY <3>1
      <4> HIDE DEF g
      <4> QED BY <3>1, <4>1, <4>3, <4>4
    <3>2. CASE m + 1 \notin t
      <4>1. t \in SUBSET (1..m)
        BY <3>2
      <4>2. g[t] = h[t]
        BY <3>2
      <4>3. h[t] = IF t = {} THEN <<>> ELSE Heard(O, h[t \ {Max(t)}], s[Max(t)])
        BY <2>1, <4>1 DEF IsFold
      <4>4. m + 1 \notin t \ {Max(t)} /\ t \ {Max(t)} \in SUBSET (1..(m + 1))
        BY <3>2
      <4>5. g[t \ {Max(t)}] = h[t \ {Max(t)}]
        BY <4>4
      <4> HIDE DEF g
      <4> QED BY <4>2, <4>3, <4>5
    <3> QED BY <3>1, <3>2
  <2>3. g = [t \in SUBSET (1..(m + 1)) |-> e(t)]
    <3> HIDE DEF e
    <3> QED BY <2>2
  <2>4. IsFold(g, O, s, m + 1)
    <3> HIDE DEF g
    <3> QED BY <2>3 DEF IsFold
  <2> QED BY <2>4
<1> HIDE DEF S
<1>3. \A m \in Nat : m \in S
  BY <1>1, <1>2, SetInduction
<1> QED BY <1>3 DEF S

LEMMA StillHeardIs ==
  ASSUME NEW O, inbox \in Seq(Message)
  PROVE  Left(O, inbox, StillHeard(O), Len(inbox))
<1> DEFINE s == inbox
           n == Len(inbox)
           h == CHOOSE h : h = [t \in SUBSET (DOMAIN s) |->
                  IF t = {} THEN <<>> ELSE Heard(O, h[t \ {Max(t)}], s[Max(t)])]
<1>1. StillHeard(O) = h[DOMAIN s]
  BY DEF StillHeard, FoldLeft, MapThenFoldSet
<1>2. n \in Nat /\ DOMAIN s = 1..n
  BY LenProperties
<1>3. IsFold(h, O, s, n)
  <2>1. PICK g : IsFold(g, O, s, n)
    BY <1>2, FoldExists
  <2> HIDE DEF s
  <2>2. \A f : f = [t \in SUBSET (DOMAIN s) |->
                  IF t = {} THEN <<>> ELSE Heard(O, f[t \ {Max(t)}], s[Max(t)])]
             <=> IsFold(f, O, s, n)
    BY <1>2 DEF IsFold
  <2> QED BY <2>1, <2>2
<1> HIDE DEF h
<1> DEFINE S == {m \in Nat : m <= n => Left(O, s, h[1..m], m)}
<1>4. 0 \in S
  <2>1. h[1..0] = <<>>
    BY <1>2, <1>3 DEF IsFold
  <2> DEFINE none == <<>>
  <2>2. none \in Seq(Message) /\ Len(none) = 0
    BY EmptySeq
  <2> HIDE DEF none
  <2>3. Left(O, s, none, 0)
    BY <2>2 DEF Left, Ordered, OrderedTo
  <2> QED BY <2>1, <2>3 DEF none
<1>5. ASSUME NEW m \in Nat, m \in S PROVE m + 1 \in S
  <2> SUFFICES ASSUME m + 1 <= n PROVE Left(O, s, h[1..(m + 1)], m + 1)
    OBVIOUS
  <2>1. Left(O, s, h[1..m], m)
    BY <1>2, <1>5
  <2>2. h[1..(m + 1)] = Heard(O, h[1..m], s[m + 1])
    <3> DEFINE t == 1..(m + 1)
    <3>1. t \in SUBSET (1..n) /\ m + 1 \in t
      BY <1>2
    <3>2. Max(t) = m + 1 /\ t \ {m + 1} = 1..m
      <4>1. m + 1 \in Nat /\ t \in SUBSET Nat /\ \A x \in t : x <= m + 1
        BY ONLY m \in Nat
      <4>2. t \ {m + 1} = 1..m
        BY ONLY m \in Nat
      <4> HIDE DEF t
      <4>3. Max(t) = m + 1
        BY ONLY <3>1, <4>1, MaxIs
      <4> QED BY <4>2, <4>3
    <3> HIDE DEF t, n, s
    <3>3. h[t] = IF t = {} THEN <<>> ELSE Heard(O, h[t \ {Max(t)}], s[Max(t)])
      BY <3>1, <1>3 DEF IsFold
    <3> QED BY <3>1, <3>2, <3>3 DEF t
  <2> QED BY <2>1, <2>2, LeftNext
<1>6. \A m \in Nat : m \in S
  <2> HIDE DEF S
  <2> QED BY <1>4, <1>5, SetInduction
<1> QED BY <1>1, <1>2, <1>6

\* What is sent comes behind what is there.
LEMMA Behind ==
  ASSUME NEW s \in Seq(Message), NEW c \in Seq(Message)
  PROVE  /\ s \o c \in Seq(Message)
         /\ \A p : HasFormat(s, p) \/ HasFormat(c, p) => HasFormat(s \o c, p)
         /\ \A p : /\ Ordered(s, p)
                   /\ \/ HasFormat(s, p)
                      \/ \A k \in 1..Len(c) : ~ Is(c[k], p, {"cleared", "up"})
                   => Ordered(s \o c, p)
<1> DEFINE v == s \o c  m == Len(s)  n == Len(c)
<1>1. /\ v \in Seq(Message) /\ Len(v) = m + n /\ m \in Nat /\ n \in Nat
      /\ \A k \in 1..(m + n) : v[k] = IF k <= m THEN s[k] ELSE c[k - m]
  BY ConcatProperties, LenProperties
<1> HIDE DEF v, m, n
<1>2. \A k \in 1..m : k \in 1..(m + n) /\ v[k] = s[k]
  BY <1>1
<1>3. \A k \in 1..n : m + k \in 1..(m + n) /\ v[m + k] = c[k]
  <2> SUFFICES ASSUME NEW k \in 1..n PROVE m + k \in 1..(m + n) /\ v[m + k] = c[k]
    OBVIOUS
  <2>1. m + k \in 1..(m + n) /\ ~ (m + k <= m) /\ (m + k) - m = k
    BY <1>1
  <2> QED BY <1>1, <2>1
<1>4. \A k \in 1..(m + n) : k \in 1..m \/ \E i \in 1..n : k = m + i /\ v[k] = c[i]
  <2> SUFFICES ASSUME NEW k \in 1..(m + n), k \notin 1..m
               PROVE  \E i \in 1..n : k = m + i /\ v[k] = c[i]
    OBVIOUS
  <2>1. k - m \in 1..n /\ k = m + (k - m)
    BY <1>1
  <2> QED BY <1>3, <2>1
<1>5. ASSUME NEW p, HasFormat(s, p) \/ HasFormat(c, p) PROVE HasFormat(v, p)
  BY <1>1, <1>2, <1>3, <1>5 DEF HasFormat, m, n
<1>6. ASSUME NEW p, Ordered(s, p),
             HasFormat(s, p) \/ \A k \in 1..n : ~ Is(c[k], p, {"cleared", "up"})
      PROVE  Ordered(v, p)
  <2> SUFFICES ASSUME NEW k \in 1..(m + n), Is(v[k], p, {"cleared", "up"})
               PROVE  \E j \in 1..(m + n) : j < k /\ Is(v[j], p, {"format"})
    BY <1>1 DEF Ordered, OrderedTo
  <2>1. CASE k \in 1..m
    <3>1. Is(s[k], p, {"cleared", "up"})
      BY <1>2, <2>1
    <3>2. PICK j \in 1..m : j < k /\ Is(s[j], p, {"format"})
      BY <1>6, <2>1, <3>1 DEF Ordered, OrderedTo, m
    <3> QED BY <1>2, <3>2
  <2>2. CASE k \notin 1..m
    <3>1. PICK i \in 1..n : k = m + i /\ v[k] = c[i]
      BY <1>4, <2>2
    <3>2. HasFormat(s, p)
      BY <1>6, <3>1
    <3>3. PICK j \in 1..m : Is(s[j], p, {"format"})
      BY <3>2 DEF HasFormat, m
    <3>4. j < k
      BY <1>1, <3>1
    <3> QED BY <1>2, <3>3, <3>4
  <2> QED BY <2>1, <2>2
<1> QED BY <1>1, <1>5, <1>6 DEF v, n

\* One message is taken from the front.
LEMMA Fewer ==
  ASSUME NEW s \in Seq(Message), s # <<>>
  PROVE  /\ Tail(s) \in Seq(Message) /\ Head(s) = s[1] /\ 1 \in 1..Len(s)
         /\ \A p : HasFormat(s, p) /\ ~ Is(Head(s), p, {"format"}) => HasFormat(Tail(s), p)
         /\ \A p : Ordered(s, p) /\ ~ Is(Head(s), p, {"format"}) => Ordered(Tail(s), p)
<1> DEFINE t == Tail(s)  n == Len(s)
<1>1. /\ t \in Seq(Message) /\ Len(t) = n - 1 /\ Head(s) = s[1] /\ n \in Nat \ {0}
      /\ \A k \in 1..(n - 1) : t[k] = s[k + 1]
  BY HeadTailProperties, LenProperties, EmptySeq
<1> HIDE DEF t, n
<1>2. \A k \in 1..(n - 1) : k + 1 \in 1..n /\ t[k] = s[k + 1]
  BY <1>1
<1>3. \A k \in 1..n : k = 1 \/ (k - 1 \in 1..(n - 1) /\ t[k - 1] = s[k])
  <2> SUFFICES ASSUME NEW k \in 1..n, k # 1
               PROVE  k - 1 \in 1..(n - 1) /\ t[k - 1] = s[k]
    OBVIOUS
  <2>1. k - 1 \in 1..(n - 1) /\ (k - 1) + 1 = k
    BY <1>1
  <2> QED BY <1>2, <2>1
<1>4. ASSUME NEW p, HasFormat(s, p), ~ Is(Head(s), p, {"format"}) PROVE HasFormat(t, p)
  <2>1. PICK k \in 1..n : Is(s[k], p, {"format"})
    BY <1>4 DEF HasFormat, n
  <2>2. k - 1 \in 1..(n - 1) /\ t[k - 1] = s[k]
    BY <1>1, <1>3, <1>4, <2>1
  <2> QED BY <1>1, <2>1, <2>2 DEF HasFormat
<1>5. ASSUME NEW p, Ordered(s, p), ~ Is(Head(s), p, {"format"}) PROVE Ordered(t, p)
  <2> SUFFICES ASSUME NEW k \in 1..(n - 1), Is(t[k], p, {"cleared", "up"})
               PROVE  \E j \in 1..(n - 1) : j < k /\ Is(t[j], p, {"format"})
    BY <1>1 DEF Ordered, OrderedTo
  <2>1. PICK j \in 1..n : j < k + 1 /\ Is(s[j], p, {"format"})
    BY <1>2, <1>5 DEF Ordered, OrderedTo, n
  <2>2. j - 1 \in 1..(n - 1) /\ t[j - 1] = s[j] /\ j - 1 < k
    BY <1>1, <1>3, <1>5, <2>1
  <2> QED BY <2>1, <2>2
<1>6. 1 \in 1..n
  BY <1>1
<1> QED BY <1>1, <1>4, <1>5, <1>6 DEF t, n

\* A release: its ports are marked, the others keep what they await.
LEMMA ReleaseOrder ==
  ASSUME TypeOK, OrderInv, NEW P \in SUBSET Ports,
         NEW by \in {"app", "failure"}, Release(P, by), At("gone") => At("gone")'
  PROVE  OrderInv'
<1> DEFINE O == {p \in P : link_proxy[p]}
           C == {q \in O : Carries(q) /\ ~ fed[q]}
           M == {Msg(p, "cleared", by) : p \in C}
           c == SetToSeq(M)
           l == StillHeard(O)
<1>0. inbox' = l \o c
  BY DEF Release
<1>1. IsFiniteSet(M)
  <2>1. IsFiniteSet(C)
    <3>1. C \subseteq Ports /\ IsFiniteSet(Ports)
      BY LinkAssumption
    <3> QED BY <3>1, FS_Subset
  <2> DEFINE f == [p \in C |-> Msg(p, "cleared", by)]
  <2>2. f \in Surjection(C, M)
    BY DEF Surjection
  <2> HIDE DEF C, M, f
  <2> QED BY <2>1, <2>2, FS_Surjection
<1>2. M \subseteq Message /\ \A e \in M : e.port \in O
  BY DEF Msg, Message
<1>3. c \in Seq(Message) /\ \A k \in 1..Len(c) : c[k].port \in O
  <2> DEFINE n == Cardinality(M)
  <2>1. n \in Nat /\ ExistsBijection(1..n, M)
    BY <1>1, FS_CardinalityType
  <2>2. PICK f \in [1..n -> M] : IsInjective(f)
    BY <2>1 DEF ExistsBijection, Bijection, Injection, IsInjective
  <2>3. c \in [1..n -> M]
    <3> HIDE DEF M, n
    <3>1. c = CHOOSE g \in [1..n -> M] : IsInjective(g)
      BY DEF SetToSeq, n
    <3> QED BY <2>2, <3>1
  <2> HIDE DEF c, M, n
  <2>4. c \in Seq(M) /\ Len(c) = n
    BY <2>1, <2>3
  <2>5. \A k \in 1..n : c[k] \in M
    BY <2>3
  <2>6. c \in Seq(Message)
    BY <1>2, <2>1, <2>3
  <2> QED BY <1>2, <2>4, <2>5, <2>6
<1> HIDE DEF c, M
<1>4. Left(O, inbox, l, Len(inbox))
  <2>1. inbox \in Seq(Message)
    BY DEF OrderInv
  <2> HIDE DEF O
  <2> QED BY <2>1, StillHeardIs
<1> HIDE DEF l
<1>5. l \in Seq(Message) /\ inbox' \in Seq(Message)
  BY <1>0, <1>3, <1>4, Behind DEF Left
<1>6. ASSUME ~ At("gone"), NEW p \in Ports, Fresh(p)' PROVE Awaits(p)'
  <2>1. p \notin O /\ Fresh(p)
    BY <1>6 DEF Fresh, Release, TypeOK
  <2>2. Awaits(p)
    BY <1>6, <2>1 DEF OrderInv
  <2>3. (Carries(p) \/ fed[p])' => Carries(p) \/ fed[p]
    BY <2>1 DEF Release, Carries
  <2>4. ~ link_state_seen_active'[p]
    BY <2>2 DEF Release, Awaits
  <2>5. /\ HasFormat(inbox, p) => HasFormat(l, p)
        /\ Ordered(l, p)
    BY <1>4, <2>1, <2>2 DEF Left, Awaits, HasFormat, Ordered
  <2>6. \A k \in 1..Len(c) : ~ Is(c[k], p, {"cleared", "up"})
    BY <1>3, <2>1 DEF Is
  <2>7. /\ HasFormat(l, p) => HasFormat(l \o c, p)
        /\ Ordered(l \o c, p)
    BY <1>3, <1>5, <2>5, <2>6, Behind
  <2> HIDE DEF O, C
  <2>8. /\ HasFormat(inbox, p) => HasFormat(inbox', p)
        /\ Ordered(inbox', p)
    BY <1>0, <2>5, <2>7
  <2>9. (Carries(p) \/ fed[p])' => HasFormat(inbox', p)
    BY <2>2, <2>3, <2>8 DEF Awaits
  <2> QED BY <2>4, <2>8, <2>9 DEF Awaits
<1> QED BY <1>5, <1>6 DEF OrderInv

\* A step that handles and sends nothing, and marks no port
LEMMA QuietOrder ==
  ASSUME OrderInv, At("gone") => At("gone")', inbox' = inbox,
         UNCHANGED <<unreported, loss_reported>>,
         \A p \in Ports : /\ link_state_seen_active'[p] => link_state_seen_active[p]
                          /\ (Carries(p) \/ fed[p])' => Carries(p) \/ fed[p]
  PROVE  OrderInv'
<1>1. inbox' \in Seq(Message)
  BY DEF OrderInv
<1>2. ASSUME ~ At("gone")', NEW p \in Ports, Fresh(p)' PROVE Awaits(p)'
  <2>1. Awaits(p)
    BY <1>2 DEF OrderInv, Fresh
  <2> QED BY <2>1 DEF Awaits, HasFormat, Ordered, OrderedTo
<1> QED BY <1>1, <1>2 DEF OrderInv

\* No step leads out of the end.
LEMMA GoneStays == TypeOK /\ At("gone") /\ [Next]_vars => At("gone")'
<1> SUFFICES ASSUME TypeOK, At("gone"), [Next]_vars PROVE At("gone")'
  OBVIOUS
<1>1. ~ AppCall
  BY DEF AppCall, StartLocked, StopCall, DestroyCall, LinkCall, UnlinkCall, At
<1>2. ~ AppStep
  BY DEF AppStep, StartReturn, StopDrain, StopLocked, StopRelease, LinkUnresolved,
         LinkCreate, LinkWake, LinkTimeout, UnlinkLocked, DestroyStop, DestroyRegistry,
         DestroyTeardown, At
<1>3. LoopStep \/ Callback => app' = app
  BY DEF LoopStep, OnFormat, OnCleared, OnLinkUp, OnLinkDown, Handles, CallbackReturn,
         Callback, CallbackStop, CallbackStart, CallbackUnlink, appVars
<1>4. ASSUME NEW p \in Ports, ServerStep(p) PROVE app' = app
  BY <1>4 DEF ServerStep, appVars
<1>5. UNCHANGED vars => app' = app
  BY DEF vars, appVars
<1> QED BY <1>1, <1>2, <1>3, <1>4, <1>5 DEF Next, At

\* A call on a port has the port.
Aims == app.pc \in {"resolving", "waiting", "unlinking"} => app.port \in Ports

LEMMA AimsStep == TypeOK /\ Aims /\ [Next]_vars => Aims'
<1> SUFFICES ASSUME TypeOK, Aims, [Next]_vars PROVE Aims'
  OBVIOUS
<1>1. CASE AppCall
  BY <1>1 DEF AppCall, StartLocked, StopCall, DestroyCall, LinkCall, UnlinkCall,
              Goto, TypeOK, Aims
<1>2. CASE AppStep
  BY <1>2 DEF AppStep, StartReturn, StopDrain, StopLocked, StopRelease,
              LinkUnresolved, LinkCreate, LinkWake, LinkTimeout, UnlinkLocked,
              DestroyStop, DestroyRegistry, DestroyTeardown, Goto, Return, Idle, At, TypeOK, Aims
<1>3. LoopStep \/ Callback => app' = app
  BY DEF LoopStep, OnFormat, OnCleared, OnLinkUp, OnLinkDown, Handles, CallbackReturn,
         Callback, CallbackStop, CallbackStart, CallbackUnlink, appVars
<1>4. ASSUME NEW p \in Ports, ServerStep(p) PROVE app' = app
  BY <1>4 DEF ServerStep, appVars
<1>5. UNCHANGED vars => app' = app
  BY DEF vars, appVars
<1> QED BY <1>1, <1>2, <1>3, <1>4, <1>5 DEF Next, Aims

LEMMA StillOrder ==
  ASSUME OrderInv, At("gone") => At("gone")', NoRelease
  PROVE  OrderInv'
BY QuietOrder DEF NoRelease, portVars, serverVars, Carries

LEMMA AppOrder ==
  ASSUME TypeOK, Aims, OrderInv, At("gone") => At("gone")', AppCall \/ AppStep \/ Callback
  PROVE  OrderInv'
<1>1. CASE NoRelease
  BY <1>1, StillOrder
<1>2. ASSUME NEW P \in SUBSET Ports, NEW by \in {"app", "failure"}, Release(P, by)
      PROVE  OrderInv'
  BY <1>2, ReleaseOrder
<1>3. CASE LinkCreate
  <2>1. UNCHANGED <<inbox, unreported, loss_reported>>
    BY <1>3 DEF LinkCreate
  <2>2. ASSUME NEW p \in Ports
        PROVE  /\ link_state_seen_active'[p] => link_state_seen_active[p]
               /\ (Carries(p) \/ fed[p])' => Carries(p) \/ fed[p]
    <3>1. link_state_seen_active'[p] => link_state_seen_active[p]
      BY <1>3 DEF LinkCreate, TypeOK
    <3>2. link'[p] \in {link[p], "negotiating"} /\ fed' = fed
      BY <1>3 DEF LinkCreate, TypeOK
    <3> QED BY <3>1, <3>2 DEF Carries
  <2> QED BY <2>1, <2>2, QuietOrder
<1>4. CASE DestroyTeardown
  <2>1. At("gone")'
    BY <1>4 DEF DestroyTeardown, Goto, At, TypeOK
  <2>2. inbox' \in Seq(Message)
    BY <1>4, EmptySeq DEF DestroyTeardown
  <2> QED BY <2>1, <2>2 DEF OrderInv
<1>5. ASSUME LinkWake \/ LinkTimeout \/ UnlinkLocked, ~ NoRelease
      PROVE  OrderInv'
  <2>1. app.port \in Ports
    BY <1>5 DEF Aims, LinkWake, LinkTimeout, UnlinkLocked, At
  <2>2. \E by \in {"app", "failure"} : Release({app.port}, by)
    BY <1>5 DEF LinkWake, LinkTimeout, UnlinkLocked
  <2> QED BY <1>2, <2>1, <2>2
<1>6. CASE AppCall
  BY <1>1, <1>6 DEF AppCall, StartLocked, StopCall, DestroyCall, LinkCall, UnlinkCall
<1>7. CASE AppStep
  BY <1>1, <1>2, <1>3, <1>4, <1>5, <1>7
  DEF AppStep, StartReturn, StopDrain, StopLocked, StopRelease, LinkUnresolved,
      DestroyStop, DestroyRegistry
<1>8. CASE Callback
  BY <1>1, <1>2, <1>8 DEF Callback, CallbackStop, CallbackStart, CallbackUnlink
<1> QED BY <1>6, <1>7, <1>8

\* The server tells of a format before it tells of its loss.
LEMMA ServerSends ==
  ASSUME TypeOK, NEW p \in Ports, ServerStep(p)
  PROVE  LET carried == Carries(p) \/ fed[p]
         IN  \E c \in Seq(Message) :
               /\ inbox' = inbox \o c
               /\ \A k \in 1..Len(c) : c[k].port = p
               /\ carried' => carried \/ HasFormat(c, p)
               /\ carried \/ \A k \in 1..Len(c) : c[k].kind \notin {"cleared", "up"}
<1> DEFINE one(kind) == <<Msg(p, kind, "server")>>
           carried == Carries(p) \/ fed[p]
           Sent(c) == /\ c \in Seq(Message)
                      /\ \A k \in 1..Len(c) : c[k].port = p
                      /\ carried' => carried \/ HasFormat(c, p)
                      /\ carried \/ \A k \in 1..Len(c) : c[k].kind \notin {"cleared", "up"}
<1>1. ASSUME NEW kind \in {"format", "cleared", "up", "down"}
      PROVE  /\ one(kind) \in Seq(Message) /\ Len(one(kind)) = 1
             /\ one(kind)[1].port = p /\ one(kind)[1].kind = kind
  BY DEF Msg, Message
<1>2. /\ <<>> \in Seq(Message) /\ Len(<<>>) = 0 /\ 1..0 = {}
      /\ \A k \in 1..1 : k = 1 /\ 1 \in 1..1
  BY EmptySeq
<1>3. link \in [Ports -> {"none", "negotiating", "formatted", "up", "dead"}]
      /\ fed \in [Ports -> BOOLEAN]
  BY DEF TypeOK
<1> HIDE DEF one
<1>4. Sent(Formatted(p))
  <2>1. CASE carried
    BY <1>2, <2>1 DEF Formatted
  <2>2. CASE ~ carried
    <3>1. Formatted(p) = one("format")
      BY <2>2 DEF Formatted, one
    <3> QED BY <1>1, <1>2, <3>1 DEF HasFormat, Is
  <2> QED BY <2>1, <2>2
<1>5. CASE /\ link[p] \in {"negotiating", "formatted"} \/ ~ fed[p]
           /\ Send(Formatted(p))
  BY <1>4, <1>5 DEF Send
<1>6. CASE /\ link[p] = "formatted"
           /\ link' = [link EXCEPT ![p] = "up"]
           /\ Send(<<Msg(p, "up", "server")>>)
           /\ UNCHANGED <<fed, offers>>
  <2>1. carried
    BY <1>6 DEF Carries
  <2>2. Sent(one("up"))
    BY <1>1, <1>2, <2>1
  <2> QED BY <1>6, <2>2 DEF Send, one
<1>7. CASE /\ link' = [link EXCEPT ![p] = "dead"]
           /\ \/ Send(<<Msg(p, "down", "server")>> \o Lost(p))
              \/ Send(Lost(p) \o <<Msg(p, "down", "server")>>)
           /\ UNCHANGED <<fed, offers>>
  <2>1. carried' => carried
    BY <1>3, <1>7 DEF Carries
  <2> DEFINE d == one("down")  e == one("cleared")
  <2>2. /\ d \in Seq(Message) /\ Len(d) = 1 /\ d[1].port = p /\ d[1].kind = "down"
        /\ e \in Seq(Message) /\ Len(e) = 1 /\ e[1].port = p
    BY <1>1
  <2>3. CASE Carries(p) /\ ~ fed[p]
    <3>1. Lost(p) = e
      BY <2>3 DEF Lost, one
    <3> HIDE DEF d, e
    <3>2. /\ d \o e \in Seq(Message) /\ Len(d \o e) = 2
          /\ (d \o e)[1] = d[1] /\ (d \o e)[2] = e[1]
          /\ e \o d \in Seq(Message) /\ Len(e \o d) = 2
          /\ (e \o d)[1] = e[1] /\ (e \o d)[2] = d[1]
      BY <2>2, ConcatProperties, SMTT(30)
    <3>3. \A k \in 1..2 : k = 1 \/ k = 2
      OBVIOUS
    <3>4. Sent(d \o e) /\ Sent(e \o d)
      BY <2>1, <2>2, <2>3, <3>2, <3>3
    <3>5. Send(d \o e) \/ Send(e \o d)
      BY <1>7, <3>1 DEF d, one
    <3> HIDE DEF Sent
    <3>6. \E c : Sent(c) /\ inbox' = inbox \o c
      BY <3>4, <3>5 DEF Send
    <3> QED BY <3>6 DEF Sent
  <2>4. CASE ~ (Carries(p) /\ ~ fed[p])
    <3>1. Lost(p) = <<>>
      BY <2>4 DEF Lost
    <3> HIDE DEF d
    <3>2. d \o <<>> = d /\ <<>> \o d = d
      BY <2>2, ConcatEmptySeq
    <3>3. Sent(d)
      BY <1>2, <2>1, <2>2
    <3>4. Send(d)
      BY <1>7, <3>1, <3>2 DEF d, one
    <3> QED BY <3>3, <3>4 DEF Send
  <2> QED BY <2>3, <2>4
<1>8. CASE /\ fed[p]
           /\ fed' = [fed EXCEPT ![p] = FALSE]
           /\ Send(IF Carries(p) THEN <<>> ELSE <<Msg(p, "cleared", "server")>>)
           /\ UNCHANGED <<link, offers>>
  <2>1. CASE Carries(p)
    <3>1. Sent(<<>>)
      BY <1>2, <2>1
    <3> QED BY <1>8, <2>1, <3>1 DEF Send
  <2>2. CASE ~ Carries(p)
    <3>1. Sent(one("cleared"))
      BY <1>1, <1>2, <1>8
    <3> QED BY <1>8, <2>2, <3>1 DEF Send, one
  <2> QED BY <2>1, <2>2
<1> QED BY <1>5, <1>6, <1>7, <1>8 DEF ServerStep

LEMMA ServerOrder ==
  ASSUME TypeOK, OrderInv, NEW p \in Ports, ServerStep(p)
  PROVE  OrderInv'
<1>1. UNCHANGED <<unreported, loss_reported, link_state_seen_active, app>>
  BY DEF ServerStep, portVars, appVars
<1> DEFINE carried(q) == Carries(q) \/ fed[q]
<1>2. PICK c \in Seq(Message) :
        /\ inbox' = inbox \o c
        /\ \A k \in 1..Len(c) : c[k].port = p
        /\ carried(p)' => carried(p) \/ HasFormat(c, p)
        /\ carried(p) \/ \A k \in 1..Len(c) : c[k].kind \notin {"cleared", "up"}
  BY ServerSends
<1>3. \A q \in Ports : q # p => link'[q] = link[q] /\ fed'[q] = fed[q]
  BY DEF ServerStep, TypeOK
<1>4. inbox' \in Seq(Message)
  BY <1>2, Behind DEF OrderInv
<1>5. ASSUME ~ At("gone")', NEW q \in Ports, Fresh(q)' PROVE Awaits(q)'
  <2>1. Awaits(q) /\ inbox \in Seq(Message)
    BY <1>1, <1>5 DEF OrderInv, At, Fresh
  <2>2. /\ carried(q)' => carried(q) \/ HasFormat(c, q)
        /\ carried(q) \/ \A k \in 1..Len(c) : ~ Is(c[k], q, {"cleared", "up"})
    <3>1. CASE q = p
      BY <1>2, <3>1 DEF Is
    <3>2. CASE q # p
      <4>1. carried(q)' => carried(q)
        BY <1>3, <3>2 DEF Carries
      <4>2. \A k \in 1..Len(c) : ~ Is(c[k], q, {"cleared", "up"})
        BY <1>2, <3>2 DEF Is
      <4> QED BY <4>1, <4>2
    <3> QED BY <3>1, <3>2
  <2>3. carried(q) => HasFormat(inbox, q)
    BY <2>1 DEF Awaits
  <2>4. /\ Ordered(inbox \o c, q)
        /\ HasFormat(inbox, q) \/ HasFormat(c, q) => HasFormat(inbox \o c, q)
    BY <2>1, <2>2, <2>3, Behind DEF Awaits
  <2>5. Ordered(inbox', q) /\ (carried(q)' => HasFormat(inbox', q))
    BY <1>2, <2>2, <2>3, <2>4
  <2> QED BY <1>1, <2>1, <2>5 DEF Awaits
<1> QED BY <1>4, <1>5 DEF OrderInv

\* What a handler does to a port that has had no source yet: nothing, but for
\* the handler of its format.
LEMMA FreshHandled ==
  ASSUME OrderInv, NEW p \in Ports, NEW kind, Handles(p, kind), ~ At("gone"), Fresh(p)
  PROVE  kind \notin {"cleared", "up"} /\ ~ link_state_seen_active[p]
<1>1. inbox \in Seq(Message) /\ inbox # <<>> /\ Awaits(p)
  BY DEF OrderInv, Handles
<1>2. Head(inbox) = inbox[1] /\ 1 \in 1..Len(inbox)
  BY <1>1, Fewer
<1>3. ASSUME kind \in {"cleared", "up"} PROVE FALSE
  <2>1. Is(inbox[1], p, {"cleared", "up"})
    BY <1>2, <1>3 DEF Handles, Is
  <2>2. \E j \in 1..Len(inbox) : j < 1
    BY <1>1, <1>2, <2>1 DEF Awaits, Ordered, OrderedTo
  <2>3. Len(inbox) \in Nat
    BY <1>1, LenProperties
  <2> QED BY <2>2, <2>3
<1> QED BY <1>1, <1>3 DEF Awaits

LEMMA HandlerOrder ==
  ASSUME TypeOK, OrderInv, NEW p \in Ports, NEW kind, Handles(p, kind),
         \A q \in Ports : Fresh(q)' => Fresh(q) /\ (q = p => kind # "format"),
         \A q \in Ports : q # p \/ kind # "up" =>
           (link_state_seen_active'[q] => link_state_seen_active[q])
  PROVE  OrderInv'
<1>1. inbox \in Seq(Message) /\ inbox # <<>> /\ inbox' = Tail(inbox)
  BY DEF OrderInv, Handles
<1>2. /\ Tail(inbox) \in Seq(Message)
      /\ \A q : HasFormat(inbox, q) /\ ~ Is(Head(inbox), q, {"format"})
                  => HasFormat(Tail(inbox), q)
      /\ \A q : Ordered(inbox, q) /\ ~ Is(Head(inbox), q, {"format"})
                  => Ordered(Tail(inbox), q)
  BY <1>1, Fewer
<1>3. UNCHANGED <<app, link, fed>>
  BY DEF Handles, serverVars
<1>4. ASSUME ~ At("gone"), NEW q \in Ports, Fresh(q)' PROVE Awaits(q)'
  <2>1. Fresh(q) /\ (q = p => kind # "format") /\ Awaits(q)
    BY <1>4 DEF OrderInv
  <2>2. ~ Is(Head(inbox), q, {"format"})
    BY <2>1 DEF Is, Handles
  <2>3. q # p \/ kind # "up"
    BY <1>4, <2>1, FreshHandled
  <2>4. Ordered(inbox', q) /\ (HasFormat(inbox, q) => HasFormat(inbox', q))
    BY <1>1, <1>2, <2>1, <2>2 DEF Awaits
  <2>5. (Carries(q) \/ fed[q])' => Carries(q) \/ fed[q]
    BY <1>3 DEF Carries
  <2> QED BY <2>1, <2>3, <2>4, <2>5 DEF Awaits
<1> QED BY <1>1, <1>2, <1>3, <1>4 DEF OrderInv, At

LEMMA LoopOrder ==
  ASSUME TypeOK, OrderInv, LoopStep
  PROVE  OrderInv'
<1>1. ASSUME NEW p \in Ports, Report(p), NEW q \in Ports, Fresh(q)'
      PROVE  Fresh(q)
  BY <1>1 DEF Report, Fresh, TypeOK
<1>2. ASSUME UNCHANGED <<unreported, loss_reported>>, NEW q \in Ports, Fresh(q)'
      PROVE  Fresh(q)
  BY <1>2 DEF Fresh
<1>3. ASSUME NEW p \in Ports, OnFormat(p) PROVE OrderInv'
  <2>1. \A q \in Ports : Fresh(q)' => Fresh(q) /\ q # p
    BY <1>3 DEF OnFormat, Fresh, TypeOK
  <2> QED BY <1>3, <2>1, HandlerOrder DEF OnFormat
<1>4. ASSUME NEW p \in Ports, OnCleared(p) PROVE OrderInv'
  <2>1. \A q \in Ports : Fresh(q)' => Fresh(q)
    BY <1>1, <1>4 DEF OnCleared
  <2> QED BY <1>4, <2>1, HandlerOrder DEF OnCleared
<1>5. ASSUME NEW p \in Ports, OnLinkUp(p) PROVE OrderInv'
  <2>1. \A q \in Ports : Fresh(q)' => Fresh(q)
    BY <1>2, <1>5 DEF OnLinkUp
  <2>2. \A q \in Ports : q # p => link_state_seen_active'[q] = link_state_seen_active[q]
    BY <1>5 DEF OnLinkUp, TypeOK
  <2> QED BY <1>5, <2>1, <2>2, HandlerOrder DEF OnLinkUp
<1>6. ASSUME NEW p \in Ports, OnLinkDown(p) PROVE OrderInv'
  <2>1. \A q \in Ports : Fresh(q)' => Fresh(q)
    BY <1>1, <1>2, <1>6 DEF OnLinkDown
  <2>2. \A q \in Ports : link_state_seen_active'[q] => link_state_seen_active[q]
    BY <1>6 DEF OnLinkDown, TypeOK
  <2> QED BY <1>6, <2>1, <2>2, HandlerOrder DEF OnLinkDown
<1>7. ASSUME CallbackReturn PROVE OrderInv'
  BY <1>7, StillOrder DEF CallbackReturn, appVars, At
<1> QED BY <1>3, <1>4, <1>5, <1>6, <1>7 DEF LoopStep

SourceInv == Inv /\ Aims /\ OrderInv

LEMMA SourceInit == Init => SourceInv
<1> SUFFICES ASSUME Init PROVE Aims /\ OrderInv
  BY InvInit DEF SourceInv
<1>1. inbox = <<>> /\ inbox \in Seq(Message) /\ Len(inbox) = 0
  BY EmptySeq DEF Init
<1>2. Aims
  BY DEF Init, Idle, Aims
<1>3. \A p \in Ports : Awaits(p)
  BY <1>1 DEF Init, Awaits, Carries, Ordered, OrderedTo
<1> QED BY <1>1, <1>2, <1>3 DEF OrderInv

LEMMA SourceStep == SourceInv /\ [Next]_vars => SourceInv'
<1> SUFFICES ASSUME SourceInv, [Next]_vars PROVE SourceInv'
  OBVIOUS
<1>1. Inv' /\ Aims' /\ TypeOK
  BY InvStep, AimsStep DEF SourceInv, Inv
<1>2. At("gone") => At("gone")'
  BY <1>1, GoneStays
<1>3. CASE UNCHANGED vars
  <2>1. NoRelease
    BY <1>3 DEF vars, NoRelease
  <2> QED BY <1>1, <1>2, <2>1, StillOrder DEF SourceInv
<1> QED BY <1>1, <1>2, <1>3, AppOrder, LoopOrder, ServerOrder DEF Next, SourceInv

(***************************************************************************)
(* A source that a running filter loses is told at most once, by whichever *)
(* of its two signs comes first; and nothing is told of a source that      *)
(* never was.                                                              *)
(***************************************************************************)
THEOREM ReportedOnce == Spec => ReportedOncePerSource
<1> DEFINE Once == \A p \in Ports : Reports(p) => unreported[p] /\ state = "RUNNING"
<1>1. ASSUME SourceInv, Next PROVE Once
  <2> SUFFICES ASSUME NEW p \in Ports, Reports(p)
               PROVE  unreported[p] /\ state = "RUNNING"
    OBVIOUS
  <2>0. cb = NULL /\ cb' = p /\ p # NULL
    BY LinkAssumption DEF Reports
  <2>1. ~ AppCall /\ ~ AppStep /\ ~ Callback
    BY <2>0 DEF AppCall, StartLocked, StopCall, DestroyCall, LinkCall, UnlinkCall,
         AppStep, StartReturn, StopDrain, StopLocked, StopRelease, LinkUnresolved,
         LinkCreate, LinkWake, LinkTimeout, UnlinkLocked, DestroyStop, DestroyRegistry,
         DestroyTeardown,
         Callback, CallbackStop, CallbackStart, CallbackUnlink
  <2>2. \A q \in Ports : ~ ServerStep(q)
    BY <2>0 DEF ServerStep
  <2>3. PICK q \in Ports :
          \/ Handles(q, "cleared") /\ Report(q)
          \/ Handles(q, "down") /\ link_state_seen_active[q] /\ Report(q)
    BY <1>1, <2>0, <2>1, <2>2
    DEF Next, LoopStep, OnFormat, OnCleared, OnLinkUp, OnLinkDown, CallbackReturn
  <2>4. q = p /\ state = "RUNNING" /\ ~ loss_reported[p]
    BY <2>0, <2>3 DEF Report, Claimable
  <2>5. ~ At("gone")
    BY <1>1, <2>3 DEF SourceInv, Inv, Ends, Handles
  <2>6. ~ Fresh(p)
    BY <1>1, <2>3, <2>4, <2>5, FreshHandled DEF SourceInv
  <2> QED BY <2>4, <2>6 DEF Fresh
<1>2. SourceInv /\ [Next]_vars => [Once]_vars
  BY <1>1
<1> QED BY <1>2, SourceInit, SourceStep, PTL DEF Spec, ReportedOncePerSource
=============================================================================
