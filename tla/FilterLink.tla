----------------------------- MODULE FilterLink -----------------------------
(***************************************************************************)
(* A filter's lifecycle, the links its input ports own, and the error      *)
(* callback that reports lost sources (pwf_filter.c,                       *)
(* pwf_filter_port_link.c).                                                *)
(*                                                                         *)
(* One application thread starts, stops, links and unlinks.  The loop      *)
(* thread handles what the server sent, in order, and runs the error       *)
(* callback, which may itself stop, start or unlink.  A handler runs with  *)
(* the loop lock held, and so does everything the callback calls: while    *)
(* cb # NULL the application thread can only take the steps it takes       *)
(* without the lock.  The server is external: it negotiates, fails and     *)
(* loses links, and other programs may feed a port through links of their  *)
(* own.                                                                    *)
(*                                                                         *)
(* As in FilterCycle, nothing uses a definition Name_Bug.                  *)
(***************************************************************************)
EXTENDS Naturals, Sequences, FiniteSets, SequencesExt

CONSTANTS
  Ports,            \* the input ports
  FedPorts,         \* those that other programs may link too
  NULL,
  MaxOffers         \* bound: links created plus sources others attach

ASSUME LinkAssumption ==
  /\ FedPorts \subseteq Ports
  /\ NULL \notin Ports
  /\ IsFiniteSet(Ports)
  /\ MaxOffers \in Nat

VARIABLES
  state,            \* "CREATED", "RUNNING" or "STOPPED"
  active,           \* process() may run
  link_proxy,       \* ports that own a link proxy, as booleans
  link_state_seen_active,
  loss_reported,
  (* the application thread *)
  app,              \* where it is, and the port it is linking or unlinking
  destroying,       \* it is in pwf_filter_destroy()
  wait,             \* its struct pwf_link_wait while app.pc = "waiting"
  (* the loop thread *)
  cb,               \* the port whose loss the error callback reports, or NULL
  inbox,            \* what the server sent and the loop has not handled
  (* the server *)
  link,             \* its side of each port's link
  fed,              \* ports that others feed
  offers,
  (* history *)
  linked,           \* ports whose last port_link() returned PWF_OK
  unreported,       \* ports with a source whose loss is still to be reported
  restarted         \* the error callback started the filter after destroy's
                    \* last look at its state

portVars   == <<link_proxy, link_state_seen_active, loss_reported>>
appVars    == <<app, destroying, wait>>
serverVars == <<link, fed, offers>>
vars == <<state, active, portVars, appVars, cb, inbox, serverVars, linked, unreported,
          restarted>>

----------------------------------------------------------------------------

Idle   == [pc |-> "idle", port |-> NULL]
NoWait == [done |-> FALSE, result |-> "CONNECT_FAILED"]

\* Link state changes reach the port's listener only while it has a proxy.
LinkInfo == {"up", "down"}
Msg(p, kind, by) == [port |-> p, kind |-> kind, by |-> by]

\* Where the application thread can be between two steps.
Places ==
  {"idle", "starting", "stopping", "draining", "releasing", "resolving",
   "waiting", "unlinking", "destroying", "tearing", "freeing", "gone"}

\* The inbox holds what Msg() makes.
TypeOK ==
  /\ state \in {"CREATED", "RUNNING", "STOPPED"}
  /\ link_proxy \in [Ports -> BOOLEAN]
  /\ link_state_seen_active \in [Ports -> BOOLEAN]
  /\ loss_reported \in [Ports -> BOOLEAN]
  /\ app \in [pc : Places, port : Ports \cup {NULL}]
  /\ active \in BOOLEAN /\ destroying \in BOOLEAN /\ restarted \in BOOLEAN
  /\ wait \in [done : BOOLEAN,
               result : {"OK", "INVALID_FORMAT", "CONNECT_FAILED"}]
  /\ wait.done <=> wait.result # "CONNECT_FAILED"
  /\ cb \in Ports \cup {NULL}
  /\ link \in [Ports -> {"none", "negotiating", "formatted", "up", "dead"}]
  /\ fed \in [Ports -> BOOLEAN]
  /\ offers \in 0..MaxOffers
  /\ linked \in [Ports -> BOOLEAN]
  /\ unreported \in [Ports -> BOOLEAN]

Init ==
  /\ state = "CREATED"
  /\ active = FALSE /\ destroying = FALSE /\ restarted = FALSE
  /\ link_proxy = [p \in Ports |-> FALSE]
  /\ link_state_seen_active = [p \in Ports |-> FALSE]
  /\ loss_reported = [p \in Ports |-> FALSE]
  /\ app = Idle
  /\ wait = NoWait
  /\ cb = NULL
  /\ inbox = <<>>
  /\ link = [p \in Ports |-> "none"]
  /\ fed = [p \in Ports |-> FALSE]
  /\ offers = 0
  /\ linked = [p \in Ports |-> FALSE]
  /\ unreported = [p \in Ports |-> FALSE]

----------------------------------------------------------------------------
(* The server *)

\* A port has a format while its link, or one of another program, carries one.
Carries(p) == link[p] \in {"formatted", "up"}

Send(msgs) == inbox' = inbox \o msgs
Formatted(p) == IF Carries(p) \/ fed[p] THEN <<>>
                                        ELSE <<Msg(p, "format", "server")>>
Lost(p) == IF Carries(p) /\ ~ fed[p] THEN <<Msg(p, "cleared", "server")>>
                                     ELSE <<>>

ServerStep(p) ==
  /\ app.pc # "gone"
  /\ \/ /\ link[p] = "negotiating"
        /\ link' = [link EXCEPT ![p] = "formatted"]
        /\ Send(Formatted(p))
        /\ UNCHANGED <<fed, offers>>
     \/ /\ link[p] = "formatted"
        /\ link' = [link EXCEPT ![p] = "up"]
        /\ Send(<<Msg(p, "up", "server")>>)
        /\ UNCHANGED <<fed, offers>>
     \* The negotiation fails, or the device goes: the link and the format it
     \* carried are reported separately, in either order.
     \/ /\ link[p] \in {"negotiating", "formatted", "up"}
        /\ link' = [link EXCEPT ![p] = "dead"]
        /\ \/ Send(<<Msg(p, "down", "server")>> \o Lost(p))
           \/ Send(Lost(p) \o <<Msg(p, "down", "server")>>)
        /\ UNCHANGED <<fed, offers>>
     \/ /\ p \in FedPorts
        /\ ~ fed[p]
        /\ offers < MaxOffers
        /\ fed' = [fed EXCEPT ![p] = TRUE]
        /\ offers' = offers + 1
        /\ Send(Formatted(p))
        /\ UNCHANGED link
     \/ /\ fed[p]
        /\ fed' = [fed EXCEPT ![p] = FALSE]
        /\ Send(IF Carries(p) THEN <<>> ELSE <<Msg(p, "cleared", "server")>>)
        /\ UNCHANGED <<link, offers>>
  /\ UNCHANGED <<state, active, portVars, appVars, cb, linked, restarted, unreported>>

----------------------------------------------------------------------------
(* pwf_filter_port_link_release(), for every port in P, because the        *)
(* application asked for it or because port_link() failed.  Destroying a   *)
(* proxy removes its listener, and has the server take the link down.      *)

Heard(owned, msgs, m) ==
  IF m.port \in owned /\ m.kind \in LinkInfo THEN msgs ELSE Append(msgs, m)

StillHeard(owned) == FoldLeft(LAMBDA msgs, m : Heard(owned, msgs, m), <<>>, inbox)

Release(P, by) ==
  LET owned == {p \in P : link_proxy[p]}
  IN  /\ link_proxy' = [p \in Ports |-> link_proxy[p] /\ p \notin P]
      /\ link_state_seen_active' =
           [p \in Ports |-> link_state_seen_active[p] /\ p \notin P]
      /\ loss_reported' = [p \in Ports |-> loss_reported[p] \/ p \in owned]
      /\ link' = [p \in Ports |-> IF p \in owned THEN "none" ELSE link[p]]
      /\ inbox' = StillHeard(owned)
                  \o SetToSeq({Msg(p, "cleared", by) :
                        p \in {q \in owned : Carries(q) /\ ~ fed[q]}})
      /\ unreported' = [p \in Ports |-> unreported[p] /\ p \notin owned]
      /\ UNCHANGED <<fed, offers>>

NoRelease == UNCHANGED <<portVars, inbox, serverVars, unreported>>

----------------------------------------------------------------------------
(* The application thread.  A step that takes the loop lock waits for cb.  *)

LockFree == cb = NULL

At(pc)    == app.pc = pc
Goto(pc)  == app' = [app EXCEPT !.pc = pc]
Return    == app' = Idle

\* pwf_filter_start(): state is written after the lock is released.
StartLocked ==
  /\ At("idle") /\ LockFree
  /\ active' = TRUE
  /\ Goto("starting")
  /\ NoRelease
  /\ UNCHANGED <<state, destroying, wait, cb, linked, restarted>>

StartReturn ==
  /\ At("starting")
  /\ state' = "RUNNING"
  /\ Return
  /\ NoRelease
  /\ UNCHANGED <<active, destroying, wait, cb, linked, restarted>>

\* pwf_filter_stop(): the state is read without the lock.
StopCall ==
  /\ At("idle") /\ state = "RUNNING"
  /\ Goto("stopping")
  /\ NoRelease
  /\ UNCHANGED <<state, active, destroying, wait, cb, linked, restarted>>

\* With drain it first waits, unlocked, for .drained or a timeout.
StopDrain ==
  /\ At("stopping") /\ LockFree
  /\ ~ destroying
  /\ Goto("draining")
  /\ NoRelease
  /\ UNCHANGED <<state, active, destroying, wait, cb, linked, restarted>>

StopLocked ==
  /\ At("stopping") \/ At("draining")
  /\ LockFree
  /\ active' = FALSE
  /\ state' = "STOPPED"
  /\ Goto("releasing")
  /\ NoRelease
  /\ UNCHANGED <<destroying, wait, cb, linked, restarted>>

\* pwf_filter_release_all_links(), under the lock once more.
StopRelease ==
  /\ At("releasing") /\ LockFree
  /\ Release(Ports, "app")
  /\ IF destroying THEN Goto("tearing") ELSE Return
  /\ UNCHANGED <<state, active, destroying, wait, cb, linked, restarted>>

DestroyCall_NoStop ==
  /\ At("idle")
  /\ destroying' = TRUE
  /\ Goto("releasing")
  /\ NoRelease
  /\ UNCHANGED <<state, active, wait, cb, linked, restarted>>

\* pwf_filter_destroy(): it stops a running filter, or releases the links.  The
\* state is read without the lock, and the error callback may be running.
DestroyCall ==
  /\ At("idle")
  /\ destroying' = TRUE
  /\ Goto(IF state = "RUNNING" THEN "destroying" ELSE "releasing")
  /\ NoRelease
  /\ UNCHANGED <<state, active, wait, cb, linked, restarted>>

\* The pwf_filter_stop() it calls reads the state again, and returns at once if
\* the error callback has stopped the filter since.
DestroyStop ==
  /\ At("destroying")
  /\ Goto(IF state = "RUNNING" THEN "stopping" ELSE "tearing")
  /\ NoRelease
  /\ UNCHANGED <<state, active, destroying, wait, cb, linked, restarted>>

\* The registry goes, under the lock; then, without it, the staging memory of
\* the ports and the array of them are freed.
DestroyRegistry ==
  /\ At("tearing") /\ LockFree
  /\ Goto("freeing")
  /\ NoRelease
  /\ UNCHANGED <<state, active, destroying, wait, cb, linked, restarted>>

\* The pw_filter goes under the lock, and the loop thread ends.
DestroyTeardown ==
  /\ At("freeing") /\ LockFree
  /\ Goto("gone")
  /\ active' = FALSE
  /\ inbox' = <<>>
  /\ UNCHANGED <<state, portVars, destroying, wait, cb, serverVars, linked, restarted, unreported>>

\* pwf_filter_port_link(): the checks, and what follows up to the creation of
\* the link, do not hold the lock; resolving the target waits for round-trips.
LinkCall(p) ==
  /\ At("idle")
  /\ ~ link_proxy[p]
  /\ state = "RUNNING"
  /\ app' = [pc |-> "resolving", port |-> p]
  /\ linked' = [linked EXCEPT ![p] = FALSE]
  /\ NoRelease
  /\ UNCHANGED <<state, active, destroying, wait, cb, restarted>>

\* No such target, no own port, no memory, a failed round-trip or proxy.
LinkUnresolved ==
  /\ At("resolving")
  /\ Return
  /\ NoRelease
  /\ UNCHANGED <<state, active, destroying, wait, cb, linked, restarted>>

LinkCreate ==
  /\ At("resolving") /\ LockFree
  /\ offers < MaxOffers
  /\ offers' = offers + 1
  /\ link_proxy' = [link_proxy EXCEPT ![app.port] = TRUE]
  /\ link_state_seen_active' = [link_state_seen_active EXCEPT ![app.port] = FALSE]
  /\ link' = [link EXCEPT ![app.port] = "negotiating"]
  /\ wait' = NoWait
  /\ Goto("waiting")
  /\ UNCHANGED <<state, active, loss_reported, destroying, cb, inbox, fed, linked, restarted,
                 unreported>>

\* The wait ended with an answer; anything but PWF_OK releases the link.
LinkWake ==
  /\ At("waiting") /\ LockFree
  /\ wait.done
  /\ IF wait.result = "OK"
       THEN linked' = [linked EXCEPT ![app.port] = TRUE] /\ NoRelease
       ELSE Release({app.port}, "failure") /\ UNCHANGED linked
  /\ wait' = NoWait
  /\ Return
  /\ UNCHANGED <<state, active, destroying, cb, restarted>>

LinkTimeout_Partial ==
  /\ At("waiting") /\ LockFree
  /\ wait' = NoWait
  /\ Return
  /\ NoRelease
  /\ UNCHANGED <<state, active, destroying, cb, linked, restarted>>

\* The deadline is set anew at each wake-up.
LinkTimeout_Rearmed == FALSE

\* A timeout counts even if an answer came before the lock was taken back.
LinkTimeout ==
  /\ At("waiting") /\ LockFree
  /\ Release({app.port}, "failure")
  /\ wait' = NoWait
  /\ Return
  /\ UNCHANGED <<state, active, destroying, cb, linked, restarted>>

\* pwf_filter_port_unlink()
UnlinkCall(p) ==
  /\ At("idle") /\ link_proxy[p]
  /\ app' = [pc |-> "unlinking", port |-> p]
  /\ NoRelease
  /\ UNCHANGED <<state, active, destroying, wait, cb, linked, restarted>>

UnlinkLocked ==
  /\ At("unlinking") /\ LockFree
  /\ Release({app.port}, "app")
  /\ Return
  /\ UNCHANGED <<state, active, destroying, wait, cb, linked, restarted>>

\* The rest of a call, once it is made.
AppStep ==
  \/ StartReturn \/ StopDrain \/ StopLocked \/ StopRelease
  \/ LinkUnresolved \/ LinkCreate \/ LinkWake \/ LinkTimeout \/ UnlinkLocked
  \/ DestroyStop \/ DestroyRegistry \/ DestroyTeardown

AppCall ==
  \/ StartLocked \/ StopCall \/ DestroyCall
  \/ \E p \in Ports : LinkCall(p) \/ UnlinkCall(p)

----------------------------------------------------------------------------
(* The loop thread *)

Handles(p, kind) ==
  /\ cb = NULL
  /\ inbox # <<>>
  /\ Head(inbox).port = p
  /\ Head(inbox).kind = kind
  /\ inbox' = Tail(inbox)
  /\ UNCHANGED <<state, active, app, destroying, link_proxy, serverVars, linked, restarted>>

LinkWait(p) == At("waiting") /\ app.port = p
Answer(r)   == wait' = [done |-> TRUE, result |-> r]

\* pwf_filter_claim_source_loss(), and the error callback if it claims.
Claimable_Twice(p) == state = "RUNNING"
Claimable(p)       == state = "RUNNING" /\ ~ loss_reported[p]

Report(p) ==
  IF Claimable(p)
    THEN /\ loss_reported' = [loss_reported EXCEPT ![p] = TRUE]
         /\ unreported' = [unreported EXCEPT ![p] = FALSE]
         /\ cb' = p
    ELSE UNCHANGED <<loss_reported, unreported, cb>>

\* pwf_filter_on_param_changed(): a format, or none any more.
OnFormat_NoReset(p) ==
  /\ Handles(p, "format")
  /\ unreported' = [unreported EXCEPT ![p] = TRUE]
  /\ UNCHANGED <<link_state_seen_active, loss_reported, wait, cb>>

OnFormat(p) ==
  /\ Handles(p, "format")
  /\ loss_reported' = [loss_reported EXCEPT ![p] = FALSE]
  /\ unreported' = [unreported EXCEPT ![p] = TRUE]
  /\ UNCHANGED <<link_state_seen_active, wait, cb>>

OnCleared(p) ==
  /\ Handles(p, "cleared")
  /\ Report(p)
  /\ UNCHANGED <<link_state_seen_active, wait>>

\* pwf_filter_link_on_info(): PAUSED or ACTIVE; ERROR or UNLINKED.
OnLinkUp(p) ==
  /\ Handles(p, "up")
  /\ link_state_seen_active' = [link_state_seen_active EXCEPT ![p] = TRUE]
  /\ IF LinkWait(p) THEN Answer("OK") ELSE UNCHANGED wait
  /\ UNCHANGED <<loss_reported, unreported, cb>>

OnLinkDown(p) ==
  /\ Handles(p, "down")
  /\ IF LinkWait(p)
       THEN /\ Answer("INVALID_FORMAT")
            /\ UNCHANGED <<link_state_seen_active, loss_reported, unreported, cb>>
       ELSE /\ link_state_seen_active' =
                 [link_state_seen_active EXCEPT ![p] = FALSE]
            /\ IF link_state_seen_active[p]
                 THEN Report(p) ELSE UNCHANGED <<loss_reported, unreported, cb>>
            /\ UNCHANGED wait

\* A destroy has made its last test of the state, and found or made it STOPPED.
StateIsRead ==
  destroying /\ (At("releasing") \/ At("tearing") \/ At("freeing") \/ At("gone"))

\* What the error callback calls: a stop without drain, a start, an unlink.
CallbackStop ==
  /\ cb # NULL /\ state = "RUNNING"
  /\ state' = "STOPPED" /\ active' = FALSE
  /\ Release(Ports, "app")
  /\ UNCHANGED <<appVars, cb, linked, restarted>>

CallbackStart ==
  /\ cb # NULL
  /\ state' = "RUNNING" /\ active' = TRUE
  /\ restarted' = (restarted \/ StateIsRead)
  /\ NoRelease
  /\ UNCHANGED <<appVars, cb, linked>>

CallbackUnlink(p) ==
  /\ cb # NULL /\ link_proxy[p]
  /\ Release({p}, "app")
  /\ UNCHANGED <<state, active, appVars, cb, linked, restarted>>

CallbackReturn ==
  /\ cb # NULL
  /\ cb' = NULL
  /\ NoRelease
  /\ UNCHANGED <<state, active, appVars, linked, restarted>>

LoopStep ==
  \/ \E p \in Ports :
       OnFormat(p) \/ OnCleared(p) \/ OnLinkUp(p) \/ OnLinkDown(p)
  \/ CallbackReturn

Callback ==
  CallbackStop \/ CallbackStart \/ \E p \in Ports : CallbackUnlink(p)

Next ==
  \/ AppCall
  \/ AppStep
  \/ LoopStep
  \/ Callback
  \/ \E p \in Ports : ServerStep(p)

\* The application's thread, once in a call, and the loop thread are scheduled,
\* the callback returns and time passes; the server may never answer.
Spec == Init /\ [][Next]_vars /\ WF_vars(AppStep) /\ WF_vars(LoopStep)

----------------------------------------------------------------------------
(* Properties *)

Reports(p) == cb = NULL /\ cb' = p

\* A lost source is reported at most once, by whichever of its two signs (the
\* link goes down, the format clears) is handled first, and only while running.
ReportedOncePerSource ==
  [][\A p \in Ports : Reports(p) => unreported[p] /\ state = "RUNNING"]_vars

\* The error callback hears of each source that a running filter loses: when
\* the format goes, either it is told now or it was told before.  A release
\* gives this up for the port until its next format, even if another program
\* keeps feeding the port.
LossIsReported ==
  [][\A p \in Ports :
       (/\ Handles(p, "cleared")
        /\ Head(inbox).by = "server"
        /\ unreported[p]
        /\ state = "RUNNING") => cb' = p]_vars

\* A call that fails leaves no link behind: outside port_link() a port owns a
\* proxy only if its last port_link() returned PWF_OK.
NoPartialLink ==
  ~ At("waiting") => \A p \in Ports : link_proxy[p] => linked[p]

\* Every call returns, though the server may not answer and the callback may
\* take down the very link a call waits for; a destroy gets to its end.
CallsReturn == ~ At("idle") ~> (At("idle") \/ At("gone"))

\* A filter that is freed owns no link.  What process() and a push use is freed
\* only once the filter is paused for good and the error callback is over, though
\* the callback may have stopped it, started it or unlinked ports since the call
\* began, with one exception: a start that comes after destroy's last look at the
\* state is not seen.
DestroyedIsQuiet ==
  At("freeing") \/ At("gone") =>
    /\ \A p \in Ports : ~ link_proxy[p]
    /\ restarted \/ (~ active /\ cb = NULL)

\* "pwf_filter_stop() and pwf_filter_destroy() release every link".
StopReleasesLinks ==
  state = "STOPPED" /\ ~ At("releasing") => \A p \in Ports : ~ link_proxy[p]
============================================================================
