--------------------------- MODULE StreamPromise ---------------------------
(***************************************************************************)
(* What a stream promises the program that opened it, without its node,    *)
(* buffers, drains and locks: when its two callbacks may run.              *)
(*                                                                         *)
(* The data callback begins only while the stream is active, and neither   *)
(* pausing nor destroying it cuts one short.  The error callback is called *)
(* for a running stream, which then no longer is: at most once until it is *)
(* started again.  Once destroyed, it calls nothing.                       *)
(*                                                                         *)
(* It does not promise that stopping a stream pauses it: a stream whose    *)
(* loss was reported is not running, stays active, and stop returns.       *)
(***************************************************************************)
EXTENDS Naturals

CONSTANT Handles

VARIABLE handle     \* each pwf_stream handle, as the program sees it

Absent == [st |-> "none", set |-> FALSE, running |-> FALSE, active |-> FALSE,
           delivering |-> FALSE, reporting |-> FALSE]

Created == [Absent EXCEPT !.st = "created"]

PromiseInit == handle \in [Handles -> {Absent, Created}]

Is(h, s) == handle' = [handle EXCEPT ![h] = s]

Alive(h) == handle[h].st = "created"

\* Calls of the program, each up to where the stream drops its lock

Create(h) == handle[h] = Absent /\ Is(h, Created)

Configured(h) == Alive(h) /\ Is(h, [handle[h] EXCEPT !.set = TRUE, !.running = FALSE])

Activate(h) == Alive(h) /\ handle[h].set /\ Is(h, [handle[h] EXCEPT !.active = TRUE])

Started(h) == Alive(h) /\ Is(h, [handle[h] EXCEPT !.running = TRUE])

Pause(h) == Alive(h) /\ ~ handle[h].delivering /\ Is(h, [handle[h] EXCEPT !.active = FALSE])

Stopped(h) == Alive(h) /\ Is(h, [handle[h] EXCEPT !.running = FALSE])

Destroy(h) ==
  /\ Alive(h) /\ ~ handle[h].delivering /\ ~ handle[h].reporting
  /\ Is(h, [handle[h] EXCEPT !.st = "destroyed", !.running = FALSE, !.active = FALSE])

\* The callbacks; in the error callback the program may start and stop

DataBegin(h) ==
  /\ Alive(h) /\ handle[h].active /\ ~ handle[h].delivering
  /\ Is(h, [handle[h] EXCEPT !.delivering = TRUE])

DataEnd(h) == handle[h].delivering /\ Is(h, [handle[h] EXCEPT !.delivering = FALSE])

\* The loss may be the program's own: of a stream it configures anew.
Report(h) ==
  /\ Alive(h) /\ handle[h].running /\ ~ handle[h].reporting
  /\ \E on \in {handle[h].active, handle[h].active /\ handle[h].delivering} :
       Is(h, [handle[h] EXCEPT !.running = FALSE, !.reporting = TRUE, !.active = on])

Restart(h) ==
  /\ Alive(h) /\ handle[h].reporting /\ handle[h].set
  /\ Is(h, [handle[h] EXCEPT !.running = TRUE, !.active = TRUE])

Halt(h) ==
  /\ Alive(h) /\ handle[h].reporting /\ ~ handle[h].delivering
  /\ Is(h, [handle[h] EXCEPT !.running = FALSE, !.active = FALSE])

ErrorEnd(h) == handle[h].reporting /\ Is(h, [handle[h] EXCEPT !.reporting = FALSE])

PromiseNext ==
  \E h \in Handles :
    \/ Create(h) \/ Configured(h) \/ Activate(h) \/ Started(h)
    \/ Pause(h) \/ Stopped(h) \/ Destroy(h)
    \/ DataBegin(h) \/ DataEnd(h)
    \/ Report(h) \/ Restart(h) \/ Halt(h) \/ ErrorEnd(h)

PromiseSpec == PromiseInit /\ [][PromiseNext]_handle
============================================================================
