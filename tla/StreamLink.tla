----------------------------- MODULE StreamLink -----------------------------
(***************************************************************************)
(* A stream that wires itself: pwf_stream_link(), pwf_stream_unlink(), the *)
(* set of core links they own, the registry's array of ports they pair     *)
(* from, and the error callback (pwf_stream_routing.c, pwf_stream.c,       *)
(* pwf_pw_core.c).                                                         *)
(*                                                                         *)
(* One application thread makes the calls.  The loop thread keeps the      *)
(* registry, releases the links when the device goes and runs the error    *)
(* callback, all with the loop lock held: while cb holds, the application  *)
(* thread takes only the steps it takes without the lock.  The server and  *)
(* the device are external: ports come and go, the device may leave, and a *)
(* link comes up only between live ports of the nodes it names.            *)
(*                                                                         *)
(* Memory is explicit where the code keeps pointers into it.  A pointer    *)
(* into the array of ports is a block and a position: positions of the     *)
(* current block keep what was last written there, an older block was      *)
(* reallocated and reads as anything.  A set of links that was freed reads *)
(* as anything and forgets what is written to it.  Nothing uses a          *)
(* definition Name_Bug: each is a mistake the properties would catch.      *)
(***************************************************************************)
EXTENDS Naturals, Sequences, FiniteSets, SequencesExt, FiniteSetsExt

CONSTANTS
  OwnPorts,         \* the stream's own ports, a sequence by ordinal
  DevicePorts,      \* the target's ports, a sequence by ordinal
  OtherPorts,       \* ports of other nodes
  NULL,
  InitialCapacity   \* of the array of ports (32 in the code)

ASSUME StreamAssumption ==
  /\ OwnPorts \in Seq(ToSet(OwnPorts)) /\ DevicePorts \in Seq(ToSet(DevicePorts))
  /\ IsInjective(OwnPorts \o DevicePorts)
  /\ Len(OwnPorts) > 0
  /\ OtherPorts \cap ToSet(OwnPorts \o DevicePorts) = {}
  /\ NULL \notin OtherPorts \cup ToSet(OwnPorts \o DevicePorts)
  /\ IsFiniteSet(OtherPorts \cup ToSet(OwnPorts) \cup ToSet(DevicePorts))
  /\ InitialCapacity \in Nat \ {0}

VARIABLES
  state,            \* "STOPPED" or "RUNNING"
  links,            \* whether stream->links is set; it points to the last set
  set,              \* the last struct pwf_stream_link_set, live or freed
  (* the application thread, in pwf_stream_link() or pwf_stream_unlink() *)
  app, own, peer,
  cb,               \* whether the error callback runs
  (* the registry *)
  ports, n_ports, block, device,
  graph,            \* the server's ports; "missed": no memory to cache it
  (* history *)
  requested,        \* the pairs of ports the last pwf_stream_link() asked for
  orphans,          \* link proxies that no set owns any more, by channel
  outcome           \* what the last pwf_stream_link() returned, and since

callVars     == <<app, own, peer>>
registryVars == <<ports, n_ports, block, device, graph>>
vars == <<state, links, set, callVars, cb, registryVars,
          requested, orphans, outcome>>

----------------------------------------------------------------------------

N        == Len(OwnPorts)
Channels == 1..N
Ports    == OtherPorts \cup ToSet(OwnPorts) \cup ToSet(DevicePorts)
Ordinal(p) == CHOOSE i \in DOMAIN OwnPorts \cup DOMAIN DevicePorts :
                \/ i \in DOMAIN OwnPorts /\ OwnPorts[i] = p
                \/ i \in DOMAIN DevicePorts /\ DevicePorts[i] = p

Idle   == [pc |-> "idle", i |-> 0, res |-> "OK"]
NewSet == [st |-> "live", n_links |-> 0, proxies |-> {}, seen |-> {}, lost |-> {}]
Freed  == [NewSet EXCEPT !.st = "freed"]

CallType ==
  /\ state \in {"STOPPED", "RUNNING"}
  /\ links \in BOOLEAN
  /\ set \in [st : {"live", "freed"}, n_links : Nat, proxies : SUBSET Nat,
              seen : SUBSET Nat, lost : SUBSET Nat]
  /\ app \in [pc : {"idle", "awaiting", "resolving", "listing", "pairing",
                    "linking", "waiting", "made", "reading", "clearing",
                    "destroying"},
              i : Nat, res : {"OK", "FAILED"}]
  /\ cb \in BOOLEAN
  /\ orphans \subseteq Nat
  /\ outcome \in [res : {"none", "OK", "FAILED"}, since : {"none", "told", "unlinked"}]

RegistryType ==
  /\ ports \in Seq(Ports \cup {NULL})
  /\ Len(ports) > 0
  /\ n_ports \in 0..Len(ports)
  /\ block \in Nat
  /\ device \in BOOLEAN
  /\ graph \in [Ports -> {"absent", "live", "missed", "gone"}]

\* own and peer hold what ListPorts() returns.
TypeOK == CallType /\ RegistryType

\* The device, and perhaps other ports, are announced when the registry binds,
\* in any order.
Init ==
  /\ state = "STOPPED"
  /\ links = FALSE
  /\ set = Freed
  /\ app = Idle
  /\ own = <<>> /\ peer = <<>>
  /\ cb = FALSE
  /\ block = 0
  /\ device = TRUE
  /\ \E P \in {ToSet(DevicePorts) \cup O : O \in SUBSET OtherPorts} :
       \E s \in SetToSeqs(P) :
         /\ Len(s) <= InitialCapacity
         /\ ports = s \o [k \in 1..InitialCapacity - Len(s) |-> NULL]
         /\ n_ports = Len(s)
         /\ graph = [p \in Ports |-> IF p \in P THEN "live" ELSE "absent"]
  /\ requested = <<>>
  /\ orphans = {}
  /\ outcome = [res |-> "none", since |-> "none"]

----------------------------------------------------------------------------
(* The registry *)

InGraph(p) == graph[p] \in {"live", "missed"}

Grown(s) == IF n_ports = Len(s) THEN s \o [k \in 1..Len(s) |-> NULL] ELSE s

\* The last entry takes the place of the removed one, and stays where it was.
Removed_First(s, p) ==
  [s EXCEPT ![CHOOSE k \in 1..n_ports : s[k] = p] = s[1]]
Removed(s, p) ==
  [s EXCEPT ![CHOOSE k \in 1..n_ports : s[k] = p] = s[n_ports]]

\* pwf_pw_registry_list_ports() keeps the list sorted: a port of the node goes
\* behind the last one whose ordinal is not higher.
NotHigher(out, k) ==
  {0} \cup {j \in DOMAIN out : Ordinal(ports[out[j]]) <= Ordinal(ports[k])}

Inserted(owned, out, k) ==
  IF ports[k] \in owned THEN InsertAt(out, 1 + Max(NotHigher(out, k)), k) ELSE out

ListPorts(owned) ==
  LET listed == FoldLeft(LAMBDA out, k : Inserted(owned, out, k), <<>>,
                         [k \in 1..n_ports |-> k])
  IN  [j \in DOMAIN listed |-> [block |-> block, at |-> listed[j]]]

\* What following a pointer into the array may yield now.
Deref(ptr) == IF ptr.block = block THEN {ports[ptr.at]} ELSE Ports

\* pwf_stream_pair_ports()
PairPorts(n_stream, n_target) ==
  IF n_stream = 0 \/ n_target < n_stream THEN 0 ELSE n_stream

----------------------------------------------------------------------------
(* Freeing the set destroys the proxies of the links it counts.            *)

DestroySet ==
  /\ set' = Freed
  /\ orphans' = orphans \cup {c \in set.proxies : c > set.n_links}

KeepLinks == UNCHANGED <<links, set, orphans>>

----------------------------------------------------------------------------
(* The application thread.  A step that takes the loop lock waits for cb.  *)

LockFree == ~ cb

At(pc)   == app.pc = pc
Goto(pc) == app' = [app EXCEPT !.pc = pc]

Return(res) ==
  /\ app' = Idle
  /\ own' = <<>> /\ peer' = <<>>
  /\ outcome' = IF At("reading") \/ At("destroying")
                  THEN outcome ELSE [outcome EXCEPT !.res = res]

AppLocal == UNCHANGED <<state, cb, registryVars>>

\* pwf_stream_start() and pwf_stream_stop(): the links stay as they are.
StartStop ==
  /\ At("idle") /\ LockFree
  /\ state' \in {"STOPPED", "RUNNING"} \ {state}
  /\ KeepLinks
  /\ UNCHANGED <<callVars, cb, registryVars, requested, outcome>>

LinkCall ==
  /\ At("idle") /\ ~ links /\ state = "RUNNING"
  /\ Goto("awaiting")
  /\ requested' = <<>>
  /\ outcome' = [res |-> "none", since |-> "none"]
  /\ KeepLinks /\ AppLocal
  /\ UNCHANGED <<own, peer>>

\* pwf_stream_await_own_ports()
AwaitOwnPorts ==
  /\ At("awaiting") /\ LockFree
  /\ Len(ListPorts(ToSet(OwnPorts))) >= N
  /\ Goto("resolving")
  /\ KeepLinks /\ AppLocal
  /\ UNCHANGED <<own, peer, requested, outcome>>

AwaitTimeout ==
  /\ At("awaiting") /\ LockFree
  /\ Return("FAILED")
  /\ KeepLinks /\ AppLocal
  /\ UNCHANGED requested

\* The target's node is looked up, then both lists are made, without the lock.
ResolveTarget ==
  /\ At("resolving")
  /\ device
  /\ Goto("listing")
  /\ KeepLinks /\ AppLocal
  /\ UNCHANGED <<own, peer, requested, outcome>>

ListOwn ==
  /\ At("listing")
  /\ own' = ListPorts(ToSet(OwnPorts))
  /\ Goto("pairing")
  /\ KeepLinks /\ AppLocal
  /\ UNCHANGED <<peer, requested, outcome>>

ListPeer ==
  /\ At("pairing")
  /\ peer' = ListPorts(ToSet(DevicePorts))
  /\ PairPorts(Len(own), Len(peer')) > 0
  /\ links' = TRUE
  /\ set' = NewSet
  /\ app' = [pc |-> "linking", i |-> 1, res |-> "OK"]
  /\ AppLocal
  /\ UNCHANGED <<own, orphans, requested, outcome>>

\* No such node, too few ports, or no memory.
LinkRefused ==
  /\ At("resolving") \/ At("pairing")
  /\ Return("FAILED")
  /\ KeepLinks /\ AppLocal
  /\ UNCHANGED requested

\* pwf_stream_link_one(), up to its wait.
LinkOne ==
  /\ At("linking") /\ LockFree
  /\ \E o \in Deref(own[app.i]), d \in Deref(peer[app.i]) :
       requested' = Append(requested, <<o, d>>)
  /\ IF set.st = "live"
       THEN /\ set' = [set EXCEPT !.proxies = @ \cup {app.i}]
            /\ UNCHANGED orphans
       ELSE /\ orphans' = orphans \cup {app.i}
            /\ UNCHANGED set
  /\ Goto("waiting")
  /\ AppLocal
  /\ UNCHANGED <<links, own, peer, outcome>>

LinkOneFails ==
  /\ At("linking")
  /\ app' = [app EXCEPT !.pc = "made", !.res = "FAILED"]
  /\ KeepLinks /\ AppLocal
  /\ UNCHANGED <<own, peer, requested, outcome>>

\* An answer, what a freed set happens to say, or the timeout; an error counts
\* even if the link came up first.
LinkOneWakes ==
  /\ At("waiting") /\ LockFree
  /\ \E res \in {"OK", "FAILED"} :
       /\ (res = "OK" /\ set.st = "live") => app.i \in set.seen \ set.lost
       /\ app' = [app EXCEPT !.pc = "made", !.res = res]
  /\ KeepLinks /\ AppLocal
  /\ UNCHANGED <<own, peer, requested, outcome>>

\* n_links is written without the lock.
CountLink ==
  /\ At("made")
  /\ set' = IF set.st = "live" THEN [set EXCEPT !.n_links = app.i] ELSE set
  /\ \/ /\ app.res = "FAILED"
        /\ Goto("reading")
        /\ UNCHANGED <<own, peer, outcome>>
     \/ /\ app.res = "OK" /\ app.i < PairPorts(Len(own), Len(peer))
        /\ app' = [app EXCEPT !.pc = "linking", !.i = @ + 1]
        /\ UNCHANGED <<own, peer, outcome>>
     \/ /\ app.res = "OK" /\ app.i = PairPorts(Len(own), Len(peer))
        /\ Return("OK")
  /\ AppLocal
  /\ UNCHANGED <<links, orphans, requested>>

UnlinkCall ==
  /\ At("idle") /\ links
  /\ Goto("reading")
  /\ outcome' = [outcome EXCEPT !.since = "unlinked"]
  /\ KeepLinks /\ AppLocal
  /\ UNCHANGED <<own, peer, requested>>

\* pwf_stream_release_links(): stream->links is read, then cleared, without the
\* lock, and its set destroyed with it; the loop may have done so in between.
ReleaseRead ==
  /\ At("reading")
  /\ IF links THEN Goto("clearing") /\ UNCHANGED <<own, peer, outcome>>
              ELSE Return("FAILED")
  /\ KeepLinks /\ AppLocal
  /\ UNCHANGED requested

ReleaseClear_Late ==
  /\ At("clearing")
  /\ Goto("destroying")
  /\ KeepLinks /\ AppLocal
  /\ UNCHANGED <<own, peer, requested, outcome>>

ReleaseClear ==
  /\ At("clearing")
  /\ links' = FALSE
  /\ Goto("destroying")
  /\ AppLocal
  /\ UNCHANGED <<set, orphans, own, peer, requested, outcome>>

ReleaseDestroy ==
  /\ At("destroying") /\ LockFree
  /\ DestroySet
  /\ app' = Idle
  /\ own' = <<>> /\ peer' = <<>>
  /\ outcome' = IF app.i = 0 THEN outcome ELSE [outcome EXCEPT !.res = "FAILED"]
  /\ AppLocal
  /\ UNCHANGED <<links, requested>>

\* The rest of a call, once it is made.
AppStep ==
  \/ AwaitOwnPorts \/ AwaitTimeout \/ ResolveTarget \/ ListOwn \/ ListPeer
  \/ LinkRefused \/ LinkOne \/ LinkOneFails \/ LinkOneWakes \/ CountLink
  \/ ReleaseRead \/ ReleaseClear \/ ReleaseDestroy

----------------------------------------------------------------------------
(* The loop thread *)

\* pwf_pw_registry_add_port()
OnPortAdded(p) ==
  /\ ~ cb
  /\ graph[p] = "absent"
  /\ p \in ToSet(OwnPorts) => state = "RUNNING"
  /\ p \in ToSet(DevicePorts) => device
  /\ graph' = [graph EXCEPT ![p] = "live"]
  /\ ports' = [Grown(ports) EXCEPT ![n_ports + 1] = p]
  /\ n_ports' = n_ports + 1
  /\ block' = IF n_ports = Len(ports) THEN block + 1 ELSE block
  /\ KeepLinks
  /\ UNCHANGED <<state, callVars, cb, device, requested, outcome>>

\* No memory for the larger array, or for the name after it was grown
OnPortMissed(p) ==
  /\ ~ cb
  /\ graph[p] = "absent"
  /\ p \in ToSet(OwnPorts) => state = "RUNNING"
  /\ p \in ToSet(DevicePorts) => device
  /\ graph' = [graph EXCEPT ![p] = "missed"]
  /\ \/ UNCHANGED <<ports, block>>
     \/ /\ n_ports = Len(ports)
        /\ ports' = Grown(ports)
        /\ block' = block + 1
  /\ KeepLinks
  /\ UNCHANGED <<state, callVars, cb, n_ports, device, requested, outcome>>

\* pwf_pw_registry_on_global_remove() of a port
OnPortRemoved(p) ==
  /\ ~ cb
  /\ InGraph(p)
  /\ p \notin ToSet(OwnPorts)
  /\ graph' = [graph EXCEPT ![p] = "gone"]
  /\ IF graph[p] = "live"
       THEN /\ ports' = Removed(ports, p)
            /\ n_ports' = n_ports - 1
       ELSE UNCHANGED <<ports, n_ports>>
  /\ KeepLinks
  /\ UNCHANGED <<state, callVars, cb, block, device, requested, outcome>>

DeviceLeaves ==
  /\ ~ cb
  /\ device
  /\ \A p \in ToSet(DevicePorts) : ~ InGraph(p)
  /\ device' = FALSE
  /\ UNCHANGED <<state, callVars, ports, n_ports, block, graph, requested>>

\* pwf_stream_on_node_removed(), for the target
OnNodeRemoved_WhenComplete ==
  /\ DeviceLeaves
  /\ IF links /\ set.n_links = N
       THEN /\ links' = FALSE
            /\ DestroySet
            /\ cb' = TRUE
            /\ outcome' = [outcome EXCEPT !.since = "told"]
       ELSE KeepLinks /\ UNCHANGED <<cb, outcome>>

OnNodeRemoved_Silent ==
  /\ DeviceLeaves
  /\ IF links
       THEN /\ links' = FALSE
            /\ DestroySet
            /\ UNCHANGED <<cb, outcome>>
       ELSE KeepLinks /\ UNCHANGED <<cb, outcome>>

OnNodeRemoved ==
  /\ DeviceLeaves
  /\ IF links
       THEN /\ links' = FALSE
            /\ DestroySet
            /\ cb' = TRUE
            /\ outcome' = [outcome EXCEPT !.since = "told"]
       ELSE KeepLinks /\ UNCHANGED <<cb, outcome>>

\* pwf_stream_link_on_info(): ACTIVE or PAUSED; ERROR.
OnLinkInfo(c) ==
  /\ ~ cb
  /\ c \in set.proxies
  /\ \/ /\ requested[c][1] \in ToSet(OwnPorts) /\ InGraph(requested[c][1])
        /\ requested[c][2] \in ToSet(DevicePorts) /\ InGraph(requested[c][2])
        /\ set' = [set EXCEPT !.seen = @ \cup {c}]
     \/ set' = [set EXCEPT !.lost = @ \cup {c}]
  /\ UNCHANGED <<state, links, callVars, cb, registryVars,
                 requested, orphans, outcome>>

\* pwf_stream_on_state_changed(), when the source is lost
OnSourceLost ==
  /\ ~ cb
  /\ state = "RUNNING"
  /\ state' = "STOPPED"
  /\ cb' = TRUE
  /\ KeepLinks
  /\ UNCHANGED <<callVars, registryVars, requested, outcome>>

\* What the error callback calls: an unlink, a start, a stop without drain.
CallbackUnlink ==
  /\ cb /\ links
  /\ links' = FALSE
  /\ DestroySet
  /\ outcome' = [outcome EXCEPT !.since = "unlinked"]
  /\ UNCHANGED <<state, callVars, cb, registryVars, requested>>

CallbackStartStop ==
  /\ cb
  /\ state' \in {"STOPPED", "RUNNING"} \ {state}
  /\ KeepLinks
  /\ UNCHANGED <<callVars, cb, registryVars, requested, outcome>>

CallbackReturn ==
  /\ cb
  /\ cb' = FALSE
  /\ KeepLinks
  /\ UNCHANGED <<state, callVars, registryVars, requested, outcome>>

----------------------------------------------------------------------------

Next ==
  \/ LinkCall \/ UnlinkCall \/ StartStop
  \/ AppStep
  \/ \E p \in Ports : OnPortAdded(p) \/ OnPortMissed(p) \/ OnPortRemoved(p)
  \/ \E c \in Channels : OnLinkInfo(c)
  \/ OnNodeRemoved \/ OnSourceLost
  \/ CallbackUnlink \/ CallbackStartStop \/ CallbackReturn

Spec == Init /\ [][Next]_vars

----------------------------------------------------------------------------
(* Properties *)

\* The registry mirrors the graph: swapping the last port into a hole and
\* growing the array lose no port and keep none that left, and a port there was no
\* memory for is missing and nothing else.  So listing a node's ports yields each
\* other one, by ascending ordinal, whatever the order in which they were announced.
CacheIsExact == {ports[k] : k \in 1..n_ports} = {p \in Ports : graph[p] = "live"}

RegistryMirrorsGraph ==
  /\ CacheIsExact
  /\ \A node \in {OwnPorts, DevicePorts} :
       LET list   == ListPorts(ToSet(node))
           listed == [j \in DOMAIN list |-> ports[list[j].at]]
       IN  /\ ToSet(listed) = {p \in ToSet(node) : graph[p] = "live"}
           /\ \A i, j \in DOMAIN listed :
                i < j => Ordinal(listed[i]) < Ordinal(listed[j])

\* "A stream never ends up half-wired": outside the calls, linked means that
\* every channel owns a counted link that came up, and the device is there,
\* whenever during pwf_stream_link() it left.
NeverHalfWired ==
  At("idle") /\ links =>
    /\ device
    /\ set.n_links = N
    /\ set.proxies = Channels
    /\ Channels \subseteq set.seen

\* stream->links never points to a freed set, though both threads free it.
LinksNeverDangles == links => set.st = "live"

\* A pwf_stream_link() that returned PWF_OK is not undone behind the
\* application's back: the links are there, or it unlinked them itself, or the
\* error callback ran.
LossIsTold ==
  At("idle") /\ outcome.res = "OK" /\ ~ links => outcome.since # "none"

\* "On any channel failing, none is left behind": without a set of links, no
\* link proxy is left alive.
NoneLeftBehind == At("idle") /\ ~ links => orphans = {}

\* "Channels are paired by position", at least while no port of the stream or
\* of the device has gone or is missing from the cache.
PairedByPosition ==
  (\A p \in ToSet(OwnPorts \o DevicePorts) : graph[p] \notin {"missed", "gone"}) =>
  \A c \in DOMAIN requested : requested[c] = <<OwnPorts[c], DevicePorts[c]>>
============================================================================
