------------------------------ MODULE CoreSync ------------------------------
(***************************************************************************)
(* Round-trips to the PipeWire server (pwf_pw_core.c, pwf_video_enum.c):   *)
(* connecting, binding the registry, refreshing it, and reading a node's   *)
(* video formats all send their requests and then one sync, and wait for   *)
(* the answer to it, for an error or for a timeout.                        *)
(*                                                                         *)
(* One thread makes the calls.  Requests and the messages that answer them *)
(* are each delivered in order.  The loop thread handles a message with    *)
(* the loop lock held, so never between a call's request and its wait.     *)
(* The server is external: nodes come and go, it answers in its own time,  *)
(* and it reports errors of requests nobody waits for (a link that cannot  *)
(* be made) to whoever listens to the core.                                *)
(*                                                                         *)
(* Nothing uses a definition Name_Bug.                                     *)
(***************************************************************************)
EXTENDS VideoFormats

CONSTANTS
  Nodes,            \* the globals other than ports
  Offers,           \* the EnumFormat objects a node may offer, in order
  OutLen,           \* the formats a caller has room for
  MaxSyncs,         \* bound: round-trips
  MaxErrors         \* bound: errors of requests nobody waits for

ASSUME CoreAssumption ==
  /\ NULL \notin Nodes /\ IsFiniteSet(Nodes)
  /\ OutLen \in Nat
  /\ MaxSyncs \in Nat /\ MaxErrors \in Nat

\* A rate is an SPA fraction: a numerator and a denominator.
ASSUME OffersAssumption ==
  \A objects \in Offers :
    /\ Len(objects) \in Nat /\ DOMAIN objects = 1..Len(objects)
    /\ \A k \in DOMAIN objects : objects[k].rates.vals \in Seq(Nat \X Nat)

VARIABLES
  (* struct pwf_pw_core_conn *)
  listening,        \* core_listener is attached
  pending_seq, connect_result, sync_done,
  (* struct pwf_pw_registry *)
  registry,         \* bound
  nodes,            \* the cache
  (* the caller *)
  call,             \* the call under way or last made
  ctx,              \* what the last query collected: the count, and out[]
  found,            \* the count it returned
  (* the server *)
  requests, replies,
  graph,            \* its nodes
  announces,        \* it has a registry to tell about them
  errors,
  (* history *)
  owed,             \* nodes the server had at the last sync, and still has
  offered           \* what the node of the last query offered when asked

connVars   == <<listening, pending_seq, connect_result, sync_done>>
serverVars == <<requests, replies, graph, announces, errors>>
queryVars  == <<ctx, found>>
vars == <<connVars, registry, nodes, call, queryVars, serverVars, owed, offered>>

----------------------------------------------------------------------------

NoFormats == [found |-> 0, out |-> <<>>]

Init ==
  /\ listening = FALSE
  /\ pending_seq = 0
  /\ connect_result = "OK"
  /\ sync_done = FALSE
  /\ registry = FALSE
  /\ nodes = {}
  /\ call = [pc |-> "idle", op |-> "none", node |-> NULL, result |-> "none"]
  /\ ctx = NoFormats
  /\ found = 0
  /\ requests = <<>> /\ replies = <<>>
  /\ graph \in [Nodes -> {"absent", "live"}]
  /\ announces = FALSE
  /\ errors = 0
  /\ owed = {}
  /\ offered = <<>>

Live == {n \in Nodes : graph[n] = "live"}

----------------------------------------------------------------------------
(* pwf_pw_core_sync_locked(), up to its wait, behind the requests of the   *)
(* call it belongs to.                                                     *)

NextSeq == pending_seq + 1

Sync(op, node, sent) ==
  /\ pending_seq < MaxSyncs
  /\ listening' = TRUE
  /\ pending_seq' = NextSeq
  /\ sync_done' = FALSE
  /\ connect_result' = "OK"
  /\ requests' = requests \o sent \o <<[kind |-> "sync", seq |-> NextSeq]>>
  /\ call' = [pc |-> "waiting", op |-> op, node |-> node, result |-> "none"]
  /\ ctx' = NoFormats
  /\ found' = 0
  /\ owed' = Live
  /\ offered' = <<>>
  /\ UNCHANGED <<nodes, replies, graph, announces, errors>>

Unused    == call.pc = "idle" /\ call.op = "none"
Connected == call.pc = "idle" /\ call.op # "none"

\* pwf_pw_core_connect()
Connect ==
  /\ Unused
  /\ Sync("connect", NULL, <<>>)
  /\ UNCHANGED registry

\* pwf_pw_registry_bind(): binding again sends nothing and waits for nothing.
Bind ==
  /\ Connected /\ ~ registry
  /\ registry' = TRUE
  /\ Sync("bind", NULL, <<[kind |-> "registry"]>>)

BindAgain ==
  /\ Connected /\ registry
  /\ call' = [pc |-> "idle", op |-> "bind", node |-> NULL, result |-> "OK"]
  /\ UNCHANGED <<connVars, registry, nodes, queryVars, serverVars, owed, offered>>

\* pwf_pw_registry_sync()
RegistrySync ==
  /\ Connected /\ registry
  /\ Sync("sync", NULL, <<>>)
  /\ UNCHANGED registry

\* pwf_pw_enum_video_formats(), for a node the cache knows
EnumFormats(n) ==
  /\ Connected /\ registry
  /\ n \in nodes
  /\ Sync("enum", n, <<[kind |-> "enum", seq |-> NextSeq, node |-> n]>>)
  /\ UNCHANGED registry

\* A handle whose connection failed is torn down and never used.
Closes == call.op = "connect"

Returns(result) ==
  call' = [call EXCEPT !.result = result,
             !.pc = IF Closes /\ result # "OK" THEN "closed" ELSE "idle"]

Return(result) ==
  /\ Returns(result)
  /\ listening' = FALSE
  /\ found' = IF result = "OK" THEN ctx.found ELSE 0
  /\ UNCHANGED <<pending_seq, connect_result, sync_done, registry, nodes, ctx,
                 serverVars, owed, offered>>

Wake_Unchecked ==
  /\ call.pc = "waiting"
  /\ sync_done
  /\ Return("OK")

Wake ==
  /\ call.pc = "waiting"
  /\ sync_done
  /\ Return(connect_result)

\* A timeout counts even if the answer came before the lock was taken back.
Timeout ==
  /\ call.pc = "waiting"
  /\ Return("TIMEOUT")

----------------------------------------------------------------------------
(* The loop thread: the next message from the server.                      *)

Receive(kind) ==
  /\ replies # <<>>
  /\ Head(replies).kind = kind
  /\ replies' = Tail(replies)
  /\ UNCHANGED <<registry, call, found, requests, graph, announces, errors,
                 owed, offered>>

\* pwf_pw_core_on_done(): an answer to an earlier sync is not this one's.
OnDone_Any ==
  /\ Receive("done")
  /\ sync_done' = (sync_done \/ listening)
  /\ UNCHANGED <<listening, pending_seq, connect_result, nodes, ctx>>

OnDone ==
  /\ Receive("done")
  /\ sync_done' = (sync_done \/ (listening /\ Head(replies).seq = pending_seq))
  /\ UNCHANGED <<listening, pending_seq, connect_result, nodes, ctx>>

\* pwf_pw_core_on_error(): whose error it is, is not looked at.
OnError ==
  /\ Receive("error")
  /\ IF listening THEN connect_result' = "FAILED" /\ sync_done' = TRUE
                  ELSE UNCHANGED <<connect_result, sync_done>>
  /\ UNCHANGED <<listening, pending_seq, nodes, ctx>>

\* pwf_pw_registry_on_global(), ..._on_global_remove()
OnGlobal ==
  /\ Receive("node")
  /\ nodes' = nodes \cup {Head(replies).node}
  /\ UNCHANGED <<connVars, ctx>>

OnGlobalRemove ==
  /\ Receive("node_removed")
  /\ nodes' = nodes \ {Head(replies).node}
  /\ UNCHANGED <<connVars, ctx>>

\* pwf_video_enum_on_param(), while the query that bound the node waits: what
\* does not fit into out[] is counted.
Collects(m) == call.pc = "waiting" /\ call.op = "enum" /\ m.seq = pending_seq
OnParam ==
  /\ Receive("param")
  /\ LET m == Head(replies)
     IN  IF Collects(m) /\ Parses(m.object)
           THEN ctx' = [found |-> ctx.found + 1,
                        out   |-> IF ctx.found < OutLen
                                    THEN Append(ctx.out, Info(m.object)) ELSE ctx.out]
           ELSE UNCHANGED ctx
  /\ UNCHANGED <<connVars, nodes>>

LoopStep == OnDone \/ OnError \/ OnGlobal \/ OnGlobalRemove \/ OnParam

----------------------------------------------------------------------------
(* The server *)

NodeMsg(kind, n) == [kind |-> kind, node |-> n]
Error  == [kind |-> "error"]

\* A sync is answered behind everything that was requested before it.
Answer ==
  /\ requests # <<>>
  /\ requests' = Tail(requests)
  /\ LET r == Head(requests) IN
       \/ /\ r.kind = "registry"
          /\ announces' = TRUE
          /\ replies' = replies \o SetToSeq({NodeMsg("node", n) : n \in Live})
          /\ UNCHANGED offered
       \/ /\ r.kind = "sync"
          /\ replies' = Append(replies, [kind |-> "done", seq |-> r.seq])
          /\ UNCHANGED <<announces, offered>>
       \/ /\ r.kind = "enum"
          /\ r.node \in Live
          /\ \E objects \in Offers :
               /\ replies' = replies \o [k \in DOMAIN objects |->
                     [kind |-> "param", seq |-> r.seq, object |-> objects[k]]]
               /\ offered' = IF r.seq = pending_seq THEN objects ELSE offered
          /\ UNCHANGED announces
       \/ /\ r.kind = "enum"
          /\ r.node \notin Live
          /\ replies' = Append(replies, Error)
          /\ UNCHANGED <<announces, offered>>
  /\ UNCHANGED <<connVars, registry, nodes, call, queryVars, graph, errors, owed>>

NodeChanges(n) ==
  /\ \/ /\ graph[n] = "absent"
        /\ graph' = [graph EXCEPT ![n] = "live"]
        /\ replies' = IF announces THEN Append(replies, NodeMsg("node", n)) ELSE replies
        /\ UNCHANGED owed
     \/ /\ graph[n] = "live"
        /\ graph' = [graph EXCEPT ![n] = "gone"]
        /\ replies' = IF announces THEN Append(replies, NodeMsg("node_removed", n)) ELSE replies
        /\ owed' = owed \ {n}
  /\ UNCHANGED <<connVars, registry, nodes, call, queryVars, requests, announces,
                 errors, offered>>

ReportError ==
  /\ errors < MaxErrors
  /\ errors' = errors + 1
  /\ replies' = Append(replies, Error)
  /\ UNCHANGED <<connVars, registry, nodes, call, queryVars, requests, graph,
                 announces, owed, offered>>

----------------------------------------------------------------------------

Next ==
  \/ Connect \/ Bind \/ BindAgain \/ RegistrySync
  \/ \E n \in Nodes : EnumFormats(n) \/ NodeChanges(n)
  \/ Wake \/ Timeout
  \/ LoopStep
  \/ Answer \/ ReportError

Spec == Init /\ [][Next]_vars

----------------------------------------------------------------------------
(* Properties *)

Returned(ops) == call.pc = "idle" /\ call.op \in ops /\ call.result = "OK"

\* "Every event owed before the request has arrived": after a round-trip that
\* succeeds, whatever timed out before it, the cache has every node that the
\* server had at the request and still has.
SyncDelivers ==
  registry /\ Returned({"sync", "enum"}) => owed \subseteq nodes

\* How many of n formats are written, and what of one
Room(n) == IF n < OutLen THEN n ELSE OutLen

Tells(info, obj) ==
  /\ info.pixel = obj.pixel
  /\ info.size = Low(obj.size) /\ info.size_max = High(obj.size)
  /\ IsFastest(info.fps, obj.rates)

\* "Every param event the request produces is delivered before the sync
\* completes": a query that succeeds counted every format its node offered that
\* can be named and no other, wrote as many as there was room for, in order and
\* each with its fastest rates, though the node may be gone by the time it is
\* asked; one that fails counts none.
EnumIsComplete ==
  /\ Returned({"enum"}) =>
       \E pick \in [1..found -> DOMAIN offered] :
         /\ \A i, j \in 1..found : i < j => pick[i] < pick[j]
         /\ {pick[i] : i \in 1..found} = {k \in DOMAIN offered : Parses(offered[k])}
         /\ DOMAIN ctx.out = 1..Room(found)
         /\ \A i \in DOMAIN ctx.out : Tells(ctx.out[i], offered[pick[i]])
  /\ call.pc = "idle" /\ call.result # "OK" => found = 0

\* "A lookup right after this call sees the graph as it currently is": so
\* after a pwf_pw_registry_bind() that succeeds, the cache has every node that
\* the server had at the last request and still has.
BindPopulates == Returned({"bind"}) => owed \subseteq nodes
============================================================================
