------------------------------- MODULE EventBus -------------------------------
(***************************************************************************)
(* The advisory event bus of one process (src/packages/watertwin_events:   *)
(* bus.py, transport.py, subjects.py, envelope.py, metrics.py) as          *)
(* watertwin-api wires it (app/events.py): one connection attempt at       *)
(* start, publishers on request threads, a coroutine per publish on the    *)
(* transport's own loop, direct delivery whenever the transport does not   *)
(* say yes in time.  The broker and its client are external: they          *)
(* disconnect, reconnect, deliver late or not at all.                      *)
(***************************************************************************)
EXTENDS Integers, Sequences, FiniteSets

CONSTANTS
    Events,        \* one per publish call
    Handlers,      \* who may subscribe
    Log,           \* the default handler, registered before the connection
    Subjects,      \* tokenized subjects that are published
    MaxLinkLosses  \* bound: how often the broker goes away

VARIABLES link, bound, handlers, publishing, wire, seen, counters, losses

busvars == <<link, bound, handlers, publishing, wire, seen, counters, losses>>

---------------------------------------------------------------------------
(* Subjects, as the tokens they split into.                                *)
SubjectRoot == <<"watertwin", "events">>
EventSubjects ==
    {SubjectRoot \o s : s \in {<<"telemetry", "ingested">>, <<"alert", "raised">>,
        <<"workorder", "created">>, <<"config", "published">>, <<"audit", "appended">>}}
ForbiddenControlVerbs ==
    {"command", "commands", "cmd", "control", "write", "writes", "set", "setpoint", "setpoints",
     "actuate", "actuation", "start", "stop", "open", "close", "override", "trip", "enable",
     "disable", "dispatch", "execute", "exec", "reset", "adjust", "move", "toggle", "switch",
     "apply", "activate", "deactivate", "shutdown", "startup", "manipulate", "force", "engage",
     "disengage", "throttle", "modulate", "operate", "steer", "drive"}
ForbiddenVerbsIn(subject) == {subject[i] : i \in DOMAIN subject} \cap ForbiddenControlVerbs
\* A subject of the namespace has something after its root.
InNamespace(subject) == Len(subject) > 2 /\ SubSeq(subject, 1, 2) = SubjectRoot
IsAdvisory(subject) == InNamespace(subject) /\ ForbiddenVerbsIn(subject) = {}
EventType(subject) == IF InNamespace(subject) THEN SubSeq(subject, 3, Len(subject)) ELSE subject

---------------------------------------------------------------------------
Names == {"published", "publish_failures", "connect_failures", "degraded_deliveries",
          "direct_deliveries", "bus_deliveries", "handler_errors"}
Inc(amounts) == counters' = [n \in Names |-> counters[n] + (IF n \in DOMAIN amounts THEN amounts[n] ELSE 0)]

Connected == link = "up"

\* _bind_transport_subscription: a refusal is logged and forgotten.
Bind == IF bound THEN UNCHANGED bound ELSE bound' \in BOOLEAN

\* connect: once, by get_bus; a failure leaves no client behind.
Connect ==
    /\ link = "unset"
    /\ \/ link' = "up" /\ Bind /\ UNCHANGED counters
       \/ link' = "absent" /\ Inc([connect_failures |-> 1]) /\ UNCHANGED bound
    /\ UNCHANGED <<handlers, publishing, wire, seen, losses>>

Subscribe(h) ==
    /\ h \notin handlers
    /\ handlers' = handlers \cup {h}
    /\ IF Connected THEN Bind ELSE UNCHANGED bound
    /\ UNCHANGED <<link, publishing, wire, seen, counters, losses>>

\* _dispatch: each handler in turn; the one that raises is counted and skipped.
Dispatch(e, way, name, amounts) ==
    \E failing \in SUBSET handlers :
        /\ seen' = [seen EXCEPT ![e] = [h \in Handlers |->
                      IF h \in handlers \ failing THEN Append(@[h], way) ELSE @[h]]]
        /\ Inc([n \in DOMAIN amounts \cup {name, "handler_errors"} |->
                  IF n = name THEN Cardinality(handlers \ failing)
                  ELSE IF n = "handler_errors" THEN Cardinality(failing) ELSE amounts[n]])

Degrade(e, amounts) ==
    /\ publishing' = [publishing EXCEPT ![e] = "direct"]
    /\ Dispatch(e, "direct", "direct_deliveries", amounts)

\* publish: the guard, then the transport if it is connected now.
Refuse(e) ==
    /\ publishing[e] = "no" /\ \E s \in Subjects : ~IsAdvisory(s)
    /\ publishing' = [publishing EXCEPT ![e] = "refused"]
    /\ UNCHANGED <<link, bound, handlers, wire, seen, counters, losses>>
Publish(e) ==
    /\ link # "unset" /\ publishing[e] = "no" /\ \E s \in Subjects : IsAdvisory(s)
    /\ IF Connected
       THEN /\ publishing' = [publishing EXCEPT ![e] = "sending"]
            /\ wire' = [wire EXCEPT ![e] = "scheduled"]
            /\ UNCHANGED <<seen, counters>>
       ELSE /\ Degrade(e, [degraded_deliveries |-> 1])
            /\ UNCHANGED wire
    /\ UNCHANGED <<link, bound, handlers, losses>>

\* The coroutine, on the loop: the client takes the message, which it may also
\* do while it reconnects, or it raises.
Send(e) ==
    /\ wire[e] = "scheduled"
    /\ \E outcome \in {"sent", "raised"} : wire' = [wire EXCEPT ![e] = outcome]
    /\ UNCHANGED <<link, bound, handlers, publishing, seen, counters, losses>>

\* The wait of publish: for the answer, or for connect_timeout; a coroutine
\* that was given up on is not cancelled.
Published(e) ==
    /\ publishing[e] = "sending" /\ wire[e] \in {"sent", "delivered", "lost"}
    /\ publishing' = [publishing EXCEPT ![e] = "published"]
    /\ Inc([published |-> 1])
    /\ UNCHANGED <<link, bound, handlers, wire, seen, losses>>
\* Seeded fault: a wait that was given up counts as a publish.
GiveUpCounted(e) ==
    /\ publishing[e] = "sending"
    /\ Degrade(e, [publish_failures |-> 1, published |-> 1])
    /\ UNCHANGED <<link, bound, handlers, wire, losses>>
GiveUp(e) ==
    /\ publishing[e] = "sending"
    /\ Degrade(e, [publish_failures |-> 1, degraded_deliveries |-> 1])
    /\ UNCHANGED <<link, bound, handlers, wire, losses>>

\* _on_wire, called by the transport for a subject that is bound.
Deliver(e) ==
    /\ Connected /\ bound /\ wire[e] = "sent"
    /\ wire' = [wire EXCEPT ![e] = "delivered"]
    /\ Dispatch(e, "wire", "bus_deliveries", <<>>)
    /\ UNCHANGED <<link, bound, handlers, publishing, losses>>

\* The broker and its client: at most once, and reconnection without end.
Lose(e) ==
    /\ wire[e] = "sent"
    /\ wire' = [wire EXCEPT ![e] = "lost"]
    /\ UNCHANGED <<link, bound, handlers, publishing, seen, counters, losses>>
LinkDown ==
    /\ Connected /\ losses < MaxLinkLosses
    /\ link' = "down" /\ losses' = losses + 1
    /\ UNCHANGED <<bound, handlers, publishing, wire, seen, counters>>
LinkUp ==
    /\ link = "down" /\ link' = "up"
    /\ UNCHANGED <<bound, handlers, publishing, wire, seen, counters, losses>>

BusInit ==
    /\ link = "unset" /\ bound = FALSE /\ handlers = {Log}
    /\ publishing = [e \in Events |-> "no"]
    /\ wire = [e \in Events |-> "none"]
    /\ seen = [e \in Events |-> [h \in Handlers |-> <<>>]]
    /\ counters = [n \in Names |-> 0]
    /\ losses = 0
BusNext ==
    \/ Connect \/ LinkDown \/ LinkUp
    \/ \E h \in Handlers : Subscribe(h)
    \/ \E e \in Events : Refuse(e) \/ Publish(e) \/ Send(e) \/ Published(e) \/ GiveUp(e)
                         \/ Deliver(e) \/ Lose(e)

BusTypeOK ==
    /\ link \in {"unset", "absent", "up", "down"} /\ bound \in BOOLEAN
    /\ Log \in handlers /\ handlers \subseteq Handlers
    /\ \A e \in Events :
           /\ publishing[e] \in {"no", "refused", "sending", "published", "direct"}
           /\ wire[e] \in {"none", "scheduled", "raised", "sent", "delivered", "lost"}
    /\ \A n \in Names : counters[n] \in Nat

---------------------------------------------------------------------------
(* A publish that returned either counted the event as published, and then *)
(* the broker had it, or handed it to the handlers itself; a handler sees  *)
(* an event twice only when the wait for the broker was given up and the   *)
(* message arrived all the same, never twice by the same way; and the      *)
(* counters in /health tell the two apart (bus.py:155-207).                *)
Ended(way) == {e \in Events : publishing[e] = way}
Times(way) == Cardinality({p \in Events \X Handlers :
                             \E i \in DOMAIN seen[p[1]][p[2]] : seen[p[1]][p[2]][i] = way})
BusAccounts ==
    /\ \A e \in Ended("published") : wire[e] \in {"sent", "delivered", "lost"}
    /\ \A e \in Events, h \in Handlers :
           /\ Len(seen[e][h]) <= 2
           /\ Len(seen[e][h]) = 2 => /\ publishing[e] = "direct" /\ wire[e] = "delivered"
                                     /\ seen[e][h][1] # seen[e][h][2]
           /\ seen[e][h] # <<>> => publishing[e] # "refused"
    /\ counters.published = Cardinality(Ended("published"))
    /\ counters.degraded_deliveries = Cardinality(Ended("direct"))
    /\ counters.direct_deliveries = Times("direct")
    /\ counters.bus_deliveries = Times("wire")
    /\ counters.publish_failures <= counters.degraded_deliveries

\* No caller is inside publish (transport.py:187-195).
PublishesOver == \A e \in Events : publishing[e] # "sending"
=============================================================================
