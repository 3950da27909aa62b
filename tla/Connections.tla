---------------------------- MODULE Connections ----------------------------
(***************************************************************************)
(* The websocket connections of one user and the delivery of intents to    *)
(* them: the route registry in Redis, the sessions of each realtime node,  *)
(* the pub/sub channel of a node and its one receiver, the write loop of a *)
(* session, reconnection, drain and loss of a node.                        *)
(*                                                                         *)
(* A Redis script or command is one step; so is a section under a mutex.   *)
(* An incarnation is one accepted connection (a generation); a device has  *)
(* several of them over time, and at times several at once.                *)
(*                                                                         *)
(* A message comes with a notification for users without a connection;     *)
(* edits, hints, presence and typing come without one, typing not for the  *)
(* device it is from.  Nobody pushes to a bot: to a bot, every intent is   *)
(* one without a notification.                                             *)
(***************************************************************************)
EXTENDS Naturals, Sequences, FiniteSets

CONSTANTS DeviceIds,       \* the devices of the user
          Nodes,           \* the instances of realtime-service
          Incarnations,    \* bound: connections in a behaviour
          Intents,         \* bound: intents delivered in a behaviour
          SessionLimit,    \* MaxConn of a node
          MaxWireFaults    \* bound: failed or ambiguous Redis calls, lost packets,
                           \* routes that expire early, nodes that stop or die,
                           \* deliveries that run again

ASSUME ConnectionsAssumption ==
    /\ IsFiniteSet(DeviceIds) /\ IsFiniteSet(Nodes) /\ DeviceIds # {} /\ Nodes # {}
    /\ Incarnations \in Nat /\ Intents \in Nat
    /\ SessionLimit \in Nat /\ MaxWireFaults \in Nat

VARIABLES conns,      \* the handler of each incarnation, with its session
          route,      \* the registered incarnation of each device; 0 is none
          node,       \* the processes
          channel,    \* what is published to a node and not yet received
          receiver,   \* the goroutine of a node that receives
          intent,     \* the delivery of each intent
          journal,    \* history: the incarnations in the order they registered
          excused,    \* history: incarnations whose delivery or route a fault of
                      \* Redis, or their TTL, ended
          wireFaults  \* what is left of the bound

wireVars == <<conns, route, node, channel, receiver, intent, journal, excused, wireFaults>>

-----------------------------------------------------------------------------
(* Values *)

Generations == 1 .. Incarnations
IntentIds == 1 .. Intents

(* pc is where accept stands; writer where WriteLoop stands.  open: Done is *)
(* not closed.  listed: the manager of the node has the session.  write is  *)
(* the write of the receiver; previous the route that Register displaced.   *)
HandlerPcs == {"free", "admitted", "session", "publish", "check", "serving",
               "leaving", "removing", "gone"}
Handlers == [pc: HandlerPcs, device: DeviceIds, node: Nodes, open: BOOLEAN,
             listed: BOOLEAN, writer: {"none", "loop", "leaving", "removing"},
             write: {"none", "queued", "done", "failed"},
             previous: 0 .. Incarnations]

NodeStates == [phase: {"up", "stopping", "draining", "down"},
               drain: SUBSET Generations]

Packets == [close: BOOLEAN, to: Generations, intent: 0 .. Intents]
Receivers == [pc: {"idle", "list", "write", "wait", "fail"},
              to: 0 .. Incarnations, intent: 0 .. Intents]
Receiving == [pc |-> "idle", to |-> 0, intent |-> 0]

(* notifies: Intent.Notification; skips: Intent.ExcludeDeviceID.  left: the *)
(* routes listed and not yet published to.  targets: those of the current   *)
(* or last listing.  lost: whose packet was lost under way, or ended with   *)
(* its node.                                                                *)
Deliveries == [notifies: BOOLEAN, skips: SUBSET DeviceIds,
               pc: {"new", "sending", "done"}, left: SUBSET Generations,
               targets: SUBSET Generations, got: SUBSET Generations,
               pushed: BOOLEAN, lost: SUBSET Generations]

-----------------------------------------------------------------------------
(* What the code reads and writes *)

Ready(n) == node[n].phase = "up"
Subscribed(n) == node[n].phase # "down"

SessionsOf(n) == {c \in Generations : conns[c].listed /\ conns[c].node = n}
Handling(n) == {c \in Generations : conns[c].pc \notin {"free", "gone"} /\ conns[c].node = n}

Owns(c) == route[conns[c].device] = c
Listed == {route[d] : d \in DeviceIds} \ {0}

(* removeScript, after which the device has no route. *)
RemovedAnyRoute(c) == [route EXCEPT ![conns[c].device] = 0]
Removed(c) == IF Owns(c) THEN [route EXCEPT ![conns[c].device] = 0] ELSE route

Closed(h) == [h EXCEPT !.open = FALSE]
(* Manager.Remove *)
Dropped(h) == [h EXCEPT !.open = FALSE, !.listed = FALSE]

PublishPacket(n, packet) ==
    channel' = IF Subscribed(n) THEN [channel EXCEPT ![n] = Append(@, packet)] ELSE channel

WireFault == wireFaults > 0 /\ wireFaults' = wireFaults - 1

-----------------------------------------------------------------------------
(* The handler of a connection: accept *)

(* BeginConnection.  Incarnations are numbered in the order of admission. *)
Admit(c, d, n) ==
    /\ conns[c].pc = "free" /\ Ready(n)
    /\ \A b \in 1 .. c - 1 : conns[b].pc # "free"
    /\ conns' = [conns EXCEPT ![c].pc = "admitted", ![c].device = d, ![c].node = n]
    /\ UNCHANGED <<route, node, channel, receiver, intent, journal, excused, wireFaults>>

(* Upgrade and Manager.Register; the write loop starts. *)
OpenSession(c) ==
    /\ conns[c].pc = "admitted"
    /\ conns' = [conns EXCEPT ![c] =
           IF Cardinality(SessionsOf(@.node)) >= SessionLimit
           THEN [@ EXCEPT !.pc = "gone"]
           ELSE [@ EXCEPT !.pc = "session", !.open = TRUE, !.listed = TRUE,
                          !.writer = "loop"]]
    /\ UNCHANGED <<route, node, channel, receiver, intent, journal, excused, wireFaults>>

CheckBeforeRegister(c) ==
    /\ conns[c].pc = "session"
    /\ conns' = [conns EXCEPT ![c] =
           IF Ready(@.node) THEN [@ EXCEPT !.pc = "publish"]
           ELSE [Dropped(@) EXCEPT !.pc = "gone"]]
    /\ UNCHANGED <<route, node, channel, receiver, intent, journal, excused, wireFaults>>

(* registerScript *)
Register(c) ==
    /\ conns[c].pc = "publish"
    /\ conns' = [conns EXCEPT ![c].pc = "check", ![c].previous = route[conns[c].device]]
    /\ route' = [route EXCEPT ![conns[c].device] = c]
    /\ journal' = Append(journal, c)
    /\ UNCHANGED <<node, channel, receiver, intent, excused, wireFaults>>

(* Redis reports an error, whether or not the script ran. *)
RegisterFails(c) ==
    /\ conns[c].pc = "publish" /\ WireFault
    /\ conns' = [conns EXCEPT ![c] = [Dropped(@) EXCEPT !.pc = "gone"]]
    /\ \/ UNCHANGED <<route, journal>>
       \/ /\ route' = [route EXCEPT ![conns[c].device] = c]
          /\ journal' = Append(journal, c)
    /\ UNCHANGED <<node, channel, receiver, intent, excused>>

(* The second look at the readiness, and Replace. *)
Serve(c) ==
    /\ conns[c].pc = "check"
    /\ IF Ready(conns[c].node)
       THEN /\ conns' = [conns EXCEPT ![c].pc = "serving", ![c].previous = 0]
            /\ LET old == conns[c].previous
               IN IF old = 0 THEN UNCHANGED channel
                  ELSE PublishPacket(conns[old].node, [close |-> TRUE, to |-> old, intent |-> 0])
       ELSE /\ conns' = [conns EXCEPT ![c].pc = "leaving", ![c].previous = 0]
            /\ UNCHANGED channel
    /\ UNCHANGED <<route, node, receiver, intent, journal, excused, wireFaults>>

(* A ping or a message of a client whose route is another's: Refresh fails. *)
(* A client that is silent instead runs into the read deadline.             *)
RefreshAlways(c) == FALSE
RefreshRefused(c) == ~Owns(c)
Refuse(c) ==
    /\ conns[c].pc = "serving" /\ conns[c].open /\ RefreshRefused(c)
    /\ conns' = [conns EXCEPT ![c].pc = "leaving"]
    /\ UNCHANGED <<route, node, channel, receiver, intent, journal, excused, wireFaults>>

(* The client hangs up, is silent too long, or its session is revoked. *)
HangUp(c) ==
    /\ conns[c].pc = "serving" /\ conns[c].open
    /\ conns' = [conns EXCEPT ![c].pc = "leaving"]
    /\ UNCHANGED <<route, node, channel, receiver, intent, journal, excused, wireFaults>>

(* The session was closed, so the read fails. *)
ReadFails(c) ==
    /\ conns[c].pc = "serving" /\ ~conns[c].open
    /\ conns' = [conns EXCEPT ![c].pc = "leaving"]
    /\ UNCHANGED <<route, node, channel, receiver, intent, journal, excused, wireFaults>>

(* Disconnect of the handler: the session, then the route. *)
LeaveSession(c) ==
    /\ conns[c].pc = "leaving"
    /\ conns' = [conns EXCEPT ![c] = [Dropped(@) EXCEPT !.pc = "removing"]]
    /\ UNCHANGED <<route, node, channel, receiver, intent, journal, excused, wireFaults>>

LeaveRegistry(c) ==
    /\ conns[c].pc = "removing"
    /\ conns' = [conns EXCEPT ![c].pc = "gone"]
    /\ \/ route' = Removed(c) /\ UNCHANGED wireFaults
       \/ WireFault /\ UNCHANGED route
    /\ UNCHANGED <<node, channel, receiver, intent, journal, excused>>

-----------------------------------------------------------------------------
(* The write loop of a session.  When the session is closed the loop ends,  *)
(* at once or after one more write that fails; an ended loop stays "loop".  *)

Write(c) ==
    /\ conns[c].writer = "loop" /\ conns[c].write = "queued" /\ conns[c].open
    /\ conns' = [conns EXCEPT ![c].write = "done"]
    /\ intent' = [intent EXCEPT ![receiver[conns[c].node].intent].got = @ \cup {c}]
    /\ UNCHANGED <<route, node, channel, receiver, journal, excused, wireFaults>>

(* A broken socket, a client that does not read, or a session just closed. *)
WriteFails(c) ==
    /\ conns[c].writer = "loop" /\ conns[c].write = "queued"
    /\ conns' = [conns EXCEPT ![c].write = "failed", ![c].writer = "leaving"]
    /\ UNCHANGED <<route, node, channel, receiver, intent, journal, excused, wireFaults>>

(* onError: Disconnect again, on the goroutine of the write loop. *)
WriterLeavesSession(c) ==
    /\ conns[c].writer = "leaving"
    /\ conns' = [conns EXCEPT ![c] = [Dropped(@) EXCEPT !.writer = "removing"]]
    /\ UNCHANGED <<route, node, channel, receiver, intent, journal, excused, wireFaults>>

WriterLeavesRegistry(c) ==
    /\ conns[c].writer = "removing"
    /\ conns' = [conns EXCEPT ![c].writer = "none"]
    /\ \/ route' = Removed(c) /\ UNCHANGED wireFaults
       \/ WireFault /\ UNCHANGED route
    /\ UNCHANGED <<node, channel, receiver, intent, journal, excused>>

-----------------------------------------------------------------------------
(* Deliver: the registry, then one publication per route *)

(* OfflinePush: only with a notification. *)
Pushed(m) == [intent EXCEPT ![m].pushed = @ \/ intent[m].notifies]

(* List.  Without a route, or without an answer, the user is pushed to. *)
ListRoutes(m) ==
    /\ intent[m].pc = "new"
    /\ \/ /\ Listed = {}
          /\ intent' = [Pushed(m) EXCEPT ![m].pc = "done"]
       \/ /\ Listed # {}
          /\ LET routes == {c \in Listed : conns[c].device \notin intent[m].skips}
             IN intent' = [intent EXCEPT ![m].pc = "sending", ![m].left = routes,
                                         ![m].targets = routes]
    /\ UNCHANGED <<conns, route, node, channel, receiver, journal, excused, wireFaults>>

ListFails(m) ==
    /\ intent[m].pc = "new" /\ WireFault
    /\ intent' = [Pushed(m) EXCEPT ![m].pc = "done"]
    /\ UNCHANGED <<conns, route, node, channel, receiver, journal, excused>>

SendTo(m, c) ==
    /\ intent[m].pc = "sending" /\ c \in intent[m].left
    /\ Subscribed(conns[c].node)
    /\ intent' = [intent EXCEPT ![m].left = @ \ {c}]
    /\ PublishPacket(conns[c].node, [close |-> FALSE, to |-> c, intent |-> m])
    /\ UNCHANGED <<conns, route, node, receiver, journal, excused, wireFaults>>

(* Nobody is subscribed; or Redis reports an error, whether or not the      *)
(* packet went out, and may refuse the removal as well: fail, in the sender.*)
SendFails(m, c) ==
    /\ intent[m].pc = "sending" /\ c \in intent[m].left
    /\ \/ /\ ~Subscribed(conns[c].node)
          /\ route' = Removed(c) /\ UNCHANGED <<channel, excused, wireFaults>>
       \/ /\ WireFault /\ excused' = excused \cup {c}
          /\ route' \in {route, Removed(c)}
          /\ \/ UNCHANGED channel
             \/ PublishPacket(conns[c].node, [close |-> FALSE, to |-> c, intent |-> m])
    /\ intent' = [Pushed(m) EXCEPT ![m].left = @ \ {c}]
    /\ UNCHANGED <<conns, node, receiver, journal>>

Handed(m) ==
    /\ intent[m].pc = "sending" /\ intent[m].left = {}
    /\ intent' = [intent EXCEPT ![m].pc = "done"]
    /\ UNCHANGED <<conns, route, node, channel, receiver, journal, excused, wireFaults>>

(* The process dies before the record is marked; Kafka hands it out again. *)
DeliverAgain(m) ==
    /\ intent[m].pc = "sending" /\ WireFault
    /\ intent' = [intent EXCEPT ![m].pc = "new", ![m].left = {}, ![m].targets = {}]
    /\ UNCHANGED <<conns, route, node, channel, receiver, journal, excused>>

-----------------------------------------------------------------------------
(* The receiver of a node *)

Step(n, pc) == receiver' = [receiver EXCEPT ![n].pc = pc]
Rest(n) == receiver' = [receiver EXCEPT ![n] = Receiving]

(* The subscriber connection of a node breaks, or its buffer is full: a      *)
(* packet that PUBLISH counted does not arrive.  Packets are received in    *)
(* order, so it makes no difference if one is lost only when it is first.   *)
LosePacket(n) ==
    /\ channel[n] # <<>> /\ WireFault
    /\ channel' = [channel EXCEPT ![n] = Tail(@)]
    /\ LET p == Head(channel[n])
       IN intent' = IF p.close THEN intent
                    ELSE [intent EXCEPT ![p.intent].lost = @ \cup {p.to}]
    /\ UNCHANGED <<conns, route, node, receiver, journal, excused>>

(* Replace arrived. *)
ReceiveClose(n) ==
    /\ receiver[n].pc = "idle" /\ channel[n] # <<>> /\ Head(channel[n]).close
    /\ channel' = [channel EXCEPT ![n] = Tail(@)]
    /\ LET c == Head(channel[n]).to
       IN conns' = IF c \in SessionsOf(n) THEN [conns EXCEPT ![c] = Closed(@)] ELSE conns
    /\ UNCHANGED <<route, node, receiver, intent, journal, excused, wireFaults>>

(* Owns *)
Receive(n) ==
    /\ receiver[n].pc = "idle" /\ channel[n] # <<>> /\ ~Head(channel[n]).close
    /\ channel' = [channel EXCEPT ![n] = Tail(@)]
    /\ LET p == Head(channel[n])
       IN receiver' = [receiver EXCEPT ![n] = [pc |-> IF Owns(p.to) THEN "write" ELSE "list",
                                               to |-> p.to, intent |-> p.intent]]
    /\ UNCHANGED <<conns, route, node, intent, journal, excused, wireFaults>>

OwnsFails(n) ==
    /\ receiver[n].pc = "idle" /\ channel[n] # <<>> /\ ~Head(channel[n]).close /\ WireFault
    /\ channel' = [channel EXCEPT ![n] = Tail(@)]
    /\ LET p == Head(channel[n])
       IN /\ receiver' = [receiver EXCEPT ![n] = [pc |-> "fail", to |-> p.to, intent |-> p.intent]]
          /\ excused' = excused \cup {p.to}
    /\ UNCHANGED <<conns, route, node, intent, journal>>

NeverOurs(c) == TRUE
(* A newer incarnation of the device is registered: it syncs by itself. *)
Superseded(c) == route[conns[c].device] # 0
Reconsider(n) ==
    /\ receiver[n].pc = "list"
    /\ \/ Superseded(receiver[n].to) /\ Rest(n) /\ UNCHANGED wireFaults
       \/ ~Superseded(receiver[n].to) /\ Step(n, "fail") /\ UNCHANGED wireFaults
       \/ WireFault /\ Step(n, "fail")
    /\ UNCHANGED <<conns, route, node, channel, intent, journal, excused>>

(* Get and the first half of WriteMessage. *)
Enqueue(n) ==
    /\ receiver[n].pc = "write"
    /\ LET c == receiver[n].to
       IN \/ /\ c \in SessionsOf(n)
             /\ conns' = [conns EXCEPT ![c].write = "queued"]
             /\ Step(n, "wait")
          \/ /\ c \notin SessionsOf(n) \/ ~conns[c].open
             /\ Step(n, "fail") /\ UNCHANGED conns
    /\ UNCHANGED <<route, node, channel, intent, journal, excused, wireFaults>>

(* The second half: the result, or Done. *)
Written(n) ==
    /\ receiver[n].pc = "wait"
    /\ LET c == receiver[n].to
       IN /\ conns[c].write = "done"
          /\ conns' = [conns EXCEPT ![c].write = "none"]
    /\ Rest(n)
    /\ UNCHANGED <<route, node, channel, intent, journal, excused, wireFaults>>

NotWritten(n) ==
    /\ receiver[n].pc = "wait"
    /\ LET c == receiver[n].to
       IN /\ conns[c].write = "failed" \/ ~conns[c].open
          /\ conns' = [conns EXCEPT ![c] = [Closed(@) EXCEPT !.write = "none"]]
    /\ Step(n, "fail")
    /\ UNCHANGED <<route, node, channel, intent, journal, excused, wireFaults>>

(* fail *)
Fail(n) ==
    /\ receiver[n].pc = "fail"
    /\ \/ route' = Removed(receiver[n].to) /\ UNCHANGED <<excused, wireFaults>>
       \/ WireFault /\ excused' = excused \cup {receiver[n].to} /\ UNCHANGED route
    /\ intent' = Pushed(receiver[n].intent)
    /\ Rest(n)
    /\ UNCHANGED <<conns, node, channel, journal>>

-----------------------------------------------------------------------------
(* Processes *)

StopAccepting(n) ==
    /\ node[n].phase = "up" /\ WireFault
    /\ node' = [node EXCEPT ![n].phase = "stopping"]
    /\ UNCHANGED <<conns, route, channel, receiver, intent, journal, excused>>

(* Drain: Snapshot, then Restart of one session after the other. *)
Drain(n) ==
    /\ node[n].phase = "stopping"
    /\ node' = [node EXCEPT ![n].phase = "draining", ![n].drain = SessionsOf(n)]
    /\ UNCHANGED <<conns, route, channel, receiver, intent, journal, excused, wireFaults>>

RestartSession(n, c) ==
    /\ node[n].phase = "draining" /\ c \in node[n].drain
    /\ node' = [node EXCEPT ![n].drain = @ \ {c}]
    /\ conns' = [conns EXCEPT ![c] = Closed(@)]
    /\ UNCHANGED <<route, channel, receiver, intent, journal, excused, wireFaults>>

(* Whose packets of an intent a node holds, which its end takes with it. *)
Takes(n, m) == {c \in Generations :
    \/ \E i \in DOMAIN channel[n] : channel[n][i].to = c /\ channel[n][i].intent = m
    \/ receiver[n].to = c /\ receiver[n].intent = m}
EndOf(n) ==
    /\ node' = [node EXCEPT ![n] = [phase |-> "down", drain |-> {}]]
    /\ conns' = [c \in Generations |->
           IF c \in Handling(n) \/ (conns[c].node = n /\ conns[c].writer # "none")
           THEN [Dropped(conns[c]) EXCEPT !.pc = "gone", !.writer = "none", !.write = "none"]
           ELSE conns[c]]
    /\ channel' = [channel EXCEPT ![n] = <<>>]
    /\ receiver' = [receiver EXCEPT ![n] = Receiving]
    /\ intent' = [m \in IntentIds |-> [intent[m] EXCEPT !.lost = @ \cup Takes(n, m)]]

(* WaitConnections returned and the subscription is closed. *)
Shutdown(n) ==
    /\ node[n].phase = "draining" /\ node[n].drain = {} /\ Handling(n) = {}
    /\ EndOf(n)
    /\ UNCHANGED <<route, journal, excused, wireFaults>>

(* The process dies, or the deadline of its shutdown passes. *)
Die(n) ==
    /\ node[n].phase # "down" /\ WireFault
    /\ EndOf(n)
    /\ UNCHANGED <<route, journal, excused>>

Start(n) ==
    /\ node[n].phase = "down"
    /\ node' = [node EXCEPT ![n].phase = "up"]
    /\ UNCHANGED <<conns, route, channel, receiver, intent, journal, excused, wireFaults>>

(* The TTL of a route passes: its connection is over, or was slow to ping. *)
RouteExpires(d) ==
    /\ route[d] # 0
    /\ IF conns[route[d]].pc = "gone" THEN UNCHANGED <<wireFaults, excused>>
       ELSE WireFault /\ excused' = excused \cup {route[d]}
    /\ route' = [route EXCEPT ![d] = 0]
    /\ UNCHANGED <<conns, node, channel, receiver, intent, journal>>

-----------------------------------------------------------------------------
(* The specification *)

FreeHandler == [pc |-> "free", device |-> CHOOSE d \in DeviceIds : TRUE,
                node |-> CHOOSE n \in Nodes : TRUE, open |-> FALSE, listed |-> FALSE,
                writer |-> "none", write |-> "none", previous |-> 0]
NewIntent(notifies, skips) ==
    [notifies |-> notifies, skips |-> skips, pc |-> "new", left |-> {}, targets |-> {},
     got |-> {}, pushed |-> FALSE, lost |-> {}]
(* A message, another intent, a frame that its own device need not see. *)
NewIntents == {NewIntent(TRUE, {}), NewIntent(FALSE, {})} \cup
              {NewIntent(FALSE, {d}) : d \in DeviceIds}

WireInit ==
    /\ conns = [c \in Generations |-> FreeHandler]
    /\ route = [d \in DeviceIds |-> 0]
    /\ node = [n \in Nodes |-> [phase |-> "up", drain |-> {}]]
    /\ channel = [n \in Nodes |-> <<>>]
    /\ receiver = [n \in Nodes |-> Receiving]
    /\ intent \in [IntentIds -> NewIntents]
    /\ journal = <<>>
    /\ excused = {}
    /\ wireFaults = MaxWireFaults

Handler(c) ==
    \/ OpenSession(c) \/ CheckBeforeRegister(c) \/ Register(c) \/ Serve(c)
    \/ Refuse(c) \/ ReadFails(c) \/ LeaveSession(c) \/ LeaveRegistry(c)
Writer(c) == Write(c) \/ WriteFails(c) \/ WriterLeavesSession(c)
             \/ WriterLeavesRegistry(c)
Delivering(m) == ListRoutes(m) \/ Handed(m)
                 \/ \E c \in Generations : SendTo(m, c) \/ SendFails(m, c)
Receiver(n) == ReceiveClose(n) \/ Receive(n) \/ Reconsider(n) \/ Enqueue(n)
                 \/ Written(n) \/ NotWritten(n) \/ Fail(n)

WireNext ==
    \/ \E c \in Generations : Handler(c) \/ Writer(c) \/ RegisterFails(c) \/ HangUp(c)
    \/ \E c \in Generations, d \in DeviceIds, n \in Nodes : Admit(c, d, n)
    \/ \E m \in IntentIds : Delivering(m) \/ ListFails(m) \/ DeliverAgain(m)
    \/ \E n \in Nodes : Receiver(n) \/ OwnsFails(n) \/ LosePacket(n)
    \/ \E n \in Nodes : StopAccepting(n) \/ Drain(n) \/ Shutdown(n) \/ Die(n) \/ Start(n)
    \/ \E n \in Nodes, c \in Generations : RestartSession(n, c)
    \/ \E d \in DeviceIds : RouteExpires(d)

(* Goroutines run, and a client either pings or is silent past the deadline. *)
WireFairness == \A c \in Generations : WF_wireVars(Handler(c))

WireSpec == WireInit /\ [][WireNext]_wireVars /\ WireFairness

-----------------------------------------------------------------------------
(* Properties *)

WireTypeOK ==
    /\ conns \in [Generations -> Handlers]
    /\ route \in [DeviceIds -> 0 .. Incarnations]
    /\ node \in [Nodes -> NodeStates]
    /\ \A n \in Nodes : \A i \in DOMAIN channel[n] : channel[n][i] \in Packets
    /\ receiver \in [Nodes -> Receivers]
    /\ intent \in [IntentIds -> Deliveries]
    /\ excused \subseteq Generations
    /\ wireFaults \in 0 .. MaxWireFaults

(* c was registered and nobody registered after it for its device. *)
RegisteredAfter(c) ==
    {journal[j] : j \in {k \in DOMAIN journal :
                            \E i \in DOMAIN journal : journal[i] = c /\ i < k}}
Latest(c) == /\ \E i \in DOMAIN journal : journal[i] = c
             /\ \A x \in RegisteredAfter(c) : conns[x].device # conns[c].device

(* A device that reconnects stays reachable: as long as a connection is     *)
(* served, nothing but a newer registration of the device, or a fault of    *)
(* its own (its TTL passed, Redis failed a delivery to it), takes its       *)
(* route -- whatever the handlers, the write loops and the receivers of     *)
(* earlier incarnations still do.                                           *)
NewestReachable ==
    \A c \in Generations :
        conns[c].pc = "serving" /\ conns[c].open /\ Latest(c) /\ c \notin excused => Owns(c)

(* The delivery was given up: the user was pushed to, if the intent has a   *)
(* notification, and the connection lost its route, so that it will end and *)
(* its device sync -- unless Redis failed.                                  *)
GivenUp(c, m) ==
    /\ intent[m].notifies => intent[m].pushed
    /\ ~Owns(c) \/ c \in excused

(* An intent that a connection does not get is never just dropped by the    *)
(* code: once its delivery is over and no node holds its packet, each       *)
(* connection that was to get it got it, or its packet was lost by pub/sub  *)
(* or with its node, or its device registered again, or it was given up.    *)
(* Neither an excluded device nor a user without a notification is promised *)
(* more (Deliver, receive, fail).                                           *)
DeliveredOrPushed ==
    \A m \in IntentIds : intent[m].pc = "done" =>
        \A c \in intent[m].targets : (\A n \in Nodes : c \notin Takes(n, m)) =>
            \/ c \in intent[m].got \/ c \in intent[m].lost
            \/ ~Latest(c) \/ GivenUp(c, m)

(* A connection that lost its registration is not served for ever, also if  *)
(* the order to close it was never received: whenever there is one, there   *)
(* will be none (Refresh, accept).                                          *)
LostRegistrationEnds ==
    []<>(\A c \in Generations : conns[c].pc = "serving" => Owns(c))

=============================================================================
