-------------------------- MODULE Connections_proofs --------------------------
(***************************************************************************)
(* What holds of the connections of a user for any number of devices,      *)
(* nodes, connections, intents and faults.                                 *)
(***************************************************************************)
EXTENDS Connections, TLAPS

(* Types                                                                   *)

Typed ==
    /\ conns \in [Generations -> Handlers]
    /\ route \in [DeviceIds -> 0 .. Incarnations]
    /\ node \in [Nodes -> NodeStates]
    /\ channel \in [Nodes -> Seq(Packets)]
    /\ receiver \in [Nodes -> Receivers]
    /\ intent \in [IntentIds -> Deliveries]
    /\ journal \in Seq(Generations)
    /\ excused \subseteq Generations
    /\ wireFaults \in 0 .. MaxWireFaults

-----------------------------------------------------------------------------
(* Why the newest connection keeps its route, and the code drops no intent *)

(* The connections that were registered.  Each registers once. *)
Journaled == {journal[i] : i \in DOMAIN journal}

(* A session that was closed is never opened again, and a connection is    *)
(* registered after its session was opened. *)
HandlerInv(c, h) ==
    /\ h.open => h.listed
    /\ h.pc \in {"free", "admitted", "removing", "gone"} => ~h.open
    /\ h.pc \in {"free", "admitted"} => h.write = "none"
    /\ c \in Journaled => h.pc \notin {"free", "admitted", "session", "publish"}
    /\ h.writer = "removing" => ~h.open
    /\ h.previous # 0 => h.previous \in Journaled
HandlersInv == \A c \in Generations : HandlerInv(c, conns[c])

(* A route is that of the newest connection of its device. *)
RoutesInv == \A d \in DeviceIds : \A c \in Generations : route[d] = c =>
    c \in Journaled /\ conns[c].device = d /\ Latest(c)

(* It stays so while its session is open, except for faults of its own. *)
ReachInv == \A c \in Generations :
    conns[c].open /\ Latest(c) /\ c \notin excused => Owns(c)

(* A node that is down has no connection.  What a node receives is for its *)
(* own connections, and it gives one up only when that lost its route or   *)
(* its session, or by a fault.                                             *)
Addressed(n, c, m) == c \in Journaled /\ conns[c].node = n /\ m \in IntentIds
PacketInv(n, p) == ~p.close => Addressed(n, p.to, p.intent)
ReceiverInv(n, r) ==
    /\ r.pc = "idle" => r = Receiving
    /\ r.pc # "idle" => Addressed(n, r.to, r.intent)
    /\ r.pc = "list" => ~Owns(r.to)
    /\ r.pc = "fail" => r.to \in excused \/ ~Owns(r.to) \/ ~conns[r.to].open
NodesInv == \A n \in Nodes :
    /\ node[n].phase = "down" =>
          \A c \in Generations : conns[c].node = n => conns[c].pc \in {"free", "gone"}
    /\ \A i \in DOMAIN channel[n] : PacketInv(n, channel[n][i])
    /\ ReceiverInv(n, receiver[n])

(* A write that is done was that of the packet which the receiver holds. *)
WritesInv == \A c \in Generations :
    LET r == receiver[conns[c].node]
    IN /\ conns[c].write = "done" => conns[c].writer = "loop" /\ c \in intent[r.intent].got
       /\ conns[c].writer = "loop" /\ conns[c].write \in {"queued", "done"} =>
             r.pc = "wait" /\ r.to = c

(* Each route that was listed is still to be sent to, or its packet is on  *)
(* its way, or what the intent promises of it holds.                       *)
OnItsWay(c, m) == \E n \in Nodes :
    \/ \E i \in DOMAIN channel[n] :
          channel[n][i].to = c /\ channel[n][i].intent = m /\ ~channel[n][i].close
    \/ receiver[n].pc # "idle" /\ receiver[n].to = c /\ receiver[n].intent = m
Settled(c, m) ==
    c \in intent[m].got \/ c \in intent[m].lost \/ ~Latest(c) \/ GivenUp(c, m)
IntentsInv == \A m \in IntentIds :
    /\ intent[m].left \subseteq Journaled /\ intent[m].targets \subseteq Journaled
    /\ intent[m].pc # "sending" => intent[m].left = {}
    /\ intent[m].pc = "new" => intent[m].targets = {}
    /\ intent[m].pc # "new" =>
          \A c \in intent[m].targets : c \in intent[m].left \/ Settled(c, m) \/ OnItsWay(c, m)

WireInv == HandlersInv /\ RoutesInv /\ ReachInv /\ NodesInv /\ WritesInv /\ IntentsInv

-----------------------------------------------------------------------------
(* The journal                                                             *)

LEMMA Numbers ==
  /\ Incarnations \in Nat /\ Intents \in Nat /\ 0 \notin Generations
  /\ \A c \in Generations : c \in Nat /\ c # 0 /\ c \in 0 .. Incarnations
  /\ \A m \in IntentIds : m \in Nat /\ m # 0 /\ m \in 0 .. Intents
  /\ \A c \in 0 .. Incarnations : c # 0 => c \in Generations
  BY ConnectionsAssumption DEF Generations, IntentIds

LEMMA JournaledTyped == Typed => Journaled \subseteq Generations
  BY DEF Typed, Journaled

LEMMA TypedIsTyped == Typed => WireTypeOK
<1> SUFFICES ASSUME Typed PROVE WireTypeOK
  OBVIOUS
<1>1. \A n \in Nodes : \A i \in DOMAIN channel[n] : channel[n][i] \in Packets
  BY DEF Typed
<1> QED
  BY <1>1 DEF Typed, WireTypeOK

(* What is true of the journal as long as nothing is registered. *)
SameLinks ==
    /\ journal' = journal
    /\ \A c \in Generations : conns[c].pc # "free" =>
          conns'[c].device = conns[c].device /\ conns'[c].node = conns[c].node

LEMMA LinksStay ==
  ASSUME Typed, HandlersInv, SameLinks
  PROVE  /\ Journaled' = Journaled
         /\ \A c \in Journaled : /\ c \in Generations /\ conns'[c].device = conns[c].device
                                 /\ conns'[c].node = conns[c].node
         /\ \A c \in Generations : Latest(c)' <=> Latest(c)
         /\ \A c \in Generations : Latest(c) => c \in Journaled
<1>1. Journaled' = Journaled
  BY DEF SameLinks, Journaled
<1>2. \A c \in Journaled : /\ c \in Generations /\ conns'[c].device = conns[c].device
                           /\ conns'[c].node = conns[c].node
  BY JournaledTyped DEF HandlersInv, HandlerInv, SameLinks
<1>3. ASSUME NEW c \in Generations
      PROVE  /\ Latest(c)' <=> Latest(c)
             /\ Latest(c) => c \in Journaled
  <2>1. RegisteredAfter(c)' = RegisteredAfter(c) /\ RegisteredAfter(c) \subseteq Journaled
    BY DEF SameLinks, RegisteredAfter, Journaled
  <2>2. (\E i \in DOMAIN journal : journal[i] = c) <=> c \in Journaled
    BY DEF Journaled
  <2>3. c \in Journaled => (Latest(c)' <=> Latest(c))
    BY <1>1, <1>2, <2>1, <2>2 DEF Latest, SameLinks
  <2>4. c \notin Journaled => ~Latest(c)' /\ ~Latest(c)
    BY <2>2 DEF Latest, SameLinks
  <2> QED
    BY <2>3, <2>4
<1> QED
  BY <1>1, <1>2, <1>3

(* There is one newest connection of a device. *)
LEMMA OneLatest ==
  ASSUME Typed, NEW x \in Journaled, NEW y \in Journaled, x # y,
         conns[x].device = conns[y].device, Latest(x)
  PROVE  ~Latest(y)
<1>1. PICK i \in DOMAIN journal : journal[i] = x
  BY DEF Journaled
<1>2. PICK j \in DOMAIN journal : journal[j] = y
  BY DEF Journaled
<1>3. i \in Nat /\ j \in Nat
  BY <1>1, <1>2 DEF Typed
<1>4. i < j \/ j < i
  BY <1>1, <1>2, <1>3
<1>5. CASE i < j
  <2>1. y \in RegisteredAfter(x)
    BY <1>1, <1>2, <1>5 DEF RegisteredAfter
  <2> QED
    BY <2>1 DEF Latest
<1>6. CASE j < i
  <2>1. x \in RegisteredAfter(y)
    BY <1>1, <1>2, <1>6 DEF RegisteredAfter
  <2> QED
    BY <2>1 DEF Latest
<1> QED
  BY <1>4, <1>5, <1>6

(* A registration makes the connection the newest of its device. *)
LEMMA JournalGrows ==
  ASSUME Typed, HandlersInv, NEW c \in Generations, c \notin Journaled,
         journal' = Append(journal, c),
         \A x \in Generations : conns'[x].device = conns[x].device
  PROVE  /\ Journaled' = Journaled \cup {c}
         /\ Latest(c)'
         /\ \A x \in Journaled : /\ x \in Generations
                                 /\ Latest(x)' <=> Latest(x) /\ conns[x].device # conns[c].device
<1>1. /\ DOMAIN journal = 1 .. Len(journal) /\ Len(journal) \in Nat
      /\ DOMAIN journal' = 1 .. Len(journal) + 1
      /\ \A i \in 1 .. Len(journal) : journal'[i] = journal[i]
      /\ journal'[Len(journal) + 1] = c
  BY DEF Typed
<1> DEFINE n == Len(journal)
<1>2. /\ n \in Nat /\ DOMAIN journal = 1 .. n /\ DOMAIN journal' = 1 .. n + 1
      /\ \A i \in 1 .. n : journal'[i] = journal[i]
      /\ journal'[n + 1] = c
      /\ 1 .. n + 1 = (1 .. n) \cup {n + 1}
  BY <1>1
<1> HIDE DEF n
<1>3. Journaled' = Journaled \cup {c}
  BY <1>2 DEF Journaled
<1>4. \A i \in 1 .. n : journal[i] # c
  BY <1>2 DEF Journaled
<1>5. RegisteredAfter(c)' = {}
  BY <1>2, <1>4 DEF RegisteredAfter
<1>6. Latest(c)'
  <2>1. n + 1 \in DOMAIN journal'
    BY <1>2
  <2> QED
    BY <1>2, <1>5, <2>1 DEF Latest
<1>7. ASSUME NEW x \in Journaled
      PROVE  /\ x \in Generations
             /\ Latest(x)' <=> Latest(x) /\ conns[x].device # conns[c].device
  <2>1. PICK i \in 1 .. n : journal[i] = x
    BY <1>2 DEF Journaled
  <2>2. x \in Generations /\ x # c
    BY <1>7, JournaledTyped
  <2>3. RegisteredAfter(x)' = RegisteredAfter(x) \cup {c}
    <3>1. RegisteredAfter(x) = {journal[k] : k \in {k \in 1 .. n : \E j \in 1 .. n : journal[j] = x /\ j < k}}
      BY <1>2 DEF RegisteredAfter
    <3>2. RegisteredAfter(x)' = {journal'[k] : k \in {k \in 1 .. n + 1 : \E j \in 1 .. n + 1 : journal'[j] = x /\ j < k}}
      BY <1>2 DEF RegisteredAfter
    <3>3. {k \in 1 .. n + 1 : \E j \in 1 .. n + 1 : journal'[j] = x /\ j < k}
            = {k \in 1 .. n : \E j \in 1 .. n : journal[j] = x /\ j < k} \cup {n + 1}
      BY <1>2, <2>1, <2>2
    <3> QED
      BY <1>2, <3>1, <3>2, <3>3
  <2>4. /\ \E j \in DOMAIN journal : journal[j] = x
        /\ \E j \in DOMAIN journal' : journal'[j] = x
    BY <1>2, <2>1
  <2>5. RegisteredAfter(x) \subseteq Generations
    BY DEF RegisteredAfter, Typed
  <2> QED
    BY <2>2, <2>3, <2>4, <2>5 DEF Latest
<1> QED
  BY <1>3, <1>6, <1>7

-----------------------------------------------------------------------------
(* What steps share                                                        *)

(* Routes are only removed. *)
RoutesRemoved == \A d \in DeviceIds : route'[d] \in {route[d], 0}

(* No session is opened that was registered, and no fault is forgotten. *)
SessionsClose ==
    /\ \A c \in Journaled : conns'[c].open => conns[c].open
    /\ excused \subseteq excused'

(* Packets stay, and none that carries an intent is added. *)
PacketsLast == \A n \in Nodes : \A i \in DOMAIN channel[n] :
    \E j \in DOMAIN channel'[n] : channel'[n][j] = channel[n][i]
PacketsStay ==
    /\ PacketsLast
    /\ \A n \in Nodes : \A j \in DOMAIN channel'[n] :
          channel'[n][j].close \/ \E i \in DOMAIN channel[n] : channel[n][i] = channel'[n][j]

(* An intent keeps its listing, and what became of it. *)
IntentsStay == \A m \in IntentIds :
    /\ intent'[m].pc = intent[m].pc /\ intent'[m].left = intent[m].left
    /\ intent'[m].targets = intent[m].targets /\ intent[m].got \subseteq intent'[m].got
    /\ intent'[m].notifies = intent[m].notifies
    /\ intent[m].pushed => intent'[m].pushed
    /\ intent[m].lost \subseteq intent'[m].lost

LEMMA RoutesKept ==
  ASSUME Typed, HandlersInv, RoutesInv, SameLinks, RoutesRemoved
  PROVE  RoutesInv'
<1> SUFFICES ASSUME NEW d \in DeviceIds, NEW c \in Generations, route'[d] = c
             PROVE  c \in Journaled' /\ conns'[c].device = d /\ Latest(c)'
  BY DEF RoutesInv
<1>1. route[d] = c
  BY Numbers DEF RoutesRemoved
<1>2. c \in Journaled /\ conns[c].device = d /\ Latest(c)
  BY <1>1 DEF RoutesInv
<1> QED
  BY <1>2, LinksStay

LEMMA ReachKept ==
  ASSUME Typed, HandlersInv, ReachInv, SameLinks, SessionsClose,
         \A c \in Journaled : Owns(c) /\ conns'[c].open /\ c \notin excused' => Owns(c)'
  PROVE  ReachInv'
<1> SUFFICES ASSUME NEW c \in Generations, conns'[c].open, Latest(c)', c \notin excused'
             PROVE  Owns(c)'
  BY DEF ReachInv
<1>1. Latest(c) /\ c \in Journaled
  BY LinksStay
<1>2. Owns(c)
  BY <1>1 DEF SessionsClose, ReachInv
<1> QED
  BY <1>1, <1>2

(* A connection that has lost its route does not get it back. *)
LEMMA OwnsLess ==
  ASSUME Typed, HandlersInv, SameLinks, RoutesRemoved, NEW c \in Journaled, Owns(c)'
  PROVE  Owns(c)
<1>1. c \in Generations /\ conns'[c].device = conns[c].device
  BY LinksStay
<1>2. conns[c].device \in DeviceIds
  BY <1>1 DEF Typed, Handlers
<1> QED
  BY <1>1, <1>2, Numbers DEF Owns, RoutesRemoved

LEMMA AddressedStays ==
  ASSUME Typed, HandlersInv, SameLinks, NEW n, NEW c, NEW m, Addressed(n, c, m)
  PROVE  Addressed(n, c, m)'
  BY LinksStay DEF Addressed

LEMMA ReceiverKept ==
  ASSUME Typed, HandlersInv, SameLinks, RoutesRemoved, SessionsClose,
         NEW n \in Nodes, NEW r, ReceiverInv(n, r)
  PROVE  ReceiverInv(n, r)'
<1>1. CASE r.pc = "idle"
  BY <1>1 DEF ReceiverInv, Receiving
<1>2. CASE r.pc # "idle"
  <2>1. Addressed(n, r.to, r.intent) /\ Addressed(n, r.to, r.intent)'
    BY <1>2, AddressedStays DEF ReceiverInv
  <2>2. PICK c \in Journaled : c = r.to
    BY <2>1 DEF Addressed
  <2>3. Owns(c)' => Owns(c)
    BY OwnsLess
  <2>4. Owns(r.to)' => Owns(r.to)
    BY <2>2, <2>3 DEF Owns
  <2> QED
    BY <1>2, <2>1, <2>2, <2>4 DEF ReceiverInv, SessionsClose
<1> QED
  BY <1>1, <1>2

(* It is enough to look at what the nodes hold. *)
LEMMA NodesFrom ==
  ASSUME \A n \in Nodes : node'[n].phase = "down" =>
            \A c \in Generations : conns'[c].node = n => conns'[c].pc \in {"free", "gone"},
         \A n \in Nodes : \A p : \A i \in DOMAIN channel'[n] :
            channel'[n][i] = p => PacketInv(n, p)',
         \A n \in Nodes : \A r : receiver'[n] = r => ReceiverInv(n, r)'
  PROVE  NodesInv'
<1>1. ASSUME NEW n \in Nodes PROVE ReceiverInv(n, receiver[n])'
  <2>1. PICK r : receiver'[n] = r
    OBVIOUS
  <2>2. ReceiverInv(n, r)'
    BY <2>1
  <2> QED
    BY <2>1, <2>2 DEF ReceiverInv, Addressed, Owns
<1>2. ASSUME NEW n \in Nodes, NEW i \in DOMAIN channel'[n] PROVE PacketInv(n, channel[n][i])'
  <2>1. PICK p : channel'[n][i] = p
    OBVIOUS
  <2>2. PacketInv(n, p)'
    BY <2>1
  <2> QED
    BY <2>1, <2>2 DEF PacketInv, Addressed
<1> QED
  BY <1>1, <1>2 DEF NodesInv

LEMMA PacketsKept ==
  ASSUME Typed, HandlersInv, NodesInv, SameLinks, PacketsStay,
         NEW n \in Nodes, NEW p, NEW i \in DOMAIN channel'[n], channel'[n][i] = p
  PROVE  PacketInv(n, p)'
<1>1. CASE p.close
  BY <1>1 DEF PacketInv
<1>2. CASE ~p.close
  <2>1. PICK k \in DOMAIN channel[n] : channel[n][k] = p
    BY <1>2 DEF PacketsStay
  <2>2. PacketInv(n, p)
    BY <2>1 DEF NodesInv
  <2> QED
    BY <1>2, <2>2, AddressedStays DEF PacketInv
<1> QED
  BY <1>1, <1>2

(* No connection arrives at a node that is down. *)
NodesStayEmpty ==
    /\ \A n \in Nodes : node'[n].phase = "down" => node[n].phase = "down"
    /\ \A c \in Generations :
          \/ conns'[c].pc \in {"free", "gone"}
          \/ conns'[c].node = conns[c].node /\ conns[c].pc \notin {"free", "gone"}
          \/ node[conns'[c].node].phase # "down"

LEMMA NodesKept ==
  ASSUME Typed, HandlersInv, NodesInv, SameLinks, RoutesRemoved, SessionsClose, PacketsStay,
         NodesStayEmpty, UNCHANGED receiver
  PROVE  NodesInv'
<1>1. ASSUME NEW n \in Nodes, node'[n].phase = "down", NEW c \in Generations, conns'[c].node = n
      PROVE  conns'[c].pc \in {"free", "gone"}
  BY <1>1 DEF NodesInv, NodesStayEmpty
<1>2. ASSUME NEW n \in Nodes, NEW p, NEW i \in DOMAIN channel'[n], channel'[n][i] = p
      PROVE  PacketInv(n, p)'
  BY <1>2, PacketsKept
<1>3. ASSUME NEW n \in Nodes, NEW r, receiver'[n] = r
      PROVE  ReceiverInv(n, r)'
  <2>1. ReceiverInv(n, r)
    BY <1>3 DEF NodesInv
  <2> QED
    BY <2>1, ReceiverKept
<1> QED
  BY <1>1, <1>2, <1>3, NodesFrom

LEMMA WritesKept ==
  ASSUME Typed, NodesInv, WritesInv, UNCHANGED receiver,
         \A c \in Generations : conns[c].pc # "free" => conns'[c].node = conns[c].node,
         \A c \in Generations : conns[c].pc = "free" => conns[c].write = "none",
         \A c \in Generations :
            /\ conns'[c].write = "done" => conns[c].write = "done" /\ conns'[c].writer = "loop"
            /\ conns'[c].writer = "loop" /\ conns'[c].write \in {"queued", "done"} =>
                  conns[c].writer = "loop" /\ conns[c].write = conns'[c].write,
         \A m \in IntentIds : intent[m].got \subseteq intent'[m].got
  PROVE  WritesInv'
<1> SUFFICES ASSUME NEW c \in Generations
             PROVE  /\ conns'[c].write = "done" =>
                         /\ conns'[c].writer = "loop"
                         /\ c \in intent'[receiver'[conns'[c].node].intent].got
                    /\ conns'[c].writer = "loop" /\ conns'[c].write \in {"queued", "done"} =>
                         /\ receiver'[conns'[c].node].pc = "wait"
                         /\ receiver'[conns'[c].node].to = c
  BY DEF WritesInv
<1> DEFINE n == conns[c].node
<1>1. n \in Nodes
  BY DEF Typed, Handlers
<1>2. CASE conns'[c].writer = "loop" /\ conns'[c].write \in {"queued", "done"}
  <2>1. /\ conns[c].writer = "loop" /\ conns[c].write = conns'[c].write
        /\ conns[c].write # "none"
    BY <1>2
  <2>2. conns'[c].node = n
    BY <2>1
  <2>3. /\ receiver[n].pc = "wait" /\ receiver[n].to = c
        /\ conns[c].write = "done" => c \in intent[receiver[n].intent].got
    BY <1>2, <2>1 DEF WritesInv
  <2>4. receiver[n].intent \in IntentIds
    BY <1>1, <2>3 DEF NodesInv, ReceiverInv, Addressed
  <2> QED
    BY <1>2, <2>1, <2>2, <2>3, <2>4
<1>3. CASE ~(conns'[c].writer = "loop" /\ conns'[c].write \in {"queued", "done"})
  BY <1>3
<1> QED
  BY <1>2, <1>3

(* What is on its way stays so, where receivers keep what they hold. *)
LEMMA OnItsWayKept ==
  ASSUME PacketsLast, NEW c, NEW m,
         \A n \in Nodes : receiver[n].pc # "idle" /\ receiver[n].to = c /\ receiver[n].intent = m =>
            receiver'[n].pc # "idle" /\ receiver'[n].to = c /\ receiver'[n].intent = m,
         OnItsWay(c, m)
  PROVE  OnItsWay(c, m)'
<1>1. PICK n \in Nodes :
        \/ \E i \in DOMAIN channel[n] :
              channel[n][i].to = c /\ channel[n][i].intent = m /\ ~channel[n][i].close
        \/ receiver[n].pc # "idle" /\ receiver[n].to = c /\ receiver[n].intent = m
  BY DEF OnItsWay
<1>2. CASE \E i \in DOMAIN channel[n] :
              channel[n][i].to = c /\ channel[n][i].intent = m /\ ~channel[n][i].close
  <2>1. \E i \in DOMAIN channel'[n] :
              channel'[n][i].to = c /\ channel'[n][i].intent = m /\ ~channel'[n][i].close
    BY <1>2 DEF PacketsLast
  <2> QED
    BY <2>1 DEF OnItsWay
<1>3. CASE receiver[n].pc # "idle" /\ receiver[n].to = c /\ receiver[n].intent = m
  BY <1>3 DEF OnItsWay
<1> QED
  BY <1>1, <1>2, <1>3

LEMMA SettledKept ==
  ASSUME Typed, HandlersInv, SameLinks, RoutesRemoved, SessionsClose, IntentsStay,
         NEW c \in Journaled, NEW m \in IntentIds, Settled(c, m)
  PROVE  Settled(c, m)'
<1>1. Latest(c)' <=> Latest(c)
  BY LinksStay
<1>2. GivenUp(c, m) => GivenUp(c, m)'
  BY OwnsLess DEF GivenUp, SessionsClose, IntentsStay
<1> QED
  BY <1>1, <1>2 DEF Settled, IntentsStay

(* It is enough to look at what may still happen. *)
LEMMA IntentsKept ==
  ASSUME Typed, HandlersInv, IntentsInv, SameLinks, RoutesRemoved, SessionsClose, IntentsStay,
         \A c \in Generations : \A m \in IntentIds : OnItsWay(c, m) => OnItsWay(c, m)' \/ Settled(c, m)'
  PROVE  IntentsInv'
<1> SUFFICES ASSUME NEW m \in IntentIds
             PROVE  /\ intent'[m].left \subseteq Journaled'
                    /\ intent'[m].targets \subseteq Journaled'
                    /\ intent'[m].pc # "sending" => intent'[m].left = {}
                    /\ intent'[m].pc = "new" => intent'[m].targets = {}
                    /\ intent'[m].pc # "new" =>
                          \A c \in intent'[m].targets :
                             c \in intent'[m].left \/ Settled(c, m)' \/ OnItsWay(c, m)'
  BY DEF IntentsInv
<1>1. /\ intent'[m].left \subseteq Journaled'
      /\ intent'[m].targets \subseteq Journaled'
      /\ intent'[m].pc # "sending" => intent'[m].left = {}
      /\ intent'[m].pc = "new" => intent'[m].targets = {}
  BY LinksStay DEF IntentsInv, IntentsStay
<1>2. ASSUME intent'[m].pc # "new", NEW c \in intent'[m].targets
      PROVE  c \in intent'[m].left \/ Settled(c, m)' \/ OnItsWay(c, m)'
  <2>1. c \in intent[m].left \/ Settled(c, m) \/ OnItsWay(c, m)
    BY <1>2 DEF IntentsInv, IntentsStay
  <2>2. c \in Journaled /\ c \in Generations
    BY <1>2, LinksStay DEF IntentsInv, IntentsStay
  <2> QED
    BY <2>1, <2>2, SettledKept DEF IntentsStay
<1> QED
  BY <1>1, <1>2

(* What a removed route leaves. *)
LEMMA RemovedFacts ==
  ASSUME Typed, NEW c \in Generations
  PROVE  /\ Removed(c) \in [DeviceIds -> 0 .. Incarnations]
         /\ \A d \in DeviceIds : Removed(c)[d] \in {route[d], 0}
         /\ \A x \in Generations : x # c /\ Owns(x) => Removed(c)[conns[x].device] = x
         /\ Removed(c)[conns[c].device] # c
<1>1. \A x \in Generations : conns[x].device \in DeviceIds
  BY DEF Typed, Handlers
<1>2. 0 \in 0 .. Incarnations
  BY Numbers
<1>3. route \in [DeviceIds -> 0 .. Incarnations]
  BY DEF Typed
<1> QED
  BY <1>1, <1>2, <1>3, Numbers DEF Removed, Owns

(* A step of a handler or of a write loop. *)
LEMMA HandlerStep ==
  ASSUME Typed, WireInv, NEW c \in Generations, NEW h \in Handlers,
         conns' = [conns EXCEPT ![c] = h], HandlerInv(c, h),
         conns[c].pc # "free" => h.device = conns[c].device /\ h.node = conns[c].node,
         h.open => conns[c].open \/ c \notin Journaled,
         \/ h.pc \in {"free", "gone"}
         \/ h.node = conns[c].node /\ conns[c].pc \notin {"free", "gone"}
         \/ node[h.node].phase # "down",
         h.write = "done" => conns[c].write = "done" /\ h.writer = "loop",
         h.writer = "loop" /\ h.write \in {"queued", "done"} =>
            conns[c].writer = "loop" /\ conns[c].write = h.write,
         channel' \in [Nodes -> Seq(Packets)], PacketsStay,
         route' = route \/ (route' = Removed(c) /\ ~h.open),
         wireFaults' \in 0 .. MaxWireFaults,
         UNCHANGED <<node, receiver, intent, journal, excused>>
  PROVE  Typed' /\ WireInv'
<1>1. /\ conns' \in [Generations -> Handlers] /\ conns'[c] = h
      /\ \A x \in Generations : x # c => conns'[x] = conns[x]
  BY DEF Typed
<1>2. /\ route' \in [DeviceIds -> 0 .. Incarnations] /\ RoutesRemoved
  BY RemovedFacts DEF Typed, RoutesRemoved
<1>3. Typed'
  BY <1>1, <1>2 DEF Typed
<1>4. SameLinks
  BY <1>1 DEF SameLinks
<1>5. Journaled' = Journaled /\ Journaled \subseteq Generations
  BY <1>4, LinksStay, JournaledTyped DEF WireInv
<1>6. HandlersInv'
  <2>1. ASSUME NEW x \in Generations PROVE HandlerInv(x, conns[x])'
    BY <1>1, <1>5 DEF WireInv, HandlersInv, HandlerInv
  <2> QED
    BY <2>1 DEF HandlersInv
<1>7. SessionsClose
  BY <1>1, <1>5 DEF SessionsClose
<1>8. RoutesInv'
  BY <1>2, <1>4, RoutesKept DEF WireInv
<1>9. ReachInv'
  <2>1. ASSUME NEW x \in Journaled, Owns(x), conns'[x].open, x \notin excused' PROVE Owns(x)'
    <3>1. conns'[x].device = conns[x].device /\ x \in Generations
      BY <1>4, LinksStay DEF WireInv
    <3>2. route' = route \/ x # c
      BY <1>1, <2>1
    <3>3. route'[conns[x].device] = x
      BY <2>1, <3>1, <3>2, RemovedFacts DEF Owns
    <3> QED
      BY <3>1, <3>3 DEF Owns
  <2> QED
    BY <1>4, <1>7, <2>1, ReachKept DEF WireInv
<1>10. NodesInv'
  <2>1. NodesStayEmpty
    BY <1>1 DEF NodesStayEmpty
  <2> QED
    BY <1>2, <1>4, <1>7, <2>1, NodesKept DEF WireInv
<1>11. WritesInv'
  <2>1. \A x \in Generations : conns[x].pc = "free" => conns[x].write = "none"
    BY DEF WireInv, HandlersInv, HandlerInv
  <2>2. \A x \in Generations :
            /\ conns'[x].write = "done" => conns[x].write = "done" /\ conns'[x].writer = "loop"
            /\ conns'[x].writer = "loop" /\ conns'[x].write \in {"queued", "done"} =>
                  conns[x].writer = "loop" /\ conns[x].write = conns'[x].write
    BY <1>1 DEF WireInv, WritesInv
  <2>3. \A x \in Generations : conns[x].pc # "free" => conns'[x].node = conns[x].node
    BY <1>1
  <2> QED
    BY <2>1, <2>2, <2>3, WritesKept DEF WireInv
<1>12. IntentsInv'
  <2>1. IntentsStay
    BY DEF IntentsStay
  <2>2. \A x \in Generations : \A m \in IntentIds : OnItsWay(x, m) => OnItsWay(x, m)'
    BY OnItsWayKept DEF PacketsStay
  <2> QED
    BY <1>2, <1>4, <1>7, <2>1, <2>2, IntentsKept DEF WireInv
<1> QED
  BY <1>3, <1>6, <1>8, <1>9, <1>10, <1>11, <1>12 DEF WireInv

-----------------------------------------------------------------------------
(* The handlers and the write loops                                        *)

LEMMA HandlerFacts ==
  ASSUME Typed, WireInv, NEW c \in Generations
  PROVE  /\ conns[c] \in Handlers /\ HandlerInv(c, conns[c])
         /\ 0 \in 0 .. Incarnations
         /\ wireFaults \in 0 .. MaxWireFaults
         /\ WireFault => wireFaults' \in 0 .. MaxWireFaults
         /\ channel \in [Nodes -> Seq(Packets)]
         /\ UNCHANGED channel => PacketsStay
<1>1. UNCHANGED channel => PacketsStay
  BY DEF PacketsStay, PacketsLast
<1>2. WireFault => wireFaults' \in 0 .. MaxWireFaults
  BY ConnectionsAssumption DEF WireFault, Typed
<1> QED
  BY <1>1, <1>2, Numbers DEF Typed, WireInv, HandlersInv

LEMMA Admitted ==
  ASSUME Typed, WireInv, NEW c \in Generations, NEW d \in DeviceIds, NEW n \in Nodes, Admit(c, d, n)
  PROVE  Typed' /\ WireInv'
<1> DEFINE h == [conns[c] EXCEPT !.pc = "admitted", !.device = d, !.node = n]
<1>1. /\ conns[c].pc = "free" /\ node[n].phase = "up"
      /\ UNCHANGED <<route, node, channel, receiver, intent, journal, excused, wireFaults>>
  BY DEF Admit, Ready
<1>2. conns' = [conns EXCEPT ![c] = h]
  BY HandlerFacts DEF Admit, Typed, Handlers
<1>3. /\ h \in Handlers /\ h.pc = "admitted" /\ h.device = d /\ h.node = n
      /\ h.open = conns[c].open /\ h.listed = conns[c].listed
      /\ h.writer = conns[c].writer /\ h.write = conns[c].write
      /\ h.previous = conns[c].previous
  BY HandlerFacts DEF Handlers, HandlerPcs
<1> HIDE DEF h
<1>4. HandlerInv(c, h) /\ ~h.open /\ h.write = "none"
  BY <1>1, <1>3, HandlerFacts DEF HandlerInv
<1> QED
  BY <1>1, <1>2, <1>3, <1>4, HandlerFacts, HandlerStep

LEMMA Opened ==
  ASSUME Typed, WireInv, NEW c \in Generations, OpenSession(c)
  PROVE  Typed' /\ WireInv'
<1>1. /\ conns[c].pc = "admitted"
      /\ UNCHANGED <<route, node, channel, receiver, intent, journal, excused, wireFaults>>
  BY DEF OpenSession
<1>2. c \notin Journaled /\ conns[c].write = "none" /\ ~conns[c].open
  BY <1>1, HandlerFacts DEF HandlerInv
<1>3. CASE conns' = [conns EXCEPT ![c] = [conns[c] EXCEPT !.pc = "gone"]]
  <2> DEFINE h == [conns[c] EXCEPT !.pc = "gone"]
  <2>1. /\ h \in Handlers /\ h.pc = "gone" /\ h.device = conns[c].device /\ h.node = conns[c].node
        /\ h.open = conns[c].open /\ h.listed = conns[c].listed
        /\ h.writer = conns[c].writer /\ h.write = conns[c].write
        /\ h.previous = conns[c].previous
    BY HandlerFacts DEF Handlers, HandlerPcs
  <2>2. conns' = [conns EXCEPT ![c] = h]
    BY <1>3
  <2> HIDE DEF h
  <2>3. HandlerInv(c, h)
    BY <1>1, <1>2, <2>1, HandlerFacts DEF HandlerInv
  <2> QED
    BY <1>1, <1>2, <2>1, <2>2, <2>3, HandlerFacts, HandlerStep
<1>4. CASE conns' = [conns EXCEPT ![c] = [conns[c] EXCEPT !.pc = "session", !.open = TRUE,
                                             !.listed = TRUE, !.writer = "loop"]]
  <2> DEFINE h == [conns[c] EXCEPT !.pc = "session", !.open = TRUE, !.listed = TRUE,
                                   !.writer = "loop"]
  <2>1. /\ h \in Handlers /\ h.pc = "session" /\ h.device = conns[c].device
        /\ h.node = conns[c].node /\ h.open /\ h.listed
        /\ h.writer = "loop" /\ h.write = conns[c].write
        /\ h.previous = conns[c].previous
    BY HandlerFacts DEF Handlers, HandlerPcs
  <2>2. conns' = [conns EXCEPT ![c] = h]
    BY <1>4
  <2> HIDE DEF h
  <2>3. HandlerInv(c, h)
    BY <1>1, <1>2, <2>1, HandlerFacts DEF HandlerInv
  <2> QED
    BY <1>1, <1>2, <2>1, <2>2, <2>3, HandlerFacts, HandlerStep
<1> QED
  BY <1>3, <1>4 DEF OpenSession

(* A handler that only goes on to another point. *)
LEMMA GoesOn ==
  ASSUME Typed, WireInv, NEW c \in Generations, NEW pc \in HandlerPcs,
         conns' = [conns EXCEPT ![c] = [conns[c] EXCEPT !.pc = pc]],
         conns[c].pc \notin {"free", "admitted", "removing", "gone"},
         \/ pc \in {"serving", "leaving"}
         \/ pc = "publish" /\ conns[c].pc = "session",
         UNCHANGED <<route, node, channel, receiver, intent, journal, excused, wireFaults>>
  PROVE  Typed' /\ WireInv'
<1> DEFINE h == [conns[c] EXCEPT !.pc = pc]
<1>1. /\ h \in Handlers /\ h.pc = pc /\ h.device = conns[c].device /\ h.node = conns[c].node
      /\ h.open = conns[c].open /\ h.listed = conns[c].listed
      /\ h.writer = conns[c].writer /\ h.write = conns[c].write
      /\ h.previous = conns[c].previous
  BY HandlerFacts DEF Handlers
<1>2. conns' = [conns EXCEPT ![c] = h]
  OBVIOUS
<1> HIDE DEF h
<1>3. HandlerInv(c, h)
  BY <1>1, HandlerFacts DEF HandlerInv
<1>4. h.write = "done" => conns[c].write = "done" /\ h.writer = "loop"
  BY <1>1 DEF WireInv, WritesInv
<1> QED
  BY <1>1, <1>2, <1>3, <1>4, HandlerFacts, HandlerStep

(* A handler whose session is dropped. *)
LEMMA GoesAway ==
  ASSUME Typed, WireInv, NEW c \in Generations, NEW pc \in {"removing", "gone"},
         conns' = [conns EXCEPT ![c] = [Dropped(conns[c]) EXCEPT !.pc = pc]],
         conns[c].pc \notin {"free", "gone"},
         UNCHANGED <<route, node, channel, receiver, intent, journal, excused>>,
         wireFaults' \in 0 .. MaxWireFaults
  PROVE  Typed' /\ WireInv'
<1> DEFINE h == [Dropped(conns[c]) EXCEPT !.pc = pc]
<1>1. /\ h \in Handlers /\ h.pc = pc /\ h.device = conns[c].device /\ h.node = conns[c].node
      /\ ~h.open /\ ~h.listed
      /\ h.writer = conns[c].writer /\ h.write = conns[c].write
      /\ h.previous = conns[c].previous
  BY HandlerFacts DEF Handlers, HandlerPcs, Dropped
<1>2. conns' = [conns EXCEPT ![c] = h]
  OBVIOUS
<1> HIDE DEF h
<1>3. HandlerInv(c, h)
  BY <1>1, HandlerFacts DEF HandlerInv
<1>4. h.write = "done" => conns[c].write = "done" /\ h.writer = "loop"
  BY <1>1 DEF WireInv, WritesInv
<1> QED
  BY <1>1, <1>2, <1>3, <1>4, HandlerFacts, HandlerStep

LEMMA Checked ==
  ASSUME Typed, WireInv, NEW c \in Generations, CheckBeforeRegister(c)
  PROVE  Typed' /\ WireInv'
<1>1. /\ conns[c].pc = "session"
      /\ UNCHANGED <<route, node, channel, receiver, intent, journal, excused, wireFaults>>
      /\ wireFaults \in 0 .. MaxWireFaults /\ "publish" \in HandlerPcs
  BY HandlerFacts DEF CheckBeforeRegister, HandlerPcs
<1>2. CASE conns' = [conns EXCEPT ![c] = [conns[c] EXCEPT !.pc = "publish"]]
  BY <1>1, <1>2, GoesOn
<1>3. CASE conns' = [conns EXCEPT ![c] = [Dropped(conns[c]) EXCEPT !.pc = "gone"]]
  BY <1>1, <1>3, GoesAway
<1> QED
  BY <1>2, <1>3 DEF CheckBeforeRegister

LEMMA Left ==
  ASSUME Typed, WireInv, NEW c \in Generations, Refuse(c) \/ HangUp(c) \/ ReadFails(c)
  PROVE  Typed' /\ WireInv'
<1>1. /\ conns[c].pc = "serving" /\ "leaving" \in HandlerPcs
      /\ UNCHANGED <<route, node, channel, receiver, intent, journal, excused, wireFaults>>
  BY DEF Refuse, HangUp, ReadFails, HandlerPcs
<1>2. conns' = [conns EXCEPT ![c] = [conns[c] EXCEPT !.pc = "leaving"]]
  BY DEF Refuse, HangUp, ReadFails
<1> QED
  BY <1>1, <1>2, GoesOn

LEMMA LeftSession ==
  ASSUME Typed, WireInv, NEW c \in Generations, LeaveSession(c)
  PROVE  Typed' /\ WireInv'
<1>1. /\ conns[c].pc = "leaving"
      /\ UNCHANGED <<route, node, channel, receiver, intent, journal, excused, wireFaults>>
      /\ wireFaults \in 0 .. MaxWireFaults
  BY HandlerFacts DEF LeaveSession
<1>2. conns' = [conns EXCEPT ![c] = [Dropped(conns[c]) EXCEPT !.pc = "removing"]]
  BY DEF LeaveSession
<1> QED
  BY <1>1, <1>2, GoesAway

LEMMA LeftRegistry ==
  ASSUME Typed, WireInv, NEW c \in Generations, LeaveRegistry(c)
  PROVE  Typed' /\ WireInv'
<1> DEFINE h == [conns[c] EXCEPT !.pc = "gone"]
<1>1. /\ h \in Handlers /\ h.pc = "gone" /\ h.device = conns[c].device /\ h.node = conns[c].node
      /\ h.open = conns[c].open /\ h.listed = conns[c].listed
      /\ h.writer = conns[c].writer /\ h.write = conns[c].write
      /\ h.previous = conns[c].previous
  BY HandlerFacts DEF Handlers, HandlerPcs
<1>2. /\ conns[c].pc = "removing" /\ conns' = [conns EXCEPT ![c] = h]
      /\ UNCHANGED <<node, channel, receiver, intent, journal, excused>>
      /\ route' = route \/ route' = Removed(c)
      /\ wireFaults' \in 0 .. MaxWireFaults
  BY HandlerFacts DEF LeaveRegistry
<1> HIDE DEF h
<1>3. HandlerInv(c, h) /\ ~h.open
  BY <1>1, <1>2, HandlerFacts DEF HandlerInv
<1>4. h.write = "done" => conns[c].write = "done" /\ h.writer = "loop"
  BY <1>1 DEF WireInv, WritesInv
<1> QED
  BY <1>1, <1>2, <1>3, <1>4, HandlerFacts, HandlerStep

LEMMA WriteFailed ==
  ASSUME Typed, WireInv, NEW c \in Generations, WriteFails(c)
  PROVE  Typed' /\ WireInv'
<1> DEFINE h == [conns[c] EXCEPT !.write = "failed", !.writer = "leaving"]
<1>1. /\ h \in Handlers /\ h.pc = conns[c].pc /\ h.device = conns[c].device
      /\ h.node = conns[c].node
      /\ h.open = conns[c].open /\ h.listed = conns[c].listed
      /\ h.writer = "leaving" /\ h.write = "failed"
      /\ h.previous = conns[c].previous
  BY HandlerFacts DEF Handlers
<1>2. /\ conns[c].write = "queued" /\ conns' = [conns EXCEPT ![c] = h]
      /\ UNCHANGED <<route, node, channel, receiver, intent, journal, excused, wireFaults>>
  BY DEF WriteFails, Typed
<1> HIDE DEF h
<1>3. HandlerInv(c, h)
  BY <1>1, <1>2, HandlerFacts DEF HandlerInv
<1>4. h.pc = "free" \/ h.pc = "gone" \/ (conns[c].pc \notin {"free", "gone"})
  BY <1>1
<1> QED
  BY <1>1, <1>2, <1>3, <1>4, HandlerFacts, HandlerStep

LEMMA WriterLeft ==
  ASSUME Typed, WireInv, NEW c \in Generations, WriterLeavesSession(c)
  PROVE  Typed' /\ WireInv'
<1> DEFINE h == [Dropped(conns[c]) EXCEPT !.writer = "removing"]
<1>1. /\ h \in Handlers /\ h.pc = conns[c].pc /\ h.device = conns[c].device
      /\ h.node = conns[c].node /\ ~h.open /\ ~h.listed
      /\ h.writer = "removing" /\ h.write = conns[c].write
      /\ h.previous = conns[c].previous
  BY HandlerFacts DEF Handlers, Dropped
<1>2. /\ conns[c].writer = "leaving" /\ conns' = [conns EXCEPT ![c] = h]
      /\ UNCHANGED <<route, node, channel, receiver, intent, journal, excused, wireFaults>>
  BY DEF WriterLeavesSession
<1> HIDE DEF h
<1>3. HandlerInv(c, h)
  BY <1>1, HandlerFacts DEF HandlerInv
<1>4. conns[c].write # "done"
  BY <1>2 DEF WireInv, WritesInv
<1> QED
  BY <1>1, <1>2, <1>3, <1>4, HandlerFacts, HandlerStep

LEMMA WriterGone ==
  ASSUME Typed, WireInv, NEW c \in Generations, WriterLeavesRegistry(c)
  PROVE  Typed' /\ WireInv'
<1> DEFINE h == [conns[c] EXCEPT !.writer = "none"]
<1>1. /\ h \in Handlers /\ h.pc = conns[c].pc /\ h.device = conns[c].device
      /\ h.node = conns[c].node /\ h.open = conns[c].open /\ h.listed = conns[c].listed
      /\ h.writer = "none" /\ h.write = conns[c].write
      /\ h.previous = conns[c].previous
  BY HandlerFacts DEF Handlers
<1>2. /\ conns[c].writer = "removing" /\ conns' = [conns EXCEPT ![c] = h]
      /\ UNCHANGED <<node, channel, receiver, intent, journal, excused>>
      /\ \/ route' = Removed(c) /\ UNCHANGED wireFaults
         \/ WireFault /\ UNCHANGED route
  BY DEF WriterLeavesRegistry, Typed
<1> HIDE DEF h
<1>3. HandlerInv(c, h) /\ ~h.open
  BY <1>1, <1>2, HandlerFacts DEF HandlerInv
<1>4. conns[c].write # "done"
  BY <1>2 DEF WireInv, WritesInv
<1> QED
  BY <1>1, <1>2, <1>3, <1>4, HandlerFacts, HandlerStep

(* What a publication leaves. *)
LEMMA Published ==
  ASSUME Typed, NEW n \in Nodes, NEW p \in Packets, PublishPacket(n, p)
  PROVE  /\ channel' \in [Nodes -> Seq(Packets)]
         /\ \A x \in Nodes : \A i \in DOMAIN channel[x] :
               i \in DOMAIN channel'[x] /\ channel'[x][i] = channel[x][i]
         /\ \A x \in Nodes : \A j \in DOMAIN channel'[x] :
               \/ x = n /\ channel'[x][j] = p
               \/ j \in DOMAIN channel[x] /\ channel[x][j] = channel'[x][j]
         /\ Subscribed(n) => \E j \in DOMAIN channel'[n] : channel'[n][j] = p
<1>1. CASE UNCHANGED channel /\ ~Subscribed(n)
  BY <1>1 DEF Typed
<1>2. CASE channel' = [channel EXCEPT ![n] = Append(@, p)]
  <2>1. channel[n] \in Seq(Packets)
    BY DEF Typed
  <2>2. /\ Append(channel[n], p) \in Seq(Packets)
        /\ \A i \in DOMAIN channel[n] :
              i \in DOMAIN Append(channel[n], p) /\ Append(channel[n], p)[i] = channel[n][i]
        /\ \A j \in DOMAIN Append(channel[n], p) :
              \/ Append(channel[n], p)[j] = p
              \/ j \in DOMAIN channel[n] /\ channel[n][j] = Append(channel[n], p)[j]
        /\ \E j \in DOMAIN Append(channel[n], p) : Append(channel[n], p)[j] = p
    <3>1. /\ Len(channel[n]) \in Nat /\ DOMAIN channel[n] = 1 .. Len(channel[n])
          /\ DOMAIN Append(channel[n], p) = 1 .. Len(channel[n]) + 1
          /\ Append(channel[n], p) \in Seq(Packets)
          /\ \A i \in 1 .. Len(channel[n]) : Append(channel[n], p)[i] = channel[n][i]
          /\ Append(channel[n], p)[Len(channel[n]) + 1] = p
      BY <2>1
    <3> QED
      BY <3>1
  <2>3. channel' \in [Nodes -> Seq(Packets)] /\ channel'[n] = Append(channel[n], p)
        /\ \A x \in Nodes : x # n => channel'[x] = channel[x]
    BY <1>2, <2>2 DEF Typed
  <2> QED
    BY <2>2, <2>3
<1> QED
  BY <1>1, <1>2 DEF PublishPacket

LEMMA Served ==
  ASSUME Typed, WireInv, NEW c \in Generations, Serve(c)
  PROVE  Typed' /\ WireInv'
<1>1. PICK pc \in {"serving", "leaving"} :
        conns' = [conns EXCEPT ![c].pc = pc, ![c].previous = 0]
  BY DEF Serve
<1> DEFINE h == [conns[c] EXCEPT !.pc = pc, !.previous = 0]
           old == conns[c].previous
<1>2. /\ h \in Handlers /\ h.pc = pc /\ h.device = conns[c].device
      /\ h.node = conns[c].node /\ h.open = conns[c].open /\ h.listed = conns[c].listed
      /\ h.writer = conns[c].writer /\ h.write = conns[c].write /\ h.previous = 0
  BY HandlerFacts DEF Handlers, HandlerPcs
<1>3. /\ conns[c].pc = "check" /\ conns' = [conns EXCEPT ![c] = h]
      /\ UNCHANGED <<route, node, receiver, intent, journal, excused, wireFaults>>
  BY <1>1 DEF Serve, Typed
<1>4. /\ channel' \in [Nodes -> Seq(Packets)] /\ PacketsStay
  <2>1. CASE UNCHANGED channel
    BY <2>1, HandlerFacts
  <2>2. CASE old # 0 /\ PublishPacket(conns[old].node, [close |-> TRUE, to |-> old, intent |-> 0])
    <3>1. old \in Generations
      BY <2>2, HandlerFacts, Numbers DEF Handlers
    <3>2. conns[old].node \in Nodes
      BY <3>1 DEF Typed, Handlers
    <3>3. [close |-> TRUE, to |-> old, intent |-> 0] \in Packets
      BY <3>1, Numbers DEF Packets
    <3>4. PICK p \in Packets : p = [close |-> TRUE, to |-> old, intent |-> 0]
      BY <3>3
    <3>5. p.close /\ PublishPacket(conns[old].node, p)
      BY <2>2, <3>4
    <3> QED
      BY <3>2, <3>5, Published DEF PacketsStay, PacketsLast
  <2> QED
    BY <2>1, <2>2 DEF Serve
<1> HIDE DEF h
<1>5. HandlerInv(c, h)
  BY <1>2, <1>3, HandlerFacts DEF HandlerInv
<1>6. h.write = "done" => conns[c].write = "done" /\ h.writer = "loop"
  BY <1>2 DEF WireInv, WritesInv
<1> QED
  BY <1>2, <1>3, <1>4, <1>5, <1>6, HandlerFacts, HandlerStep

(* The registration of a connection. *)
LEMMA RegisterStep ==
  ASSUME Typed, WireInv, NEW c \in Generations, NEW h \in Handlers, conns[c].pc = "publish",
         conns' = [conns EXCEPT ![c] = h],
         route' = [route EXCEPT ![conns[c].device] = c], journal' = Append(journal, c),
         h.device = conns[c].device, h.node = conns[c].node,
         h.writer = conns[c].writer, h.write = conns[c].write,
         h.open => conns[c].open, h.open => h.listed,
         h.pc = "check" \/ (h.pc = "gone" /\ ~h.open),
         h.previous \in {conns[c].previous, route[conns[c].device]},
         UNCHANGED <<node, channel, receiver, intent, excused>>,
         wireFaults' \in 0 .. MaxWireFaults
  PROVE  Typed' /\ WireInv'
<1> DEFINE d == conns[c].device
<1>1. /\ conns' \in [Generations -> Handlers] /\ conns'[c] = h
      /\ \A x \in Generations : x # c => conns'[x] = conns[x]
      /\ \A x \in Generations : conns'[x].device = conns[x].device /\ conns'[x].node = conns[x].node
  BY DEF Typed
<1>2. /\ d \in DeviceIds /\ c \in 0 .. Incarnations /\ c # 0 /\ route \in [DeviceIds -> 0 .. Incarnations]
      /\ \A x \in Generations : conns[x].device \in DeviceIds
  BY Numbers DEF Typed, Handlers
<1>3. /\ route' \in [DeviceIds -> 0 .. Incarnations] /\ route'[d] = c
      /\ \A e \in DeviceIds : e # d => route'[e] = route[e]
  BY <1>2
<1>4. journal' \in Seq(Generations)
  BY DEF Typed
<1>5. Typed'
  BY <1>1, <1>3, <1>4 DEF Typed
<1>6. HandlersInv /\ c \notin Journaled /\ Journaled \subseteq Generations
  BY HandlerFacts, JournaledTyped DEF HandlerInv, WireInv
<1>7. /\ Journaled' = Journaled \cup {c}
      /\ Latest(c)'
      /\ \A x \in Journaled : /\ x \in Generations
                              /\ Latest(x)' <=> Latest(x) /\ conns[x].device # d
  BY <1>1, <1>6, JournalGrows
<1>8. \A x \in Generations : Latest(x)' => x \in Journaled'
  <2> SUFFICES ASSUME NEW x \in Generations, Latest(x)' PROVE x \in Journaled'
    OBVIOUS
  <2>1. \E i \in DOMAIN journal' : journal'[i] = x
    BY DEF Latest
  <2> QED
    BY <2>1 DEF Journaled
<1>9. HandlersInv'
  <2>1. ASSUME NEW x \in Generations PROVE HandlerInv(x, conns[x])'
    <3>1. CASE x = c
      <4>1. HandlerInv(c, conns[c])
        BY HandlerFacts
      <4>2. route[d] # 0 => route[d] \in Journaled
        <5>1. route[d] # 0 => route[d] \in Generations
          BY <1>2, Numbers
        <5> QED
          BY <1>2, <5>1 DEF WireInv, RoutesInv
      <4> QED
        BY <1>1, <1>7, <3>1, <4>1, <4>2 DEF HandlerInv
    <3>2. CASE x # c
      <4>1. HandlerInv(x, conns[x])
        BY HandlerFacts
      <4> QED
        BY <1>1, <1>7, <3>2, <4>1 DEF HandlerInv
    <3> QED
      BY <3>1, <3>2
  <2> QED
    BY <2>1 DEF HandlersInv
<1>10. RoutesInv'
  <2> SUFFICES ASSUME NEW e \in DeviceIds, NEW x \in Generations, route'[e] = x
               PROVE  x \in Journaled' /\ conns'[x].device = e /\ Latest(x)'
    BY DEF RoutesInv
  <2>1. CASE e = d
    BY <1>1, <1>3, <1>7, <2>1
  <2>2. CASE e # d
    <3>1. x \in Journaled /\ conns[x].device = e /\ Latest(x)
      BY <1>3, <2>2 DEF WireInv, RoutesInv
    <3> QED
      BY <1>1, <1>7, <2>2, <3>1
  <2> QED
    BY <2>1, <2>2
<1>11. ReachInv'
  <2> SUFFICES ASSUME NEW x \in Generations, conns'[x].open, Latest(x)', x \notin excused'
               PROVE  Owns(x)'
    BY DEF ReachInv
  <2>1. CASE x = c
    BY <1>1, <1>3, <2>1 DEF Owns
  <2>2. CASE x # c
    <3>1. Latest(x) /\ conns[x].device # d
      BY <1>7, <1>8, <2>2
    <3>2. Owns(x)
      BY <1>1, <2>2, <3>1 DEF WireInv, ReachInv
    <3> QED
      BY <1>1, <1>2, <1>3, <3>1, <3>2 DEF Owns
  <2> QED
    BY <2>1, <2>2
<1>12. ASSUME NEW n, NEW x, NEW m, Addressed(n, x, m)
       PROVE  /\ Addressed(n, x, m)' /\ x \in Generations
              /\ Owns(x)' => Owns(x)
  <2>1. x \in Journaled /\ x \in Generations /\ x # c
    BY <1>6, <1>12 DEF Addressed
  <2>2. Addressed(n, x, m)'
    BY <1>1, <1>7, <1>12, <2>1 DEF Addressed
  <2>3. Owns(x)' => Owns(x)
    <3>1. conns[x].device = d => ~Owns(x)'
      BY <1>1, <1>3, <2>1 DEF Owns
    <3>2. conns[x].device # d => (Owns(x)' <=> Owns(x))
      BY <1>1, <1>2, <1>3, <2>1 DEF Owns
    <3> QED
      BY <3>1, <3>2
  <2> QED
    BY <2>1, <2>2, <2>3
<1>13. NodesInv'
  <2>1. ASSUME NEW n \in Nodes, node'[n].phase = "down", NEW x \in Generations, conns'[x].node = n
        PROVE  conns'[x].pc \in {"free", "gone"}
    <3>1. conns[x].pc \in {"free", "gone"}
      BY <1>1, <2>1 DEF WireInv, NodesInv
    <3> QED
      BY <1>1, <3>1
  <2>2. ASSUME NEW n \in Nodes, NEW p, NEW i \in DOMAIN channel'[n], channel'[n][i] = p
        PROVE  PacketInv(n, p)'
    <3>1. PacketInv(n, p)
      BY <2>2 DEF WireInv, NodesInv
    <3> QED
      BY <1>12, <3>1 DEF PacketInv
  <2>3. ASSUME NEW n \in Nodes, NEW r, receiver'[n] = r PROVE ReceiverInv(n, r)'
    <3>1. ReceiverInv(n, r)
      BY <2>3 DEF WireInv, NodesInv
    <3>2. CASE r.pc = "idle"
      BY <3>1, <3>2 DEF ReceiverInv, Receiving
    <3>3. CASE r.pc # "idle"
      <4>1. PICK x : x = r.to
        OBVIOUS
      <4>2. Addressed(n, x, r.intent)
        BY <3>1, <3>3, <4>1 DEF ReceiverInv
      <4>3. Addressed(n, x, r.intent)' /\ x \in Generations
        BY <1>12, <4>2
      <4>4. Owns(x)' => Owns(x)
        BY <1>12, <4>2
      <4>5. conns'[x].open => conns[x].open
        BY <1>1, <4>3
      <4>6. /\ r.pc = "list" => ~Owns(x)
            /\ r.pc = "fail" => x \in excused \/ ~Owns(x) \/ ~conns[x].open
        BY <3>1, <4>1 DEF ReceiverInv
      <4>7. /\ r.pc = "list" => ~Owns(x)'
            /\ r.pc = "fail" => x \in excused' \/ ~Owns(x)' \/ ~conns'[x].open
        BY <4>4, <4>5, <4>6
      <4> QED
        BY <3>3, <4>1, <4>3, <4>7 DEF ReceiverInv, Owns
    <3> QED
      BY <3>2, <3>3
  <2> QED
    BY <2>1, <2>2, <2>3, NodesFrom
<1>14. WritesInv'
  <2>1. \A x \in Generations : conns[x].pc = "free" => conns[x].write = "none"
    BY DEF WireInv, HandlersInv, HandlerInv
  <2>2. \A x \in Generations :
            /\ conns'[x].write = "done" => conns[x].write = "done" /\ conns'[x].writer = "loop"
            /\ conns'[x].writer = "loop" /\ conns'[x].write \in {"queued", "done"} =>
                  conns[x].writer = "loop" /\ conns[x].write = conns'[x].write
    BY <1>1 DEF WireInv, WritesInv
  <2> QED
    BY <1>1, <2>1, <2>2, WritesKept DEF WireInv
<1>15. IntentsInv'
  <2> SUFFICES ASSUME NEW m \in IntentIds
               PROVE  /\ intent[m].left \subseteq Journaled' /\ intent[m].targets \subseteq Journaled'
                      /\ intent[m].pc # "sending" => intent[m].left = {}
                      /\ intent[m].pc = "new" => intent[m].targets = {}
                      /\ intent[m].pc # "new" =>
                            \A x \in intent[m].targets :
                               x \in intent[m].left \/ Settled(x, m)' \/ OnItsWay(x, m)'
    BY DEF IntentsInv
  <2>1. /\ intent[m].left \subseteq Journaled /\ intent[m].targets \subseteq Journaled
        /\ intent[m].pc # "sending" => intent[m].left = {}
        /\ intent[m].pc = "new" => intent[m].targets = {}
        /\ intent[m].pc # "new" =>
              \A x \in intent[m].targets :
                 x \in intent[m].left \/ Settled(x, m) \/ OnItsWay(x, m)
    BY DEF WireInv, IntentsInv
  <2>2. ASSUME NEW x \in intent[m].targets
        PROVE  /\ Settled(x, m) => Settled(x, m)'
               /\ OnItsWay(x, m) => OnItsWay(x, m)'
    <3>1. Latest(x)' => Latest(x)
      BY <1>7, <2>1
    <3>2. Settled(x, m) => Settled(x, m)'
      <4>1. x \in Journaled /\ x \in Generations /\ x # c
        BY <1>6, <2>1
      <4>2. conns'[x].device = conns[x].device /\ conns[x].device \in DeviceIds
        BY <1>1, <4>1 DEF Typed, Handlers
      <4>3. Owns(x)' => Owns(x)
        <5>1. CASE conns[x].device = d
          BY <1>3, <4>1, <4>2, <5>1 DEF Owns
        <5>2. CASE conns[x].device # d
          BY <1>3, <4>2, <5>2 DEF Owns
        <5> QED
          BY <5>1, <5>2
      <4>4. GivenUp(x, m) => GivenUp(x, m)'
        BY <4>3 DEF GivenUp
      <4> QED
        BY <3>1, <4>4 DEF Settled
    <3>3. OnItsWay(x, m) => OnItsWay(x, m)'
      BY DEF OnItsWay
    <3> QED
      BY <3>2, <3>3
  <2> QED
    BY <1>7, <2>1, <2>2
<1> QED
  BY <1>5, <1>9, <1>10, <1>11, <1>13, <1>14, <1>15 DEF WireInv

LEMMA Registered ==
  ASSUME Typed, WireInv, NEW c \in Generations, Register(c)
  PROVE  Typed' /\ WireInv'
<1> DEFINE h == [conns[c] EXCEPT !.pc = "check", !.previous = route[conns[c].device]]
<1>1. route[conns[c].device] \in 0 .. Incarnations
  BY HandlerFacts DEF Typed, Handlers
<1>2. /\ h \in Handlers /\ h.pc = "check" /\ h.device = conns[c].device
      /\ h.node = conns[c].node /\ h.open = conns[c].open /\ h.listed = conns[c].listed
      /\ h.writer = conns[c].writer /\ h.write = conns[c].write
      /\ h.previous = route[conns[c].device]
  BY <1>1, HandlerFacts DEF Handlers, HandlerPcs
<1>3. /\ conns[c].pc = "publish" /\ conns' = [conns EXCEPT ![c] = h]
      /\ route' = [route EXCEPT ![conns[c].device] = c] /\ journal' = Append(journal, c)
      /\ UNCHANGED <<node, channel, receiver, intent, excused, wireFaults>>
  BY DEF Register, Typed
<1> HIDE DEF h
<1>4. /\ h.open => h.listed
      /\ wireFaults' \in 0 .. MaxWireFaults
  BY <1>2, <1>3, HandlerFacts DEF HandlerInv
<1> QED
  BY <1>2, <1>3, <1>4, RegisterStep

LEMMA RegisterFailed ==
  ASSUME Typed, WireInv, NEW c \in Generations, RegisterFails(c)
  PROVE  Typed' /\ WireInv'
<1> DEFINE h == [Dropped(conns[c]) EXCEPT !.pc = "gone"]
<1>1. /\ h \in Handlers /\ h.pc = "gone" /\ h.device = conns[c].device
      /\ h.node = conns[c].node /\ ~h.open
      /\ h.writer = conns[c].writer /\ h.write = conns[c].write
      /\ h.previous = conns[c].previous
  BY HandlerFacts DEF Handlers, HandlerPcs, Dropped
<1>2. /\ conns[c].pc = "publish" /\ conns' = [conns EXCEPT ![c] = h]
      /\ UNCHANGED <<node, channel, receiver, intent, excused>>
      /\ wireFaults' \in 0 .. MaxWireFaults
  BY HandlerFacts DEF RegisterFails
<1>3. CASE UNCHANGED <<route, journal>>
  BY <1>2, <1>3, GoesAway
<1>4. CASE route' = [route EXCEPT ![conns[c].device] = c] /\ journal' = Append(journal, c)
  <2> HIDE DEF h
  <2> QED
    BY <1>1, <1>2, <1>4, RegisterStep
<1> QED
  BY <1>3, <1>4 DEF RegisterFails

LEMMA Wrote ==
  ASSUME Typed, WireInv, NEW c \in Generations, Write(c)
  PROVE  Typed' /\ WireInv'
<1> DEFINE h == [conns[c] EXCEPT !.write = "done"]
           n == conns[c].node
           m == receiver[n].intent
<1>1. /\ h \in Handlers /\ h.pc = conns[c].pc /\ h.device = conns[c].device
      /\ h.node = conns[c].node /\ h.open = conns[c].open /\ h.listed = conns[c].listed
      /\ h.writer = conns[c].writer /\ h.write = "done" /\ h.previous = conns[c].previous
  BY HandlerFacts DEF Handlers
<1>2. /\ conns[c].writer = "loop" /\ conns[c].write = "queued" /\ conns[c].open
      /\ conns' = [conns EXCEPT ![c] = h]
      /\ intent' = [intent EXCEPT ![m].got = @ \cup {c}]
      /\ UNCHANGED <<route, node, channel, receiver, journal, excused, wireFaults>>
  BY DEF Write, Typed
<1> HIDE DEF h
<1>3. n \in Nodes
  BY HandlerFacts DEF Handlers
<1>4. receiver[n].pc = "wait" /\ receiver[n].to = c /\ m \in IntentIds
  <2>1. receiver[n].pc = "wait" /\ receiver[n].to = c
    BY <1>2 DEF WireInv, WritesInv
  <2> QED
    BY <1>3, <2>1 DEF WireInv, NodesInv, ReceiverInv, Addressed
<1> HIDE DEF m
<1>5. /\ conns' \in [Generations -> Handlers] /\ conns'[c] = h
      /\ \A x \in Generations : x # c => conns'[x] = conns[x]
  BY <1>1, <1>2 DEF Typed
<1>6. /\ intent' \in [IntentIds -> Deliveries]
      /\ intent'[m] = [intent[m] EXCEPT !.got = @ \cup {c}]
      /\ \A k \in IntentIds : k # m => intent'[k] = intent[k]
  <2>0. intent[m] \in Deliveries /\ c \in Generations
    BY <1>4 DEF Typed
  <2>1. [intent[m] EXCEPT !.got = @ \cup {c}] \in Deliveries
    BY <2>0 DEF Deliveries
  <2> QED
    BY <1>2, <1>4, <2>1 DEF Typed
<1>7. IntentsStay /\ c \in intent'[m].got
  <2>1. /\ intent'[m].pc = intent[m].pc /\ intent'[m].left = intent[m].left
        /\ intent'[m].targets = intent[m].targets /\ intent'[m].got = intent[m].got \cup {c}
        /\ intent'[m].pushed = intent[m].pushed /\ intent'[m].lost = intent[m].lost
        /\ intent'[m].notifies = intent[m].notifies
    BY <1>4, <1>6 DEF Typed, Deliveries
  <2> QED
    BY <1>6, <2>1 DEF IntentsStay
<1>8. Typed' /\ SameLinks /\ RoutesRemoved /\ PacketsStay
  <2>1. Typed'
    BY <1>2, <1>5, <1>6 DEF Typed
  <2>2. SameLinks
    BY <1>1, <1>2, <1>5 DEF SameLinks
  <2> QED
    BY <1>2, <2>1, <2>2 DEF RoutesRemoved, PacketsStay, PacketsLast
<1>9. Journaled' = Journaled /\ Journaled \subseteq Generations
  BY <1>8, LinksStay, JournaledTyped DEF WireInv
<1>10. HandlersInv'
  <2>1. HandlerInv(c, conns[c]) /\ conns[c].pc \notin {"free", "admitted"}
    BY <1>2, HandlerFacts DEF HandlerInv
  <2>2. ASSUME NEW x \in Generations PROVE HandlerInv(x, conns[x])'
    BY <1>1, <1>5, <1>9, <2>1 DEF WireInv, HandlersInv, HandlerInv
  <2> QED
    BY <2>2 DEF HandlersInv
<1>11. SessionsClose
  BY <1>1, <1>2, <1>5, <1>9 DEF SessionsClose
<1>12. RoutesInv' /\ ReachInv'
  <2>1. \A x \in Journaled : Owns(x) => Owns(x)'
    BY <1>2, <1>8, LinksStay DEF WireInv, Owns
  <2> QED
    BY <1>8, <1>11, <2>1, RoutesKept, ReachKept DEF WireInv
<1>13. NodesInv'
  <2>1. NodesStayEmpty
    BY <1>1, <1>2, <1>5 DEF NodesStayEmpty
  <2> QED
    BY <1>2, <1>8, <1>11, <2>1, NodesKept DEF WireInv
<1>14. WritesInv'
  <2> SUFFICES ASSUME NEW x \in Generations
               PROVE  /\ conns'[x].write = "done" =>
                           /\ conns'[x].writer = "loop"
                           /\ x \in intent'[receiver[conns'[x].node].intent].got
                      /\ conns'[x].writer = "loop" /\ conns'[x].write \in {"queued", "done"} =>
                           /\ receiver[conns'[x].node].pc = "wait"
                           /\ receiver[conns'[x].node].to = x
    BY <1>2 DEF WritesInv
  <2>1. CASE x = c
    BY <1>1, <1>2, <1>4, <1>5, <1>7, <2>1 DEF m
  <2>2. CASE x # c
    <3>1. /\ conns[x].write = "done" =>
               conns[x].writer = "loop" /\ x \in intent[receiver[conns[x].node].intent].got
          /\ conns[x].writer = "loop" /\ conns[x].write \in {"queued", "done"} =>
               receiver[conns[x].node].pc = "wait" /\ receiver[conns[x].node].to = x
      BY DEF WireInv, WritesInv
    <3>2. conns[x].write = "done" => receiver[conns[x].node].intent \in IntentIds
      <4>1. conns[x].node \in Nodes
        BY HandlerFacts DEF Handlers
      <4> QED
        BY <3>1, <4>1 DEF WireInv, NodesInv, ReceiverInv, Addressed
    <3> QED
      BY <1>5, <1>7, <2>2, <3>1, <3>2 DEF IntentsStay
  <2> QED
    BY <2>1, <2>2
<1>15. IntentsInv'
  <2>1. \A x \in Generations : \A k \in IntentIds : OnItsWay(x, k) => OnItsWay(x, k)'
    BY <1>2 DEF OnItsWay
  <2>2. SessionsClose
    BY <1>5, <1>2, JournaledTyped DEF SessionsClose
  <2> QED
    BY <1>7, <1>8, <2>1, <2>2, IntentsKept DEF WireInv
<1> QED
  BY <1>8, <1>10, <1>12, <1>13, <1>14, <1>15 DEF WireInv

-----------------------------------------------------------------------------
(* Deliveries                                                              *)

LEMMA DeliveryStep ==
  ASSUME Typed, WireInv, NEW m \in IntentIds, NEW x \in Deliveries,
         intent' = [intent EXCEPT ![m] = x],
         UNCHANGED <<conns, node, receiver, journal>>,
         channel' \in [Nodes -> Seq(Packets)], PacketsLast,
         \A n \in Nodes : \A p : \A j \in DOMAIN channel'[n] : channel'[n][j] = p =>
            PacketInv(n, p) \/ \E i \in DOMAIN channel[n] : channel[n][i] = p,
         route' \in [DeviceIds -> 0 .. Incarnations], RoutesRemoved,
         excused \subseteq excused', excused' \subseteq Generations,
         wireFaults' \in 0 .. MaxWireFaults,
         \A y \in Journaled : Owns(y) /\ conns[y].open /\ y \notin excused' => Owns(y)',
         intent[m].got \subseteq x.got,
         x.left \subseteq Journaled, x.targets \subseteq Journaled,
         x.pc # "sending" => x.left = {}, x.pc = "new" => x.targets = {},
         x.pc # "new" => \A y \in x.targets :
            \/ y \in x.left \/ y \in x.got \/ y \in x.lost \/ ~Latest(y)
            \/ OnItsWay(y, m)'
            \/ (x.notifies => x.pushed) /\ (~Owns(y)' \/ y \in excused')
  PROVE  Typed' /\ WireInv'
<1>1. /\ intent' \in [IntentIds -> Deliveries] /\ intent'[m] = x
      /\ \A k \in IntentIds : k # m => intent'[k] = intent[k]
  BY DEF Typed
<1>2. Typed'
  BY <1>1 DEF Typed
<1>3. SameLinks
  BY DEF SameLinks
<1>4. /\ Journaled' = Journaled /\ Journaled \subseteq Generations
      /\ \A y \in Generations : Latest(y)' <=> Latest(y)
  BY <1>3, LinksStay, JournaledTyped DEF WireInv
<1>5. HandlersInv'
  BY <1>4 DEF WireInv, HandlersInv, HandlerInv
<1>6. SessionsClose
  BY DEF SessionsClose
<1>7. RoutesInv' /\ ReachInv'
  BY <1>3, <1>6, RoutesKept, ReachKept DEF WireInv
<1>8. NodesInv'
  <2>1. ASSUME NEW n \in Nodes, node'[n].phase = "down", NEW c \in Generations, conns'[c].node = n
        PROVE  conns'[c].pc \in {"free", "gone"}
    BY <2>1 DEF WireInv, NodesInv
  <2>2. ASSUME NEW n \in Nodes, NEW p, NEW i \in DOMAIN channel'[n], channel'[n][i] = p
        PROVE  PacketInv(n, p)'
    <3>1. PacketInv(n, p)
      BY <2>2 DEF WireInv, NodesInv
    <3> QED
      BY <1>3, <3>1, AddressedStays DEF WireInv, PacketInv
  <2>3. ASSUME NEW n \in Nodes, NEW r, receiver'[n] = r PROVE ReceiverInv(n, r)'
    <3>1. ReceiverInv(n, r)
      BY <2>3 DEF WireInv, NodesInv
    <3> QED
      BY <1>3, <1>6, <3>1, ReceiverKept DEF WireInv
  <2> QED
    BY <2>1, <2>2, <2>3, NodesFrom
<1>9. WritesInv'
  <2>1. \A c \in Generations : conns[c].pc = "free" => conns[c].write = "none"
    BY DEF WireInv, HandlersInv, HandlerInv
  <2>2. \A k \in IntentIds : intent[k].got \subseteq intent'[k].got
    BY <1>1
  <2>3. \A c \in Generations : conns[c].write = "done" => conns[c].writer = "loop"
    BY DEF WireInv, WritesInv
  <2> QED
    BY <2>1, <2>2, <2>3, WritesKept DEF WireInv
<1>10. IntentsInv'
  <2> SUFFICES ASSUME NEW k \in IntentIds
               PROVE  /\ intent'[k].left \subseteq Journaled' /\ intent'[k].targets \subseteq Journaled'
                      /\ intent'[k].pc # "sending" => intent'[k].left = {}
                      /\ intent'[k].pc = "new" => intent'[k].targets = {}
                      /\ intent'[k].pc # "new" =>
                            \A y \in intent'[k].targets :
                               y \in intent'[k].left \/ Settled(y, k)' \/ OnItsWay(y, k)'
    BY DEF IntentsInv
  <2>1. CASE k = m
    <3>1. ASSUME x.pc # "new", NEW y \in x.targets
          PROVE  y \in x.left \/ Settled(y, k)' \/ OnItsWay(y, k)'
      <4>1. \/ y \in x.left \/ y \in x.got \/ y \in x.lost \/ ~Latest(y)
            \/ OnItsWay(y, m)'
            \/ (x.notifies => x.pushed) /\ (~Owns(y)' \/ y \in excused')
        BY <3>1
      <4>2. Latest(y)' <=> Latest(y)
        BY <1>4
      <4> QED
        BY <1>1, <2>1, <4>1, <4>2 DEF Settled, GivenUp
    <3> QED
      BY <1>1, <1>4, <2>1, <3>1
  <2>2. CASE k # m
    <3>1. /\ intent[k].left \subseteq Journaled /\ intent[k].targets \subseteq Journaled
          /\ intent[k].pc # "sending" => intent[k].left = {}
          /\ intent[k].pc = "new" => intent[k].targets = {}
      BY DEF WireInv, IntentsInv
    <3>2. ASSUME intent[k].pc # "new", NEW y \in intent[k].targets
          PROVE  y \in intent[k].left \/ Settled(y, k)' \/ OnItsWay(y, k)'
      <4>1. y \in intent[k].left \/ Settled(y, k) \/ OnItsWay(y, k)
        BY <3>2 DEF WireInv, IntentsInv
      <4>2. Latest(y)' <=> Latest(y)
        BY <1>4, <3>1
      <4>3. Settled(y, k) => Settled(y, k)'
        <5>1. Owns(y)' => Owns(y)
          BY <1>3, <3>1, OwnsLess DEF WireInv
        <5>2. GivenUp(y, k) => GivenUp(y, k)'
          BY <1>1, <2>2, <5>1 DEF GivenUp
        <5> QED
          BY <1>1, <2>2, <4>2, <5>2 DEF Settled
      <4>4. OnItsWay(y, k) => OnItsWay(y, k)'
        BY OnItsWayKept
      <4> QED
        BY <4>1, <4>3, <4>4
    <3> QED
      BY <1>1, <1>4, <2>2, <3>1, <3>2
  <2> QED
    BY <2>1, <2>2
<1> QED
  BY <1>2, <1>5, <1>7, <1>8, <1>9, <1>10 DEF WireInv

(* A delivery that leaves the channels and the routes alone. *)
LEMMA DeliveryFacts ==
  ASSUME Typed, WireInv, NEW m \in IntentIds
  PROVE  /\ intent[m] \in Deliveries
         /\ intent[m].left \subseteq Journaled /\ intent[m].targets \subseteq Journaled
         /\ Journaled \subseteq Generations
         /\ intent[m].pc # "sending" => intent[m].left = {}
         /\ intent[m].pc = "new" => intent[m].targets = {}
         /\ intent[m].pc # "new" => \A y \in intent[m].targets :
               \/ y \in intent[m].left \/ y \in intent[m].got \/ y \in intent[m].lost
               \/ ~Latest(y) \/ GivenUp(y, m) \/ OnItsWay(y, m)
         /\ UNCHANGED channel =>
               /\ PacketsLast /\ channel' \in [Nodes -> Seq(Packets)]
               /\ \A n \in Nodes : \A p : \A j \in DOMAIN channel'[n] : channel'[n][j] = p =>
                     PacketInv(n, p) \/ \E i \in DOMAIN channel[n] : channel[n][i] = p
         /\ UNCHANGED route =>
               /\ RoutesRemoved /\ route' \in [DeviceIds -> 0 .. Incarnations]
               /\ UNCHANGED conns => \A y \in Journaled : Owns(y) => Owns(y)'
         /\ UNCHANGED <<channel, receiver>> => \A y : OnItsWay(y, m) => OnItsWay(y, m)'
         /\ wireFaults \in 0 .. MaxWireFaults
         /\ WireFault => wireFaults' \in 0 .. MaxWireFaults
         /\ excused \subseteq Generations
<1>1. WireFault => wireFaults' \in 0 .. MaxWireFaults
  BY ConnectionsAssumption DEF WireFault, Typed
<1>2. UNCHANGED channel =>
               /\ PacketsLast /\ channel' \in [Nodes -> Seq(Packets)]
               /\ \A n \in Nodes : \A p : \A j \in DOMAIN channel'[n] : channel'[n][j] = p =>
                     PacketInv(n, p) \/ \E i \in DOMAIN channel[n] : channel[n][i] = p
  BY DEF PacketsLast, Typed
<1>3. UNCHANGED route =>
               /\ RoutesRemoved /\ route' \in [DeviceIds -> 0 .. Incarnations]
               /\ UNCHANGED conns => \A y \in Journaled : Owns(y) => Owns(y)'
  BY DEF RoutesRemoved, Owns, Typed
<1>4. UNCHANGED <<channel, receiver>> => \A y : OnItsWay(y, m) => OnItsWay(y, m)'
  BY DEF OnItsWay
<1>5. /\ intent[m] \in Deliveries /\ excused \subseteq Generations
      /\ wireFaults \in 0 .. MaxWireFaults
  BY DEF Typed
<1>6. /\ intent[m].left \subseteq Journaled /\ intent[m].targets \subseteq Journaled
      /\ intent[m].pc # "sending" => intent[m].left = {}
      /\ intent[m].pc = "new" => intent[m].targets = {}
      /\ intent[m].pc # "new" => \A y \in intent[m].targets :
            y \in intent[m].left \/ Settled(y, m) \/ OnItsWay(y, m)
  BY DEF WireInv, IntentsInv
<1>7. intent[m].pc # "new" => \A y \in intent[m].targets :
               \/ y \in intent[m].left \/ y \in intent[m].got \/ y \in intent[m].lost
               \/ ~Latest(y) \/ GivenUp(y, m) \/ OnItsWay(y, m)
  BY <1>6 DEF Settled
<1> QED
  BY <1>1, <1>2, <1>3, <1>4, <1>5, <1>6, <1>7, JournaledTyped

LEMMA ListedJournaled == Typed /\ WireInv => Listed \subseteq Journaled /\ Listed \subseteq Generations
<1> SUFFICES ASSUME Typed, WireInv, NEW c \in Listed PROVE c \in Journaled /\ c \in Generations
  OBVIOUS
<1>1. PICK d \in DeviceIds : c = route[d] /\ c # 0
  BY DEF Listed
<1>2. c \in Generations
  BY <1>1, Numbers DEF Typed
<1> QED
  BY <1>1, <1>2 DEF WireInv, RoutesInv

(* OfflinePush changes only whether the user was pushed to. *)
LEMMA PushedFacts ==
  ASSUME Typed, NEW m \in IntentIds
  PROVE  /\ Pushed(m) = [intent EXCEPT ![m] = [intent[m] EXCEPT !.pushed = @ \/ intent[m].notifies]]
         /\ intent[m].notifies => Pushed(m)[m].pushed
         /\ Pushed(m) \in [IntentIds -> Deliveries]
         /\ Pushed(m)[m].pc = intent[m].pc /\ Pushed(m)[m].left = intent[m].left
         /\ Pushed(m)[m].targets = intent[m].targets /\ Pushed(m)[m].got = intent[m].got
         /\ Pushed(m)[m].notifies = intent[m].notifies /\ Pushed(m)[m].lost = intent[m].lost
         /\ intent[m].pushed => Pushed(m)[m].pushed
         /\ \A k \in IntentIds : k # m => Pushed(m)[k] = intent[k]
<1> DEFINE x == [intent[m] EXCEPT !.pushed = @ \/ intent[m].notifies]
<1>1. intent \in [IntentIds -> Deliveries] /\ intent[m] \in Deliveries
  BY DEF Typed
<1>2. x.pushed = (intent[m].pushed \/ intent[m].notifies)
  BY <1>1 DEF Deliveries
<1>3. x \in Deliveries
  BY <1>1 DEF Deliveries
<1>4. /\ x.pc = intent[m].pc /\ x.left = intent[m].left
      /\ x.targets = intent[m].targets /\ x.got = intent[m].got
      /\ x.notifies = intent[m].notifies /\ x.lost = intent[m].lost
  BY <1>1 DEF Deliveries
<1>5. Pushed(m) = [intent EXCEPT ![m] = x]
  BY DEF Pushed
<1> HIDE DEF x
<1>6. /\ Pushed(m) \in [IntentIds -> Deliveries] /\ Pushed(m)[m] = x
      /\ \A k \in IntentIds : k # m => Pushed(m)[k] = intent[k]
  BY <1>1, <1>3, <1>5
<1>7. /\ intent[m].notifies => x.pushed
      /\ intent[m].pushed => x.pushed
  BY <1>2
<1>8. Pushed(m) = [intent EXCEPT ![m] = [intent[m] EXCEPT !.pushed = @ \/ intent[m].notifies]]
  BY <1>5 DEF x
<1> QED
  BY <1>4, <1>6, <1>7, <1>8

LEMMA PushedOne ==
  ASSUME Typed, NEW m \in IntentIds
  PROVE  /\ Pushed(m)[m] \in Deliveries
         /\ Pushed(m) = [intent EXCEPT ![m] = Pushed(m)[m]]
         /\ intent[m].notifies => Pushed(m)[m].pushed
         /\ Pushed(m)[m].pc = intent[m].pc /\ Pushed(m)[m].left = intent[m].left
         /\ Pushed(m)[m].targets = intent[m].targets /\ Pushed(m)[m].got = intent[m].got
         /\ Pushed(m)[m].notifies = intent[m].notifies /\ Pushed(m)[m].lost = intent[m].lost
<1>1. intent \in [IntentIds -> Deliveries]
  BY DEF Typed
<1>2. Pushed(m) \in [IntentIds -> Deliveries]
      /\ \A k \in IntentIds : k # m => Pushed(m)[k] = intent[k]
  BY PushedFacts
<1>3. Pushed(m) = [intent EXCEPT ![m] = Pushed(m)[m]]
  BY <1>1, <1>2
<1> QED
  BY <1>2, <1>3, PushedFacts

(* Nobody is listed, or nobody knows: the user is pushed to, and that is all. *)
LEMMA PushedInstead ==
  ASSUME Typed, WireInv, NEW m \in IntentIds, intent[m].pc = "new",
         intent' = [Pushed(m) EXCEPT ![m].pc = "done"],
         UNCHANGED <<conns, route, node, channel, receiver, journal, excused>>,
         wireFaults' \in 0 .. MaxWireFaults, intent[m].targets = {}
  PROVE  Typed' /\ WireInv'
<1> DEFINE y == Pushed(m)[m]
           x == [y EXCEPT !.pc = "done"]
<1>0. /\ y \in Deliveries /\ y.left = intent[m].left
      /\ y.targets = {} /\ y.got = intent[m].got
      /\ Pushed(m) = [intent EXCEPT ![m] = y]
  BY PushedOne
<1>2. intent' = [intent EXCEPT ![m] = x]
  <2>1. intent \in [IntentIds -> Deliveries]
    BY DEF Typed
  <2>2. intent' = [Pushed(m) EXCEPT ![m] = x]
    BY DEF x, y
  <2> HIDE DEF x, y
  <2> QED
    BY <1>0, <2>1, <2>2
<1> HIDE DEF y
<1>1. /\ x \in Deliveries /\ x.pc = "done" /\ x.left = intent[m].left
      /\ x.targets = {} /\ x.got = intent[m].got
  BY <1>0 DEF Deliveries
<1> HIDE DEF x
<1>3. x.left = {}
  BY <1>1, DeliveryFacts
<1> QED
  BY <1>1, <1>2, <1>3, DeliveryFacts, DeliveryStep

LEMMA RoutesListed ==
  ASSUME Typed, WireInv, NEW m \in IntentIds, ListRoutes(m)
  PROVE  Typed' /\ WireInv'
<1> DEFINE routes == {c \in Listed : conns[c].device \notin intent[m].skips}
<1>1. /\ intent[m].pc = "new" /\ intent[m].targets = {}
      /\ UNCHANGED <<conns, route, node, channel, receiver, journal, excused, wireFaults>>
  BY DEF ListRoutes, WireInv, IntentsInv
<1>2. CASE intent' = [Pushed(m) EXCEPT ![m].pc = "done"]
  BY <1>1, <1>2, DeliveryFacts, PushedInstead
<1>3. CASE intent' = [intent EXCEPT ![m].pc = "sending", ![m].left = routes,
                                    ![m].targets = routes]
  <2> DEFINE x == [intent[m] EXCEPT !.pc = "sending", !.left = routes, !.targets = routes]
  <2>1. routes \subseteq Journaled /\ routes \subseteq Generations
    BY ListedJournaled
  <2> HIDE DEF routes
  <2>2. /\ x \in Deliveries /\ x.pc = "sending" /\ x.left = routes
        /\ x.targets = routes /\ x.got = intent[m].got
    BY <2>1, DeliveryFacts DEF Deliveries
  <2>3. intent' = [intent EXCEPT ![m] = x]
    BY <1>3 DEF Typed
  <2> HIDE DEF x
  <2> QED
    BY ZenonT(60), <1>1, <2>1, <2>2, <2>3, DeliveryFacts, DeliveryStep
<1> QED
  BY <1>2, <1>3 DEF ListRoutes

LEMMA ListFailed ==
  ASSUME Typed, WireInv, NEW m \in IntentIds, ListFails(m)
  PROVE  Typed' /\ WireInv'
<1>1. /\ intent[m].pc = "new" /\ WireFault /\ intent[m].targets = {}
      /\ intent' = [Pushed(m) EXCEPT ![m].pc = "done"]
      /\ UNCHANGED <<conns, route, node, channel, receiver, journal, excused>>
  BY DEF ListFails, WireInv, IntentsInv
<1> QED
  BY <1>1, DeliveryFacts, PushedInstead

(* A packet is published, or not. *)
LEMMA MaybePublished ==
  ASSUME Typed, WireInv, NEW m \in IntentIds, NEW c \in Journaled, UNCHANGED receiver,
         \/ UNCHANGED channel
         \/ PublishPacket(conns[c].node, [close |-> FALSE, to |-> c, intent |-> m])
  PROVE  /\ channel' \in [Nodes -> Seq(Packets)] /\ PacketsLast
         /\ \A n \in Nodes : \A p : \A j \in DOMAIN channel'[n] : channel'[n][j] = p =>
               PacketInv(n, p) \/ \E i \in DOMAIN channel[n] : channel[n][i] = p
         /\ \A y : OnItsWay(y, m) => OnItsWay(y, m)'
         /\ \/ OnItsWay(c, m)' \/ UNCHANGED channel
            \/ ~Subscribed(conns[c].node)
<1> DEFINE n == conns[c].node
<1>1. c \in Generations /\ n \in Nodes
  BY HandlerFacts, JournaledTyped DEF Handlers
<1>2. CASE UNCHANGED channel
  BY <1>2, DeliveryFacts
<1>3. CASE PublishPacket(n, [close |-> FALSE, to |-> c, intent |-> m])
  <2>1. PICK p \in Packets : p = [close |-> FALSE, to |-> c, intent |-> m]
    BY <1>1, Numbers DEF Packets
  <2>2. p.to = c /\ p.intent = m /\ ~p.close /\ PublishPacket(n, p)
    BY <1>3, <2>1
  <2>3. /\ channel' \in [Nodes -> Seq(Packets)]
        /\ \A k \in Nodes : \A i \in DOMAIN channel[k] :
              i \in DOMAIN channel'[k] /\ channel'[k][i] = channel[k][i]
        /\ \A k \in Nodes : \A j \in DOMAIN channel'[k] :
              \/ k = n /\ channel'[k][j] = p
              \/ j \in DOMAIN channel[k] /\ channel[k][j] = channel'[k][j]
        /\ Subscribed(n) => \E j \in DOMAIN channel'[n] : channel'[n][j] = p
    BY <1>1, <2>2, Published
  <2>4. PacketInv(n, p)
    BY <1>1, <2>2 DEF PacketInv, Addressed
  <2>5. PacketsLast
    BY <2>3 DEF PacketsLast
  <2>6. \A k \in Nodes : \A q : \A j \in DOMAIN channel'[k] : channel'[k][j] = q =>
              PacketInv(k, q) \/ \E i \in DOMAIN channel[k] : channel[k][i] = q
    BY <2>3, <2>4
  <2>7. Subscribed(n) => OnItsWay(c, m)'
    BY <1>1, <2>2, <2>3 DEF OnItsWay
  <2>8. \A y : OnItsWay(y, m) => OnItsWay(y, m)'
    BY <2>5, OnItsWayKept
  <2> QED
    BY <2>3, <2>5, <2>6, <2>7, <2>8
<1> QED
  BY <1>2, <1>3

LEMMA SentTo ==
  ASSUME Typed, WireInv, NEW m \in IntentIds, NEW c \in Generations, SendTo(m, c)
  PROVE  Typed' /\ WireInv'
<1> DEFINE x == [intent[m] EXCEPT !.left = @ \ {c}]
           n == conns[c].node
<1>1. /\ x \in Deliveries /\ x.pc = intent[m].pc /\ x.pushed = intent[m].pushed
      /\ x.left = intent[m].left \ {c} /\ x.lost = intent[m].lost
      /\ x.targets = intent[m].targets /\ x.got = intent[m].got
      /\ x.notifies = intent[m].notifies
  BY DeliveryFacts DEF Deliveries
<1>2. /\ intent[m].pc = "sending" /\ c \in intent[m].left /\ Subscribed(n)
      /\ intent' = [intent EXCEPT ![m] = x]
      /\ PublishPacket(n, [close |-> FALSE, to |-> c, intent |-> m])
      /\ UNCHANGED <<conns, route, node, receiver, journal, excused, wireFaults>>
  BY DEF SendTo
<1> HIDE DEF x
<1>3. n \in Nodes /\ c \in Journaled
  BY <1>2, HandlerFacts, DeliveryFacts DEF Handlers
<1>4. /\ channel' \in [Nodes -> Seq(Packets)] /\ PacketsLast
      /\ \A k \in Nodes : \A q : \A j \in DOMAIN channel'[k] : channel'[k][j] = q =>
            PacketInv(k, q) \/ \E i \in DOMAIN channel[k] : channel[k][i] = q
      /\ \A y : OnItsWay(y, m) => OnItsWay(y, m)'
  BY <1>2, <1>3, MaybePublished
<1>5. OnItsWay(c, m)'
  <2>1. channel' # channel
    <3>1. channel[n] \in Seq(Packets) /\ channel \in [Nodes -> Seq(Packets)]
      BY <1>3 DEF Typed
    <3>2. channel'[n] = Append(channel[n], [close |-> FALSE, to |-> c, intent |-> m])
      BY <1>2, <1>3, <3>1 DEF PublishPacket
    <3>3. Len(channel'[n]) = Len(channel[n]) + 1 /\ Len(channel[n]) \in Nat
      BY <3>1, <3>2
    <3> QED
      BY <3>3
  <2> QED
    BY <1>2, <1>3, <2>1, MaybePublished
<1>6. \A y : Owns(y)' <=> Owns(y)
  BY <1>2 DEF Owns
<1>7. \A y \in x.targets :
            \/ y \in x.left \/ y \in x.got \/ y \in x.lost \/ ~Latest(y)
            \/ OnItsWay(y, m)'
            \/ (x.notifies => x.pushed) /\ (~Owns(y)' \/ y \in excused')
  BY <1>1, <1>2, <1>4, <1>5, <1>6, DeliveryFacts DEF GivenUp
<1>8. /\ intent[m].got \subseteq x.got
      /\ x.left \subseteq Journaled /\ x.targets \subseteq Journaled
      /\ x.pc = "sending" /\ wireFaults' \in 0 .. MaxWireFaults
      /\ excused \subseteq excused' /\ excused' \subseteq Generations
  BY <1>1, <1>2, DeliveryFacts
<1>9. /\ RoutesRemoved /\ route' \in [DeviceIds -> 0 .. Incarnations]
      /\ \A y \in Journaled : Owns(y) => Owns(y)'
  BY <1>2, DeliveryFacts
<1> QED
  BY <1>1, <1>2, <1>4, <1>7, <1>8, <1>9, DeliveryStep

LEMMA SendFailed ==
  ASSUME Typed, WireInv, NEW m \in IntentIds, NEW c \in Generations, SendFails(m, c)
  PROVE  Typed' /\ WireInv'
<1> DEFINE z == Pushed(m)[m]
           x == [z EXCEPT !.left = @ \ {c}]
<1>0. /\ z \in Deliveries /\ z.left = intent[m].left /\ z.pc = intent[m].pc
      /\ z.targets = intent[m].targets /\ z.got = intent[m].got
      /\ z.lost = intent[m].lost /\ (z.notifies => z.pushed)
      /\ Pushed(m) = [intent EXCEPT ![m] = z]
  BY PushedOne
<1>2. /\ intent[m].pc = "sending" /\ c \in intent[m].left
      /\ intent' = [Pushed(m) EXCEPT ![m].left = @ \ {c}]
      /\ UNCHANGED <<conns, node, receiver, journal>>
      /\ \/ /\ ~Subscribed(conns[c].node)
            /\ route' = Removed(c) /\ UNCHANGED <<channel, excused, wireFaults>>
         \/ /\ WireFault /\ excused' = excused \cup {c}
            /\ route' \in {route, Removed(c)}
      /\ \/ UNCHANGED channel
         \/ PublishPacket(conns[c].node, [close |-> FALSE, to |-> c, intent |-> m])
  BY DEF SendFails
<1>3. intent' = [intent EXCEPT ![m] = x]
  <2>1. intent \in [IntentIds -> Deliveries]
    BY DEF Typed
  <2>2. intent' = [Pushed(m) EXCEPT ![m] = x]
    BY <1>2 DEF x, z
  <2> HIDE DEF x, z
  <2> QED
    BY <1>0, <2>1, <2>2
<1> HIDE DEF z
<1>1. /\ x \in Deliveries /\ x.pc = intent[m].pc /\ x.left = intent[m].left \ {c}
      /\ x.targets = intent[m].targets /\ x.got = intent[m].got
      /\ x.lost = intent[m].lost /\ (x.notifies => x.pushed)
  BY <1>0 DEF Deliveries
<1> HIDE DEF x
<1>4. conns[c].node \in Nodes /\ c \in Journaled
  BY <1>2, HandlerFacts, DeliveryFacts DEF Handlers
<1>5. ~Subscribed(conns[c].node) => ~conns[c].open
  <2> SUFFICES ASSUME ~Subscribed(conns[c].node) PROVE ~conns[c].open
    OBVIOUS
  <2>1. conns[c].pc \in {"free", "gone"}
    BY <1>4 DEF WireInv, NodesInv, Subscribed
  <2> QED
    BY <2>1, HandlerFacts DEF HandlerInv
<1>6. RoutesRemoved /\ route' \in [DeviceIds -> 0 .. Incarnations]
  BY <1>2, RemovedFacts, DeliveryFacts DEF RoutesRemoved
<1>7. ASSUME NEW y \in Journaled, Owns(y), conns[y].open, y \notin excused' PROVE Owns(y)'
  <2>1. y # c
    BY <1>2, <1>5, <1>7
  <2>2. y \in Generations
    BY DeliveryFacts
  <2> QED
    BY <1>2, <1>7, <2>1, <2>2, RemovedFacts DEF Owns
<1>8. /\ wireFaults' \in 0 .. MaxWireFaults /\ excused \subseteq excused'
      /\ excused' \subseteq Generations
  BY <1>2, DeliveryFacts
<1>9. x.left \subseteq Journaled /\ x.targets \subseteq Journaled
  BY <1>1, DeliveryFacts
<1>10. /\ channel' \in [Nodes -> Seq(Packets)] /\ PacketsLast
       /\ \A k \in Nodes : \A q : \A j \in DOMAIN channel'[k] : channel'[k][j] = q =>
             PacketInv(k, q) \/ \E i \in DOMAIN channel[k] : channel[k][i] = q
       /\ \A y : OnItsWay(y, m) => OnItsWay(y, m)'
  BY <1>2, <1>4, MaybePublished
<1>11. ASSUME NEW y \in Journaled, ~Owns(y) PROVE ~Owns(y)'
  <2>1. SameLinks
    BY <1>2 DEF SameLinks
  <2> QED
    BY <1>6, <1>11, <2>1, OwnsLess DEF WireInv
<1>12. ~Owns(c)' \/ c \in excused'
  BY <1>2, RemovedFacts DEF Owns
<1>13. ASSUME NEW y \in x.targets
       PROVE  \/ y \in x.left \/ y \in x.got \/ y \in x.lost \/ ~Latest(y)
              \/ OnItsWay(y, m)'
              \/ (x.notifies => x.pushed) /\ (~Owns(y)' \/ y \in excused')
  <2>1. y \in Journaled
    BY <1>9
  <2>2. \/ y \in intent[m].left \/ y \in intent[m].got \/ y \in intent[m].lost
        \/ ~Latest(y) \/ OnItsWay(y, m) \/ ~Owns(y) \/ y \in excused
    BY <1>1, <1>2, DeliveryFacts DEF GivenUp
  <2> QED
    BY <1>1, <1>8, <1>10, <1>11, <1>12, <2>1, <2>2
<1> QED
  <2>1. /\ x \in Deliveries /\ x.pc = "sending" /\ intent[m].got \subseteq x.got
        /\ UNCHANGED <<conns, node, receiver, journal>>
    BY <1>1, <1>2
  <2>2. /\ channel' \in [Nodes -> Seq(Packets)] /\ PacketsLast
        /\ \A k \in Nodes : \A q : \A j \in DOMAIN channel'[k] : channel'[k][j] = q =>
             PacketInv(k, q) \/ \E i \in DOMAIN channel[k] : channel[k][i] = q
    BY <1>10
  <2> QED
    BY <1>3, <1>6, <1>7, <1>8, <1>9, <1>13, <2>1, <2>2, DeliveryStep

LEMMA HandedOn ==
  ASSUME Typed, WireInv, NEW m \in IntentIds, Handed(m)
  PROVE  Typed' /\ WireInv'
<1> DEFINE x == [intent[m] EXCEPT !.pc = "done"]
<1>1. /\ x \in Deliveries /\ x.pc = "done" /\ x.pushed = intent[m].pushed
      /\ x.left = intent[m].left /\ x.lost = intent[m].lost
      /\ x.targets = intent[m].targets /\ x.got = intent[m].got
      /\ x.notifies = intent[m].notifies
  BY DeliveryFacts DEF Deliveries
<1>2. /\ intent[m].pc = "sending" /\ intent[m].left = {}
      /\ intent' = [intent EXCEPT ![m] = x]
      /\ UNCHANGED <<conns, route, node, channel, receiver, journal, excused, wireFaults>>
  BY DEF Handed, Typed
<1> HIDE DEF x
<1>3. \A y : Owns(y)' <=> Owns(y)
  BY <1>2 DEF Owns
<1>4. \A y \in x.targets :
            \/ y \in x.left \/ y \in x.got \/ y \in x.lost \/ ~Latest(y)
            \/ OnItsWay(y, m)'
            \/ (x.notifies => x.pushed) /\ (~Owns(y)' \/ y \in excused')
  BY <1>1, <1>2, <1>3, DeliveryFacts DEF GivenUp
<1> QED
  <2>1. /\ intent[m].got \subseteq x.got /\ x.left = {} /\ x.pc = "done"
        /\ UNCHANGED <<conns, node, receiver, journal>>
    BY <1>1, <1>2
  <2>2. x.targets \subseteq Journaled
    BY <1>1, DeliveryFacts
  <2>3. /\ channel' \in [Nodes -> Seq(Packets)] /\ PacketsLast
        /\ \A k \in Nodes : \A q : \A j \in DOMAIN channel'[k] : channel'[k][j] = q =>
             PacketInv(k, q) \/ \E i \in DOMAIN channel[k] : channel[k][i] = q
    BY <1>2, DeliveryFacts
  <2>4. /\ RoutesRemoved /\ route' \in [DeviceIds -> 0 .. Incarnations]
        /\ excused \subseteq excused' /\ excused' \subseteq Generations
        /\ wireFaults' \in 0 .. MaxWireFaults
    BY <1>2, DeliveryFacts
  <2>5. \A y \in Journaled : Owns(y) => Owns(y)'
    BY <1>3
  <2> QED
    BY <1>1, <1>2, <1>4, <2>1, <2>2, <2>3, <2>4, <2>5, DeliveryStep

LEMMA BegunAgain ==
  ASSUME Typed, WireInv, NEW m \in IntentIds, DeliverAgain(m)
  PROVE  Typed' /\ WireInv'
<1> DEFINE x == [intent[m] EXCEPT !.pc = "new", !.left = {}, !.targets = {}]
<1>1. /\ x \in Deliveries /\ x.pc = "new" /\ x.left = {}
      /\ x.targets = {} /\ x.got = intent[m].got
  BY DeliveryFacts DEF Deliveries
<1>2. /\ WireFault /\ intent' = [intent EXCEPT ![m] = x]
      /\ UNCHANGED <<conns, route, node, channel, receiver, journal, excused>>
  BY DEF DeliverAgain, Typed
<1> HIDE DEF x
<1> QED
  BY <1>1, <1>2, DeliveryFacts, DeliveryStep

-----------------------------------------------------------------------------
(* Receivers                                                               *)

(* A receiver takes packets, and closes sessions. *)
PacketsFewer == \A n \in Nodes : \A j \in DOMAIN channel'[n] :
    \E i \in DOMAIN channel[n] : channel[n][i] = channel'[n][j]
HandlersStay == \A c \in Generations :
    /\ conns'[c].pc = conns[c].pc /\ conns'[c].device = conns[c].device
    /\ conns'[c].node = conns[c].node /\ conns'[c].listed = conns[c].listed
    /\ conns'[c].writer = conns[c].writer /\ conns'[c].previous = conns[c].previous
    /\ conns'[c].open => conns[c].open

(* Only writes of the node change, and one is under way only if the        *)
(* receiver waits for it. *)
WritesRight(n, r) ==
    /\ \A c \in Generations : conns[c].pc \in {"free", "admitted"} => conns'[c].write = "none"
    /\ \A c \in Generations : conns[c].node # n => conns'[c].write = conns[c].write
    /\ \A c \in Generations : conns[c].node = n =>
          /\ conns'[c].write = "done" => conns[c].writer = "loop" /\ c \in intent'[r.intent].got
          /\ conns[c].writer = "loop" /\ conns'[c].write \in {"queued", "done"} =>
                r.pc = "wait" /\ r.to = c

(* What is on its way stays so or is settled. *)
PacketsSettle == \A c \in Generations : \A m \in IntentIds :
    OnItsWay(c, m) => OnItsWay(c, m)' \/ Settled(c, m)'

LEMMA ReceiverStep ==
  ASSUME Typed, WireInv, NEW n \in Nodes, NEW r \in Receivers,
         receiver' = [receiver EXCEPT ![n] = r], ReceiverInv(n, r)',
         UNCHANGED <<node, journal>>,
         conns' \in [Generations -> Handlers], HandlersStay,
         WritesRight(n, r),
         channel' \in [Nodes -> Seq(Packets)], PacketsFewer,
         route' \in [DeviceIds -> 0 .. Incarnations], RoutesRemoved,
         excused \subseteq excused', excused' \subseteq Generations,
         wireFaults' \in 0 .. MaxWireFaults,
         \A y \in Journaled : Owns(y) /\ conns'[y].open /\ y \notin excused' => Owns(y)',
         intent' \in [IntentIds -> Deliveries], IntentsStay, PacketsSettle
  PROVE  Typed' /\ WireInv'
<1>1. /\ receiver' \in [Nodes -> Receivers] /\ receiver'[n] = r
      /\ \A k \in Nodes : k # n => receiver'[k] = receiver[k]
  BY DEF Typed
<1>2. Typed'
  BY <1>1 DEF Typed
<1>3. SameLinks
  BY DEF SameLinks, HandlersStay
<1>4. Journaled' = Journaled /\ Journaled \subseteq Generations
  BY <1>3, LinksStay, JournaledTyped DEF WireInv
<1>5. HandlersInv'
  <2>1. ASSUME NEW c \in Generations PROVE HandlerInv(c, conns[c])'
    <3>1. HandlerInv(c, conns[c])
      BY DEF WireInv, HandlersInv
    <3> QED
      BY <1>4, <3>1 DEF HandlerInv, HandlersStay, WritesRight
  <2> QED
    BY <2>1 DEF HandlersInv
<1>6. SessionsClose
  BY <1>4 DEF SessionsClose, HandlersStay
<1>7. RoutesInv' /\ ReachInv'
  BY <1>3, <1>6, RoutesKept, ReachKept DEF WireInv
<1>8. NodesInv'
  <2>1. ASSUME NEW k \in Nodes, node'[k].phase = "down", NEW c \in Generations, conns'[c].node = k
        PROVE  conns'[c].pc \in {"free", "gone"}
    BY <2>1 DEF WireInv, NodesInv, HandlersStay
  <2>2. ASSUME NEW k \in Nodes, NEW p, NEW i \in DOMAIN channel'[k], channel'[k][i] = p
        PROVE  PacketInv(k, p)'
    <3>0. \E j \in DOMAIN channel[k] : channel[k][j] = channel'[k][i]
      BY <2>2, Zenon DEF PacketsFewer
    <3>1. PICK j \in DOMAIN channel[k] : channel[k][j] = p
      BY <2>2, <3>0
    <3>2. PacketInv(k, p)
      BY <3>1 DEF WireInv, NodesInv
    <3> QED
      BY <1>3, <3>2, AddressedStays DEF WireInv, PacketInv
  <2>3. ASSUME NEW k \in Nodes, NEW x, receiver'[k] = x PROVE ReceiverInv(k, x)'
    <3>1. CASE k = n
      <4>1. x = r
        BY <1>1, <2>3, <3>1
      <4> QED
        BY <3>1, <4>1
    <3>2. CASE k # n
      <4>1. ReceiverInv(k, x)
        BY <1>1, <2>3, <3>2 DEF WireInv, NodesInv
      <4> QED
        BY <1>3, <1>6, <4>1, ReceiverKept DEF WireInv
    <3> QED
      BY <3>1, <3>2
  <2> QED
    BY <2>1, <2>2, <2>3, NodesFrom
<1>9. WritesInv'
  <2> SUFFICES ASSUME NEW c \in Generations
               PROVE  /\ conns'[c].write = "done" =>
                           /\ conns'[c].writer = "loop"
                           /\ c \in intent'[receiver'[conns'[c].node].intent].got
                      /\ conns'[c].writer = "loop" /\ conns'[c].write \in {"queued", "done"} =>
                           /\ receiver'[conns'[c].node].pc = "wait"
                           /\ receiver'[conns'[c].node].to = c
    BY DEF WritesInv
  <2>1. CASE conns[c].node = n
    <3>1. conns'[c].node = n /\ conns'[c].writer = conns[c].writer
      BY <2>1 DEF HandlersStay
    <3>2. /\ conns'[c].write = "done" => conns[c].writer = "loop" /\ c \in intent'[r.intent].got
          /\ conns[c].writer = "loop" /\ conns'[c].write \in {"queued", "done"} =>
                r.pc = "wait" /\ r.to = c
      BY <2>1 DEF WritesRight
    <3> QED
      BY <1>1, <3>1, <3>2
  <2>2. CASE conns[c].node # n
    <3> DEFINE k == conns[c].node
    <3>1. k \in Nodes /\ conns'[c].node = k
      BY DEF Typed, Handlers, HandlersStay
    <3>2. /\ conns[c].write = "done" => conns[c].writer = "loop" /\ c \in intent[receiver[k].intent].got
          /\ conns[c].writer = "loop" /\ conns[c].write \in {"queued", "done"} =>
                receiver[k].pc = "wait" /\ receiver[k].to = c
      BY DEF WireInv, WritesInv
    <3>3. conns[c].write = "done" => receiver[k].intent \in IntentIds
      BY <3>1, <3>2 DEF WireInv, NodesInv, ReceiverInv, Addressed
    <3>4. /\ conns'[c].write = conns[c].write /\ conns'[c].writer = conns[c].writer
          /\ receiver'[k] = receiver[k]
      BY <1>1, <2>2, <3>1 DEF HandlersStay, WritesRight
    <3> QED
      BY <3>1, <3>2, <3>3, <3>4 DEF IntentsStay
  <2> QED
    BY <2>1, <2>2
<1>10. IntentsInv'
  <2>1. SessionsClose
    BY <1>4 DEF SessionsClose, HandlersStay
  <2> QED
    BY <1>3, <2>1, IntentsKept DEF WireInv, PacketsSettle
<1> QED
  BY <1>2, <1>5, <1>7, <1>8, <1>9, <1>10 DEF WireInv

(* What the receiver takes from its channel. *)
LEMMA Taken ==
  ASSUME Typed, WireInv, NEW n \in Nodes, channel[n] # <<>>,
         channel' = [channel EXCEPT ![n] = Tail(@)]
  PROVE  /\ channel' \in [Nodes -> Seq(Packets)] /\ PacketsFewer
         /\ Head(channel[n]) \in Packets /\ PacketInv(n, Head(channel[n]))
         /\ \A k \in Nodes : \A i \in DOMAIN channel[k] :
               \/ k = n /\ channel[k][i] = Head(channel[n])
               \/ \E j \in DOMAIN channel'[k] : channel'[k][j] = channel[k][i]
<1> DEFINE s == channel[n]
<1>1. s \in Seq(Packets) /\ s # <<>>
  BY DEF Typed
<1>2. /\ Len(s) \in Nat /\ Len(s) > 0 /\ DOMAIN s = 1 .. Len(s)
      /\ Tail(s) \in Seq(Packets) /\ Head(s) = s[1] /\ s[1] \in Packets
      /\ DOMAIN Tail(s) = 1 .. Len(s) - 1
      /\ \A i \in 1 .. Len(s) - 1 : Tail(s)[i] = s[i + 1]
  BY <1>1
<1>3. /\ channel' \in [Nodes -> Seq(Packets)] /\ channel'[n] = Tail(s)
      /\ \A k \in Nodes : k # n => channel'[k] = channel[k]
  BY <1>2 DEF Typed
<1> HIDE DEF s
<1>4. \A j \in DOMAIN Tail(s) : j + 1 \in DOMAIN s /\ s[j + 1] = Tail(s)[j]
  BY <1>2
<1>5. \A i \in DOMAIN s : \/ s[i] = Head(s)
                          \/ i - 1 \in DOMAIN Tail(s) /\ Tail(s)[i - 1] = s[i]
  BY <1>2
<1>6. channel[n] = s
  BY DEF s
<1>7. PacketsFewer
  BY <1>3, <1>4, <1>6 DEF PacketsFewer
<1>8. PacketInv(n, channel[n][1])
  BY <1>2, <1>6 DEF WireInv, NodesInv
<1>9. channel[n][1] = Head(channel[n])
  BY <1>2, <1>6
<1>10. PacketInv(n, Head(channel[n]))
  BY <1>8, <1>9
<1>11. ASSUME NEW k \in Nodes, NEW i \in DOMAIN channel[k]
       PROVE  \/ k = n /\ channel[k][i] = Head(channel[n])
              \/ \E j \in DOMAIN channel'[k] : channel'[k][j] = channel[k][i]
  <2>1. CASE k = n
    BY <1>3, <1>5, <1>6, <1>11, <2>1
  <2>2. CASE k # n
    BY <1>3, <1>11, <2>2
  <2> QED
    BY <2>1, <2>2
<1>12. Head(channel[n]) \in Packets
  BY <1>2, <1>6
<1> QED
  BY <1>3, <1>7, <1>10, <1>11, <1>12

(* What is left on its way when a receiver has gone on. *)
LEMMA StillOnItsWay ==
  ASSUME Typed, NEW n \in Nodes, NEW c, NEW m, OnItsWay(c, m),
         \A k \in Nodes : k # n => receiver'[k] = receiver[k],
         \A k \in Nodes : \A i \in DOMAIN channel[k] :
               \/ k = n /\ channel[k][i] = Head(channel[n])
               \/ \E j \in DOMAIN channel'[k] : channel'[k][j] = channel[k][i]
  PROVE  \/ OnItsWay(c, m)'
         \/ receiver[n].pc # "idle" /\ receiver[n].to = c /\ receiver[n].intent = m
         \/ /\ Head(channel[n]).to = c /\ Head(channel[n]).intent = m
            /\ ~Head(channel[n]).close /\ channel' # channel
<1>1. PICK k \in Nodes :
        \/ \E i \in DOMAIN channel[k] :
              channel[k][i].to = c /\ channel[k][i].intent = m /\ ~channel[k][i].close
        \/ receiver[k].pc # "idle" /\ receiver[k].to = c /\ receiver[k].intent = m
  BY DEF OnItsWay
<1>2. CASE \E i \in DOMAIN channel[k] :
              channel[k][i].to = c /\ channel[k][i].intent = m /\ ~channel[k][i].close
  <2>1. PICK i \in DOMAIN channel[k] :
              channel[k][i].to = c /\ channel[k][i].intent = m /\ ~channel[k][i].close
    BY <1>2
  <2>2. CASE channel' = channel
    BY <2>1, <2>2 DEF OnItsWay
  <2>3. CASE \E j \in DOMAIN channel'[k] : channel'[k][j] = channel[k][i]
    <3>1. \E j \in DOMAIN channel'[k] :
              channel'[k][j].to = c /\ channel'[k][j].intent = m /\ ~channel'[k][j].close
      BY <2>1, <2>3
    <3> QED
      BY <3>1 DEF OnItsWay
  <2>4. CASE channel' # channel /\ channel[k][i] = Head(channel[n])
    BY <2>1, <2>4
  <2> QED
    BY <2>2, <2>3, <2>4
<1>3. CASE receiver[k].pc # "idle" /\ receiver[k].to = c /\ receiver[k].intent = m
  BY <1>3 DEF OnItsWay
<1> QED
  BY <1>1, <1>2, <1>3

LEMMA ReceiverFacts ==
  ASSUME Typed, WireInv, NEW n \in Nodes
  PROVE  /\ receiver[n] \in Receivers /\ ReceiverInv(n, receiver[n])
         /\ receiver[n].pc # "idle" =>
               /\ receiver[n].to \in Journaled /\ receiver[n].to \in Generations
               /\ conns[receiver[n].to].node = n /\ receiver[n].intent \in IntentIds
         /\ UNCHANGED channel =>
               /\ channel' \in [Nodes -> Seq(Packets)] /\ PacketsFewer
               /\ \A k \in Nodes : \A i \in DOMAIN channel[k] :
                     \/ k = n /\ channel[k][i] = Head(channel[n])
                     \/ \E j \in DOMAIN channel'[k] : channel'[k][j] = channel[k][i]
         /\ UNCHANGED conns => conns' \in [Generations -> Handlers] /\ HandlersStay
         /\ UNCHANGED <<conns, journal>> /\ excused \subseteq excused' => SameLinks /\ SessionsClose
         /\ UNCHANGED route => route' \in [DeviceIds -> 0 .. Incarnations] /\ RoutesRemoved
         /\ UNCHANGED intent => intent' \in [IntentIds -> Deliveries] /\ IntentsStay
         /\ \A c \in Generations : conns[c].pc \in {"free", "admitted"} => conns[c].write = "none"
         /\ receiver[n].pc # "wait" => \A c \in Generations : conns[c].node = n =>
               /\ conns[c].write # "done"
               /\ conns[c].writer = "loop" => conns[c].write \notin {"queued", "done"}
         /\ wireFaults \in 0 .. MaxWireFaults /\ excused \subseteq Generations
         /\ WireFault => wireFaults' \in 0 .. MaxWireFaults
<1>1. WireFault => wireFaults' \in 0 .. MaxWireFaults
  BY ConnectionsAssumption DEF WireFault, Typed
<1>2. receiver[n] \in Receivers /\ ReceiverInv(n, receiver[n])
  BY DEF Typed, WireInv, NodesInv
<1>3. receiver[n].pc # "idle" =>
               /\ receiver[n].to \in Journaled /\ receiver[n].to \in Generations
               /\ conns[receiver[n].to].node = n /\ receiver[n].intent \in IntentIds
  BY <1>2, JournaledTyped DEF ReceiverInv, Addressed
<1>4. UNCHANGED channel =>
               /\ channel' \in [Nodes -> Seq(Packets)] /\ PacketsFewer
               /\ \A k \in Nodes : \A i \in DOMAIN channel[k] :
                     \/ k = n /\ channel[k][i] = Head(channel[n])
                     \/ \E j \in DOMAIN channel'[k] : channel'[k][j] = channel[k][i]
  BY DEF PacketsFewer, Typed
<1>5. UNCHANGED conns => conns' \in [Generations -> Handlers] /\ HandlersStay
  BY DEF HandlersStay, Typed
<1>6. UNCHANGED <<conns, journal>> /\ excused \subseteq excused' => SameLinks /\ SessionsClose
  BY DEF SameLinks, SessionsClose
<1>7. UNCHANGED route => route' \in [DeviceIds -> 0 .. Incarnations] /\ RoutesRemoved
  BY DEF RoutesRemoved, Typed
<1>8. UNCHANGED intent => intent' \in [IntentIds -> Deliveries] /\ IntentsStay
  BY DEF IntentsStay, Typed
<1>9. \A c \in Generations : conns[c].pc \in {"free", "admitted"} => conns[c].write = "none"
  BY DEF WireInv, HandlersInv, HandlerInv
<1>10. receiver[n].pc # "wait" => \A c \in Generations : conns[c].node = n =>
               /\ conns[c].write # "done"
               /\ conns[c].writer = "loop" => conns[c].write \notin {"queued", "done"}
  BY DEF WireInv, WritesInv
<1>11. wireFaults \in 0 .. MaxWireFaults /\ excused \subseteq Generations
  BY DEF Typed
<1> QED
  BY <1>1, <1>2, <1>3, <1>4, <1>5, <1>6, <1>7, <1>8, <1>9, <1>10, <1>11

LEMMA RestTyped == Receiving \in Receivers
<1>1. 0 \in 0 .. Incarnations /\ 0 \in 0 .. Intents
  BY Numbers
<1> QED
  BY <1>1 DEF Receivers, Receiving

LEMMA FailTyped ==
  ASSUME Typed, NEW n \in Nodes
  PROVE  [receiver[n] EXCEPT !.pc = "fail"] \in Receivers
<1>1. receiver[n] \in Receivers
  BY DEF Typed
<1> QED
  BY <1>1 DEF Receivers

(* A receiver that touches neither a connection nor a route nor an intent, *)
(* and was not waiting for a write.                                        *)
LEMMA ReceiverGoesOn ==
  ASSUME Typed, WireInv, NEW n \in Nodes, NEW r \in Receivers,
         receiver[n].pc # "wait", receiver' = [receiver EXCEPT ![n] = r], ReceiverInv(n, r)',
         UNCHANGED <<conns, route, node, intent, journal>>,
         channel' \in [Nodes -> Seq(Packets)], PacketsFewer,
         excused \subseteq excused', excused' \subseteq Generations,
         wireFaults' \in 0 .. MaxWireFaults,
         PacketsSettle
  PROVE  Typed' /\ WireInv'
<1>1. \A c \in Generations : conns[c].node = n =>
            /\ conns'[c].write = "done" => conns[c].writer = "loop" /\ c \in intent'[r.intent].got
            /\ conns[c].writer = "loop" /\ conns'[c].write \in {"queued", "done"} =>
                  r.pc = "wait" /\ r.to = c
  BY ReceiverFacts
<1>2. \A y \in Journaled : Owns(y) => Owns(y)'
  BY DEF Owns
<1>3. \A c \in Generations : conns[c].pc \in {"free", "admitted"} => conns'[c].write = "none"
  BY ReceiverFacts
<1>4. \A c \in Generations : conns[c].node # n => conns'[c].write = conns[c].write
  OBVIOUS
<1>5. WritesRight(n, r)
  BY <1>1, <1>3, <1>4 DEF WritesRight
<1> QED
  BY <1>2, <1>5, ReceiverFacts, ReceiverStep

(* Receive and OwnsFails. *)
LEMMA PacketReceived ==
  ASSUME Typed, WireInv, NEW n \in Nodes, Receive(n) \/ OwnsFails(n)
  PROVE  Typed' /\ WireInv'
<1>1. /\ receiver[n].pc = "idle" /\ channel[n] # <<>> /\ ~Head(channel[n]).close
      /\ channel' = [channel EXCEPT ![n] = Tail(@)]
      /\ UNCHANGED <<conns, route, node, intent, journal>>
      /\ excused \subseteq excused'
  BY DEF Receive, OwnsFails
<1>2. PICK p \in Packets : p = Head(channel[n])
  BY <1>1, Taken
<1>3. PacketInv(n, p) /\ ~p.close
  BY <1>1, <1>2, Taken
<1>4. Addressed(n, p.to, p.intent)
  BY <1>3 DEF PacketInv
<1>5. p.to \in Generations /\ p.to \in 0 .. Incarnations /\ p.intent \in 0 .. Intents
  BY <1>4, JournaledTyped, Numbers DEF Addressed
<1>6. \/ /\ receiver' = [receiver EXCEPT ![n] = [pc |-> IF Owns(p.to) THEN "write" ELSE "list",
                                                 to |-> p.to, intent |-> p.intent]]
         /\ UNCHANGED <<excused, wireFaults>>
      \/ /\ receiver' = [receiver EXCEPT ![n] = [pc |-> "fail", to |-> p.to, intent |-> p.intent]]
         /\ excused' = excused \cup {p.to} /\ WireFault
  BY <1>2 DEF Receive, OwnsFails
<1>7. PICK pc \in {"write", "list", "fail"} :
        /\ receiver' = [receiver EXCEPT ![n] = [pc |-> pc, to |-> p.to, intent |-> p.intent]]
        /\ pc = "list" => ~Owns(p.to)
        /\ pc = "fail" => p.to \in excused'
  BY <1>6
<1>8. PICK r \in Receivers : r = [pc |-> pc, to |-> p.to, intent |-> p.intent]
  BY <1>5 DEF Receivers
<1>9. /\ r.pc = pc /\ r.to = p.to /\ r.intent = p.intent
      /\ receiver' = [receiver EXCEPT ![n] = r] /\ receiver'[n] = r
  BY <1>7, <1>8 DEF Typed
<1>10. wireFaults' \in 0 .. MaxWireFaults /\ excused' \subseteq Generations
  BY <1>5, <1>6, ReceiverFacts
<1>11. ReceiverInv(n, r)'
  <2>1. Addressed(n, r.to, r.intent)'
    BY <1>1, <1>4, <1>9, ReceiverFacts, AddressedStays DEF WireInv
  <2>2. Owns(r.to)' => Owns(p.to)
    BY <1>1, <1>9 DEF Owns
  <2> QED
    BY <1>7, <1>9, <2>1, <2>2 DEF ReceiverInv
<1>12. ASSUME NEW c \in Generations, NEW m \in IntentIds, OnItsWay(c, m) PROVE OnItsWay(c, m)'
  <2>1. \/ OnItsWay(c, m)'
        \/ receiver[n].pc # "idle" /\ receiver[n].to = c /\ receiver[n].intent = m
        \/ p.to = c /\ p.intent = m
    <3>1. \A k \in Nodes : k # n => receiver'[k] = receiver[k]
      BY <1>9 DEF Typed
    <3>2. \A k \in Nodes : \A i \in DOMAIN channel[k] :
               \/ k = n /\ channel[k][i] = Head(channel[n])
               \/ \E j \in DOMAIN channel'[k] : channel'[k][j] = channel[k][i]
      BY <1>1, Taken
    <3>3. \/ OnItsWay(c, m)'
          \/ receiver[n].pc # "idle" /\ receiver[n].to = c /\ receiver[n].intent = m
          \/ Head(channel[n]).to = c /\ Head(channel[n]).intent = m
      BY <1>12, <3>1, <3>2, StillOnItsWay
    <3> QED
      BY <1>2, <3>3
  <2>2. p.to = c /\ p.intent = m => OnItsWay(c, m)'
    BY <1>7, <1>9 DEF OnItsWay
  <2> QED
    BY <1>1, <2>1, <2>2
<1>13. PacketsSettle
  BY <1>12 DEF PacketsSettle
<1> QED
  BY <1>1, <1>9, <1>10, <1>11, <1>13, Taken, ReceiverGoesOn

(* A connection whose route is another's was registered again. *)
LEMMA Reregistered ==
  ASSUME Typed, WireInv, NEW c \in Journaled, Superseded(c), ~Owns(c)
  PROVE  ~Latest(c)
<1>1. c \in Generations /\ conns[c].device \in DeviceIds
  BY JournaledTyped DEF Typed, Handlers
<1>2. PICK x \in Generations : x = route[conns[c].device]
  BY <1>1, Numbers DEF Superseded, Typed
<1>3. x \in Journaled /\ conns[x].device = conns[c].device /\ Latest(x)
  BY <1>1, <1>2 DEF WireInv, RoutesInv
<1>4. x # c
  BY <1>2 DEF Owns
<1> QED
  BY <1>3, <1>4, OneLatest

LEMMA Reconsidered ==
  ASSUME Typed, WireInv, NEW n \in Nodes, Reconsider(n)
  PROVE  Typed' /\ WireInv'
<1> DEFINE to == receiver[n].to
<1>1. /\ receiver[n].pc = "list"
      /\ UNCHANGED <<conns, route, node, channel, intent, journal, excused>>
      /\ wireFaults' \in 0 .. MaxWireFaults
  BY ReceiverFacts DEF Reconsider
<1>2. to \in Journaled /\ to \in Generations /\ ~Owns(to)
  BY <1>1, ReceiverFacts DEF ReceiverInv
<1>3. ASSUME NEW c \in Generations, NEW m \in IntentIds, OnItsWay(c, m),
             \A k \in Nodes : k # n => receiver'[k] = receiver[k]
      PROVE  OnItsWay(c, m)' \/ (to = c /\ receiver[n].intent = m)
  BY <1>1, <1>3, ReceiverFacts, StillOnItsWay
<1>4. CASE Superseded(to) /\ Rest(n)
  <2>1. PICK r \in Receivers : r = Receiving
    BY RestTyped
  <2>2. receiver' = [receiver EXCEPT ![n] = r]
    BY <1>4, <2>1 DEF Rest
  <2>3. ReceiverInv(n, r)'
    BY <2>1 DEF ReceiverInv, Receiving
  <2>5. ASSUME NEW c \in Generations, NEW m \in IntentIds, OnItsWay(c, m)
        PROVE  OnItsWay(c, m)' \/ Settled(c, m)'
    <3>1. OnItsWay(c, m)' \/ c = to
      BY <1>3, <2>2, <2>5 DEF Typed
    <3>2. c = to => Settled(c, m)'
      <4>1. to = receiver[n].to
        OBVIOUS
      <4> SUFFICES ASSUME c = to PROVE ~Latest(c)'
        BY DEF Settled
      <4>2. ~Latest(c)
        BY <1>2, <1>4, Reregistered
      <4> QED
        BY <1>1, <4>2, ReceiverFacts, LinksStay DEF WireInv
    <3> QED
      BY <3>1, <3>2
  <2>6. PacketsSettle
    BY <2>5 DEF PacketsSettle
  <2> QED
    BY <1>1, <2>2, <2>3, <2>6, ReceiverFacts, ReceiverGoesOn
<1>5. CASE Step(n, "fail")
  <2>1. PICK r \in Receivers : r = [receiver[n] EXCEPT !.pc = "fail"]
    BY FailTyped
  <2>2. /\ receiver' = [receiver EXCEPT ![n] = r] /\ receiver'[n] = r
        /\ r.pc = "fail" /\ r.to = to /\ r.intent = receiver[n].intent
    BY <1>5, <2>1, ReceiverFacts DEF Step, Typed, Receivers
  <2>3. ReceiverInv(n, r)
    BY <1>1, <1>2, <2>2, ReceiverFacts DEF ReceiverInv
  <2>4. ReceiverInv(n, r)'
    BY <1>1, <2>3, ReceiverFacts, ReceiverKept DEF WireInv
  <2>5. ASSUME NEW c \in Generations, NEW m \in IntentIds, OnItsWay(c, m)
        PROVE  OnItsWay(c, m)'
    <3>1. OnItsWay(c, m)' \/ (to = c /\ receiver[n].intent = m)
      BY <1>3, <2>2, <2>5 DEF Typed
    <3>2. to = c /\ receiver[n].intent = m => OnItsWay(c, m)'
      BY <2>2 DEF OnItsWay
    <3> QED
      BY <3>1, <3>2
  <2>6. PacketsSettle
    BY <2>5 DEF PacketsSettle
  <2> QED
    BY <1>1, <2>2, <2>4, <2>6, ReceiverFacts, ReceiverGoesOn
<1> QED
  BY <1>4, <1>5 DEF Reconsider

(* A connection of the receiver's node whose session or write changes. *)
LEMMA HandlerOfReceiver ==
  ASSUME Typed, NEW c \in Generations, NEW open \in BOOLEAN,
         NEW write \in {"none", "queued", "done", "failed"},
         open => conns[c].open,
         conns' = [conns EXCEPT ![c] = [conns[c] EXCEPT !.open = open, !.write = write]]
  PROVE  /\ conns' \in [Generations -> Handlers] /\ HandlersStay
         /\ conns'[c].open = open /\ conns'[c].write = write
         /\ \A x \in Generations : x # c => conns'[x] = conns[x]
<1> DEFINE h == [conns[c] EXCEPT !.open = open, !.write = write]
<1>1. conns[c] \in Handlers
  BY DEF Typed
<1>2. /\ h \in Handlers /\ h.pc = conns[c].pc /\ h.device = conns[c].device
      /\ h.node = conns[c].node /\ h.listed = conns[c].listed /\ h.open = open
      /\ h.writer = conns[c].writer /\ h.write = write /\ h.previous = conns[c].previous
  BY <1>1 DEF Handlers
<1> HIDE DEF h
<1>3. conns' = [conns EXCEPT ![c] = h]
  BY DEF h
<1> QED
  BY <1>2, <1>3 DEF HandlersStay, Typed

LEMMA CloseReceived ==
  ASSUME Typed, WireInv, NEW n \in Nodes, ReceiveClose(n)
  PROVE  Typed' /\ WireInv'
<1>1. /\ receiver[n].pc = "idle" /\ channel[n] # <<>> /\ Head(channel[n]).close
      /\ channel' = [channel EXCEPT ![n] = Tail(@)]
      /\ UNCHANGED <<route, node, receiver, intent, journal, excused, wireFaults>>
  BY DEF ReceiveClose
<1>2. PICK c \in Generations : c = Head(channel[n]).to
  BY <1>1, Taken DEF Packets
<1>3. conns' = conns \/ conns' = [conns EXCEPT ![c] = Closed(conns[c])]
  BY <1>2 DEF ReceiveClose
<1>4. /\ conns' \in [Generations -> Handlers] /\ HandlersStay
      /\ \A x \in Generations : conns'[x].write = conns[x].write
  <2>1. CASE conns' = conns
    BY <2>1, ReceiverFacts
  <2>2. CASE conns' = [conns EXCEPT ![c] = Closed(conns[c])]
    <3>1. conns[c] \in Handlers
      BY DEF Typed
    <3>2. Closed(conns[c]) = [conns[c] EXCEPT !.open = FALSE, !.write = conns[c].write]
      BY <3>1 DEF Closed, Handlers
    <3>3. conns[c].write \in {"none", "queued", "done", "failed"}
      BY <3>1 DEF Handlers
    <3>4. conns' = [conns EXCEPT ![c] = [conns[c] EXCEPT !.open = FALSE, !.write = conns[c].write]]
      BY <2>2, <3>2
    <3> QED
      BY <3>3, <3>4, HandlerOfReceiver
  <2> QED
    BY <1>3, <2>1, <2>2
<1>5. PICK r \in Receivers : r = receiver[n]
  BY ReceiverFacts
<1>6. receiver' = [receiver EXCEPT ![n] = r] /\ r = Receiving /\ r.pc = "idle"
  BY <1>1, <1>5, ReceiverFacts DEF Typed, ReceiverInv
<1>7. ReceiverInv(n, r)'
  BY <1>6 DEF ReceiverInv, Receiving
<1>8. ASSUME NEW x \in Generations, NEW m \in IntentIds, OnItsWay(x, m) PROVE OnItsWay(x, m)'
  BY <1>1, <1>8, Taken, StillOnItsWay
<1>9. \A y \in Journaled : Owns(y) => Owns(y)'
  BY <1>1, <1>4, JournaledTyped DEF Owns, HandlersStay
<1>10. \A x \in Generations : conns[x].node = n =>
            /\ conns'[x].write = "done" => conns[x].writer = "loop" /\ x \in intent'[r.intent].got
            /\ conns[x].writer = "loop" /\ conns'[x].write \in {"queued", "done"} =>
                  r.pc = "wait" /\ r.to = x
  BY <1>1, <1>4, ReceiverFacts
<1>11. \A x \in Generations : conns[x].pc \in {"free", "admitted"} => conns'[x].write = "none"
  BY <1>4, ReceiverFacts
<1>12. channel' \in [Nodes -> Seq(Packets)] /\ PacketsFewer
  BY <1>1, Taken
<1>13. /\ route' \in [DeviceIds -> 0 .. Incarnations] /\ RoutesRemoved
       /\ intent' \in [IntentIds -> Deliveries] /\ IntentsStay
       /\ excused \subseteq excused' /\ excused' \subseteq Generations
       /\ wireFaults' \in 0 .. MaxWireFaults
  BY <1>1, ReceiverFacts
<1>14. PacketsSettle
  BY <1>8 DEF PacketsSettle
<1>15. WritesRight(n, r)
  BY <1>4, <1>10, <1>11 DEF WritesRight
<1> QED
  BY <1>1, <1>4, <1>6, <1>7, <1>9, <1>12, <1>13, <1>14, <1>15, ReceiverStep

(* Pub/sub loses what the node would have received next. *)
LEMMA PacketLost ==
  ASSUME Typed, WireInv, NEW n \in Nodes, LosePacket(n)
  PROVE  Typed' /\ WireInv'
<1> DEFINE p == Head(channel[n])
<1>1. /\ channel[n] # <<>> /\ WireFault
      /\ channel' = [channel EXCEPT ![n] = Tail(@)]
      /\ intent' = IF p.close THEN intent
                   ELSE [intent EXCEPT ![p.intent].lost = @ \cup {p.to}]
      /\ UNCHANGED <<conns, route, node, receiver, journal, excused>>
  BY DEF LosePacket
<1>2. p \in Packets /\ PacketInv(n, p)
  BY <1>1, Taken
<1> HIDE DEF p
<1>3. ~p.close => p.intent \in IntentIds /\ p.to \in Generations
  BY <1>2, JournaledTyped DEF PacketInv, Addressed
<1>4. /\ intent' \in [IntentIds -> Deliveries] /\ IntentsStay
      /\ ~p.close => p.to \in intent'[p.intent].lost
  <2>1. CASE p.close
    BY <1>1, <2>1, ReceiverFacts
  <2>2. CASE ~p.close
    <3> DEFINE m == p.intent
               x == [intent[m] EXCEPT !.lost = @ \cup {p.to}]
    <3>1. intent[m] \in Deliveries /\ m \in IntentIds /\ p.to \in Generations
      BY <1>3, <2>2 DEF Typed
    <3>2. /\ x \in Deliveries /\ x.pc = intent[m].pc /\ x.left = intent[m].left
          /\ x.targets = intent[m].targets /\ x.got = intent[m].got
          /\ x.notifies = intent[m].notifies /\ x.pushed = intent[m].pushed
          /\ x.lost = intent[m].lost \cup {p.to}
      BY <3>1 DEF Deliveries
    <3>3. intent' = [intent EXCEPT ![m] = x]
      BY <1>1, <2>2
    <3> HIDE DEF x, m
    <3>4. /\ intent' \in [IntentIds -> Deliveries] /\ intent'[m] = x
          /\ \A k \in IntentIds : k # m => intent'[k] = intent[k]
      BY <3>1, <3>2, <3>3 DEF Typed
    <3>5. IntentsStay
      BY <3>2, <3>4 DEF IntentsStay
    <3>6. p.to \in intent'[m].lost
      BY <3>2, <3>4
    <3> QED
      BY <3>4, <3>5, <3>6 DEF m
  <2> QED
    BY <2>1, <2>2
<1>5. PICK r \in Receivers : r = receiver[n]
  BY ReceiverFacts
<1>6. receiver' = [receiver EXCEPT ![n] = r]
  BY <1>1, <1>5 DEF Typed
<1>7. ReceiverInv(n, r)'
  BY <1>1, <1>5, ReceiverFacts, ReceiverKept DEF WireInv
<1>8. ASSUME NEW x \in Generations, NEW k \in IntentIds, OnItsWay(x, k)
      PROVE  OnItsWay(x, k)' \/ Settled(x, k)'
  <2>1. PICK j \in Nodes :
          \/ \E i \in DOMAIN channel[j] :
                channel[j][i].to = x /\ channel[j][i].intent = k /\ ~channel[j][i].close
          \/ receiver[j].pc # "idle" /\ receiver[j].to = x /\ receiver[j].intent = k
    BY <1>8 DEF OnItsWay
  <2>2. CASE receiver[j].pc # "idle" /\ receiver[j].to = x /\ receiver[j].intent = k
    BY <1>1, <2>2 DEF OnItsWay
  <2>3. CASE \E i \in DOMAIN channel[j] :
                channel[j][i].to = x /\ channel[j][i].intent = k /\ ~channel[j][i].close
    <3>1. PICK i \in DOMAIN channel[j] :
                channel[j][i].to = x /\ channel[j][i].intent = k /\ ~channel[j][i].close
      BY <2>3
    <3>2. \/ channel[j][i] = p
          \/ \E l \in DOMAIN channel'[j] : channel'[j][l] = channel[j][i]
      BY <1>1, Taken DEF p
    <3>3. channel[j][i] = p => Settled(x, k)'
      BY <1>4, <3>1 DEF Settled
    <3>4. (\E l \in DOMAIN channel'[j] : channel'[j][l] = channel[j][i]) => OnItsWay(x, k)'
      BY <3>1 DEF OnItsWay
    <3> QED
      BY <3>2, <3>3, <3>4
  <2> QED
    BY <2>1, <2>2, <2>3
<1>9. PacketsSettle
  BY <1>8 DEF PacketsSettle
<1>10. WritesRight(n, r)
  <2>1. ASSUME NEW c \in Generations, conns[c].node = n
        PROVE  /\ conns[c].write = "done" => conns[c].writer = "loop" /\ c \in intent'[r.intent].got
               /\ conns[c].writer = "loop" /\ conns[c].write \in {"queued", "done"} =>
                     r.pc = "wait" /\ r.to = c
    <3>1. /\ conns[c].write = "done" => conns[c].writer = "loop" /\ c \in intent[r.intent].got
          /\ conns[c].writer = "loop" /\ conns[c].write \in {"queued", "done"} =>
                r.pc = "wait" /\ r.to = c
      BY <1>5, <2>1 DEF WireInv, WritesInv
    <3>2. r.pc = "wait" => r.intent \in IntentIds
      BY <1>5, ReceiverFacts
    <3> QED
      BY <1>4, <3>1, <3>2 DEF IntentsStay
  <2> QED
    BY <1>1, <2>1, ReceiverFacts DEF WritesRight
<1>11. \A y \in Journaled : Owns(y) => Owns(y)'
  BY <1>1 DEF Owns
<1>12. /\ channel' \in [Nodes -> Seq(Packets)] /\ PacketsFewer
       /\ wireFaults' \in 0 .. MaxWireFaults
       /\ conns' \in [Generations -> Handlers] /\ HandlersStay
       /\ route' \in [DeviceIds -> 0 .. Incarnations] /\ RoutesRemoved
       /\ excused \subseteq excused' /\ excused' \subseteq Generations
  BY <1>1, Taken, ReceiverFacts
<1> QED
  BY <1>1, <1>4, <1>6, <1>7, <1>9, <1>10, <1>11, <1>12, ReceiverStep

LEMMA Enqueued ==
  ASSUME Typed, WireInv, NEW n \in Nodes, Enqueue(n)
  PROVE  Typed' /\ WireInv'
<1>1. /\ receiver[n].pc = "write"
      /\ UNCHANGED <<route, node, channel, intent, journal, excused, wireFaults>>
  BY DEF Enqueue
<1>2. PICK c \in Generations : c = receiver[n].to
  BY <1>1, ReceiverFacts
<1>3. c \in Journaled /\ conns[c].node = n
  BY <1>1, <1>2, ReceiverFacts
<1>4. ASSUME NEW x \in Generations, NEW m \in IntentIds, OnItsWay(x, m), NEW r,
             receiver' = [receiver EXCEPT ![n] = r], r.pc # "idle",
             r.to = c, r.intent = receiver[n].intent
      PROVE  OnItsWay(x, m)'
  <2>1. receiver'[n] = r /\ \A k \in Nodes : k # n => receiver'[k] = receiver[k]
    BY <1>4 DEF Typed
  <2>2. OnItsWay(x, m)' \/ (receiver[n].to = x /\ receiver[n].intent = m)
    BY <1>1, <1>4, <2>1, ReceiverFacts, StillOnItsWay
  <2>3. receiver[n].to = x /\ receiver[n].intent = m => OnItsWay(x, m)'
    BY <1>2, <1>4, <2>1 DEF OnItsWay
  <2> QED
    BY <2>2, <2>3
<1>5. CASE conns' = [conns EXCEPT ![c].write = "queued"] /\ Step(n, "wait")
  <2>1. PICK r \in Receivers : r = [receiver[n] EXCEPT !.pc = "wait"]
    <3>1. receiver[n] \in Receivers
      BY ReceiverFacts
    <3>2. [receiver[n] EXCEPT !.pc = "wait"] \in Receivers
      BY <3>1 DEF Receivers
    <3> QED
      BY <3>2
  <2>2. /\ receiver' = [receiver EXCEPT ![n] = r]
        /\ r.pc = "wait" /\ r.to = c /\ r.intent = receiver[n].intent
    BY <1>2, <1>5, <2>1, ReceiverFacts DEF Step, Receivers
  <2>3. /\ conns' \in [Generations -> Handlers] /\ HandlersStay
        /\ conns'[c].write = "queued" /\ \A x \in Generations : x # c => conns'[x] = conns[x]
    <3>1. conns[c] \in Handlers /\ conns[c].open \in BOOLEAN
      BY DEF Typed, Handlers
    <3>2. [conns[c] EXCEPT !.write = "queued"]
            = [conns[c] EXCEPT !.open = conns[c].open, !.write = "queued"]
      BY <3>1 DEF Handlers
    <3>3. conns' = [conns EXCEPT ![c] = [conns[c] EXCEPT !.open = conns[c].open, !.write = "queued"]]
      BY <1>5, <3>2
    <3> QED
      BY <3>1, <3>3, HandlerOfReceiver
  <2>4. SameLinks /\ SessionsClose
    BY <1>1, <2>3, JournaledTyped DEF SameLinks, SessionsClose, HandlersStay
  <2>5. ReceiverInv(n, r)
    BY <1>1, <1>2, <2>2, ReceiverFacts DEF ReceiverInv
  <2>6. ReceiverInv(n, r)'
    BY <1>1, <2>4, <2>5, ReceiverFacts, ReceiverKept DEF WireInv
  <2>7. \A y \in Journaled : Owns(y) => Owns(y)'
    BY <1>1, <2>3, JournaledTyped DEF Owns, HandlersStay
  <2>8. \A x \in Generations : conns[x].node = n =>
            /\ conns'[x].write = "done" => conns[x].writer = "loop" /\ x \in intent'[r.intent].got
            /\ conns[x].writer = "loop" /\ conns'[x].write \in {"queued", "done"} =>
                  r.pc = "wait" /\ r.to = x
    BY <1>1, <2>2, <2>3, ReceiverFacts
  <2>9. \A x \in Generations : conns[x].pc \in {"free", "admitted"} => conns'[x].write = "none"
    <3>1. conns[c].pc \notin {"free", "admitted"}
      BY <1>3 DEF WireInv, HandlersInv, HandlerInv
    <3> QED
      BY <2>3, <3>1, ReceiverFacts
  <2>10. \A x \in Generations : conns[x].node # n => conns'[x].write = conns[x].write
    BY <1>3, <2>3
  <2>11. \A x \in Generations : \A m \in IntentIds : OnItsWay(x, m) => OnItsWay(x, m)'
    BY <1>4, <2>2
  <2>12. /\ channel' \in [Nodes -> Seq(Packets)] /\ PacketsFewer
         /\ route' \in [DeviceIds -> 0 .. Incarnations] /\ RoutesRemoved
         /\ intent' \in [IntentIds -> Deliveries] /\ IntentsStay
         /\ excused \subseteq excused' /\ excused' \subseteq Generations
         /\ wireFaults' \in 0 .. MaxWireFaults
    BY <1>1, ReceiverFacts
  <2>13. PacketsSettle
    BY <2>11 DEF PacketsSettle
  <2>14. WritesRight(n, r)
    BY <2>8, <2>9, <2>10 DEF WritesRight
  <2> QED
    BY <1>1, <2>2, <2>3, <2>6, <2>7, <2>12, <2>13, <2>14, ReceiverStep
<1>6. CASE (c \notin SessionsOf(n) \/ ~conns[c].open) /\ Step(n, "fail") /\ UNCHANGED conns
  <2>1. PICK r \in Receivers : r = [receiver[n] EXCEPT !.pc = "fail"]
    BY FailTyped
  <2>2. /\ receiver' = [receiver EXCEPT ![n] = r]
        /\ r.pc = "fail" /\ r.to = c /\ r.intent = receiver[n].intent
    BY <1>2, <1>6, <2>1, ReceiverFacts DEF Step, Receivers
  <2>3. ~conns[c].open
    BY <1>3, <1>6 DEF SessionsOf, WireInv, HandlersInv, HandlerInv
  <2>4. ReceiverInv(n, r)
    BY <1>1, <1>2, <2>2, <2>3, ReceiverFacts DEF ReceiverInv
  <2>5. ReceiverInv(n, r)'
    BY <1>1, <1>6, <2>4, ReceiverFacts, ReceiverKept DEF WireInv
  <2>6. PacketsSettle
    BY <1>4, <2>2 DEF PacketsSettle
  <2> QED
    BY <1>1, <1>6, <2>2, <2>5, <2>6, ReceiverFacts, ReceiverGoesOn
<1> QED
  BY <1>2, <1>5, <1>6 DEF Enqueue

(* The end of a write. *)
LEMMA WriteEnded ==
  ASSUME Typed, WireInv, NEW n \in Nodes, Written(n) \/ NotWritten(n)
  PROVE  Typed' /\ WireInv'
<1>1. /\ receiver[n].pc = "wait"
      /\ UNCHANGED <<route, node, channel, intent, journal, excused, wireFaults>>
  BY DEF Written, NotWritten
<1>2. PICK c \in Generations : c = receiver[n].to
  BY <1>1, ReceiverFacts
<1>3. c \in Journaled /\ conns[c].node = n /\ conns[c] \in Handlers
  BY <1>1, <1>2, ReceiverFacts DEF Typed
<1>4. PICK open \in BOOLEAN :
        /\ open => conns[c].open
        /\ conns' = [conns EXCEPT ![c] = [conns[c] EXCEPT !.open = open, !.write = "none"]]
        /\ \/ conns[c].write = "done" /\ Rest(n)
           \/ ~open /\ Step(n, "fail")
  <2>1. CASE Written(n)
    <3>1. [conns[c] EXCEPT !.write = "none"]
            = [conns[c] EXCEPT !.open = conns[c].open, !.write = "none"]
      BY <1>3 DEF Handlers
    <3>2. /\ conns[c].write = "done" /\ Rest(n) /\ conns[c].open \in BOOLEAN
          /\ conns' = [conns EXCEPT ![c] = [conns[c] EXCEPT !.write = "none"]]
      BY <1>2, <1>3, <2>1 DEF Written, Handlers
    <3>3. conns' = [conns EXCEPT ![c] = [conns[c] EXCEPT !.open = conns[c].open, !.write = "none"]]
      BY <3>1, <3>2
    <3> QED
      BY <3>2, <3>3
  <2>2. CASE NotWritten(n)
    <3>1. [Closed(conns[c]) EXCEPT !.write = "none"]
            = [conns[c] EXCEPT !.open = FALSE, !.write = "none"]
      BY <1>3 DEF Handlers, Closed
    <3>2. /\ conns' = [conns EXCEPT ![c] = [Closed(conns[c]) EXCEPT !.write = "none"]]
          /\ Step(n, "fail")
      BY <1>2, <2>2 DEF NotWritten
    <3> QED
      BY <3>1, <3>2
  <2> QED
    BY <2>1, <2>2
<1>5. /\ conns' \in [Generations -> Handlers] /\ HandlersStay
      /\ conns'[c].write = "none" /\ conns'[c].open = open
      /\ \A x \in Generations : x # c => conns'[x] = conns[x]
  BY <1>4, HandlerOfReceiver
<1>6. SameLinks /\ SessionsClose
  BY <1>1, <1>5, JournaledTyped DEF SameLinks, SessionsClose, HandlersStay
<1>7. PICK r \in Receivers :
        /\ receiver' = [receiver EXCEPT ![n] = r]
        /\ \/ conns[c].write = "done" /\ r = Receiving
           \/ /\ ~open /\ r.pc = "fail" /\ r.to = c /\ r.intent = receiver[n].intent
  <2>1. CASE conns[c].write = "done" /\ Rest(n)
    BY <2>1, RestTyped DEF Rest
  <2>2. CASE ~open /\ Step(n, "fail")
    <3>1. PICK r \in Receivers : r = [receiver[n] EXCEPT !.pc = "fail"]
      BY FailTyped
    <3>2. /\ receiver' = [receiver EXCEPT ![n] = r]
          /\ r.pc = "fail" /\ r.to = c /\ r.intent = receiver[n].intent
      BY <1>2, <2>2, <3>1, ReceiverFacts DEF Step, Receivers
    <3> QED
      BY <2>2, <3>2
  <2> QED
    BY <1>4, <2>1, <2>2
<1>8. receiver'[n] = r /\ \A k \in Nodes : k # n => receiver'[k] = receiver[k]
  BY <1>7 DEF Typed
<1>9. ReceiverInv(n, r)'
  <2>1. CASE r = Receiving
    BY <2>1 DEF ReceiverInv, Receiving
  <2>2. CASE r.pc = "fail" /\ r.to = c /\ r.intent = receiver[n].intent /\ ~open
    <3>1. Addressed(n, r.to, r.intent)
      BY <1>1, <1>2, <2>2, ReceiverFacts DEF ReceiverInv
    <3>2. Addressed(n, r.to, r.intent)'
      BY <1>6, <3>1, AddressedStays DEF WireInv
    <3> QED
      BY <1>5, <2>2, <3>2 DEF ReceiverInv
  <2> QED
    BY <1>7, <2>1, <2>2
<1>10. \A y \in Journaled : Owns(y) => Owns(y)'
  BY <1>1, <1>5, JournaledTyped DEF Owns, HandlersStay
<1>11. ASSUME NEW x \in Generations, conns[x].node = n
       PROVE  /\ conns'[x].write # "done"
              /\ conns[x].writer = "loop" => conns'[x].write \notin {"queued", "done"}
  BY <1>2, <1>5, <1>11 DEF WireInv, WritesInv
<1>12. \A x \in Generations : conns[x].pc \in {"free", "admitted"} => conns'[x].write = "none"
  BY <1>5, ReceiverFacts
<1>13. \A x \in Generations : conns[x].node # n => conns'[x].write = conns[x].write
  BY <1>3, <1>5
<1>14. ASSUME NEW x \in Generations, NEW m \in IntentIds, OnItsWay(x, m)
       PROVE  OnItsWay(x, m)' \/ Settled(x, m)'
  <2>1. OnItsWay(x, m)' \/ (x = c /\ receiver[n].intent = m)
    BY <1>1, <1>2, <1>8, <1>14, ReceiverFacts, StillOnItsWay
  <2>2. CASE x = c /\ receiver[n].intent = m /\ r = Receiving /\ conns[c].write = "done"
    <3>1. c \in intent[m].got
      BY <1>3, <2>2 DEF WireInv, WritesInv
    <3> QED
      BY <1>1, <2>2, <3>1 DEF Settled
  <2>3. CASE x = c /\ receiver[n].intent = m /\ r.pc = "fail" /\ r.to = c /\ r.intent = m
    BY <1>8, <2>3 DEF OnItsWay
  <2> QED
    BY <1>7, <2>1, <2>2, <2>3
<1>15. PacketsSettle
  BY <1>14 DEF PacketsSettle
<1>16. WritesRight(n, r)
  BY <1>11, <1>12, <1>13 DEF WritesRight
<1> QED
  BY <1>1, <1>5, <1>7, <1>9, <1>10, <1>15, <1>16, ReceiverFacts, ReceiverStep

LEMMA Failed ==
  ASSUME Typed, WireInv, NEW n \in Nodes, Fail(n)
  PROVE  Typed' /\ WireInv'
<1>1. /\ receiver[n].pc = "fail" /\ Rest(n) /\ intent' = Pushed(receiver[n].intent)
      /\ UNCHANGED <<conns, node, channel, journal>>
      /\ \/ route' = Removed(receiver[n].to) /\ UNCHANGED <<excused, wireFaults>>
         \/ /\ WireFault /\ excused' = excused \cup {receiver[n].to}
            /\ UNCHANGED route
  BY DEF Fail
<1>2. PICK c \in Generations : c = receiver[n].to
  BY <1>1, ReceiverFacts
<1>3. PICK m \in IntentIds : m = receiver[n].intent
  BY <1>1, ReceiverFacts
<1>4. c \in excused \/ ~Owns(c) \/ ~conns[c].open
  BY <1>1, <1>2, ReceiverFacts DEF ReceiverInv
<1>5. /\ intent' \in [IntentIds -> Deliveries] /\ IntentsStay
      /\ intent'[m].notifies => intent'[m].pushed
  <2>1. intent' = Pushed(m)
    BY <1>1, <1>3
  <2>2. \A k \in IntentIds :
            /\ intent'[k].pc = intent[k].pc /\ intent'[k].left = intent[k].left
            /\ intent'[k].targets = intent[k].targets /\ intent'[k].got = intent[k].got
            /\ intent'[k].notifies = intent[k].notifies /\ intent'[k].lost = intent[k].lost
            /\ intent[k].pushed => intent'[k].pushed
    BY <2>1, PushedFacts
  <2> QED
    BY <2>1, <2>2, PushedFacts DEF IntentsStay
<1>6. PICK r \in Receivers : r = Receiving
  BY RestTyped
<1>7. receiver' = [receiver EXCEPT ![n] = r]
  BY <1>1, <1>6 DEF Rest
<1>8. ReceiverInv(n, r)'
  BY <1>6 DEF ReceiverInv, Receiving
<1>9. RoutesRemoved /\ route' \in [DeviceIds -> 0 .. Incarnations]
  BY <1>1, <1>2, RemovedFacts, ReceiverFacts DEF RoutesRemoved
<1>10. ASSUME NEW y \in Journaled, Owns(y), conns'[y].open, y \notin excused' PROVE Owns(y)'
  <2>1. y # c /\ y \in Generations
    BY <1>1, <1>4, <1>10, JournaledTyped
  <2> QED
    BY <1>1, <1>2, <1>10, <2>1, RemovedFacts DEF Owns
<1>11. ASSUME NEW x \in Generations, NEW k \in IntentIds, OnItsWay(x, k)
       PROVE  OnItsWay(x, k)' \/ Settled(x, k)'
  <2>1. OnItsWay(x, k)' \/ (x = c /\ k = m)
    <3>1. \A j \in Nodes : j # n => receiver'[j] = receiver[j]
      BY <1>7 DEF Typed
    <3> QED
      BY <1>1, <1>2, <1>3, <1>11, <3>1, ReceiverFacts, StillOnItsWay
  <2>2. GivenUp(c, m)'
    <3>1. ~Owns(c)' \/ c \in excused'
      BY <1>1, <1>2, RemovedFacts DEF Owns
    <3> QED
      BY <1>5, <3>1 DEF GivenUp
  <2> QED
    BY <2>1, <2>2 DEF Settled
<1>12. \A x \in Generations : conns[x].node = n =>
            /\ conns'[x].write # "done"
            /\ conns[x].writer = "loop" => conns'[x].write \notin {"queued", "done"}
  BY <1>1, ReceiverFacts
<1>13. wireFaults' \in 0 .. MaxWireFaults
  BY <1>1, ReceiverFacts
<1>14. /\ \A x \in Generations : conns[x].pc \in {"free", "admitted"} => conns'[x].write = "none"
       /\ \A x \in Generations : conns'[x].write = conns[x].write
  BY <1>1, ReceiverFacts
<1>15. /\ conns' \in [Generations -> Handlers] /\ HandlersStay
       /\ channel' \in [Nodes -> Seq(Packets)] /\ PacketsFewer
       /\ excused \subseteq excused' /\ excused' \subseteq Generations
  BY <1>1, ReceiverFacts
<1>16. PacketsSettle
  BY <1>11 DEF PacketsSettle
<1>17. WritesRight(n, r)
  BY <1>12, <1>14 DEF WritesRight
<1> QED
  BY <1>1, <1>5, <1>7, <1>8, <1>9, <1>10, <1>13, <1>15, <1>16, <1>17, ReceiverStep

-----------------------------------------------------------------------------
(* Processes                                                               *)

LEMMA NodeStep ==
  ASSUME Typed, WireInv,
         node' \in [Nodes -> NodeStates],
         \A n \in Nodes : node'[n].phase = "down" => node[n].phase = "down",
         conns' \in [Generations -> Handlers], HandlersStay,
         \A c \in Generations : conns'[c].write = conns[c].write,
         route' \in [DeviceIds -> 0 .. Incarnations], RoutesRemoved,
         excused \subseteq excused', excused' \subseteq Generations,
         wireFaults' \in 0 .. MaxWireFaults,
         \A y \in Journaled : Owns(y) /\ conns'[y].open /\ y \notin excused' => Owns(y)',
         UNCHANGED <<channel, receiver, intent, journal>>
  PROVE  Typed' /\ WireInv'
<1>1. Typed'
  BY DEF Typed
<1>2. SameLinks
  BY DEF SameLinks, HandlersStay
<1>3. Journaled' = Journaled /\ Journaled \subseteq Generations
  BY <1>2, LinksStay, JournaledTyped DEF WireInv
<1>4. HandlersInv'
  <2>1. ASSUME NEW c \in Generations PROVE HandlerInv(c, conns[c])'
    <3>1. HandlerInv(c, conns[c])
      BY DEF WireInv, HandlersInv
    <3> QED
      BY <1>3, <3>1 DEF HandlerInv, HandlersStay
  <2> QED
    BY <2>1 DEF HandlersInv
<1>5. SessionsClose /\ PacketsStay
  BY <1>3 DEF SessionsClose, HandlersStay, PacketsStay, PacketsLast
<1>6. RoutesInv' /\ ReachInv'
  BY <1>2, <1>5, RoutesKept, ReachKept DEF WireInv
<1>7. NodesInv'
  <2>1. NodesStayEmpty
    BY DEF NodesStayEmpty, HandlersStay
  <2> QED
    BY <1>2, <1>5, <2>1, NodesKept DEF WireInv
<1>8. WritesInv'
  <2>1. \A c \in Generations : conns[c].pc = "free" => conns[c].write = "none"
    BY DEF WireInv, HandlersInv, HandlerInv
  <2>2. \A c \in Generations : conns[c].pc # "free" => conns'[c].node = conns[c].node
    BY DEF HandlersStay
  <2>3. \A c \in Generations :
            /\ conns'[c].write = "done" => conns[c].write = "done" /\ conns'[c].writer = "loop"
            /\ conns'[c].writer = "loop" /\ conns'[c].write \in {"queued", "done"} =>
                  conns[c].writer = "loop" /\ conns[c].write = conns'[c].write
    BY DEF WireInv, WritesInv, HandlersStay
  <2> QED
    BY <2>1, <2>2, <2>3, WritesKept DEF WireInv
<1>9. IntentsInv'
  <2>1. IntentsStay
    BY DEF IntentsStay
  <2>2. \A c \in Generations : \A m \in IntentIds : OnItsWay(c, m) => OnItsWay(c, m)'
    BY DEF OnItsWay
  <2> QED
    BY <1>2, <1>5, <2>1, <2>2, IntentsKept DEF WireInv
<1> QED
  BY <1>1, <1>4, <1>6, <1>7, <1>8, <1>9 DEF WireInv

LEMMA PhaseChanged ==
  ASSUME Typed, WireInv, NEW n \in Nodes, StopAccepting(n) \/ Drain(n) \/ Start(n)
  PROVE  Typed' /\ WireInv'
<1>1. UNCHANGED <<conns, route, channel, receiver, intent, journal, excused>>
  BY DEF StopAccepting, Drain, Start
<1>2. wireFaults' \in 0 .. MaxWireFaults
  BY ReceiverFacts DEF StopAccepting, Drain, Start
<1>3. node[n] \in NodeStates /\ SessionsOf(n) \subseteq Generations
  BY DEF Typed, SessionsOf
<1>4. /\ node' \in [Nodes -> NodeStates]
      /\ \A k \in Nodes : node'[k].phase = "down" => node[k].phase = "down"
  <2>1. CASE StopAccepting(n)
    <3>1. [node[n] EXCEPT !.phase = "stopping"] \in NodeStates
      BY <1>3 DEF NodeStates
    <3>2. node' = [node EXCEPT ![n] = [node[n] EXCEPT !.phase = "stopping"]]
      BY <2>1 DEF StopAccepting
    <3> QED
      BY <1>3, <3>1, <3>2 DEF Typed, NodeStates
  <2>2. CASE Drain(n)
    <3>1. [node[n] EXCEPT !.phase = "draining", !.drain = SessionsOf(n)] \in NodeStates
      BY <1>3 DEF NodeStates
    <3>2. node' = [node EXCEPT ![n] = [node[n] EXCEPT !.phase = "draining", !.drain = SessionsOf(n)]]
      BY <2>2 DEF Drain, Typed
    <3> QED
      BY <1>3, <3>1, <3>2 DEF Typed, NodeStates
  <2>3. CASE Start(n)
    <3>1. [node[n] EXCEPT !.phase = "up"] \in NodeStates
      BY <1>3 DEF NodeStates
    <3>2. node' = [node EXCEPT ![n] = [node[n] EXCEPT !.phase = "up"]]
      BY <2>3 DEF Start
    <3> QED
      BY <1>3, <3>1, <3>2 DEF Typed, NodeStates
  <2> QED
    BY <2>1, <2>2, <2>3
<1>5. /\ conns' \in [Generations -> Handlers] /\ HandlersStay
      /\ \A c \in Generations : conns'[c].write = conns[c].write
      /\ route' \in [DeviceIds -> 0 .. Incarnations] /\ RoutesRemoved
      /\ excused \subseteq excused' /\ excused' \subseteq Generations
  BY <1>1, ReceiverFacts
<1>6. \A y \in Journaled : Owns(y) /\ conns'[y].open /\ y \notin excused' => Owns(y)'
  BY <1>1 DEF Owns
<1> QED
  BY <1>1, <1>2, <1>4, <1>5, <1>6, NodeStep

LEMMA SessionRestarted ==
  ASSUME Typed, WireInv, NEW n \in Nodes, NEW c \in Generations, RestartSession(n, c)
  PROVE  Typed' /\ WireInv'
<1>1. /\ UNCHANGED <<route, channel, receiver, intent, journal, excused, wireFaults>>
      /\ conns' = [conns EXCEPT ![c] = Closed(conns[c])]
      /\ node' = [node EXCEPT ![n] = [node[n] EXCEPT !.drain = @ \ {c}]]
  BY DEF RestartSession
<1>2. /\ conns' \in [Generations -> Handlers] /\ HandlersStay
      /\ \A x \in Generations : conns'[x].write = conns[x].write
  <2>1. conns[c] \in Handlers
    BY DEF Typed
  <2>2. Closed(conns[c]) = [conns[c] EXCEPT !.open = FALSE, !.write = conns[c].write]
    BY <2>1 DEF Closed, Handlers
  <2>3. conns[c].write \in {"none", "queued", "done", "failed"}
    BY <2>1 DEF Handlers
  <2>4. conns' = [conns EXCEPT ![c] = [conns[c] EXCEPT !.open = FALSE, !.write = conns[c].write]]
    BY <1>1, <2>2
  <2> QED
    BY <2>3, <2>4, HandlerOfReceiver
<1>3. /\ node' \in [Nodes -> NodeStates]
      /\ \A k \in Nodes : node'[k].phase = "down" => node[k].phase = "down"
  <2>1. node[n] \in NodeStates
    BY DEF Typed
  <2>2. /\ [node[n] EXCEPT !.drain = @ \ {c}] \in NodeStates
        /\ [node[n] EXCEPT !.drain = @ \ {c}].phase = node[n].phase
    BY <2>1 DEF NodeStates
  <2> QED
    BY <1>1, <2>2 DEF Typed
<1>4. /\ route' \in [DeviceIds -> 0 .. Incarnations] /\ RoutesRemoved
      /\ excused \subseteq excused' /\ excused' \subseteq Generations
      /\ wireFaults' \in 0 .. MaxWireFaults
  BY <1>1, ReceiverFacts
<1>5. \A y \in Journaled : Owns(y) /\ conns'[y].open /\ y \notin excused' => Owns(y)'
  BY <1>1, <1>2, JournaledTyped DEF Owns, HandlersStay
<1> QED
  BY <1>1, <1>2, <1>3, <1>4, <1>5, NodeStep

LEMMA Expired ==
  ASSUME Typed, WireInv, NEW d \in DeviceIds, RouteExpires(d)
  PROVE  Typed' /\ WireInv'
<1>1. /\ UNCHANGED <<conns, node, channel, receiver, intent, journal>>
      /\ route[d] # 0 /\ route' = [route EXCEPT ![d] = 0]
  BY DEF RouteExpires
<1>2. PICK c \in Generations : c = route[d]
  BY <1>1, Numbers DEF Typed
<1>3. \/ conns[c].pc = "gone" /\ UNCHANGED <<wireFaults, excused>>
      \/ WireFault /\ excused' = excused \cup {c}
  BY <1>2 DEF RouteExpires
<1>4. /\ route' \in [DeviceIds -> 0 .. Incarnations] /\ RoutesRemoved
  BY <1>1, Numbers DEF Typed, RoutesRemoved
<1>5. /\ excused \subseteq excused' /\ excused' \subseteq Generations
      /\ wireFaults' \in 0 .. MaxWireFaults
  BY <1>3, HandlerFacts DEF Typed
<1>6. /\ conns' \in [Generations -> Handlers] /\ HandlersStay
      /\ \A x \in Generations : conns'[x].write = conns[x].write
  BY <1>1 DEF Typed, HandlersStay
<1>7. ASSUME NEW y \in Journaled, Owns(y), conns'[y].open, y \notin excused' PROVE Owns(y)'
  <2>1. y \in Generations /\ conns[y].device \in DeviceIds
    BY JournaledTyped DEF Typed, Handlers
  <2>2. y # c
    BY <1>1, <1>3, <1>7 DEF WireInv, HandlersInv, HandlerInv
  <2> QED
    BY <1>1, <1>2, <1>7, <2>1, <2>2 DEF Owns, Typed
<1>8. /\ node' \in [Nodes -> NodeStates]
      /\ \A k \in Nodes : node'[k].phase = "down" => node[k].phase = "down"
  BY <1>1 DEF Typed
<1> QED
  BY <1>1, <1>4, <1>5, <1>6, <1>7, <1>8, NodeStep

(* Shutdown and Die. *)
LEMMA Ended ==
  ASSUME Typed, WireInv, NEW n \in Nodes, EndOf(n),
         UNCHANGED <<route, journal, excused>>, wireFaults' \in 0 .. MaxWireFaults
  PROVE  Typed' /\ WireInv'
<1>1. /\ node' \in [Nodes -> NodeStates] /\ node'[n].phase = "down"
      /\ \A k \in Nodes : k # n => node'[k] = node[k]
  BY DEF EndOf, Typed, NodeStates
<1>2. /\ channel' \in [Nodes -> Seq(Packets)] /\ channel'[n] = <<>>
      /\ receiver' \in [Nodes -> Receivers] /\ receiver'[n] = Receiving
      /\ \A k \in Nodes : k # n => channel'[k] = channel[k] /\ receiver'[k] = receiver[k]
  <2>0. <<>> \in Seq(Packets)
    OBVIOUS
  <2>1. channel' = [channel EXCEPT ![n] = <<>>]
    BY Zenon DEF EndOf
  <2>2. receiver' = [receiver EXCEPT ![n] = Receiving]
    BY DEF EndOf
  <2>3. channel \in [Nodes -> Seq(Packets)] /\ receiver \in [Nodes -> Receivers]
    BY DEF Typed
  <2>4. /\ channel' \in [Nodes -> Seq(Packets)] /\ channel'[n] = <<>>
        /\ \A k \in Nodes : k # n => channel'[k] = channel[k]
    BY <2>0, <2>1, <2>3
  <2>5. /\ receiver' \in [Nodes -> Receivers] /\ receiver'[n] = Receiving
        /\ \A k \in Nodes : k # n => receiver'[k] = receiver[k]
    BY <2>2, <2>3, RestTyped
  <2> QED
    BY <2>4, <2>5
<1>3. ASSUME NEW c \in Generations
      PROVE  /\ conns'[c] \in Handlers
             /\ conns'[c].device = conns[c].device /\ conns'[c].node = conns[c].node
             /\ conns'[c].previous = conns[c].previous
             /\ \/ conns'[c] = conns[c] /\ (conns[c].node = n =>
                       conns[c].pc \in {"free", "gone"} /\ conns[c].writer = "none")
                \/ /\ conns[c].node = n
                   /\ conns'[c].pc = "gone" /\ ~conns'[c].open /\ ~conns'[c].listed
                   /\ conns'[c].writer = "none" /\ conns'[c].write = "none"
                   /\ conns[c].pc # "free" \/ conns[c].writer # "none"
  <2>1. conns[c] \in Handlers
    BY DEF Typed
  <2> DEFINE h == [Dropped(conns[c]) EXCEPT !.pc = "gone", !.writer = "none", !.write = "none"]
  <2>2. /\ h \in Handlers /\ h.device = conns[c].device /\ h.node = conns[c].node
        /\ h.previous = conns[c].previous /\ h.pc = "gone" /\ ~h.open /\ ~h.listed
        /\ h.writer = "none" /\ h.write = "none"
    BY <2>1 DEF Handlers, HandlerPcs, Dropped
  <2>3. conns'[c] = IF c \in Handling(n) \/ (conns[c].node = n /\ conns[c].writer # "none")
                    THEN h ELSE conns[c]
    BY DEF EndOf
  <2> HIDE DEF h
  <2>4. c \in Handling(n) <=> conns[c].pc \notin {"free", "gone"} /\ conns[c].node = n
    BY DEF Handling
  <2>5. CASE c \in Handling(n) \/ (conns[c].node = n /\ conns[c].writer # "none")
    BY <2>2, <2>3, <2>4, <2>5
  <2>6. CASE ~(c \in Handling(n) \/ (conns[c].node = n /\ conns[c].writer # "none"))
    BY <2>1, <2>3, <2>4, <2>6
  <2> QED
    BY <2>5, <2>6
<1>4. conns' \in [Generations -> Handlers]
  <2>1. /\ conns' = [c \in Generations |-> conns'[c]]
    BY DEF EndOf
  <2> QED
    BY <1>3, <2>1
<1>5. /\ intent' \in [IntentIds -> Deliveries] /\ IntentsStay
      /\ \A m \in IntentIds : Takes(n, m) \subseteq intent'[m].lost
  <2>1. ASSUME NEW m \in IntentIds
        PROVE  /\ intent'[m] \in Deliveries
               /\ intent'[m].pc = intent[m].pc /\ intent'[m].left = intent[m].left
               /\ intent'[m].targets = intent[m].targets /\ intent[m].got = intent'[m].got
               /\ intent'[m].pushed = intent[m].pushed
               /\ intent'[m].notifies = intent[m].notifies
               /\ intent[m].lost \subseteq intent'[m].lost
               /\ Takes(n, m) \subseteq intent'[m].lost
    <3>1. intent[m] \in Deliveries
      BY DEF Typed
    <3>2. intent'[m] = [intent[m] EXCEPT !.lost = @ \cup Takes(n, m)]
      BY DEF EndOf
    <3>3. Takes(n, m) \subseteq Generations
      BY DEF Takes
    <3> HIDE DEF Takes
    <3> QED
      BY <3>1, <3>2, <3>3 DEF Deliveries
  <2>2. intent' = [m \in IntentIds |-> intent'[m]]
    BY DEF EndOf
  <2> QED
    BY <2>1, <2>2 DEF IntentsStay
<1>6. Typed'
  BY <1>1, <1>2, <1>4, <1>5 DEF Typed
<1>7. SameLinks
  BY <1>3 DEF SameLinks
<1>8. Journaled' = Journaled /\ Journaled \subseteq Generations
  BY <1>7, LinksStay, JournaledTyped DEF WireInv
<1>9. HandlersInv'
  <2>1. ASSUME NEW c \in Generations PROVE HandlerInv(c, conns[c])'
    <3>1. HandlerInv(c, conns[c])
      BY DEF WireInv, HandlersInv
    <3> QED
      BY <1>3, <1>8, <3>1 DEF HandlerInv
  <2> QED
    BY <2>1 DEF HandlersInv
<1>10. SessionsClose /\ RoutesRemoved
  BY <1>3, <1>8 DEF SessionsClose, RoutesRemoved
<1>11. RoutesInv' /\ ReachInv'
  <2>1. \A y \in Journaled : Owns(y) => Owns(y)'
    BY <1>3, <1>8 DEF Owns
  <2> QED
    BY <1>7, <1>10, <2>1, RoutesKept, ReachKept DEF WireInv
<1>12. NodesInv'
  <2>1. ASSUME NEW k \in Nodes, node'[k].phase = "down", NEW c \in Generations, conns'[c].node = k
        PROVE  conns'[c].pc \in {"free", "gone"}
    <3>1. CASE k = n
      BY <1>3, <2>1, <3>1
    <3>2. CASE k # n
      <4>1. node[k].phase = "down" /\ conns[c].node = k /\ conns'[c] = conns[c]
        BY <1>1, <1>3, <2>1, <3>2
      <4> QED
        BY <4>1 DEF WireInv, NodesInv
    <3> QED
      BY <3>1, <3>2
  <2>2. ASSUME NEW k \in Nodes, NEW p, NEW i \in DOMAIN channel'[k], channel'[k][i] = p
        PROVE  PacketInv(k, p)'
    <3>1. k # n
      BY <1>2, <2>2
    <3>2. PacketInv(k, p)
      BY <1>2, <2>2, <3>1 DEF WireInv, NodesInv
    <3> QED
      BY <1>7, <3>2, AddressedStays DEF WireInv, PacketInv
  <2>3. ASSUME NEW k \in Nodes, NEW r, receiver'[k] = r PROVE ReceiverInv(k, r)'
    <3>1. CASE k = n
      BY <1>2, <2>3, <3>1 DEF ReceiverInv, Receiving
    <3>2. CASE k # n
      <4>1. ReceiverInv(k, r)
        BY <1>2, <2>3, <3>2 DEF WireInv, NodesInv
      <4> QED
        BY <1>7, <1>10, <4>1, ReceiverKept DEF WireInv
    <3> QED
      BY <3>1, <3>2
  <2> QED
    BY <2>1, <2>2, <2>3, NodesFrom
<1>13. WritesInv'
  <2> SUFFICES ASSUME NEW c \in Generations
               PROVE  /\ conns'[c].write = "done" =>
                           /\ conns'[c].writer = "loop"
                           /\ c \in intent'[receiver'[conns'[c].node].intent].got
                      /\ conns'[c].writer = "loop" /\ conns'[c].write \in {"queued", "done"} =>
                           /\ receiver'[conns'[c].node].pc = "wait"
                           /\ receiver'[conns'[c].node].to = c
    BY DEF WritesInv
  <2>1. CASE conns[c].node = n
    <3>1. conns[c].write = "done" => conns[c].writer = "loop"
      BY DEF WireInv, WritesInv
    <3> QED
      BY <1>3, <2>1, <3>1
  <2>2. CASE conns[c].node # n
    <3> DEFINE k == conns[c].node
    <3>1. k \in Nodes /\ conns'[c] = conns[c] /\ receiver'[k] = receiver[k]
      BY <1>2, <1>3, <2>2 DEF Typed, Handlers
    <3>2. /\ conns[c].write = "done" => conns[c].writer = "loop" /\ c \in intent[receiver[k].intent].got
          /\ conns[c].writer = "loop" /\ conns[c].write \in {"queued", "done"} =>
                receiver[k].pc = "wait" /\ receiver[k].to = c
      BY DEF WireInv, WritesInv
    <3>3. conns[c].write = "done" => receiver[k].intent \in IntentIds
      BY <3>1, <3>2 DEF WireInv, NodesInv, ReceiverInv, Addressed
    <3> QED
      BY <1>5, <3>1, <3>2, <3>3 DEF IntentsStay
  <2> QED
    BY <2>1, <2>2
<1>14. IntentsInv'
  <2>1. ASSUME NEW c \in Generations, NEW m \in IntentIds, OnItsWay(c, m)
        PROVE  OnItsWay(c, m)' \/ Settled(c, m)'
    <3>1. PICK k \in Nodes :
            \/ \E i \in DOMAIN channel[k] :
                  channel[k][i].to = c /\ channel[k][i].intent = m /\ ~channel[k][i].close
            \/ receiver[k].pc # "idle" /\ receiver[k].to = c /\ receiver[k].intent = m
      BY <2>1 DEF OnItsWay
    <3>2. CASE k = n
      <4>1. c \in Takes(n, m)
        BY <3>1, <3>2 DEF Takes
      <4> QED
        BY <1>5, <4>1 DEF Settled
    <3>3. CASE k # n
      <4>1. channel'[k] = channel[k] /\ receiver'[k] = receiver[k]
        BY <1>2, <3>3
      <4> QED
        BY <3>1, <4>1 DEF OnItsWay
    <3> QED
      BY <3>2, <3>3
  <2> QED
    BY <1>5, <1>7, <1>10, <2>1, IntentsKept DEF WireInv
<1> QED
  BY <1>6, <1>9, <1>11, <1>12, <1>13, <1>14 DEF WireInv

LEMMA ProcessEnded ==
  ASSUME Typed, WireInv, NEW n \in Nodes, Shutdown(n) \/ Die(n)
  PROVE  Typed' /\ WireInv'
<1>1. /\ EndOf(n) /\ UNCHANGED <<route, journal, excused>>
      /\ wireFaults' = wireFaults \/ WireFault
  BY DEF Shutdown, Die
<1>2. wireFaults' \in 0 .. MaxWireFaults
  BY <1>1, ReceiverFacts
<1> QED
  BY <1>1, <1>2, Ended

-----------------------------------------------------------------------------
(* The specification                                                       *)

LEMMA WireStarts == WireInit => Typed /\ WireInv
<1> SUFFICES ASSUME WireInit PROVE Typed /\ WireInv
  OBVIOUS
<1>1. FreeHandler \in Handlers
  <2>1. /\ (CHOOSE d \in DeviceIds : TRUE) \in DeviceIds
        /\ (CHOOSE n \in Nodes : TRUE) \in Nodes
    BY ConnectionsAssumption
  <2>2. 0 \in 0 .. Incarnations
    BY Numbers
  <2> QED
    BY <2>1, <2>2 DEF FreeHandler, Handlers, HandlerPcs
<1>2. NewIntents \subseteq Deliveries /\ intent \in [IntentIds -> NewIntents]
  <2>1. ASSUME NEW b \in BOOLEAN, NEW s \in SUBSET DeviceIds PROVE NewIntent(b, s) \in Deliveries
    BY DEF NewIntent, Deliveries
  <2>2. {} \in SUBSET DeviceIds /\ \A d \in DeviceIds : {d} \in SUBSET DeviceIds
    OBVIOUS
  <2>3. \A x \in NewIntents : \E b \in BOOLEAN, s \in SUBSET DeviceIds : x = NewIntent(b, s)
    BY <2>2 DEF NewIntents
  <2> QED
    BY <2>1, <2>3 DEF WireInit
<1>3. MaxWireFaults \in 0 .. MaxWireFaults /\ 0 \in 0 .. Incarnations
  BY ConnectionsAssumption
<1>4. journal \in Seq(Generations) /\ Journaled = {}
  BY DEF WireInit, Journaled
<1>5. channel \in [Nodes -> Seq(Packets)] /\ \A n \in Nodes : channel[n] = <<>>
  BY DEF WireInit
<1>6. Typed
  BY <1>1, <1>2, <1>3, <1>4, <1>5, RestTyped DEF WireInit, Typed, NodeStates
<1>7. ASSUME NEW c \in Generations PROVE HandlerInv(c, conns[c]) /\ ~Latest(c) /\ ~conns[c].open
  BY <1>4 DEF WireInit, FreeHandler, HandlerInv, Latest
<1>8. RoutesInv
  BY Numbers DEF WireInit, RoutesInv
<1>9. NodesInv
  <2>1. ASSUME NEW n \in Nodes PROVE ReceiverInv(n, receiver[n])
    BY DEF WireInit, ReceiverInv, Receiving
  <2>2. \A n \in Nodes : node[n].phase = "up" /\ DOMAIN channel[n] = {}
    BY DEF WireInit
  <2> QED
    BY <2>1, <2>2 DEF NodesInv
<1>10. WritesInv
  BY DEF WireInit, WritesInv, FreeHandler
<1>11. IntentsInv
  <2>1. \A x \in NewIntents : x.pc = "new" /\ x.left = {} /\ x.targets = {}
    BY DEF NewIntents, NewIntent
  <2> QED
    BY <1>2, <2>1 DEF IntentsInv
<1> QED
  BY <1>6, <1>7, <1>8, <1>9, <1>10, <1>11 DEF WireInv, HandlersInv, ReachInv

LEMMA WireSteps == Typed /\ WireInv /\ [WireNext]_wireVars => Typed' /\ WireInv'
<1> SUFFICES ASSUME Typed, WireInv, [WireNext]_wireVars PROVE Typed' /\ WireInv'
  OBVIOUS
<1>1. ASSUME NEW c \in Generations, Handler(c) \/ RegisterFails(c) \/ HangUp(c)
      PROVE  Typed' /\ WireInv'
  BY <1>1, Opened, Checked, Registered, RegisterFailed, Served, Left, LeftSession, LeftRegistry
     DEF Handler
<1>2. ASSUME NEW c \in Generations, Writer(c) PROVE Typed' /\ WireInv'
  BY <1>2, Wrote, WriteFailed, WriterLeft, WriterGone DEF Writer
<1>3. ASSUME NEW c \in Generations, NEW d \in DeviceIds, NEW n \in Nodes, Admit(c, d, n)
      PROVE  Typed' /\ WireInv'
  BY <1>3, Admitted
<1>4. ASSUME NEW m \in IntentIds, Delivering(m) \/ ListFails(m) \/ DeliverAgain(m)
      PROVE  Typed' /\ WireInv'
  BY <1>4, RoutesListed, ListFailed, SentTo, SendFailed, HandedOn, BegunAgain DEF Delivering
<1>5. ASSUME NEW n \in Nodes, Receiver(n) \/ OwnsFails(n) \/ LosePacket(n)
      PROVE  Typed' /\ WireInv'
  BY <1>5, CloseReceived, PacketReceived, PacketLost, Reconsidered, Enqueued, WriteEnded, Failed
     DEF Receiver
<1>6. ASSUME NEW n \in Nodes, StopAccepting(n) \/ Drain(n) \/ Shutdown(n) \/ Die(n) \/ Start(n)
      PROVE  Typed' /\ WireInv'
  BY <1>6, PhaseChanged, ProcessEnded
<1>7. ASSUME NEW n \in Nodes, NEW c \in Generations, RestartSession(n, c) PROVE Typed' /\ WireInv'
  BY <1>7, SessionRestarted
<1>8. ASSUME NEW d \in DeviceIds, RouteExpires(d) PROVE Typed' /\ WireInv'
  BY <1>8, Expired
<1>9. CASE UNCHANGED wireVars
  <2>1. /\ UNCHANGED <<channel, receiver, intent, journal>>
        /\ node' \in [Nodes -> NodeStates]
        /\ \A n \in Nodes : node'[n].phase = "down" => node[n].phase = "down"
        /\ conns' \in [Generations -> Handlers] /\ HandlersStay
        /\ \A c \in Generations : conns'[c].write = conns[c].write
    BY <1>9 DEF wireVars, Typed, HandlersStay
  <2>2. /\ route' \in [DeviceIds -> 0 .. Incarnations] /\ RoutesRemoved
        /\ excused \subseteq excused' /\ excused' \subseteq Generations
        /\ wireFaults' \in 0 .. MaxWireFaults
        /\ \A y \in Journaled : Owns(y) /\ conns'[y].open /\ y \notin excused' => Owns(y)'
    BY <1>9 DEF wireVars, Typed, RoutesRemoved, Owns
  <2> QED
    BY <2>1, <2>2, NodeStep
<1> QED
  BY <1>1, <1>2, <1>3, <1>4, <1>5, <1>6, <1>7, <1>8, <1>9 DEF WireNext

LEMMA WireInvHolds == WireSpec => [](Typed /\ WireInv)
<1> QED
  BY WireStarts, WireSteps, PTL DEF WireSpec

LEMMA WireInvPromises == Typed /\ WireInv => NewestReachable /\ DeliveredOrPushed
<1> SUFFICES ASSUME Typed, WireInv PROVE NewestReachable /\ DeliveredOrPushed
  OBVIOUS
<1>1. NewestReachable
  BY DEF WireInv, ReachInv, NewestReachable
<1>2. ASSUME NEW m \in IntentIds, intent[m].pc = "done", NEW c \in intent[m].targets,
             \A n \in Nodes : c \notin Takes(n, m)
      PROVE  Settled(c, m)
  <2>1. c \in intent[m].left \/ Settled(c, m) \/ OnItsWay(c, m)
    BY <1>2 DEF WireInv, IntentsInv
  <2>2. intent[m].left = {}
    BY <1>2 DEF WireInv, IntentsInv
  <2>3. c \in Generations
    BY <1>2 DEF Typed, Deliveries
  <2>4. ~OnItsWay(c, m)
    BY <1>2, <2>3 DEF OnItsWay, Takes
  <2> QED
    BY <2>1, <2>2, <2>4
<1> QED
  BY <1>1, <1>2 DEF DeliveredOrPushed, Settled

(* Connections, routes, packets and intents have their types (Session,     *)
(* Registry, Packet, Delivery of realtime-service).                        *)
THEOREM WireTyped == WireSpec => []WireTypeOK
<1> QED
  BY WireInvHolds, TypedIsTyped, PTL

(* A device that reconnects stays reachable: of the open connections of a  *)
(* device the one that registered last has the route, unless a fault of    *)
(* its own took it, whatever handlers, write loops and receivers of its    *)
(* earlier connections still do (registerScript, removeScript,             *)
(* Disconnect, fail).                                                      *)
THEOREM NewestStaysReachable == WireSpec => []NewestReachable
<1> QED
  BY WireInvHolds, WireInvPromises, PTL

(* The code drops no intent: a connection that was to get one got it, or   *)
(* pub/sub or its node lost the packet, or its device registered again, or *)
(* it was given up -- with a push where there is a notification, and with  *)
(* the loss of its route unless Redis failed (Deliver, receive,            *)
(* WriteMessage, fail).                                                    *)
THEOREM NothingVanishes == WireSpec => []DeliveredOrPushed
<1> QED
  BY WireInvHolds, WireInvPromises, PTL

=============================================================================
