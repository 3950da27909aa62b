------------------------------ MODULE InboxSync ------------------------------
(***************************************************************************)
(* Devices that follow the streams of their users: a device asks for the   *)
(* changes after its position (SyncMessages), the server answers with a    *)
(* page, each entry shown as the database is now, or with a rebuild, and   *)
(* the device applies the answer to its cache (messageSync.ts).            *)
(*                                                                         *)
(* The answer comes from one repeatable-read snapshot and the device asks  *)
(* again only after it has applied it, so asking, answering and applying   *)
(* are one action.  Live messages, which only anticipate the stream, and   *)
(* several tabs on one cache are left out.                                 *)
(***************************************************************************)
EXTENDS InboxDelivery, FiniteSets, FiniteSetsExt

CONSTANTS Devices,
          UserOf,   \* the user of a device
          Limit     \* entries of a page, messages of a rebuilt conversation

ASSUME SyncAssumption == UserOf \in [Devices -> Users] /\ Limit \in Nat \ {0}

VARIABLE device     \* the durable caches (UserSyncCache)

vars == <<deliveryVars, device>>

Seen == [id: Nat, edits: Nat, recalled: BOOLEAN]
Caches == [position: Nat, conversations: SUBSET Conversations,
           messages: [Conversations -> SUBSET Seen],
           deleted: [Conversations -> SUBSET Nat], read: [Conversations -> Nat]]

-----------------------------------------------------------------------------
(* The server's answer (ReadPage, SyncMessages)                             *)

Boundary(s) == Larger(s.retained, s.expired)

RebuildReason(s, position) ==
    IF position = 0 THEN "new_device"
    ELSE IF position > s.position THEN "unknown_position"
    ELSE IF position < Boundary(s) THEN "expired_position"
    ELSE IF position \notin {s.position, Boundary(s)} \cup Allocated(s)
    THEN "unknown_position"
    ELSE ""

(* What the user may see of the conversation's messages (readQuery).        *)
Visible(c, u) ==
    {m \in DOMAIN conv[c].messages :
        ~conv[c].messages[m].deleted /\ u \notin conv[c].messages[m].hidden}
Shown(c, m) == [id |-> m, edits |-> conv[c].messages[m].edits,
                recalled |-> conv[c].messages[m].recalled]

Newest(ids) == {m \in ids : Cardinality({n \in ids : n > m}) < Limit}

After(s, position) == {e \in s.entries : e.position > position}
(* The first Limit of them. *)
Page(s, position) ==
    {e \in After(s, position) :
        Cardinality({f \in After(s, position) : f.position < e.position}) < Limit}

NextPositionAhead(s, position) == s.position
(* A page that leaves entries behind ends at its own last one.              *)
NextPosition(s, position) ==
    IF Page(s, position) = After(s, position) THEN s.position
    ELSE Max({e.position : e \in Page(s, position)})

-----------------------------------------------------------------------------
(* The device's cache (applyChange, mergeMessage, sync)                     *)

Merge(seen, message) ==
    IF \E old \in seen : old.id = message.id /\ old.recalled /\ ~message.recalled
    THEN seen
    ELSE {old \in seen : old.id # message.id} \cup {message}

Drop(cache, c) ==
    [cache EXCEPT !.conversations = @ \ {c}, !.messages[c] = {}, !.read[c] = 0]

Show(cache, u, e) ==
    LET c == e.conv
        known == [cache EXCEPT !.conversations = @ \cup {c},
                               !.read[c] = conv[c].read[u]]
    IN IF e.kind \notin MessageKinds THEN known
       ELSE IF e.kind = "deleted" \/ e.message \notin Visible(c, u)
       THEN [known EXCEPT !.deleted[c] = @ \cup {e.message},
                          !.messages[c] = {seen \in @ : seen.id # e.message}]
       ELSE IF e.message \in cache.deleted[c] THEN known
       ELSE [known EXCEPT !.messages[c] = Merge(@, Shown(c, e.message))]

(* A removal is always told; other changes only to who is a member now.     *)
ApplyChangeToMembers(cache, u, e) ==
    IF u \notin conv[e.conv].members THEN cache
    ELSE IF e.kind = "removed" THEN Drop(cache, e.conv)
    ELSE Show(cache, u, e)
ApplyChange(cache, u, e) ==
    IF e.kind = "removed" THEN Drop(cache, e.conv)
    ELSE IF u \notin conv[e.conv].members THEN cache
    ELSE Show(cache, u, e)

(* The entries of a page, one after the other in the order of their         *)
(* positions: the cache after those up to a position.                       *)
ApplyAt(cache, u, page, position) ==
    IF \E e \in page : e.position = position
    THEN ApplyChange(cache, u, CHOOSE e \in page : e.position = position) ELSE cache
ApplyPage(cache, u) ==
    LET s == stream[u]
        page == Page(s, cache.position)
        upTo[position \in 0 .. s.position] ==
            IF position <= cache.position THEN cache
            ELSE ApplyAt(upTo[position - 1], u, page, position)
    IN [upTo[s.position] EXCEPT !.position = NextPosition(s, cache.position)]

(* Every conversation of the user with its newest messages; only what the   *)
(* device knows as deleted survives.                                        *)
Rebuild(cache, u) ==
    LET mine == {c \in Conversations : u \in conv[c].members}
    IN [position |-> stream[u].position,
        conversations |-> mine,
        messages |-> [c \in Conversations |->
            IF c \in mine
            THEN {Shown(c, m) : m \in Newest(Visible(c, u)) \ cache.deleted[c]} ELSE {}],
        deleted |-> cache.deleted,
        read |-> [c \in Conversations |-> IF c \in mine THEN conv[c].read[u] ELSE 0]]

(* A positive checkpoint exists before the first snapshot.                  *)
EnsureStream(d) ==
    /\ stream[UserOf[d]].position = 0
    /\ stream' = [stream EXCEPT ![UserOf[d]].position = 1,
                                ![UserOf[d]].retained = 1]
    /\ UNCHANGED <<conv, outbox, batch, partition, group, writer, faults, device>>

Sync(d) ==
    LET u == UserOf[d]
        old == device[d]
    IN /\ stream[u].position > 0
       /\ device' = [device EXCEPT ![d] =
             IF RebuildReason(stream[u], old.position) = ""
             THEN ApplyPage(old, u) ELSE Rebuild(old, u)]
       /\ UNCHANGED deliveryVars

-----------------------------------------------------------------------------
NewDevice == [position |-> 0, conversations |-> {},
              messages |-> [c \in Conversations |-> {}],
              deleted |-> [c \in Conversations |-> {}],
              read |-> [c \in Conversations |-> 0]]

Init == DeliveryInit /\ device = [d \in Devices |-> NewDevice]

Next ==
    \/ DeliveryNext /\ UNCHANGED device
    \/ \E d \in Devices : EnsureStream(d) \/ Sync(d)

Spec == Init /\ [][Next]_vars

(* A device asks after every hint of a written change and whenever it is    *)
(* connected again.                                                         *)
SyncFairness == \A d \in Devices : WF_vars(EnsureStream(d)) /\ WF_vars(Sync(d))

FairSpec == Spec /\ DeliveryFairness /\ SyncFairness

-----------------------------------------------------------------------------
(* Properties                                                               *)

(* The caches stay in their domain (UserSyncCache).                         *)
TypeOK == DeliveryTypeOK /\ device \in [Devices -> Caches]

(* Every change was sent, and its partition consumed to the end.            *)
Delivered ==
    \A c \in Conversations :
        /\ \A i \in DOMAIN outbox[c] : outbox[c][i].status = "sent"
        /\ group[c].committed = Len(partition[c])

UpToDate(d) ==
    Delivered /\ device[d].position > 0
    /\ device[d].position = stream[UserOf[d]].position

(* The conversations, reads and messages of a device that has followed its  *)
(* stream to the end are those of the database: none that was left, deleted *)
(* or hidden, none in an older version, and none missing that was sent      *)
(* since its user last joined (SyncMessages, applyChange).  A rebuild shows *)
(* the newest Limit messages only, so longer conversations are excluded.    *)
UpToDateMeansComplete ==
    \A d \in Devices : UpToDate(d) =>
        LET u == UserOf[d] IN
        /\ device[d].conversations = {c \in Conversations : u \in conv[c].members}
        /\ \A c \in device[d].conversations :
              LET seen == device[d].messages[c] IN
              /\ device[d].read[c] = conv[c].read[u]
              /\ seen \subseteq {Shown(c, m) : m \in Visible(c, u)}
              /\ Len(conv[c].messages) <= Limit =>
                    \A m \in Visible(c, u) : m > conv[c].joined[u] => Shown(c, m) \in seen

(* A device that follows its stream is sent back to a rebuild only when     *)
(* what it has not seen yet has expired, although coalesced reads leave     *)
(* holes where it may stand (ReadPage, inbox_applied_changes).              *)
FollowersAreKnown ==
    \A d \in Devices : device[d].position > 0 =>
        RebuildReason(stream[UserOf[d]], device[d].position) \in {"", "expired_position"}

(* Whatever was pruned, and however the retention is changed, a device that *)
(* may go on following its stream still finds there every change it has not *)
(* seen, or the newer read that replaced it (Prune, ReadPage).              *)
FollowersMissNothing ==
    \A d \in Devices :
        LET s == stream[UserOf[d]] IN
        device[d].position > 0 /\ RebuildReason(s, device[d].position) = "" =>
            \A a \in s.applied : a.position > device[d].position =>
                \E e \in s.entries :
                    /\ e.conv = a.conv /\ e.position >= a.position
                    /\ \/ e.change = a.change
                       \/ e.kind = "read" /\ outbox[a.conv][a.change].kind = "read"

SomeBlocked ==
    \E c \in Conversations : \E i \in DOMAIN outbox[c] : outbox[c][i].status = "failed"

(* Changes stop coming and no key is blocked: sooner or later every device  *)
(* is up to date (dispatchBatch, ConsumeClaim, reSync).                     *)
EventuallyUpToDate == []<>(SomeBlocked \/ \A d \in Devices : UpToDate(d))

=============================================================================
